# Models of c-cpp-practice

The repository is a collection of seven independent programs.  This directory
holds TLA+ models of all seven, the TLC runs that check the models on small
instances, and proofs, checked by TLAPS, that hold for instances of every
size.  `PROJECT.json` lists the components, the runs, which
lines of code each definition stands for, the hazards the properties are aimed
at, and the theorems.

    tlc -workers 2 -config chat_story.cfg MCChatServer.tla      # a run
    tlapm ChatServerProofs.tla                                  # the proofs

## 1. Inventory

### Chat room (`epoll实现高并发聊天室/`: server.cpp, client.cpp, utility.h)

*Server.*  One thread, an epoll loop over the listening socket and one socket
per client, all of them edge-triggered and non-blocking.  State: the list
`clients_list` of descriptors, the batch of events `epoll_wait()` has
returned, and, in the kernel, the backlog, the sockets' buffers and the edges
not yet reported.  Operations, one per event: accept a client, add and welcome
it; receive from a client once and pass the text on, tell a lone client so,
remove a client that has closed.  Any failing call ends the process
(`CHECK_ERR`), as does SIGPIPE.  *Client.*  Two processes joined by a pipe:
the child reads the keyboard, the parent waits for the pipe and the socket
with edge-triggered epoll and handles each event with one `read()` or
`recv()`.  They share no memory; client and server talk over TCP in blocks of
`BUF_SIZE` bytes.

*Hard:* one edge stands for everything that has arrived; events handled earlier
in a batch close or reuse what later ones name; descriptors are given again;
messages arrive in pieces; a client leaves, aborts or stops reading while the
others speak; the two processes of a client end independently.  *Correct
means:* the list is the set of open connections; an event is still true when
it is handled; people in the room are told the same story in order, under the
right names; nobody can end the server but in the ways the code accepts;
messages are passed on, leavers removed, and the client ends when asked.

### HTTP proxy (`HTTP代理/proxyme.c`)

`server_loop()` accepts and forks a handler per connection; SIGCHLD reaps
handlers, SIGTERM ends the server.  A handler reads a header from the client,
connects to the remote host and forks two forwarders, which inherit both
sockets and copy in opposite directions until one end is there; each then
shuts both sockets down.  State: the descriptors each process holds, zombies
and the pending signal; per session the two TCP streams, what is under way,
what is shut down.  *Hard:* signals merge and interrupt; three processes share
two sockets; each of them can fail to be forked; either peer can close,
half-close, abort or stop reading at any time.  *Correct means:* both streams
arrive in order, without gaps, and whole at a peer that stays; a session ends
when a peer has ended; no zombie and no descriptor is left over.
In front of all that stands sequential work on the header's text:
`read_header` looks for its end, `extract_host` for the remote host and its
port, `rewrite_header` takes the host out of the first line.  All three find
their way with `strchr` and `strstr`, which look as far as the text goes.
*Correct means:* the session goes where the client wants, and the remote host
gets the same request with the path alone in its first line.

### 2048 (`2048小游戏/2048.c`)

State: the board, the score and the best score, the end flag, `moved`.
Operations: one per key.  *Hard:* the in-place loop with two indices that
slides a row, run in four directions; the agreement of `check2048()` with what
the moves do; what is reset by a restart and what is not.  *Correct means:*
the loop does what the rule of the game says, no tile is lost, the score
accounts for the tiles, GAME OVER comes exactly when nothing can move.

### Address book (`简单通讯录/contacts.cpp`)

State: the vector of contacts and the file `contacts.dat`, two lines per
contact.  Operations: load at the start, add, delete, search, list, save,
exit.  *Hard:* the save overwrites the file in place and can be cut short; the
loader skips blank lines; elements are erased during iteration; the input can
end at any prompt.  *Correct means:* what was saved is read back.

### Calendar (`万年历/calendar.c`)

Prints one month or twelve.  State: a global table of month lengths that leap
years write into.  *Correct means:* weekdays follow from one page to the next
and from year to year; a year has twelve months of the right lengths.

### Calculator (`简单计算器/calculator.c`)

Scans a line once, with a stack of numbers and one of operators that are only
reset behind a result.  State: both stacks, the position in the line, and
`numStr`, into which digits are copied before they become a number.  *Hard:*
the stacks start in front of their arrays; brackets are resolved by popping
until the one that opens; the character behind the one that closes is taken
for an operator.  *Correct means:* the value printed is that of the line, by
the rules of arithmetic, whatever was calculated before.

### Web framework (`Web 服务框架/`)

A server template over boost::asio with a thread pool, keep-alive connections
and a table of functions by path and method, for HTTP and HTTPS, and example
resources.  State: the table, the operations and handlers the io_service has
under way, one socket and one buffer per connection.  Operations are
completion handlers: accept (and call accept again), handshake, header read,
content read, respond, written.  Nothing is locked; what keeps two threads
from one connection is that its next operation is only started by the handler
of the last one.  *Hard:* `resource[...][method]` inserts into a table all
threads share; a header is read with whatever came behind it; the content
still missing is a difference of two lengths; exceptions thrown in a handler
leave `run()`.  *Correct means:* each request is answered once, in order, with
what its resource makes of it, another accept is always under way, and no
client that asks for what is offered ends the server.

## 2. Modules and the code they stand for

| module | models | state and actions |
|---|---|---|
| `ChatServer` | server.cpp, utility.h | `clients_list`, the batch `events`, the kernel's `ready` edges, `backlog`, `fdOf`, `link`, stream positions `sent`/`rcvd`, and what was queued for each client. One action per event handled: `Accept`, `AcceptFails`, `Disconnect`, `TellAlone`, `Broadcast`, `RecvError`; `EpollWait` between batches; the clients' operations as environment |
| `ChatRoom` | what the server promises | who is present, what each was told, how many messages of each were taken; no sockets, descriptors or loop |
| `ChatClient` | client.cpp after `fork()` | the child (`TypeLine`, `TypeExit`), the parent (`EpollWait`, `Receive`, `ReadEnd`, `Forward`), the pipe, and the server behind the socket |
| `ProxyHeader` | proxyme.c: `read_header`, `extract_host`, `rewrite_header` | pure operators over texts made of words and signs; and, for comparison, requests as their clients mean them |
| `ProxySession` | proxyme.c: `handle_client`, `create_connection`, the two `forward_*` processes | program counters of three processes, the sockets they share, both streams, the peers; the header in between |
| `ProxyServer` | proxyme.c: `server_loop`, signal handlers | the loop's step, `backlog`, who has which descriptor, zombies, the pending SIGCHLD |
| `Row2048` | 2048.c: the loop of `move_*` | the size `n`; pure operators: one iteration (`Body`), the whole loop (`Slid`), and the rule of the game written without cells (`Ruled`) |
| `Slide2048` | the same loop step by step | `loop` = the row, `k`, `x`, score gained, `moved` |
| `Game2048` | 2048.c: `main`, `update2048`, `check2048` | the board and scores; an action per key, which takes the board apart into lines (`LineOf`), slides them (`Lines`) and puts it together again (`BoardOf`) |
| `Contacts` | contacts.cpp | where the process waits, the vector, the lines in the file, the save in progress; an action per line of input and per line written |
| `Calendar` | calendar.c | the global table and the pages printed so far |
| `Calculator` | calculator.c: `main`, `cal_top_two`, the stacks | where the scan is, both stacks, the line and what it means; an action per branch of the inner loop |
| `WebServer` | server_base.h, server_http.h, server_https.h, the table of handler.h | `work`, one record per operation or running handler, the shared `table`, how many accepts are under way, and each client's stream of units; an action per completion handler (`respond()` is split where it touches the table), and the clients |
| `WebConversation` | what the framework promises | per client: the questions, and the replies given in turn |
| `ChatServerProofs`, `ChatClientProofs`, `ProxyProofs`, `Game2048Proofs`, `ContactsProofs`, `WebServerProofs`, `SmallToolsProofs` | | theorems, see section 6 |
| `SequenceLemmas` | | lemmas those proofs share: parts of sequences, suffixes, flattened sequences, recursive functions, sums |

`ChatServer` contains `Room == INSTANCE ChatRoom WITH ...`, the refinement
mapping: the room is the set of connections with a descriptor, the inbox is
what was queued for each, `said` is the number of messages received from each
at least in part.  `WebServer` contains
`Conversation == INSTANCE WebConversation WITH ...` in the same way: the
questions are the requests that have been sent whole, the replies are what has
been written.  `ProxySession` extends `ProxyHeader`; its `ReadHeader` works on the
text of a request and its `Connect` on what `extract_host` made of it.
`Game2048` and `Slide2048` extend `Row2048`, one for whole
moves, the other for the loop's intermediate states; their names differ, so
that `Game2048Proofs` can extend both.  So do those of `ProxySession` and
`ProxyServer`, which `ProxyProofs` extends, and those of `Calculator` and
`Calendar`, which `SmallToolsProofs` extends.  The `MC*` modules add symmetry
sets, or the requests and lines to choose from, for TLC.

Operators named in comments such as "`NotRemoved`: it is forgotten" are
plausible mistakes kept beside the right definition.  With one of them in its
place a run fails, which shows that its property depends on the code.

### Abstractions

* **Chat streams.**  A client message is one `send()` of `BUF_SIZE` bytes whose
  text stands in front and whose rest is zero.  It is seen as `BufSegments`
  segments that may arrive one by one; only the first carries text, which is
  named by its number in the stream.  `recv()` takes up to one message's worth
  from wherever the stream stands.  A `send()` is taken whole or not at all: the
  partial sends a non-blocking socket may make are not modelled.  Texts are
  short enough for the label that `sprintf()` puts in front of them.
* **The list.**  A node is a descriptor; the model also notes the connection it
  was pushed for, so that a stale node would show.  Its order is not kept: no
  loop but the broadcast reads it, and the clients a failing broadcast has
  already reached are any subset.  `EPOLL_SIZE` is large enough for every
  batch, which the handlers then take in any order.
* **TCP.**  A connection is up, closed by its peer, being answered by a reset,
  reset, or closed here.  Linux decides what is told when: data first, then the
  end or the error, once; then SIGPIPE for a writer.
* **The client's server lines** are blocks of the same size (the caution, which
  is sent shorter, too); typed lines fit into one `read()`.
* **The proxy's data** are numbered chunks, each for one `recv()`.  The header is
  the first one, a text of words and signs.  What the code searches for is always
  divided off as words of its own (`Keyword`), within a longer word too, as in
  `X-Forwarded-`, `Host`, `:`; no two of these words can overlap, so that a search
  for words is the search for the substring that `strstr` makes.  A `Request` is
  one of three forms, with any path, host, port, number of blanks behind `Host:`,
  lines in front of the Host line and behind it, and with one of three kinds of
  line ends; any of the searched words may stand in any of its parts.  With one
  kind of ends the empty line is not one to `read_header`, and what the client
  sends later (`late`) may have one.  TLC goes through a set with and without a
  path, a port and a blank, with other lines that hold an address, a CONNECT, or a
  name that ends in Host, and with a host that ends in HTTP.  Leaving out one
  character of a word makes another word (the others have two letters or more).
  The header fits the header's buffer, ends where `read_header` stops, and what
  `memcpy` moves is taken to be moved as `memmove` would.  A NULL that `strchr` or
  `strstr` returns and the code uses ends the process that does.  The success of
  `connect()` and `fork()` is a choice.
* **The proxy's accept loop.**  An iteration is named by the client it accepts, or
  is a `Stray` for which `accept()` fails: nobody looks, and a process is forked for
  descriptor -1.
* **2048.**  A random place is every number below the count of empty cells, and
  stands for the cell the code finds by it, if any; a random tile is either tile.
  Drawing is left out.  `moved` starts with any value, as a variable the code does
  not initialise does.
* **Web.**  A request is a first and a last part of its header, then the units of
  its content; reads take any number of them.  A client announces no length, one
  that `std::stoull` cannot read, or, as these clients are assumed to do, the
  length of what it sends.  Reads and writes fail for clients that have closed
  only.  Which regular expression matches is a property of the path; what a
  default resource makes of a file is left out.  Of a garbled first line only one
  thing matters: that there is no method, path or version. A fault and an uncaught
  exception both end the process.  asio runs handlers on any free thread, so that
  between two of them anything may happen; within `respond()` two threads may be
  at the table at once.
* **Calculator.**  A value is the calculation it stands for, so that two are equal
  only if they come about in the same way; a number is one character.  The cells
  in front of the two arrays hold what is put there, and the byte in front of
  `numStr`, which decides about a sign without digits, may be anything.  A line
  ends in LF and is shorter than the buffer.
* **Contacts.**  A line is one of a few values, the blank one among them; a write
  that fails leaves nothing of its line, or one of its `Cut`s.
* **Set-up** (options, `socket`, `bind`, `listen`), where an error ends the
  program before its loop starts, is left out everywhere.

## 3. Runs

Deadlock is not an error in these runs: a server whose clients are quiet, a
game that was left, a session that is over and a loop that has ended have no
next step.

| run | instance | shows |
|---|---|---|
| `chat_story` | 3 connections, of which 2 may leave, 3 client descriptors, 2 messages of 2 segments, room for 2 unread lines | the list is the set of open sockets, events stay true, members are told the same story, and the server implements `ChatRoom` |
| `chat_paced` | 3 connections, 2 client descriptors, 1 message, clients wait for the server between operations | everyone is welcomed, messages are answered, leavers are removed, and an end of the process has a client as its cause |
| `chat_leaving`* | 2 connections | a client that only leaves ends the server for one that stays |
| `client` | 3 typed lines, 3 server lines of 2 segments, room for 1 message | nothing is sent or shown twice or out of order, out of one buffer used again and again; a paced client notices both ends and shows every line |
| `proxy_session` | 3 chunks each way, room for 2, requests of every form | where a session goes, what becomes of its header, and the order, completeness and end of its streams |
| `proxy_server` | 3 clients, 1 failing `accept()` | zombies, descriptors, service |
| `slide` | rows of 5 cells, tiles 2, 4, 8 | the loop stays in the row, ends, and follows the rule |
| `game` | 2 x 2 board, restarts up to a best score of 8 | score, tiles and GAME OVER agree |
| `contacts` | 2 contacts, 2 lines and the blank one, one line a beginning of the other | save, crash, failing write, load, delete |
| `web` | 2 connections, 2 threads, 2 requests out of 6 kinds, one with an unreadable length, with content of 2 units, a `size_t` of 16 values | one operation at a time, an end only with a cause, `WebConversation` implemented, and an answer to everyone who waits |
| `calculator` | lines of up to three operators, with the brackets they need and some they do not, and blanks | the value printed is that of the line, and every line is worked off |
| `calendar` | the years 1900 to 2299, and every month argument | weekdays and lengths follow from one another |

The run with a star ends in a counterexample: there the code does not do what
its comments say (section 5).

The largest, `chat_story`, has 1.6 million states; `contacts` has half a million,
`proxy_session` and `web` have about 160,000 each, the others fewer.

*Why these bounds.*  In `chat_paced` there are three connections and two
descriptors, so that one client is turned away and a descriptor is handed on
while the other speaks; a broadcast needs two members, and a third to hear it
differently, hence three descriptors in `chat_story`, where two that
have left can both fail in one broadcast.  Two messages are enough
for one to be behind, or within, another; two segments for a `recv()` that
starts in the middle; room for two lines lets a client be behind by one and by
all.  Three chunks exceed the room of two, so that a forwarder blocks
with data still to come.  Two zombies can share a signal while a third dies in
its handler.  Five cells with three kinds of tiles hold two merges, a merge
that enables another, and a gap on every side.  A 2 x 2 board is played to
its end, where no tile is above 32.  Two contacts let a pair be cut in either
half and shifted across a border.  Of two requests one can be read along with
another, on one connection, or be handled beside it, on two; content of two
units can be read with its header in part or whole; sixteen values let a
difference wrap around.  Three operators are the least that need one of them to
wait for a later one and another not; lines follow one another, so that the
second finds what the first has left.  The calendar's rules have a cycle of 400
years.  MaxMessages, MaxLeavers, MaxTyped, MaxLines, MaxChunks, MaxRematch, MaxContacts and
MaxRequests only stop the environment.

## 4. Fairness

* `ChatServer`: weak fairness of the server's steps, because its one thread
  does nothing but this loop; of the rest of a message and of resets, because
  TCP delivers; and of a client's reading, because its parent process waits for
  nothing else (client.cpp:71-80).  Nobody has to connect, speak or leave.
* `ChatClient`: weak fairness of the parent, for the same reason, and of the
  rest of a line.  The user need not type, the server need not read.
* `ProxySession`: of each process, and of a peer's reading while it stays.  Peers
  need not send or close.
* `ProxyServer`: of the loop, and of the delivery of a pending signal to it.
  Sessions may last for ever.  `accept()` fails finitely often: there are as many
  iterations in which it does as `Stray` has members.
* `WebServer`: for each connection, of the step that is due for it, because the
  io_service hands out what is ready first come, first served; and of a client's
  sending the rest of a request it has begun.  Clients need not connect, ask or
  close.  A read that waits for more than will come is not due: nothing rescues a
  handler that waits for too much, so `Answered` can go wrong by one.
* `Slide2048`, `Calculator`: of the loop, which is sequential code.

Edge-triggered epoll makes the chat programs depend on the pace of the other
side.  That dependence is explicit: `Paced` makes the server's clients wait,
and `calm` records that the client's surroundings have waited so far.  What
holds in general and what only holds then are separate properties.

## 5. Where code and text disagree

Shown by a run:

* `chat_leaving`: a client that closes normally should be removed
  (utility.h:75-77).  The answer to a line sent to it before that, its welcome or a
  broadcast, is a reset; the next broadcast's `send()` fails, and SIGPIPE or
  `CHECK_ERR` (utility.h:93) ends the process, for those who stay as well.

Seen while modelling; no run is kept for them:

* One `accept()` per edge (server.cpp:58): of two clients that connect before
  the server looks, the second waits for a third, and gets no welcome until then
  (server.cpp:71).  `EveryoneWelcomed` fails with `Paced = FALSE`.
* One `recv()` per edge (utility.h:73): what arrives behind a message waits in
  the socket until that client sends more, against server.cpp:78.
  `MessageAnswered` fails with `Paced = FALSE`.
* The client reads its socket once per edge as well, and does not notice a
  server that ends right behind a line (client.cpp:80-82); nor does it notice `exit`
  behind a line that is still in the pipe (client.cpp:91-94), against its prompt
  (client.cpp:51).  `EndNoticed` does not hold without `calm`.
* Proxy: CONNECT is a method to the comment (proxyme.c:58), and a word anywhere in
  the header to the code (lines 58, 179): a POST with it in a path or a cookie
  gets a tunnel, to what follows the word.  `Host:` is a field to the comment
  (line 72), and to the code (line 73) it may be the end of an `X-Forwarded-Host:`
  in front of it.  Both are in `proxy_session`; `TargetRight` leaves such headers
  out.
* 2048: `moved` is not initialised, and no key but the four directions assigns
  it.  Any other key adds a tile if it is set, although nothing was moved
  (2048.c:11, 53-54).  Score and GAME OVER stay right even so: see `game`.
* Web: server_base.h:163-165 takes bytes behind a header to be content.  They may
  be the next request: a client that does not wait for an answer has it dropped
  with the buffer (line 157), waits for ever because the length still missing
  wraps around (line 181), or ends the server.
* Web: a request with a method its resource has no function for, such as GET
  /string or POST /info, finds an empty function in the table (line 137) and the
  exception ends the process; so do a first line that cannot be parsed, a version
  `stof` cannot read (line 144) and a Content-Length `stoull` cannot (line 181).
  POST /string without a length dereferences a null pointer.  A method that is new
  to the table is inserted while other threads look theirs up.
* Proxy: a header with an address in a later line is rewritten there if its first
  line has none, and if no slash follows that address `rewrite_header` uses a NULL
  and the child that was to send the header crashes (lines 114-117); a host that
  ends in HTTP is taken for the version when a path follows it (line 115); a
  CONNECT without a port takes the next colon of the header for one; a host
  without a blank in front loses its first letter, and one without a port in a
  line that ends in LF alone its last; a header whose lines end in LF but for the
  empty one is never seen to end.  `TargetRight` and `HeaderRewritten` hold for
  the requests without these.
* Calculator: a blank behind a closing bracket is taken for an operator and ends
  the program; a sign in front of a number is an operator for which the number in
  front may be missing, depending on a byte outside `numStr`.
* The calendar prints the whole year when December is asked for
  (calendar.c:105, against README.md:7).  The model has this behaviour.
* contacts.cpp has no operation that changes a contact, though the project's
  text lists one; a blank name is saved as a line that loading skips, after
  which its number is a name; a save that fails is reported as done (line 164).
* handler.h:87 speaks of a 404, the code sends 400 (line 89).

## 6. Proofs

For every value of the constants that satisfies the assumptions named in the
modules:

* `ChatServerProofs`: `TypeCorrect`, `ListCorrect`, `BatchLive`, `ExitCaused` and
  `BatchKept` (no descriptor of a batch is closed or handed on before its turn).
  None of these is inductive alone, so they are one invariant, `IInv`, with two
  more parts.  `BatchIsLive` needs the list's uniqueness of descriptors, so that
  the handler of one event cannot have consumed what another is about, and
  `AcceptedOK`, which rules out that an accepted connection is already over.
  Uniqueness needs `BacklogOK`: a connection in the backlog has no descriptor and
  waits there once, so that `accept()` does not give it a second one.
  `ExitHasCause` needs `BatchIsLive`, without which `recv()` could fail for want
  of data, and `ListMatchesSockets`, without which the broadcast could meet a
  closed descriptor.  That all descriptors are in use is no cause: only an
  `accept()` that has returned -1 is (`Refused`). `ServerImplementsRoom` is the
  refinement of `ChatRoom`: every step of the server or a client is one operation
  of the room, or none.  It needs `RoomInv`, that is `IInv` and: nothing was
  queued for a connection that has not been accepted (`FreshOK`), an accepted one
  was welcomed first and under its descriptor (`WelcomeOK`), so that the label of
  its messages is its name in the room, and nobody sends more than the bound on
  messages (`SentOK`).  That the broadcast reaches the others in the room, and
  that a list of length 1 means being alone, are lemmas (`BehindOthers`,
  `AloneInRoom`) from `ListMatchesSockets`. `StoryShared` is proved of the room's
  steps and holds for the server because it implements them: of two members'
  stories, each without what the other said, one ends with the other, and a
  message that both hear keeps it so.
* `ChatClientProofs`: `ClientTyped`, `BatchHolds` and `LinesInOrder`.  The last one
  needs `ShownIsPast`: every line shown had begun before the position `recv()` has
  reached, so that what is shown next has a greater number, or is blank because
  `recv()` started within a line.  The line shown when `recv()` fails is blank
  because the buffer was zeroed.  `MessagesInOrder` needs `SentIsTyped`: the lines
  sent, followed by those in the pipe, are lines that were typed, so that the next
  one typed has a greater number than all of them.
* `ProxyProofs`, the server: `ServerTyped`, `ZombiesReaped` and
  `DescriptorsOwned`, from the invariant `ServerInv`; its extra part `Unhandled`
  says that connections in the backlog, and the one about to be forked for, have
  no handler yet, an `accept()` that failed among them.
* `ProxyProofs`, the sessions: `StreamsInOrder` and `StreamsComplete`, from one
  invariant with three parts.  `Unforked`: until a forwarder is forked nothing but
  the header has been taken from its source; this is where `read_header`, the
  kinds of sessions and the failing `fork()` come in.  `Flow`: as long as a peer
  takes its stream, the stream has come exactly as far as the forwarder has
  received; once it does not, it never does again.  `ShutBy`: while a peer stays,
  only the forwarder that sends to it can have shut its socket down, and that at
  the end of what it copied, so that no chunk is lost to the other forwarder's
  `shutdown()`.
* `ProxyProofs`, the header: `TargetsRight` and `HeadersRewritten`, for requests
  with any words, those the code looks for among them, in any part and of any
  length; all they assume is that a `Word` or `Number` is none of the words and
  characters the code looks for, nor the mark for no port.  `TargetsRight` is
  about requests in which the first CONNECT is the method or there is none, and
  the first `Host:` is the Host line. `LaidOut` says where the parts of a
  request's text stand, `PartTypes` which words and signs each may hold.  From
  these follows which occurrence of a word or a character `strstr` or `strchr`
  finds first: the one that is meant (`TunnelFound`, `HostFound`, `AddressFound`),
  or one in a later line, in the cases section 5 lists.  `TargetFound` and
  `Rewritten` then say what `extract_host` and `rewrite_header` make of it, and
  `Known`, that what is held between the steps of a session is made of the request
  its client means.  For `HeadersRewritten` it also takes `VersionFound`: the
  first `HTTP/` may stand in the path or in a name, and the slash found is still
  in front of it exactly when there is a path, unless the host ends in HTTP.
* `Game2048Proofs`, the loop: for rows of every length, it stays inside the row
  (`SlideTyped`), `k` never meets `x` (`SlideNeverMeets`) and the cells between
  them are empty (`SlideGapEmpty`).  Each needs the others: where `k` may go
  depends on what lies between.
  `SlideFollowsRule`: it ends with what the rule of the game gives.  `Goes` relates
  each state of the loop to what the rule makes of the cells in front of `x`: the
  rule's tiles fill the row up to `k`, the last of them can still be joined
  exactly if `k` holds it, and from `x` on nothing was touched.  For the flag
  `moved`, `Told` names a cell that tells of a change for ever.
* `Game2048Proofs`, the game, for boards of every size.  `GameOverIsRight` rests
  on `GInv`: the board is never empty, and the flag is that of the present board.
  `Slid` moves a line exactly if somewhere a tile has an empty cell or its equal
  in front of it (`SlidMoves`, by running the loop to its end, which takes at most
  2n iterations).  `check2048()` asks for something else, any empty cell or any
  two equal neighbours; the two agree because on a board where nothing moves
  emptiness spreads from each empty cell to all of its line and column, so that
  such a board would be empty (`Spreads`, `StuckSeen`). `ScoreIsAccounted` and
  `NoTileLost` rest on `Accounts`, which adds to the sum that every cell is empty
  or a power of two, never a 1: two equal tiles of at least 2 score what the one
  they become is worth more (`WorthOfTwo`), in each branch of the loop
  (`BodyKept`), hence in a line, hence on the board, whichever way it is taken
  apart (`ByLines`, `PutBack`).  `NoTileLost` says besides that one tile comes up
  with each move, and two in a new game: the number drawn is below the count of
  empty cells, and the code finds a cell by it because the numbers of empty cells
  passed on the way to each of them are all different (`Passed`, `At`).  `Worth`
  is a recursive function on all numbers; `WorthSteps` shows that it exists.
  `GameTyped` draws `TypeOK` from the same invariant.
* `ContactsProofs`: for every file and list.  `SaveIsReadBack`,
  `CutShortIsABeginning` and `LoadedIsSettled` follow from `IInv`: the file holds
  how the lines of the last save begin, and with the lines still to be written it
  is all of them, or behind that beginning a piece of the next line (`BreaksOff`).
  `LoadFirst` says what the loader makes of any beginning of such lines, by going
  through them line by line; of a list with a piece of a line at its end it makes
  what it makes of the same list with that contact altered (`ReadBroken`).
  `DeletionExact` is about the loop that erases while it iterates: behind each
  step, what is kept in front of the iterator and what is still to come are the
  contacts of other names (`PassKeepsOthers`).
* `WebServerProofs`: for every number of connections and threads, every set of
  requests and every width of `size_t`. `WebTyped` rests on `TInv`: besides the
  types, every unit in a client's stream, and hence in a buffer, belongs to a
  request that has been begun, so that `parse_request` always finds one.
  `OneAtATime` follows the chain of operations: with `OInv` a connection that has
  not come yet is in no operation and not in the backlog, so `Accept` cannot start
  a second one. `DeathCaused` is the deep one.  `KInv` says where each patient
  connection is: it is fresh, or idle between two requests, or in the middle of
  sending one, or waiting for an answer, and in each case what has been sent but
  not read is the rest of exactly one request; so a buffer starts with a request's
  first unit, nothing is dropped, and the length still missing is no negative
  number. `DInv` adds that, as long as all clients wait and ask for what can be
  answered, with a version and a length that can be read, the table is what it was
  at the start, so that no insertion can race with a look-up, and the server runs.
  `ServerConverses` is the refinement of `WebConversation`, under the hypothesis
  `Short` that no client ever sends more over its connection than a `size_t` can
  count.  It needs one more invariant, `SInv`, which speaks of hasty clients as
  well.  `Streamed`: in what a client sends, a head is followed by its tail, that
  by its body, and that by later requests.  `Slot`: what a handler holds belongs
  where it is in this stream, from the buffer `async_read_until` fills to the
  answer, and all answers given are older than what is still to be read.
  `WhatRemains` is the crux: the length still missing is right unless requests of
  a hasty client were read along with a header; the difference is then negative,
  and as a `size_t` so great that under `Short` its reading never completes and
  nothing of it is answered.

* `SmallToolsProofs`, the calculator: `SentencesValued`, for every `Sentence` of a
  grammar: a number or a sentence in brackets, with any blanks in front and behind,
  or an operator between two sentences, of which those that need brackets have
  them.  There is no bound on length or depth.  `ReadRight` says what it is to
  read a phrase right: from any stacks whose top does not go before the phrase's own
  operators, and with a character behind it that does not either, the scan arrives
  at that character with one number more, the phrase's value; or it leaves the
  program, which it may only do because of a blank behind a closing bracket.  The
  phrases that are always read right (`AlwaysRight`) are closed under each rule of
  the grammar, and the sentences are the least set that is, so no induction over
  sentences is needed.  `Good` carries this through the branches of the inner loop
  as a set of configurations none of which is wrong and no step leaves.
* `SmallToolsProofs`, the calendar: `CalendarRight`, for every range of years.  By
  `CalendarInv` each page is the one of its month in the table of its year,
  whether or not a leap day had been written into the table before.  The weekday a
  page starts on is the first of the year's, moved on by the lengths of the months
  in front (`DaysAreSums`); the first of the next year's is moved on by 365 or
  366, which is what the code's divisions by 4, 100 and 400 come to (`Quarters`,
  `LeapIsGregorian`).

What a recursive function computes is proved by induction over a bounded range
of numbers, which follows from the least number principle (`Induction`,
`Recursion` in `SequenceLemmas`).

*Only model-checked:*

* Liveness: fairness and ENABLED are beyond the prover.
* `RefinesConversation` without `Short`.  It does not hold for every value of the
  constants: with a very narrow `size_t` the length that has wrapped around is short
  enough for a hasty client's next request to be taken as content and answered.

Every invariant and action property of a passing run is proved, and so are both
refinements, that of `WebConversation` under `Short`.  Deadlock is no error here
(section 3).

## 7. Plan

Done, in this order: the chat server with its room and proofs, the chat client,
the proxy, 2048, contacts, calendar; the web framework with its conversation and
proofs, the proxy's header, the calculator; proofs about the chat client and the
proxy's sessions; the refinement of the chat room, proofs about the game of 2048
and the address book, and the refinement of the web framework's conversation;
proofs about the proxy's header, the calculator and the calendar.

Left: *partial sends.*  A `send()` to a non-blocking socket may take a part of a
block (client.cpp:96, utility.h:93); the stream then loses its block structure.  It
needs streams of segments instead of positions in both chat modules.

Not modelled: drawing and colours of 2048, option parsing, the TLS layer of the
HTTPS server beyond its handshake, what the example resources put into their
answers (files, the text of the information page), what searches of the address
book print.  All of these are text and I/O without state of their own.
