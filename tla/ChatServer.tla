----------------------------- MODULE ChatServer -----------------------------
(***************************************************************************)
(* The chat server: server.cpp and the functions it uses in utility.h.     *)
(* One thread runs an epoll loop over the listening socket and one         *)
(* edge-triggered, non-blocking socket per client.  A client message is    *)
(* one BUF_SIZE block (client.cpp:96), seen here as a stream of            *)
(* BufSegments segments: the first carries the text, the others only the   *)
(* zero padding.  A stream is kept as two positions, the segments that     *)
(* have arrived at the server's socket and those that recv() has taken.    *)
(***************************************************************************)
EXTENDS Integers, Sequences, FiniteSets

CONSTANTS
  Conn,         \* the TCP connections clients may make, each used once
  FdLimit,      \* one more than the highest descriptor the process may open
  BufSegments,  \* segments that one message, and one recv(), is made of
  SendRoom,     \* messages the kernel holds for a client that does not read
  MaxMessages,  \* BOUND: messages all the clients send together
  MaxLeavers,   \* BOUND: clients that leave or abort
  Paced         \* TRUE: clients wait for the server between two operations

Listener == 3                     \* 0..2 are the standard streams, 4 is epfd
ClientFd == 5 .. FdLimit - 1

ASSUME ConnAssumption == IsFiniteSet(Conn)
ASSUME FdAssumption == FdLimit \in Nat
ASSUME BufAssumption == BufSegments \in Nat \ {0, 1}
ASSUME RoomAssumption == SendRoom \in Nat \ {0}
ASSUME PacedAssumption == Paced \in BOOLEAN
ASSUME BoundAssumption == MaxMessages \in Nat /\ MaxLeavers \in Nat

VARIABLES
  clients_list,  \* utility.h:18; a node is named by the accept() that pushed it
  running,       \* FALSE once exit(-1) or SIGPIPE has ended the process
  events,        \* descriptors of the batch still to be handled
  ready,         \* descriptors with an edge epoll_wait has not yet reported
  backlog,       \* established connections accept() has not returned
  fdOf,          \* descriptor of each accepted connection, 0 without one
  link,          \* state of each connection, as the server's kernel sees it
  sent, rcvd,    \* segments that have arrived, and that recv() has taken
  lines,         \* everything the server ever queued for each client
  unread         \* how many of those lines the client has yet to read

vars == <<clients_list, running, events, ready, backlog, fdOf, link,
          sent, rcvd, lines, unread>>

(***************************************************************************)
(* A connection is "up"; then "fin" once the peer has closed it, "bounce"  *)
(* once the server has written to a closed peer (whose kernel answers with *)
(* a reset), "broken" when that answer is there, "reset" when the peer     *)
(* aborted it; "gone" once the server has closed its descriptor.           *)
(***************************************************************************)
LinkState == {"idle", "up", "fin", "bounce", "broken", "reset", "gone"}
Line == [kind : {"welcome", "caution", "say"}, id : ClientFd,
         from : Conn, text : Nat]
Node == [conn : Conn, fd : ClientFd \cup {-1}]

TypeOK ==
  /\ clients_list \subseteq Node
  /\ running \in BOOLEAN
  /\ events \subseteq ClientFd \cup {Listener}
  /\ ready \subseteq ClientFd \cup {Listener}
  /\ backlog \in Seq(Conn)
  /\ fdOf \in [Conn -> ClientFd \cup {0}]
  /\ link \in [Conn -> LinkState]
  /\ sent \in [Conn -> Nat]
  /\ rcvd \in [Conn -> Nat]
  /\ lines \in [Conn -> Seq(Line)]
  /\ unread \in [Conn -> 0 .. SendRoom]
  /\ \A c \in Conn : rcvd[c] <= sent[c]

Init ==
  /\ clients_list = {}
  /\ running = TRUE
  /\ events = {}
  /\ ready = {}
  /\ backlog = <<>>
  /\ fdOf = [c \in Conn |-> 0]
  /\ link = [c \in Conn |-> "idle"]
  /\ sent = [c \in Conn |-> 0]
  /\ rcvd = [c \in Conn |-> 0]
  /\ lines = [c \in Conn |-> <<>>]
  /\ unread = [c \in Conn |-> 0]

-----------------------------------------------------------------------------
(* The kernel's side of the sockets.                                       *)

Closed(c) == link[c] \in {"fin", "bounce", "broken"}
Readable(c) == rcvd[c] < sent[c] \/ Closed(c) \/ link[c] = "reset"
Pending(f) == \/ f = Listener /\ backlog # <<>>
              \/ \E c \in Conn : fdOf[c] = f /\ Readable(c)

\* An edge on connection c; before accept() it has no descriptor in epoll.
Edge(c) == IF fdOf[c] = 0 THEN ready ELSE ready \cup {fdOf[c]}

FreeFds == ClientFd \ {fdOf[c] : c \in Conn}

\* send() to c returns a positive length
CanSend(c) == \/ link[c] = "up" /\ unread[c] < SendRoom
              \/ link[c] \in {"fin", "bounce"}

\* The effect of a successful send() of one line to every member of T.
Deliver(T, line) ==
  /\ lines' = [c \in Conn |->
                 IF c \in T THEN Append(lines[c], line) ELSE lines[c]]
  /\ unread' = [c \in Conn |->
                 IF c \in T /\ link[c] = "up" THEN unread[c] + 1 ELSE unread[c]]
  /\ link' = [c \in Conn |->
                 IF c \in T /\ link[c] = "fin" THEN "bounce" ELSE link[c]]

-----------------------------------------------------------------------------
(* The server.                                                             *)

\* epoll_wait(): the edges reported are the ones still readable, in any order.
Harvest == {f \in ready : Pending(f)}
EpollWait ==
  /\ running
  /\ events = {} /\ Harvest # {}
  /\ events' = Harvest
  /\ ready' = {}
  /\ UNCHANGED <<clients_list, running, backlog, fdOf, link, sent, rcvd,
                 lines, unread>>

(* Steps of the code that the actions below share.                         *)

\* `++i` in the loop over the batch.  NotAdvanced: it is forgotten.  DropRest:
\* the loop is left after one event, whose siblings have no edge any more.
NotAdvanced(f) == events
DropRest(f) == {}
Handled(f) == events \ {f}

\* clients_list.remove(clientfd).  NotRemoved: it is forgotten.
NotRemoved(fd) == clients_list
RemoveNode(fd) == {node \in clients_list : node.fd # fd}

\* recv() into a zeroed buffer of BUF_SIZE.
Arrived(c) == sent[c] - rcvd[c]
RecvLength(c) == IF Arrived(c) < BufSegments THEN Arrived(c) ELSE BufSegments

\* The string in that buffer: the text of a message if recv() started where a
\* message starts, the empty string (0) if it started inside the padding.
TextIn(c) ==
  IF rcvd[c] % BufSegments = 0 THEN rcvd[c] \div BufSegments + 1 ELSE 0

WelcomeLine(c, fd) == [kind |-> "welcome", id |-> fd, from |-> c, text |-> 0]
CautionLine(c) ==
  [kind |-> "caution", id |-> fdOf[c], from |-> c, text |-> TextIn(c)]

\* SERVER_MESSAGE with the sender's descriptor.
SayLine(c) == [kind |-> "say", id |-> fdOf[c], from |-> c, text |-> TextIn(c)]

\* The nodes the loop of send_broadcast_message sends to, and the connections
\* behind them.  WithSender: the test *it != clientfd is dropped.  NotBusy:
\* clients that have not read everything are skipped.
WithSender(fd) == clients_list
NotBusy(fd) == {node \in clients_list : node.fd # fd /\ unread[node.conn] = 0}
Others(fd) == {node \in clients_list : node.fd # fd}
Behind(nodes) == {c \in Conn : \E node \in nodes : node.fd = fdOf[c]}

\* Some send() of the loop fails: at the first one CHECK_ERR (or SIGPIPE) ends
\* the process, and only a part of the others has been served.
SomeSendFails(nodes) ==
  \E node \in nodes : ~ \E c \in Conn : fdOf[c] = node.fd /\ CanSend(c)

BroadcastAll(c) ==
  /\ ~ SomeSendFails(Others(fdOf[c]))
  /\ Deliver(Behind(Others(fdOf[c])), SayLine(c))

BroadcastPart(c) ==
  \E served \in SUBSET {d \in Behind(Others(fdOf[c])) : CanSend(d)} :
    Deliver(served, SayLine(c))

Alone == Cardinality(clients_list) = 1

-----------------------------------------------------------------------------
(* The handlers of one event.                                              *)

\* A new user: accept, addfd (which reports data that is already there),
\* push_back and the welcome, whose failure ends the process.
Accept ==
  /\ running
  /\ Listener \in events
  /\ backlog # <<>>
  /\ \E fd \in FreeFds :
       LET c == Head(backlog) IN
       /\ \A other \in FreeFds : fd <= other
       /\ events' = Handled(Listener)
       /\ backlog' = Tail(backlog)
       /\ fdOf' = [fdOf EXCEPT ![c] = fd]
       /\ ready' = IF Readable(c) THEN ready \cup {fd} ELSE ready
       /\ clients_list' = clients_list \cup {[conn |-> c, fd |-> fd]}
       /\ running' = CanSend(c)
       /\ Deliver({c} \cap {d \in Conn : CanSend(d)}, WelcomeLine(c, fd))
  /\ UNCHANGED <<sent, rcvd>>

\* accept() fails (no connection, or no free descriptor); -1 is added to the
\* list all the same, and the welcome to it ends the process.
AcceptFails ==
  /\ running
  /\ Listener \in events
  /\ backlog = <<>> \/ FreeFds = {}
  /\ \E c \in Conn :
       clients_list' = clients_list \cup {[conn |-> c, fd |-> -1]}
  /\ events' = Handled(Listener)
  /\ running' = FALSE
  /\ UNCHANGED <<ready, backlog, fdOf, link, sent, rcvd, lines, unread>>

\* recv() returns 0: the client has closed the connection.
Disconnect(c) ==
  /\ running
  /\ fdOf[c] \in events
  /\ RecvLength(c) = 0 /\ Closed(c)
  /\ events' = Handled(fdOf[c])
  /\ ready' = ready \ {fdOf[c]}
  /\ clients_list' = RemoveNode(fdOf[c])
  /\ fdOf' = [fdOf EXCEPT ![c] = 0]
  /\ link' = [link EXCEPT ![c] = "gone"]
  /\ UNCHANGED <<running, backlog, sent, rcvd, lines, unread>>

\* recv() returns data and the sender is the only client: it is told so, and
\* the result of that send() is not looked at.
TellAlone(c) ==
  /\ running
  /\ fdOf[c] \in events
  /\ RecvLength(c) > 0
  /\ Alone
  /\ events' = Handled(fdOf[c])
  /\ rcvd' = [rcvd EXCEPT ![c] = @ + RecvLength(c)]
  /\ \/ /\ CanSend(c)
        /\ Deliver({c}, CautionLine(c))
        /\ running' = TRUE
     \/ /\ ~ CanSend(c)
        /\ link' = [link EXCEPT ![c] = IF @ = "reset" THEN "broken" ELSE @]
        /\ running' = (link[c] # "broken")
        /\ UNCHANGED <<lines, unread>>
  /\ UNCHANGED <<clients_list, ready, backlog, fdOf, sent>>

\* recv() returns data and every other client is sent the line.
Broadcast(c) ==
  /\ running
  /\ fdOf[c] \in events
  /\ RecvLength(c) > 0
  /\ ~ Alone
  /\ events' = Handled(fdOf[c])
  /\ rcvd' = [rcvd EXCEPT ![c] = @ + RecvLength(c)]
  /\ \/ BroadcastAll(c) /\ running' = TRUE
     \/ SomeSendFails(Others(fdOf[c])) /\ BroadcastPart(c) /\ running' = FALSE
  /\ UNCHANGED <<clients_list, ready, backlog, fdOf, sent>>

\* recv() returns -1 (the peer reset the connection, or there is nothing to
\* read): the empty buffer is broadcast, and the -1 returned ends the process.
RecvError(c) ==
  /\ running
  /\ fdOf[c] \in events
  /\ RecvLength(c) = 0 /\ ~ Closed(c)
  /\ events' = Handled(fdOf[c])
  /\ running' = FALSE
  /\ IF Alone THEN UNCHANGED <<lines, unread, link>>
     ELSE \E served \in SUBSET {d \in Behind(Others(fdOf[c])) : CanSend(d)} :
            Deliver(served, [SayLine(c) EXCEPT !.text = 0])
  /\ UNCHANGED <<clients_list, ready, backlog, fdOf, sent, rcvd>>

Handle(c) == Disconnect(c) \/ TellAlone(c) \/ Broadcast(c) \/ RecvError(c)

Server == EpollWait \/ Accept \/ AcceptFails \/ \E c \in Conn : Handle(c)

-----------------------------------------------------------------------------
(* The clients and the network, while the server runs.                     *)

Settled(c) == rcvd[c] = sent[c] /\ unread[c] = 0

Connect(c) ==
  /\ running
  /\ link[c] = "idle"
  /\ Paced => backlog = <<>>
  /\ link' = [link EXCEPT ![c] = "up"]
  /\ backlog' = Append(backlog, c)
  /\ ready' = ready \cup {Listener}
  /\ UNCHANGED <<clients_list, running, events, fdOf, sent, rcvd, lines, unread>>

SegmentArrives(c) ==
  /\ running
  /\ link[c] = "up"
  /\ sent' = [sent EXCEPT ![c] = @ + 1]
  /\ ready' = Edge(c)
  /\ UNCHANGED <<clients_list, running, events, backlog, fdOf, link, rcvd,
                 lines, unread>>

\* The client sends a message: its text arrives, then the rest of it.
Started == {m \in Conn \X (0 .. MaxMessages - 1) : BufSegments * m[2] < sent[m[1]]}

MessageStarts(c) ==
  /\ Cardinality(Started) < MaxMessages
  /\ sent[c] % BufSegments = 0
  /\ Paced => Settled(c)
  /\ SegmentArrives(c)

MessageGoesOn(c) ==
  /\ sent[c] % BufSegments # 0
  /\ SegmentArrives(c)

PeerReads(c) ==
  /\ running
  /\ unread[c] > 0
  /\ unread' = [unread EXCEPT ![c] = @ - 1]
  /\ UNCHANGED <<clients_list, running, events, ready, backlog, fdOf, link,
                 sent, rcvd, lines>>

\* The client ends.  With lines it has not read its kernel sends a reset,
\* otherwise a FIN behind the data it has sent.
PeerCloses(c) ==
  /\ running
  /\ link[c] = "up"
  /\ Cardinality({d \in Conn : link[d] \notin {"idle", "up"}}) < MaxLeavers
  /\ Paced => Settled(c)
  /\ \/ unread[c] > 0 /\ link' = [link EXCEPT ![c] = "reset"]
     \/ /\ unread[c] = 0 /\ sent[c] % BufSegments = 0
        /\ link' = [link EXCEPT ![c] = "fin"]
  /\ ready' = Edge(c)
  /\ unread' = [unread EXCEPT ![c] = 0]
  /\ UNCHANGED <<clients_list, running, events, backlog, fdOf, sent, rcvd, lines>>

\* The reset that answers a line sent to a closed peer.
ResetReturns(c) ==
  /\ running
  /\ link[c] = "bounce"
  /\ link' = [link EXCEPT ![c] = "broken"]
  /\ ready' = Edge(c)
  /\ UNCHANGED <<clients_list, running, events, backlog, fdOf, sent, rcvd,
                 lines, unread>>

Client(c) ==
  \/ Connect(c) \/ MessageStarts(c) \/ MessageGoesOn(c)
  \/ PeerReads(c) \/ PeerCloses(c) \/ ResetReturns(c)

Next == Server \/ \E c \in Conn : Client(c)

Spec == Init /\ [][Next]_vars

\* The loop runs whenever epoll_wait has something to report, the network
\* delivers what was sent, and a client that stays reads what it is sent
\* (client.cpp:78).  Nobody has to connect, to speak or to leave.
FairSpec ==
  /\ Spec
  /\ WF_vars(Server)
  /\ \A c \in Conn : /\ WF_vars(MessageGoesOn(c))
                     /\ WF_vars(PeerReads(c))
                     /\ WF_vars(ResetReturns(c))

-----------------------------------------------------------------------------
(* Properties.                                                             *)

InRoom == {c \in Conn : fdOf[c] # 0}

(* While the server runs its list names the descriptor of every connection *)
(* it has accepted and not closed, once, and nothing else, although the    *)
(* kernel gives a closed descriptor to the next client (server.cpp:68,     *)
(* utility.h:76-77).                                                       *)
ListMatchesSockets ==
  /\ running => clients_list = {[conn |-> c, fd |-> fdOf[c]] : c \in InRoom}
  /\ \A c, d \in InRoom : fdOf[c] = fdOf[d] => c = d

(* Every event of the batch that is still to be handled stays true until   *)
(* its turn, whatever the handlers before it closed, accepted or sent: the *)
(* descriptor is open and readable, so that neither accept() nor recv()    *)
(* finds nothing, which would end the process (server.cpp:52-80).          *)
BatchIsLive == \A f \in events : Pending(f)

(* A descriptor of the batch is never closed and given to another client   *)
(* before its event is handled: it names the same connection throughout.   *)
BatchStable ==
  [][\A c \in Conn : fdOf[c] \in events \cap events' => fdOf'[c] = fdOf[c]]_vars

\* accept() itself has returned -1, for a client there is no descriptor for:
\* not merely that all descriptors are in use.
Refused == \E node \in clients_list : node.fd = -1 /\ backlog # <<>> /\ FreeFds = {}

(* The process only ends because of a client: one that reset its           *)
(* connection, that left and had its last line answered by a reset, that   *)
(* did not read, or that accept() had no descriptor for (server.cpp:58,    *)
(* 77, 80, utility.h:93).                                                  *)
ExitHasCause ==
  \/ running
  \/ \E c \in Conn : link[c] \in {"reset", "broken"} \/ unread[c] = SendRoom
  \/ Refused

(* What the server promises the people in the room: see ChatRoom.  Lines   *)
(* are labelled with the sender's own ID, also after IDs have been given   *)
(* again, and messages are heard once and in order.                        *)
Room == INSTANCE ChatRoom WITH
  Member <- Conn, Id <- ClientFd, room <- InRoom, open <- running,
  inbox <- lines,
  said <- [c \in Conn |-> (rcvd[c] + BufSegments - 1) \div BufSegments]
RefinesChatRoom == Room!Spec

(* Two clients who are both connected were sent the same lines since the   *)
(* later one came, their own aside (utility.h:90-95).                      *)
SameStory == Room!SameStory

(* A client whose connection is established is welcomed (server.cpp:54).   *)
EveryoneWelcomed ==
  \A c \in Conn : link[c] = "up" ~> (lines[c] # <<>> \/ ~ running)

(* A message that arrived from a member that stays is passed on to the     *)
(* others or, when nobody else is there, its sender is cautioned, unless   *)
(* it does not read what it is sent (server.cpp:78, utility.h:83).         *)
Answered(c, m) ==
  \E d \in Conn : \E i \in 1 .. Len(lines[d]) :
    lines[d][i].from = c /\ lines[d][i].text = m
Waiting(c, m) ==
  fdOf[c] # 0 /\ rcvd[c] <= BufSegments * (m - 1) /\ BufSegments * (m - 1) < sent[c]
MessageAnswered ==
  \A c \in Conn, m \in 1 .. MaxMessages :
    Waiting(c, m) ~>
      (Answered(c, m) \/ link[c] # "up" \/ unread[c] = SendRoom \/ ~ running)

(* A client that has closed its connection is removed (utility.h:75-77).   *)
LeaversRemoved == \A c \in Conn : Closed(c) ~> (link[c] = "gone" \/ ~ running)

(* A client that leaves is removed and the room goes on for those who      *)
(* stay: while one is still there the server only ends because of an       *)
(* aborted connection, of a client that does not read or of one there is   *)
(* no descriptor for (utility.h:75-77).                                    *)
LeavingIsHarmless ==
  \/ running
  \/ \A c \in InRoom : link[c] # "up"
  \/ \E c \in Conn : link[c] = "reset" \/ unread[c] = SendRoom
  \/ Refused

=============================================================================
