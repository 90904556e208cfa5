------------------------------ MODULE WebServer ------------------------------
(***************************************************************************)
(* The web framework: server_base.h with the accept() of server_http.h or  *)
(* server_https.h and the resources of handler.h.  A pool of threads runs  *)
(* the completion handlers of asynchronous operations; what is to be done  *)
(* next for a connection is in the handler of its last operation and       *)
(* nowhere else.  "work" holds the operations and the handlers under way.  *)
(* What a client sends is a sequence of units: the first and the last part *)
(* of the header of its n-th request, then the units of that one's body.   *)
(***************************************************************************)
EXTENDS Integers, SequencesExt, FiniteSets

CONSTANTS
  Conn,         \* the connections clients may make, each used once
  Requests,     \* the requests they may send
  NumThreads,   \* num_threads: threads in io_service::run()
  SizeMax,      \* 2 to the width of size_t
  MaxRequests   \* BOUND: requests all the clients send together

\* The tables of handler.h: the methods each resource has a function for.
Offered == [info |-> {"GET"}, match |-> {"GET"}, string |-> {"POST"}, default |-> {"GET"}]

\* all_resources: a map is ordered by its keys, and the default comes last.
AllResources == <<"info", "match", "string", "default">>

\* A request in which parse_request() finds nothing it knows.
Garbled == [method |-> "none", path |-> "none", version |-> "none",
            announced |-> FALSE, legible |-> FALSE, body |-> 0]

ASSUME ConnAssumption == IsFiniteSet(Conn)
ASSUME ThreadAssumption == NumThreads \in Nat \ {0}
ASSUME SizeAssumption == SizeMax \in Nat \ {0}
ASSUME BoundAssumption == MaxRequests \in Nat
ASSUME RequestAssumption ==
  /\ Requests \subseteq [method : STRING, path : STRING, version : {"1.0", "1.1", "none"},
                         announced : BOOLEAN, legible : BOOLEAN, body : 0 .. SizeMax - 1]
  /\ \A r \in Requests : r.body > 0 => r.announced

VARIABLES
  https,     \* which of the two servers this is
  running,   \* FALSE once an exception or a fault has ended the process
  accepts,   \* how many async_accept() are under way
  table,     \* the methods that have an entry in each resource
  work,      \* asynchronous operations and running handlers, one record each
  backlog,   \* established connections not yet accepted
  client,    \* state of each client
  asked,     \* the requests each client has begun
  left,      \* units of the last one it has yet to send
  input,     \* the units it has sent
  taken,     \* how many of them the server has read
  answers,   \* the answers it has got
  hasty      \* clients that did not wait for the answer to their last request

server == <<https, running, accepts, table, work>>
peers == <<backlog, client, asked, left, input, taken, answers, hasty>>
vars == <<server, peers>>

Unit == [n : Nat, part : {"head", "tail", "body"}]
Stage == {"handshake", "read", "body", "lookup", "call", "write", "written"}
Methods == {r.method : r \in Requests \cup {Garbled}} \cup {"GET", "POST"}
Work == [conn : Conn, at : Stage, buf : Seq(Unit), n : Nat,
         req : Requests \cup {Garbled}, need : Nat]

TypeOK ==
  /\ https \in BOOLEAN /\ running \in BOOLEAN
  /\ accepts \in Nat
  /\ table \in [DOMAIN Offered -> SUBSET Methods]
  /\ work \subseteq Work
  /\ backlog \subseteq Conn
  /\ client \in [Conn -> {"away", "calling", "up", "closed"}]
  /\ asked \in [Conn -> Seq(Requests)]
  /\ left \in [Conn -> Nat]
  /\ input \in [Conn -> Seq(Unit)]
  /\ taken \in [Conn -> Nat] /\ \A c \in Conn : taken[c] <= Len(input[c])
  /\ answers \in [Conn -> Seq([to : Nat, body : Seq(Unit)])]
  /\ hasty \subseteq Conn

\* start(): the resources are in place and accept() has been called.
Init ==
  /\ https \in BOOLEAN /\ running = TRUE
  /\ accepts = 1
  /\ table = Offered
  /\ work = {}
  /\ backlog = {}
  /\ client = [c \in Conn |-> "away"]
  /\ asked = [c \in Conn |-> <<>>] /\ left = [c \in Conn |-> 0]
  /\ input = [c \in Conn |-> <<>>] /\ taken = [c \in Conn |-> 0]
  /\ answers = [c \in Conn |-> <<>>]
  /\ hasty = {}

-----------------------------------------------------------------------------
(* Requests and resources.                                                 *)

\* Does the regular expression of a resource match a path?
Matches(res, path) == res \in {path, "default"}

\* The loop of respond() stops at the first match.  LastMatch: the default
\* resources were put in front.
LastMatch(path) ==
  AllResources[CHOOSE i \in DOMAIN AllResources :
    /\ Matches(AllResources[i], path)
    /\ \A j \in DOMAIN AllResources : Matches(AllResources[j], path) => j <= i]
Resource(path) ==
  AllResources[CHOOSE i \in DOMAIN AllResources :
    /\ Matches(AllResources[i], path)
    /\ \A j \in 1 .. i - 1 : ~ Matches(AllResources[j], path)]

\* The function of POST /string reads the content, which is only there when a
\* length was announced; an empty std::function throws.
CanAnswer(r) ==
  /\ r.method \in Offered[Resource(r.path)]
  /\ Resource(r.path) = "string" => r.announced

\* The body of the answer: /string gives the content back, the others make
\* theirs from the header alone.
Echo(r, content) == IF Resource(r.path) = "string" THEN content ELSE <<>>

BodyOf(n, r) == [i \in 1 .. r.body |-> [n |-> n, part |-> "body"]]

KeepsAlive(r) == r.version = "1.1"    \* stof(...) > 1.05

\* stoull() throws when the length announced is no number or one too large.
Legible(r) == r.announced => r.legible

-----------------------------------------------------------------------------
(* The handlers.                                                           *)

\* A thread is free to run one; only respond() is taken apart into steps.
FreeThread == Cardinality({w \in work : w.at \in {"lookup", "call"}}) < NumThreads
Runs == running /\ FreeThread

Becomes(w, new) == work' = (work \ {w}) \cup new
At(w, stage) == [w EXCEPT !.at = stage]

\* The last reference to the socket goes away, which closes it.
Drop(w) ==
  /\ Becomes(w, {})
  /\ client' = [client EXCEPT ![w.conn] = "closed"]

\* process_request_and_respond(): a new buffer, and a header to wait for.
Reading(c) ==
  [conn |-> c, at |-> "read", buf |-> <<>>, n |-> 0, req |-> Garbled, need |-> 0]

\* accept() adds an operation.  NotAgain: it is not called again.
NotAgain(k) == k
Again(k) == k + 1

Accept(c) ==
  /\ Runs /\ accepts > 0 /\ c \in backlog
  /\ accepts' = Again(accepts - 1)
  /\ backlog' = backlog \ {c}
  /\ work' = work \cup {IF https THEN At(Reading(c), "handshake") ELSE Reading(c)}
  /\ UNCHANGED <<https, running, table, client, asked, left, input, taken, answers, hasty>>

\* accept() reports a connection that was aborted meanwhile.
AcceptFails(c) ==
  /\ Runs /\ accepts > 0 /\ c \in backlog /\ client[c] = "closed"
  /\ accepts' = Again(accepts - 1)
  /\ backlog' = backlog \ {c}
  /\ UNCHANGED <<https, running, table, work, client, asked, left, input, taken, answers, hasty>>

HandshakeDone(w) ==
  /\ Runs /\ w.at = "handshake" /\ client[w.conn] = "calling"
  /\ client' = [client EXCEPT ![w.conn] = "up"]
  /\ Becomes(w, {Reading(w.conn)})
  /\ UNCHANGED <<https, running, accepts, table, backlog, asked, left, input, taken, answers, hasty>>

\* A handshake, or a read or a write for a client that is gone, fails: the
\* handler does nothing.
Fails(w) ==
  /\ Runs
  /\ \/ w.at = "handshake"
     \/ w.at \in {"read", "write"} /\ client[w.conn] = "closed"
     \/ w.at = "body" /\ w.need > 0 /\ client[w.conn] = "closed"
  /\ Drop(w)
  /\ UNCHANGED <<https, running, accepts, table, backlog, asked, left, input, taken, answers, hasty>>

Available(c) == Len(input[c]) - taken[c]
Take(w, k) ==
  /\ taken' = [taken EXCEPT ![w.conn] = @ + k]
  /\ UNCHANGED <<https, running, accepts, table, backlog, client, asked, left, input, answers, hasty>>
Read(w, k) == w.buf \o SubSeq(input[w.conn], taken[w.conn] + 1, taken[w.conn] + k)

\* Does the first header in a buffer end at i?
EndsHeader(buf, i) ==
  buf[i].part = "tail" /\ \A j \in 1 .. i - 1 : buf[j].part # "tail"

\* What transfer_exactly() is told to wait for, as a size_t.  WholeLength: the
\* units read along with the header are not counted.
WholeLength(length, additional) == length
Remaining(length, additional) == (length - additional) % SizeMax

\* parse_request(): a buffer that starts in the middle of a request, because
\* what came before was dropped, has no first line of the right form.
Request(c, buf) == IF buf[1].part = "head" THEN asked[c][buf[1].n] ELSE Garbled

\* The header ends at i: units behind it stay in the buffer as content if a
\* length is announced, and are lost with the buffer if not.
Parsed(w, buf, i) ==
  LET r == Request(w.conn, buf)
      rest == SubSeq(buf, i + 1, Len(buf))
      new == [w EXCEPT !.req = r, !.n = buf[1].n] IN
  IF r.announced
    THEN [new EXCEPT !.at = "body", !.buf = rest, !.need = Remaining(r.body, Len(rest))]
    ELSE [new EXCEPT !.at = "lookup", !.buf = <<>>]

\* An exception leaves run(), or the process faults.
Terminate == running' = FALSE /\ UNCHANGED <<https, accepts, table, work, peers>>

\* async_read_until(): one more read, and the handler if the header is there.
ReadHeader(w) ==
  /\ Runs /\ w.at = "read"
  /\ \E k \in 1 .. Available(w.conn) :
       LET buf == Read(w, k) IN
       \/ /\ \A i \in DOMAIN buf : buf[i].part # "tail"
          /\ Becomes(w, {[w EXCEPT !.buf = buf]})
          /\ Take(w, k)
       \/ \E i \in DOMAIN buf :
            /\ EndsHeader(buf, i)
            /\ IF Legible(Request(w.conn, buf))
                 THEN Becomes(w, {Parsed(w, buf, i)}) /\ Take(w, k)
                 ELSE Terminate

\* async_read(): one more read of at most what is still needed.
ReadBody(w) ==
  /\ Runs /\ w.at = "body"
  /\ \E k \in 1 .. Available(w.conn) :
       /\ k <= w.need
       /\ Becomes(w, {[w EXCEPT !.buf = Read(w, k), !.need = @ - k]})
       /\ Take(w, k)

\* async_read() is complete: its handler calls respond().
BodyDone(w) ==
  /\ Runs /\ w.at = "body" /\ w.need = 0
  /\ Becomes(w, {At(w, "lookup")})
  /\ UNCHANGED <<https, running, accepts, table, peers>>

\* operator[] is in two threads at once, and one of them inserts.
Racing(w) ==
  \E v \in work \ {w} :
    /\ v.at = "lookup" /\ Resource(v.req.path) = Resource(w.req.path)
    /\ {v.req.method, w.req.method} \ table[Resource(w.req.path)] # {}

\* respond(): res_it->second[request->method] makes an entry if there is none.
LookUp(w) ==
  /\ running /\ w.at = "lookup"
  /\ \/ /\ table' = [table EXCEPT ![Resource(w.req.path)] = @ \cup {w.req.method}]
        /\ Becomes(w, {At(w, "call")})
        /\ UNCHANGED <<https, running, accepts, peers>>
     \/ Racing(w) /\ Terminate

\* The function is called and the answer is on its way.  Eager: the next
\* request is waited for at once, not when the answer is out.
Eager(w) == {At(w, "write"), Reading(w.conn)}
Answering(w) == {At(w, "write")}

Call(w) ==
  /\ running /\ w.at = "call"
  /\ IF CanAnswer(w.req)
       THEN /\ Becomes(w, Answering([w EXCEPT !.buf = Echo(w.req, @)]))
            /\ UNCHANGED <<https, running, accepts, table, peers>>
       ELSE Terminate

\* What is written to a client that has just closed is lost, without an error.
WriteOut(w) ==
  /\ running /\ w.at = "write"
  /\ answers' = IF client[w.conn] = "closed" THEN answers
                ELSE [answers EXCEPT ![w.conn] = Append(@, [to |-> w.n, body |-> w.buf])]
  /\ Becomes(w, {At(w, "written")})
  /\ UNCHANGED <<https, running, accepts, table, backlog, client, asked, left, input, taken, hasty>>

\* The handler of async_write(): stof() throws when there is no version.
Written(w) ==
  /\ Runs /\ w.at = "written"
  /\ IF w.req.version = "none" THEN Terminate
     ELSE /\ IF KeepsAlive(w.req) THEN Becomes(w, {Reading(w.conn)}) /\ UNCHANGED client
             ELSE Drop(w)
          /\ UNCHANGED <<https, running, accepts, table, backlog, asked, left, input,
                         taken, answers, hasty>>

Handler(w) ==
  \/ HandshakeDone(w) \/ Fails(w)
  \/ ReadHeader(w) \/ ReadBody(w) \/ BodyDone(w)
  \/ LookUp(w) \/ Call(w)
  \/ WriteOut(w) \/ Written(w)

Serve(c) == Accept(c) \/ AcceptFails(c) \/ \E w \in work : w.conn = c /\ Handler(w)

-----------------------------------------------------------------------------
(* The clients.                                                            *)

Connect(c) ==
  /\ running /\ client[c] = "away"
  /\ client' = [client EXCEPT ![c] = IF https THEN "calling" ELSE "up"]
  /\ backlog' = backlog \cup {c}
  /\ UNCHANGED <<server, asked, left, input, taken, answers, hasty>>

Begun == UNION {{c} \X DOMAIN asked[c] : c \in Conn}

\* The next request is begun, by a hasty client before the answer to the last.
AskNext(c) ==
  /\ running /\ client[c] = "up" /\ left[c] = 0
  /\ Cardinality(Begun) < MaxRequests
  /\ \E r \in Requests :
       /\ asked' = [asked EXCEPT ![c] = Append(@, r)]
       /\ left' = [left EXCEPT ![c] = 1 + r.body]
  /\ input' = [input EXCEPT ![c] = Append(@, [n |-> Len(asked[c]) + 1, part |-> "head"])]
  /\ hasty' = IF Len(answers[c]) < Len(asked[c]) THEN hasty \cup {c} ELSE hasty
  /\ UNCHANGED <<server, backlog, client, taken, answers>>

SendRest(c) ==
  /\ running /\ client[c] = "up" /\ left[c] > 0
  /\ LET n == Len(asked[c])
         part == IF left[c] = asked[c][n].body + 1 THEN "tail" ELSE "body"
     IN input' = [input EXCEPT ![c] = Append(@, [n |-> n, part |-> part])]
  /\ left' = [left EXCEPT ![c] = @ - 1]
  /\ UNCHANGED <<server, backlog, client, asked, taken, answers, hasty>>

Close(c) ==
  /\ running /\ client[c] \in {"calling", "up"}
  /\ client' = [client EXCEPT ![c] = "closed"]
  /\ UNCHANGED <<server, backlog, asked, left, input, taken, answers, hasty>>

Next == \E c \in Conn : Serve(c) \/ Connect(c) \/ AskNext(c) \/ SendRest(c) \/ Close(c)

Spec == Init /\ [][Next]_vars

\* io_service hands out what is ready first come, first served; a client sends
\* the whole of a request it has begun, and reads its answers.
FairSpec == Spec /\ \A c \in Conn : WF_vars(Serve(c)) /\ WF_vars(SendRest(c))

-----------------------------------------------------------------------------
(* Properties.                                                             *)

(* Handlers run on any thread and take no locks: that is right because     *)
(* each connection has one operation or one running handler at a time, and *)
(* the acceptor one operation, without which run() would return            *)
(* (server_base.h:140-146, 159-199; server_http.h:28-33).                  *)
OneOperation ==
  /\ \A v, w \in work : v.conn = w.conn => v = w
  /\ \A w \in work : w.conn \notin backlog
  /\ accepts = 1

(* The process only ends because of a request that no function of its      *)
(* resource can answer, that has no version or a length stoull() cannot    *)
(* read, or that could not be made out because its client had not waited   *)
(* for an answer: threads that serve proper requests, at whatever time, do *)
(* not disturb each other (server_base.h:137, 144, 181).                   *)
Served(r) ==
  /\ r.version # "none" /\ Legible(r)
  /\ IF r.path = "string" THEN r.method = "POST" /\ r.announced ELSE r.method = "GET"
DeathHasCause ==
  ~ running => \E c \in Conn : c \in hasty \/ \E i \in DOMAIN asked[c] : ~ Served(asked[c][i])

(* What is read and how it is cut into requests makes no difference: they  *)
(* are answered in turn, each with what belongs to it, even to a client    *)
(* that does not wait, of whose requests some are lost.                    *)
CompleteRequests(c) ==
  IF left[c] = 0 THEN asked[c] ELSE SubSeq(asked[c], 1, Len(asked[c]) - 1)
Conversation ==
  INSTANCE WebConversation WITH
    Client <- Conn, Question <- Requests, up <- running,
    questions <- [c \in Conn |-> CompleteRequests(c)], replies <- answers,
    Reply <- LAMBDA n, q : Echo(q, BodyOf(n, q)), Final <- LAMBDA q : ~ KeepsAlive(q)
RefinesConversation == Conversation!Spec

(* A client that waits for its answers gets one to each request, from the  *)
(* first on: no connection is forgotten and no handler waits for more than *)
(* has been announced (server_base.h:175-199), unless it leaves or the     *)
(* server hangs up or ends.                                                *)
Waiting(c) ==
  /\ running /\ client[c] = "up" /\ c \notin hasty
  /\ left[c] = 0 /\ Len(answers[c]) < Len(asked[c])
Answered == \A c \in Conn : Waiting(c) ~> ~ Waiting(c)

=============================================================================
