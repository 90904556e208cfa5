---------------------------- MODULE ProxySession ----------------------------
(***************************************************************************)
(* One connection through the proxy: handle_client() of proxyme.c and the  *)
(* two processes it forks, which share the client's and the remote's       *)
(* socket and copy in opposite directions with forward_data().             *)
(* Data is a stream of numbered chunks, each taken by one recv(); in an    *)
(* "http" and a "tunnel" session the client's chunk 1 is the header, whose *)
(* text is kept apart (ProxyHeader) and only until it is on its way; 0     *)
(* stands for the answer to a CONNECT request.  In a "relay" session       *)
(* remote_host was given and no header is read.                            *)
(***************************************************************************)
EXTENDS Integers, SequencesExt, ProxyHeader

CONSTANTS
  Requests,   \* the requests clients may send as chunk 1
  SendRoom,   \* chunks the kernel holds for a peer that does not read
  MaxChunks   \* BOUND: chunks each peer sends

\* Chunk 1 is all that read_header() takes.
ASSUME RequestAssumption ==
  /\ Requests \subseteq Request
  /\ \A r \in Requests : HeaderLength(Text(r)) \in {0, Len(Text(r))}
ASSUME RoomAssumption == SendRoom \in Nat \ {0}
ASSUME BoundAssumption == MaxChunks \in Nat

Sock == {"client", "remote"}
Forwarder == {"up", "down"}
Other(s) == IF s = "client" THEN "remote" ELSE "client"
Src(p) == IF p = "up" THEN "client" ELSE "remote"
Dst(p) == Other(Src(p))

VARIABLES
  kind,          \* "http", "tunnel" or "relay"
  request,       \* what the client asks for, while its header is needed
  target,        \* host and port to connect to
  handler,       \* where the process that runs handle_client() is
  pc, held,      \* where each forwarder is, and the chunk in its buffer
  net,           \* what the kernel knows of the peer of each socket
  shut,          \* sockets on which shutdown(SHUT_RDWR) has been called
  aborted,       \* sockets on which the proxy's kernel has sent a reset
  sent, taken,   \* chunks that have arrived from each peer, and been received
  wire, got      \* chunks under way to each peer, and those it has read

procs == <<handler, pc, held>>
ask == <<request, target>>
vars == <<kind, ask, procs, net, shut, aborted, sent, taken, wire, got>>

NoRequest == [method |-> "none"]
NoTarget == [host |-> <<>>, port |-> "none"]

TypeOK ==
  /\ kind \in {"http", "tunnel", "relay"}
  /\ request \in Requests \cup {NoRequest}
  /\ target \in [host : Seq(STRING), port : STRING]
  /\ handler \in {"header", "connect", "fork_up", "fork_down", "done"}
  /\ pc \in [Forwarder -> {"absent", "copy", "send", "shut_dst", "shut_src", "done", "crashed"}]
  /\ held \in [Forwarder -> 0 .. MaxChunks]
  /\ net \in [Sock -> {"none", "open", "half", "closed", "bounce", "reset", "broken"}]
  /\ shut \subseteq Sock /\ aborted \subseteq Sock
  /\ sent \in [Sock -> 0 .. MaxChunks]
  /\ taken \in [Sock -> 0 .. MaxChunks] /\ \A s \in Sock : taken[s] <= sent[s]
  /\ wire \in [Sock -> Seq(0 .. MaxChunks)] /\ \A s \in Sock : Len(wire[s]) <= SendRoom
  /\ got \in [Sock -> Seq(0 .. MaxChunks)]

Init ==
  /\ \/ kind = "relay" /\ request = NoRequest
     \/ kind = "http" /\ request \in Requests
  /\ target = NoTarget
  /\ handler = IF kind = "relay" THEN "connect" ELSE "header"
  /\ pc = [p \in Forwarder |-> "absent"]
  /\ held = [p \in Forwarder |-> 0]
  /\ net = [s \in Sock |-> IF s = "client" THEN "open" ELSE "none"]
  /\ shut = {} /\ aborted = {}
  /\ sent = [s \in Sock |-> 0] /\ taken = [s \in Sock |-> 0]
  /\ wire = [s \in Sock |-> <<>>] /\ got = [s \in Sock |-> <<>>]

Gone(p) == pc[p] \in {"absent", "done", "crashed"}
Over == handler = "done" /\ \A p \in Forwarder : Gone(p)

\* The last process to end closes the sockets; data nobody received makes
\* that close() a reset.
CloseSockets(last) ==
  aborted' = IF last THEN aborted \cup {s \in Sock : taken[s] < sent[s]} ELSE aborted

-----------------------------------------------------------------------------
(* recv() and send() of blocking sockets.                                  *)

\* recv() has nothing to wait for.  Drained: an empty buffer is taken for it.
Drained(s) == taken[s] = sent[s]
AtEnd(s) == taken[s] = sent[s] /\ (net[s] # "open" \/ s \in shut)

\* recv() returns a chunk.  Peeked: and leaves it there.
Peeked(s) == taken
Received(s) == [taken EXCEPT ![s] = @ + 1]

\* Outcomes of send(): taken by the kernel, refused with an error, SIGPIPE.
CanSend(s) == \/ net[s] \in {"open", "half"} /\ s \notin shut /\ Len(wire[s]) < SendRoom
              \/ net[s] \in {"closed", "bounce"} /\ s \notin shut
Refused(s) == net[s] = "reset"
Killed(s) == net[s] # "reset" /\ (s \in shut \/ net[s] = "broken")

\* shutdown(s, SHUT_RDWR).  NoShutdown: it is forgotten.
NoShutdown(s) == shut
Shutdown(s) == shut \cup {s}

-----------------------------------------------------------------------------
(* handle_client().                                                        *)

ForkedAs(p, at, chunk) ==
  /\ pc' = [pc EXCEPT ![p] = at]
  /\ held' = [held EXCEPT ![p] = chunk]

\* The header ends in an empty line, names a host and is no "GET /";
\* otherwise, and at the end of the stream, the client is closed.
Accepted == ~ IsDirect(Text(request)) /\ HasHost(Text(request))

\* read_header() takes what the client sent up to the end of the header.  If it
\* does not see that end it goes on, until its buffer is full.
ReadHeader ==
  /\ handler = "header"
  /\ \/ /\ ~ Drained("client")
        /\ taken' = Received("client")
        /\ IF taken["client"] = 0 /\ HeaderLength(Text(request)) > 0
             THEN /\ kind' = IF IsTunnel(Text(request)) THEN "tunnel" ELSE "http"
                  /\ handler' = IF Accepted THEN "connect" ELSE "done"
             ELSE handler' \in {"header", "done"} /\ UNCHANGED kind
     \/ /\ AtEnd("client")
        /\ handler' = "done"
        /\ UNCHANGED <<kind, taken>>
  /\ target' = IF handler' = "connect" THEN ExtractHost(Text(request)) ELSE NoTarget
  /\ request' = IF handler' = "done" THEN NoRequest ELSE request
  /\ aborted' = IF handler' = "done" /\ taken'["client"] < sent["client"]
                  THEN aborted \cup {"client"} ELSE aborted
  /\ UNCHANGED <<pc, held, net, shut, sent, wire, got>>

\* create_connection() succeeds, or the client is closed.
CreateConnection ==
  /\ handler = "connect"
  /\ target' = NoTarget
  /\ \/ /\ handler' = "fork_up"
        /\ net' = [net EXCEPT !["remote"] = "open"]
        /\ UNCHANGED <<request, aborted>>
     \/ /\ handler' = "done" /\ request' = NoRequest
        /\ CloseSockets(TRUE)
        /\ UNCHANGED net
  /\ UNCHANGED <<kind, pc, held, shut, sent, taken, wire, got>>

\* The first child sends the header on (forward_header()) unless it was a
\* CONNECT or there is none, then copies.  A failed fork() goes unnoticed, and
\* so does a child that crashes in rewrite_header().
FirstStep ==
  IF kind # "http" THEN "copy"
  ELSE IF RewriteFails(Text(request)) THEN "crashed" ELSE "send"

ForkUp ==
  /\ handler = "fork_up"
  /\ handler' = "fork_down"
  /\ request' = NoRequest
  /\ \/ ForkedAs("up", FirstStep, 1)
     \/ UNCHANGED <<pc, held>>
  /\ UNCHANGED <<kind, target, net, shut, aborted, sent, taken, wire, got>>

\* The second child answers a CONNECT (send_tunnel_ok()), then copies; the
\* handler closes its sockets and ends.
ForkDown ==
  /\ handler = "fork_down"
  /\ handler' = "done"
  /\ \/ ForkedAs("down", IF kind = "tunnel" THEN "send" ELSE "copy", 0) /\ UNCHANGED aborted
     \/ UNCHANGED <<pc, held>> /\ CloseSockets(Gone("up"))
  /\ UNCHANGED <<kind, ask, net, shut, sent, taken, wire, got>>

Handler == ReadHeader \/ CreateConnection \/ ForkUp \/ ForkDown

-----------------------------------------------------------------------------
(* forward_data() in process p.                                            *)

Goto(p, at) == pc' = [pc EXCEPT ![p] = at]

Recv(p) ==
  /\ pc[p] = "copy"
  /\ \/ /\ ~ Drained(Src(p))
        /\ held' = [held EXCEPT ![p] = taken[Src(p)] + 1]
        /\ taken' = Received(Src(p))
        /\ Goto(p, "send")
        /\ UNCHANGED net
     \/ /\ AtEnd(Src(p))
        /\ Goto(p, "shut_dst")
        /\ net' = [net EXCEPT ![Src(p)] = IF @ = "reset" THEN "broken" ELSE @]
        /\ UNCHANGED <<held, taken>>
  /\ UNCHANGED <<kind, ask, handler, shut, aborted, sent, wire, got>>

\* The result of send() is not looked at; SIGPIPE ends the process on the spot.
Send(p) ==
  /\ pc[p] = "send"
  /\ LET s == Dst(p) IN
     \/ /\ CanSend(s)
        /\ wire' = IF net[s] \in {"open", "half"}
                     THEN [wire EXCEPT ![s] = Append(@, held[p])] ELSE wire
        /\ net' = [net EXCEPT ![s] = IF @ = "closed" THEN "bounce" ELSE @]
        /\ Goto(p, "copy") /\ UNCHANGED aborted
     \/ /\ Refused(s)
        /\ net' = [net EXCEPT ![s] = "broken"]
        /\ Goto(p, "copy") /\ UNCHANGED <<wire, aborted>>
     \/ /\ Killed(s)
        /\ Goto(p, "done")
        /\ CloseSockets(handler = "done" /\ \A q \in Forwarder \ {p} : Gone(q))
        /\ UNCHANGED <<net, wire>>
  /\ UNCHANGED <<kind, ask, handler, held, shut, sent, taken, got>>

ShutDst(p) ==
  /\ pc[p] = "shut_dst" /\ Goto(p, "shut_src")
  /\ shut' = Shutdown(Dst(p))
  /\ UNCHANGED <<kind, ask, handler, held, net, aborted, sent, taken, wire, got>>

ShutSrc(p) ==
  /\ pc[p] = "shut_src" /\ Goto(p, "done")
  /\ shut' = Shutdown(Src(p))
  /\ CloseSockets(handler = "done" /\ \A q \in Forwarder \ {p} : Gone(q))
  /\ UNCHANGED <<kind, ask, handler, held, net, sent, taken, wire, got>>

Forward(p) == Recv(p) \/ Send(p) \/ ShutDst(p) \/ ShutSrc(p)

-----------------------------------------------------------------------------
(* The peers and the network.                                              *)

\* Data that reaches a socket shut down or closed is answered with a reset.
PeerSends(s) ==
  /\ net[s] = "open" /\ sent[s] < MaxChunks
  /\ IF s \in shut \/ Over
       THEN /\ aborted' = aborted \cup {s}
            /\ net' = [net EXCEPT ![s] = "broken"]
            /\ UNCHANGED sent
       ELSE sent' = [sent EXCEPT ![s] = @ + 1] /\ UNCHANGED <<aborted, net>>
  /\ UNCHANGED <<kind, ask, procs, shut, taken, wire, got>>

PeerReads(s) ==
  /\ net[s] \in {"open", "half"} /\ wire[s] # <<>>
  /\ got' = [got EXCEPT ![s] = Append(@, Head(wire[s]))]
  /\ wire' = [wire EXCEPT ![s] = Tail(@)]
  /\ UNCHANGED <<kind, ask, procs, net, shut, aborted, sent, taken>>

PeerHalfCloses(s) ==
  /\ net[s] = "open"
  /\ net' = [net EXCEPT ![s] = "half"]
  /\ UNCHANGED <<kind, ask, procs, shut, aborted, sent, taken, wire, got>>

\* A peer that closes with chunks unread sends a reset.
PeerCloses(s) ==
  /\ net[s] \in {"open", "half"}
  /\ net' = [net EXCEPT ![s] = IF wire[s] = <<>> THEN "closed"
                               ELSE IF @ = "open" THEN "reset" ELSE "broken"]
  /\ wire' = [wire EXCEPT ![s] = <<>>]
  /\ UNCHANGED <<kind, ask, procs, shut, aborted, sent, taken, got>>

ResetReturns(s) ==
  /\ net[s] = "bounce" /\ net' = [net EXCEPT ![s] = "broken"]
  /\ UNCHANGED <<kind, ask, procs, shut, aborted, sent, taken, wire, got>>

Peer(s) ==
  \/ PeerSends(s) \/ PeerReads(s) \/ PeerHalfCloses(s) \/ PeerCloses(s)
  \/ ResetReturns(s)

Next ==
  \/ Handler
  \/ \E p \in Forwarder : Forward(p)
  \/ \E s \in Sock : Peer(s)

Spec == Init /\ [][Next]_vars

\* Every process runs, and a peer that stays reads what it is sent.
FairSpec ==
  /\ Spec
  /\ WF_vars(Handler)
  /\ \A p \in Forwarder : WF_vars(Forward(p))
  /\ \A s \in Sock : WF_vars(PeerReads(s))

-----------------------------------------------------------------------------
(* Properties.                                                             *)

\* What the peer of s should get first: the header stays out of a tunnel, and
\* the answer to a CONNECT comes before the remote's data.
First(s) ==
  CASE kind = "tunnel" /\ s = "remote" -> 2
    [] kind = "tunnel" /\ s = "client" -> 0
    [] OTHER -> 1
Stream(s) == got[s] \o wire[s]

(* The connection is made to the host and port the client means, whatever  *)
(* words stand in its host, path and other lines, if a CONNECT says its    *)
(* port, and another request has no CONNECT in its text, no "Host:" in     *)
(* front of its Host line, one blank behind that, and does not end a name  *)
(* that has no port with a bare LF (proxyme.c:56-91).                      *)
Regular(r) ==
  IF r.method = "CONNECT" THEN r.port # NoPort
  ELSE /\ ~ IsTunnel(Text(r)) /\ Strstr(Text(r), <<"Host", ":">>) = HostAt(r)
       /\ r.blank = <<SP>> /\ (r.end[1] = <<CR, LF>> \/ r.port # NoPort)
TargetRight ==
  (handler = "connect" /\ kind # "relay" /\ Regular(request)) => target = Target(request)

(* The header that is forwarded is the client's with the path in place of  *)
(* the address, in the two cases the comment gives and whatever else the   *)
(* header holds, except in front of a path for a host that ends in HTTP;   *)
(* one without an "http://" is left as it is (proxyme.c:111-127).          *)
Odd(r) == r.path # <<>> /\ r.port = NoPort /\ Last(r.host) = "HTTP"
HeaderRewritten ==
  (handler = "fork_up" /\ kind = "http"
     /\ IF request.form = "absolute" THEN ~ Odd(request)
        ELSE Strstr(Text(request), Http) = 0) =>
    RewriteHeader(Text(request)) = Text(ToOrigin(request))

(* Each peer gets the other's chunks from the first one on, in order, with *)
(* no gap and no chunk twice, whatever fails on the way                    *)
(* (proxyme.c:133-141, 205-219).                                           *)
InOrder == \A s \in Sock : \A i \in 1 .. Len(Stream(s)) : Stream(s)[i] = First(s) + i - 1

(* When the session is over, a peer that neither ended the connection nor  *)
(* had it aborted has been sent everything the other one said, although    *)
(* either forwarder shuts both sockets down (proxyme.c:139-140).           *)
Complete ==
  Over => \A p \in Forwarder :
            (pc[p] = "done" /\ net[Dst(p)] = "open" /\ Dst(p) \notin aborted) =>
              Len(Stream(Dst(p))) = sent[Src(p)] - First(Dst(p)) + 1

(* Once either peer has ended its side, both forwarders end and with them  *)
(* the session, if both could be forked and none crashed: none stays       *)
(* blocked in recv() or send() (proxyme.c:133-141).                        *)
Ended(s) == net[s] \notin {"none", "open"}
Forked == \A p \in Forwarder : pc[p] \notin {"absent", "crashed"}
Ends == (\E s \in Sock : Ended(s)) /\ Forked ~> Over

=============================================================================
