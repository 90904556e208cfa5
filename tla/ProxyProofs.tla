---------------------------- MODULE ProxyProofs -----------------------------
(***************************************************************************)
(* Proofs about proxyme.c: the streams of a ProxySession, for any number   *)
(* of chunks, any room in the kernel and any requests; what is done with   *)
(* the header of a request, for every Request; then the processes of the   *)
(* ProxyServer, for any number of clients.                                 *)
(***************************************************************************)
EXTENDS ProxySession, ProxyServer, SequenceLemmas

PcState == {"absent", "copy", "send", "shut_dst", "shut_src", "done", "crashed"}
NetState == {"none", "open", "half", "closed", "bounce", "reset", "broken"}
Takes(s) == net[s] \in {"open", "half"}

(* The types the argument needs.                                           *)
Types ==
  /\ kind \in {"http", "tunnel", "relay"}
  /\ pc \in [Forwarder -> PcState]
  /\ held \in [Forwarder -> Nat]
  /\ net \in [Sock -> NetState]
  /\ shut \subseteq Sock
  /\ sent \in [Sock -> Nat] /\ taken \in [Sock -> Nat]
  /\ wire \in [Sock -> Seq(Nat)] /\ got \in [Sock -> Seq(Nat)]

(* Before a forwarder is forked, only the header has been taken, and a     *)
(* header that read_header() has left behind without seeing its end never  *)
(* leads to a connection; nothing is shut down or under way.               *)
Unforked ==
  /\ handler \in {"header", "connect", "fork_up"} => pc["up"] = "absent"
  /\ handler \in {"header", "connect", "fork_up", "fork_down"} => pc["down"] = "absent"
  /\ pc["down"] = "absent" => taken["remote"] = 0
  /\ handler \in {"connect", "fork_up"} => taken["client"] = IF kind = "relay" THEN 0 ELSE 1
  /\ (handler = "header" /\ taken["client"] # 0) => ~ (HeaderLength(Text(request)) > 0)
  /\ handler = "header" => kind = "http"
  /\ handler \in {"header", "connect"} => shut = {}
  /\ \A p \in Forwarder : pc[p] = "absent" => wire[Dst(p)] = <<>> /\ got[Dst(p)] = <<>>

(* How far the stream to a peer that still takes it has come: up to the    *)
(* chunk last received from the other one, or just in front of it.         *)
Position(s) == First(s) + Len(Stream(s))
Flow ==
  \A p \in Forwarder :
    Takes(Dst(p)) =>
      /\ pc[p] \in {"copy", "shut_dst", "shut_src"} => Position(Dst(p)) = taken[Src(p)] + 1
      /\ pc[p] = "send" => /\ Position(Dst(p)) = held[p]
                           /\ taken[Src(p)] = held[p]

(* Why a socket is shut down, and what that means for the forwarder that   *)
(* sends to it: while its peer stays, only that forwarder itself has done  *)
(* it, at the end of the stream it copied.                                 *)
ShutBy ==
  \A p \in Forwarder :
    /\ (Dst(p) \in shut /\ net[Dst(p)] = "open") => pc[p] \in {"shut_src", "done"}
    /\ pc[p] \in {"shut_dst", "shut_src"} => AtEnd(Src(p))
    /\ (pc[p] = "done" /\ net[Dst(p)] = "open") =>
         AtEnd(Src(p)) /\ Position(Dst(p)) = taken[Src(p)] + 1

(* The inductive invariant.                                                *)
PInv == Types /\ Unforked /\ Flow /\ ShutBy /\ InOrder

-----------------------------------------------------------------------------
(* Lemmas.                                                                 *)

(* Each forwarder copies from one socket to the other one.                 *)
LEMMA Sides ==
  /\ Src("up") = "client" /\ Dst("up") = "remote"
  /\ Src("down") = "remote" /\ Dst("down") = "client"
  /\ \A p \in Forwarder : /\ Src(p) \in Sock /\ Dst(p) \in Sock /\ Src(p) # Dst(p)
                          /\ p = "up" \/ p = "down"
  /\ \A p, q \in Forwarder : p # q => Src(p) = Dst(q) /\ Dst(p) = Src(q)
  /\ \A s \in Sock : \E p \in Forwarder : Dst(p) = s
  BY DEF Src, Dst, Other, Sock, Forwarder

(* A stream and a position in it are a sequence and a number.              *)
LEMMA StreamType ==
  ASSUME Types, NEW s \in Sock
  PROVE  /\ Stream(s) \in Seq(Nat) /\ Len(Stream(s)) \in Nat
         /\ First(s) \in 0 .. 2 /\ Position(s) \in Nat
  <1>1. wire[s] \in Seq(Nat) /\ got[s] \in Seq(Nat)
    BY DEF Types
  <1>2. Stream(s) \in Seq(Nat)
    BY <1>1, ConcatProperties DEF Stream
  <1>3. Len(Stream(s)) \in Nat
    BY <1>2, LenProperties
  <1>4. First(s) \in 0 .. 2
    BY DEF First
  <1>. QED
    BY <1>2, <1>3, <1>4 DEF Position

(* Streams stay as they are if nothing is sent, read or thrown away.       *)
LEMMA StreamFrame ==
  ASSUME UNCHANGED <<kind, wire, got>>
  PROVE  /\ \A s \in Sock : Stream(s)' = Stream(s) /\ First(s)' = First(s)
                            /\ Position(s)' = Position(s)
         /\ InOrder => InOrder'
  <1>1. \A s \in Sock : Stream(s)' = Stream(s) /\ First(s)' = First(s)
    BY DEF Stream, First
  <1>2. \A s \in Sock : Position(s)' = Position(s)
    BY <1>1 DEF Position
  <1>3. InOrder => InOrder'
    BY <1>1 DEF InOrder
  <1>. QED
    BY <1>1, <1>2, <1>3

LEMMA InitPInv == Init => PInv
  <1>. SUFFICES ASSUME Init PROVE PInv
    OBVIOUS
  <1>. USE DEF Sock, Forwarder
  <1>1. Types
    BY DEF Init, Types, PcState, NetState
  <1>2. Unforked
    <2>1. \A p \in Forwarder : wire[Dst(p)] = <<>> /\ got[Dst(p)] = <<>>
      BY Sides DEF Init
    <2>. QED
      BY <2>1 DEF Init, Unforked
  <1>3. Flow /\ ShutBy
    BY Sides DEF Init, Flow, ShutBy
  <1>4. InOrder
    <2>1. \A s \in Sock : Stream(s) = <<>>
      BY DEF Init, Stream
    <2>. QED
      BY <2>1 DEF InOrder
  <1>. QED
    BY <1>1, <1>2, <1>3, <1>4 DEF PInv

(* Each step keeps the types.                                              *)
LEMMA TypeStep ==
  ASSUME Types, [Next]_vars
  PROVE  Types'
  <1>. USE DEF Types, procs, ask
  <1>1. CASE UNCHANGED vars
    BY <1>1 DEF vars
  <1>2. CASE ReadHeader
    BY <1>2 DEF ReadHeader, Received, Sock
  <1>3. CASE CreateConnection
    BY <1>3 DEF CreateConnection, NetState, Sock
  <1>4. CASE ForkUp
    <2>1. FirstStep \in PcState
      BY DEF FirstStep, PcState
    <2>. QED
      BY <1>4, <2>1 DEF ForkUp, ForkedAs, PcState, Forwarder
  <1>5. CASE ForkDown
    BY <1>5 DEF ForkDown, ForkedAs, PcState, Forwarder
  <1>6. ASSUME NEW p \in Forwarder, Recv(p) PROVE Types'
    <2>1. Src(p) \in Sock
      BY Sides
    <2>2. taken' \in [Sock -> Nat] /\ held' \in [Forwarder -> Nat]
      <3>1. taken[Src(p)] + 1 \in Nat
        BY <2>1
      <3>2. \/ UNCHANGED <<held, taken>>
            \/ /\ held' = [held EXCEPT ![p] = taken[Src(p)] + 1]
               /\ taken' = [taken EXCEPT ![Src(p)] = @ + 1]
        BY <1>6 DEF Recv, Received
      <3>. QED
        BY <2>1, <3>1, <3>2
    <2>3. net' \in [Sock -> NetState]
      BY <1>6, <2>1 DEF Recv, NetState
    <2>. QED
      BY <1>6, <2>2, <2>3 DEF Recv, Goto, PcState
  <1>7. ASSUME NEW p \in Forwarder, Send(p) PROVE Types'
    <2>0. Dst(p) \in Sock
      BY Sides
    <2>1. UNCHANGED <<kind, held, shut, sent, taken, got>>
      BY <1>7 DEF Send
    <2>2. pc' \in [Forwarder -> PcState]
      BY <1>7 DEF Send, Goto, PcState
    <2>3. net' \in [Sock -> NetState]
      <3>1. \/ net' = net
            \/ net' = [net EXCEPT ![Dst(p)] = IF @ = "closed" THEN "bounce" ELSE @]
            \/ net' = [net EXCEPT ![Dst(p)] = "broken"]
        BY <1>7 DEF Send
      <3>. QED
        BY <2>0, <3>1 DEF NetState
    <2>4. wire' \in [Sock -> Seq(Nat)]
      <3>1. wire' = wire \/ wire' = [wire EXCEPT ![Dst(p)] = Append(@, held[p])]
        BY <1>7 DEF Send
      <3>2. Append(wire[Dst(p)], held[p]) \in Seq(Nat)
        <4>1. wire[Dst(p)] \in Seq(Nat) /\ held[p] \in Nat
          BY <2>0
        <4>. QED
          BY <4>1
      <3>. QED
        BY <2>0, <3>1, <3>2
    <2>. QED
      BY <2>1, <2>2, <2>3, <2>4
  <1>8. ASSUME NEW p \in Forwarder, ShutDst(p) PROVE Types'
    BY <1>8, Sides, SMTT(30) DEF ShutDst, Goto, Shutdown, PcState
  <1>9. ASSUME NEW p \in Forwarder, ShutSrc(p) PROVE Types'
    <2>1. Src(p) \in Sock
      BY Sides
    <2>2. pc' = [pc EXCEPT ![p] = "done"] /\ shut' = shut \cup {Src(p)}
      BY <1>9 DEF ShutSrc, Goto, Shutdown
    <2>3. UNCHANGED <<kind, held, net, sent, taken, wire, got>>
      BY <1>9 DEF ShutSrc
    <2>. QED
      BY <2>1, <2>2, <2>3 DEF PcState
  <1>10. ASSUME NEW s \in Sock, PeerSends(s) PROVE Types'
    <2>1. UNCHANGED <<kind, pc, held, shut, taken, wire, got>>
      BY <1>10 DEF PeerSends
    <2>2. net' = net \/ net' = [net EXCEPT ![s] = "broken"]
      BY <1>10 DEF PeerSends
    <2>3. sent' = sent \/ sent' = [sent EXCEPT ![s] = @ + 1]
      BY <1>10 DEF PeerSends
    <2>4. net' \in [Sock -> NetState]
      BY <2>2 DEF NetState
    <2>5. sent' \in [Sock -> Nat]
      <3>1. sent[s] + 1 \in Nat
        OBVIOUS
      <3>. QED
        BY <2>3, <3>1
    <2>. QED
      BY <2>1, <2>4, <2>5
  <1>11. ASSUME NEW s \in Sock, PeerReads(s) PROVE Types'
    <2>1. Head(wire[s]) \in Nat /\ Tail(wire[s]) \in Seq(Nat) /\ got[s] \in Seq(Nat)
      BY <1>11, HeadTailProperties DEF PeerReads
    <2>2. Append(got[s], Head(wire[s])) \in Seq(Nat)
      BY <2>1
    <2>. QED
      BY <1>11, <2>1, <2>2 DEF PeerReads
  <1>12. ASSUME NEW s \in Sock, PeerHalfCloses(s) PROVE Types'
    BY <1>12 DEF PeerHalfCloses, NetState
  <1>13. ASSUME NEW s \in Sock, PeerCloses(s) PROVE Types'
    BY <1>13 DEF PeerCloses, NetState
  <1>14. ASSUME NEW s \in Sock, ResetReturns(s) PROVE Types'
    BY <1>14 DEF ResetReturns, NetState
  <1>. QED
    BY <1>1, <1>2, <1>3, <1>4, <1>5, <1>6, <1>7, <1>8, <1>9, <1>10, <1>11, <1>12, <1>13, <1>14
    DEF Next, Handler, Forward, Peer

(* A chunk put under way is behind the rest of the stream.                 *)
LEMMA StreamAppend ==
  ASSUME Types, NEW s \in Sock, NEW x \in Nat,
         wire' = [wire EXCEPT ![s] = Append(@, x)], UNCHANGED <<kind, got>>
  PROVE  /\ Len(Stream(s)') = Len(Stream(s)) + 1
         /\ Stream(s)'[Len(Stream(s)) + 1] = x
         /\ \A i \in 1 .. Len(Stream(s)) : Stream(s)'[i] = Stream(s)[i]
         /\ \A t \in Sock \ {s} : Stream(t)' = Stream(t)
         /\ \A t \in Sock : First(t)' = First(t)
  <1>1. /\ wire[s] \in Seq(Nat) /\ got[s] \in Seq(Nat)
        /\ got' = got /\ wire'[s] = Append(wire[s], x)
        /\ \A t \in Sock \ {s} : wire'[t] = wire[t]
    BY DEF Types
  <1>2. Stream(s)' = got[s] \o Append(wire[s], x)
    BY <1>1 DEF Stream
  <1>3. Stream(s) = got[s] \o wire[s]
    BY DEF Stream
  <1>4. /\ got[s] \o Append(wire[s], x) \in Seq(Nat)
        /\ Len(got[s] \o Append(wire[s], x)) = Len(got[s] \o wire[s]) + 1
        /\ (got[s] \o Append(wire[s], x))[Len(got[s] \o wire[s]) + 1] = x
        /\ \A i \in 1 .. Len(got[s] \o wire[s]) :
             (got[s] \o Append(wire[s], x))[i] = (got[s] \o wire[s])[i]
    <2>1. ASSUME NEW g \in Seq(Nat), NEW w \in Seq(Nat)
          PROVE  /\ g \o Append(w, x) \in Seq(Nat)
                 /\ Len(g \o Append(w, x)) = Len(g \o w) + 1
                 /\ (g \o Append(w, x))[Len(g \o w) + 1] = x
                 /\ \A i \in 1 .. Len(g \o w) : (g \o Append(w, x))[i] = (g \o w)[i]
      BY PutBehind
    <2>. QED
      BY <1>1, <2>1, Zenon
  <1>5. \A t \in Sock \ {s} : Stream(t)' = Stream(t)
    BY <1>1 DEF Stream
  <1>6. \A t \in Sock : First(t)' = First(t)
    BY DEF First
  <1>7. /\ Len(Stream(s)') = Len(Stream(s)) + 1
        /\ Stream(s)'[Len(Stream(s)) + 1] = x
        /\ \A i \in 1 .. Len(Stream(s)) : Stream(s)'[i] = Stream(s)[i]
    BY <1>1, <1>2, <1>3, <1>4, Zenon
  <1>. QED
    BY <1>5, <1>6, <1>7

(* Nothing a forwarder does is about what was before it was forked.        *)
LEMMA ForwardUnforked ==
  ASSUME Types, Unforked, NEW p \in Forwarder, Forward(p)
  PROVE  Unforked'
  <1>1. pc[p] # "absent" /\ UNCHANGED <<kind, request, handler>>
    BY DEF Forward, Recv, Send, ShutDst, ShutSrc, ask
  <1>2. /\ pc'[p] # "absent"
        /\ \A q \in Forwarder \ {p} : pc'[q] = pc[q]
    BY DEF Forward, Recv, Send, ShutDst, ShutSrc, Goto, Types
  <1>3. handler \notin {"header", "connect", "fork_up"} /\ (handler = "fork_down" => p = "up")
    BY <1>1, Sides DEF Unforked
  <1>4. \A s \in Sock : s # Src(p) => taken'[s] = taken[s]
    BY Sides DEF Forward, Recv, Send, ShutDst, ShutSrc, Received, Types
  <1>5. \A s \in Sock : s # Dst(p) => wire'[s] = wire[s] /\ got'[s] = got[s]
    BY Sides DEF Forward, Recv, Send, ShutDst, ShutSrc, Types
  <1>6. handler = "fork_down" => pc'["down"] = "absent"
    BY <1>2, <1>3 DEF Unforked, Forwarder
  <1>7. pc'["down"] = "absent" => taken'["remote"] = 0
    <2>. SUFFICES ASSUME pc'["down"] = "absent" PROVE taken'["remote"] = 0
      OBVIOUS
    <2>1. p = "up"
      BY <1>2, Sides
    <2>2. pc["down"] = "absent"
      BY <1>2, <2>1 DEF Forwarder
    <2>. QED
      BY <1>4, <2>1, <2>2, Sides DEF Unforked, Sock
  <1>8. ASSUME NEW q \in Forwarder, pc'[q] = "absent"
        PROVE  wire'[Dst(q)] = <<>> /\ got'[Dst(q)] = <<>>
    <2>1. q # p /\ pc[q] = "absent"
      BY <1>2, <1>8
    <2>2. Dst(q) \in Sock /\ Dst(q) # Dst(p)
      BY <2>1, Sides
    <2>. QED
      BY <1>5, <2>1, <2>2 DEF Unforked
  <1>. QED
    BY <1>1, <1>3, <1>6, <1>7, <1>8 DEF Unforked

(* The handler reads the header and connects before there is a forwarder.  *)
LEMMA ReadHeaderStep ==
  ASSUME PInv, ReadHeader
  PROVE  Unforked' /\ Flow' /\ ShutBy' /\ InOrder'
  <1>. USE DEF PInv
  <1>1. /\ handler = "header" /\ kind = "http"
        /\ UNCHANGED <<pc, held, net, shut, sent, wire, got>>
    BY DEF ReadHeader, Unforked
  <1>2. \A p \in Forwarder : /\ pc[p] = "absent" /\ pc'[p] = "absent"
                             /\ wire[Dst(p)] = <<>> /\ got[Dst(p)] = <<>>
    BY <1>1, Sides DEF Unforked
  <1>3. taken'["remote"] = taken["remote"] /\ taken["remote"] = 0
    BY <1>1, <1>2 DEF ReadHeader, Received, Unforked, Types, Sock, Forwarder
  <1>4. handler' \in {"header", "connect", "done"}
    BY DEF ReadHeader
  <1>5. handler' = "connect" => taken'["client"] = 1 /\ kind' # "relay"
    <2>. SUFFICES ASSUME handler' = "connect"
                  PROVE  taken'["client"] = 1 /\ kind' # "relay"
      OBVIOUS
    <2>1. /\ taken' = [taken EXCEPT !["client"] = @ + 1] /\ taken["client"] = 0
          /\ kind' \in {"tunnel", "http"}
      BY DEF ReadHeader, Received
    <2>. QED
      BY <2>1 DEF Types, Sock
  <1>6. handler' = "header" => /\ UNCHANGED <<kind, request>>
                               /\ ~ (HeaderLength(Text(request)) > 0)
    <2>. SUFFICES ASSUME handler' = "header"
                  PROVE  UNCHANGED <<kind, request>> /\ ~ (HeaderLength(Text(request)) > 0)
      OBVIOUS
    <2>. HIDE DEF PInv
    <2>. DEFINE seen == HeaderLength(Text(request)) > 0
    <2>1. /\ ~ (taken["client"] = 0 /\ seen)
          /\ request' = request /\ kind' = kind
      BY DEF ReadHeader
    <2>2. taken["client"] # 0 => ~ seen
      BY <1>1 DEF Unforked, PInv
    <2>. QED
      BY <2>1, <2>2
  <1>7. Unforked'
    <2>1. handler' = "header" => request' = request /\ kind' = "http"
      BY <1>1, <1>6
    <2>. QED
      BY <1>1, <1>2, <1>3, <1>4, <1>5, <1>6, <2>1, Sides DEF Unforked, Forwarder
  <1>8. Flow' /\ ShutBy'
    BY <1>1, <1>2 DEF Flow, ShutBy
  <1>9. InOrder'
    <2>1. \A s \in Sock : wire[s] = <<>> /\ got[s] = <<>>
      BY <1>2, Sides
    <2>2. \A s \in Sock : Stream(s)' = <<>>
      BY <1>1, <2>1 DEF Stream
    <2>. QED
      BY <2>2 DEF InOrder
  <1>. QED
    BY <1>7, <1>8, <1>9

LEMMA CreateConnectionStep ==
  ASSUME PInv, CreateConnection
  PROVE  Unforked' /\ Flow' /\ ShutBy' /\ InOrder'
  <1>. USE DEF PInv
  <1>1. /\ handler = "connect" /\ handler' \in {"fork_up", "done"}
        /\ UNCHANGED <<kind, pc, held, shut, sent, taken, wire, got>>
    BY DEF CreateConnection
  <1>2. \A p \in Forwarder : pc[p] = "absent" /\ pc'[p] = "absent"
    BY <1>1, Sides DEF Unforked
  <1>3. Unforked'
    BY <1>1 DEF Unforked
  <1>4. shut' = {}
    BY <1>1 DEF Unforked
  <1>5. Flow' /\ ShutBy'
    BY <1>2, <1>4 DEF Flow, ShutBy
  <1>. QED
    BY <1>1, <1>3, <1>5, StreamFrame

(* A child starts where the header, or the answer to a CONNECT, is next.   *)
LEMMA ForkUpStep ==
  ASSUME PInv, ForkUp
  PROVE  Unforked' /\ Flow' /\ ShutBy' /\ InOrder'
  <1>. USE DEF PInv
  <1>1. /\ handler = "fork_up" /\ handler' = "fork_down"
        /\ UNCHANGED <<kind, net, shut, sent, taken, wire, got>>
    BY DEF ForkUp
  <1>2. pc["up"] = "absent" /\ pc["down"] = "absent" /\ pc'["down"] = "absent"
    BY <1>1 DEF ForkUp, ForkedAs, Unforked, Types, Forwarder
  <1>3. \/ pc'["up"] = "absent"
        \/ /\ pc'["up"] = FirstStep /\ held'["up"] = 1
    BY <1>2 DEF ForkUp, ForkedAs, Types, Forwarder
  <1>s. FirstStep = "crashed" \/ FirstStep = IF kind = "http" THEN "send" ELSE "copy"
    BY DEF FirstStep
  <1>4. Unforked'
    <2>1. pc'["up"] = "absent" => pc["up"] = "absent"
      BY <1>2
    <2>. QED
      BY <1>1, <1>2, <2>1, Sides DEF Unforked
  <1>5. Position("remote")' = First("remote")
    <2>1. Stream("remote") = <<>> /\ Len(<<>>) = 0
      BY <1>2, Sides DEF Unforked, Stream, Forwarder
    <2>2. First("remote") \in Int
      BY DEF First
    <2>3. Position("remote") = First("remote")
      BY <2>1, <2>2 DEF Position
    <2>. QED
      BY <1>1, <2>3, StreamFrame DEF Sock
  <1>6. taken'["client"] = IF kind = "relay" THEN 0 ELSE 1
    BY <1>1 DEF Unforked
  <1>7. ASSUME NEW p \in Forwarder
        PROVE  /\ pc'[p] \in {"copy", "shut_dst", "shut_src"} =>
                    Position(Dst(p))' = taken'[Src(p)] + 1
               /\ pc'[p] = "send" => /\ Position(Dst(p))' = held'[p]
                                     /\ taken'[Src(p)] = held'[p]
    <2>1. CASE p = "down"
      BY <1>2, <2>1
    <2>2. CASE p = "up"
      BY <1>3, <1>s, <1>5, <1>6, <2>2, Sides DEF First, Types
    <2>. QED
      BY <2>1, <2>2, Sides
  <1>8. Flow'
    BY <1>7 DEF Flow
  <1>9. ShutBy'
    BY <1>1, <1>2, <1>3, <1>s, Sides DEF ShutBy
  <1>. QED
    BY <1>1, <1>4, <1>8, <1>9, StreamFrame

LEMMA ForkDownStep ==
  ASSUME PInv, ForkDown
  PROVE  Unforked' /\ Flow' /\ ShutBy' /\ InOrder'
  <1>. USE DEF PInv
  <1>1. /\ handler = "fork_down" /\ handler' = "done"
        /\ UNCHANGED <<kind, net, shut, sent, taken, wire, got>>
    BY DEF ForkDown, ask
  <1>2. pc["down"] = "absent" /\ pc'["up"] = pc["up"] /\ held'["up"] = held["up"]
    BY <1>1 DEF ForkDown, ForkedAs, Unforked, Types, Forwarder
  <1>3. \/ pc'["down"] = "absent"
        \/ /\ pc'["down"] = IF kind = "tunnel" THEN "send" ELSE "copy"
           /\ held'["down"] = 0
    BY <1>2 DEF ForkDown, ForkedAs, Types, Forwarder
  <1>4. Unforked'
    <2>1. pc'["down"] = "absent" => pc["down"] = "absent"
      BY <1>2
    <2>. QED
      BY <1>1, <1>2, <2>1, Sides DEF Unforked
  <1>5. Position("client")' = First("client")
    <2>1. Stream("client") = <<>> /\ Len(<<>>) = 0
      BY <1>2, Sides DEF Unforked, Stream, Forwarder
    <2>2. First("client") \in Int
      BY DEF First
    <2>3. Position("client") = First("client")
      BY <2>1, <2>2 DEF Position
    <2>. QED
      BY <1>1, <2>3, StreamFrame DEF Sock
  <1>6. taken'["remote"] = 0
    BY <1>1, <1>2 DEF Unforked
  <1>7. ASSUME NEW p \in Forwarder, Takes(Dst(p))'
        PROVE  /\ pc'[p] \in {"copy", "shut_dst", "shut_src"} =>
                    Position(Dst(p))' = taken'[Src(p)] + 1
               /\ pc'[p] = "send" => /\ Position(Dst(p))' = held'[p]
                                     /\ taken'[Src(p)] = held'[p]
    <2>1. CASE p = "up"
      <3>1. Position(Dst(p))' = Position(Dst(p)) /\ Takes(Dst(p))
        BY <1>1, <1>7, StreamFrame, Sides DEF Takes
      <3>. QED
        BY <1>1, <1>2, <2>1, <3>1 DEF Flow
    <2>2. CASE p = "down"
      BY <1>3, <1>5, <1>6, <2>2, Sides DEF First, Types
    <2>. QED
      BY <2>1, <2>2, Sides
  <1>8. Flow'
    BY <1>7 DEF Flow
  <1>9. ShutBy'
    <2>1. Position(Dst("up"))' = Position(Dst("up"))
      BY <1>1, StreamFrame, Sides DEF Forwarder
    <2>. QED
      BY <1>1, <1>2, <1>3, <2>1, Sides DEF ShutBy, AtEnd
  <1>. QED
    BY <1>1, <1>4, <1>8, <1>9, StreamFrame

-----------------------------------------------------------------------------
(* The forwarders.                                                         *)

LEMMA RecvStep ==
  ASSUME PInv, NEW p \in Forwarder, Recv(p)
  PROVE  Flow' /\ ShutBy' /\ InOrder'
  <1>. USE DEF PInv
  <1>1. /\ pc[p] = "copy"
        /\ UNCHANGED <<kind, shut, sent, wire, got>>
        /\ \A q \in Forwarder \ {p} : pc'[q] = pc[q] /\ held'[q] = held[q]
    BY DEF Recv, Goto, Types
  <1>2. Src(p) \in Sock /\ Dst(p) \in Sock /\ Src(p) # Dst(p)
    BY Sides
  <1>3. taken'[Dst(p)] = taken[Dst(p)] /\ net'[Dst(p)] = net[Dst(p)]
    BY <1>2 DEF Recv, Received, Types
  <1>4. \/ /\ pc'[p] = "send" /\ held'[p] = taken[Src(p)] + 1
           /\ taken'[Src(p)] = taken[Src(p)] + 1 /\ net' = net
        \/ /\ pc'[p] = "shut_dst" /\ AtEnd(Src(p))
           /\ taken' = taken /\ held' = held
           /\ net'[Src(p)] = IF net[Src(p)] = "reset" THEN "broken" ELSE net[Src(p)]
    BY <1>2 DEF Recv, Received, Goto, Types
  <1>5. /\ net'[Src(p)] = "open" <=> net[Src(p)] = "open"
        /\ Takes(Src(p))' <=> Takes(Src(p))
        /\ Takes(Dst(p))' <=> Takes(Dst(p))
    BY <1>3, <1>4 DEF Takes
  <1>6. \A s \in Sock : Position(s)' = Position(s)
    BY <1>1, StreamFrame
  <1>7. \A q \in Forwarder : q # p => /\ Src(q) = Dst(p) /\ Dst(q) = Src(p)
                                      /\ pc'[q] = pc[q] /\ held'[q] = held[q]
    BY <1>1, Sides
  <1>8. Flow'
    <2>1. ASSUME NEW q \in Forwarder, Takes(Dst(q))'
          PROVE  /\ pc'[q] \in {"copy", "shut_dst", "shut_src"} =>
                      Position(Dst(q))' = taken'[Src(q)] + 1
                 /\ pc'[q] = "send" => /\ Position(Dst(q))' = held'[q]
                                       /\ taken'[Src(q)] = held'[q]
      <3>1. CASE q = p
        <4>1. Position(Dst(p))' = taken[Src(p)] + 1
          BY <1>1, <1>2, <1>5, <1>6, <2>1, <3>1 DEF Flow
        <4>. QED
          BY <1>4, <3>1, <4>1
      <3>2. CASE q # p
        BY <1>2, <1>3, <1>5, <1>6, <1>7, <2>1, <3>2 DEF Flow
      <3>. QED
        BY <3>1, <3>2
    <2>. QED
      BY <2>1 DEF Flow
  <1>9. ShutBy'
    <2>1. ASSUME NEW q \in Forwarder
          PROVE  /\ (Dst(q) \in shut' /\ net'[Dst(q)] = "open") => pc'[q] \in {"shut_src", "done"}
                 /\ pc'[q] \in {"shut_dst", "shut_src"} => AtEnd(Src(q))'
                 /\ (pc'[q] = "done" /\ net'[Dst(q)] = "open") =>
                      AtEnd(Src(q))' /\ Position(Dst(q))' = taken'[Src(q)] + 1
      <3>1. CASE q = p
        <4>1. ~ (Dst(p) \in shut' /\ net'[Dst(p)] = "open")
          BY <1>1, <1>3 DEF ShutBy
        <4>2. pc'[p] # "done" /\ pc'[p] # "shut_src"
          BY <1>4
        <4>3. pc'[p] = "shut_dst" => AtEnd(Src(p))'
          BY <1>1, <1>4 DEF AtEnd
        <4>. QED
          BY <3>1, <4>1, <4>2, <4>3
      <3>2. CASE q # p
        <4>1. Src(q) = Dst(p) /\ Dst(q) = Src(p) /\ pc'[q] = pc[q]
          BY <1>7, <3>2
        <4>2. AtEnd(Src(q)) => AtEnd(Src(q))'
          BY <1>1, <1>3, <4>1 DEF AtEnd
        <4>3. Position(Dst(q))' = Position(Dst(q)) /\ taken'[Src(q)] = taken[Src(q)]
          BY <1>2, <1>3, <1>6, <4>1
        <4>. QED
          BY <1>1, <1>5, <4>1, <4>2, <4>3 DEF ShutBy
      <3>. QED
        BY <3>1, <3>2
    <2>. QED
      BY <2>1 DEF ShutBy
  <1>. QED
    BY <1>1, <1>8, <1>9, StreamFrame

(* A chunk that is taken continues its stream, one that is refused or lost *)
(* had no stream left to continue.                                         *)
LEMMA SendStep ==
  ASSUME PInv, NEW p \in Forwarder, Send(p)
  PROVE  Flow' /\ ShutBy' /\ InOrder'
  <1>. USE DEF PInv
  <1>1. /\ pc[p] = "send" /\ held[p] \in Nat
        /\ UNCHANGED <<kind, held, shut, sent, taken, got>>
        /\ \A q \in Forwarder \ {p} : pc'[q] = pc[q]
    BY DEF Send, Goto, Types
  <1>2. /\ Src(p) \in Sock /\ Dst(p) \in Sock /\ Src(p) # Dst(p)
        /\ net'[Src(p)] = net[Src(p)]
    BY Sides DEF Send, Types
  <1>3. \A q \in Forwarder : q # p => /\ Src(q) = Dst(p) /\ Dst(q) = Src(p)
                                      /\ pc'[q] = pc[q]
    BY <1>1, Sides
  <1>4. net'[Dst(p)] = "open" => net[Dst(p)] = "open"
    BY <1>2 DEF Send, Types
  <1>5. ~ (Dst(p) \in shut /\ net[Dst(p)] = "open")
    BY <1>1 DEF ShutBy
  <1>6. /\ wire' = wire \/ wire' = [wire EXCEPT ![Dst(p)] = Append(@, held[p])]
        /\ pc'[p] \in {"copy", "done"}
    BY DEF Send, Goto, Types
  <1>7. Stream(Src(p))' = Stream(Src(p)) /\ Position(Src(p))' = Position(Src(p))
    <2>1. wire'[Src(p)] = wire[Src(p)]
      BY <1>2, <1>6 DEF Types
    <2>. QED
      BY <1>1, <2>1 DEF Stream, Position, First
  <1>8. pc'[p] = "done" => net'[Dst(p)] # "open"
    <2>1. pc'[p] = "done" => Killed(Dst(p)) /\ net' = net
      BY DEF Send, Goto, Types
    <2>. QED
      BY <1>5, <2>1 DEF Killed
  <1>9. \/ /\ Takes(Dst(p)) /\ pc'[p] = "copy"
           /\ wire' = [wire EXCEPT ![Dst(p)] = Append(@, held[p])]
        \/ wire' = wire /\ (~ Takes(Dst(p))' \/ pc'[p] = "done")
    BY <1>2 DEF Send, CanSend, Refused, Takes, Goto, Types
  <1>10. ShutBy'
    <2>1. ASSUME NEW q \in Forwarder
          PROVE  /\ (Dst(q) \in shut' /\ net'[Dst(q)] = "open") => pc'[q] \in {"shut_src", "done"}
                 /\ pc'[q] \in {"shut_dst", "shut_src"} => AtEnd(Src(q))'
                 /\ (pc'[q] = "done" /\ net'[Dst(q)] = "open") =>
                      AtEnd(Src(q))' /\ Position(Dst(q))' = taken'[Src(q)] + 1
      <3>1. CASE q = p
        BY <1>1, <1>4, <1>5, <1>6, <1>8, <3>1
      <3>2. CASE q # p
        <4>1. AtEnd(Src(q)) => AtEnd(Src(q))'
          BY <1>1, <1>3, <1>4, <3>2 DEF AtEnd
        <4>. QED
          BY <1>1, <1>2, <1>3, <1>7, <3>2, <4>1 DEF ShutBy
      <3>. QED
        BY <3>1, <3>2
    <2>. QED
      BY <2>1 DEF ShutBy
  <1>11. Takes(Src(p))' <=> Takes(Src(p))
    BY <1>2 DEF Takes
  <1>12. CASE /\ Takes(Dst(p))
              /\ wire' = [wire EXCEPT ![Dst(p)] = Append(@, held[p])] /\ pc'[p] = "copy"
    <2>1. /\ Len(Stream(Dst(p))') = Len(Stream(Dst(p))) + 1
          /\ Stream(Dst(p))'[Len(Stream(Dst(p))) + 1] = held[p]
          /\ \A i \in 1 .. Len(Stream(Dst(p))) : Stream(Dst(p))'[i] = Stream(Dst(p))[i]
          /\ First(Dst(p))' = First(Dst(p))
      BY <1>1, <1>2, <1>12, StreamAppend
    <2>2. Len(Stream(Dst(p))) \in Nat /\ First(Dst(p)) \in 0 .. 2
      BY <1>2, StreamType
    <2>3. First(Dst(p)) + Len(Stream(Dst(p))) = held[p] /\ taken[Src(p)] = held[p]
      BY <1>1, <1>12 DEF Flow, Position
    <2>. DEFINE l == Len(Stream(Dst(p)))
    <2>4. l \in Nat /\ First(Dst(p)) + l = held[p] /\ Len(Stream(Dst(p))') = l + 1
      BY <2>1, <2>2, <2>3
    <2>5. Position(Dst(p))' = taken'[Src(p)] + 1
      <3>1. Position(Dst(p))' = First(Dst(p)) + (l + 1)
        BY <2>1, <2>4 DEF Position
      <3>. HIDE DEF l
      <3>. QED
        BY <1>1, <2>2, <2>3, <2>4, <3>1
    <2>6. InOrder'
      <3>1. ASSUME NEW s \in Sock, NEW i \in 1 .. Len(Stream(s)')
            PROVE  Stream(s)'[i] = First(s)' + i - 1
        <4>1. CASE s = Src(p)
          BY <1>1, <1>7, <4>1 DEF InOrder, First
        <4>2. CASE s = Dst(p) /\ i \in 1 .. l
          <5>1. Stream(s)[i] = First(s) + i - 1
            BY <4>2 DEF InOrder
          <5>. QED
            BY <2>1, <4>2, <5>1
        <4>3. CASE s = Dst(p) /\ i = l + 1
          <5>1. Stream(s)'[i] = held[p] /\ First(s)' = First(Dst(p))
            BY <2>1, <4>3
          <5>2. i - 1 = l /\ i \in Nat
            BY <2>4, <4>3
          <5>. HIDE DEF l
          <5>. QED
            BY <2>2, <2>4, <5>1, <5>2
        <4>4. s = Src(p) \/ s = Dst(p)
          BY <1>2 DEF Sock
        <4>. HIDE DEF l
        <4>5. s = Dst(p) => i \in 1 .. l \/ i = l + 1
          BY <2>4
        <4>. QED
          BY <4>1, <4>2, <4>3, <4>4, <4>5
      <3>. QED
        BY <3>1 DEF InOrder
    <2>8. Flow'
      <3>1. ASSUME NEW q \in Forwarder, Takes(Dst(q))'
            PROVE  /\ pc'[q] \in {"copy", "shut_dst", "shut_src"} =>
                        Position(Dst(q))' = taken'[Src(q)] + 1
                   /\ pc'[q] = "send" => /\ Position(Dst(q))' = held'[q]
                                         /\ taken'[Src(q)] = held'[q]
        <4>1. CASE q = p
          BY <1>12, <2>5, <4>1
        <4>2. CASE q # p
          BY <1>1, <1>3, <1>7, <1>11, <3>1, <4>2 DEF Flow
        <4>. QED
          BY <4>1, <4>2
      <3>. QED
        BY <3>1 DEF Flow
    <2>. QED
      BY <1>10, <2>6, <2>8
  <1>13. CASE wire' = wire /\ (~ Takes(Dst(p))' \/ pc'[p] = "done")
    <2>1. \A s \in Sock : Position(s)' = Position(s)
      BY <1>1, <1>13, StreamFrame
    <2>2. ASSUME NEW q \in Forwarder, Takes(Dst(q))'
          PROVE  /\ pc'[q] \in {"copy", "shut_dst", "shut_src"} =>
                      Position(Dst(q))' = taken'[Src(q)] + 1
                 /\ pc'[q] = "send" => /\ Position(Dst(q))' = held'[q]
                                       /\ taken'[Src(q)] = held'[q]
      <3>1. CASE q = p
        BY <1>13, <2>2, <3>1
      <3>2. CASE q # p
        BY <1>1, <1>2, <1>3, <1>11, <2>1, <2>2, <3>2 DEF Flow
      <3>. QED
        BY <3>1, <3>2
    <2>3. Flow'
      BY <2>2 DEF Flow
    <2>. QED
      BY <1>1, <1>10, <1>13, <2>3, StreamFrame
  <1>. QED
    BY <1>12, <1>9, <1>13

LEMMA ShutDstStep ==
  ASSUME PInv, NEW p \in Forwarder, ShutDst(p)
  PROVE  Flow' /\ ShutBy' /\ InOrder'
  <1>. USE DEF PInv
  <1>1. /\ pc[p] = "shut_dst" /\ pc'[p] = "shut_src" /\ shut' = shut \cup {Dst(p)}
        /\ UNCHANGED <<kind, held, net, sent, taken, wire, got>>
        /\ \A q \in Forwarder \ {p} : pc'[q] = pc[q]
    BY DEF ShutDst, Shutdown, Goto, Types
  <1>2. \A s \in Sock : /\ Position(s)' = Position(s)
                        /\ AtEnd(s) => AtEnd(s)'
                        /\ Takes(s)' <=> Takes(s)
    BY <1>1, StreamFrame DEF AtEnd, Takes
  <1>3. Src(p) \in Sock /\ Dst(p) \in Sock
        /\ \A q \in Forwarder \ {p} : Dst(q) # Dst(p)
    BY Sides
  <1>4. ASSUME NEW q \in Forwarder
        PROVE  /\ (Dst(q) \in shut' /\ net'[Dst(q)] = "open") => pc'[q] \in {"shut_src", "done"}
               /\ pc'[q] \in {"shut_dst", "shut_src"} => AtEnd(Src(q))'
               /\ (pc'[q] = "done" /\ net'[Dst(q)] = "open") =>
                    AtEnd(Src(q))' /\ Position(Dst(q))' = taken'[Src(q)] + 1
    <2>1. CASE q = p
      BY <1>1, <1>2, <1>3, <2>1 DEF ShutBy
    <2>2. CASE q # p
      <3>1. Src(q) \in Sock /\ Dst(q) \in Sock /\ (Dst(q) \in shut' => Dst(q) \in shut)
        BY <1>1, <1>3, <2>2, Sides
      <3>. QED
        BY <1>1, <1>2, <2>2, <3>1 DEF ShutBy
    <2>. QED
      BY <2>1, <2>2
  <1>5. ShutBy'
    BY <1>4 DEF ShutBy
  <1>6. ASSUME NEW q \in Forwarder, Takes(Dst(q))'
        PROVE  /\ pc'[q] \in {"copy", "shut_dst", "shut_src"} =>
                    Position(Dst(q))' = taken'[Src(q)] + 1
               /\ pc'[q] = "send" => /\ Position(Dst(q))' = held'[q]
                                     /\ taken'[Src(q)] = held'[q]
    <2>1. Dst(q) \in Sock /\ Takes(Dst(q)) /\ Position(Dst(q))' = Position(Dst(q))
      BY <1>2, <1>6, Sides
    <2>. QED
      BY <1>1, <2>1 DEF Flow
  <1>7. Flow'
    BY <1>6 DEF Flow
  <1>. QED
    BY <1>1, <1>5, <1>7, StreamFrame

LEMMA ShutSrcStep ==
  ASSUME PInv, NEW p \in Forwarder, ShutSrc(p)
  PROVE  Flow' /\ ShutBy' /\ InOrder'
  <1>. USE DEF PInv
  <1>1. /\ pc[p] = "shut_src" /\ pc'[p] = "done" /\ shut' = shut \cup {Src(p)}
        /\ UNCHANGED <<kind, held, net, sent, taken, wire, got>>
        /\ \A q \in Forwarder \ {p} : pc'[q] = pc[q]
    BY DEF ShutSrc, Shutdown, Goto, Types
  <1>2. \A s \in Sock : /\ Position(s)' = Position(s)
                        /\ AtEnd(s) => AtEnd(s)'
                        /\ Takes(s)' <=> Takes(s)
    BY <1>1, StreamFrame DEF AtEnd, Takes
  <1>3. /\ Src(p) \in Sock /\ Dst(p) \in Sock /\ Dst(p) # Src(p)
        /\ \A q \in Forwarder \ {p} : Dst(q) = Src(p)
    BY Sides
  <1>4. ASSUME NEW q \in Forwarder
        PROVE  /\ (Dst(q) \in shut' /\ net'[Dst(q)] = "open") => pc'[q] \in {"shut_src", "done"}
               /\ pc'[q] \in {"shut_dst", "shut_src"} => AtEnd(Src(q))'
               /\ (pc'[q] = "done" /\ net'[Dst(q)] = "open") =>
                    AtEnd(Src(q))' /\ Position(Dst(q))' = taken'[Src(q)] + 1
    <2>1. CASE q = p
      <3>1. AtEnd(Src(p)) /\ AtEnd(Src(p))'
        BY <1>1, <1>2, <1>3 DEF ShutBy
      <3>2. net[Dst(p)] = "open" => Position(Dst(p))' = taken[Src(p)] + 1
        BY <1>1, <1>2, <1>3 DEF Flow, Takes
      <3>. QED
        BY <1>1, <2>1, <3>1, <3>2
    <2>2. CASE q # p
      <3>1. Src(q) \in Sock /\ Dst(q) = Src(p) /\ pc'[q] = pc[q]
        BY <1>1, <1>3, <2>2, Sides
      <3>2. net[Src(p)] = "open" => Src(p) \in shut
        BY <1>1 DEF ShutBy, AtEnd
      <3>. QED
        BY <1>1, <1>2, <1>3, <3>1, <3>2 DEF ShutBy
    <2>. QED
      BY <2>1, <2>2
  <1>5. ShutBy'
    BY <1>4 DEF ShutBy
  <1>6. ASSUME NEW q \in Forwarder, Takes(Dst(q))'
        PROVE  /\ pc'[q] \in {"copy", "shut_dst", "shut_src"} =>
                    Position(Dst(q))' = taken'[Src(q)] + 1
               /\ pc'[q] = "send" => /\ Position(Dst(q))' = held'[q]
                                     /\ taken'[Src(q)] = held'[q]
    <2>1. Dst(q) \in Sock /\ Takes(Dst(q)) /\ Position(Dst(q))' = Position(Dst(q))
      BY <1>2, <1>6, Sides
    <2>. QED
      BY <1>1, <2>1 DEF Flow
  <1>7. Flow'
    BY <1>6 DEF Flow
  <1>. QED
    BY <1>1, <1>5, <1>7, StreamFrame

-----------------------------------------------------------------------------
(* The peers.                                                              *)

(* What they may do without an effect on what the forwarders rely on: a    *)
(* peer that does not take its stream any more never does so again, and    *)
(* sends no more through a socket that is shut down.                       *)
LEMMA PeerFrame ==
  ASSUME PInv, UNCHANGED <<pc, held, shut, taken>>,
         \A t \in Sock : /\ net'[t] = "open" => net[t] = "open"
                         /\ Takes(t)' => Takes(t) /\ Position(t)' = Position(t)
                         /\ sent'[t] = sent[t] \/ (net[t] = "open" /\ t \notin shut)
  PROVE  Flow' /\ ShutBy'
  <1>. USE DEF PInv
  <1>1. \A t \in Sock : AtEnd(t) => AtEnd(t)'
    BY DEF AtEnd
  <1>2. \A q \in Forwarder : Src(q) \in Sock /\ Dst(q) \in Sock
    BY Sides
  <1>3. Flow'
    BY <1>2 DEF Flow
  <1>4. ShutBy'
    <2>1. \A t \in Sock : net'[t] = "open" => Takes(t)'
      BY DEF Takes
    <2>. QED
      BY <1>1, <1>2, <2>1 DEF ShutBy
  <1>. QED
    BY <1>3, <1>4

LEMMA PeerStep ==
  ASSUME PInv, NEW s \in Sock, Peer(s)
  PROVE  Unforked' /\ Flow' /\ ShutBy' /\ InOrder'
  <1>. USE DEF PInv, procs, ask
  <1>1. UNCHANGED <<kind, handler, request, pc, held, shut, taken>>
    BY DEF Peer, PeerSends, PeerReads, PeerHalfCloses, PeerCloses, ResetReturns
  <1>2. CASE UNCHANGED <<wire, got>>
    <2>1. Unforked' /\ InOrder' /\ \A t \in Sock : Position(t)' = Position(t)
      BY <1>1, <1>2, StreamFrame DEF Unforked
    <2>2. \/ net' = net
          \/ net' = [net EXCEPT ![s] = "broken"]
          \/ net[s] = "open" /\ net' = [net EXCEPT ![s] = "half"]
          \/ net[s] \in {"open", "half"} /\ net'[s] \in {"closed", "reset", "broken"}
             /\ \A t \in Sock \ {s} : net'[t] = net[t]
      BY DEF Peer, PeerSends, PeerReads, PeerHalfCloses, PeerCloses, ResetReturns, Types
    <2>3. \A t \in Sock : /\ net'[t] = "open" => net[t] = "open"
                          /\ Takes(t)' => Takes(t)
      BY <2>2 DEF Takes, Types
    <2>4. \A t \in Sock : sent'[t] = sent[t] \/ (net[t] = "open" /\ t \notin shut)
      BY DEF Peer, PeerSends, PeerReads, PeerHalfCloses, PeerCloses, ResetReturns, Types
    <2>. QED
      BY <1>1, <2>1, <2>3, <2>4, PeerFrame
  <1>3. CASE PeerReads(s)
    <2>1. /\ wire[s] \in Seq(Nat) /\ got[s] \in Seq(Nat) /\ wire[s] # <<>>
          /\ got'[s] = Append(got[s], Head(wire[s])) /\ wire'[s] = Tail(wire[s])
          /\ \A t \in Sock \ {s} : got'[t] = got[t] /\ wire'[t] = wire[t]
          /\ UNCHANGED <<net, sent>>
      BY <1>3 DEF PeerReads, Types
    <2>2. Append(got[s], Head(wire[s])) \o Tail(wire[s]) = got[s] \o wire[s]
      BY <2>1, MoveOver
    <2>3. \A t \in Sock : Stream(t)' = Stream(t)
      BY <2>1, <2>2 DEF Stream
    <2>4. \A t \in Sock : First(t)' = First(t) /\ Position(t)' = Position(t)
      BY <1>1, <2>3 DEF First, Position
    <2>5. InOrder'
      BY <2>3, <2>4 DEF InOrder
    <2>6. Unforked'
      <3>1. ASSUME NEW p \in Forwarder, pc[p] = "absent"
            PROVE  wire'[Dst(p)] = <<>> /\ got'[Dst(p)] = <<>>
        <4>1. Dst(p) \in Sock /\ Dst(p) # s
          BY <2>1, <3>1, Sides DEF Unforked
        <4>. QED
          BY <2>1, <3>1, <4>1 DEF Unforked
      <3>. QED
        BY <1>1, <3>1 DEF Unforked
    <2>7. Flow' /\ ShutBy'
      BY <1>1, <2>1, <2>4, PeerFrame DEF Takes
    <2>. QED
      BY <2>5, <2>6, <2>7
  <1>4. CASE PeerCloses(s)
    <2>1. /\ wire[s] \in Seq(Nat) /\ got[s] \in Seq(Nat)
          /\ wire'[s] = <<>> /\ got' = got /\ sent' = sent
          /\ net'[s] \in {"closed", "reset", "broken"}
          /\ \A t \in Sock \ {s} : net'[t] = net[t] /\ wire'[t] = wire[t]
      BY <1>4 DEF PeerCloses, Types
    <2>2. \A t \in Sock : First(t)' = First(t)
      BY <1>1 DEF First
    <2>3. \A t \in Sock \ {s} : Stream(t)' = Stream(t) /\ Position(t)' = Position(t)
      BY <2>1, <2>2 DEF Stream, Position
    <2>4. /\ Len(Stream(s)') <= Len(Stream(s)) /\ Len(Stream(s)') \in Nat /\ Len(Stream(s)) \in Nat
          /\ \A i \in 1 .. Len(Stream(s)') : Stream(s)'[i] = Stream(s)[i]
      <3>1. Stream(s)' = got[s]
        BY <2>1, ConcatEmptySeq DEF Stream
      <3>2. /\ Len(got[s] \o wire[s]) = Len(got[s]) + Len(wire[s])
            /\ \A i \in 1 .. Len(got[s]) + Len(wire[s]) :
                 (got[s] \o wire[s])[i] = IF i <= Len(got[s]) THEN got[s][i]
                                          ELSE wire[s][i - Len(got[s])]
        BY <2>1, ConcatProperties, ZenonT(60)
      <3>3. Len(got[s]) \in Nat /\ Len(wire[s]) \in Nat
        BY <2>1
      <3>. DEFINE g == Len(got[s])
                  w == Len(wire[s])
      <3>4. g \in Nat /\ w \in Nat
        BY <3>3
      <3>5. ASSUME NEW i \in 1 .. g PROVE i \in 1 .. g + w /\ i <= g
        <4>. HIDE DEF g, w
        <4>. QED
          BY <3>4
      <3>6. \A i \in 1 .. g : (got[s] \o wire[s])[i] = got[s][i]
        BY <3>2, <3>5
      <3>7. g <= g + w /\ g + w \in Nat
        <4>. HIDE DEF g, w
        <4>. QED
          BY <3>4
      <3>8. Len(got[s] \o wire[s]) = g + w /\ Len(Stream(s)') = g
        BY <3>1, <3>2
      <3>9. Stream(s) = got[s] \o wire[s]
        BY DEF Stream
      <3>. HIDE DEF g, w
      <3>. QED
        BY <3>1, <3>4, <3>6, <3>7, <3>8, <3>9, Zenon
    <2>5. InOrder'
      <3>1. ASSUME NEW t \in Sock, NEW i \in 1 .. Len(Stream(t)')
            PROVE  Stream(t)'[i] = First(t)' + i - 1
        <4>1. CASE t = s
          <5>1. i \in 1 .. Len(Stream(s)) /\ Stream(s)'[i] = Stream(s)[i]
            BY <2>4, <4>1
          <5>. QED
            BY <2>2, <4>1, <5>1 DEF InOrder
        <4>2. CASE t # s
          BY <2>2, <2>3, <4>2 DEF InOrder
        <4>. QED
          BY <4>1, <4>2
      <3>. QED
        BY <3>1 DEF InOrder
    <2>6. Unforked'
      <3>1. ASSUME NEW p \in Forwarder, pc[p] = "absent"
            PROVE  wire'[Dst(p)] = <<>> /\ got'[Dst(p)] = <<>>
        <4>1. Dst(p) \in Sock
          BY Sides
        <4>. QED
          BY <2>1, <3>1, <4>1 DEF Unforked
      <3>. QED
        BY <1>1, <3>1 DEF Unforked
    <2>7. \A t \in Sock : /\ net'[t] = "open" => net[t] = "open"
                          /\ Takes(t)' => Takes(t) /\ Position(t)' = Position(t)
                          /\ sent'[t] = sent[t]
      BY <2>1, <2>3 DEF Takes
    <2>8. Flow' /\ ShutBy'
      BY <1>1, <2>7, PeerFrame
    <2>. QED
      BY <2>5, <2>6, <2>8
  <1>5. UNCHANGED <<wire, got>> \/ PeerReads(s) \/ PeerCloses(s)
    BY DEF Peer, PeerSends, PeerHalfCloses, ResetReturns
  <1>. QED
    BY <1>2, <1>3, <1>4, <1>5

-----------------------------------------------------------------------------
(* Theorems.                                                               *)

LEMMA Invariance == Spec => []PInv
  <1>1. ASSUME PInv, [Next]_vars PROVE PInv'
    <2>1. Types'
      BY <1>1, TypeStep DEF PInv
    <2>2. CASE UNCHANGED vars
      <3>1. Unforked' /\ InOrder' /\ \A t \in Sock : Position(t)' = Position(t)
        BY <1>1, <2>2, StreamFrame DEF PInv, vars, procs, ask, Unforked
      <3>2. Flow' /\ ShutBy'
        BY <1>1, <2>2, <3>1, PeerFrame DEF vars, procs, Takes
      <3>. QED
        BY <2>1, <3>1, <3>2 DEF PInv
    <2>3. CASE Handler
      BY <1>1, <2>1, <2>3, ReadHeaderStep, CreateConnectionStep, ForkUpStep, ForkDownStep
      DEF Handler, PInv
    <2>4. ASSUME NEW p \in Forwarder, Forward(p) PROVE PInv'
      <3>1. Unforked'
        BY <1>1, <2>4, ForwardUnforked DEF PInv
      <3>2. Flow' /\ ShutBy' /\ InOrder'
        BY <1>1, <2>4, RecvStep, SendStep, ShutDstStep, ShutSrcStep DEF Forward
      <3>. QED
        BY <2>1, <3>1, <3>2 DEF PInv
    <2>5. ASSUME NEW s \in Sock, Peer(s) PROVE PInv'
      BY <1>1, <2>1, <2>5, PeerStep DEF PInv
    <2>. QED
      BY <1>1, <2>2, <2>3, <2>4, <2>5 DEF Next
  <1>. QED
    BY InitPInv, <1>1, PTL DEF Spec

(* However the peers and the three processes take turns, and whatever      *)
(* fails, each peer gets the other's chunks in order, with no gap and none *)
(* twice (proxyme.c:133-141, 205-219).                                     *)
THEOREM StreamsInOrder == Spec => []InOrder
  <1>1. PInv => InOrder
    BY DEF PInv
  <1>. QED
    BY Invariance, <1>1, PTL

(* A forwarder that has ended has sent a peer that stayed all that came    *)
(* from the other one, although both sockets are shut down twice           *)
(* (proxyme.c:139-140).                                                    *)
THEOREM StreamsComplete == Spec => []Complete
  <1>1. PInv => Complete
    <2>. SUFFICES ASSUME PInv, NEW p \in Forwarder, pc[p] = "done", net[Dst(p)] = "open"
                  PROVE  Len(Stream(Dst(p))) = sent[Src(p)] - First(Dst(p)) + 1
      BY DEF Complete
    <2>1. Position(Dst(p)) = sent[Src(p)] + 1
      BY DEF PInv, ShutBy, AtEnd
    <2>2. Len(Stream(Dst(p))) \in Nat /\ First(Dst(p)) \in 0 .. 2 /\ sent[Src(p)] \in Nat
      BY StreamType, Sides DEF PInv, Types
    <2>. QED
      BY <2>1, <2>2 DEF Position
  <1>. QED
    BY Invariance, <1>1, PTL

-----------------------------------------------------------------------------
(* strchr() and strstr().                                                  *)

LEMMA LeastIs ==
  ASSUME NEW I \in SUBSET Nat, NEW j \in I, \A k \in I : j <= k
  PROVE  Min(I) = j
  <1>1. \A x : x \in I /\ (\A y \in I : x <= y) => x = j
    OBVIOUS
  <1>. QED
    BY <1>1 DEF Min

LEMMA StrchrIs ==
  ASSUME NEW S, NEW t \in Seq(S), NEW ch, NEW i \in Nat \ {0}, NEW j \in i .. Len(t),
         t[j] = ch, \A k \in i .. j - 1 : t[k] # ch
  PROVE  Strchr(t, ch, i) = j
  <1>1. PICK I : I = {k \in i .. Len(t) : t[k] = ch}
    OBVIOUS
  <1>2. I \in SUBSET Nat /\ j \in I /\ \A k \in I : j <= k
    BY <1>1
  <1>3. Strchr(t, ch, i) = IF I # {} THEN Min(I) ELSE 0
    BY <1>1 DEF Strchr, SelectInSubSeq
  <1>. QED
    BY <1>2, <1>3, LeastIs

LEMMA StrchrBehind ==
  ASSUME NEW S, NEW t \in Seq(S), NEW ch, NEW i \in Nat \ {0}, NEW j \in Nat,
         \A k \in i .. j : t[k] # ch
  PROVE  Strchr(t, ch, i) = 0 \/ ~ (Strchr(t, ch, i) < j)
  <1>1. PICK I : I = {k \in i .. Len(t) : t[k] = ch}
    OBVIOUS
  <1>2. I \in SUBSET Nat /\ \A k \in I : k > j
    BY <1>1
  <1>3. Strchr(t, ch, i) = IF I # {} THEN Min(I) ELSE 0
    BY <1>1 DEF Strchr, SelectInSubSeq
  <1>4. CASE I # {}
    <2>1. PICK n \in I : \A k \in I : n <= k
      BY <1>2, <1>4, LeastNumber
    <2>2. Min(I) = n
      BY <1>2, <2>1, LeastIs
    <2>. QED
      BY <1>2, <1>3, <1>4, <2>2
  <1>. QED
    BY <1>3, <1>4

(* What strstr() looks for stands at the places it looks at.               *)
Occurrences(t, w) ==
  {i \in 1 .. Len(t) - Len(w) + 1 : SubSeq(t, i, i + Len(w) - 1) = w}
LEMMA Occurs ==
  ASSUME NEW S, NEW t \in Seq(S), NEW w \in Seq(S), NEW n \in Nat \ {0}, Len(w) = n
  PROVE  \A i : i \in Occurrences(t, w) <=> StandsAt(t, i, w)
  <1>0. Len(t) \in Nat
    OBVIOUS
  <1>1. ASSUME NEW i \in 1 .. Len(t) - n + 1
        PROVE  /\ SubSeq(t, i, i + n - 1) \in Seq(S)
               /\ Len(SubSeq(t, i, i + n - 1)) = n
               /\ \A k \in 1 .. n : SubSeq(t, i, i + n - 1)[k] = t[i + k - 1]
    <2>. DEFINE j == i + n - 1
    <2>1. i \in Int /\ j \in Int /\ i <= j /\ (j - i) + 1 = n /\ \A k \in i .. j : t[k] \in S
      BY <1>0
    <2>. HIDE DEF j
    <2>2. /\ SubSeq(t, i, j) \in Seq(S)
          /\ Len(SubSeq(t, i, j)) = IF i <= j THEN j - i + 1 ELSE 0
          /\ \A k \in 1 .. j - i + 1 : SubSeq(t, i, j)[k] = t[i + k - 1]
      BY <2>1, SubSeqProperties
    <2>3. /\ SubSeq(t, i, j) \in Seq(S) /\ Len(SubSeq(t, i, j)) = n
          /\ \A k \in 1 .. n : SubSeq(t, i, j)[k] = t[i + k - 1]
      BY <2>1, <2>2
    <2>. QED
      BY <2>3, Zenon DEF j
  <1>2. ASSUME NEW i, i \in Occurrences(t, w) PROVE StandsAt(t, i, w)
    <2>1. i \in 1 .. Len(t) - n + 1 /\ SubSeq(t, i, i + n - 1) = w
      BY <1>2 DEF Occurrences
    <2>2. \A k \in 1 .. n : t[i + k - 1] = w[k]
      BY <1>1, <2>1
    <2>. QED
      BY <1>0, <2>1, <2>2 DEF StandsAt
  <1>3. ASSUME NEW i, StandsAt(t, i, w) PROVE i \in Occurrences(t, w)
    <2>1. i \in 1 .. Len(t) - n + 1 /\ \A k \in 1 .. n : t[i + k - 1] = w[k]
      BY <1>0, <1>3 DEF StandsAt
    <2>2. PICK s \in Seq(S) : /\ s = SubSeq(t, i, i + n - 1) /\ Len(s) = n
                              /\ \A k \in 1 .. n : s[k] = t[i + k - 1]
      BY <1>1, <2>1
    <2>3. s = w
      BY <2>1, <2>2, SeqEqual
    <2>. QED
      BY <2>1, <2>2, <2>3 DEF Occurrences
  <1>. QED
    BY <1>2, <1>3

LEMMA StrstrIs ==
  ASSUME NEW S, NEW t \in Seq(S), NEW w \in Seq(S), Len(w) # 0,
         NEW i, StandsAt(t, i, w), \A k \in 1 .. i - 1 : t[k] # w[1]
  PROVE  Strstr(t, w) = i
  <1>0. PICK n \in Nat \ {0} : Len(w) = n
    OBVIOUS
  <1>1. PICK I : I = Occurrences(t, w)
    OBVIOUS
  <1>2. \A k : k \in I <=> StandsAt(t, k, w)
    BY <1>0, <1>1, Occurs
  <1>3. \A k : StandsAt(t, k, w) => k \in Nat \ {0} /\ t[k] = w[1]
    <2>1. \A k \in Nat : k + 1 - 1 = k
      OBVIOUS
    <2>. QED
      BY <2>1 DEF StandsAt
  <1>4. I \in SUBSET Nat /\ i \in I /\ i \in Nat
    BY <1>2, <1>3
  <1>5. \A k \in I : i <= k
    BY <1>2, <1>3, <1>4
  <1>6. Strstr(t, w) = IF I = {} THEN 0 ELSE Min(I)
    BY <1>1 DEF Strstr, Occurrences
  <1>. QED
    BY <1>4, <1>5, <1>6, LeastIs

LEMMA StrstrNone ==
  ASSUME NEW S, NEW t \in Seq(S), NEW w \in Seq(S), Len(w) # 0
  PROVE  Strstr(t, w) = 0 <=> \A i : ~ StandsAt(t, i, w)
  <1>0. PICK n \in Nat \ {0} : Len(w) = n
    OBVIOUS
  <1>1. PICK I : I = Occurrences(t, w)
    OBVIOUS
  <1>2. \A k : k \in I <=> StandsAt(t, k, w)
    BY <1>0, <1>1, Occurs
  <1>3. I \in SUBSET Nat /\ 0 \notin I
    BY <1>2 DEF StandsAt
  <1>4. Strstr(t, w) = IF I = {} THEN 0 ELSE Min(I)
    BY <1>1 DEF Strstr, Occurrences
  <1>5. I # {} => Min(I) \in I
    <2>1. ASSUME I # {} PROVE Min(I) \in I
      <3>1. PICK j \in I : \A k \in I : j <= k
        BY <1>3, <2>1, LeastNumber
      <3>. QED
        BY <1>3, <3>1, LeastIs
    <2>. QED
      BY <2>1
  <1>. QED
    BY <1>2, <1>3, <1>4, <1>5

-----------------------------------------------------------------------------
(* The parts of a header.                                                  *)

Char == Name \cup Sign \cup {"1.1"}

LEMMA SeqWiden ==
  ASSUME NEW S, NEW T, S \subseteq T, NEW s \in Seq(S)
  PROVE  s \in Seq(T)
  <1>1. Len(s) \in Nat /\ \A i \in 1 .. Len(s) : s[i] \in T
    OBVIOUS
  <1>2. s = [i \in 1 .. Len(s) |-> s[i]]
    OBVIOUS
  <1>. QED
    BY <1>1, <1>2

LEMMA ShortSeqs ==
  ASSUME NEW S, NEW x \in S, NEW y \in S, NEW z \in S
  PROVE  /\ <<x>> \in Seq(S) /\ <<x, y>> \in Seq(S) /\ <<x, y, z>> \in Seq(S)
         /\ <<x>> \o <<y, z>> = <<x, y, z>> /\ <<x>> \o <<>> = <<x>>
  <1>1. /\ <<x>> \in Seq(S) /\ <<x, y>> \in Seq(S) /\ <<x, y, z>> \in Seq(S)
        /\ <<y, z>> \in Seq(S)
    OBVIOUS
  <1>2. <<x>> \o <<>> = <<x>>
    BY <1>1, ConcatEmptySeq
  <1>3. <<x>> \o <<y, z>> = <<x, y, z>>
    <2>1. PICK s \in Seq(S) : s = <<x>>
      BY <1>1
    <2>2. PICK t \in Seq(S) : t = <<y, z>>
      BY <1>1
    <2>3. PICK u \in Seq(S) : u = <<x, y, z>>
      BY <1>1
    <2>4. /\ Len(s) = 1 /\ s[1] = x /\ Len(t) = 2 /\ t[1] = y /\ t[2] = z
          /\ Len(u) = 3 /\ u[1] = x /\ u[2] = y /\ u[3] = z
      BY <2>1, <2>2, <2>3
    <2>a. PICK v : v = s \o t
      OBVIOUS
    <2>5. /\ v \in Seq(S) /\ Len(v) = Len(s) + Len(t)
          /\ \A i \in 1 .. Len(s) + Len(t) : v[i] = IF i <= Len(s) THEN s[i] ELSE t[i - Len(s)]
      BY <2>a, ConcatProperties, Zenon
    <2>6. /\ Len(v) = 3 /\ \A i \in 1 .. 3 : v[i] = IF i <= 1 THEN s[i] ELSE t[i - 1]
      BY <2>4, <2>5
    <2>7. v[1] = x /\ v[2] = y /\ v[3] = z
      BY <2>4, <2>6
    <2>8. \A i \in 1 .. 3 : v[i] = u[i]
      BY <2>4, <2>7
    <2>9. v = u
      BY <2>4, <2>5, <2>6, <2>8, SeqEqual
    <2>. QED
      BY <2>1, <2>2, <2>3, <2>a, <2>9
  <1>. QED
    BY <1>1, <1>2, <1>3

(* No word is a sign, and a number is no keyword.                          *)
LEMMA Strange ==
  /\ \A x \in Name : x \notin Sign
  /\ \A x \in Number : x \notin Keyword
  /\ \A x \in Word : x \notin Keyword
  <1>1. \A x \in Word \cup Number : x \notin Sign \cup Keyword
    BY WordAssumption
  <1>2. Sign \cap Keyword = {}
    BY DEF Keyword, Sign, SP, CR, LF
  <1>. QED
    BY <1>1, <1>2 DEF Name

LEMMA LineEnds ==
  ASSUME NEW r \in Request
  PROVE  /\ r.end[1] = <<CR, LF>> \/ r.end[1] = <<LF>>
         /\ r.end[2] = <<CR, LF>> \/ r.end[2] = <<LF>>
         /\ Len(r.end[1]) # 0
  <1>1. \/ r.end = <<<<CR, LF>>, <<CR, LF>>>>
        \/ r.end = <<<<LF>>, <<LF>>>>
        \/ r.end = <<<<LF>>, <<CR, LF>>>>
    BY DEF Request, MixedEnd
  <1>2. Len(<<CR, LF>>) = 2 /\ Len(<<LF>>) = 1
    OBVIOUS
  <1>3. r.end[1] = <<CR, LF>> \/ r.end[1] = <<LF>>
    BY <1>1
  <1>4. Len(r.end[1]) = 2 \/ Len(r.end[1]) = 1
    BY <1>2, <1>3
  <1>. QED
    BY <1>1, <1>4

LEMMA RequestParts ==
  ASSUME NEW r \in Request
  PROVE  /\ r.method \in {"CONNECT", "GET"} \cup Word
         /\ r.form \in {"authority", "absolute", "origin"}
         /\ r.host \in Seq(Name) /\ r.host # <<>>
         /\ r.port \in {NoPort} \cup Number /\ r.path \in Path
         /\ r.blank \in Seq({SP}) /\ r.before \in Seq(Line) /\ r.more \in Seq(Line)
         /\ r.late \in Seq(Name \cup Sign)
         /\ r.method = "CONNECT" <=> r.form = "authority"
         /\ r.form = "authority" => r.path = <<>>
         /\ r.form = "origin" => r.path # <<>>
  BY DEF Request

LEMMA CharParts ==
  /\ Name \subseteq Char /\ Sign \subseteq Char /\ Name \cup Sign \subseteq Char
  /\ SP \in Char /\ CR \in Char /\ LF \in Char /\ ":" \in Char /\ "/" \in Char
  /\ "Host" \in Char /\ "CONNECT" \in Char /\ "HTTP" \in Char /\ "http" \in Char
  /\ Word \subseteq Char /\ Number \subseteq Char
  BY DEF Char, Name, Sign, Keyword

(* The address: a name and, where there is one, a port.                    *)
LEMMA AuthorityIs ==
  ASSUME NEW r \in Request
  PROVE  /\ Authority(r) \in Seq(Name \cup {":"}) /\ Authority(r) # <<>>
         /\ r.port = NoPort => Authority(r) = r.host
         /\ r.port # NoPort => /\ Authority(r) = r.host \o <<":", r.port>>
                               /\ r.port \in Number /\ <<":", r.port>> \in Seq(Name \cup {":"})
  <1>. DEFINE S == Name \cup {":"}
  <1>1. PICK host \in Seq(S) : host = r.host /\ Len(host) \in Nat \ {0}
    <2>1. r.host \in Seq(Name) /\ r.host # <<>>
      BY RequestParts
    <2>2. r.host \in Seq(S)
      BY <2>1, SeqWiden
    <2>3. Len(r.host) \in Nat \ {0}
      BY <2>1
    <2>. QED
      BY <2>2, <2>3
  <1>2. CASE r.port = NoPort
    <2>1. Authority(r) = host \o <<>>
      BY <1>1, <1>2 DEF Authority
    <2>2. host \o <<>> = host
      BY ConcatEmptySeq
    <2>. QED
      BY <1>1, <1>2, <2>1, <2>2
  <1>3. CASE r.port # NoPort
    <2>1. r.port \in Number
      BY <1>3, RequestParts
    <2>2. PICK c \in S : c = ":"
      OBVIOUS
    <2>3. PICK n \in S : n = r.port
      BY <2>1 DEF Name
    <2>4. PICK e \in Seq(S) : e = <<c, n>>
      BY ShortSeqs
    <2>5. Authority(r) = host \o e
      BY <1>1, <1>3, <2>2, <2>3, <2>4 DEF Authority
    <2>6. host \o e \in Seq(S) /\ Len(host \o e) = Len(host) + Len(e) /\ Len(e) \in Nat
      BY ConcatProperties
    <2>7. host \o e # <<>>
      BY <1>1, <2>6
    <2>. QED
      BY <1>1, <1>3, <2>1, <2>2, <2>3, <2>4, <2>5, <2>6, <2>7, Zenon
  <1>. QED
    BY <1>2, <1>3

LEMMA PathIs ==
  ASSUME NEW p \in Path
  PROVE  /\ p \in Seq(Char)
         /\ p # <<>> => Len(p) \in Nat \ {0} /\ p[1] = "/"
  <1>1. p \in Seq(Name \cup {"/", ":"}) /\ (p # <<>> => Len(p) \in Nat \ {0} /\ p[1] = "/")
    BY DEF Path
  <1>2. Name \cup {"/", ":"} \subseteq Char
    BY CharParts
  <1>. QED
    BY <1>1, <1>2, SeqWiden

LEMMA LinesType ==
  ASSUME NEW r \in Request, NEW lines \in Seq(Line)
  PROVE  Lines(r, lines) \in Seq(Char)
  <1>. DEFINE ll == [i \in DOMAIN lines |-> lines[i] \o r.end[1]]
  <1>1. r.end[1] \in Seq(Char)
    <2>1. PICK cr \in Char : cr = CR
      BY CharParts
    <2>2. PICK lf \in Char : lf = LF
      BY CharParts
    <2>3. <<cr, lf>> \in Seq(Char) /\ <<lf>> \in Seq(Char)
      BY ShortSeqs
    <2>. QED
      BY <2>1, <2>2, <2>3, LineEnds
  <1>2. \A s \in Line : s \in Seq(Char)
    <2>1. Name \cup {SP, "/", ":"} \subseteq Char
      BY CharParts
    <2>2. \A s \in Line : s \in Seq(Name \cup {SP, "/", ":"})
      BY DEF Line
    <2>. QED
      BY <2>1, <2>2, SeqWiden
  <1>3. ASSUME NEW i \in 1 .. Len(lines) PROVE lines[i] \o r.end[1] \in Seq(Char)
    <2>1. lines[i] \in Seq(Char)
      BY <1>2
    <2>. QED
      BY <1>1, <2>1, ConcatProperties
  <1>4. ll \in Seq(Seq(Char))
    <2>1. DOMAIN lines = 1 .. Len(lines) /\ Len(lines) \in Nat
      OBVIOUS
    <2>. QED
      BY <1>3, <2>1
  <1>. HIDE DEF ll
  <1>5. FlattenSeq(ll) \in Seq(Char)
    BY <1>4, FlattenType
  <1>. QED
    BY <1>5 DEF Lines, ll

LEMMA PartTypes ==
  ASSUME NEW r \in Request
  PROVE  /\ <<r.method, SP>> \in Seq(Char) /\ Place(r) \in Seq(Char)
         /\ Version \in Seq(Char) /\ <<"Host", ":">> \in Seq(Char) /\ Http \in Seq(Char)
         /\ r.end[1] \in Seq(Char) /\ r.end[2] \in Seq(Char) /\ r.path \in Seq(Char)
         /\ r.blank \in Seq(Char) /\ Authority(r) \in Seq(Char) /\ r.late \in Seq(Char)
         /\ Lines(r, r.before) \in Seq(Char) /\ Lines(r, r.more) \in Seq(Char)
  <1>1. PICK sp \in Char : sp = SP
    BY CharParts
  <1>2. PICK colon \in Char : colon = ":"
    BY CharParts
  <1>3. PICK host \in Char : host = "Host"
    BY CharParts
  <1>4. PICK cr \in Char : cr = CR
    BY CharParts
  <1>5. PICK lf \in Char : lf = LF
    BY CharParts
  <1>6. PICK method \in Char : method = r.method
    BY RequestParts DEF Char, Name, Keyword
  <1>7. <<r.method, SP>> \in Seq(Char) /\ <<"Host", ":">> \in Seq(Char)
    <2>1. <<method, sp>> \in Seq(Char) /\ <<host, colon>> \in Seq(Char)
      BY ShortSeqs
    <2>. QED
      BY <1>1, <1>2, <1>3, <1>6, <2>1
  <1>8. r.end[1] \in Seq(Char) /\ r.end[2] \in Seq(Char)
    <2>1. <<cr, lf>> \in Seq(Char) /\ <<lf>> \in Seq(Char)
      BY ShortSeqs
    <2>. QED
      BY <1>4, <1>5, <2>1, LineEnds
  <1>9. Version \in Seq(Char) /\ Http \in Seq(Char)
    BY DEF Version, Http, Char, Name, Sign, Keyword
  <1>10. Authority(r) \in Seq(Char)
    <2>1. Name \cup {":"} \subseteq Char
      BY CharParts
    <2>. QED
      BY <2>1, AuthorityIs, SeqWiden
  <1>11. r.path \in Seq(Char)
    BY RequestParts, PathIs
  <1>12. r.blank \in Seq(Char)
    <2>1. {SP} \subseteq Char
      BY CharParts
    <2>. QED
      BY <2>1, RequestParts, SeqWiden
  <1>13. r.late \in Seq(Char)
    BY RequestParts, CharParts, SeqWiden
  <1>14. Place(r) \in Seq(Char)
    <2>1. PICK u \in Seq(Char) : u = Http \o Authority(r)
      BY <1>9, <1>10, ConcatProperties
    <2>2. u \o r.path \in Seq(Char)
      BY <1>11, <2>1, ConcatProperties
    <2>3. r.form = "authority" \/ r.form = "absolute" \/ r.form = "origin"
      BY RequestParts
    <2>. QED
      BY <1>10, <1>11, <2>1, <2>2, <2>3 DEF Place
  <1>15. Lines(r, r.before) \in Seq(Char) /\ Lines(r, r.more) \in Seq(Char)
    BY RequestParts, LinesType
  <1>. QED
    BY <1>7, <1>8, <1>9, <1>10, <1>11, <1>12, <1>13, <1>14, <1>15

(* Where the parts stand that matter.                                      *)
LaidOut(r, t, v, h, b, a, f) ==
  /\ v = 3 + Len(Place(r)) /\ h = HostAt(r) /\ b = h + 2
  /\ a = b + Len(r.blank) /\ f = a + Len(Authority(r))
  /\ v \in Nat /\ h \in Nat /\ 3 <= v /\ v + 4 < h
  /\ StandsAt(t, 1, <<r.method, SP>>) /\ StandsAt(t, 3, Place(r))
  /\ StandsAt(t, v, Version) /\ StandsAt(t, v, Behind(r))
  /\ StandsAt(t, h, <<"Host", ":">>) /\ StandsAt(t, b, r.blank)
  /\ StandsAt(t, a, Authority(r)) /\ StandsAt(t, f, r.end[1])

Sizes(p, q, w, m, n, j, v, h, b, a, f) ==
  /\ p \in Nat /\ q \in Nat \ {0} /\ w \in Nat /\ m \in Nat /\ n \in Nat
  /\ j = 4 + q + w /\ v = 3 + p /\ h = 7 + p + q + w
  /\ b = h + 2 /\ a = b + m /\ f = a + n
LEMMA Places ==
  ASSUME NEW p, NEW q, NEW w, NEW m, NEW n, NEW j, NEW v, NEW h, NEW b, NEW a, NEW f,
         Sizes(p, q, w, m, n, j, v, h, b, a, f)
  PROVE  /\ v \in Nat /\ h \in Nat /\ 3 <= v /\ v + 4 < h /\ v + j = h
         /\ v + (j + 2) = b /\ v + ((j + 2) + m) = a /\ v + (((j + 2) + m) + n) = f
  BY DEF Sizes

LEMMA TextParted ==
  ASSUME NEW r \in Request
  PROVE  /\ Text(r) \in Seq(Char) /\ Behind(r) \in Seq(Char)
         /\ \E v, h, b, a, f : LaidOut(r, Text(r), v, h, b, a, f)
  <1>1. PICK hd \in Seq(Char) : hd = <<r.method, SP>> /\ Len(hd) = 2
    BY PartTypes
  <1>2. PICK pl \in Seq(Char) : pl = Place(r)
    BY PartTypes
  <1>3. PICK vs \in Seq(Char) : vs = Version /\ Len(vs) = 4
    BY PartTypes DEF Version
  <1>4. PICK ho \in Seq(Char) : ho = <<"Host", ":">> /\ Len(ho) = 2
    BY PartTypes
  <1>5. PICK e1 \in Seq(Char) : e1 = r.end[1]
    BY PartTypes
  <1>6. PICK e2 \in Seq(Char) : e2 = r.end[2]
    BY PartTypes
  <1>7. PICK bl \in Seq(Char) : bl = r.blank
    BY PartTypes
  <1>8. PICK au \in Seq(Char) : au = Authority(r)
    BY PartTypes
  <1>9. PICK mo \in Seq(Char) : mo = Lines(r, r.more)
    BY PartTypes
  <1>a. PICK bf \in Seq(Char) : bf = Lines(r, r.before)
    BY PartTypes
  <1>b. PICK la \in Seq(Char) : la = r.late
    BY PartTypes
  <1>10. PICK x0 \in Seq(Char) : x0 = vs \o e1
    BY ConcatProperties
  <1>c. PICK x1 \in Seq(Char) : x1 = x0 \o bf
    BY ConcatProperties
  <1>11. PICK x2 \in Seq(Char) : x2 = x1 \o ho
    BY ConcatProperties
  <1>12. PICK x3 \in Seq(Char) : x3 = x2 \o bl
    BY ConcatProperties
  <1>13. PICK x4 \in Seq(Char) : x4 = x3 \o au
    BY ConcatProperties
  <1>14. PICK x5 \in Seq(Char) : x5 = x4 \o e1
    BY ConcatProperties
  <1>15. PICK x6 \in Seq(Char) : x6 = x5 \o mo
    BY ConcatProperties
  <1>16. PICK x7 \in Seq(Char) : x7 = x6 \o e2
    BY ConcatProperties
  <1>d. PICK x8 \in Seq(Char) : x8 = x7 \o la
    BY ConcatProperties
  <1>17. PICK y \in Seq(Char) : y = hd \o pl
    BY ConcatProperties
  <1>18. PICK t \in Seq(Char) : t = y \o x8
    BY ConcatProperties
  <1>19. x8 = Behind(r)
    BY <1>3, <1>4, <1>5, <1>6, <1>7, <1>8, <1>9, <1>a, <1>b, <1>10, <1>c, <1>11, <1>12, <1>13,
       <1>14, <1>15, <1>16, <1>d, Zenon DEF Behind
  <1>20. t = Text(r)
    BY <1>1, <1>2, <1>17, <1>18, <1>19, Zenon DEF Text
  <1>21. StandsAt(t, 1, t)
    BY DEF StandsAt
  <1>22. StandsAt(t, 1, y) /\ StandsAt(t, 1 + Len(y), x8)
    <2>1. InTwo(Char, t, 1, y, x8, t)
      BY <1>18, <1>21 DEF InTwo
    <2>. QED
      BY <2>1, TextParts
  <1>23. StandsAt(t, 1, hd) /\ StandsAt(t, 1 + Len(hd), pl) /\ Len(y) = Len(hd) + Len(pl)
    <2>1. InTwo(Char, t, 1, hd, pl, y)
      BY <1>17, <1>22 DEF InTwo
    <2>. QED
      BY <2>1, TextParts
  <1>24. PICK v : v = 1 + Len(y)
    OBVIOUS
  <1>e. StandsAt(t, v, x7)
    <2>1. InTwo(Char, t, v, x7, la, x8)
      BY <1>d, <1>22, <1>24 DEF InTwo
    <2>. QED
      BY <2>1, TextParts
  <1>25. StandsAt(t, v, x6)
    <2>1. InTwo(Char, t, v, x6, e2, x7)
      BY <1>16, <1>e DEF InTwo
    <2>. QED
      BY <2>1, TextParts
  <1>26. StandsAt(t, v, x5)
    <2>1. InTwo(Char, t, v, x5, mo, x6)
      BY <1>15, <1>25 DEF InTwo
    <2>. QED
      BY <2>1, TextParts
  <1>27. StandsAt(t, v, x4) /\ StandsAt(t, v + Len(x4), e1)
    <2>1. InTwo(Char, t, v, x4, e1, x5)
      BY <1>14, <1>26 DEF InTwo
    <2>. QED
      BY <2>1, TextParts
  <1>28. StandsAt(t, v, x3) /\ StandsAt(t, v + Len(x3), au) /\ Len(x4) = Len(x3) + Len(au)
    <2>1. InTwo(Char, t, v, x3, au, x4)
      BY <1>13, <1>27 DEF InTwo
    <2>. QED
      BY <2>1, TextParts
  <1>29. StandsAt(t, v, x2) /\ StandsAt(t, v + Len(x2), bl) /\ Len(x3) = Len(x2) + Len(bl)
    <2>1. InTwo(Char, t, v, x2, bl, x3)
      BY <1>12, <1>28 DEF InTwo
    <2>. QED
      BY <2>1, TextParts
  <1>30. StandsAt(t, v, x1) /\ StandsAt(t, v + Len(x1), ho) /\ Len(x2) = Len(x1) + Len(ho)
    <2>1. InTwo(Char, t, v, x1, ho, x2)
      BY <1>11, <1>29 DEF InTwo
    <2>. QED
      BY <2>1, TextParts
  <1>f. StandsAt(t, v, x0) /\ Len(x1) = Len(x0) + Len(bf)
    <2>1. InTwo(Char, t, v, x0, bf, x1)
      BY <1>c, <1>30 DEF InTwo
    <2>. QED
      BY <2>1, TextParts
  <1>31. StandsAt(t, v, vs) /\ Len(x0) = Len(vs) + Len(e1)
    <2>1. InTwo(Char, t, v, vs, e1, x0)
      BY <1>10, <1>f DEF InTwo
    <2>. QED
      BY <2>1, TextParts
  <1>32. /\ Len(pl) \in Nat /\ Len(e1) \in Nat /\ Len(bf) \in Nat /\ Len(bl) \in Nat
         /\ Len(au) \in Nat
    BY SMTT(30)
  <1>33. Len(e1) # 0
    BY <1>5, LineEnds
  <1>34. PICK h : h = 3 + Len(pl) + Len(vs) + Len(e1) + Len(bf)
    OBVIOUS
  <1>g. PICK b : b = h + 2
    OBVIOUS
  <1>h. PICK a : a = b + Len(bl)
    OBVIOUS
  <1>i. PICK f : f = a + Len(au)
    OBVIOUS
  <1>j. Len(x0) = 4 + Len(e1) /\ Len(x1) = 4 + Len(e1) + Len(bf) /\ v = 3 + Len(pl)
    BY <1>1, <1>3, <1>23, <1>24, <1>f, <1>31, <1>32
  <1>k. h = 7 + Len(pl) + Len(e1) + Len(bf)
    BY <1>3, <1>32, <1>34
  <1>35. /\ v = 3 + Len(pl) /\ 1 + Len(hd) = 3 /\ v \in Nat /\ h \in Nat /\ 3 <= v /\ v + 4 < h
         /\ v + Len(x1) = h /\ v + Len(x2) = b /\ v + Len(x3) = a /\ v + Len(x4) = f
    <2>a. PICK p \in Nat : p = Len(pl)
      BY <1>32
    <2>b. PICK q \in Nat : q = Len(e1) /\ q # 0
      BY <1>32, <1>33
    <2>c. PICK w \in Nat : w = Len(bf)
      BY <1>32
    <2>d. PICK j : j = Len(x1)
      OBVIOUS
    <2>e. j = 4 + q + w /\ v = 3 + p /\ h = 7 + p + q + w
      BY <1>j, <1>k, <2>a, <2>b, <2>c, <2>d, Zenon
    <2>f. Len(x2) = j + 2 /\ Len(x3) = (j + 2) + Len(bl) /\ Len(x4) = ((j + 2) + Len(bl)) + Len(au)
      BY <1>4, <1>28, <1>29, <1>30, <2>d, Zenon
    <2>g. PICK m \in Nat : m = Len(bl)
      BY <1>32
    <2>h. PICK n \in Nat : n = Len(au)
      BY <1>32
    <2>i. b = h + 2 /\ a = b + m /\ f = a + n
      BY <1>g, <1>h, <1>i, <2>g, <2>h, Zenon
    <2>k. Sizes(p, q, w, m, n, j, v, h, b, a, f)
      BY <2>b, <2>e, <2>i, Zenon DEF Sizes
    <2>1. v \in Nat /\ h \in Nat /\ 3 <= v /\ v + 4 < h /\ v + j = h
      BY <2>k, Places, Zenon
    <2>j. v + (j + 2) = b /\ v + ((j + 2) + m) = a /\ v + (((j + 2) + m) + n) = f
      BY <2>k, Places, Zenon
    <2>2. v + Len(x2) = b /\ v + Len(x3) = a /\ v + Len(x4) = f
      BY <2>f, <2>g, <2>h, <2>j, Zenon
    <2>. QED
      BY <1>1, <1>j, <2>d, <2>1, <2>2
  <1>36. /\ StandsAt(t, 1, hd) /\ StandsAt(t, 3, pl) /\ StandsAt(t, v, vs) /\ StandsAt(t, v, x8)
         /\ StandsAt(t, h, ho) /\ StandsAt(t, b, bl) /\ StandsAt(t, a, au) /\ StandsAt(t, f, e1)
    BY <1>22, <1>23, <1>24, <1>27, <1>28, <1>29, <1>30, <1>31, <1>35, Zenon
  <1>37. h = HostAt(r)
    BY <1>2, <1>3, <1>5, <1>a, <1>34, Zenon DEF HostAt
  <1>38. LaidOut(r, t, v, h, b, a, f)
    BY <1>1, <1>2, <1>3, <1>4, <1>5, <1>7, <1>8, <1>19, <1>g, <1>h, <1>i, <1>35, <1>36, <1>37, Zenon
    DEF LaidOut
  <1>. QED
    BY <1>19, <1>20, <1>38

LEMMA StandIn ==
  ASSUME NEW G, NEW t, NEW i, NEW s \in Seq(G), StandsAt(t, i, s), NEW n, n = i + Len(s)
  PROVE  n \in Nat /\ i <= n /\ \A k \in i .. n - 1 : t[k] \in G
  <1>1. i \in Nat \ {0} /\ Len(s) \in Nat /\ \A k \in 1 .. Len(s) : s[k] \in G
    BY DEF StandsAt
  <1>2. ASSUME NEW k \in i .. n - 1 PROVE t[k] \in G
    <2>1. PICK j : j = (k - i) + 1
      OBVIOUS
    <2>2. j \in 1 .. Len(s) /\ i + j - 1 = k
      BY <1>1, <2>1
    <2>3. t[i + j - 1] = s[j]
      BY <2>2 DEF StandsAt
    <2>. QED
      BY <1>1, <2>2, <2>3
  <1>. QED
    BY <1>1, <1>2

LEMMA StandOne ==
  ASSUME NEW t, NEW i, NEW x, StandsAt(t, i, <<x>>)
  PROVE  i \in Nat /\ t[i] = x
  <1>1. PICK s : s = <<x>> /\ Len(s) = 1 /\ s[1] = x
    OBVIOUS
  <1>2. i \in Nat /\ t[i + 1 - 1] = s[1]
    BY <1>1 DEF StandsAt
  <1>3. i + 1 - 1 = i
    BY <1>2
  <1>. QED
    BY <1>1, <1>2, <1>3

LEMMA StandTwo ==
  ASSUME NEW t, NEW i, NEW x, NEW y, StandsAt(t, i, <<x, y>>)
  PROVE  i \in Nat /\ t[i] = x /\ t[i + 1] = y
  <1>1. PICK s : s = <<x, y>> /\ Len(s) = 2 /\ s[1] = x /\ s[2] = y
    OBVIOUS
  <1>2. i \in Nat /\ t[i + 1 - 1] = s[1] /\ t[i + 2 - 1] = s[2]
    BY <1>1 DEF StandsAt
  <1>3. i + 1 - 1 = i /\ i + 2 - 1 = i + 1
    BY <1>2
  <1>. QED
    BY <1>1, <1>2, <1>3

LEMMA StandThree ==
  ASSUME NEW t, NEW i, NEW x, NEW y, NEW w, StandsAt(t, i, <<x, y, w>>)
  PROVE  i \in Nat /\ t[i] = x /\ t[i + 1] = y /\ t[i + 2] = w
  <1>1. PICK s : s = <<x, y, w>> /\ Len(s) = 3 /\ s[1] = x /\ s[2] = y /\ s[3] = w
    OBVIOUS
  <1>2. i \in Nat /\ t[i + 1 - 1] = s[1] /\ t[i + 2 - 1] = s[2] /\ t[i + 3 - 1] = s[3]
    BY <1>1 DEF StandsAt
  <1>3. i + 1 - 1 = i /\ i + 2 - 1 = i + 1 /\ i + 3 - 1 = i + 2
    BY <1>2
  <1>. QED
    BY <1>1, <1>2, <1>3

LEMMA StandFour ==
  ASSUME NEW t, NEW i, NEW x, NEW y, NEW w, NEW u, StandsAt(t, i, <<x, y, w, u>>)
  PROVE  i \in Nat /\ t[i] = x /\ t[i + 1] = y /\ t[i + 2] = w /\ t[i + 3] = u
  <1>1. PICK s : s = <<x, y, w, u>> /\ Len(s) = 4 /\ s[1] = x /\ s[2] = y /\ s[3] = w /\ s[4] = u
    OBVIOUS
  <1>2. /\ i \in Nat /\ t[i + 1 - 1] = s[1] /\ t[i + 2 - 1] = s[2]
        /\ t[i + 3 - 1] = s[3] /\ t[i + 4 - 1] = s[4]
    BY <1>1 DEF StandsAt
  <1>3. i + 1 - 1 = i /\ i + 2 - 1 = i + 1 /\ i + 3 - 1 = i + 2 /\ i + 4 - 1 = i + 3
    BY <1>2
  <1>. QED
    BY <1>1, <1>2, <1>3

-----------------------------------------------------------------------------
(* Pieces of a text, and what is found first in it.                        *)

LEMMA Adjoin ==
  ASSUME NEW S, NEW t, NEW i, NEW s \in Seq(S), NEW u \in Seq(S),
         StandsAt(t, i, s), NEW j, j = i + Len(s), StandsAt(t, j, u)
  PROVE  StandsAt(t, i, s \o u)
  <1>1. PICK m \in Nat : m = Len(s)
    OBVIOUS
  <1>2. PICK n \in Nat : n = Len(u)
    OBVIOUS
  <1>3. PICK x : x = s \o u
    OBVIOUS
  <1>4. /\ Len(x) = m + n
        /\ \A k \in 1 .. m + n : x[k] = IF k <= m THEN s[k] ELSE u[k - m]
    BY <1>1, <1>2, <1>3, ConcatProperties
  <1>5. i \in Nat \ {0} /\ j = i + m /\ j + n <= Len(t) + 1
    BY <1>1, <1>2 DEF StandsAt
  <1>6. ASSUME NEW k \in 1 .. m + n PROVE t[i + k - 1] = x[k]
    <2>1. CASE k <= m
      BY <1>1, <1>4, <2>1 DEF StandsAt
    <2>2. CASE ~ (k <= m)
      <3>1. PICK l : l = k - m
        OBVIOUS
      <3>2. l \in 1 .. n /\ j + l - 1 = i + k - 1
        BY <1>5, <2>2, <3>1
      <3>3. t[j + l - 1] = u[l]
        BY <1>2, <3>2 DEF StandsAt
      <3>. QED
        BY <1>4, <2>2, <3>1, <3>2, <3>3
    <2>. QED
      BY <2>1, <2>2
  <1>7. i + Len(x) <= Len(t) + 1
    BY <1>4, <1>5
  <1>8. StandsAt(t, i, x)
    BY <1>4, <1>5, <1>6, <1>7 DEF StandsAt
  <1>. QED
    BY <1>3, <1>8

LEMMA StrstrFirst ==
  ASSUME NEW S, NEW t \in Seq(S), NEW w \in Seq(S), Len(w) # 0,
         NEW i, StandsAt(t, i, w), NEW j \in Nat, \A k \in 1 .. j : ~ StandsAt(t, k, w)
  PROVE  Strstr(t, w) \in Nat /\ j < Strstr(t, w) /\ (i = j + 1 => Strstr(t, w) = i)
  <1>0. PICK n \in Nat \ {0} : Len(w) = n
    OBVIOUS
  <1>1. PICK I : I = Occurrences(t, w)
    OBVIOUS
  <1>2. \A k : k \in I <=> StandsAt(t, k, w)
    BY <1>0, <1>1, Occurs
  <1>3. I \in SUBSET Nat /\ i \in I /\ \A k \in I : k # 0
    BY <1>2 DEF StandsAt
  <1>4. \A k \in I : j < k
    BY <1>2, <1>3
  <1>5. Strstr(t, w) = IF I = {} THEN 0 ELSE Min(I)
    BY <1>1 DEF Strstr, Occurrences
  <1>6. PICK m \in I : \A k \in I : m <= k
    BY <1>3, LeastNumber
  <1>7. Strstr(t, w) = m
    BY <1>3, <1>5, <1>6, LeastIs
  <1>8. i = j + 1 => m = i
    BY <1>3, <1>4, <1>6
  <1>. QED
    BY <1>3, <1>4, <1>6, <1>7, <1>8

LEMMA StandsSub ==
  ASSUME NEW S, NEW t \in Seq(S), NEW s \in Seq(S), Len(s) # 0, NEW i, StandsAt(t, i, s),
         NEW j, j = i + Len(s) - 1
  PROVE  SubSeq(t, i, j) = s
  <1>1. PICK n \in Nat \ {0} : Len(s) = n
    OBVIOUS
  <1>2. i \in Occurrences(t, s)
    BY <1>1, Occurs
  <1>. QED
    BY <1>2 DEF Occurrences

(* What is left out around a host's name.                                  *)
LEMMA Skips ==
  ASSUME NEW s \in Seq(Char)
  PROVE  /\ SkipFirst(<<SP>> \o s) = s
         /\ SkipLast(s \o <<CR>>) = s
  <1>1. PICK sp \in Char : sp = SP
    BY CharParts
  <1>2. PICK cr \in Char : cr = CR
    BY CharParts
  <1>3. Cut(sp) = <<>> /\ Cut(cr) = <<>>
    BY <1>1, <1>2 DEF Cut, Sign
  <1>4. PICK n \in Nat : n = Len(s)
    OBVIOUS
  <1>5p. PICK a : a = <<sp>>
    OBVIOUS
  <1>5. a = <<sp>> /\ Len(a) = 1 /\ a[1] = sp /\ a \in Seq(Char)
    BY <1>5p
  <1>6p. PICK b : b = <<cr>>
    OBVIOUS
  <1>6. b = <<cr>> /\ Len(b) = 1 /\ b[1] = cr /\ b \in Seq(Char)
    BY <1>6p
  <1>7. SkipFirst(<<SP>> \o s) = s
    <2>1. PICK u : u = a \o s
      OBVIOUS
    <2>2. /\ u \in Seq(Char) /\ Len(u) = 1 + n
          /\ \A i \in 1 .. 1 + n : u[i] = IF i <= 1 THEN a[i] ELSE s[i - 1]
      BY <1>4, <1>5, <2>1, ConcatProperties
    <2>3. u # <<>> /\ Head(u) = sp
      BY <1>5, <2>2
    <2>4. PICK v : v = Tail(u)
      OBVIOUS
    <2>5. v \in Seq(Char) /\ Len(v) = n /\ \A i \in 1 .. n : v[i] = u[i + 1]
      BY <2>2, <2>3, <2>4
    <2>6. \A i \in 1 .. n : i + 1 \in 1 .. 1 + n /\ ~ (i + 1 <= 1) /\ (i + 1) - 1 = i
      OBVIOUS
    <2>7. \A i \in 1 .. n : v[i] = s[i]
      BY <2>2, <2>5, <2>6
    <2>8. v = s
      BY <1>4, <2>5, <2>7, SeqEqual
    <2>9. <<>> \o s = s
      BY ConcatEmptySeq
    <2>10. SkipFirst(u) = s
      BY <1>3, <2>3, <2>4, <2>8, <2>9, Zenon DEF SkipFirst
    <2>. QED
      BY <1>1, <1>5, <2>1, <2>10, Zenon
  <1>8. SkipLast(s \o <<CR>>) = s
    <2>1. PICK u : u = s \o b
      OBVIOUS
    <2>2. /\ u \in Seq(Char) /\ Len(u) = n + 1
          /\ \A i \in 1 .. n + 1 : u[i] = IF i <= n THEN s[i] ELSE b[i - n]
      BY <1>4, <1>6, <2>1, ConcatProperties
    <2>3. u # <<>> /\ Last(u) = cr
      <3>1. n + 1 \in 1 .. n + 1 /\ ~ (n + 1 <= n) /\ (n + 1) - n = 1
        OBVIOUS
      <3>2. u[n + 1] = cr
        BY <1>6, <2>2, <3>1
      <3>3. u # <<>>
        BY <2>2
      <3>. QED
        BY <2>2, <3>2, <3>3 DEF Last
    <2>4. Front(u) = SubSeq(u, 0 + 1, n)
      BY <2>2 DEF Front
    <2>5. PICK v : v = SubSeq(u, 0 + 1, n)
      OBVIOUS
    <2>6. v \in Seq(Char) /\ Len(v) = n - 0 /\ \A i \in 1 .. n - 0 : v[i] = u[0 + i]
      <3>1. 0 \in Nat /\ n \in 0 .. Len(u)
        BY <2>2
      <3>. QED
        BY <2>2, <2>5, <3>1, Slice
    <2>7. v = s
      <3>1. Len(v) = n /\ \A i \in 1 .. n : v[i] = u[i] /\ i \in 1 .. n + 1
        BY <2>6
      <3>2. \A i \in 1 .. n : v[i] = s[i]
        BY <2>2, <3>1
      <3>. QED
        BY <1>4, <2>6, <3>1, <3>2, SeqEqual
    <2>8. s \o <<>> = s
      BY ConcatEmptySeq
    <2>9. SkipLast(u) = s
      BY <1>3, <2>3, <2>4, <2>5, <2>7, <2>8, Zenon DEF SkipLast
    <2>. QED
      BY <1>2, <1>6, <2>1, <2>9, Zenon
  <1>. QED
    BY <1>7, <1>8

-----------------------------------------------------------------------------
(* extract_host().                                                         *)

\* Where a name, and a port behind it, stand in an address at i.
Addressed(r, t, i, n) ==
  /\ n = i + Len(r.host) /\ i \in Nat \ {0} /\ n \in Nat /\ i < n
  /\ StandsAt(t, i, r.host) /\ \A k \in i .. n - 1 : t[k] \in Name
  /\ r.port # NoPort => t[n] = ":" /\ t[n + 1] = r.port /\ n + 1 <= Len(t)
LEMMA AddressStands ==
  ASSUME NEW r \in Request, NEW t \in Seq(Char), NEW i, StandsAt(t, i, Authority(r)),
         NEW n, n = i + Len(r.host)
  PROVE  /\ Addressed(r, t, i, n)
         /\ i + Len(Authority(r)) = IF r.port = NoPort THEN n ELSE n + 2
  <1>1. PICK host \in Seq(Char) : host = r.host /\ host \in Seq(Name) /\ Len(host) \in Nat \ {0}
    <2>1. r.host \in Seq(Name) /\ r.host # <<>>
      BY RequestParts
    <2>2. Len(r.host) \in Nat \ {0}
      BY <2>1
    <2>. QED
      BY <2>1, <2>2, CharParts, SeqWiden
  <1>2. StandsAt(t, i, host) /\ (r.port # NoPort => StandsAt(t, n, <<":", r.port>>))
        /\ i + Len(Authority(r)) = IF r.port = NoPort THEN n ELSE n + 2
    <2>1. CASE r.port = NoPort
      BY <1>1, <2>1, AuthorityIs
    <2>2. CASE r.port # NoPort
      <3>1. r.port \in Number
        BY <2>2, AuthorityIs
      <3>2. PICK c \in Char : c = ":"
        BY CharParts
      <3>3. PICK p \in Char : p = r.port
        BY <3>1, CharParts
      <3>p. PICK e : e = <<c, p>>
        OBVIOUS
      <3>4. e = <<c, p>> /\ Len(e) = 2 /\ e \in Seq(Char)
        BY <3>p
      <3>5. PICK au : au = host \o e
        OBVIOUS
      <3>6. au = Authority(r)
        BY <1>1, <2>2, <3>2, <3>3, <3>4, <3>5, AuthorityIs, Zenon
      <3>7. InTwo(Char, t, i, host, e, au)
        BY <1>1, <3>4, <3>5, <3>6 DEF InTwo
      <3>8. StandsAt(t, i, host) /\ StandsAt(t, i + Len(host), e) /\ Len(au) = Len(host) + Len(e)
        BY <3>7, TextParts
      <3>9. i \in Nat
        BY <3>8 DEF StandsAt
      <3>10. i + Len(au) = n + 2
        BY <1>1, <3>4, <3>8, <3>9
      <3>. QED
        BY <1>1, <2>2, <3>2, <3>3, <3>4, <3>6, <3>8, <3>10, Zenon
    <2>. QED
      BY <2>1, <2>2
  <1>3. n \in Nat /\ i \in Nat \ {0} /\ i < n /\ \A k \in i .. n - 1 : t[k] \in Name
    <2>1. i \in Nat \ {0}
      BY <1>2 DEF StandsAt
    <2>2. n \in Nat /\ \A k \in i .. n - 1 : t[k] \in Name
      BY <1>1, <1>2, StandIn
    <2>. QED
      BY <1>1, <2>1, <2>2
  <1>4. ASSUME r.port # NoPort PROVE t[n] = ":" /\ t[n + 1] = r.port /\ n + 1 <= Len(t)
    <2>1. StandsAt(t, n, <<":", r.port>>)
      BY <1>2, <1>4
    <2>p. PICK e : e = <<":", r.port>>
      OBVIOUS
    <2>2. e = <<":", r.port>> /\ Len(e) = 2
      BY <2>p
    <2>3. n + 2 <= Len(t) + 1
      BY <2>1, <2>2 DEF StandsAt
    <2>4. Len(t) \in Nat
      OBVIOUS
    <2>5. n + 1 <= Len(t)
      BY <1>3, <2>3, <2>4
    <2>. QED
      BY <2>1, <2>5, StandTwo
  <1>. QED
    BY <1>1, <1>2, <1>3, <1>4 DEF Addressed

LEMMA TunnelSeen ==
  ASSUME NEW r \in Request, r.method = "CONNECT"
  PROVE  Strstr(Text(r), <<"CONNECT">>) = 1 /\ IsTunnel(Text(r))
  <1>1. PICK t \in Seq(Char) : t = Text(r)
    BY TextParted
  <1>2. t[1] = "CONNECT" /\ 1 <= Len(t)
    <2>1. PICK v, h, b, a, f : LaidOut(r, t, v, h, b, a, f)
      BY <1>1, TextParted
    <2>2. StandsAt(t, 1, <<r.method, SP>>)
      BY <2>1 DEF LaidOut
    <2>p. PICK s : s = <<r.method, SP>>
      OBVIOUS
    <2>3. s = <<r.method, SP>> /\ Len(s) = 2
      BY <2>p
    <2>4. 1 + 2 <= Len(t) + 1
      BY <2>2, <2>3 DEF StandsAt
    <2>. QED
      BY <2>2, <2>4, StandTwo
  <1>3. PICK c \in Char : c = "CONNECT"
    BY CharParts
  <1>p. PICK w : w = <<c>>
    OBVIOUS
  <1>4. w = <<c>> /\ Len(w) = 1 /\ w[1] = c /\ w \in Seq(Char)
    BY <1>p
  <1>5. StandsAt(t, 1, w)
    <2>1. \A k \in 1 .. 1 : 1 + k - 1 = 1 /\ k = 1
      OBVIOUS
    <2>. QED
      BY <1>2, <1>3, <1>4, <2>1 DEF StandsAt
  <1>6. Strstr(t, w) = 1
    <2>1. \A k \in 1 .. 1 - 1 : t[k] # w[1]
      OBVIOUS
    <2>2. Len(w) # 0 /\ w \in Seq(Char)
      BY <1>4
    <2>. QED
      BY <1>5, <2>1, <2>2, StrstrIs
  <1>. QED
    BY <1>1, <1>3, <1>4, <1>6 DEF IsTunnel

(* The host and port of a CONNECT that names a port.                       *)
LEMMA TunnelFound ==
  ASSUME NEW r \in Request, r.method = "CONNECT", r.port # NoPort
  PROVE  TunnelTarget(Text(r)) = Target(r)
  <1>1. PICK t \in Seq(Char) : t = Text(r)
    BY TextParted
  <1>2. PICK v, h, b, a, f : LaidOut(r, t, v, h, b, a, f)
    BY <1>1, TextParted
  <1>3. t[1] = "CONNECT" /\ t[2] = SP
    <2>1. StandsAt(t, 1, <<r.method, SP>>)
      BY <1>2 DEF LaidOut
    <2>2. t[1] = r.method /\ t[1 + 1] = SP
      BY <2>1, StandTwo
    <2>. QED
      BY <2>2
  <1>4. PICK n : n = 3 + Len(r.host)
    OBVIOUS
  <1>5. Addressed(r, t, 3, n)
    <2>1. Place(r) = Authority(r)
      BY RequestParts DEF Place
    <2>2. StandsAt(t, 3, Authority(r))
      BY <1>2, <2>1 DEF LaidOut
    <2>. QED
      BY <1>4, <2>2, AddressStands
  <1>6. /\ n \in Nat /\ 3 < n /\ n + 1 <= Len(t) /\ t[n] = ":" /\ t[n + 1] = r.port
        /\ \A k \in 3 .. n - 1 : t[k] \in Name
    BY <1>5 DEF Addressed
  <1>7. Len(t) \in Nat
    OBVIOUS
  <1>8. Strstr(t, <<"CONNECT">>) = 1
    BY <1>1, TunnelSeen
  <1>9. Strchr(t, SP, 1) = 2
    <2>1. 1 \in Nat \ {0} /\ 2 \in 1 .. Len(t)
      BY <1>6, <1>7
    <2>2. \A k \in 1 .. 2 - 1 : t[k] # SP
      <3>1. \A k \in 1 .. 2 - 1 : k = 1
        OBVIOUS
      <3>. QED
        BY <1>3, <3>1 DEF SP
    <2>. QED
      BY <1>3, <2>1, <2>2, StrchrIs
  <1>10. Strchr(t, ":", 3) = n
    <2>1. 3 \in Nat \ {0} /\ n \in 3 .. Len(t)
      BY <1>6, <1>7
    <2>2. \A k \in 3 .. n - 1 : t[k] # ":"
      BY <1>6, Strange DEF Sign
    <2>. QED
      BY <1>6, <2>1, <2>2, StrchrIs
  <1>11. SubSeq(t, 3, n - 1) = r.host
    <2>1. PICK host \in Seq(Char) : host = r.host /\ Len(host) \in Nat \ {0}
      BY RequestParts, CharParts, SeqWiden
    <2>2. StandsAt(t, 3, host) /\ n - 1 = 3 + Len(host) - 1
      BY <1>4, <1>5, <2>1 DEF Addressed
    <2>3. PICK j : j = n - 1
      OBVIOUS
    <2>4. SubSeq(t, 3, j) = host
      BY <2>1, <2>2, <2>3, StandsSub
    <2>. QED
      BY <2>1, <2>3, <2>4
  <1>12. Atoi(t[n + 1]) = r.port
    BY <1>6, AuthorityIs DEF Atoi
  <1>13. 2 + 1 = 3 /\ n # 0
    BY <1>6
  <1>14. TunnelTarget(t) = [host |-> r.host, port |-> r.port]
    BY <1>8, <1>9, <1>10, <1>11, <1>12, <1>13, Zenon DEF TunnelTarget
  <1>. QED
    BY <1>1, <1>14 DEF Target

(* The host and port of the Host line, where that is found first.          *)
LEMMA HostFound ==
  ASSUME NEW r \in Request, Strstr(Text(r), <<"Host", ":">>) = HostAt(r), r.blank = <<SP>>,
         r.end[1] = <<CR, LF>> \/ r.port # NoPort
  PROVE  HostTarget(Text(r)) = Target(r)
  <1>1. PICK t \in Seq(Char) : t = Text(r)
    BY TextParted
  <1>2. PICK v, h, b, a, f : LaidOut(r, t, v, h, b, a, f)
    BY <1>1, TextParted
  <1>3. Strstr(t, <<"Host", ":">>) = h
    BY <1>1, <1>2 DEF LaidOut
  <1>4. h \in Nat /\ 7 < h /\ b = h + 2 /\ a = h + 3
    <2>1. PICK s : s = r.blank
      OBVIOUS
    <2>2. a = b + Len(s) /\ b = h + 2 /\ h \in Nat /\ v \in Nat /\ 3 <= v /\ v + 4 < h
      BY <1>2, <2>1 DEF LaidOut
    <2>3. Len(s) = 1
      BY <2>1
    <2>4. a = b + 1
      BY <2>2, <2>3, Zenon
    <2>. QED
      BY <2>2, <2>4
  <1>5. t[h] = "Host" /\ t[h + 1] = ":" /\ t[h + 2] = SP
    <2>1. StandsAt(t, h, <<"Host", ":">>) /\ StandsAt(t, b, <<SP>>)
      BY <1>2 DEF LaidOut
    <2>2. t[h] = "Host" /\ t[h + 1] = ":"
      BY <2>1, StandTwo
    <2>3. t[b] = SP
      BY <2>1, StandOne
    <2>. QED
      BY <1>4, <2>2, <2>3
  <1>6. PICK n : n = a + Len(r.host)
    OBVIOUS
  <1>7. Addressed(r, t, a, n) /\ f = IF r.port = NoPort THEN n ELSE n + 2
    <2>1. StandsAt(t, a, Authority(r)) /\ f = a + Len(Authority(r))
      BY <1>2 DEF LaidOut
    <2>2. /\ Addressed(r, t, a, n)
          /\ a + Len(Authority(r)) = IF r.port = NoPort THEN n ELSE n + 2
      BY <1>6, <2>1, AddressStands
    <2>. QED
      BY <2>1, <2>2
  <1>8. /\ n \in Nat /\ h + 3 < n /\ a = h + 3 /\ \A k \in h + 3 .. n - 1 : t[k] \in Name
        /\ r.port # NoPort => t[n] = ":" /\ t[n + 1] = r.port /\ n + 1 <= Len(t)
    BY <1>4, <1>7 DEF Addressed
  <1>9. Len(t) \in Nat
    OBVIOUS
  <1>10. PICK host \in Seq(Char) : host = r.host /\ Len(host) \in Nat \ {0}
    BY RequestParts, CharParts, SeqWiden
  <1>11. SubSeq(t, h + 2, n - 1) = <<SP>> \o host
    <2>p. PICK sp : sp = <<SP>>
      OBVIOUS
    <2>1. Len(sp) = 1 /\ sp \in Seq(Char)
      BY <2>p, CharParts
    <2>2. StandsAt(t, b, sp) /\ StandsAt(t, a, host) /\ a = b + Len(sp)
      <3>1. StandsAt(t, b, r.blank)
        BY <1>2 DEF LaidOut
      <3>2. StandsAt(t, a, r.host)
        BY <1>7 DEF Addressed
      <3>. QED
        BY <1>4, <1>10, <2>p, <2>1, <3>1, <3>2
    <2>3. PICK s : s = sp \o host
      OBVIOUS
    <2>4. StandsAt(t, b, s)
      BY <2>1, <2>2, <2>3, Adjoin
    <2>a. s \in Seq(Char) /\ Len(s) = Len(sp) + Len(host)
      BY <2>1, <2>3, ConcatProperties, Zenon
    <2>5. s \in Seq(Char) /\ Len(s) = 1 + Len(host)
      BY <2>1, <2>a, Zenon
    <2>6. n = a + Len(host)
      BY <1>6, <1>10
    <2>7. PICK j : j = n - 1
      OBVIOUS
    <2>b. PICK m \in Nat \ {0} : m = Len(host)
      BY <1>10
    <2>c. n = a + m /\ Len(s) = 1 + m /\ a = b + 1 /\ b \in Nat
      BY <1>4, <2>b, <2>5, <2>6
    <2>8. j = b + Len(s) - 1 /\ Len(s) # 0
      BY <2>b, <2>c, <2>7
    <2>9. SubSeq(t, b, j) = s
      BY <2>4, <2>5, <2>8, StandsSub
    <2>. QED
      BY <1>4, <2>p, <2>3, <2>7, <2>9, Zenon
  <1>12. SkipFirst(SubSeq(t, h + 2, n - 1)) = host
    BY <1>11, Skips
  <1>13. PICK l \in Nat : /\ l \in f .. f + 1 /\ l <= Len(t) /\ t[l] = LF
                          /\ l = f \/ (l = f + 1 /\ t[f] = CR)
                          /\ r.end[1] = <<CR, LF>> => l = f + 1 /\ t[f] = CR
    <2>a. StandsAt(t, f, r.end[1])
      BY <1>2 DEF LaidOut
    <2>b. f \in Nat
      BY <1>7, <1>8
    <2>1. StandsAt(t, f, r.end[1]) /\ f \in Nat
      BY <2>a, <2>b
    <2>2. CASE r.end[1] = <<CR, LF>>
      <3>1. t[f] = CR /\ t[f + 1] = LF
        BY <2>1, <2>2, StandTwo
      <3>p. PICK e : e = <<CR, LF>>
        OBVIOUS
      <3>2. e = <<CR, LF>> /\ Len(e) = 2
        BY <3>p
      <3>3. f + 2 <= Len(t) + 1
        BY <2>1, <2>2, <3>2 DEF StandsAt
      <3>4. f + 1 <= Len(t) /\ f + 1 \in Nat /\ f + 1 \in f .. f + 1
        BY <1>9, <2>1, <3>3
      <3>. QED
        BY <3>1, <3>4
    <2>3. CASE r.end[1] = <<LF>>
      <3>1. t[f] = LF
        BY <2>1, <2>3, StandOne
      <3>p. PICK e : e = <<LF>>
        OBVIOUS
      <3>2. e = <<LF>> /\ Len(e) = 1 /\ e # <<CR, LF>>
        BY <3>p
      <3>3. f + 1 <= Len(t) + 1
        BY <2>1, <2>3, <3>2 DEF StandsAt
      <3>4. f <= Len(t) /\ f \in f .. f + 1
        BY <1>9, <2>1, <3>3
      <3>. QED
        BY <2>1, <2>3, <3>1, <3>2, <3>4
    <2>. QED
      BY <2>2, <2>3, LineEnds
  <1>14. Strchr(t, LF, h) = l
    <2>1. h \in Nat \ {0} /\ l \in h .. Len(t)
      BY <1>4, <1>7, <1>8, <1>13
    <2>2. ASSUME NEW k \in h .. l - 1 PROVE t[k] # LF
      <3>1. \/ k = h \/ k = h + 1 \/ k = h + 2 \/ k \in h + 3 .. n - 1
            \/ r.port # NoPort /\ (k = n \/ k = n + 1)
            \/ l = f + 1 /\ k = f
        BY <1>4, <1>7, <1>8, <1>13
      <3>2. "Host" # LF /\ ":" # LF /\ SP # LF /\ CR # LF
        BY DEF LF, SP, CR
      <3>3. \A x \in Name : x # LF
        BY Strange DEF Sign
      <3>4. r.port # NoPort => r.port \in Name
        BY AuthorityIs DEF Name
      <3>5. l = f + 1 => t[f] = CR
        BY <1>13, <1>7, <1>8
      <3>. QED
        BY <1>5, <1>8, <3>1, <3>2, <3>3, <3>4, <3>5
    <2>. QED
      BY <1>13, <2>1, <2>2, StrchrIs
  <1>15. CASE r.port # NoPort
    <2>1. Strchr(t, ":", h + 2) = n
      <3>1. PICK i : i = h + 2
        OBVIOUS
      <3>2. i \in Nat \ {0} /\ n \in i .. Len(t) /\ \A k \in i .. n - 1 : k = h + 2 \/ k \in h + 3 .. n - 1
        BY <1>4, <1>8, <1>9, <1>15, <3>1
      <3>3. \A k \in i .. n - 1 : t[k] # ":"
        BY <1>5, <1>8, <3>2, Strange DEF Sign, SP
      <3>4. Strchr(t, ":", i) = n
        BY <1>8, <1>15, <3>2, <3>3, StrchrIs
      <3>. QED
        BY <3>1, <3>4
    <2>a. f = n + 2 /\ l \in f .. f + 1 /\ n \in Nat /\ h \in Nat /\ h + 3 < n
      BY <1>4, <1>7, <1>8, <1>13, <1>15
    <2>2. PortColon(n, l)
      BY <2>a DEF PortColon
    <2>3. Atoi(t[n + 1]) = r.port
      BY <1>8, <1>15, AuthorityIs DEF Atoi
    <2>4. HostTarget(t) = [host |-> r.host, port |-> r.port]
      BY <1>3, <1>10, <1>12, <1>14, <2>1, <2>2, <2>3, Zenon DEF HostTarget
    <2>. QED
      BY <1>1, <1>15, <2>4 DEF Target
  <1>16. CASE r.port = NoPort
    <2>1. l = n + 1 /\ t[n] = CR /\ t[n + 1] = LF /\ f = n
      BY <1>7, <1>13, <1>16
    <2>2. ~ PortColon(Strchr(t, ":", h + 2), l)
      <3>1. PICK i : i = h + 2
        OBVIOUS
      <3>2. /\ i \in Nat \ {0} /\ l \in Nat
            /\ \A k \in i .. l : k = h + 2 \/ k \in h + 3 .. n - 1 \/ k = n \/ k = n + 1
        BY <1>4, <1>8, <2>1, <3>1
      <3>3. \A k \in i .. l : t[k] # ":"
        <4>1. SP # ":" /\ CR # ":" /\ LF # ":" /\ \A x \in Name : x # ":"
          BY Strange DEF Sign, SP, CR, LF
        <4>. QED
          BY <1>5, <1>8, <2>1, <3>2, <4>1
      <3>4. Strchr(t, ":", i) = 0 \/ ~ (Strchr(t, ":", i) < l)
        BY <3>2, <3>3, StrchrBehind
      <3>. QED
        BY <3>1, <3>4 DEF PortColon
    <2>3. SubSeq(t, h + 2, l - 1) = <<SP>> \o (host \o <<CR>>)
      <3>p. PICK sp : sp = <<SP>>
        OBVIOUS
      <3>q. PICK cr : cr = <<CR>>
        OBVIOUS
      <3>1. Len(sp) = 1 /\ sp \in Seq(Char)
        BY <3>p, CharParts
      <3>2. Len(cr) = 1 /\ cr \in Seq(Char) /\ cr[1] = CR
        BY <3>q, CharParts
      <3>3. PICK u : u = host \o cr
        OBVIOUS
      <3>4. PICK s : s = sp \o u
        OBVIOUS
      <3>a. u \in Seq(Char) /\ Len(u) = Len(host) + Len(cr)
        BY <3>2, <3>3, ConcatProperties, Zenon
      <3>5. u \in Seq(Char) /\ Len(u) = Len(host) + 1
        BY <3>2, <3>a, Zenon
      <3>b. s \in Seq(Char) /\ Len(s) = Len(sp) + Len(u)
        BY <3>1, <3>4, <3>5, ConcatProperties, Zenon
      <3>6. s \in Seq(Char) /\ Len(s) = 1 + Len(u)
        BY <3>1, <3>b, Zenon
      <3>7. n = a + Len(host)
        BY <1>6, <1>10
      <3>8. StandsAt(t, n, cr)
        <4>1. \A k \in 1 .. 1 : n + k - 1 = n /\ k = 1
          BY <1>8
        <4>2. n \in Nat \ {0} /\ n + 1 <= Len(t) + 1
          BY <1>4, <1>8, <1>9, <1>13, <2>1
        <4>. QED
          BY <2>1, <3>2, <4>1, <4>2 DEF StandsAt
      <3>9. StandsAt(t, a, u)
        <4>1. StandsAt(t, a, host)
          BY <1>7, <1>10 DEF Addressed
        <4>. QED
          BY <3>2, <3>3, <3>7, <3>8, <4>1, Adjoin
      <3>10. StandsAt(t, b, s)
        <4>1. StandsAt(t, b, sp)
          <5>1. StandsAt(t, b, r.blank)
            BY <1>2 DEF LaidOut
          <5>. QED
            BY <3>p, <5>1
        <4>2. a = b + Len(sp)
          BY <1>4, <3>1
        <4>. QED
          BY <3>1, <3>4, <3>5, <3>9, <4>1, <4>2, Adjoin
      <3>11. PICK j : j = l - 1
        OBVIOUS
      <3>c. PICK m \in Nat \ {0} : m = Len(host)
        BY <1>10
      <3>d. n = a + m /\ Len(s) = 1 + (m + 1) /\ a = b + 1 /\ b \in Nat /\ l = n + 1
        BY <1>4, <2>1, <3>c, <3>5, <3>6, <3>7
      <3>12. j = b + Len(s) - 1 /\ Len(s) # 0
        BY <3>c, <3>d, <3>11
      <3>13. SubSeq(t, b, j) = s
        BY <3>6, <3>10, <3>12, StandsSub
      <3>. QED
        BY <1>4, <3>p, <3>q, <3>3, <3>4, <3>11, <3>13, Zenon
    <2>4. SkipLast(SkipFirst(SubSeq(t, h + 2, l - 1))) = host
      <3>1. PICK cr : cr = <<CR>>
        OBVIOUS
      <3>2. cr \in Seq(Char)
        BY <3>1, CharParts
      <3>3. host \o cr \in Seq(Char)
        BY <3>2, ConcatProperties
      <3>4. SkipFirst(<<SP>> \o (host \o cr)) = host \o cr
        BY <3>3, Skips
      <3>5. SkipLast(host \o <<CR>>) = host
        BY Skips
      <3>. QED
        BY <2>3, <3>1, <3>4, <3>5, Zenon
    <2>5. HostTarget(t) = [host |-> r.host, port |-> "80"]
      BY <1>3, <1>10, <1>14, <2>2, <2>4, Zenon DEF HostTarget
    <2>. QED
      BY <1>1, <1>16, <2>5 DEF Target
  <1>. QED
    BY <1>15, <1>16

(* The target of a regular request is found.                               *)
LEMMA TargetFound ==
  ASSUME NEW r \in Request, Regular(r)
  PROVE  ExtractHost(Text(r)) = Target(r)
  <1>1. CASE r.method = "CONNECT"
    <2>1. r.port # NoPort
      BY <1>1 DEF Regular
    <2>. QED
      BY <1>1, <2>1, TunnelFound, TunnelSeen DEF ExtractHost
  <1>2. CASE r.method # "CONNECT"
    <2>1. ~ IsTunnel(Text(r))
      BY <1>2 DEF Regular
    <2>2. HostTarget(Text(r)) = Target(r)
      BY <1>2, HostFound DEF Regular
    <2>. QED
      BY <2>1, <2>2 DEF ExtractHost
  <1>. QED
    BY <1>1, <1>2

-----------------------------------------------------------------------------
(* rewrite_header().                                                       *)

(* A request without its address has the same other parts.                 *)
LEMMA OriginIs ==
  ASSUME NEW r \in Request
  PROVE  /\ Text(ToOrigin(r))
              = (<<r.method, SP>> \o (IF r.path = <<>> THEN <<"/">> ELSE r.path)) \o Behind(r)
  <1>1. PICK o : o = ToOrigin(r)
    OBVIOUS
  <1>2. /\ o.method = r.method /\ o.form = "origin" /\ o.host = r.host /\ o.port = r.port
        /\ o.path = (IF r.path = <<>> THEN <<"/">> ELSE r.path)
        /\ o.end = r.end /\ o.blank = r.blank /\ o.more = r.more /\ o.before = r.before
        /\ o.late = r.late
    BY <1>1 DEF Request, ToOrigin
  <1>3. /\ Authority(o) = Authority(r) /\ Lines(o, r.before) = Lines(r, r.before)
        /\ Lines(o, r.more) = Lines(r, r.more)
    BY <1>2, Zenon DEF Authority, Lines
  <1>4. Behind(o) = Behind(r)
    BY <1>2, <1>3, Zenon DEF Behind
  <1>5. Place(o) = (IF r.path = <<>> THEN <<"/">> ELSE r.path)
    BY <1>2 DEF Place
  <1>6. Text(o) = (<<r.method, SP>> \o (IF r.path = <<>> THEN <<"/">> ELSE r.path)) \o Behind(r)
    BY <1>2, <1>4, <1>5, Zenon DEF Text
  <1>. QED
    BY <1>1, <1>6

(* Three texts in a row, put together from the left or from the right.     *)
InThree(S, s, t, u, v, w) ==
  s \in Seq(S) /\ t \in Seq(S) /\ u \in Seq(S) /\ v = s \o t /\ w = t \o u
Joined(v, u, s, w) == v \o u = s \o w
LEMMA Regrouped ==
  ASSUME NEW S, NEW s, NEW t, NEW u, NEW v, NEW w, InThree(S, s, t, u, v, w)
  PROVE  Joined(v, u, s, w)
  <1>1. s \in Seq(S) /\ t \in Seq(S) /\ u \in Seq(S) /\ v = s \o t /\ w = t \o u
    BY DEF InThree
  <1>2. (s \o t) \o u = s \o (t \o u)
    BY <1>1, ConcatAssociative
  <1>. QED
    BY <1>1, <1>2 DEF Joined

(* The end of a text.                                                      *)
LEMMA EndOf ==
  ASSUME NEW S, NEW s \in Seq(S), NEW u \in Seq(S), Len(u) # 0, NEW t \in Seq(S), t = s \o u,
         NEW i, i = 1 + Len(s)
  PROVE  SubSeq(t, i, Len(t)) = u
  <1>1. StandsAt(t, 1, t)
    BY DEF StandsAt
  <1>2. InTwo(S, t, 1, s, u, t)
    BY <1>1 DEF InTwo
  <1>3. StandsAt(t, i, u) /\ Len(t) = Len(s) + Len(u) /\ Len(s) \in Nat /\ Len(u) \in Nat
    BY <1>2, TextParts
  <1>4. PICK j : j = Len(t)
    OBVIOUS
  <1>5. j = i + Len(u) - 1
    BY <1>3, <1>4
  <1>6. SubSeq(t, i, j) = u
    BY <1>3, <1>5, StandsSub
  <1>. QED
    BY <1>4, <1>6

(* With an address, the texts in front of it, in it and behind it: v is    *)
(* where the version stands, q where the path does.                        *)
AddressText(r, t, v, q) ==
  /\ q \in Nat /\ 7 < q /\ q <= v /\ v \in Nat /\ v + 3 <= Len(t)
  /\ SubSeq(t, 1, 2) = <<r.method, SP>> /\ t[1] = r.method /\ t[2] = SP
  /\ t[3] = "http" /\ t[4] = ":" /\ t[5] = "/" /\ t[6] = "/"
  /\ Strstr(t, Http) = 3
  /\ \A k \in 7 .. q - 1 : t[k] # "/"
  /\ t[q - 1] = IF r.port = NoPort THEN Last(r.host) ELSE r.port
  /\ r.path = <<>> => q = v
  /\ r.path # <<>> => q < v /\ t[q] = "/"
  /\ t[v] = SP /\ t[v + 1] = "HTTP" /\ t[v + 2] = "/"
  /\ SubSeq(t, v, Len(t)) = Behind(r)
  /\ SubSeq(t, q, Len(t)) = r.path \o Behind(r)

LEMMA FirstTwo ==
  ASSUME NEW S, NEW t \in Seq(S), NEW s \in Seq(S), Len(s) = 2, StandsAt(t, 1, s)
  PROVE  SubSeq(t, 1, 2) = s
  <1>1. PICK j : j = 2
    OBVIOUS
  <1>i. PICK i : i = 1
    OBVIOUS
  <1>2. j = i + Len(s) - 1 /\ Len(s) # 0
    BY <1>1, <1>i
  <1>a. StandsAt(t, i, s)
    BY <1>i, Zenon
  <1>3. i \in Occurrences(t, s)
    BY <1>2, <1>a, Occurs
  <1>4. SubSeq(t, i, i + Len(s) - 1) = s
    BY <1>3 DEF Occurrences
  <1>. QED
    BY <1>1, <1>i, <1>2, <1>4

LEMMA AddressFound ==
  ASSUME NEW r \in Request, r.form = "absolute"
  PROVE  \E v, q : AddressText(r, Text(r), v, q)
  <1>1. PICK t \in Seq(Char) : t = Text(r)
    BY TextParted
  <1>2. Len(t) \in Nat
    OBVIOUS
  <1>3. PICK v, h, b, a, f : LaidOut(r, t, v, h, b, a, f)
    BY <1>1, TextParted
  <1>4. /\ v \in Nat /\ 3 <= v /\ v = 3 + Len(Place(r)) /\ StandsAt(t, 3, Place(r))
        /\ StandsAt(t, 1, <<r.method, SP>>) /\ StandsAt(t, v, Version)
        /\ StandsAt(t, v, Behind(r))
    BY <1>3 DEF LaidOut
  <1>5. t[1] = r.method /\ t[2] = SP
    <2>1. t[1] = r.method /\ t[1 + 1] = SP
      BY <1>4, StandTwo
    <2>. QED
      BY <2>1
  <1>6. t[v] = SP /\ t[v + 1] = "HTTP" /\ t[v + 2] = "/" /\ v + 4 <= Len(t) + 1
    <2>1. StandsAt(t, v, <<SP, "HTTP", "/", "1.1">>)
      BY <1>4 DEF Version
    <2>2. Len(Version) = 4
      BY DEF Version
    <2>3. v + 4 <= Len(t) + 1
      BY <1>4, <2>2 DEF StandsAt
    <2>. QED
      BY <2>1, <2>3, StandFour
  <1>p. PICK ht : ht = Http
    OBVIOUS
  <1>7. ht \in Seq(Char) /\ Len(ht) = 4 /\ Len(ht) # 0 /\ ht[1] = "http"
    <2>1. Len(ht) = 4 /\ ht[1] = "http" /\ Len(ht) # 0
      BY <1>p DEF Http
    <2>2. ht \in Seq(Char)
      BY <1>p, PartTypes
    <2>. QED
      BY <2>1, <2>2
  <1>8. PICK au \in Seq(Char) : au = Authority(r)
    BY PartTypes
  <1>9. PICK pa \in Seq(Char) : pa = r.path
    BY PartTypes
  <1>10. PICK x \in Seq(Char) : x = ht \o au
    BY <1>7, ConcatProperties
  <1>11. PICK pl \in Seq(Char) : pl = x \o pa
    BY ConcatProperties
  <1>12. pl = Place(r)
    BY <1>p, <1>8, <1>9, <1>10, <1>11, Zenon DEF Place
  <1>13. StandsAt(t, 3, x) /\ StandsAt(t, 3 + Len(x), pa) /\ Len(pl) = Len(x) + Len(pa)
    <2>1. InTwo(Char, t, 3, x, pa, pl)
      BY <1>4, <1>11, <1>12 DEF InTwo
    <2>. QED
      BY <2>1, TextParts
  <1>14. StandsAt(t, 3, ht) /\ StandsAt(t, 3 + Len(ht), au) /\ Len(x) = Len(ht) + Len(au)
    <2>1. InTwo(Char, t, 3, ht, au, x)
      BY <1>7, <1>10, <1>13 DEF InTwo
    <2>. QED
      BY <2>1, TextParts
  <1>15. t[3] = "http" /\ t[4] = ":" /\ t[5] = "/" /\ t[6] = "/"
    <2>1. StandsAt(t, 3, <<"http", ":", "/", "/">>)
      BY <1>p, <1>14 DEF Http
    <2>2. t[3] = "http" /\ t[3 + 1] = ":" /\ t[3 + 2] = "/" /\ t[3 + 3] = "/"
      BY <2>1, StandFour
    <2>. QED
      BY <2>2
  <1>16. Strstr(t, Http) = 3
    <2>1. r.method # "http" /\ SP # "http"
      BY RequestParts, Strange DEF Keyword, SP
    <2>2. \A k \in 1 .. 3 - 1 : t[k] # ht[1]
      <3>1. \A k \in 1 .. 3 - 1 : k = 1 \/ k = 2
        OBVIOUS
      <3>. QED
        BY <1>5, <1>7, <2>1, <3>1
    <2>3. Strstr(t, ht) = 3
      BY <1>7, <1>14, <2>2, StrstrIs
    <2>. QED
      BY <1>p, <2>3
  <1>17. PICK n : n = 7 + Len(r.host)
    OBVIOUS
  <1>18. StandsAt(t, 7, au)
    <2>1. PICK l : l = Len(ht)
      OBVIOUS
    <2>2. 3 + l = 7
      BY <1>7, <2>1
    <2>3. StandsAt(t, 3 + l, au)
      BY <1>14, <2>1, Zenon
    <2>. QED
      BY <2>2, <2>3
  <1>19. Addressed(r, t, 7, n) /\ 7 + Len(au) = IF r.port = NoPort THEN n ELSE n + 2
    <2>1. StandsAt(t, 7, Authority(r))
      BY <1>8, <1>18, Zenon
    <2>2. PICK i : i = 7
      OBVIOUS
    <2>3. StandsAt(t, i, Authority(r)) /\ n = i + Len(r.host)
      BY <1>17, <2>1, <2>2, Zenon
    <2>4. Addressed(r, t, i, n) /\ i + Len(Authority(r)) = IF r.port = NoPort THEN n ELSE n + 2
      BY <2>3, AddressStands, Zenon
    <2>. QED
      BY <1>8, <2>2, <2>4, Zenon
  <1>20. /\ n \in Nat /\ 7 < n /\ \A k \in 7 .. n - 1 : t[k] \in Name
         /\ r.port # NoPort => t[n] = ":" /\ t[n + 1] = r.port
    BY <1>19 DEF Addressed
  <1>21. PICK q : q = IF r.port = NoPort THEN n ELSE n + 2
    OBVIOUS
  <1>22. q \in Nat /\ 7 < q /\ 3 + Len(x) = q /\ v = q + Len(pa) /\ Len(pa) \in Nat
    <2>1. 7 + Len(au) = q /\ q \in Nat /\ 7 < q
      BY <1>19, <1>20, <1>21
    <2>2. PICK l \in Nat : l = Len(au)
      OBVIOUS
    <2>3. PICK m \in Nat : m = Len(pa)
      OBVIOUS
    <2>4. Len(x) = 4 + l /\ v = 3 + (Len(x) + m) /\ q = 7 + l
      BY <1>4, <1>7, <1>12, <1>13, <1>14, <2>1, <2>2, <2>3, Zenon
    <2>5. 3 + Len(x) = q /\ v = q + m
      BY <2>4
    <2>. QED
      BY <2>1, <2>3, <2>5
  <1>23. \A k \in 7 .. q - 1 : t[k] # "/"
    <2>1. ASSUME NEW k \in 7 .. q - 1 PROVE t[k] # "/"
      <3>1. k \in 7 .. n - 1 \/ (r.port # NoPort /\ (k = n \/ k = n + 1))
        BY <1>20, <1>21
      <3>2. \A y \in Name : y # "/"
        BY Strange DEF Sign
      <3>3. r.port # NoPort => r.port \in Name
        BY AuthorityIs DEF Name
      <3>. QED
        BY <1>20, <3>1, <3>2, <3>3
    <2>. QED
      BY <2>1
  <1>24. t[q - 1] = IF r.port = NoPort THEN Last(r.host) ELSE r.port
    <2>1. CASE r.port = NoPort
      <3>1. PICK host \in Seq(Char) : host = r.host /\ Len(host) \in Nat \ {0}
        BY RequestParts, CharParts, SeqWiden
      <3>2. StandsAt(t, 7, host)
        BY <1>19, <3>1 DEF Addressed
      <3>3. PICK m \in Nat \ {0} : m = Len(host)
        BY <3>1
      <3>4. q - 1 = 7 + m - 1 /\ m \in 1 .. m
        BY <1>17, <1>21, <2>1, <3>1, <3>3
      <3>5. t[7 + m - 1] = host[m]
        BY <3>2, <3>3 DEF StandsAt
      <3>. QED
        BY <2>1, <3>1, <3>3, <3>4, <3>5 DEF Last
    <2>2. CASE r.port # NoPort
      BY <1>20, <1>21, <2>2
    <2>. QED
      BY <2>1, <2>2
  <1>25. /\ r.path = <<>> => q = v
         /\ r.path # <<>> => q < v /\ t[q] = "/"
    <2>1. CASE pa = <<>>
      BY <1>9, <1>22, <2>1
    <2>2. CASE pa # <<>>
      <3>1. Len(pa) \in Nat \ {0} /\ pa[1] = "/"
        BY <1>9, <2>2, RequestParts, PathIs
      <3>2. q < v /\ q + 1 - 1 = q
        BY <1>22, <3>1
      <3>3. StandsAt(t, q, pa)
        BY <1>13, <1>22, Zenon
      <3>4. t[q + 1 - 1] = pa[1]
        <4>1. 1 \in 1 .. Len(pa)
          BY <3>1
        <4>. QED
          BY <3>3, <4>1 DEF StandsAt
      <3>. QED
        BY <1>9, <2>2, <3>1, <3>2, <3>4
    <2>. QED
      BY <2>1, <2>2
  <1>26. PICK hd \in Seq(Char) : hd = <<r.method, SP>>
    BY PartTypes
  <1>h. Len(hd) = 2
    <2>1. PICK s : s = <<r.method, SP>>
      OBVIOUS
    <2>2. Len(s) = 2
      BY <2>1
    <2>. QED
      BY <1>26, <2>1, <2>2
  <1>27. PICK be \in Seq(Char) : be = Behind(r)
    BY TextParted
  <1>28. t = (hd \o pl) \o be /\ Len(be) # 0
    <2>1. t = (hd \o pl) \o be
      BY <1>1, <1>12, <1>26, <1>27, Zenon DEF Text
    <2>2. PICK y \in Seq(Char) : y = hd \o pl
      BY ConcatProperties
    <2>3. Len(y) = Len(hd) + Len(pl) /\ Len(t) = Len(y) + Len(be)
      BY <2>1, <2>2, ConcatProperties, Zenon
    <2>4. PICK m \in Nat : m = Len(pl)
      OBVIOUS
    <2>5. Len(y) = 2 + m /\ v = 3 + m
      BY <1>4, <1>12, <1>h, <2>3, <2>4, Zenon
    <2>6. Len(be) # 0
      BY <1>6, <2>3, <2>5
    <2>. QED
      BY <2>1, <2>6
  <1>29. SubSeq(t, v, Len(t)) = be
    <2>1. PICK y \in Seq(Char) : y = hd \o pl
      BY ConcatProperties
    <2>2. Len(y) = Len(hd) + Len(pl)
      BY <2>1, ConcatProperties, Zenon
    <2>4. PICK m \in Nat : m = Len(pl)
      OBVIOUS
    <2>5. Len(y) = 2 + m /\ v = 3 + m
      BY <1>4, <1>12, <1>h, <2>2, <2>4, Zenon
    <2>6. v = 1 + Len(y)
      BY <2>5
    <2>7. t = y \o be
      BY <1>28, <2>1, Zenon
    <2>. QED
      BY <1>28, <2>6, <2>7, EndOf
  <1>30. SubSeq(t, q, Len(t)) = pa \o be
    <2>1. PICK y \in Seq(Char) : y = hd \o x
      BY ConcatProperties
    <2>2. PICK u \in Seq(Char) : u = pa \o be
      BY ConcatProperties
    <2>3. hd \o pl = y \o pa
      <3>1. InThree(Char, hd, x, pa, y, pl)
        BY <1>11, <2>1 DEF InThree
      <3>2. Joined(y, pa, hd, pl)
        BY <3>1, Regrouped
      <3>. QED
        BY <3>2, Zenon DEF Joined
    <2>4. t = y \o u
      <3>a. PICK yp : yp = y \o pa
        OBVIOUS
      <3>b. InThree(Char, y, pa, be, yp, u)
        BY <2>1, <2>2, <3>a DEF InThree
      <3>c. Joined(yp, be, y, u)
        BY <3>b, Regrouped
      <3>1. (y \o pa) \o be = y \o u
        BY <3>a, <3>c, Zenon DEF Joined
      <3>. QED
        BY <1>28, <2>3, <3>1, Zenon
    <2>5. Len(y) = Len(hd) + Len(x) /\ Len(u) = Len(pa) + Len(be)
      BY <2>1, <2>2, ConcatProperties, Zenon
    <2>6. PICK m \in Nat : m = Len(x)
      OBVIOUS
    <2>a. Len(y) = 2 + m /\ 3 + m = q
      BY <1>22, <1>h, <2>5, <2>6, Zenon
    <2>b. q = 1 + Len(y)
      BY <2>a
    <2>c. Len(u) # 0
      BY <1>22, <1>28, <2>5
    <2>7. SubSeq(t, q, Len(t)) = u
      BY <2>4, <2>b, <2>c, EndOf
    <2>. QED
      BY <2>2, <2>7
  <1>31. SubSeq(t, 1, 2) = <<r.method, SP>>
    <2>1. StandsAt(t, 1, hd) /\ 2 = 1 + Len(hd) - 1 /\ Len(hd) # 0
      BY <1>4, <1>26, <1>h
    <2>2. SubSeq(t, 1, 2) = hd
      BY <1>h, <2>1, FirstTwo
    <2>. QED
      BY <1>26, <2>2
  <1>32. v + 3 <= Len(t) /\ q <= v
    BY <1>2, <1>4, <1>6, <1>22
  <1>33. AddressText(r, t, v, q)
    <2>1. /\ q \in Nat /\ 7 < q /\ q <= v /\ v \in Nat /\ v + 3 <= Len(t)
          /\ SubSeq(t, 1, 2) = <<r.method, SP>> /\ t[1] = r.method /\ t[2] = SP
      BY <1>4, <1>5, <1>22, <1>31, <1>32, Zenon
    <2>2. /\ SubSeq(t, v, Len(t)) = Behind(r)
          /\ SubSeq(t, q, Len(t)) = r.path \o Behind(r)
      BY <1>9, <1>27, <1>29, <1>30, Zenon
    <2>3. t[v] = SP /\ t[v + 1] = "HTTP" /\ t[v + 2] = "/"
      BY <1>6, Zenon
    <2>. QED
      BY <1>15, <1>16, <1>23, <1>24, <1>25, <2>1, <2>2, <2>3, ZenonT(60) DEF AddressText
  <1>. QED
    BY <1>1, <1>33, Zenon

(* The version is found behind the address: at its place if there is no    *)
(* path, and behind where a path begins.                                   *)
LEMMA VersionFound ==
  ASSUME NEW r \in Request, ~ Odd(r), NEW t \in Seq(Char), NEW v, NEW q, AddressText(r, t, v, q)
  PROVE  /\ Strstr(t, <<"HTTP", "/">>) \in Nat
         /\ IF r.path = <<>> THEN Strstr(t, <<"HTTP", "/">>) = v + 1
            ELSE q < Strstr(t, <<"HTTP", "/">>)
  <1>1. /\ q \in Nat /\ 7 < q /\ q <= v /\ v \in Nat /\ v + 3 <= Len(t)
        /\ t[2] = SP /\ t[3] = "http" /\ t[4] = ":" /\ t[5] = "/" /\ t[6] = "/"
        /\ \A k \in 7 .. q - 1 : t[k] # "/"
        /\ t[q - 1] = IF r.port = NoPort THEN Last(r.host) ELSE r.port
        /\ r.path = <<>> => q = v
        /\ r.path # <<>> => q < v /\ t[q] = "/"
        /\ t[v] = SP /\ t[v + 1] = "HTTP" /\ t[v + 2] = "/"
    BY DEF AddressText
  <1>2. PICK h \in Char : h = "HTTP"
    BY CharParts
  <1>3. PICK s \in Char : s = "/"
    BY CharParts
  <1>4. PICK w : w = <<h, s>>
    OBVIOUS
  <1>5. w = <<h, s>> /\ Len(w) = 2 /\ Len(w) # 0 /\ w[1] = h /\ w[2] = s /\ w \in Seq(Char)
    BY <1>4
  <1>6. StandsAt(t, v + 1, w)
    <2>1. \A k \in 1 .. 2 : \/ k = 1 /\ (v + 1) + k - 1 = v + 1
                            \/ k = 2 /\ (v + 1) + k - 1 = v + 2
      BY <1>1
    <2>2. v + 1 \in Nat \ {0} /\ (v + 1) + 2 <= Len(t) + 1
      BY <1>1
    <2>. QED
      BY <1>1, <1>2, <1>3, <1>5, <2>1, <2>2 DEF StandsAt
  <1>7. r.path # <<>> => t[q - 1] # "HTTP"
    <2>1. ASSUME r.path # <<>> PROVE t[q - 1] # "HTTP"
      <3>1. r.port = NoPort => Last(r.host) # "HTTP"
        BY <2>1 DEF Odd
      <3>2. r.port # NoPort => r.port # "HTTP"
        BY AuthorityIs, Strange DEF Keyword
      <3>. QED
        BY <1>1, <3>1, <3>2
    <2>. QED
      BY <2>1
  <1>8. ASSUME NEW k \in 1 .. q, StandsAt(t, k, w) PROVE FALSE
    <2>1. t[k] = "HTTP" /\ t[k + 1] = "/"
      <3>1. StandsAt(t, k, <<h, s>>)
        BY <1>4, <1>8
      <3>. QED
        BY <1>2, <1>3, <3>1, StandTwo
    <2>2. \/ k = 1 \/ k = 2 \/ k = 3 \/ k = 4 \/ k = 5 \/ k = 6
          \/ k + 1 \in 7 .. q - 1 \/ k = q - 1 \/ k = q
      BY <1>1
    <2>3. SP # "HTTP" /\ SP # "/"
      BY DEF SP
    <2>4. k # q - 1 \/ r.path = <<>>
      BY <1>7, <2>1
    <2>5. ASSUME k = q - 1 PROVE FALSE
      <3>1. r.path = <<>> /\ q = v
        BY <1>1, <2>4, <2>5
      <3>2. k + 1 = v
        BY <1>1, <2>5, <3>1
      <3>. QED
        BY <1>1, <2>1, <2>3, <3>2
    <2>6. ASSUME k = q PROVE FALSE
      <3>1. t[q] = SP \/ t[q] = "/"
        BY <1>1
      <3>. QED
        BY <2>1, <2>3, <2>6, <3>1
    <2>7. CASE k = 1 \/ k = 2 \/ k = 3 \/ k = 4 \/ k = 5 \/ k = 6
      <3>1. k + 1 = 2 \/ k = 2 \/ k = 3 \/ k = 4 \/ k = 5 \/ k = 6
        BY <2>7
      <3>. QED
        BY <1>1, <2>1, <2>3, <3>1
    <2>. QED
      BY <1>1, <2>1, <2>2, <2>5, <2>6, <2>7
  <1>9. /\ Strstr(t, w) \in Nat /\ q < Strstr(t, w)
        /\ v + 1 = q + 1 => Strstr(t, w) = v + 1
    BY <1>1, <1>5, <1>6, <1>8, StrstrFirst
  <1>10. r.path = <<>> => v + 1 = q + 1
    BY <1>1
  <1>. QED
    BY <1>2, <1>3, <1>4, <1>9, <1>10

(* rewrite_header() does to the text what ToOrigin does to the request.    *)
LEMMA Rewritten ==
  ASSUME NEW r \in Request, r.method # "CONNECT",
         IF r.form = "absolute" THEN ~ Odd(r) ELSE Strstr(Text(r), Http) = 0
  PROVE  RewriteHeader(Text(r)) = Text(ToOrigin(r))
  <1>1. PICK t \in Seq(Char) : t = Text(r)
    BY TextParted
  <1>2. Len(t) \in Nat
    OBVIOUS
  <1>3. PICK hd \in Seq(Char) : hd = <<r.method, SP>>
    BY PartTypes
  <1>4. PICK be \in Seq(Char) : be = Behind(r)
    BY TextParted
  <1>5. PICK pa \in Seq(Char) : pa = r.path
    BY PartTypes
  <1>6. CASE r.form = "absolute"
    <2>1. PICK v, q : AddressText(r, t, v, q)
      BY <1>1, <1>6, AddressFound
    <2>2. q \in Nat /\ v \in Nat /\ q <= v /\ v + 3 <= Len(t) /\ 7 < q
      BY <2>1 DEF AddressText
    <2>3. /\ SubSeq(t, 1, 2) = hd /\ Strstr(t, Http) = 3
          /\ SubSeq(t, v, Len(t)) = be /\ SubSeq(t, q, Len(t)) = pa \o be
          /\ pa = <<>> => q = v
          /\ pa # <<>> => q < v /\ t[q] = "/"
          /\ \A k \in 7 .. q - 1 : t[k] # "/"
          /\ t[v] = SP /\ t[v + 1] = "HTTP" /\ t[v + 2] = "/"
      BY <1>3, <1>4, <1>5, <2>1, Zenon DEF AddressText
    <2>v. PICK n : n = Strstr(t, <<"HTTP", "/">>)
      OBVIOUS
    <2>w. n \in Nat /\ (pa = <<>> => n = v + 1) /\ (pa # <<>> => q < n)
      BY <1>5, <1>6, <2>1, <2>v, VersionFound
    <2>4. 3 + 4 = 7 /\ 3 - 1 = 2 /\ 3 # 0 /\ (v + 1) - 1 = v
      BY <2>2
    <2>5. CASE pa # <<>>
      <3>1. Strchr(t, "/", 7) = q
        <4>1. 7 \in Nat \ {0} /\ q \in 7 .. Len(t)
          BY <1>2, <2>2
        <4>. QED
          BY <2>3, <2>5, <4>1, StrchrIs, SMTT(30)
      <3>2. PathSlash(q, n)
        BY <2>5, <2>w DEF PathSlash
      <3>3. RewriteHeader(t) = hd \o (pa \o be)
        BY <2>3, <2>4, <2>v, <3>1, <3>2, Zenon DEF RewriteHeader
      <3>4. Text(ToOrigin(r)) = (hd \o pa) \o be
        BY <1>3, <1>4, <1>5, <2>5, OriginIs, Zenon
      <3>5. (hd \o pa) \o be = hd \o (pa \o be)
        <4>2. PICK x, y : x = hd \o pa /\ y = pa \o be
          OBVIOUS
        <4>a. InThree(Char, hd, pa, be, x, y)
          BY <4>2 DEF InThree
        <4>3. x \o be = hd \o y
          BY <4>a, Regrouped DEF Joined
        <4>. QED
          BY <4>2, <4>3, Zenon
      <3>. QED
        BY <1>1, <3>3, <3>4, <3>5, Zenon
    <2>6. CASE pa = <<>>
      <3>1. Strchr(t, "/", 7) = v + 2
        <4>1. PICK j : j = v + 2
          OBVIOUS
        <4>2. 7 \in Nat \ {0} /\ j \in 7 .. Len(t)
          BY <1>2, <2>2, <4>1
        <4>3. \A k \in 7 .. j - 1 : k \in 7 .. v - 1 \/ k = v \/ k = v + 1
          BY <2>2, <4>1
        <4>4. \A k \in 7 .. j - 1 : t[k] # "/"
          BY <2>3, <2>6, <4>3 DEF SP
        <4>5. Strchr(t, "/", 7) = j
          BY <2>3, <4>1, <4>2, <4>4, StrchrIs
        <4>. QED
          BY <4>1, <4>5
      <3>2. ~ PathSlash(v + 2, n) /\ n = v + 1
        BY <2>2, <2>6, <2>w DEF PathSlash
      <3>3. RewriteHeader(t) = (hd \o <<"/">>) \o be
        BY <2>3, <2>4, <2>v, <3>1, <3>2, Zenon DEF RewriteHeader
      <3>4. Text(ToOrigin(r)) = (hd \o <<"/">>) \o be
        BY <1>3, <1>4, <1>5, <2>6, OriginIs, Zenon
      <3>. QED
        BY <1>1, <3>3, <3>4, Zenon
    <2>. QED
      BY <2>5, <2>6
  <1>7. CASE r.form # "absolute"
    <2>1. r.form = "origin" /\ pa # <<>>
      BY <1>5, <1>7, RequestParts
    <2>2. Strstr(t, Http) = 0
      BY <1>1, <1>7
    <2>3. RewriteHeader(t) = t
      BY <2>2 DEF RewriteHeader
    <2>4. t = (hd \o pa) \o be
      <3>1. Place(r) = pa
        BY <1>5, <2>1 DEF Place
      <3>. QED
        BY <1>1, <1>3, <1>4, <3>1, Zenon DEF Text
    <2>5. Text(ToOrigin(r)) = (hd \o pa) \o be
      BY <1>3, <1>4, <1>5, <2>1, OriginIs, Zenon
    <2>. QED
      BY <1>1, <2>3, <2>4, <2>5, Zenon
  <1>. QED
    BY <1>6, <1>7


-----------------------------------------------------------------------------
(* What is known of the request while its header is needed.                *)

Known ==
  /\ kind \in {"http", "tunnel", "relay"}
  /\ handler \in {"header", "connect", "fork_up", "fork_down", "done"}
  /\ handler = "header" => kind = "http"
  /\ (handler \in {"header", "connect", "fork_up"} /\ kind # "relay") => request \in Request
  /\ (handler \in {"connect", "fork_up"} /\ kind # "relay") =>
       (kind = "tunnel" <=> IsTunnel(Text(request)))
  /\ (handler = "connect" /\ kind # "relay") => target = ExtractHost(Text(request))

LEMMA KnownAtFirst == Init => Known
  BY RequestAssumption DEF Init, Known

LEMMA KnownFrame ==
  ASSUME Known, UNCHANGED <<kind, request, target, handler>>
  PROVE  Known'
  BY DEF Known

LEMMA KnownStep ==
  ASSUME Known, [Next]_vars
  PROVE  Known'
  <1>1. CASE ReadHeader
    <2>1. handler = "header" /\ kind = "http" /\ request \in Request
      BY <1>1 DEF ReadHeader, Known
    <2>2. /\ handler' \in {"header", "connect", "done"} /\ kind' \in {"http", "tunnel"}
          /\ handler' = "header" => kind' = "http"
          /\ handler' = "connect" => kind' = IF IsTunnel(Text(request)) THEN "tunnel" ELSE "http"
      BY <1>1, <2>1 DEF ReadHeader
    <2>3. /\ handler' = "connect" => target' = ExtractHost(Text(request))
          /\ handler' # "done" => request' = request
      BY <1>1 DEF ReadHeader
    <2>4. handler' # "done" => Text(request') = Text(request)
      BY <2>3
    <2>5. handler' = "connect" => (kind' = "tunnel" <=> IsTunnel(Text(request')))
      BY <2>2, <2>4
    <2>. QED
      BY <2>1, <2>2, <2>3, <2>5 DEF Known
  <1>2. CASE CreateConnection
    <2>1. /\ handler = "connect" /\ handler' \in {"fork_up", "done"} /\ kind' = kind
          /\ handler' = "fork_up" => request' = request
      BY <1>2 DEF CreateConnection
    <2>. QED
      BY <2>1 DEF Known
  <1>3. CASE ForkUp
    <2>1. handler' = "fork_down" /\ kind' = kind
      BY <1>3 DEF ForkUp
    <2>. QED
      BY <2>1 DEF Known
  <1>4. CASE ForkDown
    <2>1. handler' = "done" /\ kind' = kind
      BY <1>4 DEF ForkDown
    <2>. QED
      BY <2>1 DEF Known
  <1>5. CASE \E p \in Forwarder : Forward(p)
    <2>1. UNCHANGED <<kind, request, target, handler>>
      BY <1>5 DEF Forward, Recv, Send, ShutDst, ShutSrc, ask
    <2>. QED
      BY <2>1, KnownFrame
  <1>6. CASE \E s \in Sock : Peer(s)
    <2>1. UNCHANGED <<kind, request, target, handler>>
      BY <1>6 DEF Peer, PeerSends, PeerReads, PeerHalfCloses, PeerCloses, ResetReturns, ask, procs
    <2>. QED
      BY <2>1, KnownFrame
  <1>7. CASE UNCHANGED vars
    <2>1. UNCHANGED <<kind, request, target, handler>>
      BY <1>7 DEF vars, ask, procs
    <2>. QED
      BY <2>1, KnownFrame
  <1>. QED
    BY <1>1, <1>2, <1>3, <1>4, <1>5, <1>6, <1>7 DEF Next, Handler

LEMMA KnownAlways == Spec => []Known
  <1>1. Known /\ [Next]_vars => Known'
    BY KnownStep
  <1>. QED
    BY <1>1, KnownAtFirst, PTL DEF Spec

(* Whatever the client asks for, whatever words its host and path and its  *)
(* other lines hold, a connection is made to the host and port it means,   *)
(* as long as nothing in the header is taken for a CONNECT or for the Host *)
(* line that is none (extract_host(), proxyme.c:56-91).                    *)
THEOREM TargetsRight == Spec => []TargetRight
  <1>1. Known => TargetRight
    <2>. SUFFICES ASSUME Known, handler = "connect", kind # "relay", Regular(request)
                  PROVE  target = Target(request)
      BY DEF TargetRight
    <2>1. request \in Request /\ target = ExtractHost(Text(request))
      BY DEF Known
    <2>. QED
      BY <2>1, TargetFound
  <1>. QED
    BY <1>1, KnownAlways, PTL

(* Whatever the request, the header that is forwarded is the client's with *)
(* the path in place of the address and the rest as it was, but for a host *)
(* that ends in HTTP (rewrite_header(), proxyme.c:111-127).                *)
THEOREM HeadersRewritten == Spec => []HeaderRewritten
  <1>1. Known => HeaderRewritten
    <2>. SUFFICES ASSUME Known, handler = "fork_up", kind = "http",
                         IF request.form = "absolute" THEN ~ Odd(request)
                         ELSE Strstr(Text(request), Http) = 0
                  PROVE  RewriteHeader(Text(request)) = Text(ToOrigin(request))
      BY DEF HeaderRewritten
    <2>1. request \in Request /\ ~ IsTunnel(Text(request))
      BY DEF Known
    <2>2. request.method # "CONNECT"
      BY <2>1, TunnelSeen
    <2>. QED
      BY <2>1, <2>2, Rewritten
  <1>. QED
    BY <1>1, KnownAlways, PTL

-----------------------------------------------------------------------------
(* The server: it forgets no zombie and closes every descriptor.  Both     *)
(* rest on what the loop knows of the connections it has not forked a      *)
(* handler for yet.                                                        *)

(* Connections in the backlog wait there once and are not in the loop, and *)
(* like the one about to be forked for they have had no handler.           *)
Unhandled ==
  /\ \A i \in 1 .. Len(backlog) :
       child[backlog[i]] = "none" /\ backlog[i] # client_sock
  /\ \A i, j \in 1 .. Len(backlog) : backlog[i] = backlog[j] => i = j
  /\ loop = "fork" => child[client_sock] = "none"

(* The inductive invariant.                                                *)
ServerInv == ServerTypeOK /\ Unhandled /\ OwnedByHandler /\ NoForgottenZombie

USE ClientAssumption

(* The server starts with no client.                                       *)
LEMMA ServerStarts == ServerInit => ServerInv
  <1>. SUFFICES ASSUME ServerInit PROVE ServerInv
    OBVIOUS
  <1>. USE DEF ServerInit
  <1>1. ServerTypeOK
    <2>1. holders \in [Round -> SUBSET {"server", "handler"}]
      OBVIOUS
    <2>2. backlog \in Seq(Client)
      OBVIOUS
    <2>. QED
      BY <2>1, <2>2 DEF ServerTypeOK
  <1>2. Unhandled
    BY DEF Unhandled
  <1>3. OwnedByHandler /\ NoForgottenZombie
    BY DEF Round, OwnedByHandler, NoForgottenZombie, Zombies
  <1>. QED
    BY <1>1, <1>2, <1>3 DEF ServerInv

(* accept() takes the first connection of the backlog and leaves the rest. *)
LEMMA HeadOfBacklog ==
  ASSUME ServerInv, Accept
  PROVE  /\ backlog' \in Seq(Client) /\ Len(backlog') = Len(backlog) - 1
         /\ client_sock' = backlog[1] /\ client_sock' \in Client
         /\ 1 \in 1 .. Len(backlog)
         /\ \A i \in 1 .. Len(backlog') :
              backlog'[i] = backlog[i + 1] /\ i + 1 \in 1 .. Len(backlog)
  <1>1. backlog \in Seq(Client) /\ backlog # <<>> /\ Len(backlog) \in Nat \ {0}
    BY DEF ServerInv, ServerTypeOK, Accept
  <1>2. backlog' = Tail(backlog) /\ client_sock' = Head(backlog)
    BY DEF Accept
  <1>. QED
    BY <1>1, <1>2

(* Every step keeps the types.                                             *)
LEMMA ServerTypeStep == ServerInv /\ [ServerNext]_serverVars => ServerTypeOK'
  <1>. SUFFICES ASSUME ServerInv, [ServerNext]_serverVars PROVE ServerTypeOK'
    OBVIOUS
  <1>. USE DEF ServerInv, ServerTypeOK
  <1>1. CASE Accept
    <2>1. client_sock' \in Client /\ client_sock' = Head(backlog) /\ backlog' \in Seq(Client)
      BY <1>1, HeadOfBacklog DEF Accept
    <2>. QED
      BY <1>1, <2>1 DEF Accept, Round
  <1>2. CASE Fork
    <2>1. client_sock \in Round
      BY <1>2 DEF Fork
    <2>2. child' \in [Round -> {"none", "running", "failed", "zombie", "reaped"}]
      BY <1>2, <2>1 DEF Fork
    <2>3. holders' \in [Round -> SUBSET {"server", "handler"}]
      BY <1>2, <2>1 DEF Fork, Duplicated
    <2>. QED
      BY <1>2, <2>1, <2>2, <2>3 DEF Fork, AfterFork
  <1>3. CASE Close
    BY <1>3 DEF Close, ClosedBy
  <1>4. CASE SigchldHandler
    BY <1>4 DEF SigchldHandler
  <1>5. CASE WaitPid
    BY <1>5 DEF WaitPid, Again, Zombies
  <1>6. CASE Sigterm
    <2>1. child' \in [Round -> {"none", "running", "failed", "zombie", "reaped"}]
      BY <1>6 DEF Sigterm
    <2>2. holders' \in [Round -> SUBSET {"server", "handler"}]
      BY <1>6 DEF Sigterm
    <2>3. backlog' \in Seq(Client)
      BY <1>6 DEF Sigterm
    <2>. QED
      BY <1>6, <2>1, <2>2, <2>3 DEF Sigterm
  <1>7. ASSUME NEW c \in Round, HandlerEnds(c) PROVE ServerTypeOK'
    BY <1>7 DEF HandlerEnds
  <1>8. ASSUME NEW c \in Client, Connect(c) PROVE ServerTypeOK'
    BY <1>8 DEF Connect
  <1>10. CASE AcceptFails
    BY <1>10 DEF AcceptFails, Round, Looping
  <1>9. CASE UNCHANGED serverVars
    BY <1>9 DEF serverVars
  <1>. QED
    BY <1>1, <1>2, <1>3, <1>4, <1>5, <1>6, <1>7, <1>8, <1>9, <1>10
    DEF ServerNext, Server

(* Every step keeps apart the connections that have a handler.             *)
LEMMA UnhandledStep == ServerInv /\ [ServerNext]_serverVars => Unhandled'
  <1>. SUFFICES ASSUME ServerInv, [ServerNext]_serverVars PROVE Unhandled'
    OBVIOUS
  <1>. USE DEF ServerInv, ServerTypeOK, Unhandled
  <1>1. CASE Accept
    <2>1. child' = child /\ loop' = "fork"
      BY <1>1 DEF Accept
    <2>2. child[backlog[1]] = "none"
      BY <1>1, HeadOfBacklog
    <2>3. ASSUME NEW i \in 1 .. Len(backlog')
          PROVE  child[backlog'[i]] = "none" /\ backlog'[i] # backlog[1]
      <3>1. backlog'[i] = backlog[i + 1] /\ i + 1 \in 1 .. Len(backlog) /\ i + 1 # 1
        BY <1>1, HeadOfBacklog
      <3>. QED
        BY <1>1, <3>1, HeadOfBacklog
    <2>4. ASSUME NEW i \in 1 .. Len(backlog'), NEW j \in 1 .. Len(backlog'), backlog'[i] = backlog'[j]
          PROVE  i = j
      <3>1. /\ backlog'[i] = backlog[i + 1] /\ i + 1 \in 1 .. Len(backlog)
            /\ backlog'[j] = backlog[j + 1] /\ j + 1 \in 1 .. Len(backlog)
        BY <1>1, HeadOfBacklog
      <3>2. i + 1 = j + 1
        BY <2>4, <3>1
      <3>. QED
        BY <3>2
    <2>5. client_sock' = backlog[1]
      BY <1>1, HeadOfBacklog
    <2>. QED
      BY <2>1, <2>2, <2>3, <2>4, <2>5
  <1>2. CASE Fork
    <2>1. \A c \in Round \ {client_sock} : child'[c] = child[c]
      BY <1>2 DEF Fork
    <2>2. backlog' = backlog /\ client_sock' = client_sock /\ loop' = "close"
      BY <1>2 DEF Fork, AfterFork
    <2>3. \A i \in 1 .. Len(backlog) : backlog[i] \in Round
      BY DEF Round
    <2>. QED
      BY <2>1, <2>2, <2>3
  <1>3. CASE Close
    <2>1. \A i \in 1 .. Len(backlog) : backlog[i] # NoClient
      OBVIOUS
    <2>. QED
      BY <1>3, <2>1 DEF Close
  <1>4. CASE SigchldHandler
    BY <1>4 DEF SigchldHandler
  <1>5. CASE WaitPid
    <2>1. \A c \in Round : child[c] = "none" => child'[c] = "none"
      BY <1>5 DEF WaitPid, Zombies
    <2>. QED
      BY <1>5, <2>1 DEF WaitPid, Round
  <1>6. CASE Sigterm
    <2>1. \A c \in Round : child[c] = "none" => child'[c] = "none"
      BY <1>6 DEF Sigterm, Zombies
    <2>. QED
      <3>1. backlog' = <<>> /\ UNCHANGED <<loop, client_sock>>
        BY <1>6 DEF Sigterm
      <3>2. loop = "fork" => client_sock \in Round /\ child[client_sock] = "none"
        OBVIOUS
      <3>. QED
        BY <2>1, <3>1, <3>2
  <1>7. ASSUME NEW c \in Round, HandlerEnds(c) PROVE Unhandled'
    <2>1. \A d \in Round : child[d] = "none" => child'[d] = "none"
      BY <1>7 DEF HandlerEnds
    <2>. QED
      BY <1>7, <2>1 DEF HandlerEnds, Round
  <1>8. ASSUME NEW c \in Client, Connect(c) PROVE Unhandled'
    <2>1. /\ Len(backlog') = Len(backlog) + 1 /\ backlog'[Len(backlog')] = c
          /\ \A i \in 1 .. Len(backlog) : backlog'[i] = backlog[i] /\ backlog[i] # c
      BY <1>8 DEF Connect, Contains
    <2>2. UNCHANGED <<child, loop, client_sock>> /\ child[c] = "none" /\ c # client_sock
      BY <1>8 DEF Connect
    <2>. QED
      BY <2>1, <2>2
  <1>10. CASE AcceptFails
    BY <1>10 DEF AcceptFails, Round, Looping
  <1>9. CASE UNCHANGED serverVars
    BY <1>9 DEF serverVars
  <1>. QED
    BY <1>1, <1>2, <1>3, <1>4, <1>5, <1>6, <1>7, <1>8, <1>9, <1>10
    DEF ServerNext, Server

(* Every step opens and closes what it should.                             *)
LEMMA OwnedStep == ServerInv /\ [ServerNext]_serverVars => OwnedByHandler'
  <1>. SUFFICES ASSUME ServerInv, [ServerNext]_serverVars PROVE OwnedByHandler'
    OBVIOUS
  <1>. USE DEF ServerInv, ServerTypeOK, OwnedByHandler, Round
  <1>1. CASE Accept
    <2>1. child[client_sock'] = "none" /\ client_sock = NoClient
      BY <1>1, HeadOfBacklog DEF Unhandled, Accept
    <2>2. /\ holders' = [holders EXCEPT ![client_sock'] = {"server"}]
          /\ UNCHANGED <<alive, child>> /\ alive
      BY <1>1 DEF Accept, Looping
    <2>. QED
      BY <1>1, <2>1, <2>2, HeadOfBacklog
  <1>2. CASE Fork
    BY <1>2 DEF Fork, AfterFork, Duplicated, Unhandled, Looping
  <1>3. CASE Close
    BY <1>3 DEF Close, ClosedBy, Looping
  <1>4. CASE SigchldHandler
    BY <1>4 DEF SigchldHandler
  <1>5. CASE WaitPid
    BY <1>5 DEF WaitPid, Zombies
  <1>6. CASE Sigterm
    BY <1>6 DEF Sigterm, Zombies
  <1>7. ASSUME NEW c \in Round, HandlerEnds(c) PROVE OwnedByHandler'
    BY <1>7 DEF HandlerEnds
  <1>8. ASSUME NEW c \in Client, Connect(c) PROVE OwnedByHandler'
    BY <1>8 DEF Connect
  <1>10. CASE AcceptFails
    BY <1>10 DEF AcceptFails, Round, Looping
  <1>9. CASE UNCHANGED serverVars
    BY <1>9 DEF serverVars
  <1>. QED
    BY <1>1, <1>2, <1>3, <1>4, <1>5, <1>6, <1>7, <1>8, <1>9, <1>10
    DEF ServerNext, Server

(* No step forgets a zombie: the signal handler ends only when waitpid()   *)
(* has found none, and whoever dies afterwards makes the signal pending.   *)
LEMMA ZombieStep == ServerInv /\ [ServerNext]_serverVars => NoForgottenZombie'
  <1>. SUFFICES ASSUME ServerInv, [ServerNext]_serverVars PROVE NoForgottenZombie'
    OBVIOUS
  <1>. USE DEF ServerInv, ServerTypeOK, NoForgottenZombie, Zombies
  <1>1. CASE Accept
    BY <1>1 DEF Accept
  <1>2. CASE Fork
    BY <1>2 DEF Fork
  <1>3. CASE Close
    BY <1>3 DEF Close
  <1>4. CASE SigchldHandler
    BY <1>4 DEF SigchldHandler
  <1>5. CASE WaitPid
    BY <1>5 DEF WaitPid, Again, NoneToReap
  <1>6. CASE Sigterm
    BY <1>6 DEF Sigterm
  <1>7. ASSUME NEW c \in Round, HandlerEnds(c) PROVE NoForgottenZombie'
    BY <1>7 DEF HandlerEnds
  <1>8. ASSUME NEW c \in Client, Connect(c) PROVE NoForgottenZombie'
    BY <1>8 DEF Connect
  <1>10. CASE AcceptFails
    BY <1>10 DEF AcceptFails, Round, Looping
  <1>9. CASE UNCHANGED serverVars
    BY <1>9 DEF serverVars
  <1>. QED
    BY <1>1, <1>2, <1>3, <1>4, <1>5, <1>6, <1>7, <1>8, <1>9, <1>10
    DEF ServerNext, Server

-----------------------------------------------------------------------------
(* Theorems.                                                               *)

(* The inductive invariant holds throughout.                               *)
THEOREM ServerInvariance == ServerSpec => []ServerInv
  <1>1. ServerInv /\ [ServerNext]_serverVars => ServerInv'
    BY ServerTypeStep, UnhandledStep, OwnedStep, ZombieStep DEF ServerInv
  <1>. QED
    BY ServerStarts, <1>1, PTL DEF ServerSpec

(* The state is well-typed: in particular the loop always knows which      *)
(* connection it holds.                                                    *)
THEOREM ServerTyped == ServerSpec => []ServerTypeOK
  <1>1. ServerInv => ServerTypeOK
    BY DEF ServerInv
  <1>. QED
    BY ServerInvariance, <1>1, PTL

(* A zombie is always still to be reaped, however SIGCHLDs are merged and  *)
(* whenever they are delivered (proxyme.c:259-262).                        *)
THEOREM ZombiesReaped == ServerSpec => []NoForgottenZombie
  <1>1. ServerInv => NoForgottenZombie
    BY DEF ServerInv
  <1>. QED
    BY ServerInvariance, <1>1, PTL

(* The server has a connection open only while the loop is at it, and a    *)
(* handler as long as it runs (proxyme.c:227-236).                         *)
THEOREM DescriptorsOwned == ServerSpec => []OwnedByHandler
  <1>1. ServerInv => OwnedByHandler
    BY DEF ServerInv
  <1>. QED
    BY ServerInvariance, <1>1, PTL
=============================================================================
