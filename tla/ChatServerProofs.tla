-------------------------- MODULE ChatServerProofs --------------------------
(***************************************************************************)
(* Proofs about ChatServer, for any number of connections, descriptors,    *)
(* segments and messages.                                                  *)
(***************************************************************************)
EXTENDS ChatServer, FiniteSetTheorems, SequenceLemmas

(* Connections that wait to be accepted have no descriptor yet, are there  *)
(* once, and are neither new nor over; accepted ones are not over either.  *)
BacklogOK ==
  /\ \A i \in 1 .. Len(backlog) :
       fdOf[backlog[i]] = 0 /\ link[backlog[i]] \notin {"idle", "gone"}
  /\ \A i, j \in 1 .. Len(backlog) : backlog[i] = backlog[j] => i = j
AcceptedOK == \A c \in Conn : fdOf[c] # 0 => link[c] \notin {"idle", "gone"}

(* The inductive invariant.                                                *)
IInv ==
  /\ TypeOK
  /\ ListMatchesSockets
  /\ BatchIsLive
  /\ BacklogOK
  /\ AcceptedOK
  /\ ExitHasCause

-----------------------------------------------------------------------------
(* Lemmas.                                                                 *)

(* A position in a stream, counted in messages, is a natural number.       *)
LEMMA DivNat ==
  ASSUME NEW a \in Nat, NEW b \in Nat \ {0}
  PROVE  a \div b \in Nat
  BY SMT

(* The text of a message is named by its number in the stream.             *)
LEMMA TextType ==
  ASSUME TypeOK, NEW c \in Conn
  PROVE  TextIn(c) \in Nat
  <1>1. rcvd[c] \in Nat /\ BufSegments \in Nat \ {0}
    BY BufAssumption DEF TypeOK
  <1>2. rcvd[c] \div BufSegments \in Nat
    BY <1>1, DivNat
  <1>. QED
    BY <1>2 DEF TextIn

(* What recv() returns is bounded by what has arrived.                     *)
LEMMA RecvBounds ==
  ASSUME TypeOK, NEW c \in Conn
  PROVE  /\ RecvLength(c) \in Nat
         /\ rcvd[c] + RecvLength(c) <= sent[c]
         /\ RecvLength(c) = 0 <=> rcvd[c] = sent[c]
  BY BufAssumption DEF TypeOK, RecvLength, Arrived

(* A send() that succeeds keeps the types, leaves alone the clients it is  *)
(* not made to, and turns no connection over.                              *)
LEMMA DeliverEffect ==
  ASSUME TypeOK, NEW T \in SUBSET Conn, NEW line \in Line,
         \A c \in T : CanSend(c), Deliver(T, line)
  PROVE  /\ lines' \in [Conn -> Seq(Line)]
         /\ unread' \in [Conn -> 0 .. SendRoom]
         /\ link' \in [Conn -> LinkState]
         /\ \A c \in Conn : link[c] # "fin" => link'[c] = link[c]
         /\ \A c \in Conn : link[c] = "fin" => link'[c] \in {"fin", "bounce"}
         /\ \A c \in Conn \ T : unread'[c] = unread[c]
  <1>1. lines' \in [Conn -> Seq(Line)]
    BY DEF TypeOK, Deliver
  <1>2. unread' \in [Conn -> 0 .. SendRoom]
    <2>1. unread' = [c \in Conn |-> IF c \in T /\ link[c] = "up"
                                   THEN unread[c] + 1 ELSE unread[c]]
      BY DEF Deliver
    <2>2. ASSUME NEW c \in Conn PROVE unread'[c] \in 0 .. SendRoom
      <3>1. unread[c] \in 0 .. SendRoom /\ SendRoom \in Nat
        BY RoomAssumption DEF TypeOK
      <3>2. CASE c \in T /\ link[c] = "up"
        <4>1. unread[c] < SendRoom
          BY <3>2 DEF CanSend
        <4>. QED
          BY <2>1, <3>1, <3>2, <4>1
      <3>3. CASE ~ (c \in T /\ link[c] = "up")
        BY <2>1, <3>1, <3>3
      <3>. QED
        BY <3>2, <3>3
    <2>. QED
      BY <2>1, <2>2
  <1>3. link' \in [Conn -> LinkState]
    BY DEF TypeOK, Deliver, LinkState
  <1>. QED
    BY <1>1, <1>2, <1>3 DEF TypeOK, Deliver

(* An event of the batch for a client is about one accepted connection,    *)
(* and recv() on it returns data, the end of the stream or a reset.        *)
LEMMA EventOf ==
  ASSUME IInv, NEW c \in Conn, fdOf[c] \in events
  PROVE  /\ fdOf[c] \in ClientFd /\ fdOf[c] # 0 /\ fdOf[c] # Listener
         /\ link[c] \notin {"idle", "gone"}
         /\ Readable(c)
  <1>1. fdOf[c] \in ClientFd /\ fdOf[c] # 0 /\ fdOf[c] # Listener
    BY FdAssumption DEF IInv, TypeOK, ClientFd, Listener
  <1>2. PICK d \in Conn : fdOf[d] = fdOf[c] /\ Readable(d)
    BY <1>1 DEF IInv, BatchIsLive, Pending
  <1>3. d = c
    BY <1>1, <1>2 DEF IInv, ListMatchesSockets, InRoom
  <1>. QED
    BY <1>1, <1>2, <1>3 DEF IInv, AcceptedOK

(* The lines of an accepted connection's messages are lines.               *)
LEMMA LineTypes ==
  ASSUME TypeOK, NEW c \in Conn, fdOf[c] \in ClientFd
  PROVE  /\ SayLine(c) \in Line /\ CautionLine(c) \in Line
         /\ [SayLine(c) EXCEPT !.text = 0] \in Line
  BY TextType DEF SayLine, CautionLine, Line

(* When no send() of the loop fails, everybody behind it could be sent to. *)
LEMMA OthersCanSend ==
  ASSUME IInv, NEW fd, ~ SomeSendFails(Others(fd))
  PROVE  \A d \in Behind(Others(fd)) : CanSend(d)
  <1>1. SUFFICES ASSUME NEW d \in Conn,
                        NEW node \in Others(fd), node.fd = fdOf[d]
                 PROVE  CanSend(d)
    BY DEF Behind
  <1>2. PICK e \in Conn : fdOf[e] = node.fd /\ CanSend(e)
    BY DEF SomeSendFails
  <1>3. node.fd # 0
    <2>1. node \in Node
      BY DEF IInv, TypeOK, Others
    <2>2. node.fd \in ClientFd \cup {-1}
      BY <2>1 DEF Node
    <2>. QED
      BY <2>2, FdAssumption DEF ClientFd
  <1>4. d = e
    BY <1>1, <1>2, <1>3 DEF IInv, ListMatchesSockets, InRoom
  <1>. QED
    BY <1>2, <1>4

(* When one fails, its client reset the connection, answered with a reset, *)
(* or does not read.                                                       *)
LEMMA FailHasCause ==
  ASSUME IInv, running, NEW fd, SomeSendFails(Others(fd))
  PROVE  \E d \in Conn : /\ ~ CanSend(d)
                         /\ \/ link[d] \in {"reset", "broken"}
                            \/ unread[d] = SendRoom
  <1>1. PICK node \in Others(fd) : ~ \E d \in Conn : fdOf[d] = node.fd /\ CanSend(d)
    BY DEF SomeSendFails
  <1>2. PICK d \in InRoom : node = [conn |-> d, fd |-> fdOf[d]]
    BY DEF IInv, ListMatchesSockets, Others
  <1>3. d \in Conn /\ fdOf[d] # 0 /\ ~ CanSend(d)
    BY <1>1, <1>2 DEF InRoom
  <1>4. link[d] \in LinkState \ {"idle", "gone"} /\ unread[d] \in 0 .. SendRoom
    BY <1>3 DEF IInv, TypeOK, AcceptedOK
  <1>. QED
    BY <1>3, <1>4, RoomAssumption DEF CanSend, LinkState

-----------------------------------------------------------------------------
(* The effect of the steps on lines, unread and link: DeliverEffect for    *)
(* each handler, so that the proofs below need not look into it.           *)

Effect(T) ==
  /\ lines' \in [Conn -> Seq(Line)]
  /\ unread' \in [Conn -> 0 .. SendRoom]
  /\ link' \in [Conn -> LinkState]
  /\ \A c \in Conn : link[c] # "fin" => link'[c] = link[c]
  /\ \A c \in Conn : link[c] = "fin" => link'[c] \in {"fin", "bounce"}
  /\ \A c \in Conn \ T : unread'[c] = unread[c]

CanSendTo == {d \in Conn : CanSend(d)}

(* A broadcast only reaches connections that can be sent to, and what it   *)
(* writes has its types (utility.h:87-95).                                 *)
LEMMA BroadcastEffect ==
  ASSUME IInv, NEW c \in Conn, Broadcast(c)
  PROVE  Effect(CanSendTo)
  <1>1. SayLine(c) \in Line
    BY EventOf, LineTypes DEF Broadcast, IInv
  <1>2. CASE BroadcastAll(c)
    <2>1. Behind(Others(fdOf[c])) \subseteq CanSendTo
      BY <1>2, OthersCanSend DEF BroadcastAll, Behind, CanSendTo
    <2>2. Deliver(Behind(Others(fdOf[c])), SayLine(c))
      BY <1>2 DEF BroadcastAll
    <2>. QED
      BY <1>1, <2>1, <2>2, DeliverEffect DEF IInv, Effect, CanSendTo, Behind
  <1>3. CASE BroadcastPart(c)
    <2>1. PICK served \in SUBSET {d \in Behind(Others(fdOf[c])) : CanSend(d)} :
            Deliver(served, SayLine(c))
      BY <1>3 DEF BroadcastPart
    <2>2. served \subseteq CanSendTo
      BY <2>1 DEF Behind, CanSendTo
    <2>. QED
      BY <1>1, <2>1, <2>2, DeliverEffect DEF IInv, Effect, CanSendTo
  <1>. QED
    BY <1>2, <1>3 DEF Broadcast

(* So does the broadcast of an empty line that follows a failing recv().   *)
LEMMA RecvErrorEffect ==
  ASSUME IInv, NEW c \in Conn, RecvError(c)
  PROVE  Effect(CanSendTo)
  <1>1. [SayLine(c) EXCEPT !.text = 0] \in Line
    BY EventOf, LineTypes DEF RecvError, IInv
  <1>2. CASE Alone
    BY <1>2 DEF RecvError, IInv, TypeOK, Effect
  <1>3. CASE ~ Alone
    <2>1. PICK served \in SUBSET {d \in Behind(Others(fdOf[c])) : CanSend(d)} :
            Deliver(served, [SayLine(c) EXCEPT !.text = 0])
      BY <1>3 DEF RecvError
    <2>2. served \subseteq CanSendTo
      BY <2>1 DEF Behind, CanSendTo
    <2>. QED
      BY <1>1, <2>1, <2>2, DeliverEffect DEF IInv, Effect, CanSendTo
  <1>. QED
    BY <1>2, <1>3

(* A caution does the same, or is not sent; if it ends the process that    *)
(* is because its sender has left (utility.h:82-85).                       *)
LEMMA TellAloneEffect ==
  ASSUME IInv, NEW c \in Conn, TellAlone(c)
  PROVE  /\ Effect(CanSendTo) \/ /\ UNCHANGED <<lines, unread>>
                                 /\ link' = [link EXCEPT ![c] =
                                               IF @ = "reset" THEN "broken" ELSE @]
                                 /\ running' = (link[c] # "broken")
         /\ running' \in BOOLEAN
         /\ ~ running' => link'[c] = "broken"
  <1>1. CautionLine(c) \in Line
    BY EventOf, LineTypes DEF TellAlone, IInv
  <1>2. CASE CanSend(c) /\ Deliver({c}, CautionLine(c)) /\ running' = TRUE
    <2>1. {c} \in SUBSET Conn /\ \A d \in {c} : CanSend(d)
      BY <1>2
    <2>2. Deliver({c}, CautionLine(c)) /\ TypeOK
      BY <1>2 DEF IInv
    <2>3. Effect({c})
      BY <1>1, <2>1, <2>2, DeliverEffect DEF Effect
    <2>4. Effect(CanSendTo)
      BY <2>1, <2>3 DEF Effect, CanSendTo
    <2>. QED
      BY <1>2, <2>4
  <1>3. CASE ~ (CanSend(c) /\ Deliver({c}, CautionLine(c)) /\ running' = TRUE)
    BY <1>3 DEF TellAlone, IInv, TypeOK
  <1>. QED
    BY <1>2, <1>3

(* A new user gets a free descriptor and the first waiting connection,     *)
(* and is listed under both (server.cpp:58-76).                            *)
LEMMA AcceptEffect ==
  ASSUME IInv, Accept
  PROVE  \E c \in Conn, fd \in FreeFds :
           /\ backlog # <<>> /\ c = Head(backlog)
           /\ fdOf[c] = 0 /\ link[c] \notin {"idle", "gone"}
           /\ fdOf' = [fdOf EXCEPT ![c] = fd]
           /\ clients_list' = clients_list \cup {[conn |-> c, fd |-> fd]}
           /\ ready' = IF Readable(c) THEN ready \cup {fd} ELSE ready
           /\ running' = CanSend(c)
           /\ Effect(CanSendTo)
  <1>1. PICK fd \in FreeFds :
          /\ fdOf' = [fdOf EXCEPT ![Head(backlog)] = fd]
          /\ clients_list' = clients_list \cup {[conn |-> Head(backlog), fd |-> fd]}
          /\ ready' = IF Readable(Head(backlog)) THEN ready \cup {fd} ELSE ready
          /\ running' = CanSend(Head(backlog))
          /\ Deliver({Head(backlog)} \cap {d \in Conn : CanSend(d)},
                     WelcomeLine(Head(backlog), fd))
    BY DEF Accept
  <1>2. backlog # <<>> /\ backlog \in Seq(Conn)
    BY DEF Accept, IInv, TypeOK
  <1>3. Head(backlog) \in Conn /\ Head(backlog) = backlog[1] /\ 1 \in 1 .. Len(backlog)
    BY <1>2
  <1>4. fdOf[Head(backlog)] = 0 /\ link[Head(backlog)] \notin {"idle", "gone"}
    BY <1>3 DEF IInv, BacklogOK
  <1>5. WelcomeLine(Head(backlog), fd) \in Line
    BY <1>3 DEF WelcomeLine, Line, FreeFds
  <1>6. Effect({Head(backlog)} \cap {d \in Conn : CanSend(d)})
    BY <1>1, <1>5, DeliverEffect DEF IInv, Effect
  <1>7. Effect(CanSendTo)
    BY <1>6 DEF Effect, CanSendTo
  <1>. QED
    BY <1>1, <1>2, <1>3, <1>4, <1>7

-----------------------------------------------------------------------------
(* The invariant holds initially and is preserved by every step, one lemma *)
(* for each of its parts.                                                  *)

(* The invariant holds when the loop is entered.                           *)
LEMMA InitIInv == Init => IInv
  BY RoomAssumption, FdAssumption, BufAssumption
  DEF Init, IInv, TypeOK, ListMatchesSockets, BatchIsLive, BacklogOK, AcceptedOK,
      ExitHasCause, InRoom, LinkState

(* Every step keeps the types.                                             *)
LEMMA TypeStep == IInv /\ [Next]_vars => TypeOK'
  <1>. SUFFICES ASSUME IInv, [Next]_vars PROVE TypeOK'
    OBVIOUS
  <1>. USE DEF IInv
  <1>1. CASE EpollWait
    BY <1>1 DEF EpollWait, Harvest, TypeOK
  <1>2. CASE Accept
    <2>1. PICK c \in Conn, fd \in FreeFds :
            /\ backlog # <<>>
            /\ fdOf' = [fdOf EXCEPT ![c] = fd]
            /\ clients_list' = clients_list \cup {[conn |-> c, fd |-> fd]}
            /\ ready' = IF Readable(c) THEN ready \cup {fd} ELSE ready
            /\ running' = CanSend(c)
            /\ Effect(CanSendTo)
      BY <1>2, AcceptEffect
    <2>2. fd \in ClientFd
      BY DEF FreeFds
    <2>3. /\ events' = events \ {Listener} /\ backlog' = Tail(backlog)
          /\ UNCHANGED <<sent, rcvd>>
      BY <1>2 DEF Accept, Handled
    <2>4. backlog' \in Seq(Conn)
      BY <2>1, <2>3 DEF TypeOK
    <2>5. running' \in BOOLEAN
      BY <2>1 DEF CanSend
    <2>6. clients_list' \subseteq Node
      BY <2>1, <2>2 DEF TypeOK, Node
    <2>. QED
      BY <2>1, <2>2, <2>3, <2>4, <2>5, <2>6 DEF TypeOK, Effect
  <1>3. CASE AcceptFails
    <2>1. clients_list' \subseteq Node
      BY <1>3 DEF AcceptFails, TypeOK, Node
    <2>2. events' \subseteq ClientFd \cup {Listener} /\ running' \in BOOLEAN
      BY <1>3 DEF AcceptFails, Handled, TypeOK
    <2>. QED
      BY <1>3, <2>1, <2>2 DEF AcceptFails, TypeOK
  <1>4. ASSUME NEW c \in Conn, Disconnect(c) PROVE TypeOK'
    BY <1>4 DEF Disconnect, Handled, RemoveNode, TypeOK, LinkState
  <1>5. ASSUME NEW c \in Conn, TellAlone(c) PROVE TypeOK'
    <2>1. rcvd' \in [Conn -> Nat] /\ \A d \in Conn : rcvd'[d] <= sent'[d]
      BY <1>5, RecvBounds DEF TellAlone, TypeOK
    <2>2. /\ lines' \in [Conn -> Seq(Line)] /\ unread' \in [Conn -> 0 .. SendRoom]
          /\ link' \in [Conn -> LinkState] /\ running' \in BOOLEAN
      BY <1>5, TellAloneEffect DEF Effect, TypeOK, LinkState
    <2>. QED
      BY <1>5, <2>1, <2>2 DEF TellAlone, Handled, TypeOK
  <1>6. ASSUME NEW c \in Conn, Broadcast(c) PROVE TypeOK'
    <2>1. rcvd' \in [Conn -> Nat] /\ \A d \in Conn : rcvd'[d] <= sent'[d]
      BY <1>6, RecvBounds DEF Broadcast, TypeOK
    <2>. QED
      BY <1>6, <2>1, BroadcastEffect DEF Broadcast, Handled, TypeOK, Effect
  <1>7. ASSUME NEW c \in Conn, RecvError(c) PROVE TypeOK'
    BY <1>7, RecvErrorEffect DEF RecvError, Handled, TypeOK, Effect
  <1>8. ASSUME NEW c \in Conn, Client(c) PROVE TypeOK'
    <2>. USE DEF TypeOK, LinkState, Edge
    <2>1. CASE Connect(c)
      BY <2>1, SMTT(30) DEF Connect
    <2>2. CASE SegmentArrives(c)
      BY <2>2 DEF SegmentArrives
    <2>3. CASE PeerReads(c)
      <3>1. unread[c] \in 0 .. SendRoom /\ unread[c] > 0 /\ SendRoom \in Nat
        BY <2>3, RoomAssumption DEF PeerReads
      <3>2. unread[c] - 1 \in 0 .. SendRoom
        BY <3>1
      <3>3. unread' \in [Conn -> 0 .. SendRoom]
        BY <2>3, <3>2 DEF PeerReads
      <3>. QED
        BY <2>3, <3>3 DEF PeerReads
    <2>4. CASE PeerCloses(c)
      <3>1. 0 \in 0 .. SendRoom
        BY RoomAssumption
      <3>2. unread' \in [Conn -> 0 .. SendRoom] /\ link' \in [Conn -> LinkState]
        BY <2>4, <3>1 DEF PeerCloses
      <3>3. ready' \subseteq ClientFd \cup {Listener}
        BY <2>4 DEF PeerCloses
      <3>. QED
        BY <2>4, <3>2, <3>3 DEF PeerCloses
    <2>5. CASE ResetReturns(c)
      BY <2>5 DEF ResetReturns
    <2>. QED
      BY <1>8, <2>1, <2>2, <2>3, <2>4, <2>5 DEF Client, MessageStarts, MessageGoesOn
  <1>9. CASE UNCHANGED vars
    BY <1>9 DEF vars, TypeOK
  <1>. QED
    BY <1>1, <1>2, <1>3, <1>4, <1>5, <1>6, <1>7, <1>8, <1>9 DEF Next, Server, Handle

(* Every step keeps the list and the open descriptors the same.            *)
LEMMA ListStep == IInv /\ [Next]_vars => ListMatchesSockets'
  <1>. SUFFICES ASSUME IInv, [Next]_vars PROVE ListMatchesSockets'
    OBVIOUS
  <1>. USE DEF ListMatchesSockets, InRoom
  <1>1. CASE Accept
    <2>1. PICK c \in Conn, fd \in FreeFds :
            /\ fdOf[c] = 0
            /\ fdOf' = [fdOf EXCEPT ![c] = fd]
            /\ clients_list' = clients_list \cup {[conn |-> c, fd |-> fd]}
      BY <1>1, AcceptEffect
    <2>2. running /\ fdOf \in [Conn -> ClientFd \cup {0}]
      BY <1>1 DEF Accept, IInv, TypeOK
    <2>3. fd # 0 /\ \A d \in Conn : fdOf[d] # fd
      BY FdAssumption DEF FreeFds, ClientFd
    <2>4. \A d \in Conn : fdOf'[d] = IF d = c THEN fd ELSE fdOf[d]
      BY <2>1, <2>2
    <2>5. {d \in Conn : fdOf'[d] # 0} = {d \in Conn : fdOf[d] # 0} \cup {c}
      BY <2>3, <2>4
    <2>6. clients_list' = {[conn |-> d, fd |-> fdOf'[d]] : d \in {d \in Conn : fdOf'[d] # 0}}
      BY <2>1, <2>2, <2>4, <2>5 DEF IInv
    <2>7. \A d, e \in {d \in Conn : fdOf'[d] # 0} : fdOf'[d] = fdOf'[e] => d = e
      BY <2>3, <2>4, <2>5 DEF IInv
    <2>. QED
      BY <2>6, <2>7
  <1>2. ASSUME NEW c \in Conn, Disconnect(c) PROVE ListMatchesSockets'
    <2>1. /\ running /\ fdOf \in [Conn -> ClientFd \cup {0}]
          /\ fdOf' = [fdOf EXCEPT ![c] = 0]
          /\ clients_list' = {node \in clients_list : node.fd # fdOf[c]}
          /\ fdOf[c] # 0
      BY <1>2, EventOf DEF Disconnect, RemoveNode, IInv, TypeOK
    <2>2. {d \in Conn : fdOf'[d] # 0} = {d \in Conn : fdOf[d] # 0} \ {c}
      BY <2>1
    <2>3. \A d \in Conn \ {c} : fdOf'[d] = fdOf[d]
      BY <2>1
    <2>4. \A d \in Conn \ {c} : fdOf[d] # fdOf[c]
      BY <2>1 DEF IInv
    <2>5. clients_list = {[conn |-> d, fd |-> fdOf[d]] : d \in {d \in Conn : fdOf[d] # 0}}
      BY <2>1 DEF IInv
    <2>6. clients_list' = {[conn |-> d, fd |-> fdOf'[d]] : d \in {d \in Conn : fdOf'[d] # 0}}
      BY <2>1, <2>2, <2>3, <2>4, <2>5
    <2>. QED
      BY <2>2, <2>3, <2>6 DEF IInv
  <1>3. CASE \/ EpollWait
             \/ \E c \in Conn : TellAlone(c) \/ Broadcast(c) \/ RecvError(c)
             \/ \E c \in Conn : Client(c)
    <2>1. UNCHANGED <<clients_list, fdOf>> /\ running
      BY <1>3 DEF EpollWait, TellAlone, Broadcast, RecvError, Client, Connect,
        MessageStarts, MessageGoesOn, SegmentArrives, PeerReads, PeerCloses, ResetReturns
    <2>. QED
      BY <2>1 DEF IInv
  <1>4. CASE AcceptFails
    BY <1>4 DEF AcceptFails, IInv
  <1>5. CASE UNCHANGED vars
    BY <1>5 DEF vars, IInv
  <1>. QED
    BY <1>1, <1>2, <1>3, <1>4, <1>5 DEF Next, Server, Handle

(* Every step keeps waiting and accepted connections apart.                *)
LEMMA BacklogStep == IInv /\ [Next]_vars => BacklogOK' /\ AcceptedOK'
  <1>. SUFFICES ASSUME IInv, [Next]_vars PROVE BacklogOK' /\ AcceptedOK'
    OBVIOUS
  <1>0. /\ backlog \in Seq(Conn)
        /\ fdOf \in [Conn -> ClientFd \cup {0}]
        /\ link \in [Conn -> LinkState]
        /\ \A i \in 1 .. Len(backlog) : backlog[i] \in Conn
    BY DEF IInv, TypeOK
  <1>1. CASE Accept
    <2>1. PICK c \in Conn, fd \in FreeFds :
            /\ backlog # <<>> /\ c = Head(backlog)
            /\ link[c] \notin {"idle", "gone"}
            /\ fdOf' = [fdOf EXCEPT ![c] = fd]
            /\ Effect(CanSendTo)
      BY <1>1, AcceptEffect
    <2>2. \A d \in Conn : link[d] \notin {"idle", "gone"} => link'[d] \notin {"idle", "gone"}
      BY <2>1 DEF Effect
    <2>3. AcceptedOK'
      BY <1>0, <2>1, <2>2 DEF AcceptedOK, IInv
    <2>4. /\ backlog' = Tail(backlog) /\ Len(backlog') = Len(backlog) - 1
          /\ \A i \in 1 .. Len(backlog') : i + 1 \in 1 .. Len(backlog)
                                           /\ backlog'[i] = backlog[i + 1]
      BY <1>0, <1>1, <2>1 DEF Accept
    <2>5. c = backlog[1] /\ 1 \in 1 .. Len(backlog)
      BY <1>0, <2>1
    <2>6. ASSUME NEW i \in 1 .. Len(backlog')
          PROVE  backlog'[i] # c
      <3>1. i + 1 # 1 /\ i + 1 \in 1 .. Len(backlog)
        BY <2>4
      <3>. QED
        BY <2>4, <2>5, <3>1 DEF IInv, BacklogOK
    <2>7. \A i \in 1 .. Len(backlog') :
            fdOf'[backlog'[i]] = 0 /\ link'[backlog'[i]] \notin {"idle", "gone"}
      BY <1>0, <2>1, <2>2, <2>4, <2>6 DEF IInv, BacklogOK
    <2>8. \A i, j \in 1 .. Len(backlog') : backlog'[i] = backlog'[j] => i = j
      BY <2>4 DEF IInv, BacklogOK
    <2>. QED
      BY <2>3, <2>7, <2>8 DEF BacklogOK
  <1>2. ASSUME NEW c \in Conn, Disconnect(c) PROVE BacklogOK' /\ AcceptedOK'
    <2>1. /\ fdOf' = [fdOf EXCEPT ![c] = 0] /\ link' = [link EXCEPT ![c] = "gone"]
          /\ backlog' = backlog /\ fdOf[c] # 0
      BY <1>2, EventOf DEF Disconnect
    <2>2. \A i \in 1 .. Len(backlog) : backlog[i] # c
      BY <2>1 DEF IInv, BacklogOK
    <2>. QED
      BY <1>0, <2>1, <2>2 DEF IInv, BacklogOK, AcceptedOK
  <1>3. ASSUME NEW c \in Conn, Connect(c) PROVE BacklogOK' /\ AcceptedOK'
    <2>1. /\ link[c] = "idle" /\ link' = [link EXCEPT ![c] = "up"]
          /\ fdOf' = fdOf /\ fdOf[c] = 0
      BY <1>0, <1>3 DEF Connect, IInv, AcceptedOK
    <2>2. \A i \in 1 .. Len(backlog) : backlog[i] # c
      BY <2>1 DEF IInv, BacklogOK
    <2>3. /\ backlog' = Append(backlog, c) /\ Len(backlog') = Len(backlog) + 1
          /\ \A i \in 1 .. Len(backlog) : backlog'[i] = backlog[i]
          /\ backlog'[Len(backlog) + 1] = c
      BY <1>0, <1>3 DEF Connect
    <2>4. \A i \in 1 .. Len(backlog') : i \in 1 .. Len(backlog) \/ i = Len(backlog) + 1
      BY <1>0, <2>3
    <2>5. AcceptedOK'
      BY <1>0, <2>1 DEF IInv, AcceptedOK
    <2>6. \A i \in 1 .. Len(backlog') :
            fdOf'[backlog'[i]] = 0 /\ link'[backlog'[i]] \notin {"idle", "gone"}
      BY <1>0, <2>1, <2>3, <2>4 DEF IInv, BacklogOK
    <2>7. \A i, j \in 1 .. Len(backlog') : backlog'[i] = backlog'[j] => i = j
      BY <1>0, <2>2, <2>3, <2>4 DEF IInv, BacklogOK
    <2>. QED
      BY <2>5, <2>6, <2>7 DEF BacklogOK
  <1>4. CASE \/ EpollWait \/ AcceptFails \/ UNCHANGED vars
             \/ \E c \in Conn : TellAlone(c) \/ Broadcast(c) \/ RecvError(c)
             \/ \E c \in Conn : \/ SegmentArrives(c) \/ PeerReads(c)
                                \/ PeerCloses(c) \/ ResetReturns(c)
    <2>1. UNCHANGED <<backlog, fdOf>>
      BY <1>4 DEF EpollWait, AcceptFails, TellAlone, Broadcast, RecvError, vars,
        SegmentArrives, PeerReads, PeerCloses, ResetReturns
    <2>2. \A d \in Conn : link[d] \notin {"idle", "gone"} => link'[d] \notin {"idle", "gone"}
      <3>1. CASE EpollWait \/ AcceptFails \/ UNCHANGED vars
        BY <3>1 DEF EpollWait, AcceptFails, vars
      <3>2. ASSUME NEW c \in Conn, TellAlone(c)
            PROVE  \A d \in Conn : link[d] \notin {"idle", "gone"} => link'[d] \notin {"idle", "gone"}
        BY <1>0, <3>2, TellAloneEffect DEF Effect
      <3>3. ASSUME NEW c \in Conn, Broadcast(c)
            PROVE  \A d \in Conn : link[d] \notin {"idle", "gone"} => link'[d] \notin {"idle", "gone"}
        BY <3>3, BroadcastEffect DEF Effect
      <3>4. ASSUME NEW c \in Conn, RecvError(c)
            PROVE  \A d \in Conn : link[d] \notin {"idle", "gone"} => link'[d] \notin {"idle", "gone"}
        BY <3>4, RecvErrorEffect DEF Effect
      <3>5. ASSUME NEW c \in Conn,
                   SegmentArrives(c) \/ PeerReads(c) \/ PeerCloses(c) \/ ResetReturns(c)
            PROVE  \A d \in Conn : link[d] \notin {"idle", "gone"} => link'[d] \notin {"idle", "gone"}
        BY <1>0, <3>5 DEF SegmentArrives, PeerReads, PeerCloses, ResetReturns
      <3>. QED
        BY <1>4, <3>1, <3>2, <3>3, <3>4, <3>5
    <2>. QED
      BY <1>0, <2>1, <2>2 DEF IInv, BacklogOK, AcceptedOK
  <1>. QED
    BY <1>1, <1>2, <1>3, <1>4
    DEF Next, Server, Handle, Client, MessageStarts, MessageGoesOn

(* What was readable stays readable unless recv() takes it or it is closed. *)
LEMMA StaysReadable ==
  ASSUME IInv, [Next]_vars, NEW d \in Conn, Readable(d),
         fdOf[d] # 0, fdOf[d] \notin events \ events'
  PROVE  \/ Readable(d)' /\ fdOf'[d] = fdOf[d]
         \/ fdOf[d] \notin events
  <1>. SUFFICES ASSUME fdOf[d] \in events, fdOf[d] \in events'
                PROVE  Readable(d)' /\ fdOf'[d] = fdOf[d]
    OBVIOUS
  <1>0. /\ fdOf \in [Conn -> ClientFd \cup {0}] /\ link \in [Conn -> LinkState]
        /\ rcvd \in [Conn -> Nat] /\ sent \in [Conn -> Nat]
        /\ link[d] \notin {"idle", "gone"}
    BY EventOf DEF IInv, TypeOK
  <1>. USE DEF Readable, Closed
  <1>1. CASE Accept
    BY <1>0, <1>1, AcceptEffect DEF Accept, Effect
  <1>2. ASSUME NEW c \in Conn, Disconnect(c) PROVE Readable(d)' /\ fdOf'[d] = fdOf[d]
    BY <1>0, <1>2 DEF Disconnect, Handled
  <1>3. ASSUME NEW c \in Conn, TellAlone(c) PROVE Readable(d)' /\ fdOf'[d] = fdOf[d]
    <2>1. d # c /\ rcvd'[d] = rcvd[d] /\ sent' = sent /\ fdOf' = fdOf
      BY <1>0, <1>3 DEF TellAlone, Handled
    <2>. QED
      BY <1>0, <1>3, <2>1, TellAloneEffect DEF Effect
  <1>4. ASSUME NEW c \in Conn, Broadcast(c) PROVE Readable(d)' /\ fdOf'[d] = fdOf[d]
    <2>1. d # c /\ rcvd'[d] = rcvd[d] /\ sent' = sent /\ fdOf' = fdOf
      BY <1>0, <1>4 DEF Broadcast, Handled
    <2>. QED
      BY <1>0, <1>4, <2>1, BroadcastEffect DEF Effect
  <1>5. ASSUME NEW c \in Conn, RecvError(c) PROVE Readable(d)' /\ fdOf'[d] = fdOf[d]
    <2>1. rcvd' = rcvd /\ sent' = sent /\ fdOf' = fdOf
      BY <1>5 DEF RecvError
    <2>. QED
      BY <1>0, <1>5, <2>1, RecvErrorEffect DEF Effect
  <1>6. ASSUME NEW c \in Conn, Client(c) PROVE Readable(d)' /\ fdOf'[d] = fdOf[d]
    <2>1. CASE Connect(c) \/ PeerCloses(c) \/ ResetReturns(c)
      <3>1. sent' = sent /\ rcvd' = rcvd /\ fdOf' = fdOf
        BY <2>1 DEF Connect, PeerCloses, ResetReturns
      <3>2. \/ link'[d] = link[d]
            \/ d = c /\ link[d] = "up" /\ link'[d] \in {"reset", "fin"}
            \/ d = c /\ link[d] = "bounce" /\ link'[d] = "broken"
        BY <1>0, <2>1 DEF Connect, PeerCloses, ResetReturns
      <3>. QED
        BY <3>1, <3>2
    <2>2. CASE SegmentArrives(c) \/ PeerReads(c)
      <3>1. rcvd' = rcvd /\ link' = link /\ fdOf' = fdOf
        BY <2>2 DEF SegmentArrives, PeerReads
      <3>2. sent'[d] \in Nat /\ sent[d] <= sent'[d]
        BY <1>0, <2>2 DEF SegmentArrives, PeerReads
      <3>. QED
        BY <1>0, <3>1, <3>2
    <2>. QED
      BY <1>6, <2>1, <2>2 DEF Client, MessageStarts, MessageGoesOn
  <1>7. CASE EpollWait \/ AcceptFails \/ UNCHANGED vars
    BY <1>7 DEF EpollWait, AcceptFails, vars
  <1>. QED
    BY <1>1, <1>2, <1>3, <1>4, <1>5, <1>6, <1>7 DEF Next, Server, Handle

(* No step makes an event of the batch false that it does not handle.      *)
LEMMA BatchStep == IInv /\ [Next]_vars => BatchIsLive'
  <1>. SUFFICES ASSUME IInv, [Next]_vars, NEW f \in events'
                PROVE  Pending(f)'
    BY DEF BatchIsLive
  <1>1. CASE EpollWait
    BY <1>1 DEF EpollWait, Harvest, Pending, Readable, Closed
  <1>2. CASE f \in events
    <2>0. f \in ClientFd \cup {Listener} /\ f # 0
      BY <1>2, FdAssumption DEF IInv, TypeOK, ClientFd, Listener
    <2>1. CASE f = Listener /\ backlog # <<>>
      <3>1. ~ Accept /\ ~ AcceptFails
        BY <2>1 DEF Accept, AcceptFails, Handled
      <3>2. ASSUME NEW c \in Conn, Connect(c) PROVE backlog' # <<>>
        <4>1. backlog \in Seq(Conn) /\ backlog' = Append(backlog, c)
          BY <3>2 DEF Connect, IInv, TypeOK
        <4>2. Len(backlog') = Len(backlog) + 1 /\ Len(backlog) \in Nat
          BY <4>1
        <4>. QED
          BY <4>2
      <3>3. \/ backlog' = backlog \/ \E c \in Conn : Connect(c)
        BY <3>1 DEF Next, Server, Handle, EpollWait, Disconnect, TellAlone, Broadcast,
          RecvError, Client, MessageStarts, MessageGoesOn, SegmentArrives,
          PeerReads, PeerCloses, ResetReturns, vars
      <3>. QED
        BY <2>1, <3>2, <3>3 DEF Pending
    <2>2. ASSUME NEW d \in Conn, fdOf[d] = f, Readable(d)
          PROVE  Pending(f)'
      <3>1. Readable(d)' /\ fdOf'[d] = fdOf[d]
        BY <1>2, <2>0, <2>2, StaysReadable
      <3>. QED
        BY <2>2, <3>1 DEF Pending
    <2>. QED
      BY <1>2, <2>1, <2>2 DEF IInv, BatchIsLive, Pending
  <1>3. CASE f \notin events
    <2>1. EpollWait
      BY <1>3 DEF Next, Server, Handle, Accept, AcceptFails, Disconnect, TellAlone,
        Broadcast, RecvError, Handled, Client, Connect, MessageStarts, MessageGoesOn,
        SegmentArrives, PeerReads, PeerCloses, ResetReturns, vars
    <2>. QED
      BY <1>1, <2>1
  <1>. QED
    BY <1>2, <1>3

(* A step that ends the process has a cause, and the cause remains.        *)
LEMMA CauseStep == IInv /\ [Next]_vars => ExitHasCause'
  <1>. SUFFICES ASSUME IInv, [Next]_vars, ~ running'
                PROVE  \/ \E d \in Conn : \/ link'[d] \in {"reset", "broken"}
                                          \/ unread'[d] = SendRoom
                       \/ Refused'
    BY DEF ExitHasCause
  <1>0. /\ link \in [Conn -> LinkState] /\ unread \in [Conn -> 0 .. SendRoom]
        /\ SendRoom \in Nat
    BY RoomAssumption DEF IInv, TypeOK
  <1>1. CASE Accept
    <2>1. PICK c \in Conn : /\ link[c] \notin {"idle", "gone"} /\ ~ CanSend(c)
                            /\ Effect(CanSendTo)
      BY <1>1, AcceptEffect
    <2>2. link[c] \in {"reset", "broken"} \/ unread[c] = SendRoom
      BY <1>0, <2>1 DEF CanSend, LinkState
    <2>3. unread'[c] = unread[c] /\ (link[c] \in {"reset", "broken"} => link'[c] = link[c])
      BY <2>1 DEF Effect, CanSendTo
    <2>. QED
      BY <2>2, <2>3
  <1>2. CASE AcceptFails
    <2>1. ~ Pending(Listener) \/ backlog # <<>>
      <3>1. \A d \in Conn : fdOf[d] # Listener
        <4>1. \A d \in Conn : fdOf[d] \in ClientFd \cup {0}
          BY DEF IInv, TypeOK
        <4>. QED
          BY <4>1, FdAssumption DEF ClientFd, Listener
      <3>. QED
        BY <3>1 DEF Pending
    <2>2. FreeFds = {} /\ backlog # <<>> /\ fdOf' = fdOf /\ backlog' = backlog
      BY <1>2, <2>1 DEF AcceptFails, IInv, BatchIsLive
    <2>3. PICK c \in Conn : clients_list' = clients_list \cup {[conn |-> c, fd |-> -1]}
      BY <1>2 DEF AcceptFails
    <2>4. \E node \in clients_list' : node.fd = -1
      <3>1. PICK node : node = [conn |-> c, fd |-> -1]
        OBVIOUS
      <3>2. node \in clients_list' /\ node.fd = -1
        BY <2>3, <3>1
      <3>. QED
        BY <3>2
    <2>. QED
      BY <2>2, <2>4 DEF Refused, FreeFds
  <1>3. ASSUME NEW c \in Conn, TellAlone(c)
        PROVE  \E d \in Conn : link'[d] \in {"reset", "broken"}
    BY <1>3, TellAloneEffect
  <1>4. ASSUME NEW c \in Conn, Broadcast(c)
        PROVE  \E d \in Conn : link'[d] \in {"reset", "broken"} \/ unread'[d] = SendRoom
    <2>1. SomeSendFails(Others(fdOf[c])) /\ running
      BY <1>4 DEF Broadcast
    <2>2. PICK d \in Conn : /\ ~ CanSend(d)
                            /\ link[d] \in {"reset", "broken"} \/ unread[d] = SendRoom
      BY <2>1, FailHasCause
    <2>3. unread'[d] = unread[d] /\ (link[d] \in {"reset", "broken"} => link'[d] = link[d])
      BY <1>4, <2>2, BroadcastEffect DEF Effect, CanSendTo
    <2>. QED
      BY <2>2, <2>3
  <1>5. ASSUME NEW c \in Conn, RecvError(c)
        PROVE  \E d \in Conn : link'[d] \in {"reset", "broken"}
    <2>1. RecvLength(c) = 0 /\ ~ Closed(c) /\ fdOf[c] \in events
      BY <1>5 DEF RecvError
    <2>2. link[c] = "reset"
      <3>1. rcvd[c] = sent[c] /\ sent[c] \in Nat
        BY <2>1, RecvBounds DEF IInv, TypeOK
      <3>. QED
        BY <2>1, <3>1, EventOf DEF Readable
    <2>. QED
      BY <1>5, <2>2, RecvErrorEffect DEF Effect
  <1>6. CASE UNCHANGED vars
    BY <1>6 DEF vars, IInv, ExitHasCause, Refused, FreeFds
  <1>7. CASE EpollWait \/ (\E c \in Conn : Disconnect(c)) \/ \E c \in Conn : Client(c)
    <2>1. CASE EpollWait
      BY <2>1 DEF EpollWait
    <2>2. ASSUME NEW c \in Conn, Disconnect(c)
          PROVE  FALSE
      BY <2>2 DEF Disconnect
    <2>3. ASSUME NEW c \in Conn, Connect(c) \/ MessageStarts(c) \/ MessageGoesOn(c)
          PROVE  FALSE
      BY <2>3 DEF Connect, MessageStarts, MessageGoesOn, SegmentArrives
    <2>4. ASSUME NEW c \in Conn, PeerReads(c) \/ ResetReturns(c)
          PROVE  FALSE
      BY <2>4 DEF PeerReads, ResetReturns
    <2>5. ASSUME NEW c \in Conn, PeerCloses(c)
          PROVE  FALSE
      BY <2>5 DEF PeerCloses
    <2>. QED
      BY <1>7, <2>1, <2>2, <2>3, <2>4, <2>5 DEF Client
  <1>. QED
    BY <1>1, <1>2, <1>3, <1>4, <1>5, <1>6, <1>7 DEF Next, Server, Handle

-----------------------------------------------------------------------------
(* Theorems.                                                               *)

(* Whatever clients do, the invariant holds: in particular the types are   *)
(* right and recv() never takes more than has arrived.                     *)
THEOREM Invariance == Spec => []IInv
  <1>1. IInv /\ [Next]_vars => IInv'
    BY TypeStep, ListStep, BacklogStep, BatchStep, CauseStep DEF IInv
  <1>. QED
    BY InitIInv, <1>1, PTL DEF Spec

(* The state is well-typed; recv() never takes more than has arrived.      *)
THEOREM TypeCorrect == Spec => []TypeOK
  <1>1. IInv => TypeOK
    BY DEF IInv
  <1>. QED
    BY Invariance, <1>1, PTL

(* The list of clients is exactly the set of open client sockets, for any  *)
(* number of clients and any reuse of descriptors (utility.h:76-77).       *)
THEOREM ListCorrect == Spec => []ListMatchesSockets
  <1>1. IInv => ListMatchesSockets
    BY DEF IInv
  <1>. QED
    BY Invariance, <1>1, PTL

(* No event of a batch is made stale by the handlers before it             *)
(* (server.cpp:52-80).                                                     *)
THEOREM BatchLive == Spec => []BatchIsLive
  <1>1. IInv => BatchIsLive
    BY DEF IInv
  <1>. QED
    BY Invariance, <1>1, PTL

(* The server never exits by itself: CHECK_ERR and SIGPIPE are reached     *)
(* only through a client's doing or for want of descriptors.               *)
THEOREM ExitCaused == Spec => []ExitHasCause
  <1>1. IInv => ExitHasCause
    BY DEF IInv
  <1>. QED
    BY Invariance, <1>1, PTL

(* A descriptor is never reused while an event for it is still waiting.    *)
THEOREM BatchKept == Spec => BatchStable
  <1>1. IInv /\ [Next]_vars =>
          [\A c \in Conn : fdOf[c] \in events \cap events' => fdOf'[c] = fdOf[c]]_vars
    <2>. SUFFICES ASSUME IInv, [Next]_vars,
                         NEW c \in Conn, fdOf[c] \in events, fdOf[c] \in events'
                  PROVE  fdOf'[c] = fdOf[c]
      OBVIOUS
    <2>1. Readable(c) /\ fdOf[c] # 0
      BY EventOf
    <2>. QED
      BY <2>1, StaysReadable
  <1>. QED
    BY Invariance, <1>1, PTL DEF Spec, BatchStable

-----------------------------------------------------------------------------
(* Arithmetic of streams.                                                  *)

\* Messages of c of which recv() has returned a part.
Taken(c) == (rcvd[c] + BufSegments - 1) \div BufSegments

(* The number of a stream's messages, the last of them perhaps begun only. *)
LEMMA Messages ==
  ASSUME NEW r \in Nat, NEW B \in Nat \ {0}
  PROVE  LET q == (r + B - 1) \div B IN q \in Nat /\ r <= B * q /\ B * q < r + B
  BY SMT

(* A common factor that is positive is left out of a comparison.           *)
LEMMA Cancel ==
  ASSUME NEW b \in Nat \ {0}, NEW x \in Int, NEW y \in Int, b * x < b * y
  PROVE  x < y
  BY SMT

(* A stream that goes on has as many messages, or more.                    *)
LEMMA MessagesGrow ==
  ASSUME NEW r \in Nat, NEW s \in Nat, r <= s, NEW B \in Nat \ {0}
  PROVE  (r + B - 1) \div B <= (s + B - 1) \div B
  <1>. DEFINE q == (r + B - 1) \div B
              p == (s + B - 1) \div B
  <1>1. /\ q \in Nat /\ r <= B * q /\ B * q < r + B
        /\ p \in Nat /\ s <= B * p /\ B * p < s + B
    BY Messages
  <1>. HIDE DEF q, p
  <1>2. B * q < B * (p + 1)
    BY <1>1
  <1>3. q < p + 1
    BY <1>1, <1>2, Cancel
  <1>4. q <= p
    BY <1>1, <1>3
  <1>. QED
    BY <1>4 DEF q, p

(* A stream of at most m messages has at most m.                           *)
LEMMA MessagesBound ==
  ASSUME NEW r \in Nat, NEW m \in Nat, NEW B \in Nat \ {0}, r <= B * m
  PROVE  (r + B - 1) \div B <= m
  <1>. DEFINE q == (r + B - 1) \div B
  <1>1. q \in Nat /\ B * q < r + B
    BY Messages
  <1>. HIDE DEF q
  <1>2. B * q < B * (m + 1)
    BY <1>1
  <1>3. q < m + 1
    BY <1>1, <1>2, Cancel
  <1>4. q <= m
    BY <1>1, <1>3
  <1>. QED
    BY <1>4 DEF q

(* Where a message starts, those before it are whole; what is taken next   *)
(* is a part of it.                                                        *)
LEMMA MessageBegins ==
  ASSUME NEW r \in Nat, NEW s \in Nat, r < s, NEW B \in Nat \ {0}, r % B = 0
  PROVE  /\ r \div B = (r + B - 1) \div B
         /\ (r + B - 1) \div B + 1 <= (s + B - 1) \div B
  <1>. DEFINE k == r \div B
              q == (r + B - 1) \div B
              p == (s + B - 1) \div B
  <1>1. k \in Nat /\ r = B * k
    BY SMT
  <1>2. /\ q \in Nat /\ r <= B * q /\ B * q < r + B
        /\ p \in Nat /\ s <= B * p /\ B * p < s + B
    BY Messages
  <1>. HIDE DEF q, p, k
  <1>3. B * q < B * (k + 1) /\ B * k < B * (q + 1)
    BY <1>1, <1>2
  <1>4. q < k + 1 /\ k < q + 1
    BY <1>1, <1>2, <1>3, Cancel
  <1>5. B * k < B * p
    BY <1>1, <1>2
  <1>6. k < p
    BY <1>1, <1>2, <1>5, Cancel
  <1>7. k = q /\ q + 1 <= p
    BY <1>1, <1>2, <1>4, <1>6
  <1>. QED
    BY <1>7 DEF k, q, p

-----------------------------------------------------------------------------
(* What the mapping to ChatRoom rests on besides IInv: a connection that   *)
(* has not been accepted was not written to and nothing was taken from it; *)
(* an accepted one was welcomed first, under its descriptor; and no client *)
(* sends more than the messages all of them may.                           *)
Waits(c) == fdOf[c] = 0 /\ link[c] # "gone"
FreshOK ==
  \A c \in Conn : Waits(c) =>
    /\ link[c] \in {"idle", "up", "fin"}
    /\ unread[c] = 0 /\ lines[c] = <<>>
WelcomeOK ==
  \A c \in Conn : fdOf[c] # 0 => lines[c] # <<>> /\ lines[c][1].id = fdOf[c]
SentOK == \A c \in Conn : sent[c] <= BufSegments * MaxMessages

RoomInv == IInv /\ FreshOK /\ WelcomeOK /\ SentOK

(* The connections behind the other nodes are the other people in the room *)
(* (utility.h:90-92).                                                      *)
LEMMA BehindOthers ==
  ASSUME IInv, running, NEW c \in InRoom
  PROVE  Behind(Others(fdOf[c])) = InRoom \ {c}
  <1>1. clients_list = {[conn |-> d, fd |-> fdOf[d]] : d \in InRoom}
    BY DEF IInv, ListMatchesSockets
  <1>2. \A d, e \in InRoom : fdOf[d] = fdOf[e] => d = e
    BY DEF IInv, ListMatchesSockets
  <1>3. ASSUME NEW d \in Behind(Others(fdOf[c])) PROVE d \in InRoom \ {c}
    <2>1. d \in Conn
      BY <1>3 DEF Behind
    <2>2. PICK node \in clients_list : node.fd # fdOf[c] /\ node.fd = fdOf[d]
      BY <1>3 DEF Behind, Others
    <2>3. PICK e \in InRoom : node = [conn |-> e, fd |-> fdOf[e]]
      BY <1>1, <2>2
    <2>4. fdOf[d] = fdOf[e] /\ fdOf[e] # 0
      BY <2>2, <2>3 DEF InRoom
    <2>. QED
      BY <2>1, <2>2, <2>4 DEF InRoom
  <1>4. ASSUME NEW d \in InRoom \ {c} PROVE d \in Behind(Others(fdOf[c]))
    <2>1. fdOf[d] # fdOf[c]
      BY <1>2
    <2>2. [conn |-> d, fd |-> fdOf[d]] \in clients_list
      BY <1>1
    <2>3. [conn |-> d, fd |-> fdOf[d]] \in Others(fdOf[c])
      BY <2>1, <2>2 DEF Others
    <2>. QED
      BY <2>3 DEF Behind, InRoom
  <1>. QED
    BY <1>3, <1>4

(* The server finds its list to be of length 1 exactly when the sender is  *)
(* the only one in the room (utility.h:82).                                *)
LEMMA AloneInRoom ==
  ASSUME IInv, running, NEW c \in InRoom
  PROVE  Alone <=> InRoom = {c}
  <1>. DEFINE node(d) == [conn |-> d, fd |-> fdOf[d]]
  <1>1. clients_list = {node(d) : d \in InRoom}
    BY DEF IInv, ListMatchesSockets
  <1>2. IsFiniteSet(InRoom)
    BY ConnAssumption, FS_Subset DEF InRoom
  <1>3. IsFiniteSet(clients_list)
    <2>1. [d \in InRoom |-> node(d)] \in Surjection(InRoom, clients_list)
      BY <1>1 DEF Surjection
    <2>. QED
      BY <1>2, <2>1, FS_Surjection
  <1>4. Alone <=> \E x : clients_list = {x}
    BY <1>3, FS_Singleton DEF Alone
  <1>5. ASSUME NEW x, clients_list = {x}, NEW d \in InRoom PROVE d = c
    <2>1. node(d) = x /\ node(c) = x
      BY <1>1, <1>5
    <2>2. node(d).conn = d /\ node(c).conn = c
      OBVIOUS
    <2>. QED
      BY <2>1, <2>2
  <1>6. ASSUME InRoom = {c} PROVE clients_list = {node(c)}
    BY <1>1, <1>6
  <1>. QED
    BY <1>4, <1>5, <1>6

(* What a line is labelled with in the room is the sender's descriptor,    *)
(* and what is taken in a step is a message or nothing (utility.h:73-87).  *)
LEMMA TakeStep ==
  ASSUME RoomInv, NEW c \in Conn, RecvLength(c) > 0,
         rcvd' = [rcvd EXCEPT ![c] = @ + RecvLength(c)]
  PROVE  \E text \in 0 .. MaxMessages : text = TextIn(c) /\ Room!Takes(c, text)
  <1>. DEFINE r == rcvd[c]
              s == r + RecvLength(c)
              n == (s + BufSegments - 1) \div BufSegments
  <1>1. /\ BufSegments \in Nat \ {0} /\ MaxMessages \in Nat
        /\ r \in Nat /\ s \in Nat /\ r < s /\ s <= BufSegments * MaxMessages
    <2>1. sent[c] <= BufSegments * MaxMessages /\ sent[c] \in Nat /\ rcvd \in [Conn -> Nat]
      BY DEF RoomInv, SentOK, IInv, TypeOK
    <2>2. RecvLength(c) \in Nat /\ rcvd[c] + RecvLength(c) <= sent[c]
      BY RecvBounds DEF RoomInv, IInv
    <2>3. BufSegments \in Nat \ {0} /\ MaxMessages \in Nat
      BY BufAssumption, BoundAssumption
    <2>4. BufSegments * MaxMessages \in Nat
      BY <2>3
    <2>. QED
      BY <2>1, <2>2, <2>3, <2>4
  <1>2. /\ Taken(c) \in Nat /\ n \in Nat
        /\ Taken(c) <= n /\ n <= MaxMessages
    <2>. HIDE DEF r, s
    <2>1. Taken(c) = (r + BufSegments - 1) \div BufSegments
      BY DEF Taken, r
    <2>2. (r + BufSegments - 1) \div BufSegments \in Nat
      BY <1>1, Messages
    <2>3. n \in Nat
      BY <1>1, Messages
    <2>4. (r + BufSegments - 1) \div BufSegments <= n
      BY <1>1, MessagesGrow
    <2>5. n <= MaxMessages
      BY <1>1, MessagesBound
    <2>. QED
      BY <2>1, <2>2, <2>3, <2>4, <2>5, Zenon
  <1>3. \/ TextIn(c) = 0
        \/ TextIn(c) = Taken(c) + 1 /\ Taken(c) + 1 <= n
    <2>1. CASE r % BufSegments = 0
      <3>1. /\ r \div BufSegments = Taken(c)
            /\ Taken(c) + 1 <= n
        BY <1>1, <2>1, MessageBegins DEF Taken
      <3>. QED
        BY <2>1, <3>1 DEF TextIn
    <2>2. CASE ~ (r % BufSegments = 0)
      BY <2>2 DEF TextIn
    <2>. QED
      BY <2>1, <2>2
  <1>4. [d \in Conn |-> Taken(d)]' = [[d \in Conn |-> Taken(d)] EXCEPT ![c] = n]
    <2>1. \A d \in Conn : rcvd'[d] = IF d = c THEN s ELSE rcvd[d]
      BY DEF RoomInv, IInv, TypeOK
    <2>2. \A d \in Conn : Taken(d)' = IF d = c THEN n ELSE Taken(d)
      BY <2>1 DEF Taken
    <2>. QED
      BY <2>2
  <1>. HIDE DEF n, r, s
  <1>5. PICK text \in 0 .. MaxMessages :
          text = TextIn(c) /\ text \in {0} \cup ({Taken(c) + 1} \cap (0 .. n))
    BY <1>1, <1>2, <1>3
  <1>6. n \in Taken(c) .. MaxMessages
    BY <1>1, <1>2
  <1>7. \E k \in Taken(c) .. MaxMessages :
          /\ [d \in Conn |-> Taken(d)]' = [[d \in Conn |-> Taken(d)] EXCEPT ![c] = k]
          /\ text \in {0} \cup ({Taken(c) + 1} \cap (0 .. k))
    BY <1>4, <1>5, <1>6
  <1>8. Room!Takes(c, text)
    BY <1>7 DEF Room!Takes, Taken
  <1>. QED
    BY <1>5, <1>8

(* Lines that only go to people in the room leave those outside alone and  *)
(* come behind the welcome.                                                *)
LEMMA DeliverKeeps ==
  ASSUME RoomInv, NEW T \in SUBSET InRoom, NEW line \in Line, Deliver(T, line),
         fdOf' = fdOf
  PROVE  FreshOK' /\ WelcomeOK'
  <1>. USE DEF RoomInv, IInv
  <1>1. ASSUME NEW c \in Conn, Waits(c)'
        PROVE  /\ link'[c] \in {"idle", "up", "fin"}
               /\ unread'[c] = 0 /\ lines'[c] = <<>>
    <2>1. c \notin T /\ fdOf[c] = 0
      BY <1>1 DEF Waits, InRoom
    <2>2. lines'[c] = lines[c] /\ unread'[c] = unread[c] /\ link'[c] = link[c]
      BY <2>1 DEF Deliver
    <2>. QED
      BY <1>1, <2>1, <2>2 DEF Waits, FreshOK
  <1>2. ASSUME NEW c \in Conn, fdOf'[c] # 0
        PROVE  lines'[c] # <<>> /\ lines'[c][1].id = fdOf'[c]
    <2>1. lines[c] \in Seq(Line) /\ lines[c] # <<>> /\ lines[c][1].id = fdOf[c]
      BY <1>2 DEF WelcomeOK, TypeOK
    <2>2. lines'[c] = lines[c] \/ lines'[c] = Append(lines[c], line)
      BY DEF Deliver
    <2>3. Append(lines[c], line) # <<>> /\ Append(lines[c], line)[1] = lines[c][1]
      BY <2>1
    <2>. QED
      BY <2>1, <2>2, <2>3
  <1>. QED
    BY <1>1, <1>2 DEF FreshOK, WelcomeOK


(* The line of a message is the line the room knows.                       *)
LEMMA SayIsSay ==
  ASSUME RoomInv, NEW c \in Conn, fdOf[c] # 0, NEW text, text = TextIn(c)
  PROVE  /\ Room!Say(c, text) = SayLine(c)
         /\ [Room!Say(c, text) EXCEPT !.kind = "caution"] = CautionLine(c)
         /\ Room!Say(c, 0) = [SayLine(c) EXCEPT !.text = 0]
  <1>1. Room!IdOf(c) = fdOf[c]
    BY DEF RoomInv, WelcomeOK, Room!IdOf
  <1>. QED
    BY <1>1 DEF Room!Say, SayLine, CautionLine

(* A client whose event is handled is in the room.                         *)
LEMMA EventInRoom ==
  ASSUME RoomInv, NEW c \in Conn, fdOf[c] \in events
  PROVE  c \in InRoom /\ fdOf[c] # 0
  BY EventOf DEF RoomInv, InRoom

-----------------------------------------------------------------------------
(* Every step of the server is a step of the room, or none.                *)

(* Whoever is accepted can be sent to: it was not written to before, so    *)
(* that its buffer is empty and its closing is no reset (server.cpp:58).   *)
LEMMA AcceptJoins ==
  ASSUME RoomInv, Accept
  PROVE  /\ Room!Join(Head(backlog))
         /\ running' /\ FreshOK' /\ WelcomeOK'
  <1>. USE DEF RoomInv
  <1>. DEFINE c == Head(backlog)
  <1>1. c \in Conn /\ fdOf[c] = 0 /\ link[c] \notin {"idle", "gone"}
    BY AcceptEffect
  <1>2. link[c] \in {"up", "fin"} /\ unread[c] = 0 /\ lines[c] = <<>>
    BY <1>1 DEF FreshOK, Waits
  <1>3. CanSend(c)
    BY <1>2, RoomAssumption DEF CanSend
  <1>4. PICK fd \in FreeFds :
          /\ fdOf' = [fdOf EXCEPT ![c] = fd]
          /\ running' = CanSend(c)
          /\ Deliver({c} \cap {d \in Conn : CanSend(d)}, WelcomeLine(c, fd))
    BY DEF Accept
  <1>5. {c} \cap {d \in Conn : CanSend(d)} = {c}
    BY <1>1, <1>3
  <1>6. Deliver({c}, WelcomeLine(c, fd)) /\ running'
    BY <1>3, <1>4, <1>5
  <1>7. fd \in ClientFd /\ fd # 0 /\ \A d \in Conn : fdOf[d] # fd
    <2>1. fd \in ClientFd /\ \A d \in Conn : fdOf[d] # fd
      BY DEF FreeFds
    <2>. QED
      BY <2>1, FdAssumption DEF ClientFd
  <1>8. /\ fdOf' \in [Conn -> ClientFd \cup {0}]
        /\ fdOf'[c] = fd /\ \A d \in Conn \ {c} : fdOf'[d] = fdOf[d]
    BY <1>1, <1>4, <1>7 DEF IInv, TypeOK
  <1>9. InRoom' = InRoom \cup {c}
    BY <1>1, <1>7, <1>8 DEF InRoom
  <1>10. fd \in ClientFd \ {Room!IdOf(d) : d \in InRoom}
    <2>1. \A d \in InRoom : Room!IdOf(d) = fdOf[d]
      BY DEF InRoom, WelcomeOK, Room!IdOf
    <2>. QED
      BY <1>7, <2>1 DEF InRoom
  <1>11. Room!Hear({c}, [kind |-> "welcome", id |-> fd, from |-> c, text |-> 0])
    BY <1>6 DEF Deliver, Room!Hear, WelcomeLine
  <1>12. [d \in Conn |-> Taken(d)]' = [d \in Conn |-> Taken(d)]
    BY DEF Accept, Taken
  <1>13. Room!Join(c)
    <2>. HIDE DEF c
    <2>1. running
      BY DEF Accept
    <2>. QED
      BY <1>2, <1>6, <1>9, <1>10, <1>11, <1>12, <2>1 DEF Room!Join, Taken
  <1>14. ASSUME NEW d \in Conn \ {c}
         PROVE  lines'[d] = lines[d] /\ unread'[d] = unread[d] /\ link'[d] = link[d]
    BY <1>6, <1>14 DEF Deliver
  <1>15. lines'[c] = Append(<<>>, WelcomeLine(c, fd))
    <2>. HIDE DEF c
    <2>. QED
      BY <1>1, <1>2, <1>6 DEF Deliver
  <1>16. lines'[c] # <<>> /\ lines'[c][1].id = fd
    <2>1. WelcomeLine(c, fd) \in Line /\ WelcomeLine(c, fd).id = fd
      BY <1>1, <1>7 DEF WelcomeLine, Line
    <2>2. /\ Append(<<>>, WelcomeLine(c, fd)) # <<>>
          /\ Append(<<>>, WelcomeLine(c, fd))[1] = WelcomeLine(c, fd)
      BY <2>1
    <2>. QED
      BY <1>15, <2>1, <2>2
  <1>17. FreshOK'
    BY <1>7, <1>8, <1>14 DEF FreshOK, Waits
  <1>18. WelcomeOK'
    <2>. HIDE DEF c
    <2>. QED
      BY <1>8, <1>14, <1>16 DEF WelcomeOK
  <1>. QED
    BY <1>6, <1>13, <1>17, <1>18

(* A client that closed is out of the room (utility.h:75-78).              *)
LEMMA DisconnectLeaves ==
  ASSUME RoomInv, NEW c \in Conn, Disconnect(c)
  PROVE  Room!Leave(c) /\ FreshOK' /\ WelcomeOK'
  <1>1. c \in InRoom /\ fdOf[c] # 0
    BY EventInRoom DEF Disconnect
  <1>2. /\ fdOf' = [fdOf EXCEPT ![c] = 0] /\ link' = [link EXCEPT ![c] = "gone"]
        /\ UNCHANGED <<running, rcvd, lines, unread>> /\ running
    BY DEF Disconnect
  <1>3. fdOf \in [Conn -> ClientFd \cup {0}] /\ link \in [Conn -> LinkState]
    BY DEF RoomInv, IInv, TypeOK
  <1>4. InRoom' = InRoom \ {c}
    BY <1>2, <1>3 DEF InRoom
  <1>5. Room!Leave(c)
    BY <1>1, <1>2, <1>4 DEF Room!Leave
  <1>6. FreshOK' /\ WelcomeOK'
    BY <1>2, <1>3 DEF RoomInv, FreshOK, WelcomeOK, Waits
  <1>. QED
    BY <1>5, <1>6

(* The room is shut in the middle of a line, however few have heard it.    *)
LEMMA ShutsAmid ==
  ASSUME running, running' = FALSE, UNCHANGED InRoom,
         NEW c \in InRoom, NEW text \in 0 .. MaxMessages, Room!Takes(c, text),
         NEW T \in SUBSET Room!Audience(c), Room!Hear(T, Room!Say(c, text))
  PROVE  Room!Shut
  <1>1. \E m \in InRoom, x \in 0 .. MaxMessages :
          /\ Room!Takes(m, x)
          /\ \E U \in SUBSET Room!Audience(m) : Room!Hear(U, Room!Say(m, x))
    BY Zenon
  <1>. QED
    BY <1>1, Zenon DEF Room!Shut

(* The only one in the room is cautioned, unless it cannot be; where that  *)
(* ends the process the room is shut (utility.h:82-86).                    *)
LEMMA TellAloneSpeaks ==
  ASSUME RoomInv, NEW c \in Conn, TellAlone(c)
  PROVE  (Room!SpeakAlone(c) \/ Room!Shut) /\ FreshOK' /\ WelcomeOK'
  <1>. USE DEF RoomInv
  <1>1. c \in InRoom /\ fdOf[c] # 0 /\ running = TRUE /\ fdOf' = fdOf
    BY EventInRoom DEF TellAlone, IInv, TypeOK
  <1>2. InRoom = {c} /\ InRoom' = InRoom
    BY <1>1, AloneInRoom DEF TellAlone, InRoom
  <1>3. PICK text \in 0 .. MaxMessages : text = TextIn(c) /\ Room!Takes(c, text)
    BY TakeStep DEF TellAlone
  <1>4. CASE Deliver({c}, CautionLine(c)) /\ running' = TRUE
    <2>1. CautionLine(c) \in Line /\ {c} \subseteq InRoom
      BY <1>1, EventOf, LineTypes DEF TellAlone, IInv
    <2>2. FreshOK' /\ WelcomeOK'
      BY <1>1, <1>4, <2>1, DeliverKeeps
    <2>3. Room!Hear({c}, [Room!Say(c, text) EXCEPT !.kind = "caution"])
      BY <1>1, <1>3, <1>4, SayIsSay DEF Deliver, Room!Hear
    <2>4. \E x \in 0 .. MaxMessages :
            /\ Room!Takes(c, x)
            /\ \/ Room!Hear({c}, [Room!Say(c, x) EXCEPT !.kind = "caution"])
               \/ UNCHANGED lines
      BY <1>3, <2>3, Zenon
    <2>5. running' = TRUE
      BY <1>4
    <2>6. Room!SpeakAlone(c)
      BY <1>1, <1>2, <2>4, <2>5 DEF Room!SpeakAlone
    <2>. QED
      BY <2>2, <2>6
  <1>5. CASE /\ link' = [link EXCEPT ![c] = IF @ = "reset" THEN "broken" ELSE @]
             /\ running' = (link[c] # "broken")
             /\ UNCHANGED <<lines, unread>>
    <2>1. \A d \in Conn : Waits(d)' => Waits(d) /\ link'[d] = link[d]
      BY <1>1, <1>5 DEF Waits, IInv, TypeOK
    <2>2. FreshOK' /\ WelcomeOK'
      BY <1>1, <1>5, <2>1 DEF FreshOK, WelcomeOK
    <2>3. CASE running'
      <3>1. \E x \in 0 .. MaxMessages :
              /\ Room!Takes(c, x)
              /\ \/ Room!Hear({c}, [Room!Say(c, x) EXCEPT !.kind = "caution"])
                 \/ UNCHANGED lines
        BY <1>3, <1>5, Zenon
      <3>2. running' = TRUE
        BY <1>5, <2>3
      <3>3. Room!SpeakAlone(c)
        BY <1>1, <1>2, <3>1, <3>2 DEF Room!SpeakAlone
      <3>. QED
        BY <2>2, <3>3
    <2>4. CASE ~ running'
      <3>1. {} \in SUBSET Room!Audience(c)
        OBVIOUS
      <3>2. Room!Hear({}, Room!Say(c, text))
        BY <1>5 DEF Room!Hear, IInv, TypeOK
      <3>3. running' = FALSE
        BY <1>5, <2>4
      <3>. QED
        BY <1>1, <1>2, <1>3, <2>2, <3>1, <3>2, <3>3, ShutsAmid
    <2>. QED
      BY <2>2, <2>3, <2>4
  <1>. QED
    BY <1>4, <1>5 DEF TellAlone

(* Everybody else hears a line, or, when a send() ends the process, some   *)
(* do (utility.h:87-95).                                                   *)
LEMMA BroadcastSpeaks ==
  ASSUME RoomInv, NEW c \in Conn, Broadcast(c)
  PROVE  (Room!Speak(c) \/ Room!Shut) /\ FreshOK' /\ WelcomeOK'
  <1>. USE DEF RoomInv
  <1>1. c \in InRoom /\ fdOf[c] # 0 /\ running = TRUE /\ fdOf' = fdOf
    BY EventInRoom DEF Broadcast, IInv, TypeOK
  <1>2. InRoom # {c} /\ InRoom' = InRoom
    BY <1>1, AloneInRoom DEF Broadcast, InRoom
  <1>3. PICK text \in 0 .. MaxMessages : text = TextIn(c) /\ Room!Takes(c, text)
    BY TakeStep DEF Broadcast
  <1>4. Behind(Others(fdOf[c])) = Room!Audience(c)
    BY <1>1, BehindOthers DEF Room!Audience
  <1>5. SayLine(c) \in Line /\ Room!Audience(c) \subseteq InRoom
    BY <1>1, EventOf, LineTypes DEF Broadcast, IInv, Room!Audience
  <1>6. CASE BroadcastAll(c) /\ running' = TRUE
    <2>1. Deliver(Room!Audience(c), SayLine(c))
      BY <1>4, <1>6 DEF BroadcastAll
    <2>2. FreshOK' /\ WelcomeOK'
      BY <1>1, <1>5, <2>1, DeliverKeeps
    <2>3. Room!Hear(Room!Audience(c), Room!Say(c, text))
      BY <1>1, <1>3, <2>1, SayIsSay DEF Deliver, Room!Hear
    <2>4. \E x \in 0 .. MaxMessages :
            Room!Hear(Room!Audience(c), Room!Say(c, x)) /\ Room!Takes(c, x)
      BY <1>3, <2>3, Zenon
    <2>5. Room!Speak(c)
      BY <1>1, <1>2, <1>6, <2>4 DEF Room!Speak
    <2>. QED
      BY <2>2, <2>5
  <1>7. CASE BroadcastPart(c) /\ running' = FALSE
    <2>1. PICK T \in SUBSET Room!Audience(c) : Deliver(T, SayLine(c))
      BY <1>4, <1>7 DEF BroadcastPart
    <2>2. FreshOK' /\ WelcomeOK'
      BY <1>1, <1>5, <2>1, DeliverKeeps
    <2>3. Room!Hear(T, Room!Say(c, text))
      BY <1>1, <1>3, <2>1, SayIsSay DEF Deliver, Room!Hear
    <2>4. Room!Shut
      BY <1>1, <1>2, <1>3, <1>7, <2>3, ShutsAmid
    <2>. QED
      BY <2>2, <2>4
  <1>. QED
    BY <1>6, <1>7 DEF Broadcast

(* A failing recv() shuts the room, at worst with an empty line that some  *)
(* have heard (utility.h:87-98, server.cpp:80).                            *)
LEMMA RecvErrorShuts ==
  ASSUME RoomInv, NEW c \in Conn, RecvError(c)
  PROVE  Room!Shut /\ FreshOK' /\ WelcomeOK'
  <1>. USE DEF RoomInv
  <1>1. /\ c \in InRoom /\ fdOf[c] # 0 /\ running /\ running' = FALSE
        /\ UNCHANGED <<fdOf, rcvd>>
    BY EventInRoom DEF RecvError
  <1>2. InRoom' = InRoom /\ [d \in Conn |-> Taken(d)]' = [d \in Conn |-> Taken(d)]
    BY <1>1 DEF InRoom, Taken
  <1>3. CASE Alone
    <2>1. UNCHANGED <<lines, unread, link>>
      BY <1>3 DEF RecvError
    <2>. QED
      BY <1>1, <1>2, <2>1 DEF Room!Shut, FreshOK, WelcomeOK, Waits, Taken
  <1>4. CASE ~ Alone
    <2>1. PICK T \in SUBSET Behind(Others(fdOf[c])) :
            Deliver(T, [SayLine(c) EXCEPT !.text = 0])
      BY <1>4 DEF RecvError
    <2>2. T \in SUBSET Room!Audience(c) /\ Room!Audience(c) \subseteq InRoom
      BY <1>1, <2>1, BehindOthers DEF Room!Audience
    <2>3. [SayLine(c) EXCEPT !.text = 0] \in Line
      BY EventOf, LineTypes DEF RecvError, IInv
    <2>4. FreshOK' /\ WelcomeOK'
      BY <1>1, <2>1, <2>2, <2>3, DeliverKeeps
    <2>5. Room!Hear(T, Room!Say(c, 0))
      BY <1>1, <2>1, SayIsSay DEF Deliver, Room!Hear
    <2>6. Taken(c) \in 0 .. MaxMessages /\ 0 \in 0 .. MaxMessages
      <3>1. rcvd[c] \in Nat /\ rcvd[c] <= BufSegments * MaxMessages
        <4>1. /\ rcvd[c] \in Nat /\ sent[c] \in Nat /\ rcvd[c] <= sent[c]
              /\ sent[c] <= BufSegments * MaxMessages
          BY DEF IInv, TypeOK, SentOK
        <4>2. BufSegments * MaxMessages \in Nat
          BY BufAssumption, BoundAssumption
        <4>. QED
          BY <4>1, <4>2
      <3>2. Taken(c) \in Nat
        BY <3>1, BufAssumption, Messages DEF Taken
      <3>3. Taken(c) <= MaxMessages
        BY <3>1, BufAssumption, BoundAssumption, MessagesBound DEF Taken
      <3>. QED
        BY <3>2, <3>3, BoundAssumption
    <2>7. Room!Takes(c, 0)
      <3>1. [d \in Conn |-> Taken(d)]' = [[d \in Conn |-> Taken(d)] EXCEPT ![c] = Taken(c)]
        BY <1>2
      <3>2. Taken(c) \in Taken(c) .. MaxMessages
        BY <2>6
      <3>3. \E k \in Taken(c) .. MaxMessages :
              /\ [d \in Conn |-> Taken(d)]' = [[d \in Conn |-> Taken(d)] EXCEPT ![c] = k]
              /\ 0 \in {0} \cup ({Taken(c) + 1} \cap (0 .. k))
        BY <3>1, <3>2
      <3>. QED
        BY <3>3 DEF Room!Takes, Taken
    <2>8. Room!Shut
      BY <1>1, <1>2, <2>2, <2>5, <2>6, <2>7, ShutsAmid
    <2>. QED
      BY <2>4, <2>8
  <1>. QED
    BY <1>3, <1>4

(* What is started stays within the messages all the clients may send, and *)
(* what is started goes on to its end only.                                *)
LEMMA SentStep == RoomInv /\ [Next]_vars => SentOK'
  <1>. SUFFICES ASSUME RoomInv, [Next]_vars PROVE SentOK'
    OBVIOUS
  <1>. USE DEF RoomInv, IInv
  <1>0. BufSegments \in Nat \ {0} /\ MaxMessages \in Nat /\ sent \in [Conn -> Nat]
    BY BufAssumption, BoundAssumption DEF TypeOK
  <1>1. ASSUME NEW c \in Conn, MessageStarts(c)
        PROVE  sent[c] + 1 <= BufSegments * MaxMessages
    <2>1. SUFFICES ASSUME sent[c] = BufSegments * MaxMessages PROVE FALSE
      <3>1. sent[c] <= BufSegments * MaxMessages /\ sent[c] \in Nat
        BY <1>0 DEF SentOK
      <3>2. BufSegments * MaxMessages \in Nat
        BY <1>0
      <3>. QED
        BY <2>1, <3>1, <3>2
    <2>2. ASSUME NEW m \in 0 .. MaxMessages - 1 PROVE BufSegments * m < sent[c]
      BY <1>0, <2>1
    <2>3. [m \in 0 .. MaxMessages - 1 |-> <<c, m>>] \in Injection(0 .. MaxMessages - 1, Started)
      BY <2>2 DEF Injection, IsInjective, Started
    <2>4. IsFiniteSet(Started)
      <3>0. IsFiniteSet(0 .. MaxMessages - 1)
        BY <1>0, FS_Interval
      <3>1. IsFiniteSet(Conn \X (0 .. MaxMessages - 1))
        BY <3>0, ConnAssumption, FS_Product
      <3>. QED
        BY <3>1, FS_Subset DEF Started
    <2>5. Cardinality(0 .. MaxMessages - 1) = MaxMessages
      BY <1>0, FS_Interval
    <2>6. MaxMessages <= Cardinality(Started)
      BY <2>3, <2>4, <2>5, FS_Injection
    <2>7. Cardinality(Started) \in Nat /\ Cardinality(Started) < MaxMessages
      BY <1>1, <2>4, FS_CardinalityType DEF MessageStarts
    <2>. QED
      BY <1>0, <2>6, <2>7
  <1>2. ASSUME NEW c \in Conn, MessageGoesOn(c)
        PROVE  sent[c] + 1 <= BufSegments * MaxMessages
    <2>1. sent[c] # BufSegments * MaxMessages
      <3>1. (BufSegments * MaxMessages) % BufSegments = 0
        BY <1>0, SMT
      <3>. QED
        BY <1>2, <3>1 DEF MessageGoesOn
    <2>2. sent[c] <= BufSegments * MaxMessages /\ sent[c] \in Nat
      BY <1>0 DEF SentOK
    <2>3. BufSegments * MaxMessages \in Nat
      BY <1>0
    <2>. QED
      BY <2>1, <2>2, <2>3
  <1>3. ASSUME NEW c \in Conn, SegmentArrives(c),
               sent[c] + 1 <= BufSegments * MaxMessages
        PROVE  SentOK'
    BY <1>0, <1>3 DEF SegmentArrives, SentOK
  <1>4. CASE UNCHANGED sent
    BY <1>4 DEF SentOK
  <1>5. UNCHANGED sent \/ \E c \in Conn : MessageStarts(c) \/ MessageGoesOn(c)
    BY DEF Next, Server, Handle, EpollWait, Accept, AcceptFails, Disconnect,
      TellAlone, Broadcast, RecvError, Client, Connect, PeerReads, PeerCloses,
      ResetReturns, vars
  <1>. QED
    BY <1>1, <1>2, <1>3, <1>4, <1>5 DEF MessageStarts, MessageGoesOn

(* The other steps change nothing the room knows of.                       *)
LEMMA OthersStutter ==
  ASSUME RoomInv, \/ EpollWait \/ UNCHANGED vars \/ \E c \in Conn : Client(c)
  PROVE  UNCHANGED Room!vars /\ FreshOK' /\ WelcomeOK'
  <1>. USE DEF RoomInv, IInv
  <1>1. UNCHANGED <<fdOf, running, rcvd, lines>>
    BY DEF EpollWait, vars, Client, Connect, MessageStarts, MessageGoesOn,
      SegmentArrives, PeerReads, PeerCloses, ResetReturns
  <1>2. UNCHANGED Room!vars
    BY <1>1 DEF Room!vars, InRoom
  <1>3. ASSUME NEW c \in Conn, Waits(c)'
        PROVE  link'[c] \in {"idle", "up", "fin"} /\ unread'[c] = 0
    <2>. USE DEF TypeOK
    <2>0. fdOf[c] = 0 /\ link'[c] # "gone"
      BY <1>1, <1>3 DEF Waits
    <2>1. CASE EpollWait \/ UNCHANGED vars
      BY <1>3, <2>0, <2>1 DEF EpollWait, vars, FreshOK, Waits
    <2>2. ASSUME NEW d \in Conn, Client(d)
          PROVE  link'[c] \in {"idle", "up", "fin"} /\ unread'[c] = 0
      <3>0. /\ link[c] # "gone" => link[c] \in {"idle", "up", "fin"} /\ unread[c] = 0
        BY <2>0 DEF FreshOK, Waits
      <3>1. CASE Connect(d)
        BY <2>0, <3>0, <3>1 DEF Connect
      <3>2. CASE SegmentArrives(d)
        BY <2>0, <3>0, <3>2 DEF SegmentArrives
      <3>3. CASE PeerReads(d)
        <4>1. link' = link /\ unread[c] = 0
          BY <2>0, <3>0, <3>3 DEF PeerReads
        <4>2. c # d
          BY <3>3, <4>1 DEF PeerReads
        <4>. QED
          BY <2>0, <3>0, <3>3, <4>1, <4>2 DEF PeerReads
      <3>4. CASE PeerCloses(d)
        <4>1. /\ unread' = [unread EXCEPT ![d] = 0] /\ link[d] = "up"
              /\ \/ unread[d] > 0 /\ link' = [link EXCEPT ![d] = "reset"]
                 \/ link' = [link EXCEPT ![d] = "fin"]
          BY <3>4 DEF PeerCloses
        <4>2. link[c] # "gone"
          BY <2>0, <4>1
        <4>3. CASE c = d
          <5>1. ~ (unread[d] > 0)
            BY <3>0, <4>2, <4>3
          <5>. QED
            BY <4>1, <4>3, <5>1
        <4>4. CASE c # d
          BY <3>0, <4>1, <4>2, <4>4
        <4>. QED
          BY <4>3, <4>4
      <3>5. CASE ResetReturns(d)
        <4>1. link' = [link EXCEPT ![d] = "broken"] /\ link[d] = "bounce" /\ unread' = unread
          BY <3>5 DEF ResetReturns
        <4>2. link[c] # "gone"
          BY <2>0, <4>1
        <4>. QED
          BY <3>0, <4>1, <4>2
      <3>. QED
        BY <2>2, <3>1, <3>2, <3>3, <3>4, <3>5 DEF Client, MessageStarts, MessageGoesOn
    <2>. QED
      BY <2>1, <2>2
  <1>4. ASSUME NEW c \in Conn, Waits(c)' PROVE lines'[c] = <<>>
    <2>1. CASE Waits(c)
      BY <1>1, <2>1 DEF FreshOK
    <2>2. CASE ~ Waits(c)
      <3>1. link[c] = "gone" /\ link'[c] # "gone"
        BY <1>1, <1>4, <2>2 DEF Waits
      <3>. QED
        BY <3>1 DEF TypeOK, EpollWait, vars, Client, Connect, MessageStarts, MessageGoesOn,
          SegmentArrives, PeerReads, PeerCloses, ResetReturns
    <2>. QED
      BY <2>1, <2>2
  <1>5. FreshOK'
    BY <1>3, <1>4 DEF FreshOK
  <1>6. WelcomeOK'
    BY <1>1 DEF WelcomeOK
  <1>. QED
    BY <1>2, <1>5, <1>6

(* A failing accept() shuts the room (server.cpp:59-60).                   *)
LEMMA AcceptFailsShuts ==
  ASSUME RoomInv, AcceptFails
  PROVE  Room!Shut /\ FreshOK' /\ WelcomeOK'
  <1>1. /\ running /\ running' = FALSE
        /\ UNCHANGED <<fdOf, rcvd, lines, link, unread>>
    BY DEF AcceptFails
  <1>2. UNCHANGED <<lines, [c \in Conn |-> Taken(c)]>> /\ UNCHANGED InRoom
    BY <1>1 DEF Taken, InRoom
  <1>3. Room!Shut
    BY <1>1, <1>2 DEF Room!Shut, Taken
  <1>. QED
    BY <1>1, <1>3 DEF RoomInv, FreshOK, WelcomeOK, Waits

(* Every step of the server is one of the room or changes nothing there.   *)
LEMMA StepIsRoomStep ==
  ASSUME RoomInv, [Next]_vars
  PROVE  [Room!Next]_(Room!vars) /\ FreshOK' /\ WelcomeOK'
  <1>1. CASE Accept
    <2>1. Head(backlog) \in Conn
      BY <1>1, AcceptEffect DEF RoomInv
    <2>2. Room!Join(Head(backlog)) /\ FreshOK' /\ WelcomeOK'
      BY <1>1, AcceptJoins
    <2>. QED
      BY <2>1, <2>2 DEF Room!Next
  <1>2. CASE AcceptFails
    BY <1>2, AcceptFailsShuts DEF Room!Next
  <1>3. ASSUME NEW c \in Conn, Handle(c)
        PROVE  [Room!Next]_(Room!vars) /\ FreshOK' /\ WelcomeOK'
    BY <1>3, DisconnectLeaves, TellAloneSpeaks, BroadcastSpeaks, RecvErrorShuts
    DEF Handle, Room!Next
  <1>4. CASE EpollWait \/ UNCHANGED vars \/ \E c \in Conn : Client(c)
    BY <1>4, OthersStutter
  <1>. QED
    BY <1>1, <1>2, <1>3, <1>4 DEF Next, Server

(* Before anybody connects all of it holds.                                *)
LEMMA InitRoomInv == Init => RoomInv
  <1>. SUFFICES ASSUME Init PROVE RoomInv
    OBVIOUS
  <1>1. IInv
    BY InitIInv
  <1>2. 0 <= BufSegments * MaxMessages
    BY BufAssumption, BoundAssumption
  <1>. QED
    BY <1>1, <1>2 DEF Init, RoomInv, FreshOK, WelcomeOK, SentOK

(* No step of the server breaks it: every handler of the loop, and all a   *)
(* client can do meanwhile.                                                *)
THEOREM RoomInvariance == Spec => []RoomInv
  <1>1. RoomInv /\ [Next]_vars => RoomInv'
    BY TypeStep, ListStep, BacklogStep, BatchStep, CauseStep, SentStep, StepIsRoomStep
    DEF RoomInv, IInv
  <1>. QED
    BY InitRoomInv, <1>1, PTL DEF Spec

(* The epoll loop, its list and its recv() and send() calls give the people*)
(* in the room what ChatRoom says they do.                                 *)
THEOREM ServerImplementsRoom == Spec => RefinesChatRoom
  <1>1. Init => Room!Init
    <2>. SUFFICES ASSUME Init PROVE Room!Init
      OBVIOUS
    <2>1. InRoom = {} /\ running = TRUE /\ lines = [c \in Conn |-> <<>>]
      BY DEF Init, InRoom
    <2>2. (0 + BufSegments - 1) \div BufSegments = 0
      BY BufAssumption
    <2>. QED
      BY <2>1, <2>2 DEF Init, Room!Init
  <1>2. RoomInv /\ [Next]_vars => [Room!Next]_(Room!vars)
    BY StepIsRoomStep
  <1>. QED
    BY RoomInvariance, <1>1, <1>2, PTL DEF Spec, RefinesChatRoom, Room!Spec

-----------------------------------------------------------------------------
(* The story told in the room.                                             *)

Said(s, n) == Room!SaidByOthers(s, n)

(* What others have said, line by line.                                    *)
LEMMA SaidUpTo ==
  ASSUME NEW s \in Seq(Line), NEW n
  PROVE  \E kept \in [0 .. Len(s) -> Seq(Line)] :
           /\ Room!SaidByOthers(s, n) = kept[Len(s)]
           /\ kept[0] = <<>>
           /\ \A i \in 1 .. Len(s) :
                kept[i] = IF s[i].kind = "say" /\ s[i].from # n
                            THEN Append(kept[i - 1], s[i]) ELSE kept[i - 1]
  <1>. DEFINE L == Len(s)
              Go(i, t) == IF s[i].kind = "say" /\ s[i].from # n THEN Append(t, s[i]) ELSE t
              step == [p \in (1 .. L) \X Seq(Line) |-> Go(p[1], p[2])]
              Def(f) == [i \in 0 .. L |-> IF i = 0 THEN <<>> ELSE Go(i, f[i - 1])]
              kept == CHOOSE f : f = Def(f)
  <1>1. L \in Nat /\ <<>> \in Seq(Line)
    OBVIOUS
  <1>2. Room!SaidByOthers(s, n) = kept[L]
    BY DEF Room!SaidByOthers
  <1>3. \A i \in 1 .. L, t \in Seq(Line) : Go(i, t) \in Seq(Line)
    OBVIOUS
  <1>. HIDE DEF Go, L
  <1>4. step \in [(1 .. L) \X Seq(Line) -> Seq(Line)]
    BY <1>3
  <1>5. \A i \in 1 .. L, t \in Seq(Line) : step[<<i, t>>] = Go(i, t)
    OBVIOUS
  <1>. HIDE DEF step
  <1>6. PICK f \in [0 .. L -> Seq(Line)] :
          f[0] = <<>> /\ \A i \in 1 .. L : f[i] = step[<<i, f[i - 1]>>]
    <2>1. CanRun(Seq(Line), <<>>, L, step)
      BY <1>1, <1>4, Recursion
    <2>. QED
      BY <2>1 DEF CanRun
  <1>7. \A i \in 0 .. L : f[i] = IF i = 0 THEN <<>> ELSE Go(i, f[i - 1])
    <2>1. ASSUME NEW i \in 1 .. L PROVE f[i] = Go(i, f[i - 1])
      <3>1. f[i - 1] \in Seq(Line)
        BY <1>1
      <3>. QED
        BY <1>5, <1>6, <3>1
    <2>. QED
      BY <1>1, <1>6, <2>1
  <1>8. f = Def(f)
    BY <1>7
  <1>9. kept = Def(kept)
    <2>. HIDE DEF Def
    <2>. QED
      BY <1>8
  <1>. HIDE DEF kept
  <1>10. /\ kept[0] = <<>> /\ DOMAIN kept = 0 .. L
         /\ \A i \in 1 .. L : kept[i] = Go(i, kept[i - 1])
    BY <1>1, <1>9
  <1>11. \A i \in 0 .. L : kept[i] \in Seq(Line)
    <2>1. \A i \in 1 .. L : kept[i - 1] \in Seq(Line) => kept[i] \in Seq(Line)
      BY <1>3, <1>10
    <2>. QED
      BY <1>1, <1>10, <2>1, RunType
  <1>12. kept \in [0 .. L -> Seq(Line)]
    BY <1>9, <1>11
  <1>. QED
    BY <1>2, <1>10, <1>12 DEF L, Go

(* Of no lines none is of another.                                         *)
LEMMA NothingSaid ==
  ASSUME NEW n PROVE Said(<<>>, n) = <<>>
  <1>1. PICK kept :
          /\ Room!SaidByOthers(<<>>, n) = kept[Len(<<>>)]
          /\ kept[0] = <<>>
    <2>. DEFINE none == <<>>
    <2>1. none \in Seq(Line)
      OBVIOUS
    <2>. HIDE DEF none
    <2>2. \E kept \in [0 .. Len(none) -> Seq(Line)] :
            /\ Room!SaidByOthers(none, n) = kept[Len(none)]
            /\ kept[0] = <<>>
      BY <2>1, SaidUpTo
    <2>. QED
      BY <2>2 DEF none
  <1>. QED
    BY <1>1 DEF Said

(* What is left of a member's lines are lines.                            *)
LEMMA SaidType ==
  ASSUME NEW s \in Seq(Line), NEW n PROVE Said(s, n) \in Seq(Line)
  <1>1. PICK kept \in [0 .. Len(s) -> Seq(Line)] : Said(s, n) = kept[Len(s)]
    BY SaidUpTo DEF Said
  <1>2. Len(s) \in 0 .. Len(s)
    OBVIOUS
  <1>. QED
    BY <1>1, <1>2

(* One more line counts if another than n said it.                         *)
LEMMA OneMoreSaid ==
  ASSUME NEW s \in Seq(Line), NEW n, NEW x \in Line
  PROVE  Said(Append(s, x), n) =
           IF x.kind = "say" /\ x.from # n THEN Append(Said(s, n), x) ELSE Said(s, n)
  <1>. DEFINE t == Append(s, x)
              Go(y, l) == IF y.kind = "say" /\ y.from # n THEN Append(l, y) ELSE l
  <1>1. /\ t \in Seq(Line) /\ Len(t) = Len(s) + 1 /\ t[Len(s) + 1] = x
        /\ \A i \in 1 .. Len(s) : t[i] = s[i]
        /\ Len(s) \in Nat
    OBVIOUS
  <1>. HIDE DEF t
  <1>2. PICK f \in [0 .. Len(s) -> Seq(Line)] :
          /\ Said(s, n) = f[Len(s)] /\ f[0] = <<>>
          /\ \A i \in 1 .. Len(s) : f[i] = Go(s[i], f[i - 1])
    BY SaidUpTo DEF Said
  <1>3. PICK g \in [0 .. Len(t) -> Seq(Line)] :
          /\ Said(t, n) = g[Len(t)] /\ g[0] = <<>>
          /\ \A i \in 1 .. Len(t) : g[i] = Go(t[i], g[i - 1])
    BY <1>1, SaidUpTo, SMTT(30) DEF Said
  <1>. HIDE DEF Go
  <1>4. \A i \in 1 .. Len(s) : f[i - 1] = g[i - 1] => f[i] = g[i]
    BY <1>1, <1>2, <1>3
  <1>5. f[Len(s)] = g[Len(s)]
    <2>1. f[0] = g[0]
      BY <1>2, <1>3
    <2>2. Alike(Len(s), f, g)
      BY <1>1, <1>4, <2>1, SameRun
    <2>. QED
      BY <1>1, <2>2 DEF Alike
  <1>6. g[Len(s) + 1] = Go(x, g[Len(s)])
    <2>1. Len(s) + 1 \in 1 .. Len(t) /\ Len(s) + 1 - 1 = Len(s)
      BY <1>1
    <2>. QED
      BY <1>1, <1>3, <2>1
  <1>. QED
    BY <1>1, <1>2, <1>3, <1>5, <1>6 DEF t, Go

-----------------------------------------------------------------------------
(* Two people who are present were told the same story.                    *)

Told(l, m, n) ==
  \/ IsSuffix(Said(l[m], n), Said(l[n], m))
  \/ IsSuffix(Said(l[n], m), Said(l[m], n))

(* The room's suffixes are those of the library.                           *)
LEMMA SameSuffix == \A s, t : Room!IsSuffix(s, t) <=> IsSuffix(s, t)
  BY DEF Room!IsSuffix, Room!IsPrefix, Room!Reverse, IsSuffix, IsPrefix, Reverse

(* One member is told no other story than itself.                          *)
LEMMA OwnStory ==
  ASSUME NEW l \in [Conn -> Seq(Line)], NEW m \in Conn
  PROVE  Told(l, m, m)
  <1>1. Said(l[m], m) \in Seq(Line)
    <2>1. l[m] \in Seq(Line)
      OBVIOUS
    <2>. QED
      BY <2>1, SaidType
  <1>. QED
    BY <1>1, SuffixSelf DEF Told

(* Who comes has heard nothing of anybody.                                 *)
LEMMA StoryOfJoin ==
  ASSUME lines \in [Conn -> Seq(Line)], lines' \in [Conn -> Seq(Line)],
         NEW c \in Conn, Room!Join(c), NEW n \in Conn
  PROVE  Told(lines', c, n) /\ Told(lines', n, c)
  <1>1. CASE n = c
    BY <1>1, OwnStory
  <1>2. CASE n # c
    <2>1. PICK id \in ClientFd :
            lines' = [m \in Conn |->
                        IF m \in {c} THEN Append(lines[m], [kind |-> "welcome", id |-> id, from |-> c, text |-> 0])
                        ELSE lines[m]]
      BY DEF Room!Join, Room!Hear
    <2>. DEFINE x == [kind |-> "welcome", id |-> id, from |-> c, text |-> 0]
    <2>2. lines[c] = <<>> /\ lines'[c] = Append(<<>>, x)
      BY <2>1 DEF Room!Join
    <2>3. x.kind # "say" /\ lines'[c] = <<x>>
      BY <2>2
    <2>4. x \in Line
      BY BoundAssumption DEF Line
    <2>. HIDE DEF x
    <2>5. Said(lines'[c], n) = <<>>
      <3>. DEFINE none == <<>>
      <3>1. none \in Seq(Line) /\ lines'[c] = Append(none, x)
        BY <2>2
      <3>2. Said(none, n) = none
        BY NothingSaid
      <3>. HIDE DEF none
      <3>3. Said(Append(none, x), n) = none
        BY <2>3, <2>4, <3>1, <3>2, OneMoreSaid
      <3>. QED
        BY <3>1, <3>3 DEF none
    <2>6. Said(lines'[n], c) \in Seq(Line)
      <3>1. lines'[n] \in Seq(Line)
        OBVIOUS
      <3>. QED
        BY <3>1, SaidType
    <2>. QED
      BY <2>5, <2>6, SuffixSelf DEF Told
  <1>. QED
    BY <1>1, <1>2

(* A line is told to all but its speaker, who leaves it out of the story.  *)
LEMMA StoryOfSpeak ==
  ASSUME lines \in [Conn -> Seq(Line)], lines' \in [Conn -> Seq(Line)],
         NEW c \in Conn, Room!Speak(c), NEW m \in InRoom, NEW n \in InRoom,
         Told(lines, m, n)
  PROVE  Told(lines', m, n)
  <1>1. PICK text \in 0 .. MaxMessages :
          Room!Hear(Room!Audience(c), Room!Say(c, text))
    BY DEF Room!Speak
  <1>. DEFINE x == Room!Say(c, text)
              s == lines[m]
              t == lines[n]
  <1>2. x.kind = "say" /\ x.from = c
    BY DEF Room!Say
  <1>3. m \in Conn /\ n \in Conn /\ s \in Seq(Line) /\ t \in Seq(Line)
    BY DEF InRoom
  <1>. HIDE DEF x
  <1>4. /\ lines'[m] = IF m = c THEN s ELSE Append(s, x)
        /\ lines'[n] = IF n = c THEN t ELSE Append(t, x)
    BY <1>1, <1>3 DEF Room!Hear, Room!Audience, x
  <1>. HIDE DEF s, t
  <1>5. SUFFICES ASSUME m # n PROVE Told(lines', m, n)
    BY <1>3, OwnStory
  <1>6. x \in Line
    <2>1. CASE m # c
      <3>1. Append(s, x) \in Seq(Line) /\ Len(Append(s, x)) = Len(s) + 1
            /\ Append(s, x)[Len(s) + 1] = x /\ Len(s) + 1 \in 1 .. Len(s) + 1
        BY <1>3, <1>4, <2>1
      <3>. QED
        BY <3>1
    <2>2. CASE n # c
      <3>1. Append(t, x) \in Seq(Line) /\ Len(Append(t, x)) = Len(t) + 1
            /\ Append(t, x)[Len(t) + 1] = x /\ Len(t) + 1 \in 1 .. Len(t) + 1
        BY <1>3, <1>4, <2>2
      <3>. QED
        BY <3>1
    <2>. QED
      BY <1>5, <2>1, <2>2
  <1>7. /\ Said(s, n) \in Seq(Line) /\ Said(t, m) \in Seq(Line)
        /\ Said(Append(s, x), n) = IF c # n THEN Append(Said(s, n), x) ELSE Said(s, n)
        /\ Said(Append(t, x), m) = IF c # m THEN Append(Said(t, m), x) ELSE Said(t, m)
    BY <1>2, <1>3, <1>6, SaidType, OneMoreSaid
  <1>8. IsSuffix(Said(s, n), Said(t, m)) \/ IsSuffix(Said(t, m), Said(s, n))
    BY DEF Told, s, t
  <1>9. CASE m = c \/ n = c
    BY <1>4, <1>5, <1>7, <1>8, <1>9 DEF Told
  <1>10. CASE m # c /\ n # c
    <2>1. \/ IsSuffix(Append(Said(s, n), x), Append(Said(t, m), x))
          \/ IsSuffix(Append(Said(t, m), x), Append(Said(s, n), x))
      BY <1>6, <1>7, <1>8, SuffixGrows
    <2>. QED
      BY <1>4, <1>7, <1>10, <2>1 DEF Told
  <1>. QED
    BY <1>9, <1>10

(* No step of the room gives two people who stay different stories.        *)
LEMMA StoryStep ==
  ASSUME SameStory, lines \in [Conn -> Seq(Line)], lines' \in [Conn -> Seq(Line)],
         [Room!Next]_(Room!vars)
  PROVE  SameStory'
  <1>. SUFFICES ASSUME running', NEW m \in InRoom', NEW n \in InRoom'
                PROVE  Told(lines', m, n)
    BY SameSuffix DEF SameStory, Room!SameStory, Room!FromOthers, Told, Said
  <1>1. m \in Conn /\ n \in Conn
    BY DEF InRoom
  <1>2. running => \A k, l \in InRoom : Told(lines, k, l)
    BY SameSuffix DEF SameStory, Room!SameStory, Room!FromOthers, Told, Said
  <1>3. ASSUME NEW c \in Conn, Room!Join(c) PROVE Told(lines', m, n)
    <2>1. CASE m = c \/ n = c
      BY <1>1, <1>3, <2>1, StoryOfJoin
    <2>2. CASE m # c /\ n # c
      <3>1. m \in InRoom /\ n \in InRoom /\ running
        BY <1>3, <2>2 DEF Room!Join
      <3>2. lines'[m] = lines[m] /\ lines'[n] = lines[n]
        BY <1>1, <1>3, <2>2 DEF Room!Join, Room!Hear
      <3>. QED
        BY <1>2, <3>1, <3>2 DEF Told
    <2>. QED
      BY <2>1, <2>2
  <1>4. ASSUME NEW c \in Conn, Room!Speak(c) PROVE Told(lines', m, n)
    <2>1. m \in InRoom /\ n \in InRoom /\ running
      BY <1>4 DEF Room!Speak
    <2>. QED
      BY <1>2, <1>4, <2>1, StoryOfSpeak
  <1>5. ASSUME NEW c \in Conn, Room!SpeakAlone(c) PROVE Told(lines', m, n)
    <2>1. m = c /\ n = c
      BY <1>5 DEF Room!SpeakAlone
    <2>. QED
      BY <1>5, <2>1, OwnStory
  <1>6. ASSUME NEW c \in Conn, Room!Leave(c) PROVE Told(lines', m, n)
    <2>1. m \in InRoom /\ n \in InRoom /\ running /\ lines' = lines
      BY <1>6 DEF Room!Leave
    <2>. QED
      BY <1>2, <2>1
  <1>7. CASE Room!Shut
    BY <1>7 DEF Room!Shut
  <1>8. CASE UNCHANGED Room!vars
    <2>1. m \in InRoom /\ n \in InRoom /\ running /\ lines' = lines
      BY <1>8 DEF Room!vars
    <2>. QED
      BY <1>2, <2>1
  <1>. QED
    BY <1>3, <1>4, <1>5, <1>6, <1>7, <1>8 DEF Room!Next

(* What two people in the room have heard of others is the same as far as  *)
(* both were there (utility.h:90-95).                                      *)
THEOREM StoryShared == Spec => []SameStory
  <1>1. Init => SameStory
    BY DEF Init, SameStory, Room!SameStory, InRoom
  <1>2. RoomInv /\ RoomInv' /\ SameStory /\ [Next]_vars => SameStory'
    <2>. SUFFICES ASSUME RoomInv, RoomInv', SameStory, [Next]_vars PROVE SameStory'
      OBVIOUS
    <2>1. lines \in [Conn -> Seq(Line)] /\ lines' \in [Conn -> Seq(Line)]
      BY DEF RoomInv, IInv, TypeOK
    <2>2. [Room!Next]_(Room!vars)
      BY StepIsRoomStep
    <2>. QED
      BY <2>1, <2>2, StoryStep
  <1>. QED
    BY RoomInvariance, <1>1, <1>2, PTL DEF Spec

=============================================================================
