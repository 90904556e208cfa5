-------------------------- MODULE ChatClientProofs --------------------------
(***************************************************************************)
(* Proofs about ChatClient, for any number of typed lines, server lines    *)
(* and segments.                                                           *)
(***************************************************************************)
EXTENDS ChatClient, SequenceLemmas

(* Every line shown had begun before the position recv() has reached, so   *)
(* that whatever is shown next has a greater number.                       *)
ShownIsPast ==
  \A j \in 1 .. Len(shown) : shown[j] # 0 => (shown[j] - 1) * BufSegments < got

(* What was typed and not lost: in what was sent, or in the pipe.  Each    *)
(* such line has been typed, so that the next one has a greater number.    *)
Lines == FlattenSeq(outbox) \o pipe
SentIsTyped == \A i \in 1 .. Len(Lines) : Lines[i] <= typed

(* The inductive invariant.                                                *)
CInv ==
  /\ TypeOK /\ BatchIsLive
  /\ ShownIsPast /\ ShownInOrder
  /\ SentIsTyped /\ SentInOrder

-----------------------------------------------------------------------------
(* Arithmetic of a stream of lines of b segments.                          *)

LEMMA DivMod ==
  ASSUME NEW a \in Nat, NEW b \in Nat \ {0}
  PROVE  /\ a \div b \in Nat /\ a % b \in 0 .. b - 1
         /\ a = b * (a \div b) + (a % b)
  BY SMT

(* Lines before a position are those whose number is small enough.         *)
LEMMA Factor ==
  ASSUME NEW x \in Int, NEW y \in Int, NEW b \in Nat \ {0}, x * b < y * b
  PROVE  x < y
  BY SMT

(* Between two ends of lines there is room for one more segment.           *)
LEMMA OneMore ==
  ASSUME NEW a \in Nat, NEW m \in Nat, NEW b \in Nat \ {0}, a <= b * m,
         a % b = 0 => a < b * m
  PROVE  a + 1 <= b * m
  <1>1. a = b * m => a % b = 0
    BY SMT
  <1>. DEFINE e == b * m
              r == a % b
  <1>2. e \in Int /\ (a <= e) /\ (r = 0 => a < e) /\ (a = e => r = 0)
    BY <1>1
  <1>3. SUFFICES a + 1 <= e
    OBVIOUS
  <1>. HIDE DEF e, r
  <1>. QED
    BY <1>2

(* What is shown is nothing or the line that begins at the position.       *)
LEMMA TextBounds ==
  ASSUME TypeOK, got < came
  PROVE  /\ TextAt(got) \in 0 .. MaxLines
         /\ TextAt(got) # 0 => (TextAt(got) - 1) * BufSegments = got
  <1>. DEFINE d == got \div BufSegments
              e == BufSegments * MaxLines
  <1>1. /\ got \in Nat /\ BufSegments \in Nat \ {0} /\ MaxLines \in Nat
        /\ came \in 0 .. e /\ e \in Nat
    BY BufAssumption, BoundAssumption DEF TypeOK
  <1>2. CASE got % BufSegments # 0
    BY <1>1, <1>2 DEF TextAt
  <1>3. CASE got % BufSegments = 0
    <2>1. TextAt(got) = d + 1
      BY <1>3 DEF TextAt
    <2>2. d \in Nat /\ got = BufSegments * d + (got % BufSegments)
      BY <1>1, DivMod
    <2>3. got = BufSegments * d
      BY <1>1, <1>3, <2>2
    <2>4. got < e
      BY <1>1
    <2>. HIDE DEF d
    <2>5. d * BufSegments = BufSegments * d /\ e = MaxLines * BufSegments
      BY <1>1, <2>2
    <2>6. d * BufSegments < MaxLines * BufSegments
      BY <2>3, <2>4, <2>5
    <2>7. d < MaxLines
      BY <1>1, <2>2, <2>6, Factor
    <2>8. d + 1 \in 0 .. MaxLines
      BY <1>1, <2>2, <2>7
    <2>9. (TextAt(got) - 1) * BufSegments = got
      <3>1. d \in Nat
        BY <2>2
      <3>2. TextAt(got) - 1 = d
        BY <2>1, <3>1
      <3>. QED
        BY <2>3, <2>5, <3>2, Zenon
    <2>10. TextAt(got) \in 0 .. MaxLines
      BY <2>1, <2>8, Zenon
    <2>. QED
      BY <2>9, <2>10, Zenon
  <1>. QED
    BY <1>2, <1>3

(* recv() advances, and not beyond what has come.                          *)
LEMMA RecvBounds ==
  ASSUME TypeOK, got < came
  PROVE  got + RecvLength \in got + 1 .. came
  <1>1. got \in Nat /\ came \in Nat /\ BufSegments \in Nat \ {0}
    <2>1. BufSegments * MaxLines \in Nat
      BY BufAssumption, BoundAssumption
    <2>. QED
      BY <2>1, BufAssumption DEF TypeOK
  <1>. QED
    BY <1>1 DEF RecvLength

-----------------------------------------------------------------------------
(* Each step keeps the invariant.                                          *)

LEMMA InitCInv == Init => CInv
  <1>. SUFFICES ASSUME Init PROVE CInv
    OBVIOUS
  <1>1. BufSegments * MaxLines \in Nat
    BY BufAssumption, BoundAssumption
  <1>2. Lines = <<>>
    BY FlattenEmpty, ConcatEmptySeq, EmptySeq DEF Init, Lines
  <1>3. SentIsTyped /\ SentInOrder
    BY <1>2 DEF SentIsTyped, SentInOrder, Lines
  <1>. QED
    BY <1>1, <1>3, BufAssumption, RoomAssumption, BoundAssumption
    DEF Init, CInv, TypeOK, BatchIsLive, ShownIsPast, ShownInOrder

LEMMA TypeStep == TypeOK /\ [Next]_vars => TypeOK'
  <1>. SUFFICES ASSUME TypeOK, [Next]_vars
                PROVE  TypeOK'
    OBVIOUS
  <1>. USE DEF user, stream, sending
  <1>e. BufSegments * MaxLines \in Nat
    BY BufAssumption, BoundAssumption
  <1>1. CASE UNCHANGED vars
    BY <1>1 DEF vars, TypeOK
  <1>2. CASE TypeLine
    <2>1. typed + 1 \in 1 .. MaxTyped /\ typed' \in 0 .. MaxTyped
      BY <1>2, BoundAssumption DEF TypeOK, TypeLine
    <2>2. pipe' \in Seq(1 .. MaxTyped)
      <3>. DEFINE S == 1 .. MaxTyped
      <3>1. pipe \in Seq(S) /\ typed' \in S
        BY <1>2, <2>1 DEF TypeOK, TypeLine
      <3>2. pipe' = pipe \/ pipe' = Append(pipe, typed')
        BY <1>2 DEF TypeLine
      <3>. HIDE DEF S
      <3>3. pipe' \in Seq(S)
        BY <3>1, <3>2
      <3>. QED
        BY <3>3 DEF S
    <2>. QED
      BY <1>2, <2>1, <2>2 DEF TypeOK, TypeLine, Acts, Settled
  <1>3. CASE TypeExit
    BY <1>3 DEF TypeOK, TypeExit, Acts, Settled
  <1>4. CASE EpollWait
    BY <1>4 DEF TypeOK, EpollWait
  <1>5. CASE Receive
    <2>1. CASE got < came
      <3>1. UNCHANGED <<user, ready, came, sending, calm>> /\ events' = Handled("sock")
        BY <1>5 DEF Receive
      <3>2. /\ got' = got + RecvLength /\ shown' = Append(shown, TextAt(got))
            /\ UNCHANGED <<isClientwork, link>>
        BY <1>5, <2>1, <1>e DEF Receive, StreamEnd, TypeOK
      <3>3. got' \in 0 .. came'
        <4>1. got + RecvLength \in got + 1 .. came
          BY <2>1, RecvBounds
        <4>. QED
          BY <3>1, <3>2, <4>1, <1>e DEF TypeOK
      <3>4. shown' \in Seq(0 .. MaxLines)
        <4>1. TextAt(got) \in 0 .. MaxLines
          BY <2>1, TextBounds
        <4>. QED
          BY <3>2, <4>1 DEF TypeOK
      <3>. QED
        BY <3>1, <3>2, <3>3, <3>4 DEF TypeOK, Handled
    <2>2. CASE ~ (got < came)
      <3>. DEFINE S == 0 .. MaxLines
      <3>1. 0 \in S /\ shown \in Seq(S)
        BY BoundAssumption DEF TypeOK
      <3>2. shown' = shown \/ shown' = Append(shown, 0)
        BY <1>5, <2>2 DEF Receive, Zeroed
      <3>. HIDE DEF S
      <3>3. shown' \in Seq(S)
        BY <3>1, <3>2
      <3>4. shown' \in Seq(0 .. MaxLines)
        BY <3>3 DEF S
      <3>. QED
        BY <1>5, <2>2, <3>4 DEF TypeOK, Receive, Handled
    <2>. QED
      BY <2>1, <2>2
  <1>6. CASE ReadEnd
    BY <1>6 DEF TypeOK, ReadEnd, Handled
  <1>7. CASE Forward
    <2>1. pipe' = <<>>
      BY <1>7 DEF Forward
    <2>4. pipe' \in Seq(1 .. MaxTyped)
      BY <2>1
    <2>5. link' \in {"up", "fin", "bounce", "broken", "reset"}
      BY <1>7 DEF TypeOK, Forward
    <2>6. events' \subseteq {"sock", "pipe"} /\ isClientwork' \in BOOLEAN
      BY <1>7 DEF TypeOK, Forward, Handled
    <2>7. UNCHANGED <<child, typed, ready, stream, calm>>
      BY <1>7 DEF Forward
    <2>2. inNet' \in 0 .. SendRoom
      BY <1>7, RoomAssumption DEF TypeOK, Forward
    <2>3. outbox' \in Seq(Seq(1 .. MaxTyped))
      <3>. DEFINE S == Seq(1 .. MaxTyped)
      <3>1. outbox \in Seq(S) /\ pipe \in S
        BY DEF TypeOK
      <3>2. outbox' = outbox \/ outbox' = Append(outbox, pipe)
        BY <1>7 DEF Forward, Message
      <3>. HIDE DEF S
      <3>3. outbox' \in Seq(S)
        BY <3>1, <3>2
      <3>. QED
        BY <3>3 DEF S
    <2>. QED
      BY <2>2, <2>3, <2>4, <2>5, <2>6, <2>7 DEF TypeOK
  <1>8. CASE SegmentArrives
    <2>1. came + 1 <= BufSegments * MaxLines
      <3>1. came \in Nat /\ came <= BufSegments * MaxLines
        BY <1>e DEF TypeOK
      <3>2. came % BufSegments = 0 => came < BufSegments * MaxLines
        BY <1>8 DEF SegmentArrives, LineStarts
      <3>. QED
        BY <3>1, <3>2, OneMore, BufAssumption, BoundAssumption
    <2>2. came' \in 0 .. BufSegments * MaxLines /\ got' \in 0 .. came'
      BY <1>8, <2>1, <1>e DEF TypeOK, SegmentArrives
    <2>. QED
      BY <1>8, <2>2 DEF TypeOK, SegmentArrives, Acts, Settled
  <1>9. CASE ServerTakes
    BY <1>9, RoomAssumption DEF TypeOK, ServerTakes
  <1>10. CASE ServerEnds
    BY <1>10, RoomAssumption DEF TypeOK, ServerEnds, Acts, Settled
  <1>11. CASE ResetReturns
    BY <1>11 DEF TypeOK, ResetReturns
  <1>. QED
    BY <1>1, <1>2, <1>3, <1>4, <1>5, <1>6, <1>7, <1>8, <1>9, <1>10, <1>11 DEF Next, Parent

(* Only recv() shows a line, and it comes after those shown before.        *)
LEMMA ShownStep ==
  ASSUME CInv, [Next]_vars
  PROVE  ShownIsPast' /\ ShownInOrder'
  <1>. USE DEF CInv
  <1>1. /\ got \in Nat /\ BufSegments \in Nat \ {0} /\ shown \in Seq(0 .. MaxLines)
        /\ MaxLines \in Nat /\ Len(shown) \in Nat
        /\ \A j \in 1 .. Len(shown) : shown[j] \in Nat
    <2>1. shown \in Seq(0 .. MaxLines) /\ MaxLines \in Nat /\ BufSegments \in Nat \ {0}
      BY BufAssumption, BoundAssumption DEF TypeOK
    <2>2. BufSegments * MaxLines \in Nat
      BY <2>1
    <2>3. got \in Nat
      BY <2>2 DEF TypeOK
    <2>. QED
      BY <2>1, <2>3
  <1>2. CASE UNCHANGED <<got, shown>>
    BY <1>2 DEF ShownIsPast, ShownInOrder
  <1>3. ASSUME NEW t \in 0 .. MaxLines, shown' = Append(shown, t), got' \in Nat, got <= got',
               t # 0 => (t - 1) * BufSegments = got /\ got < got'
        PROVE  ShownIsPast' /\ ShownInOrder'
    <2>1. /\ Len(shown') = Len(shown) + 1 /\ shown'[Len(shown) + 1] = t
          /\ \A j \in 1 .. Len(shown) : shown'[j] = shown[j]
      BY <1>1, <1>3
    <2>2. ASSUME NEW j \in 1 .. Len(shown'), shown'[j] # 0
          PROVE  (shown'[j] - 1) * BufSegments < got'
      <3>1. CASE j = Len(shown) + 1
        BY <1>3, <2>1, <2>2, <3>1
      <3>2. CASE j # Len(shown) + 1
        <4>1. j \in 1 .. Len(shown) /\ shown'[j] = shown[j]
          BY <1>1, <2>1, <3>2
        <4>. DEFINE e == (shown[j] - 1) * BufSegments
        <4>2. e < got /\ e \in Int
          BY <1>1, <2>2, <4>1 DEF ShownIsPast
        <4>3. (shown'[j] - 1) * BufSegments = e
          BY <4>1
        <4>. HIDE DEF e
        <4>4. e < got'
          BY <1>1, <1>3, <4>2
        <4>. QED
          BY <4>3, <4>4
      <3>. QED
        BY <3>1, <3>2
    <2>3. ASSUME NEW i \in 1 .. Len(shown'), NEW j \in 1 .. Len(shown'), i < j, shown'[j] # 0
          PROVE  shown'[i] < shown'[j]
      <3>1. i \in 1 .. Len(shown) /\ shown'[i] = shown[i] /\ shown[i] \in Nat
        BY <1>1, <2>1, <2>3
      <3>2. CASE j = Len(shown) + 1
        <4>1. shown'[j] = t /\ t # 0 /\ (t - 1) * BufSegments = got /\ t \in Nat
          BY <1>1, <1>3, <2>1, <2>3, <3>2
        <4>2. CASE shown[i] = 0
          BY <3>1, <4>1, <4>2
        <4>3. CASE shown[i] # 0
          <5>1. (shown[i] - 1) * BufSegments < (t - 1) * BufSegments
            BY <3>1, <4>1, <4>3 DEF ShownIsPast
          <5>2. shown[i] - 1 < t - 1
            BY <1>1, <3>1, <4>1, <5>1, Factor
          <5>. QED
            BY <3>1, <4>1, <5>2
        <4>. QED
          BY <4>2, <4>3
      <3>3. CASE j # Len(shown) + 1
        <4>1. j \in 1 .. Len(shown) /\ shown'[j] = shown[j]
          BY <1>1, <2>1, <3>3
        <4>. QED
          BY <2>3, <3>1, <4>1 DEF ShownInOrder
      <3>. QED
        BY <3>2, <3>3
    <2>. QED
      BY <2>2, <2>3 DEF ShownIsPast, ShownInOrder
  <1>4. CASE Receive
    <2>1. CASE got < came
      <3>1. got' = got + RecvLength /\ shown' = Append(shown, TextAt(got))
        BY <1>4, <2>1, <1>1 DEF Receive, StreamEnd
      <3>2. TextAt(got) \in 0 .. MaxLines /\ (TextAt(got) # 0 => (TextAt(got) - 1) * BufSegments = got)
        BY <2>1, TextBounds
      <3>3. got + RecvLength \in got + 1 .. came
        BY <2>1, RecvBounds
      <3>4. got' \in Nat /\ got < got' /\ got <= got'
        BY <1>1, <3>1, <3>3
      <3>. QED
        BY <1>3, <3>1, <3>2, <3>4
    <2>2. CASE ~ (got < came)
      <3>1. got' = got
        BY <1>4, <2>2 DEF Receive
      <3>2. CASE UNCHANGED shown
        BY <1>2, <3>1, <3>2
      <3>3. CASE shown' = Append(shown, 0)
        <4>1. 0 \in 0 .. MaxLines /\ got' \in Nat /\ got <= got'
          BY <1>1, <3>1
        <4>. QED
          BY <1>3, <3>3, <4>1
      <3>. QED
        BY <1>4, <2>2, <3>2, <3>3 DEF Receive, Zeroed
    <2>. QED
      BY <2>1, <2>2
  <1>5. CASE ~ Receive
    <2>1. UNCHANGED <<got, shown>>
      BY <1>5 DEF Next, vars, stream, TypeLine, TypeExit, Parent, EpollWait, ReadEnd, Forward,
                  SegmentArrives, ServerTakes, ServerEnds, ResetReturns
    <2>. QED
      BY <1>2, <2>1
  <1>. QED
    BY <1>4, <1>5

(* The lines stay as they are when the pipe is read, lose the last ones if *)
(* they are not sent, and gain one when one is typed.                      *)
LEMMA SentStep ==
  ASSUME CInv, [Next]_vars
  PROVE  SentIsTyped' /\ SentInOrder'
  <1>. DEFINE S == 1 .. MaxTyped
              flat == FlattenSeq(outbox)
  <1>1. typed \in Int /\ flat \in Seq(S) /\ pipe \in Seq(S) /\ outbox \in Seq(Seq(S))
    BY BoundAssumption, FlattenType DEF CInv, TypeOK
  <1>. HIDE DEF S
  <1>2. /\ Lines \in Seq(S) /\ Len(Lines) = Len(flat) + Len(pipe)
        /\ Len(flat) \in Nat /\ Len(pipe) \in Nat
        /\ \A i \in 1 .. Len(flat) : Lines[i] = flat[i]
    BY <1>1, ConcatProperties DEF Lines
  <1>3. /\ \A i \in 1 .. Len(Lines) : Lines[i] <= typed
        /\ \A i, j \in 1 .. Len(Lines) : i < j => Lines[i] < Lines[j]
    BY DEF CInv, SentIsTyped, SentInOrder, Lines
  <1>4. SUFFICES /\ \A i \in 1 .. Len(Lines') : Lines'[i] <= typed'
                 /\ \A i, j \in 1 .. Len(Lines') : i < j => Lines'[i] < Lines'[j]
    BY DEF SentIsTyped, SentInOrder, Lines
  <1>5. CASE TypeLine
    <2>1. typed' = typed + 1 /\ outbox' = outbox /\ typed' \in S
      BY <1>1, <1>5, BoundAssumption DEF TypeLine, sending, CInv, TypeOK, S
    <2>2. CASE pipe' = pipe
      <3>1. Lines' = Lines
        BY <2>1, <2>2 DEF Lines
      <3>2. \A i \in 1 .. Len(Lines) : Lines[i] \in Int
        <4>1. \A i \in 1 .. Len(Lines) : Lines[i] \in S
          BY <1>2
        <4>. QED
          BY <4>1 DEF S
      <3>. QED
        BY <1>1, <1>3, <2>1, <3>1, <3>2
    <2>3. CASE pipe' = Append(pipe, typed')
      <3>1. Lines' = flat \o Append(pipe, typed')
        BY <2>1, <2>3 DEF Lines
      <3>2. /\ Len(Lines') = Len(Lines) + 1 /\ Lines'[Len(Lines) + 1] = typed'
            /\ \A i \in 1 .. Len(Lines) : Lines'[i] = Lines[i]
        BY <1>1, <2>1, <3>1, PutBehind DEF Lines
      <3>3. \A i \in 1 .. Len(Lines) : Lines[i] \in Int
        <4>1. \A i \in 1 .. Len(Lines) : Lines[i] \in S
          BY <1>2
        <4>. QED
          BY <4>1 DEF S
      <3>4. ASSUME NEW i \in 1 .. Len(Lines') PROVE Lines'[i] <= typed'
        <4>1. CASE i = Len(Lines) + 1
          BY <1>1, <2>1, <3>2, <4>1
        <4>2. CASE i # Len(Lines) + 1
          <5>1. i \in 1 .. Len(Lines)
            BY <1>2, <3>2, <4>2
          <5>. QED
            BY <1>1, <1>3, <2>1, <3>2, <3>3, <5>1
        <4>. QED
          BY <4>1, <4>2
      <3>5. ASSUME NEW i \in 1 .. Len(Lines'), NEW j \in 1 .. Len(Lines'), i < j
            PROVE  Lines'[i] < Lines'[j]
        <4>0. i \in 1 .. Len(Lines)
          BY <1>2, <3>2, <3>5
        <4>1. CASE j = Len(Lines) + 1
          BY <1>1, <1>3, <2>1, <3>2, <3>3, <4>0, <4>1
        <4>2. CASE j # Len(Lines) + 1
          <5>1. j \in 1 .. Len(Lines)
            BY <1>2, <3>2, <4>2
          <5>. QED
            BY <1>3, <3>2, <3>5, <4>0, <5>1
        <4>. QED
          BY <4>1, <4>2
      <3>. QED
        BY <3>4, <3>5
    <2>. QED
      BY <1>5, <2>2, <2>3 DEF TypeLine
  <1>6. CASE Forward
    <2>1. pipe' = <<>> /\ typed' = typed /\ (outbox' = outbox \/ outbox' = Append(outbox, pipe))
      BY <1>6 DEF Forward, Message, sending
    <2>2. CASE outbox' = Append(outbox, pipe)
      <3>1. FlattenSeq(outbox') = flat \o pipe
        BY <1>1, <2>2, FlattenAppend
      <3>2. Lines' = Lines
        BY <1>2, <2>1, <3>1, ConcatEmptySeq DEF Lines
      <3>. QED
        BY <1>3, <2>1, <3>2
    <2>3. CASE outbox' = outbox
      <3>1. Lines' = flat
        BY <1>1, <2>1, <2>3, ConcatEmptySeq DEF Lines
      <3>2. \A i \in 1 .. Len(flat) : i \in 1 .. Len(Lines) /\ Lines[i] = flat[i]
        BY <1>2
      <3>. HIDE DEF flat
      <3>. QED
        BY <1>3, <2>1, <3>1, <3>2
    <2>. QED
      BY <2>1, <2>2, <2>3
  <1>7. CASE ~ TypeLine /\ ~ Forward
    <2>1. UNCHANGED <<typed, pipe, outbox>>
      BY <1>7 DEF Next, vars, user, sending, TypeExit, Parent, EpollWait, ReadEnd, Receive,
                  SegmentArrives, ServerTakes, ServerEnds, ResetReturns
    <2>2. Lines' = Lines
      BY <2>1 DEF Lines
    <2>. QED
      BY <1>3, <2>1, <2>2
  <1>. QED
    BY <1>5, <1>6, <1>7

(* No handler takes away what another event of the batch is about.         *)
LEMMA BatchStep ==
  ASSUME TypeOK, BatchIsLive, [Next]_vars
  PROVE  BatchIsLive'
  <1>e. got \in Nat /\ came \in Nat
    <2>1. BufSegments * MaxLines \in Nat
      BY BufAssumption, BoundAssumption
    <2>. QED
      BY <2>1 DEF TypeOK
  <1>. USE DEF user, stream, sending, BatchIsLive, Pending, SockPending, PipePending, Ended
  <1>1. CASE UNCHANGED vars
    BY <1>1 DEF vars
  <1>2. CASE TypeLine
    BY <1>2 DEF TypeLine
  <1>3. CASE TypeExit
    BY <1>3 DEF TypeExit
  <1>4. CASE EpollWait
    BY <1>4 DEF EpollWait
  <1>5. CASE Receive
    BY <1>5 DEF Receive, Handled
  <1>6. CASE ReadEnd
    BY <1>6 DEF ReadEnd, Handled
  <1>7. CASE Forward
    BY <1>7 DEF Forward, Handled
  <1>8. CASE SegmentArrives
    BY <1>8, <1>e DEF SegmentArrives
  <1>9. CASE ServerTakes
    BY <1>9 DEF ServerTakes
  <1>10. CASE ServerEnds
    BY <1>10 DEF ServerEnds
  <1>11. CASE ResetReturns
    BY <1>11 DEF ResetReturns
  <1>. QED
    BY <1>1, <1>2, <1>3, <1>4, <1>5, <1>6, <1>7, <1>8, <1>9, <1>10, <1>11 DEF Next, Parent

-----------------------------------------------------------------------------
(* Theorems.                                                               *)

LEMMA Invariance == Spec => []CInv
  <1>1. CInv /\ [Next]_vars => CInv'
    BY TypeStep, ShownStep, SentStep, BatchStep DEF CInv
  <1>. QED
    BY InitCInv, <1>1, PTL DEF Spec

(* The state is well-typed: recv() never takes more than has come, and     *)
(* what is shown is a line the server has sent, or blank.                  *)
THEOREM ClientTyped == Spec => []TypeOK
  <1>1. CInv => TypeOK
    BY DEF CInv
  <1>. QED
    BY Invariance, <1>1, PTL

(* The user sees the server's lines in order and none twice, however the   *)
(* stream is cut into segments and edges (client.cpp:80-87).               *)
THEOREM LinesInOrder == Spec => []ShownInOrder
  <1>1. CInv => ShownInOrder
    BY DEF CInv
  <1>. QED
    BY Invariance, <1>1, PTL

(* What the server is sent are typed lines, in the order in which they were*)
(* typed and none twice, whatever read() and send() do with several of them*)
(* at once (client.cpp:62, 91-96).                                         *)
THEOREM MessagesInOrder == Spec => []SentInOrder
  <1>1. CInv => SentInOrder
    BY DEF CInv
  <1>. QED
    BY Invariance, <1>1, PTL

(* No event of a batch is made untrue by the handlers before it            *)
(* (client.cpp:74-99).                                                     *)
THEOREM BatchHolds == Spec => []BatchIsLive
  <1>1. CInv => BatchIsLive
    BY DEF CInv
  <1>. QED
    BY Invariance, <1>1, PTL

=============================================================================
