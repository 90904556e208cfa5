-------------------------- MODULE SmallToolsProofs --------------------------
(***************************************************************************)
(* Proofs about the two programs that neither wait nor share anything: the *)
(* calculator, for every expression its grammar gives, and the calendar,   *)
(* for every year it prints.                                               *)
(***************************************************************************)
EXTENDS Calculator, Calendar, SequenceLemmas

Char == Number \cup Operator \cup {"(", ")", Blank, LF}

(* The machine: what the two loops do from a configuration, for a line.    *)
Config(a, i, N, O) == [at |-> a, p |-> i, nums |-> N, ops |-> O]
NoPart(ln, i) == SelectInSubSeq(ln, i, Len(ln), LAMBDA t : t \notin Number \cup {Blank})
TopOf(O) == IF O = <<>> THEN "none" ELSE Last(O)
Joined(N, op) ==
  LET num1 == Popped(N)
      num2 == Popped(num1.rest)
  IN Append(num2.rest, num2.val \o num1.val \o <<op>>)
Dropped(N) == Popped(Popped(N).rest).rest

ScanMove(ln, c, d) ==
  LET q == NoPart(ln, c.p) IN
  \/ ln[q] = "(" /\ d = Config("op", q, c.nums, c.ops)
  \/ ln[q] # "(" /\ d = Config("op", q, Append(c.nums, Atof(SubSeq(ln, c.p, q - 1))), c.ops)
  \/ ln[q] # "(" /\ q = c.p /\ d = Config("op", q, c.nums, c.ops)
OpMove(ln, c, d) ==
  LET top == TopOf(c.ops)
      next == ln[c.p] IN
  \/ /\ top = "none" \/ Deeper(top, next)
     /\ d = Config(IF c.p < Len(ln) THEN "scan" ELSE "print", c.p + 1, c.nums, Append(c.ops, next))
  \/ ~ Deeper(top, next) /\ Closes(top, next) /\ d = Config("op", c.p + 1, c.nums, Front(c.ops))
  \/ /\ top # "none" /\ ~ Deeper(top, next) /\ ~ Closes(top, next)
     /\ d = IF top \in Operator THEN Config("op", c.p, Joined(c.nums, top), Front(c.ops))
            ELSE Config("exit", c.p, Dropped(c.nums), Front(c.ops))
Moves(ln, c, d) == (c.at = "scan" /\ ScanMove(ln, c, d)) \/ (c.at = "op" /\ OpMove(ln, c, d))

(* A configuration is good if all that may follow is right: what is        *)
(* printed is v, and the program only exits because of a blank behind ")". *)
Right(ln, v, c) ==
  /\ c.at = "print" => c.nums # <<>> /\ Last(c.nums) = v
  /\ c.at = "exit" => ~ Tight(ln)
GoodSet(ln, v, S) == \A c \in S : Right(ln, v, c) /\ \A d : Moves(ln, c, d) => d \in S
Good(ln, v, c) == \E S : c \in S /\ GoodSet(ln, v, S)

LEMMA GoodGoesOn ==
  ASSUME NEW ln, NEW v, NEW c, NEW d, Good(ln, v, c), Moves(ln, c, d)
  PROVE  Good(ln, v, d)
  BY DEF Good, GoodSet

LEMMA GoodIsRight ==
  ASSUME NEW ln, NEW v, NEW c, Good(ln, v, c)
  PROVE  Right(ln, v, c)
  BY DEF Good, GoodSet

LEMMA GoodBefore ==
  ASSUME NEW ln, NEW v, NEW c, NEW d, NEW e, Good(ln, v, d), Good(ln, v, e),
         Right(ln, v, c), \A x : Moves(ln, c, x) => x = d \/ x = e
  PROVE  Good(ln, v, c)
  <1>1. PICK S : d \in S /\ GoodSet(ln, v, S)
    BY DEF Good
  <1>2. PICK T : e \in T /\ GoodSet(ln, v, T)
    BY DEF Good
  <1>3. GoodSet(ln, v, {c} \cup S \cup T)
    BY <1>1, <1>2 DEF GoodSet
  <1>. QED
    BY <1>3 DEF Good

(* One step from a configuration.                                          *)
LEMMA GoodIfPushed ==
  ASSUME NEW ln, NEW v, NEW i, NEW N, NEW O,
         TopOf(O) = "none" \/ Deeper(TopOf(O), ln[i]),
         Good(ln, v, Config(IF i < Len(ln) THEN "scan" ELSE "print", i + 1, N, Append(O, ln[i])))
  PROVE  Good(ln, v, Config("op", i, N, O))
  <1>1. PICK c : c = Config("op", i, N, O)
    OBVIOUS
  <1>2. c.at = "op" /\ c.p = i /\ c.nums = N /\ c.ops = O
    BY <1>1 DEF Config
  <1>3. \A x : Moves(ln, c, x) =>
          x = Config(IF i < Len(ln) THEN "scan" ELSE "print", i + 1, N, Append(O, ln[i]))
    BY <1>2 DEF Moves, OpMove, Closes, Deeper
  <1>4. Right(ln, v, c)
    BY <1>2 DEF Right
  <1>. QED
    BY <1>1, <1>3, <1>4, GoodBefore

LEMMA GoodIfClosed ==
  ASSUME NEW ln, NEW v, NEW i, NEW N, NEW O,
         ~ Deeper(TopOf(O), ln[i]), Closes(TopOf(O), ln[i]),
         Good(ln, v, Config("op", i + 1, N, Front(O)))
  PROVE  Good(ln, v, Config("op", i, N, O))
  <1>1. PICK c : c = Config("op", i, N, O)
    OBVIOUS
  <1>2. c.at = "op" /\ c.p = i /\ c.nums = N /\ c.ops = O
    BY <1>1 DEF Config
  <1>3. \A x : Moves(ln, c, x) => x = Config("op", i + 1, N, Front(O))
    BY <1>2 DEF Moves, OpMove, Closes
  <1>4. Right(ln, v, c)
    BY <1>2 DEF Right
  <1>. QED
    BY <1>1, <1>3, <1>4, GoodBefore

LEMMA GoodIfJoined ==
  ASSUME NEW ln, NEW v, NEW i, NEW N, NEW O,
         ~ Deeper(TopOf(O), ln[i]), TopOf(O) \in Operator,
         Good(ln, v, Config("op", i, Joined(N, TopOf(O)), Front(O)))
  PROVE  Good(ln, v, Config("op", i, N, O))
  <1>1. PICK c : c = Config("op", i, N, O)
    OBVIOUS
  <1>2. c.at = "op" /\ c.p = i /\ c.nums = N /\ c.ops = O
    BY <1>1 DEF Config
  <1>3. TopOf(O) # "none" /\ ~ Closes(TopOf(O), ln[i])
    BY DEF Operator, Closes
  <1>4. \A x : Moves(ln, c, x) => x = Config("op", i, Joined(N, TopOf(O)), Front(O))
    BY <1>2, <1>3 DEF Moves, OpMove
  <1>5. Right(ln, v, c)
    BY <1>2 DEF Right
  <1>. QED
    BY <1>1, <1>4, <1>5, GoodBefore

LEMMA GoodIfExit ==
  ASSUME NEW ln, NEW v, NEW i, NEW N, NEW O,
         ~ Deeper(TopOf(O), ln[i]), ~ Closes(TopOf(O), ln[i]),
         TopOf(O) # "none", TopOf(O) \notin Operator, ~ Tight(ln)
  PROVE  Good(ln, v, Config("op", i, N, O))
  <1>1. PICK c : c = Config("op", i, N, O)
    OBVIOUS
  <1>2. c.at = "op" /\ c.p = i /\ c.nums = N /\ c.ops = O
    BY <1>1 DEF Config
  <1>3. PICK d : d = Config("exit", i, Dropped(N), Front(O))
    OBVIOUS
  <1>4. d.at = "exit"
    BY <1>3 DEF Config
  <1>5. \A x : Moves(ln, c, x) => x = d
    BY <1>2, <1>3 DEF Moves, OpMove
  <1>6. Right(ln, v, c) /\ Right(ln, v, d)
    BY <1>2, <1>4 DEF Right
  <1>7. Good(ln, v, d)
    <2>1. GoodSet(ln, v, {d})
      BY <1>4, <1>6 DEF GoodSet, Moves
    <2>. QED
      BY <2>1 DEF Good
  <1>. QED
    BY <1>1, <1>5, <1>6, <1>7, GoodBefore

(* The first character from i on that is neither a number nor a blank.     *)
EndsAt(ln, i, q) ==
  /\ i \in Nat \ {0} /\ q \in i .. Len(ln)
  /\ \A k \in i .. q - 1 : ln[k] \in Number \cup {Blank}
  /\ ln[q] \notin Number \cup {Blank}
LEMMA NoPartIs ==
  ASSUME NEW ln \in Seq(Char), NEW i, NEW q, EndsAt(ln, i, q)
  PROVE  NoPart(ln, i) = q
  <1>1. PICK I : I = {k \in i .. Len(ln) : ln[k] \notin Number \cup {Blank}}
    OBVIOUS
  <1>2. q \in I /\ \A k \in I : q <= k
    BY <1>1 DEF EndsAt
  <1>3. NoPart(ln, i) = IF I # {} THEN Min(I) ELSE 0
    BY <1>1 DEF NoPart, SelectInSubSeq
  <1>4. \A k \in I : k \in Nat
    BY <1>1 DEF EndsAt
  <1>5. \A x : x \in I /\ (\A y \in I : x <= y) => x = q
    BY <1>2, <1>4
  <1>6. Min(I) = q
    BY <1>2, <1>5 DEF Min
  <1>. QED
    BY <1>2, <1>3, <1>6

LEMMA GoodIfBracket ==
  ASSUME NEW ln \in Seq(Char), NEW v, NEW i, NEW q, EndsAt(ln, i, q), NEW N, NEW O,
         ln[q] = "(", Good(ln, v, Config("op", q, N, O))
  PROVE  Good(ln, v, Config("scan", i, N, O))
  <1>1. PICK c : c = Config("scan", i, N, O)
    OBVIOUS
  <1>2. c.at = "scan" /\ c.p = i /\ c.nums = N /\ c.ops = O
    BY <1>1 DEF Config
  <1>3. NoPart(ln, i) = q
    BY NoPartIs
  <1>4. \A x : Moves(ln, c, x) => x = Config("op", q, N, O)
    BY <1>2, <1>3 DEF Moves, ScanMove
  <1>5. Right(ln, v, c)
    BY <1>2 DEF Right
  <1>. QED
    BY <1>1, <1>4, <1>5, GoodBefore

LEMMA GoodIfScanned ==
  ASSUME NEW ln \in Seq(Char), NEW v, NEW i, NEW q, EndsAt(ln, i, q), NEW N, NEW O,
         ln[q] # "(",
         Good(ln, v, Config("op", q, Append(N, Atof(SubSeq(ln, i, q - 1))), O)),
         q = i => Good(ln, v, Config("op", q, N, O))
  PROVE  Good(ln, v, Config("scan", i, N, O))
  <1>1. PICK c : c = Config("scan", i, N, O)
    OBVIOUS
  <1>2. c.at = "scan" /\ c.p = i /\ c.nums = N /\ c.ops = O
    BY <1>1 DEF Config
  <1>3. NoPart(ln, i) = q
    BY NoPartIs
  <1>5. Right(ln, v, c)
    BY <1>2 DEF Right
  <1>6. \A x : Moves(ln, c, x) =>
          \/ x = Config("op", q, Append(N, Atof(SubSeq(ln, i, q - 1))), O)
          \/ q = i /\ x = Config("op", q, N, O)
    BY <1>2, <1>3 DEF Moves, ScanMove
  <1>. QED
    BY <1>1, <1>5, <1>6, GoodBefore

(* A blank where an operator should be ends the program.                   *)
BlankTill(ln, i, q) ==
  /\ i \in Nat \ {0} /\ q \in i + 1 .. Len(ln)
  /\ \A k \in i .. q - 1 : ln[k] = Blank
  /\ ln[q] \notin Number \cup {Blank, "("}
LEMMA TopPushed ==
  ASSUME NEW S, NEW O \in Seq(S), NEW x \in S
  PROVE  TopOf(Append(O, x)) = x /\ Front(Append(O, x)) = O /\ Append(O, x) \in Seq(S)
  BY AppendProperties DEF TopOf, Last, Front

LEMMA BlankPushed ==
  ASSUME NEW ln \in Seq(Char), NEW v, NEW i, NEW q, BlankTill(ln, i, q), ~ Tight(ln),
         NEW N, NEW O \in Seq(Char)
  PROVE  Good(ln, v, Config("scan", i + 1, N, Append(O, Blank)))
  <1>1. EndsAt(ln, i + 1, q) /\ ln[q] # "("
    BY DEF BlankTill, EndsAt
  <1>2. PICK B : B = Append(O, Blank)
    OBVIOUS
  <1>3. TopOf(B) = Blank
    BY <1>2, TopPushed DEF Char
  <1>4. \A M : Good(ln, v, Config("op", q, M, B))
    <2>1. Blank \notin Operator /\ Blank # "none"
      BY DEF Blank, Operator
    <2>2. ~ Deeper(Blank, ln[q]) /\ ~ Closes(Blank, ln[q])
      BY <1>1 DEF Deeper, Closes, Blank
    <2>. QED
      BY <1>3, <2>1, <2>2, GoodIfExit
  <1>. QED
    BY <1>1, <1>2, <1>4, GoodIfScanned

LEMMA BlankEnds ==
  ASSUME NEW ln \in Seq(Char), NEW v, NEW i, NEW q, BlankTill(ln, i, q), ~ Tight(ln),
         NEW N, NEW O \in Seq(Char)
  PROVE  Good(ln, v, Config("op", i, N, O))
  <1>. DEFINE P == {n \in 0 .. Len(O) : \A Q \in Seq(Char) : Len(Q) = n =>
                      \A M : Good(ln, v, Config("op", i, M, Q))}
  <1>1. ln[i] = Blank /\ i < Len(ln)
    BY DEF BlankTill
  <1>2. ASSUME NEW Q \in Seq(Char), TopOf(Q) \in {"none", "("}, NEW M
        PROVE  Good(ln, v, Config("op", i, M, Q))
    <2>1. TopOf(Q) = "none" \/ Deeper(TopOf(Q), ln[i])
      BY <1>1, <1>2 DEF Deeper, Blank
    <2>2. Good(ln, v, Config("scan", i + 1, M, Append(Q, ln[i])))
      BY <1>1, BlankPushed
    <2>. QED
      BY <1>1, <2>1, <2>2, GoodIfPushed
  <1>3. ASSUME NEW Q \in Seq(Char), TopOf(Q) \notin Operator \cup {"none", "("}, NEW M
        PROVE  Good(ln, v, Config("op", i, M, Q))
    <2>1. ~ Deeper(TopOf(Q), ln[i]) /\ ~ Closes(TopOf(Q), ln[i])
      BY <1>1, <1>3 DEF Deeper, Closes, Blank
    <2>. QED
      BY <1>3, <2>1, GoodIfExit
  <1>4. 0 \in P
    <2>1. ASSUME NEW Q \in Seq(Char), Len(Q) = 0 PROVE TopOf(Q) = "none"
      BY <2>1 DEF TopOf
    <2>. QED
      BY <1>2, <2>1
  <1>5. ASSUME NEW n \in 1 .. Len(O), n - 1 \in P PROVE n \in P
    <2>1. ASSUME NEW Q \in Seq(Char), Len(Q) = n, NEW M, TopOf(Q) \in Operator
          PROVE  Good(ln, v, Config("op", i, M, Q))
      <3>1. Front(Q) \in Seq(Char) /\ Len(Front(Q)) = n - 1
        BY <2>1 DEF Front
      <3>2. Good(ln, v, Config("op", i, Joined(M, TopOf(Q)), Front(Q)))
        BY <1>5, <3>1
      <3>3. ~ Deeper(TopOf(Q), ln[i])
        BY <1>1, <2>1 DEF Deeper, Operator, Blank
      <3>. QED
        BY <2>1, <3>2, <3>3, GoodIfJoined
    <2>2. ASSUME NEW Q \in Seq(Char), Len(Q) = n, NEW M
          PROVE  Good(ln, v, Config("op", i, M, Q))
      BY <1>2, <1>3, <2>1, <2>2
    <2>. QED
      BY <2>2
  <1>6. \A n \in 0 .. Len(O) : n \in P
    <2>1. Len(O) \in Nat
      OBVIOUS
    <2>. HIDE DEF P
    <2>. QED
      BY <1>4, <1>5, <2>1, Induction
  <1>. QED
    BY <1>6

(* What stands behind a phrase, and what was pushed in front of it.        *)
Follower(ln, j, level) ==
  /\ j \in 1 .. Len(ln)
  /\ ln[j] \in {")", LF} \/ (ln[j] \in Operator /\ Level(ln[j]) <= level)
Under(O, level) ==
  O = <<>> \/ Last(O) = "(" \/ (Last(O) \in Operator /\ Level(Last(O)) < level)

(* A phrase is read right if from its beginning on, the scan comes to its  *)
(* end with its value on the one stack and the other one as it was, or to  *)
(* where it exits.                                                         *)
Value == Seq(Number \cup Operator)
Phrase == [text : Seq(Char), value : Value, level : 1 .. 3]
ReadRight(ln, v, e, i, N, O) ==
  LET j == i + Len(e.text) IN
  (/\ StandsAt(ln, i, e.text) /\ Follower(ln, j, e.level) /\ Under(O, e.level)
   /\ Good(ln, v, Config("op", j, Append(N, e.value), O)))
  => Good(ln, v, Config("scan", i, N, O))
AlwaysRight ==
  {e \in Phrase : \A ln \in Seq(Char), N \in Seq(Value), O \in Seq(Char) : \A v, i :
     ReadRight(ln, v, e, i, N, O)}

LEMMA FollowerIsNoNumber ==
  ASSUME NEW ln, NEW j, NEW level, Follower(ln, j, level)
  PROVE  ln[j] \notin Number \cup {Blank, "("}
  BY NumberAssumption DEF Follower, Blank, LF, Operator

LEMMA LiteralText ==
  ASSUME NEW b \in Seq({Blank}), NEW a \in Seq({Blank}), NEW n \in Number
  PROVE  LET s == Literal(b, n, a).text IN
         /\ s \in Seq(Char) /\ Len(s) = Len(b) + 1 + Len(a)
         /\ \A k \in 1 .. Len(s) : s[k] = IF k = Len(b) + 1 THEN n ELSE Blank
  <1>1. PICK h, s : h = b \o <<n>> /\ s = h \o a
    OBVIOUS
  <1>2. /\ b \in Seq(Char) /\ a \in Seq(Char) /\ <<n>> \in Seq(Char)
        /\ Len(b) \in Nat /\ Len(a) \in Nat /\ Len(<<n>>) = 1 /\ <<n>>[1] = n
        /\ \A k \in 1 .. Len(b) : b[k] = Blank
        /\ \A k \in 1 .. Len(a) : a[k] = Blank
    BY DEF Char
  <1>3. /\ h \in Seq(Char) /\ Len(h) = Len(b) + 1
        /\ \A k \in 1 .. Len(b) + 1 : h[k] = IF k <= Len(b) THEN b[k] ELSE <<n>>[k - Len(b)]
    BY <1>1, <1>2, ConcatProperties
  <1>4. /\ s \in Seq(Char) /\ Len(s) = Len(b) + 1 + Len(a)
        /\ \A k \in 1 .. Len(b) + 1 + Len(a) : s[k] = IF k <= Len(h) THEN h[k] ELSE a[k - Len(h)]
    BY <1>1, <1>2, <1>3, ConcatProperties
  <1>5. ASSUME NEW k \in 1 .. Len(s) PROVE s[k] = IF k = Len(b) + 1 THEN n ELSE Blank
    <2>1. CASE k <= Len(b)
      BY <1>2, <1>3, <1>4, <2>1
    <2>2. CASE k = Len(b) + 1
      <3>1. k - Len(b) = 1 /\ k <= Len(h) /\ ~ (k <= Len(b))
        BY <1>2, <1>3, <2>2
      <3>. QED
        BY <1>2, <1>3, <1>4, <2>2, <3>1
    <2>3. CASE k > Len(b) + 1
      <3>1. k - Len(h) \in 1 .. Len(a) /\ ~ (k <= Len(h))
        BY <1>2, <1>3, <1>4, <2>3
      <3>. QED
        BY <1>2, <1>4, <2>3, <3>1
    <2>. QED
      BY <1>2, <1>4, <2>1, <2>2, <2>3
  <1>6. Literal(b, n, a).text = s
    BY <1>1 DEF Literal
  <1>. QED
    BY <1>4, <1>5, <1>6

(* Among blanks there is one number.                                       *)
LEMMA AtofOne ==
  ASSUME NEW s \in Seq(Char), NEW n \in Number, NEW m \in 1 .. Len(s),
         \A k \in 1 .. Len(s) : s[k] = IF k = m THEN n ELSE Blank
  PROVE  Atof(s) = <<n>>
  <1>1. PICK I : I = {k \in 1 .. Len(s) : s[k] \in Number}
    OBVIOUS
  <1>2. I = {m}
    BY <1>1, NumberAssumption
  <1>3. Min(I) = m /\ I # {}
    BY <1>2 DEF Min
  <1>4. PICK i : i = IF I # {} THEN Min(I) ELSE 0
    OBVIOUS
  <1>5. Atof(s) = IF i = 0 THEN <<"0">> ELSE <<s[i]>>
    BY <1>1, <1>4 DEF Atof, SelectInSeq
  <1>. QED
    BY <1>3, <1>4, <1>5

LEMMA LiteralRead ==
  ASSUME NEW b \in Seq({Blank}), NEW a \in Seq({Blank}), NEW n \in Number
  PROVE  Literal(b, n, a) \in AlwaysRight
  <1>1. PICK e : e = Literal(b, n, a)
    OBVIOUS
  <1>2. e.value = <<n>> /\ e.level = 3 /\ e = [text |-> e.text, value |-> e.value, level |-> e.level]
    BY <1>1 DEF Literal
  <1>3. PICK s, m, l : s = e.text /\ m = Len(b) + 1 /\ l = Len(s)
    OBVIOUS
  <1>4. /\ s \in Seq(Char) /\ l \in Nat /\ m \in 1 .. l
        /\ \A k \in 1 .. l : s[k] = IF k = m THEN n ELSE Blank
    BY <1>1, <1>3, LiteralText
  <1>5. e \in Phrase
    <2>1. <<n>> \in Value
      BY DEF Value
    <2>. QED
      BY <1>2, <1>3, <1>4, <2>1 DEF Phrase
  <1>6. ASSUME NEW ln \in Seq(Char), NEW N \in Seq(Value), NEW O \in Seq(Char), NEW v, NEW i,
               StandsAt(ln, i, s), Follower(ln, i + l, 3),
               Good(ln, v, Config("op", i + l, Append(N, <<n>>), O))
        PROVE  Good(ln, v, Config("scan", i, N, O))
    <2>1. PICK q : q = i + l
      OBVIOUS
    <2>2. i \in Nat \ {0} /\ q \in i .. Len(ln) /\ q - 1 - i + 1 = l /\ i # q
      BY <1>3, <1>4, <1>6, <2>1, SMTT(30) DEF StandsAt, Follower
    <2>3. \A k \in 1 .. l : ln[i + k - 1] = s[k]
      BY <1>3, <1>6 DEF StandsAt
    <2>4. ASSUME NEW k \in i .. q - 1 PROVE ln[k] \in Number \cup {Blank}
      <3>1. PICK x : x = k - i + 1
        OBVIOUS
      <3>2. x \in 1 .. l /\ i + x - 1 = k
        BY <1>4, <2>1, <2>2, <3>1
      <3>3. ln[k] = s[x]
        BY <2>3, <3>2
      <3>. QED
        BY <1>4, <3>2, <3>3
    <2>5. EndsAt(ln, i, q) /\ ln[q] # "("
      BY <1>6, <2>1, <2>2, <2>4, FollowerIsNoNumber DEF EndsAt
    <2>6. PICK z : z = SubSeq(ln, i, q - 1)
      OBVIOUS
    <2>7. z \in Seq(Char) /\ Len(z) = l /\ \A k \in 1 .. l : z[k] = s[k]
      <3>1. PICK c : c = i - 1
        OBVIOUS
      <3>2. c \in Nat /\ c + 1 = i /\ q - 1 \in c .. Len(ln) /\ q - 1 - c = l
        BY <1>4, <2>1, <2>2, <3>1
      <3>3. z \in Seq(Char) /\ Len(z) = l /\ \A k \in 1 .. l : z[k] = ln[c + k]
        BY <2>6, <3>2, Slice, SMTT(30)
      <3>4. \A k \in 1 .. l : c + k = i + k - 1
        BY <2>2, <3>1
      <3>. QED
        BY <2>3, <3>3, <3>4
    <2>8. Atof(z) = <<n>>
      BY <1>4, <2>7, AtofOne, ZenonT(60)
    <2>. QED
      BY <1>6, <2>1, <2>2, <2>5, <2>6, <2>8, GoodIfScanned
  <1>7. ASSUME NEW ln \in Seq(Char), NEW N \in Seq(Value), NEW O \in Seq(Char), NEW v, NEW i
        PROVE  ReadRight(ln, v, e, i, N, O)
    BY <1>2, <1>3, <1>6 DEF ReadRight
  <1>. QED
    BY <1>1, <1>5, <1>7 DEF AlwaysRight

InBrackets(ln, i, b, x, a, text) ==
  LET k == i + Len(b)
      m == k + 1 + Len(x) IN
  /\ text \in Seq(Char) /\ i + Len(text) = m + 1 + Len(a)
  /\ EndsAt(ln, i, k) /\ ln[k] = "(" /\ StandsAt(ln, k + 1, x)
  /\ m \in 1 .. Len(ln) /\ ln[m] = ")" /\ StandsAt(ln, m + 1, a)
LEMMA BracketText ==
  ASSUME NEW b \in Seq({Blank}), NEW a \in Seq({Blank}), NEW e \in Phrase,
         NEW ln \in Seq(Char), NEW i, StandsAt(ln, i, Bracketed(b, e, a).text)
  PROVE  InBrackets(ln, i, b, e.text, a, Bracketed(b, e, a).text)
  <1>1. PICK h1, h2, h3, s, x, open, close :
          /\ x = e.text /\ open = <<"(">> /\ close = <<")">>
          /\ h1 = b \o open /\ h2 = h1 \o x /\ h3 = h2 \o close /\ s = h3 \o a
    OBVIOUS
  <1>2. Bracketed(b, e, a).text = s
    BY <1>1 DEF Bracketed
  <1>3. /\ b \in Seq(Char) /\ a \in Seq(Char) /\ x \in Seq(Char)
        /\ open \in Seq(Char) /\ close \in Seq(Char)
        /\ Len(b) \in Nat /\ Len(a) \in Nat /\ Len(x) \in Nat
        /\ Len(open) = 1 /\ Len(close) = 1 /\ open[1] = "(" /\ close[1] = ")"
    BY <1>1 DEF Char, Phrase
  <1>0. StandsAt(ln, i, s)
    BY <1>2
  <1>4. h1 \in Seq(Char) /\ h2 \in Seq(Char) /\ h3 \in Seq(Char) /\ s \in Seq(Char)
    BY <1>1, <1>3, ConcatProperties
  <1>5. StandsAt(ln, i, h3) /\ StandsAt(ln, i + Len(h3), a) /\ Len(s) = Len(h3) + Len(a)
    <2>1. InTwo(Char, ln, i, h3, a, s)
      BY <1>1, <1>3, <1>4, <1>0 DEF InTwo
    <2>. QED
      BY <2>1, TextParts
  <1>6. StandsAt(ln, i, h2) /\ StandsAt(ln, i + Len(h2), close) /\ Len(h3) = Len(h2) + 1
    <2>1. InTwo(Char, ln, i, h2, close, h3)
      BY <1>1, <1>3, <1>4, <1>5 DEF InTwo
    <2>2. StandsAt(ln, i, h2) /\ StandsAt(ln, i + Len(h2), close) /\ Len(h3) = Len(h2) + Len(close)
      BY <2>1, TextParts
    <2>. QED
      BY <1>3, <2>2
  <1>7. StandsAt(ln, i, h1) /\ StandsAt(ln, i + Len(h1), x) /\ Len(h2) = Len(h1) + Len(x)
    <2>1. InTwo(Char, ln, i, h1, x, h2)
      BY <1>1, <1>3, <1>4, <1>6 DEF InTwo
    <2>. QED
      BY <2>1, TextParts
  <1>8. StandsAt(ln, i, b) /\ StandsAt(ln, i + Len(b), open) /\ Len(h1) = Len(b) + 1
    <2>1. InTwo(Char, ln, i, b, open, h1)
      BY <1>1, <1>3, <1>4, <1>7 DEF InTwo
    <2>2. StandsAt(ln, i, b) /\ StandsAt(ln, i + Len(b), open) /\ Len(h1) = Len(b) + Len(open)
      BY <2>1, TextParts
    <2>. QED
      BY <1>3, <2>2
  <1>9. i \in Nat \ {0} /\ Len(ln) \in Nat
    BY <1>8 DEF StandsAt
  <1>10. PICK k, m : k = i + Len(b) /\ m = k + 1 + Len(x)
    OBVIOUS
  <1>11. /\ k \in i .. Len(ln) /\ m \in 1 .. Len(ln) /\ i + Len(h1) = k + 1
         /\ i + Len(h2) = m /\ i + Len(h3) = m + 1 /\ i + Len(s) = m + 1 + Len(a)
    <2>1. m + 1 <= Len(ln) + 1
      BY <1>3, <1>6, <1>7, <1>8, <1>9, <1>10 DEF StandsAt
    <2>. QED
      BY <1>3, <1>5, <1>6, <1>7, <1>8, <1>9, <1>10, <2>1
  <1>12. ln[k] = "(" /\ ln[m] = ")"
    <2>1. ln[k + 1 - 1] = open[1] /\ ln[m + 1 - 1] = close[1]
      <3>1. StandsAt(ln, k, open) /\ StandsAt(ln, m, close)
        BY <1>6, <1>8, <1>10, <1>11, Zenon
      <3>. QED
        BY <1>3, <3>1 DEF StandsAt
    <2>. QED
      BY <1>3, <1>9, <1>11, <2>1
  <1>13. EndsAt(ln, i, k)
    <2>1. ASSUME NEW j \in i .. k - 1 PROVE ln[j] = Blank
      <3>1. PICK y : y = j - i + 1
        OBVIOUS
      <3>2. y \in 1 .. Len(b) /\ i + y - 1 = j
        BY <1>3, <1>9, <1>10, <3>1
      <3>3. ln[j] = b[y]
        BY <1>8, <3>2 DEF StandsAt
      <3>. QED
        BY <3>2, <3>3
    <2>2. "(" \notin Number \cup {Blank}
      BY NumberAssumption DEF Blank
    <2>. QED
      BY <1>9, <1>11, <1>12, <2>1, <2>2 DEF EndsAt
  <1>. QED
    BY <1>1, <1>2, <1>4, <1>5, <1>7, <1>10, <1>11, <1>12, <1>13 DEF InBrackets

(* Behind a closing bracket: the operator that follows, or a blank.        *)
LEMMA BlankBehind ==
  ASSUME NEW a \in Seq({Blank}), NEW ln \in Seq(Char), NEW m \in 1 .. Len(ln), ln[m] = ")",
         StandsAt(ln, m + 1, a), NEW level, Follower(ln, m + 1 + Len(a), level), a # <<>>
  PROVE  BlankTill(ln, m + 1, m + 1 + Len(a)) /\ ~ Tight(ln)
  <1>1. Len(a) \in Nat \ {0} /\ m \in Nat \ {0} /\ Len(ln) \in Nat
    OBVIOUS
  <1>2. PICK q : q = m + 1 + Len(a)
    OBVIOUS
  <1>3. q \in m + 2 .. Len(ln)
    BY <1>1, <1>2 DEF Follower
  <1>4. ASSUME NEW k \in m + 1 .. q - 1 PROVE ln[k] = Blank
    <2>1. PICK y : y = k - m
      OBVIOUS
    <2>2. y \in 1 .. Len(a) /\ m + 1 + y - 1 = k
      BY <1>1, <1>2, <1>3, <2>1
    <2>3. ln[k] = a[y]
      BY <2>2 DEF StandsAt
    <2>. QED
      BY <2>2, <2>3
  <1>5. BlankTill(ln, m + 1, q)
    BY <1>1, <1>2, <1>3, <1>4, FollowerIsNoNumber DEF BlankTill
  <1>6. ~ Tight(ln)
    <2>1. m \in 1 .. Len(ln) - 1 /\ m + 1 \in m + 1 .. q - 1
      BY <1>1, <1>3
    <2>. QED
      BY <1>4, <2>1 DEF Tight
  <1>. QED
    BY <1>2, <1>5, <1>6

LEMMA BracketRead ==
  ASSUME NEW b \in Seq({Blank}), NEW a \in Seq({Blank}), NEW e \in AlwaysRight
  PROVE  Bracketed(b, e, a) \in AlwaysRight
  <1>1. PICK f : f = Bracketed(b, e, a)
    OBVIOUS
  <1>2. e \in Phrase /\ f.value = e.value /\ f.level = 3
    BY <1>1 DEF Bracketed, AlwaysRight
  <1>3. f \in Phrase
    <2>1. b \in Seq(Char) /\ a \in Seq(Char) /\ e.text \in Seq(Char)
          /\ <<"(">> \in Seq(Char) /\ <<")">> \in Seq(Char)
      BY <1>2 DEF Char, Phrase
    <2>2. b \o <<"(">> \o e.text \o <<")">> \o a \in Seq(Char)
      BY <2>1, ConcatProperties
    <2>. QED
      BY <1>1, <1>2, <2>2 DEF Bracketed, Phrase
  <1>4. ASSUME NEW ln \in Seq(Char), NEW N \in Seq(Value), NEW O \in Seq(Char), NEW v, NEW i,
               StandsAt(ln, i, f.text), Follower(ln, i + Len(f.text), 3),
               Good(ln, v, Config("op", i + Len(f.text), Append(N, e.value), O))
        PROVE  Good(ln, v, Config("scan", i, N, O))
    <2>1. PICK k, m, j, x : k = i + Len(b) /\ m = k + 1 + Len(x) /\ j = i + Len(f.text) /\ x = e.text
      OBVIOUS
    <2>2. /\ j = m + 1 + Len(a)
          /\ EndsAt(ln, i, k) /\ ln[k] = "(" /\ StandsAt(ln, k + 1, x)
          /\ m \in 1 .. Len(ln) /\ ln[m] = ")" /\ StandsAt(ln, m + 1, a)
      <3>1. InBrackets(ln, i, b, x, a, f.text)
        BY <1>1, <1>2, <1>4, <2>1, BracketText
      <3>. QED
        BY <2>1, <3>1 DEF InBrackets
    <2>3. Good(ln, v, Config("op", m + 1, Append(N, e.value), O))
      <3>1. CASE a = <<>>
        <4>1. j = m + 1
          BY <2>2, <3>1
        <4>. QED
          BY <1>4, <2>1, <4>1
      <3>2. CASE a # <<>>
        BY <1>4, <2>1, <2>2, <3>2, BlankBehind, BlankEnds
      <3>. QED
        BY <3>1, <3>2
    <2>4. PICK B : B = Append(O, "(")
      OBVIOUS
    <2>5. TopOf(B) = "(" /\ Front(B) = O /\ B \in Seq(Char) /\ B # <<>>
      <3>1. "(" \in Char
        BY DEF Char
      <3>. QED
        BY <2>4, <3>1, TopPushed
    <2>6. Good(ln, v, Config("op", m, Append(N, e.value), B))
      <3>1. ~ Deeper(TopOf(B), ln[m]) /\ Closes(TopOf(B), ln[m])
        BY <2>2, <2>5 DEF Deeper, Closes, Operator
      <3>. QED
        BY <2>3, <2>5, <3>1, GoodIfClosed
    <2>7. Good(ln, v, Config("scan", k + 1, N, B))
      <3>1. Follower(ln, m, e.level)
        BY <2>2 DEF Follower
      <3>2. Under(B, e.level)
        BY <2>5 DEF Under, TopOf
      <3>3. m = (k + 1) + Len(x)
        BY <2>1
      <3>4. ReadRight(ln, v, e, k + 1, N, B)
        BY <2>5 DEF AlwaysRight
      <3>. QED
        BY <2>1, <2>2, <2>6, <3>1, <3>2, <3>3, <3>4 DEF ReadRight
    <2>8. Good(ln, v, Config("op", k, N, O))
      <3>1. k < Len(ln)
        <4>0. k \in Nat
          BY <2>2 DEF EndsAt
        <4>a. x \in Seq(Char)
          BY <1>2, <2>1 DEF Phrase
        <4>1. Len(x) \in Nat /\ k \in Nat
          BY <4>0, <4>a
        <4>. QED
          BY <2>1, <2>2, <4>1, SMTT(30)
      <3>2. Deeper(TopOf(O), ln[k])
        BY <2>2 DEF Deeper
      <3>. QED
        BY <2>2, <2>4, <2>7, <3>1, <3>2, GoodIfPushed
    <2>. QED
      BY <2>2, <2>8, GoodIfBracket
  <1>5. ASSUME NEW ln \in Seq(Char), NEW N \in Seq(Value), NEW O \in Seq(Char), NEW v, NEW i
        PROVE  ReadRight(ln, v, f, i, N, O)
    BY <1>2, <1>4 DEF ReadRight
  <1>. QED
    BY <1>1, <1>3, <1>5 DEF AlwaysRight

InHalves(ln, i, x, op, y, text) ==
  LET k == i + Len(x) IN
  /\ StandsAt(ln, i, x) /\ k \in 1 .. Len(ln) /\ ln[k] = op
  /\ StandsAt(ln, k + 1, y) /\ i + Len(text) = k + 1 + Len(y)
LEMMA BinaryParts ==
  ASSUME NEW l \in Phrase, NEW r \in Phrase, NEW op \in Operator,
         NEW ln \in Seq(Char), NEW i, StandsAt(ln, i, Binary(op, l, r).text)
  PROVE  InHalves(ln, i, l.text, op, r.text, Binary(op, l, r).text)
  <1>1. PICK x, y, o, h, s : /\ x = l.text /\ y = r.text /\ o = <<op>>
                             /\ h = x \o o /\ s = h \o y
    OBVIOUS
  <1>2. Binary(op, l, r).text = s /\ StandsAt(ln, i, s)
    BY <1>1 DEF Binary
  <1>3. /\ x \in Seq(Char) /\ y \in Seq(Char) /\ o \in Seq(Char) /\ Len(x) \in Nat /\ Len(y) \in Nat
        /\ Len(o) = 1 /\ o[1] = op
    BY <1>1 DEF Char, Phrase
  <1>4. h \in Seq(Char)
    BY <1>1, <1>3, ConcatProperties
  <1>5. StandsAt(ln, i, h) /\ StandsAt(ln, i + Len(h), y) /\ Len(s) = Len(h) + Len(y)
    <2>1. InTwo(Char, ln, i, h, y, s)
      BY <1>1, <1>2, <1>3, <1>4 DEF InTwo
    <2>. QED
      BY <2>1, TextParts
  <1>6. StandsAt(ln, i, x) /\ StandsAt(ln, i + Len(x), o) /\ Len(h) = Len(x) + 1
    <2>1. InTwo(Char, ln, i, x, o, h)
      BY <1>1, <1>3, <1>4, <1>5 DEF InTwo
    <2>2. StandsAt(ln, i, x) /\ StandsAt(ln, i + Len(x), o) /\ Len(h) = Len(x) + Len(o)
      BY <2>1, TextParts
    <2>. QED
      BY <1>3, <2>2
  <1>7. PICK k : k = i + Len(x)
    OBVIOUS
  <1>8. i \in Nat \ {0} /\ Len(ln) \in Nat /\ (i + Len(h)) + Len(y) <= Len(ln) + 1
    BY <1>5 DEF StandsAt
  <1>9. /\ i + Len(h) = k + 1 /\ k \in Nat \ {0} /\ k <= Len(ln)
        /\ i + Len(s) = k + 1 + Len(y)
    BY <1>3, <1>5, <1>6, <1>7, <1>8
  <1>10. ln[k] = op
    <2>1. StandsAt(ln, k, o)
      BY <1>6, <1>7
    <2>2. ln[k + 1 - 1] = op
      BY <1>3, <2>1 DEF StandsAt
    <2>. QED
      BY <1>9, <2>2
  <1>. QED
    <2>1. StandsAt(ln, k + 1, y) /\ k \in 1 .. Len(ln)
      BY <1>5, <1>8, <1>9
    <2>2. InHalves(ln, i, x, op, y, s)
      BY <1>6, <1>7, <1>9, <1>10, <2>1 DEF InHalves
    <2>. QED
      BY <1>1, <1>2, <2>2

(* Two numbers and the operator between them.                              *)
LEMMA JoinedTwo ==
  ASSUME NEW N \in Seq(Value), NEW x \in Value, NEW y \in Value, NEW op
  PROVE  Joined(Append(Append(N, x), y), op) = Append(N, x \o y \o <<op>>)
  <1>1. PICK A, B : A = Append(N, x) /\ B = Append(A, y)
    OBVIOUS
  <1>2. A \in Seq(Value) /\ Last(A) = x /\ Front(A) = N /\ A # <<>>
    BY <1>1, AppendProperties DEF Last, Front
  <1>3. B \in Seq(Value) /\ Last(B) = y /\ Front(B) = A /\ B # <<>>
    BY <1>1, <1>2, AppendProperties DEF Last, Front
  <1>4. Popped(B) = [val |-> y, rest |-> A] /\ Popped(A) = [val |-> x, rest |-> N]
    BY <1>2, <1>3 DEF Popped
  <1>5. Popped(B).val = y /\ Popped(Popped(B).rest).val = x /\ Popped(Popped(B).rest).rest = N
    BY <1>4
  <1>. QED
    BY <1>1, <1>5 DEF Joined

LEMMA BinaryRead ==
  ASSUME NEW l \in AlwaysRight, NEW r \in AlwaysRight, NEW op \in Operator, MayJoin(op, l, r)
  PROVE  Binary(op, l, r) \in AlwaysRight
  <1>1. PICK f, g : f = Binary(op, l, r) /\ g = Level(op)
    OBVIOUS
  <1>2. /\ l \in Phrase /\ r \in Phrase /\ f.level = g /\ f.value = l.value \o r.value \o <<op>>
        /\ l.level >= g /\ r.level > g /\ g \in 1 .. 2
    <2>1. l \in Phrase /\ r \in Phrase
      BY DEF AlwaysRight
    <2>2. f.level = g /\ f.value = l.value \o r.value \o <<op>>
      BY <1>1 DEF Binary
    <2>3. l.level >= g /\ r.level > g
      BY <1>1 DEF MayJoin
    <2>4. g \in 1 .. 2
      BY <1>1 DEF Level
    <2>. QED
      BY <2>1, <2>2, <2>3, <2>4
  <1>3. f \in Phrase
    <2>1. l.text \in Seq(Char) /\ r.text \in Seq(Char) /\ <<op>> \in Seq(Char)
      BY <1>2 DEF Char, Phrase
    <2>2. l.text \o <<op>> \o r.text \in Seq(Char)
      BY <2>1, ConcatProperties
    <2>3. l.value \o r.value \o <<op>> \in Value
      BY <1>2, ConcatProperties DEF Phrase, Value
    <2>. QED
      BY <1>1, <1>2, <2>2, <2>3 DEF Binary, Phrase
  <1>4. ASSUME NEW ln \in Seq(Char), NEW N \in Seq(Value), NEW O \in Seq(Char), NEW v, NEW i,
               StandsAt(ln, i, f.text), Follower(ln, i + Len(f.text), g), Under(O, g),
               Good(ln, v, Config("op", i + Len(f.text), Append(N, f.value), O))
        PROVE  Good(ln, v, Config("scan", i, N, O))
    <2>1. PICK x, y, k, j : x = l.text /\ y = r.text /\ k = i + Len(x) /\ j = i + Len(f.text)
      OBVIOUS
    <2>2. StandsAt(ln, i, x) /\ k \in 1 .. Len(ln) /\ ln[k] = op /\ StandsAt(ln, k + 1, y) /\ j = k + 1 + Len(y)
      <3>1. InHalves(ln, i, x, op, y, f.text)
        BY <1>1, <1>2, <1>4, <2>1, BinaryParts
      <3>. QED
        BY <2>1, <3>1 DEF InHalves
    <2>3. PICK M, B : M = Append(N, l.value) /\ B = Append(O, op)
      OBVIOUS
    <2>4. M \in Seq(Value) /\ B \in Seq(Char) /\ TopOf(B) = op /\ Front(B) = O /\ B # <<>>
      <3>1. op \in Char /\ l.value \in Value
        BY <1>2 DEF Char, Phrase
      <3>. QED
        BY <2>3, <3>1, TopPushed, AppendProperties
    <2>5. Good(ln, v, Config("op", j, Append(M, r.value), B))
      <3>1. ~ Deeper(TopOf(B), ln[j])
        BY <1>1, <1>4, <2>1, <2>4 DEF Deeper, Follower, Level, Operator, LF
      <3>2. Joined(Append(M, r.value), op) = Append(N, f.value)
        <4>1. PICK a, b : a = l.value /\ b = r.value
          OBVIOUS
        <4>2. a \in Value /\ b \in Value
          BY <1>2, <4>1 DEF Phrase
        <4>3. Joined(Append(Append(N, a), b), op) = Append(N, a \o b \o <<op>>)
          BY <4>2, JoinedTwo
        <4>4. M = Append(N, a) /\ f.value = a \o b \o <<op>>
          BY <1>2, <2>3, <4>1
        <4>. QED
          BY <4>1, <4>3, <4>4, Zenon
      <3>. QED
        BY <1>4, <2>1, <2>4, <3>1, <3>2, GoodIfJoined
    <2>6. Good(ln, v, Config("scan", k + 1, M, B))
      <3>1. Follower(ln, j, r.level)
        <4>1. r.level \in Nat
          BY <1>2 DEF Phrase
        <4>2. \A c : Level(c) \in 1 .. 2
          BY DEF Level
        <4>. QED
          BY <1>2, <1>4, <2>1, <4>1, <4>2, SMTT(30) DEF Follower
      <3>2. Under(B, r.level)
        BY <1>1, <1>2, <2>4 DEF Under, TopOf
      <3>3. ReadRight(ln, v, r, k + 1, M, B)
        BY <2>4 DEF AlwaysRight
      <3>. QED
        BY <2>1, <2>2, <2>5, <3>1, <3>2, <3>3 DEF ReadRight
    <2>7. Good(ln, v, Config("op", k, M, O))
      <3>1. k < Len(ln)
        <4>1. Len(y) \in Nat /\ j \in 1 .. Len(ln)
          BY <1>2, <1>4, <2>1 DEF Phrase, Follower
        <4>. QED
          BY <2>2, <4>1
      <3>2. TopOf(O) = "none" \/ Deeper(TopOf(O), ln[k])
        BY <1>1, <1>4, <2>2 DEF Under, TopOf, Deeper, Level, Operator
      <3>. QED
        BY <2>2, <2>3, <2>6, <3>1, <3>2, GoodIfPushed
    <2>8. Follower(ln, k, l.level)
      BY <1>1, <1>2, <2>2 DEF Follower
    <2>9. Under(O, l.level)
      <3>1. l.level \in Nat
        BY <1>2 DEF Phrase
      <3>2. \A c : Level(c) \in 1 .. 2
        BY DEF Level
      <3>. QED
        BY <1>2, <1>4, <3>1, <3>2, SMTT(30) DEF Under
    <2>10. ReadRight(ln, v, l, i, N, O)
      BY DEF AlwaysRight
    <2>. QED
      BY <2>1, <2>2, <2>3, <2>7, <2>8, <2>9, <2>10 DEF ReadRight
  <1>5. ASSUME NEW ln \in Seq(Char), NEW N \in Seq(Value), NEW O \in Seq(Char), NEW v, NEW i
        PROVE  ReadRight(ln, v, f, i, N, O)
    BY <1>2, <1>4 DEF ReadRight
  <1>. QED
    BY <1>1, <1>3, <1>5 DEF AlwaysRight

(* What the grammar of expressions makes, and nothing else.                *)
Blanks == Seq({Blank})
Grammatical(S) ==
  /\ \A b, a \in Blanks, n \in Number : Literal(b, n, a) \in S
  /\ \A b, a \in Blanks, e \in S : Bracketed(b, e, a) \in S
  /\ \A op \in Operator, l, r \in S : MayJoin(op, l, r) => Binary(op, l, r) \in S
Sentence == {e \in Phrase : \A S \in SUBSET Phrase : Grammatical(S) => e \in S}

(* Sentences are phrases, and the grammar makes sentences of sentences.    *)
LEMMA SentencesMade == Grammatical(Sentence)
  <1>1. ASSUME NEW b \in Blanks, NEW a \in Blanks, NEW n \in Number
        PROVE  Literal(b, n, a) \in Sentence
    <2>1. Literal(b, n, a) \in Phrase
      BY LiteralRead DEF AlwaysRight, Blanks
    <2>. QED
      BY <2>1 DEF Sentence, Grammatical
  <1>2. ASSUME NEW b \in Blanks, NEW a \in Blanks, NEW e \in Sentence
        PROVE  Bracketed(b, e, a) \in Sentence
    <2>1. Bracketed(b, e, a) \in Phrase
      <3>1. e \in Phrase /\ e.text \in Seq(Char) /\ e.value \in Value
        BY DEF Sentence, Phrase
      <3>2. b \in Seq(Char) /\ a \in Seq(Char) /\ <<"(">> \in Seq(Char) /\ <<")">> \in Seq(Char)
        BY DEF Char, Blanks
      <3>3. b \o <<"(">> \o e.text \o <<")">> \o a \in Seq(Char)
        BY <3>1, <3>2, ConcatProperties
      <3>. QED
        BY <3>1, <3>3 DEF Bracketed, Phrase
    <2>. QED
      BY <2>1 DEF Sentence, Grammatical
  <1>3. ASSUME NEW op \in Operator, NEW l \in Sentence, NEW r \in Sentence, MayJoin(op, l, r)
        PROVE  Binary(op, l, r) \in Sentence
    <2>1. Binary(op, l, r) \in Phrase
      <3>1. l.text \in Seq(Char) /\ r.text \in Seq(Char) /\ <<op>> \in Seq(Char)
        BY DEF Char, Phrase, Sentence
      <3>2. l.text \o <<op>> \o r.text \in Seq(Char)
        BY <3>1, ConcatProperties
      <3>3. l.value \in Value /\ r.value \in Value /\ <<op>> \in Value
        BY DEF Phrase, Sentence, Value
      <3>4. l.value \o r.value \o <<op>> \in Value
        BY <3>3, ConcatProperties DEF Value
      <3>5. Level(op) \in 1 .. 3
        BY DEF Level
      <3>. QED
        BY <3>2, <3>4, <3>5 DEF Binary, Phrase
    <2>. QED
      BY <1>3, <2>1 DEF Sentence, Grammatical
  <1>. QED
    BY <1>1, <1>2, <1>3 DEF Grammatical

LEMMA SentencesRead == Sentence \subseteq AlwaysRight
  <1>1. Grammatical(AlwaysRight)
    BY LiteralRead, BracketRead, BinaryRead DEF Grammatical, Blanks
  <1>. QED
    BY <1>1 DEF Sentence, AlwaysRight

(* So is a whole line.                                                     *)
LEMMA LineRead ==
  ASSUME NEW e \in Sentence
  PROVE  Good(Append(e.text, LF), e.value, Config("scan", 1, <<>>, <<>>))
  <1>1. PICK s, L, ln, v : s = e.text /\ L = Len(s) /\ ln = Append(s, LF) /\ v = e.value
    OBVIOUS
  <1>2. s \in Seq(Char) /\ v \in Value /\ L \in Nat /\ LF \in Char
    BY <1>1 DEF Sentence, Phrase, Char
  <1>3. /\ ln \in Seq(Char) /\ Len(ln) = L + 1 /\ ln[L + 1] = LF
        /\ \A k \in 1 .. L : ln[k] = s[k]
    BY <1>1, <1>2, AppendProperties
  <1>4. StandsAt(ln, 1, s) /\ Follower(ln, 1 + L, e.level)
    BY <1>1, <1>2, <1>3 DEF StandsAt, Follower
  <1>5. PICK N, O : N = <<>> /\ O = <<>>
    OBVIOUS
  <1>6. N \in Seq(Value) /\ O \in Seq(Char) /\ Under(O, e.level)
    BY <1>5 DEF Under
  <1>7. Good(ln, v, Config("op", 1 + L, Append(N, v), O))
    <2>1. PICK c : c = Config("print", 1 + L + 1, Append(N, v), Append(O, ln[1 + L]))
      OBVIOUS
    <2>2. c.at = "print" /\ c.nums = Append(N, v)
      BY <2>1 DEF Config
    <2>3. Append(N, v) # <<>> /\ Last(Append(N, v)) = v
      BY <1>2, <1>6, AppendProperties DEF Last
    <2>4. GoodSet(ln, v, {c})
      BY <2>2, <2>3 DEF GoodSet, Right, Moves
    <2>5. Good(ln, v, c)
      BY <2>4 DEF Good
    <2>6. ~ (1 + L < Len(ln)) /\ TopOf(O) = "none"
      BY <1>2, <1>3, <1>5 DEF TopOf
    <2>. QED
      BY <2>1, <2>5, <2>6, GoodIfPushed
  <1>8. ReadRight(ln, v, e, 1, N, O)
    BY <1>3, <1>6, SentencesRead DEF AlwaysRight
  <1>. QED
    BY <1>1, <1>4, <1>5, <1>6, <1>7, <1>8 DEF ReadRight

(* The program and its stacks.                                             *)
Now == Config(at, p, nums, ops)
RightInv ==
  /\ at \in {"read", "scan", "op", "print", "exit"}
  /\ IF at = "read" THEN nums = <<>> /\ ops = <<>> ELSE Good(line, meant, Now)

LEMMA WorkMoves ==
  ASSUME at # "print", Work
  PROVE  Moves(line, Now, Now') /\ UNCHANGED <<line, meant>> /\ at' \in {"scan", "op", "print", "exit"}
  <1>1. Now.at = at /\ Now.p = p /\ Now.nums = nums /\ Now.ops = ops
    BY DEF Now, Config
  <1>2. CASE Scan
    <2>1. NoPart(line, p) = p'
      BY <1>2 DEF Scan, NoPart
    <2>2. ScanMove(line, Now, Now')
      BY <1>1, <1>2, <2>1 DEF Scan, ScanMove, Now
    <2>. QED
      BY <1>1, <1>2, <2>2 DEF Scan, Moves
  <1>3. CASE PushOp
    <2>1. OpMove(line, Now, Now')
      BY <1>1, <1>3 DEF PushOp, OpMove, Now, Top, TopOf
    <2>. QED
      BY <1>1, <1>3, <2>1 DEF PushOp, Moves
  <1>4. CASE CloseBracket
    <2>1. OpMove(line, Now, Now')
      BY <1>1, <1>4 DEF CloseBracket, OpMove, Now, Top, TopOf, Behind
    <2>. QED
      BY <1>1, <1>4, <2>1 DEF CloseBracket, Moves
  <1>5. CASE CalTopTwo
    <2>1. OpMove(line, Now, Now')
      BY <1>1, <1>5 DEF CalTopTwo, OpMove, Now, Top, TopOf, Joined, Dropped
    <2>. QED
      BY <1>1, <1>5, <2>1 DEF CalTopTwo, Moves
  <1>. QED
    BY <1>2, <1>3, <1>4, <1>5 DEF Work, PrintResult

(* Whatever sentences are typed, one after another, what is printed is     *)
(* their value, and only a blank behind a closing bracket ends the program *)
(* (calculator.c:90-141).                                                  *)
THEOREM SentencesValued ==
  ASSUME Expressions \subseteq Sentence
  PROVE  Spec => [](ResultRight /\ (at = "exit" => ~ Tight(line)))
  <1>1. Init => RightInv
    BY DEF Init, RightInv
  <1>2. RightInv /\ [Next]_vars => RightInv'
    <2>. SUFFICES ASSUME RightInv, [Next]_vars PROVE RightInv'
      OBVIOUS
    <2>1. CASE UNCHANGED vars
      BY <2>1 DEF RightInv, vars, Now
    <2>2. CASE ReadLine
      <3>1. PICK e \in Expressions : line' = Append(e.text, LF) /\ meant' = e.value
        BY <2>2 DEF ReadLine
      <3>2. Good(line', meant', Config("scan", 1, <<>>, <<>>))
        BY <3>1, LineRead
      <3>3. Now' = Config("scan", 1, <<>>, <<>>) /\ at' = "scan"
        BY <2>2 DEF ReadLine, RightInv, Now
      <3>. QED
        BY <3>2, <3>3 DEF RightInv
    <2>3. CASE Work /\ at # "print"
      <3>1. at # "read"
        BY <2>3 DEF Work, Scan, PushOp, CloseBracket, CalTopTwo, PrintResult
      <3>. QED
        BY <2>3, <3>1, WorkMoves, GoodGoesOn DEF RightInv
    <2>4. CASE Work /\ at = "print"
      BY <2>4 DEF Work, Scan, PushOp, CloseBracket, CalTopTwo, PrintResult, RightInv
    <2>. QED
      BY <2>1, <2>2, <2>3, <2>4 DEF Next
  <1>3. RightInv => ResultRight /\ (at = "exit" => ~ Tight(line))
    BY GoodIsRight DEF RightInv, Right, ResultRight, Now, Config
  <1>. QED
    BY <1>1, <1>2, <1>3, PTL DEF Spec

-----------------------------------------------------------------------------
(* The days before a month.                                                *)

(* The sum the loop of getdaycode() comes to is the sum of the months      *)
(* before, whatever the table.                                             *)
LEMMA DaysAreSums ==
  ASSUME NEW table \in [1 .. 12 -> Nat], NEW m \in 1 .. 13
  PROVE  DaysBefore(table, m) = Sums(12, table)[m - 1]
  <1>. DEFINE k == m - 1
              f == Sums(12, table)
              g == [i \in 0 .. k |-> f[i]]
              Def(h) == [i \in 0 .. k |-> IF i = 0 THEN 0 ELSE h[i - 1] + table[i]]
              sum == CHOOSE h : h = Def(h)
  <1>0. k \in 0 .. 12 /\ k \in 0 .. k
    OBVIOUS
  <1>1. DaysBefore(table, m) = sum[k]
    BY DEF DaysBefore
  <1>. HIDE DEF k
  <1>2. f[0] = 0 /\ \A i \in 1 .. 12 : f[i] = f[i - 1] + table[i]
    BY SumSteps DEF SumsBy
  <1>. HIDE DEF f
  <1>3. g = Def(g)
    <2>1. ASSUME NEW i \in 0 .. k
          PROVE  f[i] = IF i = 0 THEN 0 ELSE g[i - 1] + table[i]
      <3>1. CASE i = 0
        BY <1>2, <3>1
      <3>2. CASE i # 0
        <4>1. i \in 1 .. 12 /\ i - 1 \in 0 .. k
          BY <1>0, <3>2
        <4>2. g[i - 1] = f[i - 1]
          BY <4>1
        <4>. QED
          BY <1>2, <3>2, <4>1, <4>2
      <3>. QED
        BY <3>1, <3>2
    <2>. QED
      BY <2>1
  <1>4. sum = Def(sum)
    <2>. HIDE DEF g, Def
    <2>. QED
      BY <1>3
  <1>. HIDE DEF sum
  <1>5. sum[0] = 0 /\ \A i \in 1 .. k : sum[i] = sum[i - 1] + table[i]
    <2>1. \A i \in 0 .. k : sum[i] = IF i = 0 THEN 0 ELSE sum[i - 1] + table[i]
      BY <1>4
    <2>2. 0 \in 0 .. k /\ \A i \in 1 .. k : i \in 0 .. k /\ i # 0
      BY <1>0
    <2>. HIDE DEF Def
    <2>. QED
      BY <2>1, <2>2
  <1>6. Alike(k, sum, f)
    <2>1. \A i \in 1 .. k : sum[i - 1] = f[i - 1] => sum[i] = f[i]
      BY <1>0, <1>2, <1>5
    <2>2. sum[0] = f[0] /\ k \in Nat
      BY <1>0, <1>2, <1>5
    <2>. QED
      BY <2>1, <2>2, SameRun
  <1>. QED
    BY <1>0, <1>1, <1>6 DEF Alike, f, k

LEMMA DaysAdd ==
  ASSUME NEW table \in [1 .. 12 -> Nat]
  PROVE  /\ DaysBefore(table, 1) = 0
         /\ \A m \in 1 .. 13 : DaysBefore(table, m) \in Nat
         /\ \A m \in 1 .. 12 : DaysBefore(table, m + 1) = DaysBefore(table, m) + table[m]
  <1>. DEFINE f == Sums(12, table)
  <1>1. f \in [0 .. 12 -> Nat] /\ f[0] = 0 /\ \A i \in 1 .. 12 : f[i] = f[i - 1] + table[i]
    BY SumSteps DEF SumsBy
  <1>2. \A m \in 1 .. 13 : DaysBefore(table, m) = f[m - 1] /\ m - 1 \in 0 .. 12
    BY DaysAreSums
  <1>. HIDE DEF f
  <1>3. \A m \in 1 .. 12 : /\ DaysBefore(table, m + 1) = f[m]
                           /\ DaysBefore(table, m) = f[m - 1]
    <2>1. \A m \in 1 .. 12 : m \in 1 .. 13 /\ m + 1 \in 1 .. 13 /\ (m + 1) - 1 = m
      OBVIOUS
    <2>. QED
      BY <1>2, <2>1
  <1>4. DaysBefore(table, 1) = 0
    BY <1>1, <1>2
  <1>5. \A m \in 1 .. 13 : DaysBefore(table, m) \in Nat
    BY <1>1, <1>2
  <1>. QED
    BY <1>1, <1>3, <1>4, <1>5

-----------------------------------------------------------------------------
(* The months of a year.                                                   *)

YearTable(yr) == IF leap_year(yr) THEN [MonthDays EXCEPT ![2] = 29] ELSE MonthDays

LEMMA TableType ==
  MonthDays \in [1 .. 12 -> Nat] /\ YearTable(year) \in [1 .. 12 -> Nat]
  <1>1. MonthDays \in [1 .. 12 -> Nat]
    BY DEF MonthDays
  <1>. QED
    BY <1>1 DEF YearTable

\* February's days, and the table's months one by one.
February == IF leap_year(year) THEN 29 ELSE 28
LEMMA YearTableIs ==
  /\ YearTable(year)[1] = 31 /\ YearTable(year)[2] = February /\ YearTable(year)[3] = 31
  /\ YearTable(year)[4] = 30 /\ YearTable(year)[5] = 31 /\ YearTable(year)[6] = 30
  /\ YearTable(year)[7] = 31 /\ YearTable(year)[8] = 31 /\ YearTable(year)[9] = 30
  /\ YearTable(year)[10] = 31 /\ YearTable(year)[11] = 30 /\ YearTable(year)[12] = 31
  BY DEF YearTable, MonthDays, February

LEMMA DaysOfYear ==
  /\ DaysBefore(YearTable(year), 7) = 153 + February
  /\ DaysBefore(YearTable(year), 13) = 337 + February
  <1>. DEFINE d(m) == DaysBefore(YearTable(year), m)
  <1>1. d(1) = 0 /\ \A m \in 1 .. 12 : d(m + 1) = d(m) + YearTable(year)[m]
    BY TableType, DaysAdd
  <1>2. /\ d(2) = d(1) + YearTable(year)[1] /\ d(3) = d(2) + YearTable(year)[2]
        /\ d(4) = d(3) + YearTable(year)[3] /\ d(5) = d(4) + YearTable(year)[4]
        /\ d(6) = d(5) + YearTable(year)[5] /\ d(7) = d(6) + YearTable(year)[6]
        /\ d(8) = d(7) + YearTable(year)[7] /\ d(9) = d(8) + YearTable(year)[8]
        /\ d(10) = d(9) + YearTable(year)[9] /\ d(11) = d(10) + YearTable(year)[10]
        /\ d(12) = d(11) + YearTable(year)[11] /\ d(13) = d(12) + YearTable(year)[12]
    BY <1>1
  <1>3. February \in Nat
    BY DEF February
  <1>. HIDE DEF d
  <1>4. d(7) = 153 + February /\ d(13) = 337 + February
    BY <1>1, <1>2, <1>3, YearTableIs
  <1>. QED
    BY <1>4 DEF d

(* getdaycode() writes February's 29 days into a table that already has    *)
(* them, or is still the first one.                                        *)
LEMMA TableStays ==
  ASSUME days_in_month \in {MonthDays, YearTable(year)}
  PROVE  Table = YearTable(year)
  <1>1. [[MonthDays EXCEPT ![2] = 29] EXCEPT ![2] = 29] = [MonthDays EXCEPT ![2] = 29]
    BY TableType
  <1>. QED
    BY <1>1 DEF Table, YearTable

-----------------------------------------------------------------------------
(* The years.                                                              *)

\* The leap days of the years up to y.
LeapDays(y) == (y \div 4 - y \div 100) + y \div 400

LEMMA Quarters ==
  ASSUME NEW y \in Nat \ {0}
  PROVE  /\ y \div 4 = (y - 1) \div 4 + (IF y % 4 = 0 THEN 1 ELSE 0)
         /\ y \div 100 = (y - 1) \div 100 + (IF y % 100 = 0 THEN 1 ELSE 0)
         /\ y \div 400 = (y - 1) \div 400 + (IF y % 400 = 0 THEN 1 ELSE 0)
  OBVIOUS

LEMMA Centuries ==
  ASSUME NEW y \in Nat
  PROVE  /\ y % 100 = 0 => y % 4 = 0
         /\ y % 400 = 0 => y % 100 = 0
         /\ y % 100 = 0 <=> y % 400 \in {0, 100, 200, 300}
  OBVIOUS

LEMMA LeapDay ==
  ASSUME year \in Nat \ {0}
  PROVE  /\ LeapDays(year) = LeapDays(year - 1) + (February - 28)
         /\ LeapDays(year - 1) \in Int
  <1>. DEFINE d == year \div 4
              e == year \div 100
              f == year \div 400
              a == (year - 1) \div 4
              b == (year - 1) \div 100
              c == (year - 1) \div 400
  <1>1. /\ d = a + (IF year % 4 = 0 THEN 1 ELSE 0)
        /\ e = b + (IF year % 100 = 0 THEN 1 ELSE 0)
        /\ f = c + (IF year % 400 = 0 THEN 1 ELSE 0)
    BY Quarters
  <1>2. a \in Int /\ b \in Int /\ c \in Int
    OBVIOUS
  <1>3. /\ year % 100 = 0 => year % 4 = 0
        /\ year % 400 = 0 => year % 100 = 0
    BY Centuries
  <1>. HIDE DEF a, b, c, d, e, f
  <1>4. (d - e) + f = ((a - b) + c) + (February - 28)
    BY <1>1, <1>2, <1>3 DEF February, leap_year
  <1>5. (a - b) + c \in Int
    BY <1>2
  <1>. QED
    BY <1>4, <1>5 DEF LeapDays, a, b, c, d, e, f

LEMMA LeapIsGregorian ==
  ASSUME year \in Nat
  PROVE  leap_year(year) <=> Gregorian
  BY Centuries DEF leap_year, Gregorian

-----------------------------------------------------------------------------
(* The column a month starts in.                                           *)

LEMMA AddSeven ==
  ASSUME NEW a \in Int, NEW b \in Int
  PROVE  (a + b) % 7 = ((a % 7) + b) % 7
  OBVIOUS

LEMMA CodeIs ==
  ASSUME year \in Nat \ {0}, NEW table \in [1 .. 12 -> Nat], NEW m \in 1 .. 13
  PROVE  /\ DayCode(year, table, m) = ((year + LeapDays(year - 1)) + DaysBefore(table, m)) % 7
         /\ DayCode(year, table, m) \in 0 .. 6
  <1>. DEFINE s == DaysBefore(table, m)
              a == (year - 1) \div 4
              b == (year - 1) \div 100
              c == (year - 1) \div 400
  <1>1. s \in Nat
    BY DaysAdd
  <1>2. a \in Int /\ b \in Int /\ c \in Int
    OBVIOUS
  <1>3. DayCode(year, table, m) = (year + a - b + c + s) % 7
    BY DEF DayCode
  <1>4. LeapDays(year - 1) = (a - b) + c
    BY DEF LeapDays
  <1>. HIDE DEF s, a, b, c
  <1>5. (year + a - b + c + s) = (year + ((a - b) + c)) + s /\ (year + ((a - b) + c)) + s \in Int
    BY <1>1, <1>2
  <1>6. \A n \in Int : n % 7 \in 0 .. 6
    OBVIOUS
  <1>. QED
    BY <1>3, <1>4, <1>5, <1>6 DEF s

(* The next month starts where this one ends.                              *)
LEMMA NextStarts ==
  ASSUME year \in Nat \ {0}, NEW m \in 1 .. 12
  PROVE  DayCode(year, YearTable(year), m + 1) = (DayCode(year, YearTable(year), m) + YearTable(year)[m]) % 7
  <1>. DEFINE a == (year + LeapDays(year - 1)) + DaysBefore(YearTable(year), m)
  <1>1. /\ year + LeapDays(year - 1) \in Int /\ DaysBefore(YearTable(year), m) \in Nat
        /\ YearTable(year)[m] \in Nat
        /\ DaysBefore(YearTable(year), m + 1) = DaysBefore(YearTable(year), m) + YearTable(year)[m]
    BY LeapDay, TableType, DaysAdd
  <1>2. /\ DayCode(year, YearTable(year), m) = a % 7
        /\ DayCode(year, YearTable(year), m + 1)
             = ((year + LeapDays(year - 1)) + DaysBefore(YearTable(year), m + 1)) % 7
    BY TableType, CodeIs
  <1>3. /\ a \in Int
        /\ (year + LeapDays(year - 1)) + DaysBefore(YearTable(year), m + 1) = a + YearTable(year)[m]
    BY <1>1
  <1>. HIDE DEF a
  <1>. QED
    BY <1>1, <1>2, <1>3, AddSeven

(* So does the next year, which is computed from the first table.          *)
LEMMA NextYearStarts ==
  ASSUME year \in Nat \ {0}
  PROVE  DayCode(year + 1, MonthDays, 1)
           = (DayCode(year, YearTable(year), 1) + (337 + February)) % 7
  <1>. DEFINE a == year + LeapDays(year - 1)
              d == year \div 4
              e == year \div 100
              f == year \div 400
  <1>1. a \in Int /\ LeapDays(year) = LeapDays(year - 1) + (February - 28)
    BY LeapDay
  <1>2. DayCode(year, YearTable(year), 1) = a % 7
    <2>1. DayCode(year, YearTable(year), 1) = (a + DaysBefore(YearTable(year), 1)) % 7
      BY TableType, CodeIs
    <2>2. DaysBefore(YearTable(year), 1) = 0
      BY TableType, DaysAdd
    <2>. QED
      BY <1>1, <2>1, <2>2
  <1>3. DayCode(year + 1, MonthDays, 1) = ((year + 1) + LeapDays(year)) % 7
    <2>1. (year + 1) - 1 = year
      OBVIOUS
    <2>2. DaysBefore(MonthDays, 1) = 0
      BY TableType, DaysAdd
    <2>3. DayCode(year + 1, MonthDays, 1) = ((year + 1) + d - e + f + 0) % 7
      BY <2>1, <2>2 DEF DayCode
    <2>4. d \in Int /\ e \in Int /\ f \in Int
      OBVIOUS
    <2>5. LeapDays(year) = (d - e) + f
      BY DEF LeapDays
    <2>. HIDE DEF d, e, f
    <2>6. ((year + 1) + d - e + f + 0) = (year + 1) + ((d - e) + f)
      BY <2>4
    <2>. QED
      BY <2>3, <2>5, <2>6
  <1>4. LeapDays(year - 1) \in Int /\ February \in Int
    BY LeapDay DEF February
  <1>5. (year + 1) + LeapDays(year) = a + (February - 27)
    BY <1>1, <1>4
  <1>. HIDE DEF a
  <1>6. (a + (February - 27)) % 7 = ((a % 7) + (February - 27)) % 7
    BY <1>1, <1>4, AddSeven
  <1>7. a % 7 \in Int
    BY <1>1
  <1>8. ((a % 7) + (February - 27)) % 7 = ((a % 7) + (337 + February)) % 7
    BY <1>4, <1>7
  <1>. QED
    BY <1>2, <1>3, <1>5, <1>6, <1>8

(* July 2018 starts on a Sunday.                                           *)
LEMMA July2018 ==
  ASSUME year = 2018
  PROVE  DayCode(year, YearTable(year), 7) = 0
  <1>1. ~ leap_year(2018)
    BY DEF leap_year
  <1>2. DaysBefore(YearTable(year), 7) = 181
    BY <1>1, DaysOfYear DEF February
  <1>3. LeapDays(2017) = 489
    BY DEF LeapDays
  <1>4. DayCode(year, YearTable(year), 7) = ((2018 + LeapDays(2017)) + DaysBefore(YearTable(year), 7)) % 7
    <2>1. year \in Nat \ {0} /\ year - 1 = 2017
      OBVIOUS
    <2>. QED
      BY <2>1, TableType, CodeIs
  <1>. QED
    BY <1>2, <1>3, <1>4

-----------------------------------------------------------------------------
(* The pages.                                                              *)

PageOf(yr, m) ==
  [month |-> m, start |-> DayCode(yr, YearTable(yr), m), days |-> YearTable(yr)[m]]

(* What a state's pages are: none, the one month asked for, or the first   *)
(* months of the year in order, all twelve once main() has returned.       *)
NoPage == pages = <<>> /\ on
OnePage == Len(pages) = 1 /\ ~ on /\ \E m \in 1 .. 11 : pages[1] = PageOf(year, m)
InOrder ==
  /\ Len(pages) \in 1 .. 12 /\ \A i \in 1 .. Len(pages) : pages[i] = PageOf(year, i)
  /\ month = Len(pages) + 1
  /\ ~ on => Len(pages) = 12
PagesRight == NoPage \/ OnePage \/ InOrder
CalendarInv ==
  /\ year \in Nat \ {0} /\ asked \in Int
  /\ days_in_month \in {MonthDays, YearTable(year)}
  /\ pages \in Seq([month : Int, start : Int, days : Int])
  /\ PagesRight

LEMMA PageType ==
  ASSUME year \in Nat \ {0}, NEW m \in 1 .. 12
  PROVE  PageOf(year, m) \in [month : Int, start : Int, days : Int]
  <1>1. DayCode(year, YearTable(year), m) \in Int /\ YearTable(year)[m] \in Int
    BY TableType, CodeIs
  <1>. QED
    BY <1>1 DEF PageOf

LEMMA CalendarStarts == CalendarInit => CalendarInv
  BY YearAssumption DEF CalendarInit, CalendarInv, PagesRight, NoPage

(* A page printed for month m is that of the month in its year.            *)
LEMMA PagePrinted ==
  ASSUME CalendarInv, NEW m \in 1 .. 12, Page(m)
  PROVE  /\ days_in_month' = YearTable(year)
         /\ pages' \in Seq([month : Int, start : Int, days : Int])
         /\ Len(pages') = Len(pages) + 1
         /\ pages'[Len(pages) + 1] = PageOf(year, m)
         /\ \A i \in 1 .. Len(pages) : pages'[i] = pages[i]
  <1>1. Table = YearTable(year)
    BY TableStays DEF CalendarInv
  <1>2. days_in_month' = YearTable(year) /\ pages' = Append(pages, PageOf(year, m))
    BY <1>1 DEF Page, PageOf
  <1>3. PageOf(year, m) \in [month : Int, start : Int, days : Int]
    BY PageType DEF CalendarInv
  <1>. QED
    BY <1>2, <1>3 DEF CalendarInv

LEMMA CalendarGoesOn == CalendarInv /\ [CalendarNext]_calendarVars => CalendarInv'
  <1>. SUFFICES ASSUME CalendarInv, [CalendarNext]_calendarVars PROVE CalendarInv'
    OBVIOUS
  <1>t. year \in Nat \ {0} /\ asked \in Int /\ pages \in Seq([month : Int, start : Int, days : Int])
    BY DEF CalendarInv
  <1>1. CASE OneMonth
    <2>1. /\ asked \in 1 .. 11 /\ asked \in 1 .. 12 /\ Len(pages) = 0 /\ Page(asked) /\ ~ on'
          /\ year' = year /\ asked' = asked
      BY <1>1, <1>t DEF OneMonth
    <2>2. OnePage'
      BY <2>1, PagePrinted DEF OnePage
    <2>. QED
      BY <1>t, <2>1, <2>2, PagePrinted DEF CalendarInv, PagesRight
  <1>2. CASE AllMonths
    <2>1. /\ 1 \in 1 .. 12 /\ Len(pages) = 0 /\ Page(1) /\ month' = 2 /\ on' = on
          /\ year' = year /\ asked' = asked /\ on
      BY <1>2 DEF AllMonths
    <2>2. Len(pages') = 1 /\ pages'[1] = PageOf(year', 1)
      BY <2>1, PagePrinted
    <2>3. InOrder'
      BY <2>1, <2>2 DEF InOrder
    <2>. QED
      BY <1>t, <2>1, <2>3, PagePrinted DEF CalendarInv, PagesRight
  <1>3. CASE NextMonth
    <2>1. on /\ pages # <<>> /\ year' = year /\ asked' = asked
      BY <1>3 DEF NextMonth
    <2>2. InOrder
      BY <2>1 DEF CalendarInv, PagesRight, NoPage, OnePage
    <2>3. CASE month <= 12
      <3>1. month \in 1 .. 12 /\ month = Len(pages) + 1
            /\ Page(month) /\ month' = month + 1 /\ on' = on
        BY <1>3, <2>1, <2>2, <2>3 DEF NextMonth, InOrder
      <3>2. /\ Len(pages') = month /\ pages'[month] = PageOf(year, month)
            /\ \A i \in 1 .. Len(pages) : pages'[i] = pages[i]
        BY <3>1, PagePrinted
      <3>3. \A i \in 1 .. Len(pages') : pages'[i] = PageOf(year', i)
        <4>1. \A i \in 1 .. Len(pages') : i \in 1 .. Len(pages) \/ i = month
          BY <3>1, <3>2
        <4>. QED
          BY <2>1, <2>2, <3>2, <4>1 DEF InOrder
      <3>4. InOrder'
        BY <2>1, <3>1, <3>2, <3>3 DEF InOrder
      <3>. QED
        BY <1>t, <2>1, <3>1, <3>4, PagePrinted DEF CalendarInv, PagesRight
    <2>4. CASE ~ (month <= 12)
      <3>1. ~ on' /\ UNCHANGED <<days_in_month, pages, month>>
        BY <1>3, <2>4 DEF NextMonth
      <3>2. Len(pages) = 12
        BY <2>2, <2>4, SMTT(30) DEF InOrder
      <3>3. InOrder'
        BY <2>1, <2>2, <3>1, <3>2 DEF InOrder
      <3>. QED
        BY <1>t, <2>1, <3>1, <3>3 DEF CalendarInv, PagesRight
    <2>. QED
      BY <2>3, <2>4
  <1>4. CASE UNCHANGED calendarVars
    BY <1>4 DEF calendarVars, CalendarInv, PagesRight, NoPage, OnePage, InOrder
  <1>. QED
    BY <1>1, <1>2, <1>3, <1>4 DEF CalendarNext

LEMMA PagesFollow == CalendarInv => Follows
  <1>. SUFFICES ASSUME CalendarInv PROVE Follows
    OBVIOUS
  <1>1. year \in Nat \ {0}
    BY DEF CalendarInv
  <1>n. Len(pages) \in Nat
    BY DEF CalendarInv
  <1>2. \/ Len(pages) = 0
        \/ Len(pages) = 1 /\ \E m \in 1 .. 11 : pages[1] = PageOf(year, m)
        \/ Len(pages) \in 1 .. 12 /\ \A i \in 1 .. Len(pages) : pages[i] = PageOf(year, i)
    BY DEF CalendarInv, PagesRight, NoPage, OnePage, InOrder
  <1>3. \A i \in 1 .. Len(pages) - 1 :
          pages[i + 1].start = (pages[i].start + pages[i].days) % 7
    <2>. SUFFICES ASSUME NEW i \in 1 .. Len(pages) - 1
                  PROVE  pages[i + 1].start = (pages[i].start + pages[i].days) % 7
      OBVIOUS
    <2>. DEFINE n == Len(pages)
    <2>a. n \in Nat /\ i \in 1 .. n - 1
      BY <1>n
    <2>. HIDE DEF n
    <2>b. n # 0 /\ n # 1 /\ i \in 1 .. n /\ i + 1 \in 1 .. n
      BY <2>a
    <2>0. Len(pages) # 0 /\ Len(pages) # 1 /\ i \in 1 .. Len(pages) /\ i + 1 \in 1 .. Len(pages)
      BY <2>b DEF n
    <2>1. /\ i \in 1 .. 12 /\ i \in 1 .. Len(pages) /\ i + 1 \in 1 .. Len(pages)
          /\ \A k \in 1 .. Len(pages) : pages[k] = PageOf(year, k)
      BY <1>n, <1>2, <2>0
    <2>2. pages[i] = PageOf(year, i) /\ pages[i + 1] = PageOf(year, i + 1)
      BY <2>1
    <2>3. DayCode(year, YearTable(year), i + 1) = (DayCode(year, YearTable(year), i) + YearTable(year)[i]) % 7
      BY <1>1, <2>1, NextStarts
    <2>. QED
      BY <2>2, <2>3 DEF PageOf
  <1>4. ASSUME Len(pages) = 12
        PROVE  DayCode(year + 1, MonthDays, 1)
                 = (pages[1].start + (IF Gregorian THEN 366 ELSE 365)) % 7
    <2>1. pages[1].start = DayCode(year, YearTable(year), 1)
      BY <1>2, <1>4 DEF PageOf
    <2>2. 337 + February = IF Gregorian THEN 366 ELSE 365
      BY <1>1, LeapIsGregorian DEF February
    <2>. QED
      BY <1>1, <2>1, <2>2, NextYearStarts
  <1>5. ASSUME year = 2018, NEW i \in 1 .. Len(pages), pages[i].month = 7
        PROVE  pages[i].start = 0
    <2>0. \/ i = 1 /\ \E m \in 1 .. 11 : pages[1] = PageOf(year, m)
          \/ i \in 1 .. 12 /\ pages[i] = PageOf(year, i)
      BY <1>2, SMTT(30)
    <2>1. PICK m \in 1 .. 12 : pages[i] = PageOf(year, m)
      BY <2>0
    <2>2. m = 7 /\ pages[i].start = DayCode(year, YearTable(year), m)
      BY <1>5, <2>1 DEF PageOf
    <2>. QED
      BY <1>5, <2>2, July2018
  <1>. QED
    BY <1>3, <1>4, <1>5 DEF Follows

LEMMA PagesWhole == CalendarInv => WholeYear
  <1>. SUFFICES ASSUME CalendarInv, ~ on, Len(pages) > 1
                PROVE  /\ [i \in 1 .. Len(pages) |-> pages[i].month] = [i \in 1 .. 12 |-> i]
                       /\ DaysBefore([i \in 1 .. 12 |-> pages[i].days], 13)
                            = (IF Gregorian THEN 366 ELSE 365)
    BY DEF WholeYear
  <1>n. Len(pages) # 0 /\ Len(pages) # 1
    <2>. DEFINE n == Len(pages)
    <2>1. n \in Nat /\ n > 1
      BY DEF CalendarInv
    <2>. HIDE DEF n
    <2>2. n # 0 /\ n # 1
      BY <2>1
    <2>. QED
      BY <2>2 DEF n
  <1>1. year \in Nat \ {0} /\ Len(pages) = 12 /\ \A i \in 1 .. 12 : pages[i] = PageOf(year, i)
    BY <1>n DEF CalendarInv, PagesRight, NoPage, OnePage, InOrder
  <1>2. \A i \in 1 .. 12 : pages[i].month = i /\ pages[i].days = YearTable(year)[i]
    BY <1>1 DEF PageOf
  <1>3. [i \in 1 .. Len(pages) |-> pages[i].month] = [i \in 1 .. 12 |-> i]
    BY <1>1, <1>2
  <1>4. [i \in 1 .. 12 |-> pages[i].days] = YearTable(year)
    BY <1>2, TableType
  <1>5. 337 + February = IF Gregorian THEN 366 ELSE 365
    BY <1>1, LeapIsGregorian DEF February
  <1>. QED
    BY <1>3, <1>4, <1>5, DaysOfYear

(* For every range of years and whatever is asked for: each page's first   *)
(* day is the weekday after the last day of the page before, the next      *)
(* January follows December, and a whole year's pages are its twelve       *)
(* months, 365 days or 366 of them, however often getdaycode() has written *)
(* the leap day into the table before (calendar.c:22-36).                  *)
THEOREM CalendarRight == CalendarSpec => [](Follows /\ WholeYear)
  <1>1. CalendarInv => Follows /\ WholeYear
    BY PagesFollow, PagesWhole
  <1>. QED
    BY CalendarStarts, CalendarGoesOn, <1>1, PTL DEF CalendarSpec
=============================================================================
