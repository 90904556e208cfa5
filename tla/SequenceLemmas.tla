---------------------------- MODULE SequenceLemmas --------------------------
(***************************************************************************)
(* Lemmas about sequences for the proofs about the components: parts of a  *)
(* stream and what is put behind them, suffixes, and recursive functions.  *)
(***************************************************************************)
EXTENDS Integers, SequencesExt, SequenceTheorems, WellFoundedInduction, TLAPS

-----------------------------------------------------------------------------
(* Parts of a stream.                                                      *)

(* The elements behind position a, up to b.                                *)
LEMMA Slice ==
  ASSUME NEW S, NEW s \in Seq(S), NEW a \in Nat, NEW b \in a .. Len(s)
  PROVE  /\ SubSeq(s, a + 1, b) \in Seq(S)
         /\ Len(SubSeq(s, a + 1, b)) = b - a
         /\ \A i \in 1 .. b - a : SubSeq(s, a + 1, b)[i] = s[a + i]
  <1>. DEFINE m == a + 1
  <1>1. Len(s) \in Nat /\ m \in Int /\ b \in Int
    OBVIOUS
  <1>2. \A i \in m .. b : s[i] \in S
    BY <1>1
  <1>3. b - m + 1 = b - a /\ (IF m <= b THEN b - m + 1 ELSE 0) = b - a
    BY <1>1
  <1>4. \A i \in 1 .. b - a : m + i - 1 = a + i
    BY <1>1
  <1>. HIDE DEF m
  <1>5. /\ SubSeq(s, m, b) \in Seq(S)
        /\ Len(SubSeq(s, m, b)) = IF m <= b THEN b - m + 1 ELSE 0
        /\ \A i \in 1 .. b - m + 1 : SubSeq(s, m, b)[i] = s[m + i - 1]
    BY <1>1, <1>2, SubSeqProperties
  <1>6. /\ SubSeq(s, m, b) \in Seq(S) /\ Len(SubSeq(s, m, b)) = b - a
        /\ \A i \in 1 .. b - a : SubSeq(s, m, b)[i] = s[a + i]
    BY <1>3, <1>4, <1>5
  <1>. QED
    BY <1>6, Zenon DEF m

(* The first i elements are the first i - 1 and the next one.              *)
NextTaken(s, i) == SubSeq(s, 1, i) = Append(SubSeq(s, 1, i - 1), s[i])
LEMMA TakeOneMore ==
  ASSUME NEW S, NEW s \in Seq(S), NEW i \in 1 .. Len(s)
  PROVE  NextTaken(s, i)
  <1>. DEFINE j == i - 1
              a == SubSeq(s, 1, j)
              e == s[i]
  <1>1. 1 \in 1 .. Len(s) /\ i \in 1 .. Len(s)
    OBVIOUS
  <1>2. SubSeq(s, 1, i) = a \o <<e>>
    BY <1>1, SubSeqRecursiveSecond
  <1>3. a \in Seq(S) /\ e \in S
    <2>1. 0 + 1 = 1 /\ j \in 0 .. Len(s) /\ 0 \in Nat
      OBVIOUS
    <2>. HIDE DEF j
    <2>. QED
      BY <2>1, Slice
  <1>. HIDE DEF a, e
  <1>4. SubSeq(s, 1, i) = Append(a, e)
    BY <1>2, <1>3, AppendIsConcat
  <1>. QED
    BY <1>4 DEF NextTaken, a, e, j

(* What is in a buffer, and the next k elements of a stream behind it.     *)
ReadOn(buf, in, pos, k) == buf \o SubSeq(in, pos + 1, pos + k)
LEMMA ReadMore ==
  ASSUME NEW S, NEW buf \in Seq(S), NEW in \in Seq(S),
         NEW pos \in Nat, NEW k \in Nat, pos + k <= Len(in)
  PROVE  /\ ReadOn(buf, in, pos, k) \in Seq(S)
         /\ Len(ReadOn(buf, in, pos, k)) = Len(buf) + k
         /\ \A i \in 1 .. Len(buf) : ReadOn(buf, in, pos, k)[i] = buf[i]
         /\ \A i \in 1 .. k : ReadOn(buf, in, pos, k)[Len(buf) + i] = in[pos + i]
  <1>. DEFINE b == pos + k
              s == SubSeq(in, pos + 1, b)
              r == buf \o s
  <1>1. /\ pos \in Nat /\ k \in Nat /\ b \in pos .. Len(in) /\ b - pos = k
        /\ Len(buf) \in Nat
    OBVIOUS
  <1>. HIDE DEF b
  <1>2. s \in Seq(S) /\ Len(s) = k /\ \A i \in 1 .. k : s[i] = in[pos + i]
    BY <1>1, Slice
  <1>. HIDE DEF s
  <1>3. /\ r \in Seq(S)
        /\ Len(r) = Len(buf) + Len(s)
        /\ \A i \in 1 .. Len(buf) + Len(s) :
             r[i] = IF i <= Len(buf) THEN buf[i] ELSE s[i - Len(buf)]
    BY <1>2, ConcatProperties, Zenon
  <1>. HIDE DEF r
  <1>4. ASSUME NEW i \in 1 .. Len(buf) PROVE r[i] = buf[i]
    BY <1>1, <1>2, <1>3
  <1>5. ASSUME NEW i \in 1 .. k PROVE r[Len(buf) + i] = in[pos + i]
    <2>1. /\ Len(buf) + i \in 1 .. Len(buf) + Len(s)
          /\ ~ (Len(buf) + i <= Len(buf)) /\ Len(buf) + i - Len(buf) = i
      BY <1>1, <1>2
    <2>2. r[Len(buf) + i] = s[i]
      BY <1>3, <2>1
    <2>. QED
      BY <1>2, <2>2
  <1>6. r \in Seq(S) /\ Len(r) = Len(buf) + k
    BY <1>2, <1>3
  <1>. QED
    BY <1>4, <1>5, <1>6, Zenon DEF r, s, b, ReadOn

(* What has arrived and what is under way, as one moves to the other.       *)
LEMMA MoveOver ==
  ASSUME NEW S, NEW g \in Seq(S), NEW w \in Seq(S), w # <<>>
  PROVE  Append(g, Head(w)) \o Tail(w) = g \o w
  <1>. DEFINE t == Tail(w)
              h == Append(g, Head(w))
              l == h \o t
              r == g \o w
  <1>1. /\ Head(w) = w[1] /\ Head(w) \in S /\ t \in Seq(S) /\ Len(t) = Len(w) - 1
        /\ \A i \in 1 .. Len(t) : t[i] = w[i + 1]
        /\ Len(w) \in Nat \ {0} /\ Len(g) \in Nat
    BY HeadTailProperties
  <1>2. /\ h \in Seq(S) /\ Len(h) = Len(g) + 1 /\ h[Len(g) + 1] = w[1]
        /\ \A i \in 1 .. Len(g) : h[i] = g[i]
    BY <1>1
  <1>. HIDE DEF t, h
  <1>n. /\ Len(g) \in Nat /\ Len(w) \in Nat \ {0}
        /\ Len(h) = Len(g) + 1 /\ Len(t) = Len(w) - 1
    BY <1>1, <1>2, Zenon
  <1>3. /\ l \in Seq(S) /\ Len(l) = Len(h) + Len(t)
        /\ \A i \in 1 .. Len(h) + Len(t) : l[i] = IF i <= Len(h) THEN h[i] ELSE t[i - Len(h)]
    BY <1>1, <1>2, ConcatProperties, Zenon
  <1>4. /\ r \in Seq(S) /\ Len(r) = Len(g) + Len(w)
        /\ \A i \in 1 .. Len(g) + Len(w) : r[i] = IF i <= Len(g) THEN g[i] ELSE w[i - Len(g)]
    BY ConcatProperties, Zenon
  <1>. HIDE DEF l, r
  <1>m. Len(l) = Len(h) + Len(t) /\ Len(r) = Len(g) + Len(w)
    BY <1>3, <1>4, Zenon
  <1>5. Len(l) = Len(r)
    BY <1>n, <1>m
  <1>6. ASSUME NEW i \in 1 .. Len(l) PROVE l[i] = r[i]
    <2>a. i \in 1 .. Len(h) + Len(t) /\ i \in 1 .. Len(g) + Len(w) /\ i \in Nat
      BY <1>n, <1>m
    <2>b. /\ l[i] = IF i <= Len(h) THEN h[i] ELSE t[i - Len(h)]
          /\ r[i] = IF i <= Len(g) THEN g[i] ELSE w[i - Len(g)]
      BY <1>3, <1>4, <2>a, Zenon
    <2>1. CASE i <= Len(g)
      <3>1. i <= Len(h) /\ i \in 1 .. Len(g)
        BY <1>n, <2>1, <2>a
      <3>2. h[i] = g[i]
        BY <1>2, <3>1, Zenon
      <3>. QED
        BY <2>1, <2>b, <3>1, <3>2
    <2>2. CASE i = Len(g) + 1
      <3>1. i <= Len(h) /\ ~ (i <= Len(g)) /\ i - Len(g) = 1
        BY <1>n, <2>2
      <3>. QED
        BY <1>2, <2>2, <2>b, <3>1
    <2>3. CASE i > Len(g) + 1
      <3>0. ~ (i <= Len(h)) /\ i - Len(h) \in 1 .. Len(t) /\ ~ (i <= Len(g))
        BY <1>n, <2>3, <2>a
      <3>1. l[i] = t[i - Len(h)] /\ r[i] = w[i - Len(g)]
        BY <2>b, <3>0, Zenon
      <3>2. t[i - Len(h)] = w[i - Len(h) + 1]
        BY <1>1, <3>0, Zenon
      <3>3. i - Len(h) + 1 = i - Len(g)
        BY <1>n, <2>a
      <3>. QED
        BY <3>1, <3>2, <3>3, Zenon
    <2>. QED
      BY <1>n, <2>a, <2>1, <2>2, <2>3
  <1>7. l = r
    BY <1>3, <1>4, <1>5, <1>6, SeqEqual, Zenon
  <1>. QED
    BY <1>7 DEF l, r, h, t

(* The same, as one more is put under way.                                 *)
LEMMA PutBehind ==
  ASSUME NEW S, NEW g \in Seq(S), NEW w \in Seq(S), NEW x \in S
  PROVE  /\ g \o Append(w, x) \in Seq(S)
         /\ Len(g \o Append(w, x)) = Len(g \o w) + 1
         /\ (g \o Append(w, x))[Len(g \o w) + 1] = x
         /\ \A i \in 1 .. Len(g \o w) : (g \o Append(w, x))[i] = (g \o w)[i]
  <1>. DEFINE t == Append(w, x)
              l == g \o t
              r == g \o w
  <1>1. /\ t \in Seq(S) /\ Len(t) = Len(w) + 1 /\ t[Len(w) + 1] = x
        /\ \A i \in 1 .. Len(w) : t[i] = w[i]
        /\ Len(w) \in Nat /\ Len(g) \in Nat
    OBVIOUS
  <1>. HIDE DEF t
  <1>2. /\ l \in Seq(S) /\ Len(l) = Len(g) + Len(t)
        /\ \A i \in 1 .. Len(g) + Len(t) : l[i] = IF i <= Len(g) THEN g[i] ELSE t[i - Len(g)]
    BY <1>1, ConcatProperties, Zenon
  <1>3. /\ r \in Seq(S) /\ Len(r) = Len(g) + Len(w)
        /\ \A i \in 1 .. Len(g) + Len(w) : r[i] = IF i <= Len(g) THEN g[i] ELSE w[i - Len(g)]
    BY ConcatProperties, Zenon
  <1>. HIDE DEF l, r
  <1>n. /\ Len(g) \in Nat /\ Len(w) \in Nat /\ Len(t) = Len(w) + 1
        /\ Len(l) = Len(g) + Len(t) /\ Len(r) = Len(g) + Len(w)
    BY <1>1, <1>2, <1>3, Zenon
  <1>4. Len(l) = Len(r) + 1
    BY <1>n
  <1>5. l[Len(r) + 1] = x
    <2>1. PICK k \in Int : k = Len(r) + 1
      BY <1>n
    <2>2. k \in 1 .. Len(g) + Len(t) /\ ~ (k <= Len(g)) /\ k - Len(g) = Len(w) + 1
      BY <1>n, <2>1
    <2>3. l[k] = IF k <= Len(g) THEN g[k] ELSE t[k - Len(g)]
      BY <1>2, <2>2, Zenon
    <2>4. l[k] = t[k - Len(g)]
      BY <2>2, <2>3, Zenon
    <2>5. t[Len(w) + 1] = x
      BY <1>1, Zenon
    <2>. QED
      BY <2>1, <2>2, <2>4, <2>5
  <1>6. ASSUME NEW i \in 1 .. Len(r) PROVE l[i] = r[i]
    <2>a. i \in 1 .. Len(g) + Len(t) /\ i \in 1 .. Len(g) + Len(w)
      BY <1>n
    <2>b. /\ l[i] = IF i <= Len(g) THEN g[i] ELSE t[i - Len(g)]
          /\ r[i] = IF i <= Len(g) THEN g[i] ELSE w[i - Len(g)]
      BY <1>2, <1>3, <2>a, Zenon
    <2>1. CASE i <= Len(g)
      BY <2>b, <2>1, Zenon
    <2>2. CASE ~ (i <= Len(g))
      <3>1. l[i] = t[i - Len(g)] /\ r[i] = w[i - Len(g)]
        BY <2>b, <2>2, Zenon
      <3>2. i - Len(g) \in 1 .. Len(w)
        BY <1>n, <2>a, <2>2
      <3>. QED
        BY <1>1, <3>1, <3>2, Zenon
    <2>. QED
      BY <2>1, <2>2
  <1>. QED
    BY <1>2, <1>4, <1>5, <1>6 DEF l, r, t

(* The element between two sequences, there and taken out.                 *)
InBetween(S, k, x, t, p) ==
  /\ p \in Seq(S) /\ Len(p) = Len(k) + 1 + Len(t) /\ p[Len(k) + 1] = x
  /\ Append(k, x) \o t = p
  /\ RemoveAt(p, Len(k) + 1) = k \o t
LEMMA Between ==
  ASSUME NEW S, NEW k \in Seq(S), NEW x \in S, NEW t \in Seq(S)
  PROVE  InBetween(S, k, x, t, k \o (<<x>> \o t))
  <1>. DEFINE r == <<x>> \o t
              p == k \o r
              m == Len(k) + 1
              a == SubSeq(p, 1, Len(k))
              b == SubSeq(p, m + 1, Len(p))
  <1>1. <<x>> \in Seq(S) /\ Len(<<x>>) = 1 /\ Len(k) \in Nat /\ Len(t) \in Nat
    OBVIOUS
  <1>2. /\ r \in Seq(S) /\ Len(r) = 1 + Len(t)
        /\ r[1] = x /\ \A i \in 1 .. Len(t) : r[i + 1] = t[i]
    <2>1. /\ r \in Seq(S) /\ Len(r) = Len(<<x>>) + Len(t)
          /\ \A i \in 1 .. Len(<<x>>) + Len(t) : r[i] = IF i <= Len(<<x>>) THEN <<x>>[i] ELSE t[i - Len(<<x>>)]
      BY <1>1, ConcatProperties, Zenon
    <2>2. \A i \in 1 .. 1 + Len(t) : r[i] = IF i <= 1 THEN <<x>>[i] ELSE t[i - 1]
      BY <1>1, <2>1
    <2>. HIDE DEF r
    <2>3. ASSUME NEW i \in 1 .. Len(t) PROVE r[i + 1] = t[i]
      <3>1. i + 1 \in 1 .. 1 + Len(t) /\ ~ (i + 1 <= 1) /\ i + 1 - 1 = i
        BY <1>1
      <3>. QED
        BY <2>2, <3>1
    <2>. QED
      BY <1>1, <2>1, <2>2, <2>3
  <1>3. Append(k, x) \o t = p
    <2>1. Append(k, x) = k \o <<x>>
      BY AppendIsConcat
    <2>. QED
      BY <1>1, <2>1, ConcatAssociative
  <1>0. p = k \o r
    OBVIOUS
  <1>. HIDE DEF r, p
  <1>4. /\ p \in Seq(S) /\ Len(p) = Len(k) + Len(r)
        /\ \A i \in 1 .. Len(k) + Len(r) : p[i] = IF i <= Len(k) THEN k[i] ELSE r[i - Len(k)]
    <2>1. r \in Seq(S)
      BY <1>2
    <2>2. /\ k \o r \in Seq(S) /\ Len(k \o r) = Len(k) + Len(r)
          /\ \A i \in 1 .. Len(k) + Len(r) :
               (k \o r)[i] = IF i <= Len(k) THEN k[i] ELSE r[i - Len(k)]
      BY <2>1, ConcatProperties
    <2>. QED
      BY <1>0, <2>2
  <1>5. /\ \A i \in 1 .. Len(k) : p[i] = k[i]
        /\ p[m] = x
        /\ \A i \in 1 .. Len(t) : p[m + i] = t[i]
    <2>1. ASSUME NEW i \in 1 .. Len(r) PROVE p[Len(k) + i] = r[i]
      <3>1. Len(k) + i \in 1 .. Len(k) + Len(r) /\ ~ (Len(k) + i <= Len(k)) /\ Len(k) + i - Len(k) = i
        BY <1>1, <1>2
      <3>. QED
        BY <1>4, <3>1
    <2>2. \A i \in 1 .. Len(k) : p[i] = k[i]
      BY <1>1, <1>2, <1>4
    <2>3. ASSUME NEW i \in 1 .. Len(t) PROVE p[m + i] = t[i]
      <3>0. Len(r) = 1 + Len(t)
        BY <1>2
      <3>1. i + 1 \in 1 .. Len(r) /\ m + i = Len(k) + (i + 1)
        BY <1>1, <3>0
      <3>2. p[Len(k) + (i + 1)] = r[i + 1] /\ r[i + 1] = t[i]
        BY <1>2, <2>1, <3>1
      <3>. QED
        BY <3>1, <3>2
    <2>4. 1 \in 1 .. Len(r)
      BY <1>1, <1>2
    <2>. QED
      BY <1>2, <2>1, <2>2, <2>3, <2>4
  <1>6. Len(p) = m + Len(t) /\ m \in Nat /\ Len(p) \in Nat
    BY <1>1, <1>2, <1>4
  <1>7. a = k
    <2>1. 0 \in Nat /\ Len(k) \in 0 .. Len(p) /\ 0 + 1 = 1 /\ Len(k) - 0 = Len(k)
          /\ \A i \in 1 .. Len(k) : 0 + i = i
      BY <1>1, <1>6
    <2>2. a \in Seq(S) /\ Len(a) = Len(k) /\ \A i \in 1 .. Len(k) : a[i] = p[0 + i]
      BY <1>4, <2>1, Slice
    <2>. HIDE DEF a
    <2>3. \A i \in 1 .. Len(k) : a[i] = k[i]
      BY <1>5, <2>1, <2>2
    <2>. QED
      BY <2>2, <2>3, SeqEqual
  <1>8. b = t
    <2>1. Len(p) \in m .. Len(p) /\ Len(p) - m = Len(t)
      BY <1>1, <1>6
    <2>2. b \in Seq(S) /\ Len(b) = Len(t) /\ \A i \in 1 .. Len(t) : b[i] = p[m + i]
      BY <1>4, <1>6, <2>1, Slice
    <2>. HIDE DEF b
    <2>3. \A i \in 1 .. Len(t) : b[i] = t[i]
      BY <1>5, <2>2
    <2>. QED
      BY <2>2, <2>3, SeqEqual
  <1>9. RemoveAt(p, m) = a \o b
    <2>1. m - 1 = Len(k)
      BY <1>1
    <2>. QED
      BY <2>1 DEF RemoveAt
  <1>. QED
    BY <1>3, <1>4, <1>5, <1>6, <1>7, <1>8, <1>9 DEF r, p, m, InBetween

-----------------------------------------------------------------------------
(* Induction over a bounded set of numbers, as the least number principle  *)
(* gives it, and what it yields of functions that are defined by recursion.*)

(* Less-than has no infinite descent on the natural numbers.               *)
LEMMA NatWellFounded == IsWellFoundedOn({p \in Nat \X Nat : p[1] < p[2]}, Nat)
  BY NatLessThanWellFounded DEF OpToRel

(* A set of natural numbers that is not empty has a least element.         *)
LEMMA LeastNumber ==
  ASSUME NEW T \in SUBSET Nat, T # {}
  PROVE  \E m \in T : \A k \in T : m <= k
  <1>. DEFINE less == {p \in Nat \X Nat : p[1] < p[2]}
  <1>1. PICK m \in T : \A k \in T : ~ (<<k, m>> \in less)
    <2>. HIDE DEF less
    <2>1. IsWellFoundedOn(less, Nat)
      BY NatWellFounded DEF less
    <2>. QED
      BY <2>1, WFMin, Zenon
  <1>2. ASSUME NEW k \in T PROVE m <= k
    <2>1. <<k, m>> \in Nat \X Nat /\ <<k, m>>[1] = k /\ <<k, m>>[2] = m
      OBVIOUS
    <2>2. ~ (<<k, m>> \in less)
      BY <1>1, Zenon
    <2>3. ~ (k < m)
      BY <2>1, <2>2
    <2>. QED
      BY <2>3
  <1>. QED
    BY <1>2

(* Induction up to n, for a set of numbers.                                *)
LEMMA Induction ==
  ASSUME NEW n \in Nat, NEW P, 0 \in P,
         \A i \in 1 .. n : i - 1 \in P => i \in P
  PROVE  \A i \in 0 .. n : i \in P
  <1>. DEFINE T == {i \in 0 .. n : i \notin P}
  <1>1. SUFFICES ASSUME T # {} PROVE FALSE
    OBVIOUS
  <1>2. PICK m \in T : \A k \in T : m <= k
    <2>1. T \in SUBSET Nat
      OBVIOUS
    <2>. HIDE DEF T
    <2>. QED
      BY <1>1, <2>1, LeastNumber, Zenon
  <1>3. m \in 1 .. n /\ m - 1 \in 0 .. n
    BY <1>2
  <1>4. m - 1 \notin T
    BY <1>2, <1>3
  <1>. QED
    BY <1>2, <1>3, <1>4

(* Two sequences of states that start alike and go on alike are the same.  *)
Alike(n, f, g) == \A i \in 0 .. n : f[i] = g[i]
LEMMA SameRun ==
  ASSUME NEW n \in Nat, NEW f, NEW g, f[0] = g[0],
         \A i \in 1 .. n : f[i - 1] = g[i - 1] => f[i] = g[i]
  PROVE  Alike(n, f, g)
  <1>. DEFINE P == {i \in 0 .. n : f[i] = g[i]}
  <1>1. 0 \in P
    OBVIOUS
  <1>2. ASSUME NEW i \in 1 .. n, i - 1 \in P PROVE i \in P
    BY <1>2
  <1>. HIDE DEF P
  <1>3. \A i \in 0 .. n : i \in P
    BY <1>1, <1>2, Induction
  <1>. QED
    BY <1>3 DEF P, Alike

(* A function may be defined by what it is at 0 and how it goes on.        *)
CanRun(S, base, n, step) ==
  \E f \in [0 .. n -> S] :
    f[0] = base /\ \A i \in 1 .. n : f[i] = step[<<i, f[i - 1]>>]
LEMMA Recursion ==
  ASSUME NEW S, NEW base \in S, NEW n \in Nat, NEW step \in [(1 .. n) \X S -> S]
  PROVE  CanRun(S, base, n, step)
  <1>. DEFINE Run(f, k) ==
                /\ f[0] = base
                /\ \A i \in 1 .. k : f[i] = step[<<i, f[i - 1]>>]
              P == {k \in 0 .. n : \E f \in [0 .. k -> S] : Run(f, k)}
  <1>1. 0 \in P
    <2>1. Run([i \in 0 .. 0 |-> base], 0) /\ [i \in 0 .. 0 |-> base] \in [0 .. 0 -> S]
      OBVIOUS
    <2>. HIDE DEF Run
    <2>. QED
      BY <2>1
  <1>2. ASSUME NEW k \in 1 .. n, k - 1 \in P PROVE k \in P
    <2>1. PICK f \in [0 .. k - 1 -> S] : Run(f, k - 1)
      BY <1>2
    <2>. DEFINE g == [i \in 0 .. k |-> IF i = k THEN step[<<k, f[k - 1]>>] ELSE f[i]]
    <2>2. f[k - 1] \in S /\ \A i \in 0 .. k - 1 : f[i] \in S
      BY <2>1
    <2>3. step[<<k, f[k - 1]>>] \in S
      BY <2>2
    <2>4. g \in [0 .. k -> S] /\ g[0] = base
      BY <2>1, <2>2, <2>3
    <2>5. ASSUME NEW i \in 1 .. k PROVE g[i] = step[<<i, g[i - 1]>>]
      <3>1. i - 1 \in 0 .. k /\ i - 1 # k /\ g[i - 1] = f[i - 1]
        OBVIOUS
      <3>2. CASE i = k
        BY <3>1, <3>2
      <3>3. CASE i # k
        BY <2>1, <3>1, <3>3
      <3>. QED
        BY <3>2, <3>3
    <2>6. Run(g, k)
      BY <2>4, <2>5
    <2>. HIDE DEF Run, g
    <2>. QED
      BY <2>4, <2>6
  <1>3. n \in P
    <2>. HIDE DEF P
    <2>1. \A k \in 0 .. n : k \in P
      BY <1>1, <1>2, Induction
    <2>. QED
      BY <2>1
  <1>4. PICK f \in [0 .. n -> S] : Run(f, n)
    BY <1>3
  <1>. QED
    BY <1>4 DEF CanRun

(* What holds of the first state and goes on to the next holds of all.     *)
LEMMA RunType ==
  ASSUME NEW S, NEW n \in Nat, NEW f, f[0] \in S,
         \A i \in 1 .. n : f[i - 1] \in S => f[i] \in S
  PROVE  \A i \in 0 .. n : f[i] \in S
  <1>. DEFINE P == {i \in 0 .. n : f[i] \in S}
  <1>1. 0 \in P
    OBVIOUS
  <1>2. ASSUME NEW i \in 1 .. n, i - 1 \in P PROVE i \in P
    BY <1>2
  <1>. HIDE DEF P
  <1>3. \A i \in 0 .. n : i \in P
    BY <1>1, <1>2, Induction
  <1>. QED
    BY <1>3 DEF P

-----------------------------------------------------------------------------
(* Sequences of sequences.                                                 *)

(* FlattenSeq, one sequence after the other.                               *)
FlattensBy(S, ss) ==
  \E f \in [0 .. Len(ss) -> Seq(S)] :
    /\ FlattenSeq(ss) = f[Len(ss)] /\ f[0] = <<>>
    /\ \A i \in 1 .. Len(ss) : f[i] = f[i - 1] \o ss[i]
LEMMA FlattenSteps ==
  ASSUME NEW S, NEW ss \in Seq(Seq(S))
  PROVE  FlattensBy(S, ss)
  <1>. DEFINE L == Len(ss)
              step == [p \in (1 .. L) \X Seq(S) |-> p[2] \o ss[p[1]]]
              Def(f) == [i \in 1 .. L |-> IF i = 1 THEN ss[i] ELSE f[i - 1] \o ss[i]]
              flatten == CHOOSE f : f = Def(f)
              all == [i \in 0 .. L |-> IF i = 0 THEN <<>> ELSE flatten[i]]
  <1>1. L \in Nat /\ <<>> \in Seq(S) /\ \A i \in 1 .. L : ss[i] \in Seq(S)
    OBVIOUS
  <1>2. FlattenSeq(ss) = all[L]
    <2>1. CASE L = 0
      BY <1>1, <2>1 DEF FlattenSeq
    <2>2. CASE L # 0
      <3>1. FlattenSeq(ss) = flatten[L]
        BY <2>2 DEF FlattenSeq
      <3>. HIDE DEF flatten
      <3>. QED
        BY <1>1, <2>2, <3>1
    <2>. QED
      BY <2>1, <2>2
  <1>3. \A i \in 1 .. L, t \in Seq(S) : t \o ss[i] \in Seq(S)
    BY <1>1, ConcatProperties
  <1>. HIDE DEF L
  <1>4. step \in [(1 .. L) \X Seq(S) -> Seq(S)]
    BY <1>3
  <1>5. \A i \in 1 .. L, t \in Seq(S) : step[<<i, t>>] = t \o ss[i]
    OBVIOUS
  <1>. HIDE DEF step
  <1>6. PICK f \in [0 .. L -> Seq(S)] :
          f[0] = <<>> /\ \A i \in 1 .. L : f[i] = step[<<i, f[i - 1]>>]
    <2>1. CanRun(Seq(S), <<>>, L, step)
      BY <1>1, <1>4, Recursion
    <2>. QED
      BY <2>1 DEF CanRun
  <1>7. \A i \in 1 .. L : f[i] = IF i = 1 THEN ss[i] ELSE f[i - 1] \o ss[i]
    <2>1. ASSUME NEW i \in 1 .. L PROVE f[i] = f[i - 1] \o ss[i]
      <3>1. f[i - 1] \in Seq(S)
        BY <1>1
      <3>. QED
        BY <1>5, <1>6, <3>1
    <2>2. ASSUME 1 \in 1 .. L PROVE f[1] = ss[1]
      <3>1. ss[1] \in Seq(S) /\ f[1] = <<>> \o ss[1]
        <4>1. f[1] = f[1 - 1] \o ss[1] /\ ss[1] \in Seq(S)
          BY <1>1, <2>1, <2>2, Zenon
        <4>2. 1 - 1 = 0 /\ f[0] = <<>>
          BY <1>6
        <4>. QED
          BY <4>1, <4>2
      <3>. QED
        BY <3>1, ConcatEmptySeq
    <2>. QED
      BY <2>1, <2>2
  <1>8. \E h : h = Def(h)
    <2>. DEFINE h == [i \in 1 .. L |-> f[i]]
    <2>1. h = Def(h)
      <3>1. \A i \in 1 .. L : i # 1 => h[i - 1] = f[i - 1]
        BY <1>1
      <3>. QED
        BY <1>7, <3>1
    <2>. HIDE DEF h, Def
    <2>. QED
      BY <2>1
  <1>9. flatten = Def(flatten)
    <2>. HIDE DEF Def
    <2>. QED
      BY <1>8
  <1>. HIDE DEF flatten
  <1>10. \A i \in 1 .. L : flatten[i] = IF i = 1 THEN ss[i] ELSE flatten[i - 1] \o ss[i]
    BY <1>9
  <1>11. all[0] = <<>> /\ \A i \in 1 .. L : all[i] = all[i - 1] \o ss[i]
    <2>1. ASSUME NEW i \in 1 .. L PROVE all[i] = all[i - 1] \o ss[i]
      <3>1. CASE i = 1
        <4>1. all[i] = ss[i] /\ all[i - 1] = <<>>
          BY <1>1, <1>10, <3>1
        <4>. QED
          BY <1>1, <4>1, ConcatEmptySeq
      <3>2. CASE i # 1
        <4>1. all[i] = flatten[i] /\ all[i - 1] = flatten[i - 1]
          BY <1>1, <3>2
        <4>. QED
          BY <1>10, <3>2, <4>1
      <3>. QED
        BY <3>1, <3>2
    <2>2. all[0] = <<>>
      BY <1>1
    <2>. QED
      BY <2>1, <2>2
  <1>12. all \in [0 .. L -> Seq(S)]
    <2>1. DOMAIN all = 0 .. L /\ all = [i \in 0 .. L |-> all[i]]
      OBVIOUS
    <2>. HIDE DEF all
    <2>2. \A i \in 1 .. L : all[i - 1] \in Seq(S) => all[i] \in Seq(S)
      BY <1>3, <1>11
    <2>3. \A i \in 0 .. L : all[i] \in Seq(S)
      BY <1>1, <1>11, <2>2, RunType
    <2>. QED
      BY <2>1, <2>3
  <1>. QED
    BY <1>2, <1>11, <1>12 DEF L, FlattensBy

(* Sequences of elements of S make up one such sequence, empty ones none.  *)
LEMMA FlattenType ==
  ASSUME NEW S, NEW ss \in Seq(Seq(S))
  PROVE  FlattenSeq(ss) \in Seq(S)
  <1>1. PICK f \in [0 .. Len(ss) -> Seq(S)] : FlattenSeq(ss) = f[Len(ss)]
    BY FlattenSteps DEF FlattensBy
  <1>2. Len(ss) \in 0 .. Len(ss)
    OBVIOUS
  <1>. QED
    BY <1>1, <1>2

LEMMA FlattenEmpty == FlattenSeq(<<>>) = <<>>
  BY DEF FlattenSeq

(* One more sequence is put behind the others.                             *)
LEMMA FlattenAppend ==
  ASSUME NEW S, NEW ss \in Seq(Seq(S)), NEW s \in Seq(S)
  PROVE  FlattenSeq(Append(ss, s)) = FlattenSeq(ss) \o s
  <1>. DEFINE T == Seq(S)
              tt == Append(ss, s)
  <1>1. tt \in Seq(T) /\ Len(tt) = Len(ss) + 1 /\ tt[Len(ss) + 1] = s
        /\ (\A i \in 1 .. Len(ss) : tt[i] = ss[i]) /\ Len(ss) \in Nat
    <2>1. ss \in Seq(T) /\ s \in T
      OBVIOUS
    <2>. HIDE DEF T
    <2>. QED
      BY <2>1
  <1>. HIDE DEF tt
  <1>2. PICK f \in [0 .. Len(ss) -> Seq(S)] :
          /\ FlattenSeq(ss) = f[Len(ss)] /\ f[0] = <<>>
          /\ \A i \in 1 .. Len(ss) : f[i] = f[i - 1] \o ss[i]
    BY FlattenSteps DEF FlattensBy
  <1>3. PICK g \in [0 .. Len(tt) -> Seq(S)] :
          /\ FlattenSeq(tt) = g[Len(tt)] /\ g[0] = <<>>
          /\ \A i \in 1 .. Len(tt) : g[i] = g[i - 1] \o tt[i]
    <2>1. FlattensBy(S, tt)
      BY <1>1, FlattenSteps
    <2>. QED
      BY <2>1 DEF FlattensBy
  <1>4. f[Len(ss)] = g[Len(ss)]
    <2>1. ASSUME NEW i \in 1 .. Len(ss), f[i - 1] = g[i - 1] PROVE f[i] = g[i]
      <3>1. i \in 1 .. Len(tt) /\ tt[i] = ss[i]
        BY <1>1
      <3>. QED
        BY <1>2, <1>3, <2>1, <3>1
    <2>2. f[0] = g[0]
      BY <1>2, <1>3
    <2>3. Alike(Len(ss), f, g)
      BY <1>1, <2>1, <2>2, SameRun
    <2>4. Len(ss) \in 0 .. Len(ss)
      BY <1>1
    <2>. QED
      BY <2>3, <2>4 DEF Alike
  <1>5. g[Len(tt)] = g[Len(ss)] \o s
    <2>1. Len(tt) \in 1 .. Len(tt) /\ Len(tt) - 1 = Len(ss) /\ tt[Len(tt)] = s
      BY <1>1
    <2>. QED
      BY <1>3, <2>1
  <1>. QED
    BY <1>2, <1>3, <1>4, <1>5 DEF tt

-----------------------------------------------------------------------------
(* Texts within texts.                                                     *)

(* A text that stands in another one, from position i on.                  *)
StandsAt(ln, i, s) ==
  i \in Nat \ {0} /\ i + Len(s) <= Len(ln) + 1 /\ \A k \in 1 .. Len(s) : ln[i + k - 1] = s[k]
InTwo(S, ln, i, s, t, u) ==
  ln \in Seq(S) /\ s \in Seq(S) /\ t \in Seq(S) /\ u = s \o t /\ StandsAt(ln, i, u)

(* Where the parts of a text stand in another one.                         *)
LEMMA TextParts ==
  ASSUME NEW S, NEW ln, NEW i, NEW s, NEW t, NEW u, InTwo(S, ln, i, s, t, u)
  PROVE  StandsAt(ln, i, s) /\ StandsAt(ln, i + Len(s), t) /\ Len(u) = Len(s) + Len(t)
  <1>1. ln \in Seq(S) /\ s \in Seq(S) /\ t \in Seq(S) /\ u = s \o t /\ StandsAt(ln, i, u)
    BY DEF InTwo
  <1>2. /\ Len(u) = Len(s) + Len(t) /\ Len(s) \in Nat /\ Len(t) \in Nat
        /\ \A k \in 1 .. Len(s) + Len(t) : u[k] = IF k <= Len(s) THEN s[k] ELSE t[k - Len(s)]
    BY <1>1, ConcatProperties
  <1>3. ASSUME NEW k \in 1 .. Len(s) PROVE ln[i + k - 1] = s[k]
    BY <1>1, <1>2 DEF StandsAt
  <1>4. ASSUME NEW k \in 1 .. Len(t) PROVE ln[(i + Len(s)) + k - 1] = t[k]
    <2>1. PICK m : m = Len(s) + k
      OBVIOUS
    <2>2. m \in 1 .. Len(s) + Len(t) /\ ~ (m <= Len(s)) /\ m - Len(s) = k
      BY <1>2, <2>1
    <2>3. u[m] = t[k]
      BY <1>2, <2>2
    <2>4. ln[i + m - 1] = u[m]
      BY <1>1, <1>2, <2>2 DEF StandsAt
    <2>. QED
      BY <1>1, <1>2, <2>1, <2>3, <2>4 DEF StandsAt
  <1>. QED
    BY <1>1, <1>2, <1>3, <1>4 DEF StandsAt

-----------------------------------------------------------------------------
(* Suffixes.                                                               *)

(* A suffix, element by element.                                           *)
LEMMA SuffixElements ==
  ASSUME NEW S, NEW s \in Seq(S), NEW t \in Seq(S)
  PROVE  IsSuffix(s, t) <=>
           /\ Len(s) <= Len(t)
           /\ \A i \in 1 .. Len(s) : s[i] = t[Len(t) - Len(s) + i]
  <1>. DEFINE r == Reverse(s)
              q == Reverse(t)
              p == SubSeq(q, 1, Len(r))
              o == SubSeq(r, 1, Len(r))
  <1>1. /\ r \in Seq(S) /\ Len(r) = Len(s)
        /\ \A i \in 1 .. Len(s) : r[i] = s[(Len(s) - i) + 1]
        /\ q \in Seq(S) /\ Len(q) = Len(t)
        /\ \A i \in 1 .. Len(t) : q[i] = t[(Len(t) - i) + 1]
        /\ Len(s) \in Nat /\ Len(t) \in Nat
    BY DEF Reverse
  <1>2. IsSuffix(s, t) <=> Len(r) <= Len(q) /\ o = p
    BY DEF IsSuffix, IsPrefix
  <1>. HIDE DEF r, q
  <1>3. SUFFICES ASSUME Len(s) <= Len(t)
                 PROVE  o = p <=> \A i \in 1 .. Len(s) : s[i] = t[Len(t) - Len(s) + i]
    BY <1>1, <1>2
  <1>4. /\ o \in Seq(S) /\ Len(o) = Len(s) /\ \A i \in 1 .. Len(s) : o[i] = r[i]
        /\ p \in Seq(S) /\ Len(p) = Len(s) /\ \A i \in 1 .. Len(s) : p[i] = q[i]
    BY <1>1, <1>3
  <1>. HIDE DEF o, p
  <1>5. o = p <=> \A i \in 1 .. Len(s) : o[i] = p[i]
    BY <1>4, SeqEqual
  <1>6. ASSUME NEW i \in 1 .. Len(s)
        PROVE  /\ o[i] = s[(Len(s) - i) + 1]
               /\ p[i] = t[(Len(t) - i) + 1]
    BY <1>1, <1>3, <1>4
  <1>7. ASSUME \A i \in 1 .. Len(s) : o[i] = p[i], NEW i \in 1 .. Len(s)
        PROVE  s[i] = t[Len(t) - Len(s) + i]
    <2>1. PICK j \in 1 .. Len(s) : j = (Len(s) - i) + 1
      BY <1>1
    <2>2. (Len(s) - j) + 1 = i /\ (Len(t) - j) + 1 = Len(t) - Len(s) + i
      BY <1>1, <2>1
    <2>. QED
      BY <1>6, <1>7, <2>2
  <1>8. ASSUME \A i \in 1 .. Len(s) : s[i] = t[Len(t) - Len(s) + i], NEW i \in 1 .. Len(s)
        PROVE  o[i] = p[i]
    <2>1. PICK j \in 1 .. Len(s) : j = (Len(s) - i) + 1
      BY <1>1
    <2>2. Len(t) - Len(s) + j = (Len(t) - i) + 1
      BY <1>1, <2>1
    <2>. QED
      BY <1>6, <1>8, <2>1, <2>2
  <1>. QED
    BY <1>5, <1>7, <1>8

(* Every sequence ends with itself, and with nothing.                      *)
LEMMA SuffixSelf ==
  ASSUME NEW S, NEW s \in Seq(S)
  PROVE  IsSuffix(s, s) /\ IsSuffix(<<>>, s)
  <1>1. Len(s) \in Nat /\ <<>> \in Seq(S) /\ Len(<<>>) = 0
    OBVIOUS
  <1>2. \A i \in 1 .. Len(s) : Len(s) - Len(s) + i = i
    BY <1>1
  <1>3. IsSuffix(s, s)
    BY <1>1, <1>2, SuffixElements
  <1>4. IsSuffix(<<>>, s)
    <2>. DEFINE none == <<>>
    <2>1. none \in Seq(S) /\ Len(none) <= Len(s) /\ 1 .. Len(none) = {}
      BY <1>1
    <2>. HIDE DEF none
    <2>2. IsSuffix(none, s)
      BY <2>1, SuffixElements
    <2>. QED
      BY <2>2 DEF none
  <1>. QED
    BY <1>3, <1>4

(* A suffix stays one when both go on alike.                               *)
LEMMA SuffixGrows ==
  ASSUME NEW S, NEW s \in Seq(S), NEW t \in Seq(S), IsSuffix(s, t), NEW x \in S
  PROVE  IsSuffix(Append(s, x), Append(t, x))
  <1>. DEFINE a == Append(s, x)
              b == Append(t, x)
  <1>1. /\ Len(s) \in Nat /\ Len(t) \in Nat /\ Len(s) <= Len(t)
        /\ \A i \in 1 .. Len(s) : s[i] = t[Len(t) - Len(s) + i]
    BY SuffixElements
  <1>2. /\ a \in Seq(S) /\ Len(a) = Len(s) + 1 /\ a[Len(s) + 1] = x
        /\ \A i \in 1 .. Len(s) : a[i] = s[i]
        /\ b \in Seq(S) /\ Len(b) = Len(t) + 1 /\ b[Len(t) + 1] = x
        /\ \A i \in 1 .. Len(t) : b[i] = t[i]
    OBVIOUS
  <1>. HIDE DEF a, b
  <1>3. ASSUME NEW i \in 1 .. Len(a) PROVE a[i] = b[Len(b) - Len(a) + i]
    <2>1. Len(b) - Len(a) + i = Len(t) - Len(s) + i
      BY <1>1, <1>2
    <2>2. CASE i = Len(s) + 1
      <3>1. Len(t) - Len(s) + i = Len(t) + 1
        BY <1>1, <2>2
      <3>. QED
        BY <1>2, <2>1, <2>2, <3>1
    <2>3. CASE i # Len(s) + 1
      <3>1. i \in 1 .. Len(s) /\ Len(t) - Len(s) + i \in 1 .. Len(t)
        BY <1>1, <1>2, <2>3
      <3>. QED
        BY <1>1, <1>2, <2>1, <3>1
    <2>. QED
      BY <2>2, <2>3
  <1>4. Len(a) <= Len(b) /\ a \in Seq(S) /\ b \in Seq(S)
    BY <1>1, <1>2
  <1>5. IsSuffix(a, b)
    BY <1>3, <1>4, SuffixElements
  <1>. QED
    BY <1>5 DEF a, b


-----------------------------------------------------------------------------
(* Sums of m numbers s[1], ..., s[m].                                      *)

\* f[i] is the sum of the first i.
SumsBy(m, s, f) ==
  f \in [0 .. m -> Nat] /\ f[0] = 0 /\ \A i \in 1 .. m : f[i] = f[i - 1] + s[i]
Sums(m, s) == CHOOSE f : SumsBy(m, s, f)
SumTo(m, s) == Sums(m, s)[m]

LEMMA SumSteps ==
  ASSUME NEW m \in Nat, NEW s \in [1 .. m -> Nat]
  PROVE  SumsBy(m, s, Sums(m, s))
  <1>. DEFINE step == [p \in (1 .. m) \X Nat |-> p[2] + s[p[1]]]
  <1>1. step \in [(1 .. m) \X Nat -> Nat]
        /\ \A i \in 1 .. m, v \in Nat : step[<<i, v>>] = v + s[i]
    OBVIOUS
  <1>. HIDE DEF step
  <1>2. PICK f \in [0 .. m -> Nat] :
          f[0] = 0 /\ \A i \in 1 .. m : f[i] = step[<<i, f[i - 1]>>]
    <2>1. CanRun(Nat, 0, m, step)
      BY <1>1, Recursion
    <2>. QED
      BY <2>1 DEF CanRun
  <1>3. \A i \in 1 .. m : f[i] = f[i - 1] + s[i]
    <2>1. \A i \in 1 .. m : f[i - 1] \in Nat
      OBVIOUS
    <2>. QED
      BY <1>1, <1>2, <2>1
  <1>4. SumsBy(m, s, f)
    BY <1>2, <1>3 DEF SumsBy
  <1>. QED
    BY <1>4 DEF Sums

LEMMA SumType ==
  ASSUME NEW m \in Nat, NEW s \in [1 .. m -> Nat]
  PROVE  SumTo(m, s) \in Nat
  BY SumSteps DEF SumsBy, SumTo

(* Whatever adds them up one by one comes to their sum.                    *)
LEMMA SumIs ==
  ASSUME NEW m \in Nat, NEW s \in [1 .. m -> Nat], NEW f,
         f[0] = 0, \A i \in 1 .. m : f[i] = f[i - 1] + s[i]
  PROVE  f[m] = SumTo(m, s)
  <1>. DEFINE g == Sums(m, s)
  <1>1. g[0] = 0 /\ \A i \in 1 .. m : g[i] = g[i - 1] + s[i]
    BY SumSteps DEF SumsBy
  <1>. HIDE DEF g
  <1>2. \A i \in 1 .. m : f[i - 1] = g[i - 1] => f[i] = g[i]
    BY <1>1
  <1>3. f[0] = g[0] /\ m \in 0 .. m
    BY <1>1
  <1>4. Alike(m, f, g)
    BY <1>2, <1>3, SameRun
  <1>. QED
    BY <1>3, <1>4 DEF Alike, SumTo, g

(* Sums add up, ...                                                        *)
LEMMA SumAdds ==
  ASSUME NEW m \in Nat, NEW s \in [1 .. m -> Nat], NEW t \in [1 .. m -> Nat],
         NEW u \in [1 .. m -> Nat], \A i \in 1 .. m : u[i] = s[i] + t[i]
  PROVE  SumTo(m, u) = SumTo(m, s) + SumTo(m, t)
  <1>. DEFINE f == Sums(m, s)
              g == Sums(m, t)
              h == [i \in 0 .. m |-> f[i] + g[i]]
  <1>1. SumsBy(m, s, f) /\ SumsBy(m, t, g)
    BY SumSteps
  <1>. HIDE DEF f, g
  <1>2. h[0] = 0 /\ \A i \in 1 .. m : h[i] = h[i - 1] + u[i]
    <2>1. \A i \in 1 .. m : i - 1 \in 0 .. m /\ i \in 0 .. m
      OBVIOUS
    <2>2. \A i \in 0 .. m : f[i] \in Nat /\ g[i] \in Nat
      BY <1>1 DEF SumsBy
    <2>. QED
      BY <1>1, <2>1, <2>2 DEF SumsBy
  <1>3. h[m] = f[m] + g[m]
    OBVIOUS
  <1>. HIDE DEF h
  <1>4. h[m] = SumTo(m, u)
    BY <1>2, SumIs
  <1>. QED
    BY <1>3, <1>4 DEF SumTo, f, g

(* ... those of nothing are nothing, ...                                   *)
LEMMA SumZero ==
  ASSUME NEW m \in Nat, NEW s \in [1 .. m -> Nat], \A i \in 1 .. m : s[i] = 0
  PROVE  SumTo(m, s) = 0
  <1>1. SumTo(m, s) = SumTo(m, s) + SumTo(m, s)
    <2>1. \A i \in 1 .. m : s[i] = s[i] + s[i]
      OBVIOUS
    <2>. QED
      BY <2>1, SumAdds
  <1>. QED
    BY <1>1, SumType

(* ... one number that changes changes the sum by as much, ...             *)
LEMMA SumChanges ==
  ASSUME NEW m \in Nat, NEW s \in [1 .. m -> Nat], NEW t \in [1 .. m -> Nat],
         NEW j \in 1 .. m, \A i \in 1 .. m : i # j => t[i] = s[i]
  PROVE  SumTo(m, s) + t[j] = SumTo(m, t) + s[j]
  <1>. DEFINE f == Sums(m, s)
              g == Sums(m, t)
              P == {i \in 0 .. m : IF i < j THEN f[i] = g[i] ELSE f[i] + t[j] = g[i] + s[j]}
  <1>1. SumsBy(m, s, f) /\ SumsBy(m, t, g)
    BY SumSteps
  <1>. HIDE DEF f, g
  <1>2. /\ f[0] = 0 /\ g[0] = 0 /\ \A i \in 0 .. m : f[i] \in Nat /\ g[i] \in Nat
        /\ \A i \in 1 .. m : /\ f[i] = f[i - 1] + s[i] /\ g[i] = g[i - 1] + t[i]
                             /\ s[i] \in Nat /\ t[i] \in Nat
    BY <1>1 DEF SumsBy
  <1>3. 0 \in P
    BY <1>2
  <1>4. ASSUME NEW i \in 1 .. m, i - 1 \in P PROVE i \in P
    <2>1. /\ f[i] = f[i - 1] + s[i] /\ g[i] = g[i - 1] + t[i] /\ i \in 0 .. m
          /\ f[i - 1] \in Nat /\ g[i - 1] \in Nat /\ s[i] \in Nat /\ t[i] \in Nat
          /\ s[j] \in Nat /\ t[j] \in Nat
      <3>1. i - 1 \in 0 .. m /\ i \in 0 .. m
        OBVIOUS
      <3>. QED
        BY <1>2, <3>1
    <2>2. IF i - 1 < j THEN f[i - 1] = g[i - 1] ELSE f[i - 1] + t[j] = g[i - 1] + s[j]
      BY <1>4
    <2>3. i # j => t[i] = s[i]
      OBVIOUS
    <2>4. IF i < j THEN f[i] = g[i] ELSE f[i] + t[j] = g[i] + s[j]
      <3>. DEFINE F == f[i]  G == g[i]  F1 == f[i - 1]  G1 == g[i - 1]
                  a == s[i]  c == t[i]  d == s[j]  e == t[j]
      <3>1. /\ F = F1 + a /\ G = G1 + c /\ F1 \in Nat /\ G1 \in Nat
            /\ a \in Nat /\ c \in Nat /\ d \in Nat /\ e \in Nat
        BY <2>1
      <3>2. IF i - 1 < j THEN F1 = G1 ELSE F1 + e = G1 + d
        BY <2>2
      <3>3. (i # j => c = a) /\ (i = j => c = e /\ a = d)
        BY <2>3
      <3>. HIDE DEF F, G, F1, G1, a, c, d, e
      <3>4. IF i < j THEN F = G ELSE F + e = G + d
        BY <3>1, <3>2, <3>3
      <3>. QED
        BY <3>4 DEF F, G, d, e
    <2>. QED
      BY <2>1, <2>4
  <1>. HIDE DEF P
  <1>5. \A i \in 0 .. m : i \in P
    BY <1>3, <1>4, Induction
  <1>6. m \in P
    BY <1>5
  <1>. QED
    BY <1>6 DEF P, SumTo, f, g

(* ... as do two, ...                                                      *)
TwoChange(m, s, t, j, k, more) ==
  /\ m \in Nat /\ s \in [1 .. m -> Nat] /\ t \in [1 .. m -> Nat]
  /\ j \in 1 .. m /\ k \in 1 .. m /\ j # k /\ more \in Nat
  /\ \A i \in 1 .. m : i # j /\ i # k => t[i] = s[i]
  /\ t[j] + t[k] = s[j] + s[k] + more
LEMMA SumOfTwo ==
  ASSUME NEW m, NEW s, NEW t, NEW j, NEW k, NEW more, TwoChange(m, s, t, j, k, more)
  PROVE  SumTo(m, t) = SumTo(m, s) + more
  <1>0. /\ m \in Nat /\ s \in [1 .. m -> Nat] /\ t \in [1 .. m -> Nat]
        /\ j \in 1 .. m /\ k \in 1 .. m /\ j # k /\ more \in Nat
        /\ \A i \in 1 .. m : i # j /\ i # k => t[i] = s[i]
        /\ t[j] + t[k] = s[j] + s[k] + more
    BY DEF TwoChange
  <1>. DEFINE u == [s EXCEPT ![j] = t[j]]
  <1>1. /\ u \in [1 .. m -> Nat] /\ u[j] = t[j] /\ u[k] = s[k]
        /\ \A i \in 1 .. m : (i # j => u[i] = s[i]) /\ (i # k => t[i] = u[i])
    BY <1>0
  <1>. HIDE DEF u
  <1>2. SumTo(m, s) + t[j] = SumTo(m, u) + s[j]
    BY <1>0, <1>1, SumChanges
  <1>3. SumTo(m, u) + t[k] = SumTo(m, t) + s[k]
    BY <1>0, <1>1, SumChanges
  <1>4. /\ SumTo(m, s) \in Nat /\ SumTo(m, u) \in Nat /\ SumTo(m, t) \in Nat
        /\ s[j] \in Nat /\ s[k] \in Nat /\ t[j] \in Nat /\ t[k] \in Nat
    BY <1>0, <1>1, SumType
  <1>. DEFINE S == SumTo(m, s)  U == SumTo(m, u)  T == SumTo(m, t)
              a == s[j]  c == s[k]  d == t[j]  e == t[k]
  <1>5. /\ S \in Nat /\ U \in Nat /\ T \in Nat
        /\ a \in Nat /\ c \in Nat /\ d \in Nat /\ e \in Nat
        /\ S + d = U + a /\ U + e = T + c /\ d + e = a + c + more
    BY <1>0, <1>2, <1>3, <1>4
  <1>. HIDE DEF S, U, T, a, c, d, e
  <1>6. T = S + more
    BY <1>0, <1>5
  <1>. QED
    BY <1>6 DEF S, T

(* ... the order does not matter, ...                                      *)
LEMMA SumReversed ==
  ASSUME NEW m \in Nat, NEW s \in [1 .. m -> Nat], NEW t \in [1 .. m -> Nat],
         \A i \in 1 .. m : t[i] = s[m + 1 - i]
  PROVE  SumTo(m, t) = SumTo(m, s)
  <1>. DEFINE f == Sums(m, s)
              g == Sums(m, t)
              P == {i \in 0 .. m : g[i] + f[m - i] = f[m]}
  <1>1. SumsBy(m, s, f) /\ SumsBy(m, t, g)
    BY SumSteps
  <1>. HIDE DEF f, g
  <1>2. /\ f[0] = 0 /\ g[0] = 0 /\ \A i \in 0 .. m : f[i] \in Nat /\ g[i] \in Nat
        /\ \A i \in 1 .. m : /\ f[i] = f[i - 1] + s[i] /\ g[i] = g[i - 1] + t[i]
                             /\ s[i] \in Nat /\ t[i] \in Nat
    BY <1>1 DEF SumsBy
  <1>3. 0 \in P
    <2>1. m - 0 = m /\ m \in 0 .. m
      OBVIOUS
    <2>. QED
      BY <1>2, <2>1
  <1>4. ASSUME NEW i \in 1 .. m, i - 1 \in P PROVE i \in P
    <2>1. m - (i - 1) = m + 1 - i /\ m + 1 - i \in 1 .. m /\ m + 1 - i - 1 = m - i
          /\ i - 1 \in 0 .. m /\ m - i \in 0 .. m /\ i \in 0 .. m
      OBVIOUS
    <2>2. g[i - 1] + f[m + 1 - i] = f[m]
      BY <1>4, <2>1
    <2>3. f[m + 1 - i] = f[m - i] + t[i] /\ g[i] = g[i - 1] + t[i]
          /\ f[m - i] \in Nat /\ g[i - 1] \in Nat /\ t[i] \in Nat
      BY <1>2, <2>1
    <2>4. g[i] + f[m - i] = f[m]
      BY <2>2, <2>3
    <2>. QED
      BY <2>1, <2>4
  <1>. HIDE DEF P
  <1>5. \A i \in 0 .. m : i \in P
    BY <1>3, <1>4, Induction
  <1>6. g[m] + f[m - m] = f[m] /\ m - m = 0
    BY <1>5 DEF P
  <1>7. g[m] = f[m]
    <2>1. g[m] \in Nat
      BY <1>2
    <2>. QED
      BY <1>2, <1>6, <2>1
  <1>. QED
    BY <1>7 DEF SumTo, f, g

(* ... and a square adds up to the same by rows and by columns.            *)
LEMMA SumExchanged ==
  ASSUME NEW m \in Nat, NEW b \in [1 .. m -> [1 .. m -> Nat]]
  PROVE  SumTo(m, [x \in 1 .. m |-> SumTo(m, b[x])])
           = SumTo(m, [y \in 1 .. m |-> SumTo(m, [x \in 1 .. m |-> b[x][y]])])
  <1>. DEFINE R == [x \in 1 .. m |-> SumTo(m, b[x])]
              f == Sums(m, R)
              col(y) == [x \in 1 .. m |-> b[x][y]]
              c(y) == Sums(m, col(y))
              part(i) == [y \in 1 .. m |-> c(y)[i]]
              P == {i \in 0 .. m : SumTo(m, part(i)) = f[i]}
  <1>1. \A x, y \in 1 .. m : b[x][y] \in Nat /\ b[x] \in [1 .. m -> Nat]
    OBVIOUS
  <1>2. R \in [1 .. m -> Nat] /\ \A x \in 1 .. m : R[x] = SumTo(m, b[x])
    BY <1>1, SumType
  <1>. HIDE DEF R
  <1>3. \A y \in 1 .. m : col(y) \in [1 .. m -> Nat] /\ \A x \in 1 .. m : col(y)[x] = b[x][y]
    BY <1>1
  <1>. HIDE DEF col
  <1>4. SumsBy(m, R, f) /\ \A y \in 1 .. m : SumsBy(m, col(y), c(y))
    BY <1>2, <1>3, SumSteps
  <1>. HIDE DEF f, c
  <1>5. \A i \in 0 .. m : part(i) \in [1 .. m -> Nat] /\ \A y \in 1 .. m : part(i)[y] = c(y)[i]
    BY <1>4 DEF SumsBy
  <1>. HIDE DEF part
  <1>6. 0 \in P
    <2>0. 0 \in 0 .. m
      OBVIOUS
    <2>1. ASSUME NEW y \in 1 .. m PROVE part(0)[y] = 0
      <3>1. c(y)[0] = 0
        BY <1>4 DEF SumsBy
      <3>. QED
        BY <1>5, <2>0, <3>1
    <2>2. SumTo(m, part(0)) = 0
      BY <1>5, <2>0, <2>1, SumZero
    <2>3. f[0] = 0
      BY <1>4 DEF SumsBy
    <2>. QED
      BY <2>0, <2>2, <2>3
  <1>7. ASSUME NEW i \in 1 .. m, i - 1 \in P PROVE i \in P
    <2>. DEFINE p == part(i - 1)  q == part(i)  r == b[i]
    <2>1. i - 1 \in 0 .. m /\ i \in 0 .. m
      OBVIOUS
    <2>2. p \in [1 .. m -> Nat] /\ q \in [1 .. m -> Nat] /\ r \in [1 .. m -> Nat]
      BY <1>5, <2>1
    <2>3. \A y \in 1 .. m : q[y] = p[y] + r[y]
      BY <1>3, <1>4, <1>5, <2>1 DEF SumsBy
    <2>4. SumTo(m, p) = f[i - 1] /\ f[i] = f[i - 1] + SumTo(m, r)
      BY <1>2, <1>4, <1>7 DEF SumsBy
    <2>. HIDE DEF p, q, r
    <2>5. SumTo(m, q) = SumTo(m, p) + SumTo(m, r)
      BY <2>2, <2>3, SumAdds
    <2>. QED
      BY <2>1, <2>4, <2>5 DEF q
  <1>8. \A i \in 0 .. m : i \in P
    <2>. HIDE DEF P
    <2>. QED
      BY <1>6, <1>7, Induction
  <1>9. SumTo(m, part(m)) = SumTo(m, R)
    <2>1. m \in P
      BY <1>8
    <2>. QED
      BY <2>1 DEF SumTo, f
  <1>10. part(m) = [y \in 1 .. m |-> SumTo(m, col(y))]
    BY DEF part, c, SumTo
  <1>. QED
    BY <1>9, <1>10 DEF R, col
=============================================================================
