---------------------------- MODULE Game2048Proofs --------------------------
(***************************************************************************)
(* 2048 for rows and boards of every size.  First the loop that slides a   *)
(* row: it stays inside the row, never merges a tile with itself and never *)
(* slides one past another, and what it ends with is what the rule says.   *)
(* Then the game: GAME OVER is shown when nothing can be moved, no tile is *)
(* lost, and score is what was earned for the tiles on the board.          *)
(***************************************************************************)
EXTENDS Slide2048, Game2048, SequenceLemmas, FiniteSetTheorems

Inv == LoopOK /\ NeverMeets /\ GapEmpty

\* The invariant as a property of one state t of the loop.
Loop == [row : Row, k : 1 .. n, x : 1 .. n + 1, gain : Nat, moved : BOOLEAN]
Fine(r, k, x) ==
  /\ r \in Row /\ k \in 1 .. n /\ x \in 1 .. n + 1 /\ k < x
  /\ \A i \in 1 .. n : k < i /\ i < x => r[i] = 0
Good(t) == t \in Loop /\ Fine(t.row, t.k, t.x)

USE nAssumption DEF Row

(* The invariant is one of the state of the loop.                          *)
LEMMA InvIsGood == Inv <=> start \in Row /\ Good(loop)
  BY DEF Inv, LoopOK, NeverMeets, GapEmpty, Good, Loop, Fine

\* Good is proved field by field.
LEMMA GoodFields ==
  ASSUME NEW r, NEW k, NEW x, NEW g \in Nat, NEW m \in BOOLEAN, Fine(r, k, x)
  PROVE  Good([row |-> r, k |-> k, x |-> x, gain |-> g, moved |-> m])
  <1> DEFINE t == [row |-> r, k |-> k, x |-> x, gain |-> g, moved |-> m]
  <1>1. t.row = r /\ t.k = k /\ t.x = x
        OBVIOUS
  <1>2. t \in Loop
        BY DEF Fine, Loop
  <1> QED BY <1>1, <1>2 DEF Good

(* While the loop runs, x is a cell of the row.                            *)
LEMMA FieldsOfGood ==
  ASSUME NEW t, Good(t), Running(t)
  PROVE  /\ t = [row |-> t.row, k |-> t.k, x |-> t.x, gain |-> t.gain, moved |-> t.moved]
         /\ Fine(t.row, t.k, t.x) /\ t.x \in 1 .. n
         /\ t.gain \in Nat /\ t.moved \in BOOLEAN
  <1>1. t \in Loop /\ t.row \in Row /\ Len(t.row) = n
        BY DEF Good, Loop
  <1> QED BY <1>1 DEF Good, Loop, Fine, Running

-----------------------------------------------------------------------------
(* The loop starts between two neighbouring cells (2048.c:158, 161).       *)
LEMMA Starts == RunInit => Inv
  <1> SUFFICES ASSUME RunInit PROVE Inv
      OBVIOUS
  <1>1. start \in Row
    <2>1. start \in [1 .. n -> Tile \cup {0}]
          BY DEF RunInit
    <2>2. Tile \cup {0} \subseteq Nat
          BY TileAssumption
    <2> QED BY <2>1, <2>2
  <1>2. Fine(start, 1, 2)
        BY <1>1 DEF Fine
  <1>3. Good(Begin(start))
        BY <1>2, GoodFields DEF Begin
  <1> QED BY <1>1, <1>3, InvIsGood DEF RunInit

(* Each branch of its body keeps the invariant: past an empty cell the gap *)
(* grows, ...                                                              *)
LEMMA SkipKeeps ==
  ASSUME NEW t, Good(t), Running(t), t.row[t.x] = 0
  PROVE  Good(Skip(t))
  <1>1. Skip(t) = [row |-> t.row, k |-> t.k, x |-> t.x + 1, gain |-> t.gain, moved |-> t.moved]
        BY FieldsOfGood DEF Skip
  <1>2. Fine(t.row, t.k, t.x + 1)
        BY FieldsOfGood DEF Fine
  <1> QED BY <1>1, <1>2, GoodFields, FieldsOfGood

(* ... as it does when the tile at x leaves for the empty cell k; ...      *)
LEMMA SlideKeeps ==
  ASSUME NEW t, Good(t), Running(t)
  PROVE  Good(SlideTile(t))
  <1> DEFINE r == [t.row EXCEPT ![t.k] = t.row[t.x], ![t.x] = 0]
  <1>1. SlideTile(t) = [row |-> r, k |-> t.k, x |-> t.x + 1, gain |-> t.gain, moved |-> TRUE]
        BY FieldsOfGood DEF SlideTile
  <1>2. r \in Row
        BY FieldsOfGood DEF Fine
  <1>3. \A i \in 1 .. n : t.k < i /\ i < t.x + 1 => r[i] = 0
        BY FieldsOfGood DEF Fine
  <1> HIDE DEF r
  <1>4. Fine(r, t.k, t.x + 1)
    <2>1. t.k \in 1 .. n /\ t.x \in 1 .. n /\ t.k < t.x
          BY FieldsOfGood DEF Fine
    <2> DEFINE k == t.k
               x == t.x + 1
    <2>2. k \in 1 .. n /\ x \in 1 .. n + 1 /\ k < x
          BY <2>1, nAssumption
    <2>3. \A i \in 1 .. n : k < i /\ i < x => r[i] = 0
          BY <1>3
    <2> HIDE DEF k, x
    <2>4. Fine(r, k, x)
          BY <1>2, <2>2, <2>3 DEF Fine
    <2> QED BY <2>4 DEF k, x
  <1>5. t.gain \in Nat
        BY FieldsOfGood
  <1> QED BY <1>1, <1>4, <1>5, GoodFields

(* ... when it merges with the one at k, both ends move on; ...            *)
LEMMA MergeKeeps ==
  ASSUME NEW t, Good(t), Running(t)
  PROVE  Good(MergeTiles(t))
  <1> DEFINE r == [t.row EXCEPT ![t.k] = Merged(t), ![t.x] = 0]
  <1>1. MergeTiles(t) = [row |-> r, k |-> t.k + 1, x |-> t.x + 1,
                         gain |-> t.gain + Merged(t), moved |-> TRUE]
        BY FieldsOfGood DEF MergeTiles
  <1>2. Merged(t) \in Nat
        BY FieldsOfGood DEF Fine, Merged
  <1>3. r \in Row
        BY <1>2, FieldsOfGood DEF Fine
  <1>4. \A i \in 1 .. n : t.k + 1 < i /\ i < t.x + 1 => r[i] = 0
    <2> DEFINE row == t.row  k == t.k  x == t.x  sum == Merged(t)
    <2>1. row \in Row /\ k \in 1 .. n /\ x \in 1 .. n /\ sum \in Nat
          /\ \A i \in 1 .. n : k < i /\ i < x => row[i] = 0
          BY <1>2, FieldsOfGood DEF Fine
    <2> HIDE DEF row, k, x, sum
    <2>2. \A i \in 1 .. n : k + 1 < i /\ i < x + 1 =>
            [row EXCEPT ![k] = sum, ![x] = 0][i] = 0
      <3> TAKE i \in 1 .. n
      <3>1. CASE i = x
            BY <2>1, <3>1
      <3>2. CASE i # x
        <4>1. k + 1 < i /\ i < x + 1 => i # k /\ k < i /\ i < x
              BY <2>1, <3>2
        <4> QED BY <2>1, <3>2, <4>1
      <3> QED BY <3>1, <3>2
    <2> QED BY <2>2 DEF row, k, x, sum
  <1> HIDE DEF r
  <1>5. Fine(r, t.k + 1, t.x + 1)
    <2>1. t.k \in 1 .. n /\ t.x \in 1 .. n /\ t.k < t.x
          BY FieldsOfGood DEF Fine
    <2> DEFINE k == t.k + 1
               x == t.x + 1
    <2>2. k \in 1 .. n /\ x \in 1 .. n + 1 /\ k < x
          BY <2>1, nAssumption
    <2>3. \A i \in 1 .. n : k < i /\ i < x => r[i] = 0
          BY <1>4
    <2> HIDE DEF k, x
    <2>4. Fine(r, k, x)
          BY <1>3, <2>2, <2>3 DEF Fine
    <2> QED BY <2>4 DEF k, x
  <1>6. t.gain + Merged(t) \in Nat
        BY <1>2, FieldsOfGood
  <1> QED BY <1>1, <1>5, <1>6, GoodFields

(* ... and when k moves alone, x makes way for it.                         *)
LEMMA PassKeeps ==
  ASSUME NEW t, Good(t), Running(t)
  PROVE  Good(PassTile(t))
  <1> DEFINE x == IF t.k + 1 = t.x THEN t.x + 1 ELSE t.x
  <1>1. PassTile(t) = [row |-> t.row, k |-> t.k + 1, x |-> x, gain |-> t.gain, moved |-> t.moved]
        BY FieldsOfGood DEF PassTile
  <1>2. Fine(t.row, t.k + 1, x)
        BY FieldsOfGood DEF Fine
  <1> QED BY <1>1, <1>2, GoodFields, FieldsOfGood

(* Every iteration keeps the invariant, whichever branch it takes.         *)
LEMMA StepKeeps == Inv /\ [RunNext]_runVars => Inv'
  <1> SUFFICES ASSUME Inv, [RunNext]_runVars PROVE Inv'
      OBVIOUS
  <1>1. CASE UNCHANGED runVars
        BY <1>1 DEF runVars, Inv, LoopOK, NeverMeets, GapEmpty
  <1>2. CASE RunNext
    <2>1. Good(loop) /\ start \in Row
          BY InvIsGood
    <2>2. Good(Body(loop))
          BY <1>2, <2>1, SkipKeeps, SlideKeeps, MergeKeeps, PassKeeps DEF RunNext, Body
    <2>3. loop' \in Loop /\ Fine(loop'.row, loop'.k, loop'.x) /\ start' \in Row
          BY <1>2, <2>1, <2>2 DEF RunNext, Good
    <2> QED BY <2>3 DEF Loop, Fine, Inv, LoopOK, NeverMeets, GapEmpty
  <1> QED BY <1>1, <1>2

-----------------------------------------------------------------------------
(* The invariant holds of every row after every number of steps.           *)
THEOREM SlideInvariance == RunSpec => []Inv
  BY Starts, StepKeeps, PTL DEF RunSpec

(* No cell outside the row is read or written (2048.c:163-189).            *)
THEOREM SlideTyped == RunSpec => []LoopOK
  BY SlideInvariance, PTL DEF Inv

(* No tile is ever merged with itself.                                     *)
THEOREM SlideNeverMeets == RunSpec => []NeverMeets
  BY SlideInvariance, PTL DEF Inv

(* No tile is ever slid past another one.                                  *)
THEOREM SlideGapEmpty == RunSpec => []GapEmpty
  BY SlideInvariance, PTL DEF Inv

-----------------------------------------------------------------------------
(* The rule of the game, cell by cell.                                     *)

Rule == [tiles : Seq(Nat), free : BOOLEAN, gain : Nat]
NoTile == [tiles |-> <<>>, free |-> FALSE, gain |-> 0]

(* A tile that joins the last one takes its place; ...                     *)
LEMMA Joins ==
  ASSUME NEW r \in Rule, NEW tile \in Nat,
         r.free, r.tiles # <<>>, Last(r.tiles) = tile
  PROVE  LET q == Join(r, tile) IN
         /\ q \in Rule /\ ~ q.free /\ q.gain = r.gain + 2 * tile
         /\ Len(q.tiles) = Len(r.tiles) /\ q.tiles[Len(r.tiles)] = 2 * tile
         /\ \A i \in 1 .. Len(r.tiles) - 1 : q.tiles[i] = r.tiles[i]
  <1>. DEFINE s == r.tiles
              f == Front(s)
  <1>1. s \in Seq(Nat) /\ s # <<>> /\ Len(s) \in Nat \ {0} /\ r.gain \in Nat
    BY DEF Rule
  <1>. HIDE DEF s
  <1>2. /\ f \in Seq(Nat) /\ Len(f) = Len(s) - 1
        /\ \A i \in 1 .. Len(s) - 1 : f[i] = s[i]
    <2>1. 0 \in Nat /\ Len(s) - 1 \in 0 .. Len(s) /\ 0 + 1 = 1 /\ Len(s) - 1 - 0 = Len(s) - 1
          /\ \A i \in 1 .. Len(s) - 1 : 0 + i = i
      BY <1>1
    <2>2. /\ f \in Seq(Nat) /\ Len(f) = Len(s) - 1
          /\ \A i \in 1 .. Len(s) - 1 : f[i] = s[0 + i]
      BY <1>1, <2>1, Slice DEF Front
    <2>. HIDE DEF f
    <2>. QED
      BY <2>1, <2>2
  <1>. HIDE DEF f
  <1>. DEFINE u == Append(f, 2 * tile)
  <1>3. /\ u \in Seq(Nat) /\ Len(u) = Len(s) /\ u[Len(s)] = 2 * tile
        /\ \A i \in 1 .. Len(s) - 1 : u[i] = s[i]
    BY <1>1, <1>2
  <1>. HIDE DEF u
  <1>4. Join(r, tile) = [tiles |-> u, free |-> FALSE, gain |-> r.gain + 2 * tile]
    BY DEF Join, u, f, s
  <1>5. r.gain + 2 * tile \in Nat
    BY <1>1
  <1>. QED
    BY <1>3, <1>4, <1>5 DEF Rule, s

(* ... any other one comes behind it.                                      *)
LEMMA Comes ==
  ASSUME NEW r \in Rule, NEW tile \in Nat,
         ~ (r.free /\ r.tiles # <<>> /\ Last(r.tiles) = tile)
  PROVE  LET q == Join(r, tile) IN
         /\ q \in Rule /\ q.free /\ q.gain = r.gain
         /\ Len(q.tiles) = Len(r.tiles) + 1 /\ q.tiles[Len(r.tiles) + 1] = tile
         /\ \A i \in 1 .. Len(r.tiles) : q.tiles[i] = r.tiles[i]
  <1>1. Join(r, tile) = [tiles |-> Append(r.tiles, tile), free |-> TRUE, gain |-> r.gain]
    BY DEF Join
  <1>2. r.tiles \in Seq(Nat) /\ r.gain \in Nat
    BY DEF Rule
  <1>. QED
    BY <1>1, <1>2 DEF Rule

(* What the first cells of a row come to under the rule.                   *)
JoinedBy(row, f) ==
  /\ f \in [0 .. n -> Rule] /\ f[0] = NoTile
  /\ \A i \in 1 .. n : f[i] = IF row[i] = 0 THEN f[i - 1] ELSE Join(f[i - 1], row[i])
LEMMA JoinedSteps ==
  ASSUME NEW row \in Row
  PROVE  JoinedBy(row, Joined(row))
  <1>. DEFINE Go(i, r) == IF row[i] = 0 THEN r ELSE Join(r, row[i])
              step == [p \in (1 .. n) \X Rule |-> Go(p[1], p[2])]
              Def(f) == [i \in 0 .. n |-> IF i = 0 THEN NoTile ELSE Go(i, f[i - 1])]
              joined == CHOOSE f : f = Def(f)
  <1>1. n \in Nat /\ NoTile \in Rule /\ Len(row) = n /\ \A i \in 1 .. n : row[i] \in Nat
    BY DEF NoTile, Rule
  <1>2. Joined(row) = joined
    BY <1>1 DEF Joined, NoTile
  <1>3. \A i \in 1 .. n, r \in Rule : Go(i, r) \in Rule
    BY <1>1, Joins, Comes
  <1>. HIDE DEF Go
  <1>4. step \in [(1 .. n) \X Rule -> Rule]
    BY <1>3
  <1>5. \A i \in 1 .. n, r \in Rule : step[<<i, r>>] = Go(i, r)
    OBVIOUS
  <1>. HIDE DEF step
  <1>6. PICK f \in [0 .. n -> Rule] :
          f[0] = NoTile /\ \A i \in 1 .. n : f[i] = step[<<i, f[i - 1]>>]
    <2>1. CanRun(Rule, NoTile, n, step)
      BY <1>1, <1>4, Recursion
    <2>. QED
      BY <2>1 DEF CanRun
  <1>7. \A i \in 1 .. n : f[i] = Go(i, f[i - 1])
    <2>1. \A i \in 1 .. n : f[i - 1] \in Rule
      BY <1>1
    <2>. QED
      BY <1>5, <1>6, <2>1
  <1>8. f = Def(f)
    BY <1>1, <1>6, <1>7
  <1>9. joined = Def(joined)
    <2>. HIDE DEF Def
    <2>. QED
      BY <1>8
  <1>. HIDE DEF joined
  <1>10. joined = [i \in 0 .. n |-> joined[i]] /\ joined[0] = NoTile
    BY <1>1, <1>9
  <1>11. \A i \in 1 .. n : joined[i] = Go(i, joined[i - 1])
    BY <1>1, <1>9
  <1>12. \A i \in 0 .. n : joined[i] \in Rule
    <2>1. \A i \in 1 .. n : joined[i - 1] \in Rule => joined[i] \in Rule
      BY <1>3, <1>11
    <2>. QED
      BY <1>1, <1>10, <2>1, RunType
  <1>13. joined \in [0 .. n -> Rule]
    BY <1>10, <1>12
  <1>. QED
    BY <1>2, <1>10, <1>11, <1>13 DEF JoinedBy, Go

-----------------------------------------------------------------------------
(* The loop and the rule.  r is what the rule makes of the cells in front  *)
(* of x: its tiles fill the row up to k, the last one at k unless k is     *)
(* empty.  A last tile that is free can still be joined; if k is empty the *)
(* next tile is known not to join it.  From x on nothing has been touched. *)
Follows(s, r, row, k, x) ==
  /\ \A i \in x .. n : row[i] = s[i]
  /\ Len(r.tiles) = IF row[k] = 0 THEN k - 1 ELSE k
  /\ \A i \in 1 .. Len(r.tiles) : row[i] = r.tiles[i]
  /\ row[k] # 0 => r.free
  /\ row[k] = 0 /\ r.free => x <= n /\ row[x] # 0 /\ Last(r.tiles) # row[x]
\* At a state u of the loop; gain is what the rule scores.
Goes(s, u) ==
  LET f == Joined(s) IN
  /\ Follows(s, f[u.x - 1], u.row, u.k, u.x)
  /\ u.gain = f[u.x - 1].gain

\* What the lemmas about the branches have in common.
Ready(s, t) ==
  /\ s \in Row /\ Good(t) /\ Running(t)
  /\ Goes(s, t)

Known(s, r, q, row, k, x, gain) ==
  /\ s \in Row /\ row \in Row /\ n \in Nat
  /\ k \in 1 .. n /\ x \in 1 .. n /\ k < x
  /\ \A i \in 1 .. n : k < i /\ i < x => row[i] = 0
  /\ r \in Rule /\ q = IF row[x] = 0 THEN r ELSE Join(r, row[x])
  /\ Follows(s, r, row, k, x)
  /\ gain \in Nat /\ gain = r.gain
  /\ row[x] \in Nat /\ row[k] \in Nat
LEMMA ReadyFacts ==
  ASSUME NEW s, NEW t, Ready(s, t)
  PROVE  Known(s, Joined(s)[t.x - 1], Joined(s)[t.x], t.row, t.k, t.x, t.gain)
  <1>. DEFINE f == Joined(s)  row == t.row  k == t.k  x == t.x  gain == t.gain
  <1>1. s \in Row /\ Fine(row, k, x) /\ x \in 1 .. n /\ gain \in Nat
    BY FieldsOfGood DEF Ready
  <1>2. JoinedBy(s, f)
    BY <1>1, JoinedSteps
  <1>3. Follows(s, f[x - 1], row, k, x) /\ gain = f[x - 1].gain
    BY DEF Ready, Goes
  <1>. HIDE DEF f, row, k, x, gain
  <1>4. s[x] = row[x]
    BY <1>1, <1>3 DEF Follows
  <1>5. f[x - 1] \in Rule /\ f[x] = IF s[x] = 0 THEN f[x - 1] ELSE Join(f[x - 1], s[x])
    BY <1>1, <1>2 DEF JoinedBy
  <1>6. row[x] \in Nat /\ row[k] \in Nat
    BY <1>1 DEF Fine
  <1>7. Known(s, f[x - 1], f[x], row, k, x, gain)
    BY <1>1, <1>3, <1>4, <1>5, <1>6 DEF Fine, Known
  <1>. QED
    BY <1>7 DEF f, row, k, x, gain

LEMMA GoesTo ==
  ASSUME NEW s, NEW u, NEW i, u.x - 1 = i,
         Follows(s, Joined(s)[i], u.row, u.k, u.x), u.gain = Joined(s)[i].gain
  PROVE  Goes(s, u)
  BY DEF Goes

(* An empty cell changes nothing for the rule either.                      *)
LEMMA SkipGoes ==
  ASSUME NEW s, NEW t, Ready(s, t), t.row[t.x] = 0
  PROVE  Goes(s, Skip(t))
  <1>. DEFINE row == t.row  k == t.k  x == t.x  gain == t.gain
              f == Joined(s)
              r == f[x - 1]
              q == f[x]
              u == Skip(t)
  <1>1. Known(s, r, q, row, k, x, gain) /\ row[x] = 0
    BY ReadyFacts
  <1>2. u.row = row /\ u.k = k /\ u.x = x + 1 /\ u.gain = gain
    BY FieldsOfGood DEF Skip, Ready
  <1>. HIDE DEF row, k, x, gain, f, r, q, u
  <1>3. Follows(s, q, row, k, x + 1)
    BY <1>1 DEF Known, Follows
  <1>4. u.x - 1 = x /\ gain = q.gain
    BY <1>1, <1>2 DEF Known
  <1>5. Goes(s, u)
    <2>1. u.x - 1 = x /\ Follows(s, f[x], u.row, u.k, u.x) /\ u.gain = f[x].gain
      BY <1>2, <1>3, <1>4 DEF q
    <2>. QED
      BY <2>1, GoesTo DEF f
  <1>. QED
    BY <1>5 DEF u

(* A tile that slides to the empty cell k comes behind the others: if the  *)
(* last one is free, it is known to differ.                                *)
LEMMA SlideGoes ==
  ASSUME NEW s, NEW t, Ready(s, t), t.row[t.x] # 0, t.row[t.k] = 0
  PROVE  Goes(s, SlideTile(t))
  <1>. DEFINE row == t.row  k == t.k  x == t.x  gain == t.gain
              f == Joined(s)
              r == f[x - 1]
              q == f[x]
              u == SlideTile(t)
              new == [row EXCEPT ![k] = row[x], ![x] = 0]
  <1>1. Known(s, r, q, row, k, x, gain) /\ row[x] # 0 /\ row[k] = 0
    BY ReadyFacts
  <1>2. u.row = new /\ u.k = k /\ u.x = x + 1 /\ u.gain = gain
    BY FieldsOfGood DEF SlideTile, Ready
  <1>. HIDE DEF row, k, x, gain, f, r, q, u
  <1>3. /\ q.free /\ q.gain = r.gain
        /\ Len(q.tiles) = Len(r.tiles) + 1 /\ q.tiles[Len(r.tiles) + 1] = row[x]
        /\ \A i \in 1 .. Len(r.tiles) : q.tiles[i] = r.tiles[i]
    <2>1. ~ (r.free /\ r.tiles # <<>> /\ Last(r.tiles) = row[x])
      BY <1>1 DEF Known, Follows
    <2>2. r \in Rule /\ row[x] \in Nat /\ q = Join(r, row[x])
      BY <1>1 DEF Known
    <2>. QED
      BY <2>1, <2>2, Comes
  <1>4. /\ new[k] = row[x] /\ \A i \in 1 .. n : i # k /\ i # x => new[i] = row[i]
    BY <1>1 DEF Known
  <1>. HIDE DEF new
  <1>5. Follows(s, q, new, k, x + 1)
    <2>1. Len(r.tiles) = k - 1 /\ k \in 1 .. n /\ x \in 1 .. n /\ k < x /\ n \in Nat
      BY <1>1 DEF Known, Follows
    <2>2. \A i \in x + 1 .. n : new[i] = s[i]
      BY <1>1, <1>4, <2>1 DEF Known, Follows
    <2>3. \A i \in 1 .. Len(q.tiles) : new[i] = q.tiles[i]
      <3>1. ASSUME NEW i \in 1 .. k PROVE new[i] = q.tiles[i]
        <4>1. CASE i = k
          BY <1>3, <1>4, <2>1, <4>1
        <4>2. CASE i # k
          <5>1. i \in 1 .. Len(r.tiles) /\ i # x /\ i \in 1 .. n
            BY <2>1, <4>2
          <5>2. row[i] = r.tiles[i]
            BY <1>1, <5>1 DEF Known, Follows
          <5>. QED
            BY <1>3, <1>4, <4>2, <5>1, <5>2
        <4>. QED
          BY <4>1, <4>2
      <3>2. Len(q.tiles) = k
        BY <1>3, <2>1
      <3>. QED
        BY <3>1, <3>2
    <2>4. Len(q.tiles) = k /\ new[k] # 0
      BY <1>1, <1>3, <1>4, <2>1
    <2>. QED
      BY <1>3, <2>2, <2>3, <2>4 DEF Follows
  <1>6. u.x - 1 = x /\ gain = q.gain
    BY <1>1, <1>2, <1>3 DEF Known
  <1>7. Goes(s, u)
    <2>1. u.x - 1 = x /\ Follows(s, f[x], u.row, u.k, u.x) /\ u.gain = f[x].gain
      BY <1>2, <1>5, <1>6 DEF q
    <2>. QED
      BY <2>1, GoesTo DEF f
  <1>. QED
    BY <1>7 DEF u

(* A tile that is equal to the last one, which is free, joins it; the cell *)
(* behind them is empty.                                                   *)
LEMMA MergeGoes ==
  ASSUME NEW s, NEW t, Ready(s, t),
         t.row[t.x] # 0, t.row[t.k] # 0, t.row[t.k] = t.row[t.x]
  PROVE  Goes(s, MergeTiles(t))
  <1>. DEFINE row == t.row  k == t.k  x == t.x  gain == t.gain
              f == Joined(s)
              r == f[x - 1]
              q == f[x]
              u == MergeTiles(t)
              sum == row[k] + row[x]
              new == [row EXCEPT ![k] = sum, ![x] = 0]
  <1>1. Known(s, r, q, row, k, x, gain) /\ row[x] # 0 /\ row[k] = row[x]
    BY ReadyFacts
  <1>2. u.row = new /\ u.k = k + 1 /\ u.x = x + 1 /\ u.gain = gain + sum
    BY FieldsOfGood DEF MergeTiles, Merged, Ready
  <1>. HIDE DEF row, k, x, gain, f, r, q, u
  <1>3. sum \in Nat /\ sum = 2 * row[x]
    BY <1>1, SMTT(30) DEF Known
  <1>. HIDE DEF sum
  <1>a. /\ Len(r.tiles) = k /\ k \in 1 .. n /\ x \in 1 .. n /\ k < x /\ n \in Nat
        /\ r.free /\ r.tiles \in Seq(Nat)
    BY <1>1 DEF Known, Follows, Rule
  <1>4. /\ ~ q.free /\ q.gain = r.gain + 2 * row[x]
        /\ Len(q.tiles) = k /\ q.tiles[k] = sum
        /\ \A i \in 1 .. k - 1 : q.tiles[i] = r.tiles[i]
    <2>1. Last(r.tiles) = row[x] /\ r.tiles # <<>>
      <3>1. k \in 1 .. Len(r.tiles)
        BY <1>a
      <3>2. row[k] = r.tiles[k]
        BY <1>1, <3>1 DEF Known, Follows
      <3>. QED
        BY <1>1, <1>a, <3>2 DEF Last
    <2>2. r \in Rule /\ row[x] \in Nat /\ q = Join(r, row[x])
      BY <1>1 DEF Known
    <2>. QED
      BY <1>3, <1>a, <2>1, <2>2, Joins
  <1>5. new[k] = sum /\ new[x] = 0 /\ \A i \in 1 .. n : i # k /\ i # x => new[i] = row[i]
    BY <1>1, <1>3 DEF Known
  <1>. HIDE DEF new
  <1>6. Follows(s, q, new, k + 1, x + 1)
    <2>1. \A i \in x + 1 .. n : new[i] = s[i]
      BY <1>1, <1>5, <1>a DEF Known, Follows
    <2>2. new[k + 1] = 0
      <3>1. CASE k + 1 = x
        BY <1>5, <3>1
      <3>2. CASE k + 1 # x
        <4>1. k + 1 \in 1 .. n /\ k < k + 1 /\ k + 1 < x
          BY <1>a, <3>2
        <4>2. row[k + 1] = 0
          BY <1>1, <4>1 DEF Known
        <4>. QED
          BY <1>5, <1>a, <3>2, <4>1, <4>2
      <3>. QED
        BY <3>1, <3>2
    <2>3. ASSUME NEW i \in 1 .. k PROVE new[i] = q.tiles[i]
      <3>1. CASE i = k
        BY <1>4, <1>5, <3>1
      <3>2. CASE i # k
        <4>1. i \in 1 .. k - 1 /\ i # x /\ i \in 1 .. n /\ i \in 1 .. Len(r.tiles)
          BY <1>a, <3>2
        <4>2. row[i] = r.tiles[i]
          BY <1>1, <4>1 DEF Known, Follows
        <4>. QED
          BY <1>4, <1>5, <3>2, <4>1, <4>2
      <3>. QED
        BY <3>1, <3>2
    <2>4. k + 1 - 1 = k
      BY <1>a
    <2>. QED
      BY <1>4, <2>1, <2>2, <2>3, <2>4 DEF Follows
  <1>7. u.x - 1 = x /\ gain + sum = q.gain
    BY <1>1, <1>2, <1>3, <1>4 DEF Known
  <1>8. Goes(s, u)
    <2>1. u.x - 1 = x /\ Follows(s, f[x], u.row, u.k, u.x) /\ u.gain = f[x].gain
      BY <1>2, <1>6, <1>7 DEF q
    <2>. QED
      BY <2>1, GoesTo DEF f
  <1>. QED
    BY <1>8 DEF u

(* A tile that differs from the last one comes behind it, now or when it   *)
(* has slid there.                                                         *)
LEMMA PassGoes ==
  ASSUME NEW s, NEW t, Ready(s, t),
         t.row[t.x] # 0, t.row[t.k] # 0, t.row[t.k] # t.row[t.x]
  PROVE  Goes(s, PassTile(t))
  <1>. DEFINE row == t.row  k == t.k  x == t.x  gain == t.gain
              f == Joined(s)
              r == f[x - 1]
              q == f[x]
              u == PassTile(t)
  <1>1. /\ Known(s, r, q, row, k, x, gain)
        /\ row[x] # 0 /\ row[k] # 0 /\ row[k] # row[x]
    BY ReadyFacts
  <1>2. /\ u.row = row /\ u.k = k + 1 /\ u.x = (IF k + 1 = x THEN x + 1 ELSE x)
        /\ u.gain = gain
    BY FieldsOfGood DEF PassTile, Ready
  <1>. HIDE DEF row, k, x, gain, f, r, q, u
  <1>3. /\ Len(r.tiles) = k /\ k \in 1 .. n /\ x \in 1 .. n /\ k < x /\ n \in Nat
        /\ r.free /\ r.tiles \in Seq(Nat)
        /\ \A i \in 1 .. k : row[i] = r.tiles[i]
        /\ \A i \in x .. n : row[i] = s[i]
    BY <1>1 DEF Known, Follows, Rule
  <1>4. Last(r.tiles) # row[x]
    BY <1>1, <1>3 DEF Last
  <1>5. CASE k + 1 = x
    <2>1. /\ q.free /\ q.gain = r.gain
          /\ Len(q.tiles) = Len(r.tiles) + 1 /\ q.tiles[Len(r.tiles) + 1] = row[x]
          /\ \A i \in 1 .. Len(r.tiles) : q.tiles[i] = r.tiles[i]
      <3>1. r \in Rule /\ row[x] \in Nat /\ q = Join(r, row[x])
        BY <1>1 DEF Known
      <3>. QED
        BY <1>4, <3>1, Comes
    <2>2. /\ Len(q.tiles) = k + 1 /\ q.tiles[k + 1] = row[k + 1] /\ row[k + 1] # 0
          /\ \A i \in 1 .. k : row[i] = q.tiles[i]
      BY <1>1, <1>3, <1>5, <2>1
    <2>3. \A i \in 1 .. Len(q.tiles) : row[i] = q.tiles[i]
      <3>1. \A i \in 1 .. k + 1 : i \in 1 .. k \/ i = k + 1
        BY <1>3
      <3>. QED
        BY <2>2, <3>1
    <2>4. \A i \in x + 1 .. n : row[i] = s[i]
      BY <1>3
    <2>5. Follows(s, q, row, k + 1, x + 1)
      BY <2>1, <2>2, <2>3, <2>4 DEF Follows
    <2>6. u.x = x + 1 /\ u.x - 1 = x /\ gain = q.gain
      BY <1>1, <1>2, <1>5, <2>1 DEF Known
    <2>7. u.x - 1 = x /\ Follows(s, f[x], u.row, u.k, u.x) /\ u.gain = f[x].gain
      BY <1>2, <2>5, <2>6 DEF q
    <2>8. Goes(s, u)
      BY <2>7, GoesTo DEF f
    <2>. QED
      BY <2>8 DEF u
  <1>6. CASE k + 1 # x
    <2>1. row[k + 1] = 0
      <3>1. k + 1 \in 1 .. n /\ k < k + 1 /\ k + 1 < x
        BY <1>3, <1>6
      <3>. QED
        BY <1>1, <3>1 DEF Known
    <2>2. k + 1 - 1 = k /\ x <= n
      BY <1>3
    <2>3. Follows(s, r, row, k + 1, x)
      BY <1>1, <1>3, <1>4, <2>1, <2>2 DEF Follows
    <2>4. u.x = x /\ gain = r.gain
      BY <1>1, <1>2, <1>6 DEF Known
    <2>5. Follows(s, f[x - 1], u.row, u.k, u.x) /\ u.gain = f[x - 1].gain /\ u.x - 1 = x - 1
      BY <1>2, <2>3, <2>4 DEF r
    <2>6. Goes(s, u)
      BY <2>5, GoesTo DEF f
    <2>. QED
      BY <2>6 DEF u
  <1>. QED
    BY <1>5, <1>6 DEF u

-----------------------------------------------------------------------------
(* `moved`.  Once a tile has moved there is a cell that tells for ever: one*)
(* behind k that has changed, or k itself, which was empty and is not.     *)
Changed(s, row, k) ==
  \E i \in 1 .. n :
    \/ i < k /\ row[i] # s[i]
    \/ i = k /\ s[i] = 0 /\ row[i] # 0
Told(s, u) == IF u.moved THEN Changed(s, u.row, u.k) ELSE u.row = s

LEMMA BodyTold ==
  ASSUME NEW s, NEW t, Ready(s, t), Told(s, t)
  PROVE  Told(s, Body(t))
  <1>. DEFINE row == t.row  k == t.k  x == t.x  before == t.moved  u == Body(t)
              sum == row[k] + row[x]
              slid == [row EXCEPT ![k] = row[x], ![x] = 0]
              merged == [row EXCEPT ![k] = sum, ![x] = 0]
  <1>1. /\ row \in Row /\ s \in Row /\ n \in Nat /\ k \in 1 .. n /\ x \in 1 .. n /\ k < x
        /\ row[x] \in Nat /\ row[k] \in Nat
    BY ReadyFacts DEF Known
  <1>2. IF before THEN Changed(s, row, k) ELSE row = s
    BY DEF Told
  <1>3. \/ row[x] = 0 /\ u.row = row /\ u.k = k /\ u.moved = before
        \/ row[x] # 0 /\ row[k] = 0 /\ u.row = slid /\ u.k = k /\ u.moved = TRUE
        \/ row[x] # 0 /\ row[k] = row[x] /\ u.row = merged /\ u.k = k + 1 /\ u.moved = TRUE
        \/ row[k] # 0 /\ u.row = row /\ u.k = k + 1 /\ u.moved = before
    <2>1. Skip(t).row = row /\ Skip(t).k = k /\ Skip(t).moved = before
      BY FieldsOfGood DEF Ready, Skip
    <2>2. SlideTile(t).row = slid /\ SlideTile(t).k = k /\ SlideTile(t).moved = TRUE
      BY FieldsOfGood DEF Ready, SlideTile
    <2>3. MergeTiles(t).row = merged /\ MergeTiles(t).k = k + 1 /\ MergeTiles(t).moved = TRUE
      BY FieldsOfGood DEF Ready, MergeTiles, Merged
    <2>4. PassTile(t).row = row /\ PassTile(t).k = k + 1 /\ PassTile(t).moved = before
      BY FieldsOfGood DEF Ready, PassTile
    <2>. HIDE DEF slid, merged, before, sum
    <2>. QED
      BY <2>1, <2>2, <2>3, <2>4 DEF Body
  <1>. SUFFICES Told(s, u)
    OBVIOUS
  <1>. HIDE DEF row, k, x, before, u
  <1>a. sum \in Nat
    BY <1>1
  <1>. HIDE DEF sum
  <1>4. slid[k] = row[x] /\ \A i \in 1 .. n : i < k => slid[i] = row[i]
    BY <1>1
  <1>5. merged[k] = sum /\ \A i \in 1 .. n : i < k => merged[i] = row[i]
    BY <1>1, <1>a
  <1>. HIDE DEF slid, merged
  <1>6. CASE row[x] = 0 /\ u.row = row /\ u.k = k /\ u.moved = before
    BY <1>2, <1>6 DEF Told
  <1>7. CASE row[x] # 0 /\ row[k] = 0 /\ u.row = slid /\ u.k = k /\ u.moved = TRUE
    <2>1. Changed(s, slid, k)
      BY <1>1, <1>2, <1>4, <1>7, ZenonT(60) DEF Changed
    <2>. QED
      BY <1>7, <2>1 DEF Told
  <1>8. CASE row[x] # 0 /\ row[k] = row[x] /\ u.row = merged /\ u.k = k + 1 /\ u.moved = TRUE
    <2>1. merged[k] # row[k] /\ merged[k] # 0
      BY <1>1, <1>5, <1>8 DEF sum
    <2>2. Changed(s, merged, k + 1)
      <3>1. CASE ~ before
        <4>1. k < k + 1 /\ merged[k] # s[k]
          BY <1>1, <1>2, <2>1, <3>1
        <4>. QED
          BY <1>1, <4>1 DEF Changed
      <3>2. CASE before
        <4>1. PICK i \in 1 .. n : \/ i < k /\ row[i] # s[i]
                                  \/ i = k /\ s[i] = 0 /\ row[i] # 0
          BY <1>2, <3>2 DEF Changed
        <4>2. i < k + 1 /\ merged[i] # s[i]
          BY <1>1, <1>5, <2>1, <4>1
        <4>. QED
          BY <4>2 DEF Changed
      <3>. QED
        BY <3>1, <3>2
    <2>. QED
      BY <1>8, <2>2 DEF Told
  <1>9. CASE row[k] # 0 /\ u.row = row /\ u.k = k + 1 /\ u.moved = before
    <2>1. CASE before
      <3>1. PICK i \in 1 .. n : \/ i < k /\ row[i] # s[i]
                                \/ i = k /\ s[i] = 0 /\ row[i] # 0
        BY <1>2, <2>1 DEF Changed
      <3>2. i < k + 1 /\ row[i] # s[i]
        BY <1>1, <1>9, <3>1, SMTT(30)
      <3>. QED
        BY <1>9, <2>1, <3>2 DEF Told, Changed
    <2>2. CASE ~ before
      BY <1>2, <1>9, <2>2 DEF Told
    <2>. QED
      BY <2>1, <2>2
  <1>. QED
    BY <1>3, <1>6, <1>7, <1>8, <1>9

-----------------------------------------------------------------------------
(* The whole invariant.                                                    *)
RInv == Inv /\ Goes(start, loop) /\ Told(start, loop)

LEMMA RuleStarts == RunInit => RInv
  <1>. SUFFICES ASSUME RunInit PROVE RInv
    OBVIOUS
  <1>. DEFINE f == Joined(start)
              v == start[1]
  <1>1. Inv /\ start \in Row /\ loop = Begin(start)
    BY Starts, InvIsGood DEF RunInit
  <1>2. loop.row = start /\ loop.k = 1 /\ loop.x = 2 /\ loop.gain = 0 /\ loop.moved = FALSE
    BY <1>1 DEF Begin
  <1>3. v \in Nat /\ 1 \in 1 .. n /\ n \in Nat
    BY <1>1
  <1>4. f[0] = NoTile /\ f[1] = IF v = 0 THEN NoTile ELSE Join(NoTile, v)
    <2>1. JoinedBy(start, f)
      BY <1>1, JoinedSteps
    <2>2. f[0] = NoTile /\ \A i \in 1 .. n : f[i] = IF start[i] = 0 THEN f[i - 1] ELSE Join(f[i - 1], start[i])
      BY <2>1 DEF JoinedBy
    <2>3. f[1] = IF v = 0 THEN f[1 - 1] ELSE Join(f[1 - 1], v)
      BY <1>3, <2>2
    <2>. QED
      BY <2>2, <2>3
  <1>. HIDE DEF f, v
  <1>5. Follows(start, f[1], start, 1, 2) /\ f[1].gain = 0
    <2>0. NoTile \in Rule /\ NoTile.tiles = <<>> /\ NoTile.gain = 0 /\ NoTile.free = FALSE
          /\ Len(NoTile.tiles) = 0
      BY DEF NoTile, Rule
    <2>1. CASE v = 0
      <3>1. f[1] = NoTile /\ start[1] = 0
        BY <1>4, <2>1 DEF v
      <3>. QED
        BY <2>0, <3>1 DEF Follows
    <2>2. CASE v # 0
      <3>. DEFINE q == Join(NoTile, v)
      <3>1. /\ q.free /\ q.gain = NoTile.gain
            /\ Len(q.tiles) = Len(NoTile.tiles) + 1 /\ q.tiles[Len(NoTile.tiles) + 1] = v
        BY <1>3, <2>0, Comes
      <3>2. /\ q.free /\ q.gain = 0 /\ Len(q.tiles) = 1 /\ q.tiles[1] = v
        BY <2>0, <3>1
      <3>3. f[1] = q /\ start[1] = v /\ v # 0
        BY <1>4, <2>2 DEF v
      <3>. HIDE DEF q
      <3>. QED
        BY <3>2, <3>3 DEF Follows
    <2>. QED
      BY <2>1, <2>2
  <1>6. Goes(start, loop)
    <2>1. loop.x - 1 = 1 /\ Follows(start, f[1], loop.row, loop.k, loop.x) /\ loop.gain = f[1].gain
      BY <1>2, <1>5
    <2>. QED
      BY <2>1, GoesTo DEF f
  <1>. QED
    BY <1>1, <1>2, <1>6 DEF RInv, Told

LEMMA RuleKept == RInv /\ [RunNext]_runVars => RInv'
  <1>. SUFFICES ASSUME RInv, [RunNext]_runVars PROVE RInv'
    OBVIOUS
  <1>0. Inv'
    BY StepKeeps DEF RInv
  <1>1. CASE UNCHANGED runVars
    <2>1. start' = start /\ loop' = loop
      BY <1>1 DEF runVars
    <2>. QED
      BY <1>0, <2>1 DEF RInv
  <1>2. CASE RunNext
    <2>1. Ready(start, loop) /\ Told(start, loop)
      BY <1>2, InvIsGood DEF RInv, Ready, RunNext
    <2>2. Goes(start, Body(loop))
      BY <2>1, SkipGoes, SlideGoes, MergeGoes, PassGoes DEF Body
    <2>3. Told(start, Body(loop))
      BY <2>1, BodyTold
    <2>4. start' = start /\ loop' = Body(loop)
      BY <1>2 DEF RunNext
    <2>. QED
      BY <1>0, <2>2, <2>3, <2>4 DEF RInv
  <1>. QED
    BY <1>1, <1>2

(* The loop that slides a row, whatever tiles are in it and however long   *)
(* it is, does what the rule of the game says: every tile joins the one    *)
(* before it at most once, the score is that of the tiles joined, and      *)
(* `moved` tells whether anything is in another place (2048.c:154-190).    *)
THEOREM SlideFollowsRule == RunSpec => []FollowsRule
  <1>1. RInv => FollowsRule
    <2>. SUFFICES ASSUME RInv, ~ Running(loop) PROVE
             /\ loop.row = Padded(Ruled(start).tiles)
             /\ loop.gain = Ruled(start).gain
             /\ loop.moved = (loop.row # start)
      BY DEF FollowsRule
    <2>. DEFINE row == loop.row  k == loop.k  r == Ruled(start)
    <2>1. /\ Good(loop) /\ loop \in Loop /\ start \in Row /\ Fine(row, k, loop.x)
          /\ row \in Row /\ n \in Nat /\ loop.moved \in BOOLEAN
      BY InvIsGood DEF RInv, Good, Loop
    <2>2. loop.x = n + 1 /\ loop.x - 1 = n
      <3>1. Len(row) = n
        BY <2>1
      <3>2. ~ (loop.x <= n) /\ loop.x \in 1 .. n + 1
        BY <2>1, <3>1 DEF Running, Fine
      <3>. DEFINE x == loop.x
      <3>3. ~ (x <= n) /\ x \in 1 .. n + 1 /\ n \in Nat
        BY <2>1, <3>2
      <3>. HIDE DEF x
      <3>4. x = n + 1 /\ x - 1 = n
        BY <3>3
      <3>. QED
        BY <3>4 DEF x
    <2>3. Joined(start)[n] = r
      <3>1. Len(start) = n
        BY <2>1
      <3>. QED
        BY <3>1 DEF Ruled
    <2>4. Follows(start, r, row, k, n + 1) /\ loop.gain = r.gain
      BY <2>2, <2>3 DEF RInv, Goes
    <2>. HIDE DEF r, row, k
    <2>5. row = Padded(r.tiles)
      <3>1. /\ k \in 1 .. n /\ \A i \in 1 .. n : k < i => row[i] = 0
        BY <2>1, <2>2 DEF Fine
      <3>2. \A i \in 1 .. n : row[i] = IF i <= Len(r.tiles) THEN r.tiles[i] ELSE 0
        <4>. TAKE i \in 1 .. n
        <4>1. CASE i <= Len(r.tiles)
          <5>1. Len(r.tiles) = k \/ Len(r.tiles) = k - 1
            BY <2>4 DEF Follows
          <5>2. i \in 1 .. Len(r.tiles)
            BY <3>1, <4>1, <5>1
          <5>. QED
            BY <2>4, <4>1, <5>2 DEF Follows
        <4>2. CASE ~ (i <= Len(r.tiles))
          <5>1. k < i \/ (i = k /\ row[k] = 0)
            BY <2>4, <3>1, <4>2 DEF Follows
          <5>. QED
            BY <3>1, <4>2, <5>1
        <4>. QED
          BY <4>1, <4>2
      <3>. QED
        BY <2>1, <3>2 DEF Padded
    <2>6. loop.moved = (row # start)
      <3>1. IF loop.moved THEN Changed(start, row, k) ELSE row = start
        BY DEF RInv, Told, row, k
      <3>2. Changed(start, row, k) => row # start
        BY DEF Changed
      <3>. QED
        BY <2>1, <3>1, <3>2
    <2>. QED
      BY <2>4, <2>5, <2>6 DEF r, row, k
  <1>. QED
    BY <1>1, RuleStarts, RuleKept, PTL DEF RunSpec

-----------------------------------------------------------------------------
(* Worth is defined for every tile: up to each tile there is a table of    *)
(* what the tiles are worth, and the tables agree.                         *)
Half(tile, w) == IF tile < 4 THEN 0 ELSE tile + 2 * w[tile \div 2]
Table(m, f) == f \in [0 .. m -> Nat] /\ \A tile \in 0 .. m : f[tile] = Half(tile, f)

LEMMA Halves ==
  ASSUME NEW tile \in Nat, tile >= 4
  PROVE  tile \div 2 \in Nat /\ tile \div 2 < tile
  OBVIOUS

LEMMA HalfType ==
  ASSUME NEW tile \in Nat, NEW f, tile >= 4 => f[tile \div 2] \in Nat
  PROVE  Half(tile, f) \in Nat
  <1>1. ~ (tile < 4) => tile >= 4
    OBVIOUS
  <1>. DEFINE w == f[tile \div 2]
  <1>2. tile >= 4 => w \in Nat
    OBVIOUS
  <1>3. Half(tile, f) = IF tile < 4 THEN 0 ELSE tile + 2 * w
    BY DEF Half
  <1>. HIDE DEF w
  <1>. QED
    BY <1>1, <1>2, <1>3

LEMMA Tables ==
  ASSUME NEW m \in Nat
  PROVE  \E f : Table(m, f)
  <1>. DEFINE P == {i \in 0 .. m : \E f : Table(i, f)}
  <1>1. 0 \in P
    <2>. DEFINE f == [tile \in 0 .. 0 |-> 0]
    <2>1. f \in [0 .. 0 -> Nat] /\ \A tile \in 0 .. 0 : f[tile] = Half(tile, f)
      BY DEF Half
    <2>. HIDE DEF f
    <2>. QED
      BY <2>1 DEF Table
  <1>2. ASSUME NEW i \in 1 .. m, i - 1 \in P PROVE i \in P
    <2>1. PICK f : Table(i - 1, f)
      BY <1>2
    <2>. DEFINE g == [tile \in 0 .. i |-> IF tile < i THEN f[tile] ELSE Half(tile, f)]
    <2>2. \A tile \in 0 .. i : tile < i => tile \in 0 .. i - 1 /\ f[tile] \in Nat
      BY <2>1 DEF Table
    <2>3. i \in Nat /\ i \in 0 .. i /\ (i >= 4 => i \div 2 \in 0 .. i /\ i \div 2 < i)
      BY Halves
    <2>4. \A tile \in 0 .. i : tile >= 4 => tile \div 2 \in 0 .. i /\ tile \div 2 < i
      <3>. TAKE tile \in 0 .. i
      <3>1. tile >= 4 => tile \div 2 \in Nat /\ tile \div 2 < tile
        BY Halves
      <3>. DEFINE h == tile \div 2
      <3>. HIDE DEF h
      <3>2. tile >= 4 => h \in Nat /\ h < tile
        BY <3>1 DEF h
      <3>3. tile >= 4 => h \in 0 .. i /\ h < i
        BY <3>2
      <3>. QED
        BY <3>3 DEF h
    <2>5. Half(i, f) \in Nat
      <3>1. i >= 4 => f[i \div 2] \in Nat
        BY <2>2, <2>3
      <3>. QED
        BY <2>3, <3>1, HalfType
    <2>6. g \in [0 .. i -> Nat]
      <3>1. ASSUME NEW tile \in 0 .. i PROVE (IF tile < i THEN f[tile] ELSE Half(tile, f)) \in Nat
        <4>1. CASE tile < i
          BY <2>2, <4>1
        <4>2. CASE ~ (tile < i)
          <5>1. tile = i
            BY <4>2
          <5>. QED
            BY <2>5, <4>2, <5>1
        <4>. QED
          BY <4>1, <4>2
      <3>. QED
        BY <3>1
    <2>7. \A tile \in 0 .. i : g[tile] = IF tile < i THEN f[tile] ELSE Half(tile, f)
      OBVIOUS
    <2>. HIDE DEF g
    <2>8. ASSUME NEW tile \in 0 .. i PROVE g[tile] = Half(tile, g)
      <3>1. tile >= 4 => g[tile \div 2] = f[tile \div 2]
        BY <2>4, <2>7
      <3>2. ~ (tile < 4) => tile >= 4
        OBVIOUS
      <3>3. Half(tile, g) = Half(tile, f)
        BY <3>1, <3>2 DEF Half
      <3>4. CASE tile < i
        BY <2>1, <2>2, <2>7, <3>3, <3>4 DEF Table
      <3>5. CASE ~ (tile < i)
        BY <2>7, <3>3, <3>5
      <3>. QED
        BY <3>4, <3>5
    <2>9. Table(i, g)
      BY <2>6, <2>8 DEF Table
    <2>10. \E h : Table(i, h)
      BY <2>9
    <2>. QED
      BY <2>3, <2>10
  <1>. HIDE DEF P
  <1>3. \A i \in 0 .. m : i \in P
    BY <1>1, <1>2, Induction
  <1>4. m \in P
    BY <1>3
  <1>. QED
    BY <1>4 DEF P

LEMMA TablesAgree ==
  ASSUME NEW m \in Nat, NEW f, Table(m, f), NEW p \in Nat, NEW g, Table(p, g)
  PROVE  \A tile \in Nat : tile <= m /\ tile <= p => f[tile] = g[tile]
  <1>. DEFINE T == {tile \in Nat : tile <= m /\ tile <= p /\ f[tile] # g[tile]}
  <1>1. SUFFICES ASSUME T # {} PROVE FALSE
    OBVIOUS
  <1>2. PICK tile \in T : \A k \in T : tile <= k
    <2>1. T \in SUBSET Nat
      OBVIOUS
    <2>. HIDE DEF T
    <2>. QED
      BY <1>1, <2>1, LeastNumber
  <1>3. tile \in Nat /\ tile <= m /\ tile <= p /\ f[tile] # g[tile]
    BY <1>2
  <1>4. \A k \in Nat : k < tile => f[k] = g[k]
    <2>. TAKE k \in Nat
    <2>1. k < tile => k \notin T /\ k <= m /\ k <= p
      BY <1>2, <1>3
    <2>. QED
      BY <2>1
  <1>. HIDE DEF T
  <1>5. Half(tile, f) = Half(tile, g)
    <2>1. tile >= 4 => f[tile \div 2] = g[tile \div 2]
      BY <1>3, <1>4, Halves
    <2>2. ~ (tile < 4) => tile >= 4
      BY <1>3
    <2>. QED
      BY <2>1, <2>2 DEF Half
  <1>6. f[tile] = Half(tile, f) /\ g[tile] = Half(tile, g)
    <2>1. tile \in 0 .. m /\ tile \in 0 .. p
      BY <1>3
    <2>. QED
      BY <2>1 DEF Table
  <1>. QED
    BY <1>3, <1>5, <1>6

LEMMA WorthSteps ==
  /\ Worth \in [Nat -> Nat]
  /\ \A tile \in Nat : Worth[tile] = Half(tile, Worth)
  <1>. DEFINE f(m) == CHOOSE f : Table(m, f)
              W == [m \in Nat |-> f(m)[m]]
              Def(w) == [tile \in Nat |-> Half(tile, w)]
              worth == CHOOSE w : w = Def(w)
  <1>1. Worth = worth
    BY DEF Worth, Half
  <1>2. \A m \in Nat : Table(m, f(m))
    BY Tables
  <1>. HIDE DEF f
  <1>3. \A m \in Nat : W[m] = f(m)[m] /\ f(m)[m] \in Nat
    BY <1>2 DEF Table
  <1>4. W \in [Nat -> Nat]
    BY <1>3
  <1>5. \A m \in Nat : W[m] = Half(m, W)
    <2>. TAKE m \in Nat
    <2>0. m \in 0 .. m
      OBVIOUS
    <2>1. f(m)[m] = Half(m, f(m))
      BY <1>2, <2>0 DEF Table
    <2>2. m >= 4 => W[m \div 2] = f(m)[m \div 2]
      <3>. DEFINE h == m \div 2
      <3>1. m >= 4 => h \in Nat /\ h < m
        BY Halves
      <3>. HIDE DEF h, W
      <3>2. m >= 4 => h \in Nat /\ h <= m /\ h <= h
        BY <3>1
      <3>3. m >= 4 => f(h)[h] = f(m)[h]
        BY <1>2, <3>2, TablesAgree
      <3>4. m >= 4 => W[h] = f(h)[h]
        BY <1>3, <3>2
      <3>. QED
        BY <3>3, <3>4 DEF h
    <2>3. ~ (m < 4) => m >= 4
      OBVIOUS
    <2>. HIDE DEF W
    <2>4. Half(m, W) = Half(m, f(m))
      BY <2>2, <2>3 DEF Half
    <2>. QED
      BY <1>3, <2>1, <2>4
  <1>6. W = Def(W)
    <2>1. W = [m \in Nat |-> W[m]]
      OBVIOUS
    <2>. HIDE DEF W
    <2>. QED
      BY <1>5, <2>1
  <1>7. worth = Def(worth)
    <2>. HIDE DEF Def, W
    <2>. QED
      BY <1>6
  <1>. HIDE DEF worth
  <1>8. worth = [tile \in Nat |-> worth[tile]] /\ \A tile \in Nat : worth[tile] = Half(tile, worth)
    BY <1>7
  <1>. HIDE DEF W
  <1>9. \A tile \in Nat : worth[tile] \in Nat
    <2>. DEFINE T == {tile \in Nat : worth[tile] \notin Nat}
    <2>1. SUFFICES ASSUME T # {} PROVE FALSE
      OBVIOUS
    <2>2. PICK tile \in T : \A k \in T : tile <= k
      <3>1. T \in SUBSET Nat
        OBVIOUS
      <3>. HIDE DEF T
      <3>. QED
        BY <2>1, <3>1, LeastNumber
    <2>3. tile >= 4 => worth[tile \div 2] \in Nat
      <3>1. tile >= 4 => tile \div 2 \in Nat /\ tile \div 2 < tile
        BY Halves
      <3>. DEFINE h == tile \div 2
      <3>. HIDE DEF h
      <3>2. tile >= 4 => h \in Nat /\ h < tile
        BY <3>1 DEF h
      <3>3. tile >= 4 => h \notin T
        BY <2>2, <3>2
      <3>4. tile >= 4 => worth[h] \in Nat
        BY <3>2, <3>3
      <3>. QED
        BY <3>4 DEF h
    <2>4. Half(tile, worth) \in Nat
      BY <2>3, HalfType
    <2>. QED
      BY <1>8, <2>4
  <1>10. worth \in [Nat -> Nat]
    BY <1>8, <1>9
  <1>. QED
    BY <1>1, <1>8, <1>10

(* Two equal tiles score what the one they become is worth more.           *)
LEMMA WorthOfTwo ==
  /\ Worth[0] = 0 /\ Worth[2] = 0 /\ Worth[4] = 4
  /\ \A tile \in Nat : Worth[tile] \in Nat
  /\ \A tile \in Nat : tile >= 2 => Worth[tile + tile] = Worth[tile] + Worth[tile] + (tile + tile)
  <1>1. Worth[0] = 0 /\ Worth[2] = 0
    BY WorthSteps DEF Half
  <1>2. Worth[4] = 4
    <2>1. 4 \div 2 = 2 /\ ~ (4 < 4) /\ 4 \in Nat
      OBVIOUS
    <2>2. Worth[4] = 4 + 2 * Worth[2]
      BY <2>1, WorthSteps DEF Half
    <2>. QED
      BY <1>1, <2>2
  <1>3. ASSUME NEW tile \in Nat, tile >= 2
        PROVE  Worth[tile + tile] = Worth[tile] + Worth[tile] + (tile + tile)
    <2>1. tile + tile \in Nat /\ ~ (tile + tile < 4) /\ (tile + tile) \div 2 = tile
      BY <1>3
    <2>2. Worth[tile + tile] = (tile + tile) + 2 * Worth[tile]
      BY <2>1, WorthSteps DEF Half
    <2>3. Worth[tile] \in Nat
      BY WorthSteps
    <2>. QED
      BY <2>2, <2>3
  <1>. QED
    BY <1>1, <1>2, <1>3, WorthSteps

-----------------------------------------------------------------------------
(* Tiles are powers of two.                                                *)
Proper(v) == v = 0 \/ PowerOfTwo(v)

LEMMA Powers ==
  ASSUME NEW m \in Nat
  PROVE  Power(m) \in Nat /\ Power(m) > m /\ Power(m + 1) = Power(m) + Power(m)
  <1>. DEFINE Def(k, f) == [i \in 0 .. k |-> IF i = 0 THEN 1 ELSE 2 * f[i - 1]]
              power(k) == CHOOSE f : f = Def(k, f)
              step(k) == [p \in (1 .. k) \X Nat |-> 2 * p[2]]
              Steps(k, f) == f[0] = 1 /\ \A i \in 1 .. k : f[i] = 2 * f[i - 1]
  <1>1. \A k \in Nat : Power(k) = power(k)[k]
    BY DEF Power
  <1>2. ASSUME NEW k \in Nat PROVE Steps(k, power(k))
    <2>1. step(k) \in [(1 .. k) \X Nat -> Nat] /\ \A i \in 1 .. k, v \in Nat : step(k)[<<i, v>>] = 2 * v
      OBVIOUS
    <2>. HIDE DEF step
    <2>2. PICK f \in [0 .. k -> Nat] :
            f[0] = 1 /\ \A i \in 1 .. k : f[i] = step(k)[<<i, f[i - 1]>>]
      <3>. DEFINE base == 1
      <3>1. base \in Nat
        OBVIOUS
      <3>. HIDE DEF base
      <3>2. CanRun(Nat, base, k, step(k))
        BY <2>1, <3>1, Recursion
      <3>. QED
        BY <3>2 DEF CanRun, base
    <2>3. \A i \in 1 .. k : f[i] = 2 * f[i - 1]
      <3>1. \A i \in 1 .. k : f[i - 1] \in Nat
        OBVIOUS
      <3>. QED
        BY <2>1, <2>2, <3>1
    <2>4. f = Def(k, f)
      BY <2>2, <2>3
    <2>5. power(k) = Def(k, power(k))
      <3>. HIDE DEF Def
      <3>. QED
        BY <2>4
    <2>. HIDE DEF power
    <2>. QED
      BY <2>5
  <1>. HIDE DEF power
  <1>. DEFINE f == power(m)  g == power(m + 1)
              P == {i \in 0 .. m : f[i] \in Nat /\ f[i] > i}
  <1>3. Steps(m, f) /\ Steps(m + 1, g)
    BY <1>2
  <1>. HIDE DEF f, g
  <1>4. \A i \in 0 .. m : i \in P
    <2>1. 0 \in P
      BY <1>3
    <2>2. ASSUME NEW i \in 1 .. m, i - 1 \in P PROVE i \in P
      <3>. DEFINE v == f[i - 1]  w == f[i]
      <3>1. v \in Nat /\ v > i - 1 /\ w = 2 * v
        BY <1>3, <2>2
      <3>. HIDE DEF v, w
      <3>2. w \in Nat /\ w > i /\ i \in 0 .. m
        BY <3>1
      <3>. QED
        BY <3>2 DEF w
    <2>. HIDE DEF P
    <2>. QED
      BY <2>1, <2>2, Induction
  <1>5. f[m] = g[m]
    <2>1. \A i \in 1 .. m : f[i - 1] = g[i - 1] => f[i] = g[i]
      BY <1>3
    <2>2. f[0] = g[0] /\ m \in 0 .. m
      BY <1>3
    <2>3. Alike(m, f, g)
      BY <2>1, <2>2, SameRun
    <2>. QED
      BY <2>2, <2>3 DEF Alike
  <1>6. g[m + 1] = 2 * g[m]
    <2>1. m + 1 \in 1 .. m + 1 /\ m + 1 - 1 = m
      OBVIOUS
    <2>. QED
      BY <1>3, <2>1
  <1>7. Power(m) = f[m] /\ Power(m + 1) = g[m + 1]
    BY <1>1 DEF f, g
  <1>8. f[m] \in Nat /\ f[m] > m
    BY <1>4
  <1>. QED
    BY <1>5, <1>6, <1>7, <1>8

LEMMA ProperTiles ==
  /\ Proper(0) /\ ~ Proper(1) /\ Proper(2) /\ Proper(4)
  /\ \A v \in Nat : v # 0 /\ Proper(v) => Proper(v + v)
  <1>1. \A k \in Nat : Power(k) \in Nat /\ Power(k) > k /\ Power(k + 1) = Power(k) + Power(k)
    BY Powers
  <1>2. Power(0) = 1
    <2>. DEFINE f == [i \in 0 .. 0 |-> 1]
                Def(h) == [i \in 0 .. 0 |-> IF i = 0 THEN 1 ELSE 2 * h[i - 1]]
                power == CHOOSE h : h = Def(h)
    <2>1. Power(0) = power[0]
      BY DEF Power
    <2>2. f = Def(f)
      OBVIOUS
    <2>3. power = Def(power)
      <3>. HIDE DEF Def
      <3>. QED
        BY <2>2
    <2>. HIDE DEF power
    <2>. QED
      BY <2>1, <2>3
  <1>3. Power(1) = 2 /\ Power(2) = 4
    <2>1. Power(0 + 1) = 2
      BY <1>1, <1>2
    <2>2. Power(1 + 1) = 4
      BY <1>1, <2>1
    <2>. QED
      BY <2>1, <2>2
  <1>4. Proper(0) /\ Proper(2) /\ Proper(4)
    <2>1. 1 \in 1 .. 2 /\ 2 \in 1 .. 4
      OBVIOUS
    <2>. QED
      BY <1>3, <2>1 DEF Proper, PowerOfTwo
  <1>5. ~ Proper(1)
    <2>1. \A k \in 1 .. 1 : k = 1
      OBVIOUS
    <2>. QED
      BY <1>3, <2>1 DEF Proper, PowerOfTwo
  <1>6. ASSUME NEW v \in Nat, v # 0, Proper(v) PROVE Proper(v + v)
    <2>1. PICK k \in 1 .. v : v = Power(k)
      BY <1>6 DEF Proper, PowerOfTwo
    <2>2. k \in Nat /\ k + 1 \in 1 .. v + v
      BY <1>6
    <2>3. v + v = Power(k + 1)
      BY <1>1, <2>1, <2>2
    <2>. QED
      BY <2>2, <2>3 DEF Proper, PowerOfTwo
  <1>. QED
    BY <1>4, <1>5, <1>6

-----------------------------------------------------------------------------
(* The loop loses no tile, and scores what the tiles are worth more.       *)
Worths(row) == [i \in 1 .. n |-> Worth[row[i]]]
Tiles(row) == \A i \in 1 .. n : Proper(row[i])
Kept(s, u) ==
  Tiles(s) => /\ Tiles(u.row)
              /\ SumTo(n, u.row) = SumTo(n, s)
              /\ SumTo(n, Worths(u.row)) = SumTo(n, Worths(s)) + u.gain

LEMMA WorthsType ==
  ASSUME NEW row \in Row
  PROVE  Worths(row) \in Row /\ \A i \in 1 .. n : Worths(row)[i] = Worth[row[i]]
  BY WorthSteps DEF Worths

(* Two cells become one tile d and an empty cell.                          *)
Became(row, k, x, d, more, new) ==
  /\ row \in Row /\ k \in 1 .. n /\ x \in 1 .. n /\ k # x /\ Tiles(row)
  /\ d \in Nat /\ Proper(d) /\ d = row[k] + row[x]
  /\ more \in Nat /\ Worth[d] = Worth[row[k]] + Worth[row[x]] + more
  /\ new = [row EXCEPT ![k] = d, ![x] = 0]
LEMMA TwoCells ==
  ASSUME NEW row, NEW k, NEW x, NEW d, NEW more, NEW new,
         Became(row, k, x, d, more, new)
  PROVE  /\ Tiles(new) /\ SumTo(n, new) = SumTo(n, row)
         /\ SumTo(n, Worths(new)) = SumTo(n, Worths(row)) + more
  <1>. DEFINE W == Worths(row)  V == Worths(new)
  <1>1. /\ new \in Row /\ new[k] = d /\ new[x] = 0 /\ n \in Nat
        /\ \A i \in 1 .. n : i # k /\ i # x => new[i] = row[i]
    BY DEF Became
  <1>2. /\ row[k] \in Nat /\ row[x] \in Nat /\ row \in Row /\ Tiles(row)
        /\ k \in 1 .. n /\ x \in 1 .. n /\ k # x
        /\ d \in Nat /\ Proper(d) /\ d = row[k] + row[x]
        /\ more \in Nat /\ Worth[d] = Worth[row[k]] + Worth[row[x]] + more
    BY DEF Became
  <1>3. Tiles(new)
    <2>1. ASSUME NEW i \in 1 .. n PROVE Proper(new[i])
      <3>1. CASE i = k \/ i = x
        BY <1>1, <1>2, <3>1, ProperTiles
      <3>2. CASE i # k /\ i # x
        BY <1>1, <1>2, <3>2 DEF Tiles
      <3>. QED
        BY <3>1, <3>2
    <2>. QED
      BY <2>1 DEF Tiles
  <1>4. SumTo(n, new) = SumTo(n, row)
    <2>. DEFINE none == 0
    <2>1. none \in Nat /\ new[k] + new[x] = row[k] + row[x] + none
      BY <1>1, <1>2
    <2>. HIDE DEF none
    <2>2. TwoChange(n, row, new, k, x, none)
      BY <1>1, <1>2, <2>1 DEF TwoChange
    <2>3. SumTo(n, new) = SumTo(n, row) + none /\ SumTo(n, row) \in Nat
      BY <1>1, <1>2, <2>2, SumOfTwo, SumType, SMTT(30)
    <2>. QED
      BY <2>3 DEF none
  <1>5. W \in Row /\ V \in Row
        /\ \A i \in 1 .. n : W[i] = Worth[row[i]] /\ V[i] = Worth[new[i]]
    BY <1>1, <1>2, WorthsType
  <1>. HIDE DEF W, V
  <1>6. SumTo(n, V) = SumTo(n, W) + more
    <2>1. /\ Worth[0] = 0 /\ Worth[row[k]] \in Nat /\ Worth[row[x]] \in Nat
          /\ Worth[d] \in Nat
      BY <1>2, WorthOfTwo
    <2>2. /\ V[k] = Worth[d] /\ V[x] = 0
          /\ W[k] = Worth[row[k]] /\ W[x] = Worth[row[x]]
      BY <1>1, <1>2, <1>5, <2>1
    <2>3. V[k] + V[x] = W[k] + W[x] + more
      BY <1>2, <2>1, <2>2
    <2>4. ASSUME NEW i \in 1 .. n, i # k /\ i # x PROVE V[i] = W[i]
      <3>1. new[i] = row[i]
        BY <1>1, <2>4
      <3>. QED
        BY <1>5, <3>1
    <2>5. TwoChange(n, W, V, k, x, more)
      BY <1>1, <1>2, <1>5, <2>3, <2>4 DEF TwoChange
    <2>. QED
      BY <2>5, SumOfTwo
  <1>. QED
    BY <1>3, <1>4, <1>6 DEF W, V

LEMMA BodyKept ==
  ASSUME NEW s \in Row, NEW t, Good(t), Running(t), Kept(s, t)
  PROVE  Kept(s, Body(t))
  <1>. DEFINE row == t.row  k == t.k  x == t.x  gain == t.gain  u == Body(t)
  <1>1. /\ row \in Row /\ n \in Nat /\ k \in 1 .. n /\ x \in 1 .. n /\ k # x
        /\ gain \in Nat
    BY FieldsOfGood DEF Fine
  <1>2. \/ u.row = row /\ u.gain = gain
        \/ /\ row[k] = 0 /\ u.row = [row EXCEPT ![k] = row[x], ![x] = 0] /\ u.gain = gain
        \/ /\ row[k] = row[x] /\ row[k] # 0
           /\ u.row = [row EXCEPT ![k] = row[k] + row[x], ![x] = 0]
           /\ u.gain = gain + (row[k] + row[x])
    <2>1. Skip(t).row = row /\ Skip(t).gain = gain
      BY FieldsOfGood DEF Skip
    <2>2. SlideTile(t).row = [row EXCEPT ![k] = row[x], ![x] = 0] /\ SlideTile(t).gain = gain
      BY FieldsOfGood DEF SlideTile
    <2>3. /\ MergeTiles(t).row = [row EXCEPT ![k] = row[k] + row[x], ![x] = 0]
          /\ MergeTiles(t).gain = gain + (row[k] + row[x])
      BY FieldsOfGood DEF MergeTiles, Merged
    <2>4. PassTile(t).row = row /\ PassTile(t).gain = gain
      BY FieldsOfGood DEF PassTile
    <2>. QED
      BY <2>1, <2>2, <2>3, <2>4 DEF Body
  <1>3. Tiles(s) => /\ Tiles(row) /\ SumTo(n, row) = SumTo(n, s)
                    /\ SumTo(n, Worths(row)) = SumTo(n, Worths(s)) + gain
    BY DEF Kept
  <1>. SUFFICES ASSUME Tiles(s)
                PROVE  /\ Tiles(u.row) /\ SumTo(n, u.row) = SumTo(n, s)
                       /\ SumTo(n, Worths(u.row)) = SumTo(n, Worths(s)) + u.gain
    BY DEF Kept
  <1>. HIDE DEF row, k, x, gain, u
  <1>. DEFINE a == row[k]  c == row[x]
  <1>4. a \in Nat /\ c \in Nat /\ Proper(a) /\ Proper(c)
    BY <1>1, <1>3 DEF Tiles
  <1>5. CASE u.row = row /\ u.gain = gain
    BY <1>3, <1>5
  <1>6. ASSUME NEW d \in Nat, NEW more \in Nat, Proper(d), d = a + c,
               u.row = [row EXCEPT ![k] = d, ![x] = 0], u.gain = gain + more,
               Worth[d] = Worth[a] + Worth[c] + more
        PROVE  /\ Tiles(u.row) /\ SumTo(n, u.row) = SumTo(n, s)
               /\ SumTo(n, Worths(u.row)) = SumTo(n, Worths(s)) + u.gain
    <2>. DEFINE new == u.row
    <2>1. new = [row EXCEPT ![k] = d, ![x] = 0]
      BY <1>6
    <2>. HIDE DEF new
    <2>2. /\ Tiles(new) /\ SumTo(n, new) = SumTo(n, row)
          /\ SumTo(n, Worths(new)) = SumTo(n, Worths(row)) + more
      <3>1. Became(row, k, x, d, more, new)
        BY <1>1, <1>3, <1>6, <2>1 DEF Became
      <3>. QED
        BY <3>1, TwoCells
    <2>3. SumTo(n, Worths(s)) \in Nat
      BY WorthsType, SumType
    <2>4. SumTo(n, Worths(new)) = SumTo(n, Worths(s)) + u.gain
      BY <1>1, <1>3, <1>6, <2>2, <2>3
    <2>. QED
      BY <1>3, <2>2, <2>4 DEF new
  <1>7. CASE /\ a = 0 /\ u.row = [row EXCEPT ![k] = c, ![x] = 0] /\ u.gain = gain
    <2>. HIDE DEF a, c
    <2>. DEFINE v == Worth[a]  w == Worth[c]
    <2>1. v = 0 /\ w \in Nat
      BY <1>4, <1>7, WorthOfTwo
    <2>. HIDE DEF v, w
    <2>2. w = v + w + 0 /\ c = a + c /\ gain = gain + 0
      BY <1>1, <1>4, <1>7, <2>1
    <2>. QED
      BY <1>4, <1>6, <1>7, <2>2 DEF v, w
  <1>8. CASE /\ a = c /\ a # 0 /\ u.row = [row EXCEPT ![k] = a + c, ![x] = 0]
             /\ u.gain = gain + (a + c)
    <2>1. Worth[a + c] = Worth[a] + Worth[c] + (a + c)
      <3>1. a >= 2
        <4>1. a # 1
          BY <1>4, ProperTiles
        <4>. QED
          BY <1>4, <1>8, <4>1
      <3>. QED
        BY <1>4, <1>8, <3>1, WorthOfTwo
    <2>. HIDE DEF a, c
    <2>2. a + c \in Nat /\ Proper(a + c)
      <3>1. a \in Nat /\ a # 0 /\ Proper(a) /\ c = a
        BY <1>4, <1>8
      <3>2. Proper(a + a)
        BY <3>1, ProperTiles
      <3>3. a + c \in Nat
        BY <1>4
      <3>. QED
        BY <3>1, <3>2, <3>3
    <2>. QED
      BY <1>6, <1>8, <2>1, <2>2
  <1>. QED
    BY <1>2, <1>5, <1>7, <1>8

-----------------------------------------------------------------------------
(* The loop as a whole.  It moves something exactly if somewhere in the    *)
(* row a tile has an empty cell in front of it, or one that is equal, and  *)
(* then leaves a cell empty.                                               *)

Pair(s, i) == s[i + 1] # 0 /\ (s[i] = 0 \/ s[i] = s[i + 1])
Movable(s) == \E i \in 1 .. n - 1 : Pair(s, i)
Looked(s, u) ==
  IF u.moved THEN Movable(s) /\ \E i \in 1 .. n : u.row[i] = 0
  ELSE u.row = s /\ \A i \in 1 .. n - 1 : i + 1 < u.x => ~ Pair(s, i)

LEMMA BodyLooked ==
  ASSUME NEW s \in Row, NEW t, Good(t), Running(t), Looked(s, t)
  PROVE  /\ Looked(s, Body(t))
         /\ Body(t).x + Body(t).k >= t.x + t.k + 1
  <1>. DEFINE row == t.row  k == t.k  x == t.x  before == t.moved  u == Body(t)
  <1>1. /\ row \in Row /\ n \in Nat /\ k \in 1 .. n /\ x \in 1 .. n /\ k < x
        /\ \A i \in 1 .. n : k < i /\ i < x => row[i] = 0
    BY FieldsOfGood DEF Fine
  <1>2. IF before THEN Movable(s) /\ \E i \in 1 .. n : row[i] = 0
        ELSE row = s /\ \A i \in 1 .. n - 1 : i + 1 < x => ~ Pair(s, i)
    BY DEF Looked
  <1>3. \/ row[x] = 0 /\ u.row = row /\ u.k = k /\ u.x = x + 1 /\ u.moved = before
        \/ /\ row[x] # 0 /\ row[k] = 0 /\ u.row[x] = 0 /\ u.k = k /\ u.x = x + 1
           /\ u.moved = TRUE
        \/ /\ row[x] # 0 /\ row[k] = row[x] /\ u.row[x] = 0 /\ u.k = k + 1 /\ u.x = x + 1
           /\ u.moved = TRUE
        \/ /\ row[x] # 0 /\ row[k] # 0 /\ row[k] # row[x] /\ u.row = row /\ u.k = k + 1
           /\ u.x = IF k + 1 = x THEN x + 1 ELSE x
           /\ u.moved = before
    <2>1. Skip(t).row = row /\ Skip(t).k = k /\ Skip(t).x = x + 1 /\ Skip(t).moved = before
      BY FieldsOfGood DEF Skip
    <2>0. \A w : [row EXCEPT ![k] = w, ![x] = 0][x] = 0
      BY <1>1
    <2>2. /\ SlideTile(t).row[x] = 0
          /\ SlideTile(t).k = k /\ SlideTile(t).x = x + 1 /\ SlideTile(t).moved = TRUE
      BY <2>0, FieldsOfGood DEF SlideTile
    <2>3. /\ MergeTiles(t).row[x] = 0
          /\ MergeTiles(t).k = k + 1 /\ MergeTiles(t).x = x + 1 /\ MergeTiles(t).moved = TRUE
      BY <2>0, FieldsOfGood DEF MergeTiles
    <2>4. /\ PassTile(t).row = row /\ PassTile(t).k = k + 1 /\ PassTile(t).moved = before
          /\ PassTile(t).x = IF k + 1 = x THEN x + 1 ELSE x
      BY FieldsOfGood DEF PassTile
    <2>. HIDE DEF before
    <2>. QED
      BY <2>1, <2>2, <2>3, <2>4 DEF Body
  <1>. SUFFICES Looked(s, u) /\ u.x + u.k >= x + k + 1
    OBVIOUS
  <1>. HIDE DEF row, k, x, before, u
  <1>4. u.x + u.k >= x + k + 1
    BY <1>1, <1>3, SMTT(30)
  <1>5. CASE before
    <2>1. u.moved = TRUE
      BY <1>3, <1>5
    <2>2. \E i \in 1 .. n : u.row[i] = 0
      BY <1>1, <1>2, <1>3, <1>5
    <2>. QED
      BY <1>2, <1>4, <1>5, <2>1, <2>2 DEF Looked
  <1>6. CASE ~ before
    <2>1. row = s /\ \A i \in 1 .. n - 1 : i + 1 < x => ~ Pair(s, i)
      BY <1>2, <1>6
    <2>2. x - 1 \in 1 .. n - 1 /\ x - 1 + 1 = x /\ (x - 1 = k \/ s[x - 1] = 0)
      <3>1. x - 1 \in 1 .. n - 1 /\ x - 1 + 1 = x
        BY <1>1
      <3>2. x - 1 # k => x - 1 \in 1 .. n /\ k < x - 1 /\ x - 1 < x
        BY <1>1
      <3>. QED
        BY <1>1, <2>1, <3>1, <3>2
    <2>3. CASE u.moved = TRUE
      <3>1. row[x] # 0 /\ (row[k] = 0 \/ row[k] = row[x])
        BY <1>3, <1>6, <2>3
      <3>2. Pair(s, x - 1)
        BY <2>1, <2>2, <3>1 DEF Pair
      <3>3. u.row[x] = 0
        BY <1>3, <1>6, <2>3
      <3>. QED
        BY <1>1, <1>4, <2>2, <2>3, <3>2, <3>3 DEF Looked, Movable
    <2>4. CASE u.moved = before
      <3>1. u.row = row /\ (u.x = x \/ u.x = x + 1)
        BY <1>3, <1>6, <2>4
      <3>2. u.x = x + 1 => ~ Pair(s, x - 1)
        <4>1. u.x = x + 1 => s[x] = 0 \/ (x - 1 = k /\ s[k] # 0 /\ s[k] # s[x])
          BY <1>1, <1>3, <1>6, <2>1, <2>4
        <4>. QED
          BY <2>2, <4>1 DEF Pair
      <3>3. \A i \in 1 .. n - 1 : i + 1 < u.x => ~ Pair(s, i)
        <4>. TAKE i \in 1 .. n - 1
        <4>1. i + 1 < u.x => i + 1 < x \/ (i = x - 1 /\ u.x = x + 1)
          <5>1. x \in 1 .. n /\ (u.x = x \/ u.x = x + 1)
            BY <1>1, <3>1
          <5>. QED
            BY <5>1
        <4>. QED
          BY <2>1, <3>2, <4>1
      <3>. QED
        BY <1>4, <1>6, <2>1, <2>4, <3>1, <3>3 DEF Looked
    <2>. QED
      BY <1>3, <2>3, <2>4
  <1>. QED
    BY <1>4, <1>5, <1>6

(* The loop run to its end: x or k grows in every iteration, so that after *)
(* 2 * n of them x is past the row.                                        *)
Done(s, t) == Good(t) /\ Looked(s, t) /\ Kept(s, t) /\ ~ Running(t)
LEMMA SlidIsDone ==
  ASSUME NEW s \in Row
  PROVE  Done(s, Slid(s))
  <1>. DEFINE end == 2 * n
              S == {t \in Loop : Good(t) /\ Looked(s, t) /\ Kept(s, t)}
              Go(t) == IF Running(t) THEN Body(t) ELSE t
              step == [p \in (1 .. end) \X S |-> Go(p[2])]
              Def(f) == [i \in 0 .. end |-> IF i = 0 THEN Begin(s) ELSE Go(f[i - 1])]
              after == CHOOSE f : f = Def(f)
  <1>1. n \in Nat \ {0} /\ end \in Nat /\ Len(s) = n /\ end \in 0 .. end
    OBVIOUS
  <1>2. Slid(s) = after[end]
    BY <1>1 DEF Slid
  <1>3. Begin(s) \in S
    <2>. DEFINE t == Begin(s)
    <2>1. t.row = s /\ t.k = 1 /\ t.x = 2 /\ t.gain = 0 /\ t.moved = FALSE
      BY DEF Begin
    <2>2. Fine(s, 1, 2)
      BY DEF Fine
    <2>3. Good(t)
      BY <2>2, GoodFields DEF Begin
    <2>4. \A i \in 1 .. n - 1 : ~ (i + 1 < 2)
      OBVIOUS
    <2>. HIDE DEF t
    <2>5. Looked(s, t)
      BY <2>1, <2>4 DEF Looked
    <2>6. Kept(s, t)
      <3>1. SumTo(n, Worths(s)) \in Nat
        BY WorthsType, SumType
      <3>. QED
        BY <2>1, <3>1 DEF Kept
    <2>. QED
      BY <2>3, <2>5, <2>6 DEF Good, t
  <1>4. ASSUME NEW t \in S, Running(t)
        PROVE  Body(t) \in S /\ Body(t).x + Body(t).k >= t.x + t.k + 1
    <2>1. Good(t) /\ Looked(s, t) /\ Kept(s, t)
      OBVIOUS
    <2>2. Good(Body(t))
      BY <1>4, <2>1, SkipKeeps, SlideKeeps, MergeKeeps, PassKeeps DEF Body
    <2>3. Looked(s, Body(t)) /\ Body(t).x + Body(t).k >= t.x + t.k + 1
      BY <1>4, <2>1, BodyLooked
    <2>4. Kept(s, Body(t))
      BY <1>4, <2>1, BodyKept
    <2>. QED
      BY <2>2, <2>3, <2>4 DEF Good
  <1>5. \A t \in S : Go(t) \in S
    BY <1>4
  <1>. HIDE DEF Go, end
  <1>6. step \in [(1 .. end) \X S -> S] /\ \A i \in 1 .. end, t \in S : step[<<i, t>>] = Go(t)
    BY <1>5
  <1>. HIDE DEF step, S
  <1>7. PICK f \in [0 .. end -> S] :
          f[0] = Begin(s) /\ \A i \in 1 .. end : f[i] = step[<<i, f[i - 1]>>]
    <2>1. CanRun(S, Begin(s), end, step)
      BY <1>1, <1>3, <1>6, Recursion
    <2>. QED
      BY <2>1 DEF CanRun
  <1>8. \A i \in 1 .. end : f[i] = Go(f[i - 1])
    <2>1. \A i \in 1 .. end : f[i - 1] \in S
      BY <1>1
    <2>. QED
      BY <1>6, <1>7, <2>1
  <1>9. f = Def(f)
    BY <1>1, <1>7, <1>8
  <1>10. after = Def(after)
    <2>. HIDE DEF Def
    <2>. QED
      BY <1>9
  <1>. HIDE DEF after
  <1>11. after[0] = Begin(s) /\ \A i \in 1 .. end : after[i] = Go(after[i - 1])
    BY <1>1, <1>10
  <1>12. \A i \in 0 .. end : after[i] \in S
    <2>1. \A i \in 1 .. end : after[i - 1] \in S => after[i] \in S
      BY <1>5, <1>11
    <2>. QED
      BY <1>1, <1>3, <1>11, <2>1, RunType, SMTT(30)
  <1>13. \A t \in S : /\ Good(t) /\ Looked(s, t) /\ Kept(s, t) /\ t.x \in Nat /\ t.k \in Nat
                      /\ t.k < t.x /\ (Running(t) => t.x <= n)
    BY FieldsOfGood DEF S, Good, Fine
  <1>. DEFINE Late(i, t) == Running(t) => t.x + t.k >= i + 3
              P == {i \in 0 .. end : Late(i, after[i])}
  <1>14. \A i \in 0 .. end : i \in P
    <2>1. 0 \in P
      <3>1. Begin(s).x = 2 /\ Begin(s).k = 1
        BY DEF Begin
      <3>. QED
        BY <1>1, <1>11, <3>1
    <2>2. ASSUME NEW i \in 1 .. end, i - 1 \in P PROVE i \in P
      <3>. DEFINE t == after[i - 1]  u == after[i]
      <3>1. t \in S /\ u \in S /\ u = Go(t) /\ i \in 0 .. end /\ Late(i - 1, t)
        BY <1>1, <1>11, <1>12, <2>2
      <3>2. CASE Running(t)
        <4>1. u.x + u.k >= t.x + t.k + 1 /\ t.x + t.k >= i - 1 + 3
          BY <1>4, <3>1, <3>2 DEF Go
        <4>. HIDE DEF t, u
        <4>2. u.x + u.k >= i + 3
          BY <1>13, <3>1, <4>1
        <4>. QED
          BY <3>1, <4>2 DEF u
      <3>3. CASE ~ Running(t)
        BY <3>1, <3>3 DEF Go
      <3>. QED
        BY <3>2, <3>3
    <2>. HIDE DEF P
    <2>. QED
      BY <1>1, <2>1, <2>2, Induction
  <1>15. ~ Running(after[end])
    <2>. DEFINE t == after[end]
    <2>1. t \in S /\ Late(end, t)
      BY <1>1, <1>12, <1>14
    <2>. HIDE DEF t
    <2>2. ~ Running(t)
      BY <1>1, <1>13, <2>1 DEF end
    <2>. QED
      BY <2>2 DEF t
  <1>. QED
    BY <1>1, <1>2, <1>12, <1>13, <1>15 DEF Done

(* So it moves something exactly if something can be moved.                *)
LEMMA SlidMoves ==
  ASSUME NEW s \in Row
  PROVE  /\ Slid(s).row \in Row /\ Slid(s).moved \in BOOLEAN
         /\ Slid(s).moved <=> Movable(s)
         /\ Slid(s).moved => \E i \in 1 .. n : Slid(s).row[i] = 0
  <1>. DEFINE t == Slid(s)
  <1>1. Good(t) /\ Looked(s, t) /\ ~ Running(t)
    BY SlidIsDone DEF Done
  <1>. HIDE DEF t
  <1>2. t.row \in Row /\ t.moved \in BOOLEAN /\ t.x \in 1 .. n + 1 /\ Len(t.row) = n
    BY <1>1 DEF Good, Loop
  <1>3. t.x = n + 1
    BY <1>1, <1>2 DEF Running
  <1>4. ~ t.moved => ~ Movable(s)
    BY <1>1, <1>3 DEF Looked, Movable
  <1>5. t.moved => Movable(s) /\ \E i \in 1 .. n : t.row[i] = 0
    BY <1>1 DEF Looked
  <1>6. /\ t.row \in Row /\ t.moved \in BOOLEAN /\ (t.moved <=> Movable(s))
        /\ t.moved => \E i \in 1 .. n : t.row[i] = 0
    BY <1>2, <1>4, <1>5
  <1>. QED
    BY <1>6 DEF t

-----------------------------------------------------------------------------
(* The game on a board of n rows and columns.                              *)

Board == [1 .. n -> Row]

(* A line of a board is a row.                                             *)
LEMMA LineType ==
  ASSUME NEW b \in Board, NEW d \in Direction, NEW i \in 1 .. n
  PROVE  LineOf(b, d, i) \in Row
  <1>1. n \in Nat /\ b[i] \in Row /\ Len(b[i]) = n /\ \A x, y \in 1 .. n : b[x][y] \in Nat
    BY DEF Board
  <1>2. \A j \in 1 .. n : n + 1 - j \in 1 .. n /\ n - j + 1 \in 1 .. n
    OBVIOUS
  <1>3. [j \in 1 .. n |-> b[j][i]] \in Row /\ [j \in 1 .. n |-> b[n + 1 - j][i]] \in Row
    BY <1>1, <1>2
  <1>4. Reverse(b[i]) \in Row
    BY <1>1, <1>2 DEF Reverse
  <1>. QED
    BY <1>1, <1>3, <1>4 DEF LineOf, Direction

(* Lines slides every line of the board once.                              *)
SlidBy(b, d, slid) ==
  Len(slid) = n /\ \A i \in 1 .. n : slid[i] = Slid(LineOf(b, d, i))
LEMMA LinesSlid ==
  ASSUME NEW b \in Board, NEW d \in Direction
  PROVE  SlidBy(b, d, Lines(b, d))
  <1>. DEFINE new(i) == Slid(LineOf(b, d, i))
              S == Seq(Loop)
              Go(i, l) == Append(l, new(i))
              step == [p \in (1 .. n) \X S |-> Go(p[1], p[2])]
              none == <<>>
              Def(f) == [i \in 0 .. n |-> IF i = 0 THEN none ELSE Go(i, f[i - 1])]
              done == CHOOSE f : f = Def(f)
  <1>1. n \in Nat /\ n \in 0 .. n /\ none \in S /\ Len(none) = 0
    OBVIOUS
  <1>2. Lines(b, d) = done[n]
    BY DEF Lines
  <1>3. \A i \in 1 .. n : new(i) \in Loop
    BY LineType, SlidIsDone DEF Done, Good
  <1>. HIDE DEF new
  <1>4. \A i \in 1 .. n, l \in S : Go(i, l) \in S
    BY <1>3
  <1>. HIDE DEF Go
  <1>4a. step \in [(1 .. n) \X S -> S] /\ \A i \in 1 .. n, l \in S : step[<<i, l>>] = Go(i, l)
    BY <1>4
  <1>. HIDE DEF step, S
  <1>5. PICK f \in [0 .. n -> S] :
          f[0] = none /\ \A i \in 1 .. n : f[i] = step[<<i, f[i - 1]>>]
    <2>. HIDE DEF none
    <2>1. CanRun(S, none, n, step)
      BY <1>1, <1>4a, Recursion
    <2>. QED
      BY <2>1 DEF CanRun
  <1>6. \A i \in 1 .. n : f[i] = Go(i, f[i - 1])
    <2>1. \A i \in 1 .. n : f[i - 1] \in S
      BY <1>1
    <2>. QED
      BY <1>4a, <1>5, <2>1
  <1>7. f = Def(f)
    BY <1>1, <1>5, <1>6
  <1>8. done = Def(done)
    <2>. HIDE DEF Def
    <2>. QED
      BY <1>7
  <1>. HIDE DEF done
  <1>. HIDE DEF none
  <1>9. done[0] = none /\ \A i \in 1 .. n : done[i] = Go(i, done[i - 1])
    BY <1>1, <1>8
  <1>. DEFINE Part(i, l) == l \in S /\ Len(l) = i /\ \A j \in 1 .. i : l[j] = new(j)
              P == {i \in 0 .. n : Part(i, done[i])}
  <1>10. \A i \in 0 .. n : i \in P
    <2>1. 0 \in P
      BY <1>1, <1>9
    <2>2. ASSUME NEW i \in 1 .. n, i - 1 \in P PROVE i \in P
      <3>. DEFINE l == done[i - 1]
      <3>1. Part(i - 1, l) /\ done[i] = Go(i, l) /\ i \in 0 .. n /\ i - 1 \in Nat
        <4>1. Part(i - 1, l)
          BY <2>2
        <4>. QED
          BY <1>1, <1>9, <4>1
      <3>. HIDE DEF l
      <3>2. Append(l, new(i)) \in S /\ Len(Append(l, new(i))) = i
        BY <1>3, <3>1 DEF S
      <3>3. ASSUME NEW j \in 1 .. i PROVE Append(l, new(i))[j] = new(j)
        <4>1. CASE j = i
          BY <3>1, <4>1 DEF S
        <4>2. CASE j # i
          <5>1. j \in 1 .. i - 1
            BY <4>2
          <5>. QED
            BY <3>1, <5>1 DEF S
        <4>. QED
          BY <4>1, <4>2
      <3>. QED
        BY <3>1, <3>2, <3>3 DEF Go
    <2>. HIDE DEF P
    <2>. QED
      BY <1>1, <2>1, <2>2, Induction
  <1>. QED
    BY <1>1, <1>2, <1>10 DEF SlidBy, new

(* A key moves something exactly if it can move something in some line,    *)
(* and leaves a board.                                                     *)
LEMMA MoveMoves ==
  ASSUME NEW b \in Board, NEW d \in Direction
  PROVE  /\ Move(b, d).arr \in Board
         /\ Move(b, d).moved <=> \E i \in 1 .. n : Movable(LineOf(b, d, i))
  <1>. DEFINE slid == Lines(b, d)
              rows == [i \in 1 .. n |-> slid[i].row]
  <1>1. ASSUME NEW i \in 1 .. n
        PROVE  /\ slid[i].row \in Row /\ slid[i].moved \in BOOLEAN
               /\ slid[i].moved <=> Movable(LineOf(b, d, i))
    <2>. DEFINE s == LineOf(b, d, i)
    <2>1. s \in Row /\ slid[i] = Slid(s)
      BY LineType, LinesSlid DEF SlidBy
    <2>. HIDE DEF s, slid
    <2>2. /\ Slid(s).row \in Row /\ Slid(s).moved \in BOOLEAN
          /\ Slid(s).moved <=> Movable(s)
      BY <2>1, SlidMoves
    <2>. QED
      BY <2>1, <2>2 DEF s
  <1>. HIDE DEF slid
  <1>2. rows \in Board
    BY <1>1 DEF Board
  <1>3. Move(b, d).arr = BoardOf(rows, d)
        /\ Move(b, d).moved = (\E i \in 1 .. n : slid[i].moved)
    BY DEF Move, slid
  <1>. HIDE DEF rows
  <1>4. BoardOf(rows, d) \in Board
    <2>0. \A x \in 1 .. n : n + 1 - x \in 1 .. n /\ n - x + 1 \in 1 .. n
      OBVIOUS
    <2>1. \A x, y \in 1 .. n : rows[x] \in Row /\ Len(rows[x]) = n /\ rows[x][y] \in Nat
      <3>1. \A x \in 1 .. n : rows[x] \in Row
        BY <1>2 DEF Board
      <3>2. n \in Nat /\ \A r \in Row : Len(r) = n /\ \A y \in 1 .. n : r[y] \in Nat
        OBVIOUS
      <3>. QED
        BY <3>1, <3>2
    <2>2. [x \in 1 .. n |-> [y \in 1 .. n |-> rows[y][x]]] \in Board
      BY <2>0, <2>1 DEF Board
    <2>3. [x \in 1 .. n |-> [y \in 1 .. n |-> rows[y][n + 1 - x]]] \in Board
      BY <2>0, <2>1 DEF Board
    <2>4. [x \in 1 .. n |-> Reverse(rows[x])] \in Board
      <3>1. \A x \in 1 .. n : Reverse(rows[x]) \in Row
        BY <2>0, <2>1 DEF Reverse
      <3>. QED
        BY <3>1 DEF Board
    <2>. QED
      BY <1>2, <2>2, <2>3, <2>4 DEF BoardOf, Direction
  <1>. QED
    BY <1>1, <1>3, <1>4

(* A line without a pair that moves is full or empty: emptiness spreads    *)
(* from cell to cell.                                                      *)
LEMMA Spreads ==
  ASSUME NEW f, \A i \in 1 .. n - 1 : f[i] = 0 <=> f[i + 1] = 0
  PROVE  \A i, j \in 1 .. n : f[i] = 0 => f[j] = 0
  <1>. DEFINE last == n - 1
              P == {i \in 0 .. last : f[i + 1] = 0 <=> f[1] = 0}
  <1>1. last \in Nat
    OBVIOUS
  <1>2. 0 \in P
    BY <1>1
  <1>3. ASSUME NEW i \in 1 .. last, i - 1 \in P PROVE i \in P
    <2>1. i \in 1 .. n - 1 /\ i - 1 + 1 = i /\ i \in 0 .. last
      OBVIOUS
    <2>2. f[i] = 0 <=> f[1] = 0
      BY <1>3, <2>1
    <2>. QED
      BY <2>1, <2>2
  <1>4. \A i \in 0 .. last : i \in P
    <2>. HIDE DEF P, last
    <2>. QED
      BY <1>1, <1>2, <1>3, Induction
  <1>5. ASSUME NEW i \in 1 .. n PROVE f[i] = 0 <=> f[1] = 0
    <2>1. i - 1 \in 0 .. last /\ i - 1 + 1 = i
      OBVIOUS
    <2>. QED
      BY <1>4, <2>1
  <1>. QED
    BY <1>5

\* Two neighbouring cells of which one can move into the other.
Mobile(p, q) == (p # 0 \/ q # 0) /\ (p = 0 \/ q = 0 \/ p = q)
Neighbours(b, p, q) ==
  \E x, y \in 1 .. n : \/ x + 1 <= n /\ p = b[x][y] /\ q = b[x + 1][y]
                       \/ y + 1 <= n /\ p = b[x][y] /\ q = b[x][y + 1]
HasTile(b) == \E x, y \in 1 .. n : b[x][y] # 0

(* Some key moves something exactly if two neighbours are mobile: each     *)
(* such pair is met on one side or the other.                              *)
LEMMA SomeMove ==
  ASSUME NEW b \in Board, n > 1
  PROVE  (\E d \in Direction : Move(b, d).moved)
           <=> \E p, q \in Nat : Neighbours(b, p, q) /\ Mobile(p, q)
  <1>. DEFINE left(i) == [j \in 1 .. n |-> b[j][i]]
              right(i) == [j \in 1 .. n |-> b[n + 1 - j][i]]
              up(i) == b[i]
              down(i) == Reverse(b[i])
  <1>1. \A x, y \in 1 .. n : b[x][y] \in Nat /\ Len(b[x]) = n
    BY DEF Board
  <1>2. \A i \in 1 .. n : /\ LineOf(b, "left", i) = left(i)
                          /\ LineOf(b, "right", i) = right(i)
                          /\ LineOf(b, "up", i) = up(i)
                          /\ LineOf(b, "down", i) = down(i)
    BY DEF LineOf
  <1>3. (\E d \in Direction : Move(b, d).moved)
          <=> \E i \in 1 .. n : \/ Movable(left(i)) \/ Movable(right(i))
                                \/ Movable(up(i)) \/ Movable(down(i))
    <2>. HIDE DEF left, right, up, down
    <2>1. \A d \in Direction :
            Move(b, d).moved <=> \E i \in 1 .. n : Movable(LineOf(b, d, i))
      BY MoveMoves
    <2>2. Direction = {"left", "right", "up", "down"}
      BY DEF Direction
    <2>. QED
      BY <1>2, <2>1, <2>2
  <1>4. ASSUME NEW i \in 1 .. n
        PROVE  (Movable(left(i)) \/ Movable(right(i)))
                 <=> \E x \in 1 .. n : x + 1 <= n /\ Mobile(b[x][i], b[x + 1][i])
    <2>1. ASSUME NEW j \in 1 .. n - 1, Pair(left(i), j)
          PROVE  \E x \in 1 .. n : x + 1 <= n /\ Mobile(b[x][i], b[x + 1][i])
      <3>1. j \in 1 .. n /\ j + 1 \in 1 .. n
        OBVIOUS
      <3>2. left(i)[j] = b[j][i] /\ left(i)[j + 1] = b[j + 1][i]
        BY <3>1
      <3>. HIDE DEF left
      <3>3. Mobile(b[j][i], b[j + 1][i])
        BY <2>1, <3>2 DEF Pair, Mobile
      <3>. QED
        BY <3>1, <3>3
    <2>2. ASSUME NEW j \in 1 .. n - 1, Pair(right(i), j)
          PROVE  \E x \in 1 .. n : x + 1 <= n /\ Mobile(b[x][i], b[x + 1][i])
      <3>. DEFINE x == n - j
      <3>1. /\ x \in 1 .. n /\ x + 1 \in 1 .. n /\ n + 1 - (j + 1) = x /\ n + 1 - j = x + 1
            /\ j \in 1 .. n /\ j + 1 \in 1 .. n
        OBVIOUS
      <3>2. right(i)[j] = b[x + 1][i] /\ right(i)[j + 1] = b[x][i]
        BY <3>1
      <3>. HIDE DEF right, x
      <3>3. Mobile(b[x][i], b[x + 1][i])
        BY <2>2, <3>1, <3>2 DEF Pair, Mobile
      <3>4. x \in 1 .. n /\ x + 1 <= n
        BY <3>1
      <3>. QED
        BY <3>3, <3>4
    <2>3. ASSUME NEW x \in 1 .. n, x + 1 <= n, Mobile(b[x][i], b[x + 1][i])
          PROVE  Movable(left(i)) \/ Movable(right(i))
      <3>. DEFINE j == n - x
      <3>1. /\ j \in 1 .. n - 1 /\ x \in 1 .. n - 1 /\ n + 1 - (j + 1) = x /\ n + 1 - j = x + 1
            /\ j \in 1 .. n /\ j + 1 \in 1 .. n /\ x + 1 \in 1 .. n
        BY <2>3
      <3>2. right(i)[j] = b[x + 1][i] /\ right(i)[j + 1] = b[x][i]
            /\ left(i)[x] = b[x][i] /\ left(i)[x + 1] = b[x + 1][i]
        BY <3>1
      <3>. HIDE DEF left, right, j
      <3>3. Pair(left(i), x) \/ Pair(right(i), j)
        BY <2>3, <3>2 DEF Pair, Mobile
      <3>. QED
        BY <3>1, <3>3 DEF Movable
    <2>. HIDE DEF left, right
    <2>. QED
      BY <2>1, <2>2, <2>3 DEF Movable
  <1>5. ASSUME NEW i \in 1 .. n
        PROVE  (Movable(up(i)) \/ Movable(down(i)))
                 <=> \E y \in 1 .. n : y + 1 <= n /\ Mobile(b[i][y], b[i][y + 1])
    <2>0. \A j \in 1 .. n : down(i)[j] = b[i][n - j + 1]
      BY <1>1 DEF Reverse
    <2>. HIDE DEF down
    <2>1. ASSUME NEW j \in 1 .. n - 1, Pair(up(i), j)
          PROVE  \E y \in 1 .. n : y + 1 <= n /\ Mobile(b[i][y], b[i][y + 1])
      BY <1>1, <2>1 DEF Pair, Mobile
    <2>2. ASSUME NEW j \in 1 .. n - 1, Pair(down(i), j)
          PROVE  \E y \in 1 .. n : y + 1 <= n /\ Mobile(b[i][y], b[i][y + 1])
      <3>. DEFINE y == n - j
      <3>1. /\ y \in 1 .. n /\ y + 1 \in 1 .. n /\ n - (j + 1) + 1 = y /\ n - j + 1 = y + 1
            /\ j \in 1 .. n /\ j + 1 \in 1 .. n
        OBVIOUS
      <3>2. down(i)[j] = b[i][y + 1] /\ down(i)[j + 1] = b[i][y]
        BY <2>0, <3>1
      <3>. HIDE DEF y
      <3>3. Mobile(b[i][y], b[i][y + 1])
        BY <2>2, <3>1, <3>2 DEF Pair, Mobile
      <3>. QED
        BY <3>1, <3>3
    <2>3. ASSUME NEW y \in 1 .. n, y + 1 <= n, Mobile(b[i][y], b[i][y + 1])
          PROVE  Movable(up(i)) \/ Movable(down(i))
      <3>. DEFINE j == n - y
      <3>1. /\ j \in 1 .. n - 1 /\ y \in 1 .. n - 1 /\ n - (j + 1) + 1 = y /\ n - j + 1 = y + 1
            /\ j \in 1 .. n /\ j + 1 \in 1 .. n
        BY <2>3
      <3>2. down(i)[j] = b[i][y + 1] /\ down(i)[j + 1] = b[i][y]
        BY <2>0, <3>1
      <3>. HIDE DEF j
      <3>3. Pair(up(i), y) \/ Pair(down(i), j)
        BY <2>3, <3>2 DEF Pair, Mobile
      <3>. QED
        BY <3>1, <3>3 DEF Movable
    <2>. HIDE DEF up
    <2>. QED
      BY <2>1, <2>2, <2>3 DEF Movable
  <1>. HIDE DEF left, right, up, down
  <1>6. (\E p, q \in Nat : Neighbours(b, p, q) /\ Mobile(p, q))
          <=> \E x, y \in 1 .. n : \/ x + 1 <= n /\ Mobile(b[x][y], b[x + 1][y])
                                   \/ y + 1 <= n /\ Mobile(b[x][y], b[x][y + 1])
    <2>1. \A x \in 1 .. n : x + 1 <= n => x + 1 \in 1 .. n
      OBVIOUS
    <2>. QED
      BY <1>1, <2>1 DEF Neighbours
  <1>. QED
    BY <1>3, <1>4, <1>5, <1>6

(* check2048() sees the end of the game exactly when no key moves          *)
(* anything, on a board of more than one cell with a tile on it.           *)
LEMMA StuckSeen ==
  ASSUME NEW b \in Board, n > 1, HasTile(b)
  PROVE  CanGoOn(b) <=> \E d \in Direction : Move(b, d).moved
  <1>0. CanGoOn(b) <=> \E x, y \in 1 .. n : \/ b[x][y] = 0
                                            \/ x + 1 <= n /\ b[x + 1][y] = b[x][y]
                                            \/ y + 1 <= n /\ b[x][y + 1] = b[x][y]
    <2>. DEFINE Here(x, y) == \/ b[x][y] = 0
                              \/ x + 1 <= n /\ b[x + 1][y] = b[x][y]
                              \/ y + 1 <= n /\ b[x][y + 1] = b[x][y]
    <2>1. CanGoOn(b) <=> \E c \in (1 .. n) \X (1 .. n) : Here(c[1], c[2])
      BY DEF CanGoOn, Cell
    <2>. HIDE DEF Here
    <2>2. ASSUME NEW c \in (1 .. n) \X (1 .. n), Here(c[1], c[2])
          PROVE  \E x, y \in 1 .. n : Here(x, y)
      BY <2>2
    <2>3. ASSUME NEW x \in 1 .. n, NEW y \in 1 .. n, Here(x, y)
          PROVE  \E c \in (1 .. n) \X (1 .. n) : Here(c[1], c[2])
      <3>. DEFINE c == <<x, y>>
      <3>1. c \in (1 .. n) \X (1 .. n) /\ c[1] = x /\ c[2] = y
        OBVIOUS
      <3>. HIDE DEF c
      <3>. QED
        BY <2>3, <3>1
    <2>4. CanGoOn(b) <=> \E x, y \in 1 .. n : Here(x, y)
      BY <2>1, <2>2, <2>3
    <2>. QED
      BY <2>4 DEF Here
  <1>1. \A x, y \in 1 .. n : b[x][y] \in Nat
    BY DEF Board
  <1>2. ASSUME NEW p \in Nat, NEW q \in Nat, Neighbours(b, p, q), Mobile(p, q)
        PROVE  CanGoOn(b)
    <2>1. PICK x, y \in 1 .. n : \/ x + 1 <= n /\ p = b[x][y] /\ q = b[x + 1][y]
                                 \/ y + 1 <= n /\ p = b[x][y] /\ q = b[x][y + 1]
      BY <1>2 DEF Neighbours
    <2>2. CASE p = 0 \/ p = q
      BY <1>0, <2>1, <2>2
    <2>3. CASE q = 0
      <3>1. x + 1 <= n => x + 1 \in 1 .. n
        OBVIOUS
      <3>2. y + 1 <= n => y + 1 \in 1 .. n
        OBVIOUS
      <3>. QED
        BY <1>0, <2>1, <2>3, <3>1, <3>2
    <2>. QED
      BY <1>2, <2>2, <2>3 DEF Mobile
  <1>3. ASSUME \A p, q \in Nat : Neighbours(b, p, q) => ~ Mobile(p, q)
        PROVE  ~ CanGoOn(b)
    <2>1. \A x, y \in 1 .. n :
            /\ x + 1 <= n => (b[x][y] = 0 <=> b[x + 1][y] = 0)
            /\ y + 1 <= n => (b[x][y] = 0 <=> b[x][y + 1] = 0)
      <3>1. \A x \in 1 .. n : x + 1 <= n => x + 1 \in 1 .. n
        OBVIOUS
      <3>. QED
        BY <1>1, <1>3, <3>1 DEF Neighbours, Mobile
    <2>2. \A x, y, z \in 1 .. n : b[x][y] = 0 => b[x][z] = 0
      <3>. TAKE x \in 1 .. n
      <3>. DEFINE f == b[x]
      <3>1. \A i \in 1 .. n - 1 : f[i] = 0 <=> f[i + 1] = 0
        BY <2>1
      <3>. HIDE DEF f
      <3>2. \A i, j \in 1 .. n : f[i] = 0 => f[j] = 0
        BY <3>1, Spreads
      <3>. QED
        BY <3>2 DEF f
    <2>3. \A x, y, z \in 1 .. n : b[x][y] = 0 => b[z][y] = 0
      <3>. SUFFICES ASSUME NEW y \in 1 .. n
                    PROVE  \A x, z \in 1 .. n : b[x][y] = 0 => b[z][y] = 0
        OBVIOUS
      <3>. DEFINE f == [x \in 1 .. n |-> b[x][y]]
      <3>1. \A i \in 1 .. n - 1 : f[i] = 0 <=> f[i + 1] = 0
        BY <2>1
      <3>. HIDE DEF f
      <3>2. \A i, j \in 1 .. n : f[i] = 0 => f[j] = 0
        BY <3>1, Spreads
      <3>. QED
        BY <3>2 DEF f
    <2>4. \A x, y \in 1 .. n : b[x][y] # 0
      BY <2>2, <2>3 DEF HasTile
    <2>5. \A x, y \in 1 .. n :
            /\ x + 1 <= n => b[x + 1][y] # b[x][y]
            /\ y + 1 <= n => b[x][y + 1] # b[x][y]
      <3>1. \A x \in 1 .. n : x + 1 <= n => x + 1 \in 1 .. n
        OBVIOUS
      <3>. QED
        BY <1>1, <1>3, <2>4, <3>1 DEF Neighbours, Mobile
    <2>. QED
      BY <1>0, <2>4, <2>5
  <1>. QED
    BY <1>2, <1>3, SomeMove

(* What gameoverflag means rests on the board never being empty, ...       *)
GInv ==
  /\ arr \in Board /\ HasTile(arr)
  /\ gameoverflag \in BOOLEAN
  /\ n > 1 => gameoverflag = ~ CanGoOn(arr)

(* The place that update2048() draws is one it finds: there are as many     *)
(* empty cells with a place of their own as there are empty cells.         *)
LEMMA BlankFinite ==
  ASSUME NEW b
  PROVE  IsFiniteSet(Blank(b)) /\ Cardinality(Blank(b)) \in Nat
  <1>1. IsFiniteSet(1 .. n)
    <2>1. 1 \in Int /\ n \in Int
      OBVIOUS
    <2>. QED
      BY <2>1, FS_Interval
  <1>2. IsFiniteSet(Cell)
    BY <1>1, FS_Product DEF Cell
  <1>3. Blank(b) \in SUBSET Cell
    BY DEF Blank
  <1>4. IsFiniteSet(Blank(b))
    BY <1>2, <1>3, FS_Subset
  <1>. QED
    BY <1>4, FS_CardinalityType

Before(e, c) == e[1] < c[1] \/ (e[1] = c[1] /\ e[2] < c[2])

LEMMA EveryPlace ==
  ASSUME NEW b, NEW position \in 0 .. Cardinality(Blank(b)) - 1
  PROVE  At(b, position) # {}
  <1>. DEFINE B == Blank(b)  num == Cardinality(B)
              rank == [c \in B |-> Cardinality(Passed(b, c))]
              T == 0 .. num - 1
  <1>1. IsFiniteSet(B) /\ num \in Nat
    BY BlankFinite
  <1>2. \A c \in B : c[1] \in 1 .. n /\ c[2] \in 1 .. n /\ c = <<c[1], c[2]>>
    BY DEF Blank, Cell
  <1>3. \A c \in B : Passed(b, c) = {e \in B : Before(e, c)}
    BY DEF Passed, Before
  <1>4. \A c, e \in B : c # e => Before(c, e) \/ Before(e, c)
    BY <1>2 DEF Before
  <1>5. \A c \in B : ~ Before(c, c)
    BY <1>2 DEF Before
  <1>6. \A c, d, e \in B : Before(c, d) /\ Before(d, e) => Before(c, e)
    BY <1>2 DEF Before
  <1>. HIDE DEF B
  <1>7. ASSUME NEW c \in B
        PROVE  IsFiniteSet(Passed(b, c)) /\ rank[c] \in T
    <2>1. Passed(b, c) \in SUBSET (B \ {c})
      BY <1>3, <1>5
    <2>2. IsFiniteSet(B \ {c}) /\ Cardinality(B \ {c}) = num - 1
      BY <1>1, FS_RemoveElement
    <2>3. IsFiniteSet(Passed(b, c)) /\ Cardinality(Passed(b, c)) <= num - 1
      BY <2>1, <2>2, FS_Subset
    <2>4. Cardinality(Passed(b, c)) \in Nat
      BY <2>3, FS_CardinalityType
    <2>. QED
      BY <1>1, <2>3, <2>4
  <1>8. ASSUME NEW c \in B, NEW e \in B, Before(c, e)
        PROVE  rank[c] # rank[e]
    <2>1. Passed(b, c) \in SUBSET Passed(b, e)
      BY <1>3, <1>6, <1>8
    <2>2. c \in Passed(b, e) /\ c \notin Passed(b, c)
      BY <1>3, <1>5, <1>8
    <2>3. Cardinality(Passed(b, e)) # Cardinality(Passed(b, c))
      BY <1>7, <2>1, <2>2, FS_Subset
    <2>. QED
      BY <2>3
  <1>9. rank \in Injection(B, T)
    <2>1. rank \in [B -> T]
      BY <1>7
    <2>2. \A c, e \in B : rank[c] = rank[e] => c = e
      BY <1>4, <1>8
    <2>. HIDE DEF rank
    <2>. QED
      BY <2>1, <2>2 DEF Injection, IsInjective
  <1>10. IsFiniteSet(T) /\ Cardinality(T) = num
    <2>1. 0 \in Int /\ num - 1 \in Int
      BY <1>1
    <2>2. IsFiniteSet(T) /\ Cardinality(T) = IF 0 > num - 1 THEN 0 ELSE num - 1 - 0 + 1
      BY <2>1, FS_Interval
    <2>. HIDE DEF num, T
    <2>. QED
      BY <1>1, <2>2
  <1>11. rank \in Surjection(B, T)
    <2>. HIDE DEF rank
    <2>. QED
      BY <1>9, <1>10, FS_Injection
  <1>12. position \in T
    BY DEF B
  <1>13. PICK c \in B : rank[c] = position
    <2>. HIDE DEF rank
    <2>. QED
      BY <1>11, <1>12 DEF Surjection
  <1>14. c \in At(b, position)
    BY <1>13 DEF At, B
  <1>. QED
    BY <1>14

(* A tile in one of the empty cells, ...                                   *)
Filled(b, new) ==
  \E c \in Blank(b) : \E tile \in {2, 4} :
    new = [b EXCEPT ![c[1]] = [b[c[1]] EXCEPT ![c[2]] = tile]]

(* ... which is what comes of a round, or nothing does; ...                *)
LEMMA PutOne ==
  ASSUME NEW b, NEW c \in Blank(b), NEW tile \in {2, 4}
  PROVE  Filled(b, Put(b, c, tile))
  <1>1. Put(b, c, tile) = [b EXCEPT ![c[1]] = [b[c[1]] EXCEPT ![c[2]] = tile]]
    BY DEF Put
  <1>. QED
    BY <1>1 DEF Filled

LEMMA PlacedIs ==
  ASSUME NEW b, NEW num, NEW new \in Placed(b, num)
  PROVE  new = b \/ Filled(b, new)
  <1>1. CASE num <= 0
    BY <1>1 DEF Placed
  <1>2. CASE ~ (num <= 0)
    <2>1. PICK position \in 0 .. num - 1 :
            new \in IF At(b, position) = {} THEN {b}
                    ELSE {Put(b, c, tile) : c \in At(b, position), tile \in {2, 4}}
      BY <1>2 DEF Placed
    <2>2. CASE At(b, position) = {}
      BY <2>1, <2>2
    <2>3. CASE At(b, position) # {}
      <3>1. PICK c \in At(b, position), tile \in {2, 4} : new = Put(b, c, tile)
        BY <2>1, <2>3
      <3>2. c \in Blank(b)
        BY DEF At
      <3>. QED
        BY <3>1, <3>2, PutOne
    <2>. QED
      BY <2>2, <2>3
  <1>. QED
    BY <1>1, <1>2

(* ... a tile, if no more cells are counted than are empty.                *)
LEMMA PlacedFills ==
  ASSUME NEW b, NEW num \in 1 .. Cardinality(Blank(b)), NEW new \in Placed(b, num)
  PROVE  Filled(b, new)
  <1>. DEFINE all == Cardinality(Blank(b))
  <1>0. all \in Nat
    BY BlankFinite
  <1>. HIDE DEF all
  <1>1. ~ (num <= 0) /\ \A position \in 0 .. num - 1 : position \in 0 .. all - 1
    BY <1>0 DEF all
  <1>2. PICK position \in 0 .. num - 1 :
          new \in IF At(b, position) = {} THEN {b}
                  ELSE {Put(b, c, tile) : c \in At(b, position), tile \in {2, 4}}
    BY <1>1 DEF Placed
  <1>3. At(b, position) # {}
    BY <1>1, EveryPlace DEF all
  <1>4. PICK c \in At(b, position), tile \in {2, 4} : new = Put(b, c, tile)
    BY <1>2, <1>3
  <1>5. c \in Blank(b)
    BY DEF At
  <1>. QED
    BY <1>4, <1>5, PutOne

LEMMA SpawnedIs ==
  ASSUME NEW b, NEW new \in Spawned(b)
  PROVE  IF Blank(b) = {} THEN new = b ELSE Filled(b, new)
  <1>. DEFINE all == Cardinality(Blank(b))
  <1>1. all \in Nat /\ (all = 0 <=> Blank(b) = {}) /\ new \in Placed(b, all)
    BY BlankFinite, FS_EmptySet DEF Spawned
  <1>2. CASE Blank(b) = {}
    <2>. HIDE DEF all
    <2>1. all <= 0
      BY <1>1, <1>2
    <2>. QED
      BY <1>1, <1>2, <2>1 DEF Placed
  <1>3. CASE Blank(b) # {}
    <2>1. all \in 1 .. all
      <3>. HIDE DEF all
      <3>. QED
        BY <1>1, <1>3
    <2>. QED
      BY <1>1, <1>3, <2>1, PlacedFills
  <1>. QED
    BY <1>2, <1>3

LEMMA FilledBoard ==
  ASSUME NEW b \in Board, NEW new, Filled(b, new)
  PROVE  /\ new \in Board /\ HasTile(new)
         /\ \E c \in Blank(b) :
              /\ Blank(new) = Blank(b) \ {c}
              /\ \A x, y \in 1 .. n : <<x, y>> # c => new[x][y] = b[x][y]
  <1>1. \A x \in 1 .. n : b[x] \in Row
    BY DEF Board
  <1>2. PICK c \in Blank(b), tile \in {2, 4} :
          new = [b EXCEPT ![c[1]] = [b[c[1]] EXCEPT ![c[2]] = tile]]
    BY DEF Filled
  <1>. DEFINE x == c[1]  y == c[2]  line == [b[x] EXCEPT ![y] = tile]
  <1>3. x \in 1 .. n /\ y \in 1 .. n /\ c = <<x, y>> /\ tile \in Nat \ {0}
    BY DEF Blank, Cell
  <1>4. new = [b EXCEPT ![x] = line]
    BY <1>2
  <1>. HIDE DEF x, y
  <1>5. line \in Row /\ line[y] = tile /\ \A j \in 1 .. n : j # y => line[j] = b[x][j]
    BY <1>1, <1>3
  <1>. HIDE DEF line
  <1>6. new \in Board /\ new[x] = line /\ \A i \in 1 .. n : i # x => new[i] = b[i]
    BY <1>3, <1>4, <1>5 DEF Board
  <1>7. HasTile(new)
    BY <1>3, <1>5, <1>6 DEF HasTile
  <1>8. ASSUME NEW i \in 1 .. n, NEW j \in 1 .. n, <<i, j>> # c
        PROVE  new[i][j] = b[i][j]
    BY <1>3, <1>5, <1>6, <1>8
  <1>9. Blank(new) = Blank(b) \ {c}
    <2>1. ASSUME NEW e \in Cell PROVE e \in Blank(new) <=> e \in Blank(b) \ {c}
      <3>1. e[1] \in 1 .. n /\ e[2] \in 1 .. n /\ e = <<e[1], e[2]>>
        BY DEF Cell
      <3>2. CASE e = c
        <4>1. new[e[1]][e[2]] # 0
          <5>1. e[1] = x /\ e[2] = y
            BY <3>2 DEF x, y
          <5>. QED
            BY <1>3, <1>5, <1>6, <5>1
        <4>. QED
          BY <3>2, <4>1 DEF Blank
      <3>3. CASE e # c
        <4>1. new[e[1]][e[2]] = b[e[1]][e[2]]
          BY <1>8, <3>1, <3>3
        <4>. QED
          BY <3>3, <4>1 DEF Blank
      <3>. QED
        BY <3>2, <3>3
    <2>2. \A e \in Blank(new) : e \in Cell
      BY DEF Blank
    <2>3. \A e \in Blank(b) : e \in Cell
      BY DEF Blank
    <2>. QED
      BY <2>1, <2>2, <2>3
  <1>. QED
    BY <1>6, <1>7, <1>8, <1>9

(* ... which a new tile sees to, or the tiles that leave no room for one.  *)
LEMMA SpawnedBoard ==
  ASSUME NEW b \in Board, NEW new \in Spawned(b)
  PROVE  new \in Board /\ HasTile(new)
  <1>1. CASE Blank(b) = {}
    <2>1. new = b
      BY <1>1, SpawnedIs
    <2>2. 1 \in 1 .. n /\ <<1, 1>> \in Cell
      BY DEF Cell
    <2>3. b[1][1] # 0
      BY <1>1, <2>2 DEF Blank
    <2>. QED
      BY <2>1, <2>2, <2>3 DEF HasTile
  <1>2. CASE Blank(b) # {}
    BY <1>2, SpawnedIs, FilledBoard
  <1>. QED
    BY <1>1, <1>2

(* A new board has at most two tiles, so that there is room left on it.    *)
LEMMA NewBoardFree ==
  ASSUME NEW b \in NewBoard
  PROVE  b \in Board /\ HasTile(b) /\ (n > 1 => CanGoOn(b))
  <1>. DEFINE none == Empty
  <1>1. none \in Board /\ \A x, y \in 1 .. n : none[x][y] = 0
    BY DEF Empty, Board
  <1>2. PICK a \in Spawned(none) : b = a \/ Filled(a, b)
    <2>1. PICK a \in Placed(none, Cardinality(Blank(none))) :
            b \in Placed(a, CountedDown(Cardinality(Blank(none))))
      BY DEF NewBoard
    <2>2. b = a \/ Filled(a, b)
      BY <2>1, PlacedIs
    <2>. QED
      BY <2>1, <2>2 DEF Spawned
  <1>. HIDE DEF none
  <1>3. a \in Board /\ b \in Board /\ HasTile(b)
    BY <1>1, <1>2, SpawnedBoard, FilledBoard
  \* A board with at most one cell taken more.
  <1>4. ASSUME NEW o \in Board, NEW u, u = o \/ Filled(o, u)
        PROVE  \E c \in Cell : \A x, y \in 1 .. n : <<x, y>> # c => u[x][y] = o[x][y]
    <2>1. CASE u = o
      <3>1. <<1, 1>> \in Cell
        BY DEF Cell
      <3>. QED
        BY <2>1, <3>1
    <2>2. CASE Filled(o, u)
      <3>1. PICK c \in Blank(o) : \A x, y \in 1 .. n : <<x, y>> # c => u[x][y] = o[x][y]
        BY <2>2, FilledBoard
      <3>2. c \in Cell
        BY DEF Blank
      <3>. QED
        BY <3>1, <3>2
    <2>. QED
      BY <1>4, <2>1, <2>2
  <1>5. PICK c \in Cell : \A x, y \in 1 .. n : <<x, y>> # c => a[x][y] = none[x][y]
    BY <1>1, <1>2, <1>4, SpawnedIs
  <1>6. PICK e \in Cell : \A x, y \in 1 .. n : <<x, y>> # e => b[x][y] = a[x][y]
    BY <1>2, <1>3, <1>4
  <1>7. ASSUME n > 1 PROVE CanGoOn(b)
    <2>1. 1 \in 1 .. n /\ 2 \in 1 .. n
      BY <1>7
    <2>2. PICK z \in {<<1, 1>>, <<1, 2>>, <<2, 1>>} : z # c /\ z # e
      <3>1. <<1, 1>> # <<1, 2>> /\ <<1, 1>> # <<2, 1>> /\ <<1, 2>> # <<2, 1>>
        OBVIOUS
      <3>. QED
        BY <3>1
    <2>3. /\ z = <<z[1], z[2]>> /\ z[1] \in 1 .. n /\ z[2] \in 1 .. n
          /\ z \in Cell
      BY <2>1 DEF Cell
    <2>4. b[z[1]][z[2]] = 0
      BY <1>1, <1>5, <1>6, <2>2, <2>3
    <2>. QED
      BY <2>3, <2>4 DEF CanGoOn
  <1>. QED
    BY <1>3, <1>7

(* update2048() and check2048() after a move or, when moved was left TRUE, *)
(* without one: the flag that is set stays set only on a stuck board.      *)
LEMMA RefreshKeeps ==
  ASSUME GInv, NEW b \in Board, NEW points, Refresh(b, points),
         b = arr \/ CanGoOn(arr)
  PROVE  GInv'
  <1>. DEFINE new == arr'
  <1>1. new \in Spawned(b) /\ gameoverflag' = (gameoverflag \/ ~ CanGoOn(new))
    BY DEF Refresh
  <1>. HIDE DEF new
  <1>2. new \in Board /\ HasTile(new)
    BY <1>1, SpawnedBoard
  <1>3. gameoverflag \in BOOLEAN /\ (n > 1 => gameoverflag = ~ CanGoOn(arr))
    BY DEF GInv
  <1>4. CanGoOn(new) \in BOOLEAN /\ CanGoOn(arr) \in BOOLEAN
    BY DEF CanGoOn
  <1>5. ASSUME n > 1 PROVE gameoverflag' = ~ CanGoOn(new)
    <2>1. CASE ~ gameoverflag
      BY <1>1, <1>4, <2>1
    <2>2. CASE gameoverflag
      <3>1. ~ CanGoOn(arr)
        BY <1>3, <1>5, <2>2
      <3>2. Blank(arr) = {}
        BY <3>1 DEF Blank, CanGoOn
      <3>3. new = arr
        BY <1>1, <3>1, <3>2, SpawnedIs
      <3>. QED
        BY <1>1, <3>1, <3>3
    <2>. QED
      BY <1>3, <2>1, <2>2
  <1>6. gameoverflag' \in BOOLEAN
    BY <1>1, <1>3
  <1>7. new \in Board /\ HasTile(new) /\ gameoverflag' \in BOOLEAN
        /\ (n > 1 => gameoverflag' = ~ CanGoOn(new))
    BY <1>2, <1>5, <1>6
  <1>. QED
    BY <1>7 DEF GInv, new

LEMMA GameStarts == Init => GInv
  <1>. SUFFICES ASSUME Init PROVE GInv
    OBVIOUS
  <1>1. arr \in NewBoard /\ gameoverflag = FALSE
    BY DEF Init
  <1>. QED
    BY <1>1, NewBoardFree DEF GInv

LEMMA GameKept == GInv /\ [Next]_vars => GInv'
  <1>. SUFFICES ASSUME GInv, [Next]_vars PROVE GInv'
    OBVIOUS
  <1>1. CASE UNCHANGED <<arr, gameoverflag>>
    <2>1. arr' = arr /\ gameoverflag' = gameoverflag
      BY <1>1
    <2>2. GInv' <=> GInv
      BY <2>1 DEF GInv
    <2>. QED
      BY <2>2
  <1>2. ASSUME NEW d \in Direction, Slide(d) PROVE GInv'
    <2>. DEFINE m == Move(arr, d)
    <2>1. CASE ~ m.moved
      BY <1>1, <1>2, <2>1 DEF Slide
    <2>2. CASE m.moved
      <3>1. Refresh(m.arr, score + m.gain)
        BY <1>2, <2>2 DEF Slide
      <3>2. m.arr \in Board
        BY MoveMoves DEF GInv
      <3>3. n > 1 => CanGoOn(arr)
        <4>1. \E e \in Direction : Move(arr, e).moved
          BY <2>2
        <4>. QED
          BY <4>1, StuckSeen DEF GInv
      <3>4. n > 1
        <4>1. \E i \in 1 .. n : Movable(LineOf(arr, d, i))
          BY <2>2, MoveMoves DEF GInv
        <4>2. PICK j \in 1 .. n - 1 : TRUE
          BY <4>1 DEF Movable
        <4>. QED
          BY <4>2
      <3>. QED
        BY <3>1, <3>2, <3>3, <3>4, RefreshKeeps
    <2>. QED
      BY <2>1, <2>2
  <1>3. CASE OtherKey
    <2>1. CASE ~ moved
      BY <1>1, <1>3, <2>1 DEF OtherKey
    <2>2. CASE moved
      <3>1. Refresh(arr, score)
        BY <1>3, <2>2 DEF OtherKey
      <3>2. arr \in Board
        BY DEF GInv
      <3>. QED
        BY <3>1, <3>2, RefreshKeeps
    <2>. QED
      BY <2>1, <2>2
  <1>4. CASE GameKeyRestart
    <2>. DEFINE new == arr'
    <2>1. new \in NewBoard /\ gameoverflag' = FALSE
      BY <1>4 DEF GameKeyRestart
    <2>. HIDE DEF new
    <2>2. new \in Board /\ HasTile(new) /\ (n > 1 => CanGoOn(new))
      BY <2>1, NewBoardFree
    <2>. QED
      BY <2>1, <2>2 DEF GInv, new
  <1>5. CASE GameKeyExit
    BY <1>1, <1>5 DEF GameKeyExit
  <1>6. CASE UNCHANGED vars
    BY <1>1, <1>6 DEF vars
  <1>. QED
    BY <1>2, <1>3, <1>4, <1>5, <1>6 DEF Next

(* On a board of any size: GAME OVER is shown exactly when no direction    *)
(* key would move anything, whatever keys were pressed (2048.c:110-121).   *)
THEOREM GameOverIsRight == Spec => []GameOverRight
  <1>1. GInv => GameOverRight
    <2>. SUFFICES ASSUME GInv, n > 1
                  PROVE  gameoverflag = (\A d \in Direction : ~ Move(arr, d).moved)
      BY DEF GameOverRight
    <2>1. CanGoOn(arr) <=> \E d \in Direction : Move(arr, d).moved
      BY StuckSeen DEF GInv
    <2>2. gameoverflag = ~ CanGoOn(arr) /\ gameoverflag \in BOOLEAN
      BY DEF GInv
    <2>. QED
      BY <2>1, <2>2
  <1>. QED
    BY <1>1, GameStarts, GameKept, PTL DEF Spec

-----------------------------------------------------------------------------
(* Sums over the board.                                                    *)

LEMMA SumOfIs ==
  ASSUME NEW s \in Row
  PROVE  SumOf(s) = SumTo(n, s) /\ SumTo(n, s) \in Nat
  <1>. DEFINE Def(f) == [i \in 0 .. n |-> IF i = 0 THEN 0 ELSE f[i - 1] + s[i]]
              sum == CHOOSE f : f = Def(f)
              g == Sums(n, s)
  <1>1. n \in Nat /\ n \in 0 .. n /\ s \in [1 .. n -> Nat]
    OBVIOUS
  <1>2. SumOf(s) = sum[n]
    BY DEF SumOf
  <1>3. g \in [0 .. n -> Nat] /\ g[0] = 0 /\ \A i \in 1 .. n : g[i] = g[i - 1] + s[i]
    BY <1>1, SumSteps DEF SumsBy
  <1>. HIDE DEF g
  <1>4. g = Def(g)
    BY <1>1, <1>3
  <1>5. sum = Def(sum)
    <2>. HIDE DEF Def
    <2>. QED
      BY <1>4
  <1>. HIDE DEF sum
  <1>6. sum[0] = 0 /\ \A i \in 1 .. n : sum[i] = sum[i - 1] + s[i]
    BY <1>1, <1>5
  <1>7. sum[n] = SumTo(n, s)
    BY <1>1, <1>6, SumIs
  <1>. QED
    BY <1>1, <1>2, <1>7, SumType

(* What the tiles of a board add up to, column by column.                  *)
LEMMA TotalIs ==
  ASSUME NEW b \in Board
  PROVE  /\ Total(b) = SumTo(n, [x \in 1 .. n |-> SumTo(n, b[x])])
         /\ [x \in 1 .. n |-> SumTo(n, b[x])] \in Row
         /\ Total(b) \in Nat
  <1>. DEFINE R == [x \in 1 .. n |-> SumTo(n, b[x])]
  <1>1. ASSUME NEW x \in 1 .. n PROVE SumOf(b[x]) = SumTo(n, b[x]) /\ SumTo(n, b[x]) \in Nat
    <2>1. b[x] \in Row
      BY DEF Board
    <2>. QED
      BY <2>1, SumOfIs
  <1>2. [x \in 1 .. n |-> SumOf(b[x])] = R /\ R \in Row
    BY <1>1
  <1>3. Total(b) = SumOf(R)
    BY <1>2 DEF Total
  <1>. HIDE DEF R
  <1>4. Total(b) = SumTo(n, R) /\ SumTo(n, R) \in Nat
    BY <1>2, <1>3, SumOfIs
  <1>. QED
    BY <1>2, <1>4 DEF R

(* The same row by row ...                                                 *)
LEMMA SameSums ==
  ASSUME NEW b \in Board, NEW a \in Board, \A x \in 1 .. n : SumTo(n, a[x]) = SumTo(n, b[x])
  PROVE  Total(a) = Total(b)
  <1>1. [x \in 1 .. n |-> SumTo(n, a[x])] = [x \in 1 .. n |-> SumTo(n, b[x])]
    OBVIOUS
  <1>2. /\ Total(a) = SumTo(n, [x \in 1 .. n |-> SumTo(n, a[x])])
        /\ Total(b) = SumTo(n, [x \in 1 .. n |-> SumTo(n, b[x])])
    BY TotalIs
  <1>. QED
    BY <1>1, <1>2, Zenon

LEMMA Turned ==
  ASSUME NEW b \in Board
  PROVE  /\ [y \in 1 .. n |-> [x \in 1 .. n |-> b[x][y]]] \in Board
         /\ Total([y \in 1 .. n |-> [x \in 1 .. n |-> b[x][y]]]) = Total(b)
  <1>. DEFINE t == [y \in 1 .. n |-> [x \in 1 .. n |-> b[x][y]]]
              R == [y \in 1 .. n |-> SumTo(n, t[y])]
  <1>0. \A x, y \in 1 .. n : b[x][y] \in Nat
    BY DEF Board
  <1>1. t \in Board
    BY <1>0 DEF Board
  <1>2. SumTo(n, [x \in 1 .. n |-> SumTo(n, b[x])])
          = SumTo(n, [y \in 1 .. n |-> SumTo(n, [x \in 1 .. n |-> b[x][y]])])
    <2>1. n \in Nat /\ b \in [1 .. n -> [1 .. n -> Nat]]
      BY DEF Board
    <2>. QED
      BY <2>1, SumExchanged
  <1>3. R = [y \in 1 .. n |-> SumTo(n, [x \in 1 .. n |-> b[x][y]])]
    OBVIOUS
  <1>4. Total(b) = SumTo(n, R)
    <2>1. Total(b) = SumTo(n, [x \in 1 .. n |-> SumTo(n, b[x])])
      BY TotalIs
    <2>. QED
      BY <1>2, <1>3, <2>1, Zenon
  <1>5. Total(t) = SumTo(n, R)
    <2>. HIDE DEF t
    <2>. QED
      BY <1>1, TotalIs
  <1>. QED
    BY <1>1, <1>4, <1>5

(* ... and line by line, whatever the direction.                           *)
LineBoard(b, d) == [i \in 1 .. n |-> LineOf(b, d, i)]
LEMMA ByLines ==
  ASSUME NEW b \in Board, NEW d \in Direction
  PROVE  LineBoard(b, d) \in Board /\ Total(LineBoard(b, d)) = Total(b)
  <1>. DEFINE L == LineBoard(b, d)
              t == [y \in 1 .. n |-> [x \in 1 .. n |-> b[x][y]]]
  <1>1. L \in Board /\ \A i \in 1 .. n : L[i] = LineOf(b, d, i)
    BY LineType DEF LineBoard, Board
  <1>2. t \in Board /\ Total(t) = Total(b) /\ \A i, j \in 1 .. n : t[i][j] = b[j][i]
    <2>1. t \in Board /\ Total(t) = Total(b)
      BY Turned
    <2>. QED
      BY <2>1
  <1>. HIDE DEF L, t
  <1>3. \A x, y \in 1 .. n : b[x] \in Row /\ t[x] \in Row /\ L[x] \in Row /\ b[x][y] \in Nat /\ Len(b[x]) = n
    <2>1. \A x \in 1 .. n : b[x] \in Row /\ t[x] \in Row /\ L[x] \in Row
      BY <1>1, <1>2 DEF Board
    <2>2. n \in Nat /\ \A r \in Row : Len(r) = n /\ \A y \in 1 .. n : r[y] \in Nat
      OBVIOUS
    <2>. QED
      BY <2>1, <2>2
  <1>4. CASE d = "left"
    <2>1. ASSUME NEW i \in 1 .. n PROVE L[i] = t[i]
      <3>1. L[i] = [j \in 1 .. n |-> b[j][i]]
        BY <1>1, <1>4 DEF LineOf
      <3>. QED
        BY <3>1 DEF t
    <2>. QED
      BY <1>1, <1>2, <2>1, SameSums DEF L
  <1>5. CASE d = "right"
    <2>1. ASSUME NEW i \in 1 .. n PROVE SumTo(n, L[i]) = SumTo(n, t[i])
      <3>1. L[i] = [j \in 1 .. n |-> b[n + 1 - j][i]]
        BY <1>1, <1>5 DEF LineOf
      <3>2. \A j \in 1 .. n : n + 1 - j \in 1 .. n
        OBVIOUS
      <3>3. \A j \in 1 .. n : L[i][j] = t[i][n + 1 - j]
        BY <1>2, <3>1, <3>2
      <3>4. L[i] \in [1 .. n -> Nat] /\ t[i] \in [1 .. n -> Nat] /\ n \in Nat
        BY <1>3
      <3>. QED
        BY <3>3, <3>4, SumReversed
    <2>. QED
      BY <1>1, <1>2, <2>1, SameSums DEF L
  <1>6. CASE d = "up"
    <2>1. \A i \in 1 .. n : L[i] = b[i]
      BY <1>1, <1>6 DEF LineOf
    <2>. QED
      BY <1>1, <2>1, SameSums DEF L
  <1>7. CASE d = "down"
    <2>1. ASSUME NEW i \in 1 .. n PROVE SumTo(n, L[i]) = SumTo(n, b[i])
      <3>1. L[i] = Reverse(b[i])
        BY <1>1, <1>7 DEF LineOf
      <3>2. L[i] = [j \in 1 .. n |-> b[i][n - j + 1]]
        <4>1. Len(b[i]) = n
          BY <1>3
        <4>. QED
          BY <3>1, <4>1 DEF Reverse
      <3>3. \A j \in 1 .. n : L[i][j] = b[i][n + 1 - j]
        <4>1. \A j \in 1 .. n : n - j + 1 = n + 1 - j
          OBVIOUS
        <4>. QED
          BY <3>2, <4>1
      <3>4. L[i] \in [1 .. n -> Nat] /\ b[i] \in [1 .. n -> Nat] /\ n \in Nat
        BY <1>3
      <3>. QED
        BY <3>3, <3>4, SumReversed
    <2>. QED
      BY <1>1, <2>1, SameSums DEF L
  <1>. QED
    BY <1>1, <1>4, <1>5, <1>6, <1>7 DEF Direction, L

(* BoardOf puts the lines back where LineOf has taken them.                *)
LEMMA PutBack ==
  ASSUME NEW rows \in Board, NEW d \in Direction, NEW i \in 1 .. n
  PROVE  LineOf(BoardOf(rows, d), d, i) = rows[i]
  <1>1. rows[i] \in Row /\ rows[i] = [j \in 1 .. n |-> rows[i][j]] /\ Len(rows[i]) = n
    BY DEF Board
  <1>2. \A j \in 1 .. n : n + 1 - j \in 1 .. n /\ n + 1 - (n + 1 - j) = j
                          /\ n - j + 1 \in 1 .. n /\ n - (n - j + 1) + 1 = j
    OBVIOUS
  <1>3. CASE d = "left"
    BY <1>1, <1>3 DEF LineOf, BoardOf
  <1>4. CASE d = "right"
    <2>. DEFINE b == BoardOf(rows, d)
    <2>1. b = [x \in 1 .. n |-> [y \in 1 .. n |-> rows[y][n + 1 - x]]]
      BY <1>4 DEF BoardOf
    <2>2. LineOf(b, d, i) = [j \in 1 .. n |-> b[n + 1 - j][i]]
      BY <1>4 DEF LineOf
    <2>. HIDE DEF b
    <2>3. \A j \in 1 .. n : b[n + 1 - j][i] = rows[i][j]
      BY <1>2, <2>1
    <2>. QED
      BY <1>1, <2>2, <2>3 DEF b
  <1>5. CASE d = "up"
    BY <1>5 DEF LineOf, BoardOf
  <1>6. CASE d = "down"
    <2>. DEFINE r == rows[i]
                q == Reverse(r)
    <2>1. LineOf(BoardOf(rows, d), d, i) = Reverse(q)
      BY <1>6 DEF LineOf, BoardOf
    <2>. HIDE DEF r
    <2>2. n \in Nat /\ r = [j \in 1 .. n |-> r[j]] /\ Len(r) = n
      BY <1>1 DEF r
    <2>3. q = [j \in 1 .. n |-> r[n - j + 1]]
      BY <2>2 DEF Reverse
    <2>. HIDE DEF q
    <2>4. Len(q) = n /\ \A j \in 1 .. n : q[j] = r[n - j + 1]
      BY <2>2, <2>3
    <2>5. Reverse(q) = [j \in 1 .. n |-> q[n - j + 1]]
      BY <2>4 DEF Reverse
    <2>6. \A j \in 1 .. n : q[n - j + 1] = r[j]
      BY <1>2, <2>4
    <2>. QED
      BY <2>1, <2>2, <2>5, <2>6 DEF r
  <1>. QED
    BY <1>3, <1>4, <1>5, <1>6 DEF Direction

(* A cell of a line is a cell of the board.                                *)
LEMMA LineCell ==
  ASSUME NEW b \in Board, NEW d \in Direction, NEW i \in 1 .. n, NEW j \in 1 .. n,
         LineOf(b, d, i)[j] = 0
  PROVE  Blank(b) # {}
  <1>1. n + 1 - j \in 1 .. n /\ n - j + 1 \in 1 .. n
    OBVIOUS
  <1>2. Len(b[i]) = n
    BY DEF Board
  <1>3. \/ LineOf(b, d, i)[j] = b[j][i] \/ LineOf(b, d, i)[j] = b[n + 1 - j][i]
        \/ LineOf(b, d, i)[j] = b[i][j] \/ LineOf(b, d, i)[j] = b[i][n - j + 1]
    BY <1>2 DEF LineOf, Direction, Reverse
  <1>4. \E x, y \in 1 .. n : b[x][y] = 0
    BY <1>1, <1>3
  <1>5. PICK x \in 1 .. n, y \in 1 .. n : b[x][y] = 0
    BY <1>4
  <1>6. <<x, y>> \in Cell
    BY DEF Cell
  <1>. QED
    BY <1>5, <1>6 DEF Blank

(* What moves leaves a cell empty: there is room for the tile that comes.  *)
LEMMA MoveFrees ==
  ASSUME NEW b \in Board, NEW d \in Direction, Move(b, d).moved
  PROVE  Blank(Move(b, d).arr) # {}
  <1>. DEFINE slid == Lines(b, d)
              rows == [i \in 1 .. n |-> slid[i].row]
  <1>1. Move(b, d).arr = BoardOf(rows, d) /\ Move(b, d).arr \in Board
        /\ \E i \in 1 .. n : slid[i].moved
    BY MoveMoves DEF Move
  <1>2. ASSUME NEW i \in 1 .. n
        PROVE  /\ slid[i].row \in Row
               /\ slid[i].moved => \E j \in 1 .. n : slid[i].row[j] = 0
    <2>. DEFINE s == LineOf(b, d, i)
    <2>1. s \in Row /\ slid[i] = Slid(s)
      BY LineType, LinesSlid DEF SlidBy
    <2>. HIDE DEF s, slid
    <2>2. /\ Slid(s).row \in Row
          /\ Slid(s).moved => \E j \in 1 .. n : Slid(s).row[j] = 0
      BY <2>1, SlidMoves
    <2>. QED
      BY <2>1, <2>2, Zenon
  <1>. HIDE DEF slid
  <1>3. PICK i \in 1 .. n, j \in 1 .. n : slid[i].row[j] = 0
    BY <1>1, <1>2
  <1>4. rows \in Board /\ rows[i] = slid[i].row
    BY <1>2 DEF Board
  <1>. HIDE DEF rows
  <1>5. LineOf(BoardOf(rows, d), d, i)[j] = 0
    BY <1>3, <1>4, PutBack
  <1>. QED
    BY <1>1, <1>5, LineCell, Zenon

-----------------------------------------------------------------------------
(* What a key and a new tile do to the sums.                               *)

AllTiles(b) == \A x \in 1 .. n : Tiles(b[x])

LEMMA WorthyType ==
  ASSUME NEW b \in Board
  PROVE  /\ Worthy(b) \in Board
         /\ \A x, y \in 1 .. n : Worthy(b)[x][y] = Worth[b[x][y]]
         /\ TotalWorth(b) \in Nat
  <1>1. \A x, y \in 1 .. n : b[x][y] \in Nat /\ Worth[b[x][y]] \in Nat
    BY WorthSteps DEF Board
  <1>2. Worthy(b) \in Board /\ \A x, y \in 1 .. n : Worthy(b)[x][y] = Worth[b[x][y]]
    BY <1>1 DEF Worthy, Board
  <1>3. Total(Worthy(b)) \in Nat
    BY <1>2, TotalIs
  <1>. QED
    BY <1>2, <1>3 DEF TotalWorth

(* The lines of what the tiles are worth.                                  *)
LEMMA WorthyLines ==
  ASSUME NEW b \in Board, NEW d \in Direction, NEW i \in 1 .. n
  PROVE  LineOf(Worthy(b), d, i) = Worths(LineOf(b, d, i))
  <1>. DEFINE w == Worthy(b)
  <1>1. w \in Board /\ \A x, y \in 1 .. n : w[x][y] = Worth[b[x][y]]
    BY WorthyType
  <1>. SUFFICES LineOf(w, d, i) = Worths(LineOf(b, d, i))
    OBVIOUS
  <1>. HIDE DEF w
  <1>2. \A j \in 1 .. n : n + 1 - j \in 1 .. n /\ n - j + 1 \in 1 .. n
    OBVIOUS
  <1>3. /\ w[i] = [j \in 1 .. n |-> w[i][j]] /\ Len(w[i]) = n
        /\ Len(b[i]) = n
    BY <1>1, SMTT(30) DEF Board
  <1>4. CASE d = "left"
    BY <1>1, <1>4 DEF LineOf, Worths
  <1>5. CASE d = "right"
    BY <1>1, <1>2, <1>5 DEF LineOf, Worths
  <1>6. CASE d = "up"
    <2>1. [j \in 1 .. n |-> w[i][j]] = [j \in 1 .. n |-> Worth[b[i][j]]]
      BY <1>1
    <2>. QED
      BY <1>3, <1>6, <2>1 DEF LineOf, Worths
  <1>7. CASE d = "down"
    <2>1. Reverse(w[i]) = [j \in 1 .. n |-> w[i][n - j + 1]]
          /\ Reverse(b[i]) = [j \in 1 .. n |-> b[i][n - j + 1]]
      BY <1>3 DEF Reverse
    <2>2. Worths(Reverse(b[i])) = [j \in 1 .. n |-> Worth[b[i][n - j + 1]]]
      BY <2>1 DEF Worths
    <2>3. [j \in 1 .. n |-> w[i][n - j + 1]] = [j \in 1 .. n |-> Worth[b[i][n - j + 1]]]
      BY <1>1, <1>2
    <2>. QED
      BY <1>7, <2>1, <2>2, <2>3 DEF LineOf
  <1>. QED
    BY <1>4, <1>5, <1>6, <1>7 DEF Direction

(* The lines of a board hold what the board holds.                         *)
LEMMA TilesInLines ==
  ASSUME NEW b \in Board, NEW d \in Direction
  PROVE  AllTiles(b) <=> \A i \in 1 .. n : Tiles(LineOf(b, d, i))
  <1>1. \A j \in 1 .. n : n + 1 - j \in 1 .. n /\ n + 1 - (n + 1 - j) = j
                          /\ n - j + 1 \in 1 .. n /\ n - (n - j + 1) + 1 = j
    OBVIOUS
  <1>2. \A x \in 1 .. n : Len(b[x]) = n
    BY DEF Board
  <1>3. CASE d = "left"
    BY <1>3 DEF LineOf, AllTiles, Tiles
  <1>4. CASE d = "right"
    <2>1. ASSUME AllTiles(b), NEW i \in 1 .. n PROVE Tiles(LineOf(b, d, i))
      BY <1>1, <1>4, <2>1 DEF LineOf, AllTiles, Tiles
    <2>2. ASSUME \A i \in 1 .. n : Tiles(LineOf(b, d, i)), NEW x \in 1 .. n, NEW i \in 1 .. n
          PROVE  Proper(b[x][i])
      <3>1. LineOf(b, d, i)[n + 1 - x] = b[n + 1 - (n + 1 - x)][i]
        BY <1>1, <1>4 DEF LineOf
      <3>2. Proper(LineOf(b, d, i)[n + 1 - x])
        BY <1>1, <2>2 DEF Tiles
      <3>. QED
        BY <1>1, <3>1, <3>2
    <2>. QED
      BY <2>1, <2>2 DEF AllTiles, Tiles
  <1>5. CASE d = "up"
    BY <1>5 DEF LineOf, AllTiles
  <1>6. CASE d = "down"
    <2>0. \A i, j \in 1 .. n : LineOf(b, d, i)[j] = b[i][n - j + 1]
      BY <1>2, <1>6 DEF LineOf, Reverse
    <2>1. ASSUME AllTiles(b), NEW i \in 1 .. n PROVE Tiles(LineOf(b, d, i))
      BY <1>1, <2>0, <2>1 DEF AllTiles, Tiles
    <2>2. ASSUME \A i \in 1 .. n : Tiles(LineOf(b, d, i)), NEW x \in 1 .. n, NEW i \in 1 .. n
          PROVE  Proper(b[x][i])
      <3>1. Proper(LineOf(b, d, x)[n - i + 1])
        BY <1>1, <2>2 DEF Tiles
      <3>. QED
        BY <1>1, <2>0, <3>1
    <2>. QED
      BY <2>1, <2>2 DEF AllTiles, Tiles
  <1>. QED
    BY <1>3, <1>4, <1>5, <1>6 DEF Direction

(* A key moves and merges: the sum stays, and the score grows by what the  *)
(* tiles are worth more.                                                   *)
MovedOn(b, m) ==
  /\ m.arr \in Board /\ AllTiles(m.arr) /\ m.gain \in Nat
  /\ Total(m.arr) = Total(b)
  /\ TotalWorth(m.arr) = TotalWorth(b) + m.gain
LEMMA MoveAddsUp ==
  ASSUME NEW b \in Board, AllTiles(b), NEW d \in Direction
  PROVE  MovedOn(b, Move(b, d))
  <1>. DEFINE slid == Lines(b, d)
              L == LineBoard(b, d)
              rows == [i \in 1 .. n |-> slid[i].row]
              gains == [i \in 1 .. n |-> slid[i].gain]
              new == BoardOf(rows, d)
              gain == SumOf(gains)
  <1>1. Move(b, d).arr = new /\ Move(b, d).gain = gain
    BY DEF Move, Points
  <1>2. L \in Board /\ Total(L) = Total(b) /\ \A i \in 1 .. n : L[i] = LineOf(b, d, i)
    BY ByLines DEF LineBoard
  <1>3. ASSUME NEW i \in 1 .. n
        PROVE  /\ slid[i].row \in Row /\ slid[i].gain \in Nat
               /\ Tiles(slid[i].row) /\ SumTo(n, slid[i].row) = SumTo(n, L[i])
               /\ SumTo(n, Worths(slid[i].row)) = SumTo(n, Worths(L[i])) + slid[i].gain
    <2>. DEFINE t == slid[i]  s == L[i]
    <2>1. t = Slid(s) /\ s \in Row
      <3>1. L[i] = LineOf(b, d, i) /\ LineOf(b, d, i) \in Row
        BY <1>2, LineType
      <3>2. SlidBy(b, d, slid)
        BY LinesSlid
      <3>. HIDE DEF slid, L
      <3>. QED
        BY <3>1, <3>2 DEF SlidBy
    <2>2. Tiles(s)
      BY <1>2, TilesInLines
    <2>. HIDE DEF s, t
    <2>3. Done(s, t)
      BY <2>1, SlidIsDone
    <2>4. t \in Loop /\ Kept(s, t)
      BY <2>3 DEF Done, Good
    <2>5. /\ t.row \in Row /\ t.gain \in Nat
          /\ Tiles(t.row) /\ SumTo(n, t.row) = SumTo(n, s)
          /\ SumTo(n, Worths(t.row)) = SumTo(n, Worths(s)) + t.gain
      BY <2>2, <2>4 DEF Kept, Loop
    <2>. QED
      BY <2>5 DEF s, t
  <1>. HIDE DEF slid, L
  <1>4. /\ rows \in Board /\ gains \in Row
        /\ \A i \in 1 .. n : rows[i] = slid[i].row /\ gains[i] = slid[i].gain
    BY <1>3 DEF Board
  <1>5. Move(b, d).arr \in Board
    BY MoveMoves
  <1>6. \A i \in 1 .. n : LineOf(new, d, i) = rows[i]
    <2>. HIDE DEF rows
    <2>. QED
      BY <1>4, PutBack
  <1>. HIDE DEF rows, gains, new
  <1>7. new \in Board
    BY <1>1, <1>5
  <1>8. gain \in Nat /\ gain = SumTo(n, gains)
    BY <1>4, SumOfIs
  <1>9. AllTiles(new)
    BY <1>3, <1>4, <1>6, <1>7, TilesInLines
  <1>10. Total(new) = Total(b)
    <2>. DEFINE N == LineBoard(new, d)
    <2>1. N \in Board /\ Total(N) = Total(new) /\ \A i \in 1 .. n : N[i] = rows[i]
      BY <1>6, <1>7, ByLines DEF LineBoard
    <2>. HIDE DEF N
    <2>2. \A i \in 1 .. n : SumTo(n, N[i]) = SumTo(n, L[i])
      BY <1>3, <1>4, <2>1
    <2>. QED
      BY <1>2, <2>1, <2>2, SameSums
  <1>11. TotalWorth(new) = TotalWorth(b) + gain
    <2>. DEFINE V == LineBoard(Worthy(new), d)
                W == LineBoard(Worthy(b), d)
                p == [i \in 1 .. n |-> SumTo(n, W[i])]
                q == [i \in 1 .. n |-> SumTo(n, V[i])]
    <2>1. /\ V \in Board /\ Total(V) = TotalWorth(new)
          /\ \A i \in 1 .. n : V[i] = Worths(rows[i])
      <3>1. Worthy(new) \in Board
        BY <1>7, WorthyType
      <3>2. V \in Board /\ Total(V) = TotalWorth(new)
        BY <3>1, ByLines DEF TotalWorth
      <3>3. \A i \in 1 .. n : V[i] = LineOf(Worthy(new), d, i)
        BY DEF LineBoard
      <3>4. \A i \in 1 .. n : LineOf(Worthy(new), d, i) = Worths(LineOf(new, d, i))
        BY <1>7, WorthyLines
      <3>. HIDE DEF V
      <3>. QED
        BY <1>6, <3>2, <3>3, <3>4
    <2>2. /\ W \in Board /\ Total(W) = TotalWorth(b)
          /\ \A i \in 1 .. n : W[i] = Worths(L[i])
      <3>1. Worthy(b) \in Board
        BY WorthyType
      <3>2. W \in Board /\ Total(W) = TotalWorth(b)
        BY <3>1, ByLines DEF TotalWorth
      <3>3. \A i \in 1 .. n : W[i] = LineOf(Worthy(b), d, i)
        BY DEF LineBoard
      <3>4. \A i \in 1 .. n : LineOf(Worthy(b), d, i) = Worths(LineOf(b, d, i))
        BY WorthyLines
      <3>. HIDE DEF W
      <3>. QED
        BY <1>2, <3>2, <3>3, <3>4
    <2>. HIDE DEF V, W
    <2>3. Total(V) = SumTo(n, q) /\ q \in Row /\ Total(W) = SumTo(n, p) /\ p \in Row
      BY <2>1, <2>2, TotalIs
    <2>4. \A i \in 1 .. n : q[i] = p[i] + gains[i]
      BY <1>3, <1>4, <2>1, <2>2
    <2>. HIDE DEF p, q
    <2>5. SumTo(n, q) = SumTo(n, p) + SumTo(n, gains)
      BY <1>4, <2>3, <2>4, SumAdds
    <2>. QED
      BY <1>8, <2>1, <2>2, <2>3, <2>5
  <1>. QED
    BY <1>1, <1>7, <1>8, <1>9, <1>10, <1>11 DEF MovedOn

(* One cell that is filled adds what it holds.                             *)
FilledOne(b, new, x, y) ==
  /\ b \in Board /\ new \in Board /\ x \in 1 .. n /\ y \in 1 .. n /\ b[x][y] = 0
  /\ \A i, j \in 1 .. n : ~ (i = x /\ j = y) => new[i][j] = b[i][j]
LEMMA FilledAdds ==
  ASSUME NEW b, NEW new, NEW x, NEW y, FilledOne(b, new, x, y)
  PROVE  Total(new) = Total(b) + new[x][y]
  <1>. DEFINE p == [i \in 1 .. n |-> SumTo(n, b[i])]
              q == [i \in 1 .. n |-> SumTo(n, new[i])]
              r == b[x]  s == new[x]
              A == SumTo(n, r)  B == SumTo(n, s)
  <1>1. /\ b \in Board /\ new \in Board /\ x \in 1 .. n /\ y \in 1 .. n /\ r[y] = 0
        /\ r \in Row /\ s \in Row /\ n \in Nat
        /\ \A j \in 1 .. n : j # y => s[j] = r[j]
    BY DEF FilledOne, Board
  <1>2. \A i \in 1 .. n : i # x => new[i] = b[i]
    <2>. TAKE i \in 1 .. n
    <2>1. new[i] = [j \in 1 .. n |-> new[i][j]] /\ b[i] = [j \in 1 .. n |-> b[i][j]]
      BY <1>1 DEF Board
    <2>2. i # x => \A j \in 1 .. n : new[i][j] = b[i][j]
      BY DEF FilledOne
    <2>. QED
      BY <2>1, <2>2
  <1>3. /\ Total(b) = SumTo(n, p) /\ p \in Row /\ Total(new) = SumTo(n, q) /\ q \in Row
        /\ Total(b) \in Nat /\ Total(new) \in Nat
    BY <1>1, TotalIs
  <1>4. p[x] = A /\ q[x] = B /\ \A i \in 1 .. n : i # x => q[i] = p[i]
    BY <1>1, <1>2
  <1>. HIDE DEF p, q, r, s
  <1>5. A + s[y] = B + r[y]
    BY <1>1, SumChanges, SMTT(30)
  <1>6. SumTo(n, p) + q[x] = SumTo(n, q) + p[x]
    <2>1. n \in Nat /\ p \in [1 .. n -> Nat] /\ q \in [1 .. n -> Nat] /\ x \in 1 .. n
      BY <1>1, <1>3
    <2>2. \A i \in 1 .. n : i # x => q[i] = p[i]
      BY <1>4
    <2>. QED
      BY <2>1, <2>2, SumChanges
  <1>7. A \in Nat /\ B \in Nat /\ s[y] \in Nat
    BY <1>1, SumType
  <1>. DEFINE P == Total(b)  Q == Total(new)  v == s[y]
  <1>8. P \in Nat /\ Q \in Nat /\ v \in Nat /\ A + v = B + 0 /\ P + B = Q + A
    BY <1>1, <1>3, <1>4, <1>5, <1>6, <1>7, Zenon
  <1>. HIDE DEF A, B, P, Q, v
  <1>9. Q = P + v
    BY <1>7, <1>8
  <1>. QED
    BY <1>9 DEF P, Q, v, s

(* A new tile: the sum grows by it, and by 4 what the tiles are worth if   *)
(* it is a 4, for which nothing was scored.                                *)
Grew(b, new, tile) ==
  /\ Total(new) = Total(b) + tile
  /\ TotalWorth(new) = TotalWorth(b) + (IF tile = 4 THEN 4 ELSE 0)
  /\ new \in Board /\ AllTiles(new)
LEMMA FilledGrows ==
  ASSUME NEW b \in Board, AllTiles(b), NEW new, Filled(b, new)
  PROVE  \E tile \in {2, 4} : Grew(b, new, tile)
  <1>0. new \in Board
    BY FilledBoard
  <1>1. PICK c \in Blank(b), tile \in {2, 4} :
          new = [b EXCEPT ![c[1]] = [b[c[1]] EXCEPT ![c[2]] = tile]]
    BY DEF Filled
  <1>. DEFINE x == c[1]  y == c[2]  line == [b[x] EXCEPT ![y] = tile]
  <1>2. x \in 1 .. n /\ y \in 1 .. n /\ b[x][y] = 0
    BY DEF Blank, Cell
  <1>3. new = [b EXCEPT ![x] = line]
    BY <1>1
  <1>. HIDE DEF x, y
  <1>4. \A i \in 1 .. n : b[i] \in Row
    BY DEF Board
  <1>5. /\ line \in Row /\ line[y] = tile
        /\ \A j \in 1 .. n : j # y => line[j] = b[x][j]
    BY <1>2, <1>4
  <1>. HIDE DEF line
  <1>6. new[x] = line /\ \A i \in 1 .. n : i # x => new[i] = b[i]
    BY <1>2, <1>3 DEF Board
  <1>7. \A i, j \in 1 .. n : ~ (i = x /\ j = y) => new[i][j] = b[i][j]
    BY <1>5, <1>6
  <1>8. Total(new) = Total(b) + tile
    <2>1. FilledOne(b, new, x, y)
      BY <1>0, <1>2, <1>7 DEF FilledOne
    <2>2. new[x][y] = tile
      BY <1>5, <1>6
    <2>. QED
      BY <2>1, <2>2, FilledAdds
  <1>9. TotalWorth(new) = TotalWorth(b) + (IF tile = 4 THEN 4 ELSE 0)
    <2>. DEFINE V == Worthy(new)  W == Worthy(b)
    <2>1. /\ V \in Board /\ \A i, j \in 1 .. n : V[i][j] = Worth[new[i][j]]
          /\ W \in Board /\ \A i, j \in 1 .. n : W[i][j] = Worth[b[i][j]]
      BY <1>0, WorthyType
    <2>. HIDE DEF V, W
    <2>2. FilledOne(W, V, x, y)
      <3>1. W[x][y] = 0
        BY <1>2, <2>1, WorthOfTwo
      <3>2. \A i, j \in 1 .. n : ~ (i = x /\ j = y) => V[i][j] = W[i][j]
        BY <1>7, <2>1
      <3>. QED
        BY <1>2, <2>1, <3>1, <3>2 DEF FilledOne
    <2>3. V[x][y] = Worth[tile]
      BY <1>2, <1>5, <1>6, <2>1
    <2>4. Worth[tile] = IF tile = 4 THEN 4 ELSE 0
      BY WorthOfTwo
    <2>5. Total(V) = Total(W) + Worth[tile]
      BY <2>2, <2>3, FilledAdds
    <2>. QED
      BY <2>4, <2>5 DEF TotalWorth, V, W
  <1>10. AllTiles(new)
    <2>1. ASSUME NEW i \in 1 .. n, NEW j \in 1 .. n PROVE Proper(new[i][j])
      <3>1. CASE i = x /\ j = y
        BY <1>5, <1>6, <3>1, ProperTiles
      <3>2. CASE ~ (i = x /\ j = y)
        <4>1. Proper(b[i][j])
          BY DEF AllTiles, Tiles
        <4>. QED
          BY <1>7, <3>2, <4>1
      <3>. QED
        BY <3>1, <3>2
    <2>. QED
      BY <2>1 DEF AllTiles, Tiles
  <1>. QED
    BY <1>0, <1>8, <1>9, <1>10 DEF Grew

LEMMA KeptGrows ==
  ASSUME NEW b \in Board, AllTiles(b)
  PROVE  \E tile \in {0} : Grew(b, b, tile)
  <1>1. Total(b) \in Nat /\ TotalWorth(b) \in Nat
    BY TotalIs, WorthyType
  <1>. DEFINE none == 0
  <1>2. /\ Total(b) = Total(b) + none
        /\ TotalWorth(b) = TotalWorth(b) + (IF none = 4 THEN 4 ELSE 0)
    BY <1>1
  <1>3. none \in {0}
    OBVIOUS
  <1>. HIDE DEF none
  <1>4. Grew(b, b, none)
    BY <1>2 DEF Grew
  <1>. QED
    BY <1>3, <1>4

(* score and the board: of what the tiles are worth, 4 was not scored for  *)
(* each of them that came as a 4.                                          *)
Accounts(b, points) ==
  /\ b \in Board /\ AllTiles(b) /\ points \in Nat
  /\ \E fours \in Nat : 4 * fours <= Total(b) /\ points + 4 * fours = TotalWorth(b)

LEMMA PlacedAccounts ==
  ASSUME NEW b, NEW points, Accounts(b, points), NEW num, NEW new \in Placed(b, num)
  PROVE  Accounts(new, points)
  <1>1. b \in Board /\ AllTiles(b) /\ points \in Nat
    BY DEF Accounts
  <1>2. PICK fours \in Nat : 4 * fours <= Total(b) /\ points + 4 * fours = TotalWorth(b)
    BY DEF Accounts
  <1>3. PICK tile \in {0, 2, 4} : Grew(b, new, tile)
    BY <1>1, PlacedIs, FilledGrows, KeptGrows
  <1>. DEFINE S == Total(b)  T == Total(new)  W == TotalWorth(b)  V == TotalWorth(new)
              k == IF tile = 4 THEN fours + 1 ELSE fours
  <1>4. /\ S \in Nat /\ W \in Nat /\ T = S + tile
        /\ V = W + (IF tile = 4 THEN 4 ELSE 0)
    BY <1>1, <1>3, TotalIs, WorthyType DEF Grew
  <1>5. 4 * fours <= S /\ points + 4 * fours = W
    BY <1>2
  <1>. HIDE DEF S, T, W, V
  <1>6. k \in Nat /\ 4 * k <= T /\ points + 4 * k = V
    BY <1>1, <1>4, <1>5
  <1>. HIDE DEF k
  <1>7. \E f \in Nat : 4 * f <= Total(new) /\ points + 4 * f = TotalWorth(new)
    BY <1>6 DEF T, V
  <1>8. new \in Board /\ AllTiles(new)
    BY <1>3 DEF Grew
  <1>. QED
    BY <1>1, <1>7, <1>8 DEF Accounts

LEMMA SpawnedAccounts ==
  ASSUME NEW b, NEW points, Accounts(b, points), NEW new \in Spawned(b)
  PROVE  Accounts(new, points)
  BY PlacedAccounts DEF Spawned

LEMMA MoveAccounts ==
  ASSUME NEW b, NEW points, Accounts(b, points), NEW d \in Direction
  PROVE  Accounts(Move(b, d).arr, points + Move(b, d).gain)
  <1>. DEFINE m == Move(b, d)
  <1>1. b \in Board /\ AllTiles(b) /\ points \in Nat
    BY DEF Accounts
  <1>2. PICK fours \in Nat : 4 * fours <= Total(b) /\ points + 4 * fours = TotalWorth(b)
    BY DEF Accounts
  <1>3. MovedOn(b, m)
    BY <1>1, MoveAddsUp
  <1>. HIDE DEF m
  <1>4. /\ m.arr \in Board /\ AllTiles(m.arr) /\ m.gain \in Nat
        /\ Total(m.arr) = Total(b) /\ TotalWorth(m.arr) = TotalWorth(b) + m.gain
    BY <1>3 DEF MovedOn
  <1>. DEFINE g == m.gain  V == TotalWorth(m.arr)  W == TotalWorth(b)
  <1>5. g \in Nat /\ W = points + 4 * fours /\ V = W + g
    BY <1>2, <1>4
  <1>. HIDE DEF g, V, W
  <1>6. points + g \in Nat /\ (points + g) + 4 * fours = V
    BY <1>1, <1>5
  <1>7. \E f \in Nat : 4 * f <= Total(m.arr) /\ (points + m.gain) + 4 * f = TotalWorth(m.arr)
    BY <1>2, <1>4, <1>6 DEF g, V
  <1>8. Accounts(m.arr, points + m.gain)
    BY <1>4, <1>6, <1>7 DEF Accounts, g
  <1>. QED
    BY <1>8 DEF m

(* Nothing adds up to nothing.                                             *)
LEMMA NothingTotal ==
  ASSUME NEW o \in Board, \A x, y \in 1 .. n : o[x][y] = 0
  PROVE  Total(o) = 0
  <1>. DEFINE p == [x \in 1 .. n |-> SumTo(n, o[x])]
  <1>1. Total(o) = SumTo(n, p) /\ p \in Row
    BY TotalIs
  <1>2. ASSUME NEW x \in 1 .. n PROVE p[x] = 0
    <2>1. n \in Nat /\ o[x] \in [1 .. n -> Nat] /\ \A y \in 1 .. n : o[x][y] = 0
      BY DEF Board
    <2>2. SumTo(n, o[x]) = 0
      BY <2>1, SumZero
    <2>. QED
      BY <2>2
  <1>. HIDE DEF p
  <1>. QED
    BY <1>1, <1>2, SumZero

LEMMA EmptyAccounts ==
  /\ Empty \in Board /\ \A x, y \in 1 .. n : Empty[x][y] = 0
  /\ Total(Empty) = 0 /\ AllTiles(Empty) /\ Accounts(Empty, 0)
  <1>. DEFINE none == Empty
  <1>1. none \in Board /\ \A x, y \in 1 .. n : none[x][y] = 0
    BY DEF Empty, Board
  <1>. HIDE DEF none
  <1>2. Total(none) = 0
    BY <1>1, NothingTotal
  <1>3. TotalWorth(none) = 0
    <2>. DEFINE w == Worthy(none)
    <2>1. w \in Board /\ \A x, y \in 1 .. n : w[x][y] = 0
      BY <1>1, WorthyType, WorthOfTwo
    <2>. HIDE DEF w
    <2>2. Total(w) = 0
      BY <2>1, NothingTotal
    <2>. QED
      BY <2>2 DEF TotalWorth, w
  <1>4. AllTiles(none)
    BY <1>1, ProperTiles DEF AllTiles, Tiles
  <1>5. Accounts(none, 0)
    <2>1. 0 \in Nat /\ 4 * 0 <= Total(none) /\ 0 + 4 * 0 = TotalWorth(none)
      BY <1>2, <1>3
    <2>. QED
      BY <1>1, <1>4, <2>1 DEF Accounts
  <1>. QED
    BY <1>1, <1>2, <1>4, <1>5 DEF none

LEMMA NewBoardAccounts ==
  ASSUME NEW b \in NewBoard
  PROVE  Accounts(b, 0)
  <1>. DEFINE none == Empty  nil == 0  num == Cardinality(Blank(none))
  <1>1. PICK a \in Placed(none, num) : b \in Placed(a, CountedDown(num))
    BY DEF NewBoard
  <1>. SUFFICES ASSUME Accounts(none, nil) PROVE Accounts(b, nil)
    BY EmptyAccounts
  <1>. HIDE DEF none, nil, num
  <1>2. Accounts(a, nil)
    BY <1>1, PlacedAccounts
  <1>. QED
    BY <1>1, <1>2, PlacedAccounts

(* A game begins with two tiles, or with one on a board of one cell: the   *)
(* cells are counted down by the one that is taken.                        *)
LEMMA NewBoardTotal ==
  ASSUME NEW b \in NewBoard
  PROVE  Total(b) \in IF n = 1 THEN {2, 4} ELSE {4, 6, 8}
  <1>. DEFINE none == Empty  num == Cardinality(Blank(none))
  <1>1. PICK a \in Placed(none, num) : b \in Placed(a, CountedDown(num))
    BY DEF NewBoard
  <1>2. /\ none \in Board /\ AllTiles(none) /\ Total(none) = 0
        /\ \A x, y \in 1 .. n : none[x][y] = 0
    BY EmptyAccounts
  <1>3. Blank(none) = Cell
    <2>1. \A c \in Cell : c[1] \in 1 .. n /\ c[2] \in 1 .. n
      BY DEF Cell
    <2>. QED
      BY <1>2, <2>1 DEF Blank
  <1>4. <<1, 1>> \in Cell /\ (n # 1 => <<1, 2>> \in Cell)
    BY DEF Cell
  <1>. HIDE DEF none
  <1>5. Filled(none, a)
    <2>1. a \in Spawned(none)
      BY <1>1 DEF Spawned
    <2>. QED
      BY <1>3, <1>4, <2>1, SpawnedIs
  <1>6. PICK first \in {2, 4} : Grew(none, a, first)
    BY <1>2, <1>5, FilledGrows
  <1>7. a \in Board /\ AllTiles(a) /\ Total(a) = first
    <2>1. a \in Board /\ AllTiles(a) /\ Total(a) = Total(none) + first
      BY <1>6 DEF Grew
    <2>. QED
      BY <1>2, <2>1
  <1>8. PICK c \in Cell : Blank(a) = Cell \ {c}
    BY <1>2, <1>3, <1>5, FilledBoard
  <1>9. /\ num \in Nat /\ Cardinality(Blank(a)) = CountedDown(num)
        /\ CountedDown(num) \in Nat /\ (CountedDown(num) = 0 <=> Blank(a) = {})
    <2>1. IsFiniteSet(Cell) /\ num = Cardinality(Cell) /\ num \in Nat
      BY <1>3, BlankFinite
    <2>2. Cardinality(Cell \ {c}) = num - 1
      BY <2>1, FS_RemoveElement
    <2>3. CountedDown(num) = num - 1
      BY DEF CountedDown
    <2>4. IsFiniteSet(Blank(a)) /\ Cardinality(Blank(a)) \in Nat
      BY BlankFinite
    <2>5. Cardinality(Blank(a)) = 0 <=> Blank(a) = {}
      BY <2>4, FS_EmptySet
    <2>. HIDE DEF num
    <2>. QED
      BY <1>8, <2>1, <2>2, <2>3, <2>4, <2>5
  <1>10. b \in Spawned(a)
    BY <1>1, <1>9 DEF Spawned
  <1>11. CASE n = 1
    <2>1. \A e \in Cell : e = <<1, 1>>
      BY <1>11 DEF Cell
    <2>2. Blank(a) = {}
      BY <1>4, <1>8, <2>1
    <2>3. b = a
      BY <1>10, <2>2, SpawnedIs
    <2>. QED
      BY <1>7, <1>11, <2>3
  <1>12. CASE n # 1
    <2>1. <<1, 1>> # <<1, 2>>
      OBVIOUS
    <2>2. Blank(a) # {}
      BY <1>4, <1>8, <1>12, <2>1
    <2>3. PICK second \in {2, 4} : Grew(a, b, second)
      BY <1>7, <1>10, <2>2, SpawnedIs, FilledGrows
    <2>4. Total(b) = first + second
      BY <1>7, <2>3 DEF Grew
    <2>5. first + second \in {4, 6, 8}
      OBVIOUS
    <2>. QED
      BY <1>12, <2>4, <2>5
  <1>. QED
    BY <1>11, <1>12

LEMMA RefreshAccounts ==
  ASSUME NEW b, NEW points, Accounts(b, points), Refresh(b, points)
  PROVE  Accounts(arr, score)'
  <1>. DEFINE new == arr'  now == score'
  <1>1. new \in Spawned(b) /\ now = points
    BY DEF Refresh
  <1>. HIDE DEF new, now
  <1>2. Accounts(new, now)
    BY <1>1, SpawnedAccounts
  <1>. QED
    BY <1>2 DEF new, now, Accounts

LEMMA AccountsKept == Accounts(arr, score) /\ [Next]_vars => Accounts(arr, score)'
  <1>. SUFFICES ASSUME Accounts(arr, score), [Next]_vars PROVE Accounts(arr, score)'
    OBVIOUS
  <1>1. CASE UNCHANGED <<arr, score>>
    BY <1>1 DEF Accounts
  <1>2. ASSUME NEW d \in Direction, Slide(d) PROVE Accounts(arr, score)'
    <2>1. CASE ~ Move(arr, d).moved
      BY <1>1, <1>2, <2>1 DEF Slide
    <2>2. CASE Move(arr, d).moved
      <3>1. Refresh(Move(arr, d).arr, score + Move(arr, d).gain)
        BY <1>2, <2>2 DEF Slide
      <3>. QED
        BY <3>1, MoveAccounts, RefreshAccounts
    <2>. QED
      BY <2>1, <2>2
  <1>3. CASE OtherKey
    <2>1. CASE ~ moved
      BY <1>1, <1>3, <2>1 DEF OtherKey
    <2>2. CASE moved
      <3>1. Refresh(arr, score)
        BY <1>3, <2>2 DEF OtherKey
      <3>. QED
        BY <3>1, RefreshAccounts
    <2>. QED
      BY <2>1, <2>2
  <1>4. CASE GameKeyRestart
    <2>. DEFINE new == arr'  now == score'
    <2>1. new \in NewBoard /\ now = 0
      BY <1>4 DEF GameKeyRestart
    <2>. HIDE DEF new, now
    <2>2. Accounts(new, now)
      BY <2>1, NewBoardAccounts
    <2>. QED
      BY <2>2 DEF new, now, Accounts
  <1>5. CASE GameKeyExit
    BY <1>1, <1>5 DEF GameKeyExit
  <1>6. CASE UNCHANGED vars
    BY <1>1, <1>6 DEF vars
  <1>. QED
    BY <1>2, <1>3, <1>4, <1>5, <1>6 DEF Next

LEMMA AccountsStart == Init => Accounts(arr, score)
  BY NewBoardAccounts DEF Init

(* On a board of any size, after any keys: score is what the tiles on the  *)
(* board are worth, less 4 for each that came as a 4 (2048.c:176, 142).    *)
THEOREM ScoreIsAccounted == Spec => []ScoreAccounts
  <1>1. Accounts(arr, score) => ScoreAccounts
    <2>. SUFFICES ASSUME Accounts(arr, score) PROVE ScoreAccounts
      OBVIOUS
    <2>1. arr \in Board /\ score \in Nat
      BY DEF Accounts
    <2>2. PICK fours \in Nat : 4 * fours <= Total(arr) /\ score + 4 * fours = TotalWorth(arr)
      BY DEF Accounts
    <2>. DEFINE S == Total(arr)  W == TotalWorth(arr)
    <2>3. S \in Nat /\ W \in Nat
      BY <2>1, TotalIs, WorthyType
    <2>. HIDE DEF S, W
    <2>4. fours \in 0 .. S \div 4 /\ score = W - 4 * fours
      BY <2>1, <2>2, <2>3 DEF S, W
    <2>. QED
      BY <2>4 DEF ScoreAccounts, S, W
  <1>. QED
    BY <1>1, AccountsStart, AccountsKept, PTL DEF Spec

(* No key loses a tile or makes one, but for the one that comes up.        *)
Adds(b, new) == Total(new) - Total(b) \in IF new = b THEN {0} ELSE {2, 4}
LEMMA SpawnedAdds ==
  ASSUME NEW o \in Board, NEW b \in Board, AllTiles(b), Total(b) = Total(o),
         NEW new \in Spawned(b), b = o \/ Blank(b) # {}
  PROVE  Adds(o, new)
  <1>0. Total(o) \in Nat
    BY TotalIs
  <1>1. CASE Blank(b) = {}
    <2>1. new = o
      BY <1>1, SpawnedIs
    <2>2. Total(o) - Total(o) = 0
      BY <1>0
    <2>. QED
      BY <2>1, <2>2 DEF Adds
  <1>2. CASE Blank(b) # {}
    <2>1. PICK tile \in {2, 4} : Grew(b, new, tile)
      BY <1>2, SpawnedIs, FilledGrows
    <2>. DEFINE S == Total(o)  T == Total(new)
    <2>2. S \in Nat /\ T = S + tile
      BY <1>0, <2>1 DEF Grew
    <2>3. new = o => T = S
      OBVIOUS
    <2>. HIDE DEF S, T
    <2>4. T - S \in {2, 4} /\ T # S
      BY <2>2
    <2>. QED
      BY <2>3, <2>4 DEF Adds, S, T
  <1>. QED
    BY <1>1, <1>2

LEMMA NoneLost ==
  ASSUME Accounts(arr, score), [Next]_vars, ~ GameKeyRestart
  PROVE  Adds(arr, arr')
  <1>0. arr \in Board /\ AllTiles(arr) /\ Total(arr) \in Nat
    BY TotalIs DEF Accounts
  <1>1. CASE UNCHANGED arr
    BY <1>0, <1>1 DEF Adds
  <1>3. ASSUME NEW d \in Direction, Slide(d) PROVE Adds(arr, arr')
    <2>. DEFINE m == Move(arr, d)
    <2>1. CASE ~ m.moved
      BY <1>1, <1>3, <2>1 DEF Slide
    <2>2. CASE m.moved
      <3>1. arr' \in Spawned(m.arr)
        BY <1>3, <2>2 DEF Slide, Refresh
      <3>2. MovedOn(arr, m)
        BY <1>0, MoveAddsUp
      <3>3. Blank(m.arr) # {}
        BY <1>0, <2>2, MoveFrees
      <3>. HIDE DEF m
      <3>4. m.arr \in Board /\ AllTiles(m.arr) /\ Total(m.arr) = Total(arr)
        BY <3>2 DEF MovedOn
      <3>. QED
        BY <1>0, <3>1, <3>3, <3>4, SpawnedAdds
    <2>. QED
      BY <2>1, <2>2
  <1>4. CASE OtherKey
    <2>1. CASE ~ moved
      BY <1>1, <1>4, <2>1 DEF OtherKey
    <2>2. CASE moved
      <3>1. arr' \in Spawned(arr)
        BY <1>4, <2>2 DEF OtherKey, Refresh
      <3>. QED
        BY <1>0, <3>1, SpawnedAdds
    <2>. QED
      BY <2>1, <2>2
  <1>5. CASE GameKeyExit
    BY <1>1, <1>5 DEF GameKeyExit
  <1>6. CASE UNCHANGED vars
    BY <1>1, <1>6 DEF vars
  <1>. QED
    BY <1>3, <1>4, <1>5, <1>6 DEF Next

(* On a board of any size: a key that moves something brings up exactly    *)
(* one tile, since a move leaves an empty cell and the place that is drawn *)
(* is one that is found; and a game begins with two, since the cells are   *)
(* counted down in between (2048.c:123-146).                               *)
THEOREM NoTileLost == Spec => SumGrows
  <1>. DEFINE Sound == IF GameKeyRestart
                         THEN Total(arr') \in IF n = 1 THEN {2, 4} ELSE {4, 6, 8}
                         ELSE Total(arr') - Total(arr) \in IF arr' = arr THEN {0} ELSE {2, 4}
  <1>1. Accounts(arr, score) /\ [Next]_vars => Sound
    <2>. SUFFICES ASSUME Accounts(arr, score), [Next]_vars PROVE Sound
      OBVIOUS
    <2>1. CASE GameKeyRestart
      <3>. DEFINE new == arr'
      <3>1. new \in NewBoard
        BY <2>1 DEF GameKeyRestart
      <3>. HIDE DEF new
      <3>2. Total(new) \in IF n = 1 THEN {2, 4} ELSE {4, 6, 8}
        BY <3>1, NewBoardTotal
      <3>. QED
        BY <2>1, <3>2 DEF new
    <2>2. CASE ~ GameKeyRestart
      BY <2>2, NoneLost DEF Adds
    <2>. QED
      BY <2>1, <2>2
  <1>2. Accounts(arr, score) /\ [Next]_vars => [Sound]_vars
    BY <1>1
  <1>. QED
    BY <1>2, AccountsStart, AccountsKept, PTL DEF Spec, SumGrows

(* Every cell is empty or a power of two, topscore is no less than score,  *)
(* and nothing else is out of range, on a board of any size (2048.c:31-74).*)
THEOREM GameTyped == Spec => []TypeOK
  <1>. DEFINE GType == /\ GInv /\ Accounts(arr, score)
                       /\ topscore \in Nat /\ score <= topscore
                       /\ moved \in BOOLEAN /\ on \in BOOLEAN
  <1>1. GType => TypeOK
    <2>. SUFFICES ASSUME GType PROVE TypeOK
      OBVIOUS
    <2>1. /\ arr \in Board /\ AllTiles(arr) /\ score \in 0 .. topscore
          /\ gameoverflag \in BOOLEAN
      BY DEF GInv, Accounts
    <2>2. ASSUME NEW c \in Cell, arr[c[1]][c[2]] # 0 PROVE PowerOfTwo(arr[c[1]][c[2]])
      <3>1. c[1] \in 1 .. n /\ c[2] \in 1 .. n
        BY DEF Cell
      <3>2. Proper(arr[c[1]][c[2]])
        BY <2>1, <3>1 DEF AllTiles, Tiles
      <3>. QED
        BY <2>2, <3>2 DEF Proper
    <2>3. arr \in [1 .. n -> [1 .. n -> Nat]]
      BY <2>1 DEF Board
    <2>. QED
      BY <2>1, <2>2, <2>3 DEF TypeOK
  <1>2. Init => GType
    BY GameStarts, AccountsStart DEF Init
  <1>3. GType /\ [Next]_vars => GType'
    <2>. SUFFICES ASSUME GType, [Next]_vars PROVE GType'
      OBVIOUS
    <2>1. GInv' /\ Accounts(arr, score)'
      BY GameKept, AccountsKept
    <2>2. score \in Nat /\ topscore \in Nat /\ score <= topscore /\ moved \in BOOLEAN /\ on \in BOOLEAN
      BY DEF Accounts
    <2>. SUFFICES /\ topscore' \in Nat /\ score' <= topscore'
                  /\ moved' \in BOOLEAN /\ on' \in BOOLEAN
      BY <2>1
    <2>3. ASSUME NEW b, NEW points \in Nat, Refresh(b, points)
          PROVE  topscore' \in Nat /\ score' <= topscore'
      BY <2>2, <2>3 DEF Refresh
    <2>4. ASSUME NEW d \in Direction, Slide(d)
          PROVE  /\ topscore' \in Nat /\ score' <= topscore'
                 /\ moved' \in BOOLEAN /\ on' \in BOOLEAN
      <3>. DEFINE m == Move(arr, d)
      <3>1. moved' = m.moved /\ on' = on
        BY <2>4 DEF Slide
      <3>2. m.moved \in BOOLEAN
        BY DEF Move
      <3>3. CASE ~ m.moved
        BY <2>2, <2>4, <3>1, <3>2, <3>3 DEF Slide
      <3>4. CASE m.moved
        <4>1. Refresh(m.arr, score + m.gain)
          BY <2>4, <3>4 DEF Slide
        <4>2. score + m.gain \in Nat
          BY MoveAccounts DEF Accounts
        <4>. QED
          BY <2>2, <2>3, <3>1, <3>2, <4>1, <4>2
      <3>. QED
        BY <3>3, <3>4
    <2>5. CASE OtherKey
      <3>1. CASE ~ moved
        BY <2>2, <2>5, <3>1 DEF OtherKey
      <3>2. CASE moved
        BY <2>2, <2>3, <2>5, <3>2 DEF OtherKey
      <3>. QED
        BY <3>1, <3>2
    <2>6. CASE GameKeyRestart
      BY <2>2, <2>6 DEF GameKeyRestart
    <2>7. CASE GameKeyExit
      BY <2>2, <2>7 DEF GameKeyExit
    <2>8. CASE UNCHANGED vars
      BY <2>2, <2>8 DEF vars
    <2>. QED
      BY <2>4, <2>5, <2>6, <2>7, <2>8 DEF Next
  <1>. QED
    BY <1>1, <1>2, <1>3, PTL DEF Spec
=============================================================================
