----------------------------- MODULE Game2048 -------------------------------
(***************************************************************************)
(* The game of 2048.c: main(), update2048(), check2048() and what          *)
(* print2048() keeps.  One action per key; a key is handled from getch()   *)
(* to the next getch().  The loop that slides one row is in Row2048.       *)
(***************************************************************************)
EXTENDS Row2048

CONSTANT
  MaxRematch  \* BOUND: the best score up to which another game is started

ASSUME MaxRematchAssumption == MaxRematch \in Nat

VARIABLES
  arr,              \* arr[x][y]: the tile of column x and line y, 0 if empty
  score, topscore,
  gameoverflag,
  moved,            \* main()'s, which no restart resets
  on                \* FALSE once main() has returned

vars == <<arr, score, topscore, gameoverflag, moved, on>>

SumOf(s) ==
  LET sum[i \in 0 .. n] == IF i = 0 THEN 0 ELSE sum[i - 1] + s[i] IN sum[n]

Cell == (1 .. n) \X (1 .. n)
Direction == {"left", "right", "up", "down"}

-----------------------------------------------------------------------------
(* move_left_right() and move_up_down().                                   *)

\* Line i of the board, from the side its tiles slide to, and back.
LineOf(b, d, i) ==
  CASE d = "left"  -> [j \in 1 .. n |-> b[j][i]]
    [] d = "right" -> [j \in 1 .. n |-> b[n + 1 - j][i]]
    [] d = "up"    -> b[i]
    [] d = "down"  -> Reverse(b[i])

BoardOf(rows, d) ==
  CASE d = "left"  -> [x \in 1 .. n |-> [y \in 1 .. n |-> rows[y][x]]]
    [] d = "right" -> [x \in 1 .. n |-> [y \in 1 .. n |-> rows[y][n + 1 - x]]]
    [] d = "up"    -> rows
    [] d = "down"  -> [x \in 1 .. n |-> Reverse(rows[x])]

\* The lines one after the other, and what they add to score.
Lines(b, d) ==
  LET done[i \in 0 .. n] ==
        IF i = 0 THEN <<>> ELSE Append(done[i - 1], Slid(LineOf(b, d, i)))
  IN done[n]
Points(slid) == SumOf([i \in 1 .. n |-> slid[i].gain])

Move(b, d) ==
  LET slid == Lines(b, d) IN
  [arr   |-> BoardOf([i \in 1 .. n |-> slid[i].row], d),
   gain  |-> Points(slid),
   moved |-> \E i \in 1 .. n : slid[i].moved]

-----------------------------------------------------------------------------
(* update2048(): the boards that one round of its loop can make of b, with *)
(* num empty cells by its count.                                           *)
Blank(b) == {c \in Cell : b[c[1]][c[2]] = 0}
Put(b, c, tile) == [b EXCEPT ![c[1]][c[2]] = tile]

\* The empty cells that it passes on its way to c, which it counts in i, and
\* where it finds i equal to position.
Passed(b, c) ==
  {e \in Blank(b) : e[1] < c[1] \/ (e[1] = c[1] /\ e[2] < c[2])}
At(b, position) == {c \in Blank(b) : Cardinality(Passed(b, c)) = position}

Placed(b, num) ==
  IF num <= 0 THEN {b}
  ELSE UNION {IF At(b, position) = {} THEN {b}
              ELSE {Put(b, c, tile) : c \in At(b, position), tile \in {2, 4}} :
                position \in 0 .. num - 1}

\* update2048(arr, n, 1).
Spawned(b) == Placed(b, Cardinality(Blank(b)))

\* `num--` after a round, since the cells are not counted again.  Uncounted: it
\* is forgotten.
Uncounted(num) == num
CountedDown(num) == num - 1

\* check2048() returns without setting the flag.  BlankOnly: it does not look
\* for equal neighbours.
BlankOnly(b) == Blank(b) # {}
CanGoOn(b) ==
  \E c \in Cell : LET x == c[1] y == c[2] IN
    \/ b[x][y] = 0
    \/ x + 1 <= n /\ b[x + 1][y] = b[x][y]
    \/ y + 1 <= n /\ b[x][y + 1] = b[x][y]

-----------------------------------------------------------------------------
(* LABEL_RESTART up to the first getch(): an empty board, and              *)
(* update2048(arr, n, 2).                                                  *)
Empty == [x \in 1 .. n |-> [y \in 1 .. n |-> 0]]
NewBoard ==
  LET num == Cardinality(Blank(Empty))
  IN UNION {Placed(b, CountedDown(num)) : b \in Placed(Empty, num)}

\* moved is not initialised: whatever the stack holds.
Init ==
  /\ arr \in NewBoard
  /\ score = 0 /\ topscore = 0 /\ gameoverflag = FALSE
  /\ moved \in BOOLEAN
  /\ on = TRUE

\* `if (moved)`: update2048(), check2048() and print2048().
Refresh(b, points) ==
  /\ arr' \in Spawned(b)
  /\ gameoverflag' = (gameoverflag \/ ~ CanGoOn(arr'))
  /\ score' = points
  /\ topscore' = IF points > topscore THEN points ELSE topscore

\* A key of the four directions.
Slide(d) ==
  LET m == Move(arr, d) IN
  /\ on
  /\ moved' = m.moved
  /\ IF m.moved THEN Refresh(m.arr, score + m.gain)
     ELSE UNCHANGED <<arr, score, topscore, gameoverflag>>
  /\ UNCHANGED on

\* Any other key (a resized window is one, too) leaves moved as it is.
OtherKey ==
  /\ on
  /\ IF moved THEN Refresh(arr, score)
     ELSE UNCHANGED <<arr, score, topscore, gameoverflag>>
  /\ UNCHANGED <<moved, on>>

GameKeyRestart ==
  /\ on /\ topscore <= MaxRematch
  /\ arr' \in NewBoard
  /\ score' = 0 /\ gameoverflag' = FALSE
  /\ UNCHANGED <<topscore, moved, on>>

GameKeyExit ==
  /\ on /\ on' = FALSE
  /\ UNCHANGED <<arr, score, topscore, gameoverflag, moved>>

Next ==
  \/ \E d \in Direction : Slide(d)
  \/ OtherKey \/ GameKeyRestart \/ GameKeyExit

Spec == Init /\ [][Next]_vars

-----------------------------------------------------------------------------
(* Properties.                                                             *)

Total(b) == SumOf([x \in 1 .. n |-> SumOf(b[x])])

\* What the merges that make a tile of 2s score: 0 for 2, 4 for 4, 16 for 8...
\* A tile is a power of two, so this is tile * (log2(tile) - 1).
Worth[tile \in Nat] ==
  IF tile < 4 THEN 0 ELSE tile + 2 * Worth[tile \div 2]
Worthy(b) == [x \in 1 .. n |-> [y \in 1 .. n |-> Worth[b[x][y]]]]
TotalWorth(b) == Total(Worthy(b))

(* Every cell is empty or a power of two, and topscore is that of the best *)
(* game so far, this one included.                                         *)
Power(k) ==
  LET power[i \in 0 .. k] == IF i = 0 THEN 1 ELSE 2 * power[i - 1] IN power[k]
PowerOfTwo(t) == \E k \in 1 .. t : t = Power(k)
TypeOK ==
  /\ arr \in [1 .. n -> [1 .. n -> Nat]]
  /\ \A c \in Cell : arr[c[1]][c[2]] # 0 => PowerOfTwo(arr[c[1]][c[2]])
  /\ score \in 0 .. topscore
  /\ gameoverflag \in BOOLEAN /\ moved \in BOOLEAN /\ on \in BOOLEAN

(* score is what was earned for the tiles on the board: what they are      *)
(* worth, less 4 for each that came as a 4, of which there are at most as  *)
(* many as the board adds up to (2048.c:176, 142).                         *)
ScoreAccounts ==
  \E fours \in 0 .. Total(arr) \div 4 : score = TotalWorth(arr) - 4 * fours

(* No tile is lost or made by a key, and one comes up for each that        *)
(* changes anything; a game begins with two, if there is room.  The place  *)
(* update2048() draws is one that it finds, although it counts the empty   *)
(* cells only once (2048.c:123-238).                                       *)
SumGrows ==
  [][IF GameKeyRestart
       THEN Total(arr') \in IF n = 1 THEN {2, 4} ELSE {4, 6, 8}
       ELSE Total(arr') - Total(arr) \in IF arr' = arr THEN {0} ELSE {2, 4}]_vars

(* GAME OVER is shown exactly when no direction key would move anything:   *)
(* check2048() agrees with the code that moves, at every key (2048.c:110). *)
GameOverRight ==
  n > 1 => gameoverflag = (\A d \in Direction : ~ Move(arr, d).moved)
=============================================================================
