----------------------------- MODULE Slide2048 ------------------------------
(* The loop of Row2048 step by step, from every row of tiles.              *)
EXTENDS Row2048

CONSTANT
  Tile    \* BOUND: the tiles in the rows the loop starts from

ASSUME TileAssumption == Tile \subseteq Nat \ {0}

VARIABLES
  start,  \* the row before the loop
  loop    \* the state of the loop

runVars == <<start, loop>>

LoopOK ==
  /\ start \in Row
  /\ loop \in [row : Row, k : 1 .. n, x : 1 .. n + 1, gain : Nat, moved : BOOLEAN]

RunInit ==
  /\ start \in [1 .. n -> Tile \cup {0}]
  /\ loop = Begin(start)

RunNext ==
  /\ Running(loop)
  /\ loop' = Body(loop)
  /\ UNCHANGED start

RunSpec == RunInit /\ [][RunNext]_runVars

\* The loop is sequential code: it goes on as long as its condition holds.
RunFairSpec == RunSpec /\ WF_runVars(RunNext)

-----------------------------------------------------------------------------
(* Properties.                                                             *)

(* The cell being filled stays behind the one being looked at, so that no *)
(* tile is merged with itself (2048.c:173-183).                            *)
NeverMeets == loop.k < loop.x

(* While it runs: the cells between k and x are empty, so that nothing is  *)
(* slid past or over a tile (2048.c:166-188).                              *)
GapEmpty == \A i \in 1 .. n : loop.k < i /\ i < loop.x => loop.row[i] = 0

(* When it has ended, the row and the score are what the rule of the game  *)
(* says, and moved tells whether the row has changed.                      *)
FollowsRule ==
  ~ Running(loop) =>
    /\ loop.row = Padded(Ruled(start).tiles)
    /\ loop.gain = Ruled(start).gain
    /\ loop.moved = (loop.row # start)

(* The loop ends.                                                          *)
Terminates == <>(~ Running(loop))
=============================================================================
