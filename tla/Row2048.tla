------------------------------ MODULE Row2048 -------------------------------
(***************************************************************************)
(* The loop that move_left_right() and move_up_down() of 2048.c run on     *)
(* every row or column.  Cells are counted from the side the tiles slide   *)
(* to (delta), so that the four directions are one loop: k is the cell     *)
(* being filled and x the cell being looked at.                            *)
(***************************************************************************)
EXTENDS Integers, SequencesExt

CONSTANT n  \* cells of a row, and rows of the board

ASSUME nAssumption == n \in Nat \ {0}

Row == [1 .. n -> Nat]

\* The state of the loop: gain is what it adds to score.
Begin(row) == [row |-> row, k |-> 1, x |-> 2, gain |-> 0, moved |-> FALSE]
Running(t) == t.x <= Len(t.row)

\* The branches of its body.  Stuck: `x += delta` is forgotten.
Stuck(t) == t
Skip(t) == [t EXCEPT !.x = @ + 1]

\* The cell k is empty: the tile slides there.  Copied: it is not taken away
\* from x.
Copied(t) ==
  [t EXCEPT !.row = [@ EXCEPT ![t.k] = t.row[t.x]], !.x = @ + 1, !.moved = TRUE]
SlideTile(t) ==
  [row |-> [t.row EXCEPT ![t.k] = t.row[t.x], ![t.x] = 0],
   k |-> t.k, x |-> t.x + 1, gain |-> t.gain, moved |-> TRUE]

\* Both tiles are equal: they become one, and the cell behind it is next.
Merged(t) == t.row[t.k] + t.row[t.x]
MergeTiles(t) ==
  [row |-> [t.row EXCEPT ![t.k] = Merged(t), ![t.x] = 0],
   k |-> t.k + 1, x |-> t.x + 1, gain |-> t.gain + Merged(t), moved |-> TRUE]

\* They differ: the cell behind k is next.  Stay: x stays when k meets it.
Stay(t) == [t EXCEPT !.k = @ + 1]
PassTile(t) ==
  [row |-> t.row, k |-> t.k + 1, x |-> IF t.k + 1 = t.x THEN t.x + 1 ELSE t.x,
   gain |-> t.gain, moved |-> t.moved]

\* MergeOn: k stays, so that the merged tile merges again.  Unscored: the score
\* is forgotten.
WhenEqual(t, merged) ==
  IF t.row[t.x] = 0 THEN Skip(t)
  ELSE IF t.row[t.k] = 0 THEN SlideTile(t)
  ELSE IF t.row[t.k] = t.row[t.x] THEN merged
  ELSE PassTile(t)
MergeOn(t) == WhenEqual(t, [MergeTiles(t) EXCEPT !.k = t.k])
Unscored(t) == WhenEqual(t, [MergeTiles(t) EXCEPT !.gain = t.gain])
Body(t) ==
  IF t.row[t.x] = 0 THEN Skip(t)
  ELSE IF t.row[t.k] = 0 THEN SlideTile(t)
  ELSE IF t.row[t.k] = t.row[t.x] THEN MergeTiles(t)
  ELSE PassTile(t)

\* The loop as a whole; x or k grows in every iteration, and k stays behind x.
Slid(row) ==
  LET after[i \in 0 .. 2 * Len(row)] ==
        IF i = 0 THEN Begin(row)
        ELSE LET t == after[i - 1] IN IF Running(t) THEN Body(t) ELSE t
  IN after[2 * Len(row)]

-----------------------------------------------------------------------------
(* The rule of the game, without cells: the tiles of the row in order,     *)
(* where a tile joins the one before it if they are equal and that one has *)
(* not been joined to in this move.                                        *)
Join(r, tile) ==
  IF r.free /\ r.tiles # <<>> /\ Last(r.tiles) = tile
    THEN [tiles |-> Append(Front(r.tiles), 2 * tile), free |-> FALSE,
          gain |-> r.gain + 2 * tile]
    ELSE [tiles |-> Append(r.tiles, tile), free |-> TRUE, gain |-> r.gain]

Joined(row) ==
  LET joined[i \in 0 .. Len(row)] ==
        IF i = 0 THEN [tiles |-> <<>>, free |-> FALSE, gain |-> 0]
        ELSE IF row[i] = 0 THEN joined[i - 1]
        ELSE Join(joined[i - 1], row[i])
  IN joined
Ruled(row) == Joined(row)[Len(row)]

Padded(tiles) == [i \in 1 .. n |-> IF i <= Len(tiles) THEN tiles[i] ELSE 0]
=============================================================================
