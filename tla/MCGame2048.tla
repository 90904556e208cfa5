---------------------------- MODULE MCGame2048 ------------------------------
(* Game2048 on small boards; a 2 x 2 board has no tile above 32.           *)
EXTENDS Game2048
=============================================================================
