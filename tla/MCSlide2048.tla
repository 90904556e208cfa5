---------------------------- MODULE MCSlide2048 -----------------------------
(* Slide2048 for every row of a few small tiles.                           *)
EXTENDS Slide2048
=============================================================================
