----------------------------- MODULE MCPageWalk -----------------------------
(* The small instance of PageWalk for TLC.                                 *)
EXTENDS PageWalk

RowSymmetry == Permutations(Rows)
=============================================================================
