--------------------------- MODULE MCServerLifecycle -------------------------
(* The small instance of ServerLifecycle for TLC.                          *)
EXTENDS ServerLifecycle, TLC

RequestSymmetry == Permutations(Requests)
=============================================================================
