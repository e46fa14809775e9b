--------------------------- MODULE MCHttpExchange ---------------------------
(* Instances of HttpExchange for TLC.                                      *)
EXTENDS HttpExchange, TLC

TaskSymmetry == Permutations(Tasks)
=============================================================================
