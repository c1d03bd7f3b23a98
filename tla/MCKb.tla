-------------------------------- MODULE MCKb --------------------------------
(* KbIngestion on a small instance. *)
EXTENDS KbIngestion, TLC

CONSTANTS d1, d2, d3, w1, w2

\* Document ids and worker processes are not ordered.
KbSymmetry == Permutations(Docs) \cup Permutations(Workers)
=============================================================================
