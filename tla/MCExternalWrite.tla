--------------------------- MODULE MCExternalWrite --------------------------
(* ExternalWrite on small instances. *)
EXTENDS ExternalWrite, TLC

CONSTANTS o1, o2, o3

OwnerSymmetry == Permutations(Owners)
=============================================================================
