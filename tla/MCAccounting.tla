---------------------------- MODULE MCAccounting ----------------------------
(* Accounting on a small instance. *)
EXTENDS Accounting, TLC

CONSTANTS o1, o2, q, l, w

\* Claim owners are random identifiers.
AccountingSymmetry == Permutations(Owners)
=============================================================================
