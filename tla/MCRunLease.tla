----------------------------- MODULE MCRunLease -----------------------------
(* RunLease on a small instance. *)
EXTENDS RunLease, TLC

CONSTANTS o1, o2, o3, n1, n2

\* Claim owners are random identifiers, and nothing orders the nodes.
OwnerSymmetry == Permutations(Owners)
=============================================================================
