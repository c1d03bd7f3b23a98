SPECIFICATION Spec
CONSTANTS
  o1 = o1
  o2 = o2
  o3 = o3
  Owners = {o1, o2}
  NoOwner = NoOwner
  LeaseTime = 1
  NumWrites = 3
  Gated = {1, 2}
  Recoverable = {1}
  ApprovalTime = 1
SYMMETRY OwnerSymmetry
CHECK_DEADLOCK FALSE
INVARIANT WaitsForADecision
INVARIANT SentAtMostOnce
INVARIANT OutcomeOnRecord
INVARIANT SentOnlyApproved
INVARIANT UncertainNeverSucceeds
PROPERTY UncertainStaysEnded
PROPERTY ImplementsWriteOnce
