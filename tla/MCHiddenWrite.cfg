SPECIFICATION Spec
CONSTANTS
  o1 = o1
  o2 = o2
  o3 = o3
  Owners = {o1, o2}
  NoOwner = NoOwner
  LeaseTime = 1
  NumWrites = 2
  Gated = {}
  Recoverable = {1, 2}
  ApprovalTime = 1
SYMMETRY OwnerSymmetry
CHECK_DEADLOCK FALSE
INVARIANT UncertainNeverSucceeds
