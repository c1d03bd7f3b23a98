SPECIFICATION Spec
CONSTANTS
  o1 = o1
  o2 = o2
  o3 = o3
  Owners = {o1, o2}
  NoOwner = NoOwner
  LeaseTime = 1
  NumWrites = 2
  Gated = {1}
  Recoverable = {1}
  ApprovalTime = 1
CHECK_DEADLOCK FALSE
PROPERTY SuccessStands
