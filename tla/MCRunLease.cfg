SPECIFICATION Spec
CONSTANTS
  o1 = o1
  o2 = o2
  o3 = o3
  n1 = n1
  n2 = n2
  Owners = {o1, o2, o3}
  NoOwner = NoOwner
  LeaseTime = 1
  Nodes = {n1, n2}
  Recoverable = {n2}
SYMMETRY OwnerSymmetry
CHECK_DEADLOCK FALSE
INVARIANT CancelledOnRequestOnly
INVARIANT NoResultMissed
INVARIANT CancelWins
PROPERTY ImplementsLifecycle
