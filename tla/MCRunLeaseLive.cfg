SPECIFICATION FairSpec
CONSTANTS
  o1 = o1
  o2 = o2
  n1 = n1
  n2 = n2
  Owners = {o1, o2, o3}
  o3 = o3
  NoOwner = NoOwner
  LeaseTime = 2
  Nodes = {n1}
  Recoverable = {}
CHECK_DEADLOCK FALSE
PROPERTY EventuallyEnds
