SPECIFICATION Spec
CONSTANTS
  o1 = o1
  o2 = o2
  q = q
  l = l
  w = w
  Owners = {o1, o2}
  Queries = {q}
  Models = {l}
  Gated = w
  Ceiling = 2
  Limit = 2
  Retried = {q}
SYMMETRY AccountingSymmetry
CHECK_DEADLOCK FALSE
INVARIANT ActionsPaidFirst
INVARIANT ChargedOnce
INVARIANT OvershootBounded
PROPERTY RequestsOnRecord
