SPECIFICATION Spec
CONSTANTS
  d1 = d1
  d2 = d2
  d3 = d3
  w1 = w1
  w2 = w2
  Docs = {d1, d2, d3}
  NoDoc = NoDoc
  MaxDocuments = 2
  MaxRetries = 0
  LeaseTime = 1
  MaxVersions = 3
  MaxCalls = 1
  Cleaned = {}
  Workers = {w1}
SYMMETRY KbSymmetry
CHECK_DEADLOCK FALSE
INVARIANT OneBuild
INVARIANT PendingIsDesired
INVARIANT OneSuccessor
INVARIANT DocumentsTell
PROPERTY ImplementsCatalog
