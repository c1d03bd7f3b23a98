SPECIFICATION Spec
CONSTANTS
  d1 = d1
  d2 = d2
  d3 = d3
  w1 = w1
  w2 = w2
  Docs = {d1}
  NoDoc = NoDoc
  MaxDocuments = 2
  MaxRetries = 1
  LeaseTime = 1
  MaxVersions = 3
  MaxCalls = 2
  Cleaned = {1}
  Workers = {w1, w2}
SYMMETRY KbSymmetry
CHECK_DEADLOCK FALSE
INVARIANT ActiveIsSearchable
INVARIANT CitationsKept
PROPERTY NothingComesBack
