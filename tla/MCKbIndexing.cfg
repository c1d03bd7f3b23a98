SPECIFICATION FairSpec
CONSTANTS
  d1 = d1
  d2 = d2
  d3 = d3
  w1 = w1
  w2 = w2
  Docs = {d1}
  NoDoc = NoDoc
  MaxDocuments = 2
  MaxRetries = 1
  LeaseTime = 1
  MaxVersions = 3
  MaxCalls = 1
  Cleaned = {}
  Workers = {w1}
CHECK_DEADLOCK FALSE
PROPERTY IndexingEnds
