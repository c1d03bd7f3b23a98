SPECIFICATION FairSpec
CONSTANTS
  d1 = d1
  d2 = d2
  d3 = d3
  w1 = w1
  w2 = w2
  Docs = {}
  NoDoc = NoDoc
  MaxDocuments = 2
  MaxRetries = 0
  LeaseTime = 1
  MaxVersions = 2
  MaxCalls = 2
  Cleaned = {1}
  Workers = {w1}
CHECK_DEADLOCK FALSE
PROPERTY DataIsReleased
