SPECIFICATION Spec
CONSTANTS
  p1 = p1
  p2 = p2
  p3 = p3
  Clients = {c1, c2}
  Hosts = {w}
  Batches <- MCBatches
  Rank <- MCRank
  Decide <- MCDecide
  MaxPairs = 4
  MaxHostCalls = 1
  MaxFaults = 2
  MaxLosses = 1
INVARIANTS
  TypeOK
  RetriesIdempotent
PROPERTIES
  AnswerTrue
  ConflictHasCause
CHECK_DEADLOCK FALSE
