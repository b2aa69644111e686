SPECIFICATION FairSpec
CONSTANTS
  p1 = p1
  p2 = p2
  p3 = p3
  Clients = {c1, c2}
  Hosts = {w}
  Batches <- MCBatches
  Rank <- MCRank
  Decide <- MCDecide
  MaxPairs = 6
  MaxHostCalls = 1
  MaxFaults = 1
  MaxLosses = 0
PROPERTIES
  Settles
CHECK_DEADLOCK FALSE
