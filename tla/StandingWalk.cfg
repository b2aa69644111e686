SPECIFICATION FairSpec
CONSTANTS
  MaxCandidates = 4
  MaxRetracted = 1
INVARIANTS
  WalkExact
PROPERTIES
  Completes
CHECK_DEADLOCK FALSE
