SPECIFICATION Spec
CONSTANT Plans <- MCPlans
INVARIANTS
  WalkExact
  VerdictExact
PROPERTIES
  Ends
CHECK_DEADLOCK FALSE
