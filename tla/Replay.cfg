SPECIFICATION Spec
CONSTANTS
  p1 = p1
  p2 = p2
  lax = lax
  strict = strict
  Proposals = {p1, p2}
  Thread <- MCThread
  Rules = {lax, strict}
  Results = {"Accept", "Missing", "NotAllowed"}
  Decide <- MCDecide
  MaxRecords = 5
  MaxEdits = 2
INVARIANTS
  TypeOK
  ReplaySound
  CheckpointAgrees
  ExemptsPrefixOnly
CHECK_DEADLOCK FALSE
