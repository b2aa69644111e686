SPECIFICATION Spec
CONSTANTS
  Actors = {"user", "agent", "tool"}
  Role <- MCRole
  Admins = {"user"}
  MaxRecords = 6
  Settings <- MCSettings
  Threads = {"t"}
  Classes = {"c"}
  Scopes = {"s"}
  ExecModes = {"Internal", "External"}
  MaxTurns = 2
  Grantees = {"agent"}
INVARIANTS
  TypeOK
  AuditAuthority
  SlotsAreLatest
  RequestsEnd
  WorkExact
  TaintExact
  NoInflation
  ContextSound
CHECK_DEADLOCK FALSE
