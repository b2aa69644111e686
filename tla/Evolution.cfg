SPECIFICATION EvSpec
CONSTANTS
  Actors = {"user", "agent", "tool"}
  Role <- MCRole
  Admins = {}
  MaxRecords = 8
  Settings <- MCSettings
  Threads = {"t", "u"}
  Classes = {"c"}
  Scopes = {"s"}
  ExecModes = {"Internal"}
  MaxTurns = 0
  Grantees = {"agent"}
  Keys = {"k", "k2"}
  Objectives = {"o"}
  Pinned = {"user"}
  Reaffirmers = {}
INVARIANTS
  EvTypeOK
  KeysAreLive
  DecisionSound
  AuditSelection
  LinesExact
  StandingReported
  ReportSound
  DeliverySound
PROPERTIES
  FrontierForward
  RegainedByWork
CHECK_DEADLOCK FALSE
