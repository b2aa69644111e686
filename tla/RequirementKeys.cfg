SPECIFICATION EvSpec
CONSTANTS
  Actors = {"user", "agent", "tool"}
  Role <- MCRole
  Admins = {}
  MaxRecords = 8
  Settings <- KeySettings
  Threads = {"t", "u"}
  Classes = {"c"}
  Scopes = {"s"}
  ExecModes = {"Internal"}
  MaxTurns = 0
  Grantees = {"agent"}
  Keys = {"k", "k2"}
  Objectives = {"o"}
  Pinned = {"user"}
  Reaffirmers = {}
INVARIANT RequirementKeysUnique
CHECK_DEADLOCK FALSE
