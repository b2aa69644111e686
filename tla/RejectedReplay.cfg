SPECIFICATION Spec
CONSTANTS
  Handles = {h1, h2}
  NoHandle = none
  NoRules = norules
  Proposals = {p1, p2}
  Dependent = {p2}
  Foreign = {p1}
  VerdictKind = {p2}
  Rules = {r1}
  Strict = strict
  Limits = {5, 8}
  MaxTime = 7
  MaxFaults = 0
  Accepts <- MCAccepts
INVARIANTS
  WholeLogReplays
CHECK_DEADLOCK FALSE
