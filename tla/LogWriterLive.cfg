SPECIFICATION FairSpec
CONSTANTS
  Handles = {h1, h2}
  NoHandle = none
  NoRules = norules
  Proposals = {p1, p2}
  Dependent = {p2}
  Foreign = {}
  VerdictKind = {}
  Rules = {r1}
  Strict = strict
  Limits = {5}
  MaxTime = 9
  MaxFaults = 2
  Accepts <- MCAccepts
PROPERTIES
  Recovers
CHECK_DEADLOCK FALSE
