SPECIFICATION Spec
CONSTANTS
  Handles = {h1, h2}
  NoHandle = none
  NoRules = norules
  Proposals = {p1, p2}
  Dependent = {p2}
  Foreign = {}
  VerdictKind = {}
  Rules = {r1, strict}
  Strict = strict
  Limits = {5, 8}
  MaxTime = 7
  MaxFaults = 3
  Accepts <- MCAccepts
SYMMETRY Perms
INVARIANTS
  TypeOK
  SingleWriter
  PairedLog
  HandleCoherent
  AckedDurable
PROPERTIES
  AckedStable
  ImplementsLedger
CHECK_DEADLOCK FALSE
