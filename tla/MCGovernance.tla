---------------------------- MODULE MCGovernance ----------------------------
(***************************************************************************)
(* Governance for TLC.  One actor of each role; actions must rest on         *)
(* reported evidence at least, other kinds admit any class.  Each setting     *)
(* opens the kinds and choices of one group of properties.                   *)
(***************************************************************************)
EXTENDS Context

MCRole == [user |-> "User", agent |-> "Provider", tool |-> "Executor"]

Thresholds ==
  [k \in {"Request", "Capability", "Approval", "Action", "Result", "Refusal", "Response", "Plan",
          "Usage", "Summary", "Retraction"} |-> IF k = "Action" THEN 2 ELSE 4]

Bound(records, expiries, modes, execs, linked, uses, rejected) ==
  [records |-> records, expiries |-> expiries, modes |-> modes, execs |-> execs,
   linked |-> linked, results |-> {{}}, uses |-> uses, rejected |-> rejected]

RulesFor(kinds) ==
  [kinds |-> kinds, evidence_thresholds |-> Thresholds, max_context_records |-> 2]

AuthorityRules == RulesFor({"Request", "Capability", "Approval", "Action", "Retraction"})

\* Grants that need an approval or deny, and that may expire.
Authority ==
  [rules |-> AuthorityRules,
   bounds |-> Bound(5, {8, 99}, {"Ask", "Deny"}, {"Internal"}, {}, 0, 0)]

\* Long histories of grants that need an approval.
Slots ==
  [rules |-> AuthorityRules,
   bounds |-> Bound(6, {99}, {"Ask"}, {"Internal"}, {"Capability", "Approval"}, 0, 0)]

Lifecycle ==
  [rules |-> RulesFor({"Request", "Capability", "Action", "Result", "Refusal", "Response", "Plan",
                       "Usage"}),
   bounds |-> Bound(6, {99}, {"Auto"}, ExecModes, {"Plan"}, 0, 0)]

\* Records that rest on one another.
Dependence ==
  [rules |-> RulesFor({"Request", "Summary", "Capability", "Action", "Retraction"}),
   bounds |-> Bound(5, {99}, {"Auto"}, {"Internal"}, {"Summary"}, 1, 1)]

MCSettings == {Authority, Slots, Lifecycle, Dependence}
=============================================================================
