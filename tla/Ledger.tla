------------------------------- MODULE Ledger -------------------------------
(***************************************************************************)
(* What every kind of record shares: the checks that check_record makes      *)
(* before it looks at the kind (verify/verifier/record_checks.rs), and the   *)
(* epistemic part of the fold (state/incremental.rs): acceptance, the        *)
(* dependence index over Use and Require references, retraction and taint,   *)
(* and the evidence class each record derives from what it rests on.         *)
(*                                                                          *)
(* A subject is known by its place in the log, which is its id: i has time   *)
(* 2i-1 and its verdict time 2i.  Of rejected records only Evaluations are   *)
(* read by anything (Queries), so a rejected record is one; nothing reads its *)
(* content.                                                                  *)
(***************************************************************************)
EXTENDS Integers, Sequences, FiniteSets

CONSTANTS
  Actors,      \* the actors of author_roles
  Role,        \* author_roles: actor |-> its author type
  Admins,      \* admin_retraction_actors
  MaxRecords,  \* bound on the subjects of the log
  Settings     \* the rules a space may have, each with bounds on what is proposed in it

\* The log of a setting ends at its bound, and no log passes the bound of all.
ASSUME LedgerConstants ==
  MaxRecords \in Nat /\ \A s \in Settings : s.bounds.records \in 0..MaxRecords

VARIABLES
  rules,                \* the VerifierRules of the space, the constants above aside
  bounds,               \* bounds on the records proposed; not of the program
  log,                  \* the committed subjects, each with its verdict
  accepted_records,
  retracted_records,
  tainted_records,
  epistemic_dependents, \* id |-> accepted records that Use or Require it
  replaced_records

setting == <<rules, bounds>>
epistemic == <<setting, log, accepted_records, retracted_records, tainted_records,
               epistemic_dependents, replaced_records>>

Ids == 1..MaxRecords
None == 0   \* no record

\* evidence_thresholds: kind |-> the weakest class of evidence it admits.
Threshold == rules.evidence_thresholds

NextId == Len(log) + 1
Room == Len(log) < bounds.records
TimeOf(i) == 2 * i - 1

Ref(type, target) == [type |-> type, target |-> target]

Targets(refs, type) == {r.target : r \in {x \in refs : x.type = type}}

\* Use and Require references: what a record rests on.
Rests(refs) == Targets(refs, "Use") \union Targets(refs, "Require")

Accepted(kind) == {i \in accepted_records : log[i].kind = kind}

-----------------------------------------------------------------------------
(* Author roles *)

AllowedAuthorTypes(kind) ==
  CASE kind \in {"Request", "Approval"} -> {"User"}
    [] kind \in {"Action", "Response", "Summary", "Plan"} -> {"Provider"}
    [] kind = "Result" -> {"Executor"}
    [] kind \in {"Capability", "Refusal"} -> {"User", "System"}
    [] kind = "Usage" -> {"Provider", "System"}
    [] kind \in {"Retraction", "Requirement", "Selection"} -> {"User", "Provider", "System"}
    [] kind \in {"Candidate", "Evaluation"} -> {"User", "Provider", "Executor", "System"}

-----------------------------------------------------------------------------
(* Evidence: 0 Deterministic, 1 Verified, 2 Reported, 3 Inferred, 4 Assumed *)

Assumed == 4

BaseEvidence(kind, body) ==
  CASE kind \in {"Summary", "Plan", "Selection"} -> 3
    [] kind = "Result" /\ body.external -> 1
    [] kind = "Evaluation" /\ body.schema = "attested" -> 1
    [] OTHER -> 2

Sound(i) == i \in accepted_records \ (retracted_records \union tainted_records)

\* Mutant of RefEvidence: the stored class of a withdrawn record still counts.
RefEvidenceStored(i) == IF i \in accepted_records THEN log[i].evidence ELSE Assumed

\* State::ref_evidence of a Use or Require reference.
RefEvidence(i) == IF Sound(i) THEN log[i].evidence ELSE Assumed

\* derive_evidence: the weakest of the base class and of what it rests on.
DeriveEvidence(kind, body, refs) ==
  CHOOSE e \in 0..4 :
    LET classes == {BaseEvidence(kind, body)} \union {RefEvidence(i) : i \in Rests(refs)}
    IN  e \in classes /\ \A c \in classes : c <= e

-----------------------------------------------------------------------------
(* The generic part of check_record *)

\* Every reference names a committed record.
Resolves(refs) == \A r \in refs : r.target \in 1..Len(log)

\* A Require target is accepted state.
Requirable(refs) == \A i \in Targets(refs, "Require") : Sound(i)

\* check_replacement_compatibility: a replacement is about what it replaces.
Compatible(kind, new, old) ==
  CASE kind = "Capability" -> new.key = old.key
    [] kind = "Approval" -> /\ new.form = old.form /\ new.key = old.key
                            /\ new.form = "exact" => new.scope = old.scope
    [] kind = "Summary" -> new.scope = old.scope
    [] kind = "Plan" -> new.request = old.request
    [] kind = "Selection" -> TRUE   \* its objective is CommitSelection's concern

\* At most one Replace, of an accepted and compatible record of the same kind,
\* on the kinds that can be superseded.
Replaceable(kind, body, refs) ==
  LET targets == Targets(refs, "Replace")
  IN  /\ Cardinality(targets) <= 1
      /\ targets # {} => kind \in {"Summary", "Capability", "Approval", "Plan", "Selection"}
      /\ \A i \in targets : i \in Accepted(kind) /\ Compatible(kind, body, log[i].body)

Checked(kind, author, body, refs) ==
  /\ kind \in rules.kinds
  /\ Role[author] \in AllowedAuthorTypes(kind)
  /\ Resolves(refs)
  /\ Requirable(refs)
  /\ Replaceable(kind, body, refs)
  /\ kind \in DOMAIN Threshold => DeriveEvidence(kind, body, refs) <= Threshold[kind]

-----------------------------------------------------------------------------
(* The generic part of apply_accepted *)

\* mark_tainted from the records of seeds, over dependence index deps: the
\* least set that has them and, of each record it has that was not tainted
\* before, the dependents.
Cascade(deps, seeds) ==
  {i \in 1..NextId :
     \A S \in SUBSET (1..NextId) :
       /\ seeds \subseteq S
       /\ \A j \in S \ tainted_records : deps[j] \subseteq S
       => i \in S}

Indexed(refs) ==
  [i \in Ids |-> IF i \in Rests(refs) THEN epistemic_dependents[i] \union {NextId}
                                      ELSE epistemic_dependents[i]]

\* A record that rests on withdrawn content is tainted from the start.
Inherits(refs) == Rests(refs) \intersect (retracted_records \union tainted_records) # {}

\* Commit of an accepted record.
Accept(kind, author, body, refs) ==
  /\ Room
  /\ Checked(kind, author, body, refs)
  /\ log' = Append(log, [accepted |-> TRUE, kind |-> kind, author |-> author, refs |-> refs,
                         body |-> body, evidence |-> DeriveEvidence(kind, body, refs)])
  /\ accepted_records' = accepted_records \union {NextId}
  /\ epistemic_dependents' = Indexed(refs)
  /\ replaced_records' = replaced_records \union Targets(refs, "Replace")
  /\ UNCHANGED setting

\* What an accepted record that is not a Retraction does to the taint sets.
Claims(refs) ==
  /\ tainted_records' = IF Inherits(refs)
                          THEN tainted_records \union Cascade(Indexed(refs), {NextId})
                          ELSE tainted_records
  /\ UNCHANGED retracted_records

\* Mutant of Withdraws: taint stops at the direct dependents.
WithdrawsDirect(target, refs) ==
  /\ retracted_records' = retracted_records \union {target}
  /\ tainted_records' = tainted_records \union Indexed(refs)[target]
                          \union (IF Inherits(refs) THEN {NextId} ELSE {})

\* What an accepted Retraction of target does to them.
Withdraws(target, refs) ==
  /\ retracted_records' = retracted_records \union {target}
  /\ tainted_records' = tainted_records
                          \union (IF Inherits(refs) THEN Cascade(Indexed(refs), {NextId}) ELSE {})
                          \union Cascade(Indexed(refs), Indexed(refs)[target])

\* Commit of a rejected record: a place in the log and nothing else.
Reject ==
  /\ Room
  /\ log' = Append(log, [accepted |-> FALSE, kind |-> "Evaluation"])
  /\ UNCHANGED <<setting, accepted_records, retracted_records, tainted_records,
                 epistemic_dependents, replaced_records>>

LedgerInit ==
  /\ \E s \in Settings : rules = s.rules /\ bounds = s.bounds
  /\ log = <<>>
  /\ accepted_records = {} /\ retracted_records = {} /\ tainted_records = {}
  /\ epistemic_dependents = [i \in Ids |-> {}]
  /\ replaced_records = {}

-----------------------------------------------------------------------------
(* Properties *)

\* Everything that record i rests on, directly or through others.
Foundations ==
  LET found[i \in 1..Len(log)] ==
        IF i \in accepted_records
          THEN Rests(log[i].refs) \union UNION {found[t] : t \in Rests(log[i].refs)}
          ELSE {}
  IN  found

\* Taint is exact: a record is tainted if and only if it is accepted and rests
\* on a retracted or a tainted record, whether it was committed before the
\* retraction or after it.  References point backwards, so this has one solution.
TaintExact ==
  tainted_records =
    {i \in accepted_records :
       Rests(log[i].refs) \intersect (retracted_records \union tainted_records) # {}}

\* Evidence is never inflated: no record derives a stronger class than what it
\* rests on, and one that rests on a rejected record, or on one that was
\* retracted before it was committed, is an assumption.
NoInflation ==
  \A i \in accepted_records : \A t \in Rests(log[i].refs) :
    /\ t \in accepted_records => log[i].evidence >= log[t].evidence
    /\ t \notin accepted_records => log[i].evidence = Assumed
    /\ (\E j \in Accepted("Retraction") : j < i /\ log[j].body.target = t)
         => log[i].evidence = Assumed
=============================================================================
