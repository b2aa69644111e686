----------------------------- MODULE Evolution -----------------------------
(***************************************************************************)
(* The kinds through which work is proposed, judged and chosen:               *)
(* Requirement, Candidate, Evaluation and Selection, with the approvals that   *)
(* selections may need.  The checks are those of verify/verifier/evolution.rs, *)
(* the folds those of state/incremental.rs, and the standing that a candidate  *)
(* has at replay end that of verify/standing.rs.                               *)
(*                                                                          *)
(* Requests, retractions and the work whose results carry artifacts are those  *)
(* of Governance.  The map valid_approvals of the code has actions and         *)
(* selections for its subjects; their hashes are domain separated, so          *)
(* selection_approvals is the part for selections.  The shape of source        *)
(* bindings and artifact lists is left out.                                    *)
(***************************************************************************)
EXTENDS Governance

CONSTANTS
  Keys,        \* requirement keys
  Objectives,
  Pinned,      \* actors with pinned keys in author_keys
  Reaffirmers  \* reaffirmation_actors; empty: anyone

ASSUME EvolutionConstants == \A s \in Settings : \A d \in s.bounds.demands : d.key \in Keys

VARIABLES
  requirement_keys,          \* request |-> keys
  requirement_index,         \* requirement |-> <<request, key>>
  selection_approvals,       \* selection hash |-> approval, where there is one
  selection_approval_index   \* approval |-> selection hash

demands == <<requirement_keys, requirement_index>>
mandates == <<selection_approvals, selection_approval_index>>
governance == <<requests, actions, grants, claims>>
evolution == <<vars, demands, mandates>>

\* The rules that the checks of this module read.
MaxConsidered == rules.max_considered
MinBinding == rules.min_binding
SelectionRequiresEvaluation == rules.selection_requires_evaluation
SelectionRequiresApproval == rules.selection_requires_approval
RejectCompromised == rules.reject_compromised_continuation

\* Bounds: the authors of records, the bases and bindings of candidates, the
\* candidates a derivation may name, the schemas and number of requirements of
\* evaluations, the kinds with optional Use references and the kinds they use.
Authors == bounds.authors
Bases == bounds.bases
Bindings == bounds.bindings
MaxDerived == bounds.derived
Schemas == bounds.schemas
NumJudged == bounds.judged
Users == bounds.users
Judgements == bounds.judgements   \* outcome, evidence and decider binding of evaluations
Asked == bounds.demands           \* keys of requirements, and if they are required

EvInit ==
  /\ Init
  /\ requirement_keys = [i \in Ids |-> {}]
  /\ requirement_index = [i \in Ids |-> NoKey]
  /\ selection_approvals = [h \in {} |-> None]
  /\ selection_approval_index = [i \in Ids |-> NoKey]

UseRefs(S) == {Ref("Use", i) : i \in S}
CauseRefs(S) == {Ref("Cause", i) : i \in S}
RequireRefs(S) == {Ref("Require", i) : i \in S}

\* Subsets of S with at most n members.
UpTo(S, n) == {T \in SUBSET S : Cardinality(T) <= n}

-----------------------------------------------------------------------------
(* Requirements *)

\* Who wrote a requirement decides what it may say of its origin.
ProvenanceOf(a) == IF Role[a] = "User" THEN "UserAuthored" ELSE "Derived"

\* A requirement takes a key that is free under its request.
CommitRequirement(a, th, req, key, required) ==
  LET refs == CauseRefs({req})
  IN  /\ req \in Accepted("Request") /\ log[req].body.thread = th
      /\ key \notin requirement_keys[req]
      /\ Accept("Requirement", a, [thread |-> th, request |-> req, key |-> key,
                                   required |-> required, provenance |-> ProvenanceOf(a)], refs)
      /\ Claims(refs)
      /\ requirement_keys' = [requirement_keys EXCEPT ![req] = @ \union {key}]
      /\ requirement_index' = [requirement_index EXCEPT ![NextId] = <<req, key>>]
      /\ UNCHANGED <<governance, mandates>>

\* Mutant of Release: a withdrawn requirement keeps its key.
ReleaseNever(target) == UNCHANGED demands

\* A withdrawn requirement gives its key back; its index entry stays.
Release(target) ==
  /\ requirement_keys' =
       IF requirement_index[target] = NoKey THEN requirement_keys
       ELSE [requirement_keys EXCEPT ![requirement_index[target][1]] =
                                       @ \ {requirement_index[target][2]}]
  /\ UNCHANGED requirement_index

-----------------------------------------------------------------------------
(* Candidates *)

Propose(a, basis, parent, causes, binding, uses) ==
  LET refs == uses \union CauseRefs(causes)
  IN  /\ basis \in Bases
      /\ Accept("Candidate", a, [basis |-> basis, parent |-> parent, causes |-> causes,
                                 binding |-> binding, artifacts |-> bounds.artifacts], refs)
      /\ Claims(refs)
      /\ UNCHANGED <<governance, demands, mandates>>

\* A root may come from one accepted request.
CommitRoot(a, causes, binding, uses) ==
  /\ Cardinality(causes) <= 1 /\ causes \subseteq Accepted("Request")
  /\ Propose(a, "Root", None, causes, binding, uses)

\* Mutant of Anchors: any candidate that was considered can be continued.
AnchorsConsidered(anchor, parent) ==
  anchor \in Accepted("Selection") /\ parent \in log[anchor].body.considered

\* Selection anchor chose candidate parent and, if the rules are strict, stands.
Anchors(anchor, parent) ==
  /\ anchor \in Accepted("Selection")
  /\ parent \in log[anchor].body.selected
  /\ RejectCompromised => Sound(anchor)

CommitContinuation(a, anchor, parent, binding, uses) ==
  /\ Anchors(anchor, parent)
  /\ parent \in Accepted("Candidate")
  /\ Propose(a, "Continuation", parent, {anchor}, binding, uses)

\* A derivation comes from other material, never from a decision.
CommitDerivation(a, causes, binding, uses) ==
  /\ causes # {} /\ causes \subseteq Accepted("Candidate") \union Accepted("Evaluation")
  /\ Propose(a, "Derivation", None, causes, binding, uses)

-----------------------------------------------------------------------------
(* Evaluations *)

\* Mutant of Judged: the requirements are named and not used.
JudgedCandidate(cand, reqs) == UseRefs({cand})

\* What an evaluation must use: the candidate it judges and the requirements it
\* judges it against.
Judged(cand, reqs) == UseRefs({cand} \union reqs)

\* The first schema has neither requirements nor evidence nor a decider binding;
\* the attested one is signed by an author with pinned keys.
CommitEvaluation(a, cand, reqs, schema, j, uses) ==
  LET refs == uses \union Judged(cand, reqs)
  IN  /\ cand \in Accepted("Candidate")
      /\ reqs \subseteq Accepted("Requirement")
      /\ schema = "v1" => reqs = {} /\ j.evidence = {} /\ ~j.bound
      /\ schema = "attested" => a \in Pinned
      /\ Accept("Evaluation", a, [candidate |-> cand, requirements |-> reqs, schema |-> schema,
                                  outcome |-> j.outcome, evidence |-> j.evidence, bound |-> j.bound],
                refs)
      /\ Claims(refs)
      /\ UNCHANGED <<governance, demands, mandates>>

-----------------------------------------------------------------------------
(* Selections *)

\* selection_approval_subject_hash: the author, the record replaced and the
\* decision.
SubjectHash(a, replaced, d) == <<a, replaced, d>>

\* Mutant of ApprovalOf: an approval that was used serves again.
ApprovalOfSpent(hash) == Latest({p \in Accepted("Approval") : log[p].body.key = hash})

ApprovalOf(hash) == IF hash \in DOMAIN selection_approvals THEN selection_approvals[hash] ELSE None

\* The user approves one decision of one actor.
ApproveSelection(a, hash, actor, sc, expiry, repl) ==
  /\ Accept("Approval", a, [form |-> "exact", key |-> hash, actor |-> actor,
                            scope |-> sc, expiry |-> expiry], repl)
  /\ Claims(repl)
  /\ selection_approval_index' = [selection_approval_index EXCEPT ![NextId] = hash]
  /\ selection_approvals' = [h \in DOMAIN selection_approvals \union {hash} |->
                               IF h = hash THEN NextId ELSE selection_approvals[h]]
  /\ UNCHANGED <<governance, demands>>

\* Mutant of Mandated: an approval serves whatever its expiry.
MandatedExpired(approval, a) ==
  approval # None /\ Sound(approval) /\ log[approval].body.actor = a

\* resolve_selection_approval: the approval of this hash is usable.
Mandated(approval, a) ==
  /\ approval # None /\ Sound(approval)
  /\ log[approval].body.actor = a
  /\ Unexpired(approval)

\* The accepted evaluations among the records used.
Evidences(uses) == Targets(uses, "Use") \intersect Accepted("Evaluation")

\* The decision is over accepted candidates, chooses among them candidates that
\* are bound as the rules ask, and rests on judgements of those considered.
Decidable(d, uses) ==
  /\ d.considered # {} /\ Cardinality(d.considered) <= MaxConsidered
  /\ d.considered \subseteq Accepted("Candidate")
  /\ d.selected \subseteq d.considered
  /\ \A e \in Evidences(uses) : log[e].body.candidate \in d.considered
  /\ MinBinding = "Manifest" => \A c \in d.selected : log[c].body.binding = "Manifest"
  /\ d.selected # {} /\ SelectionRequiresEvaluation => Evidences(uses) # {}

\* Mutant of Without: the approval a selection was made under stays.
WithoutNone(hash) == selection_approvals

\* The approvals without the one for this hash.
Without(hash) ==
  [h \in DOMAIN selection_approvals \ {hash} |-> selection_approvals[h]]

\* A decision d: no candidate selected is the outcome None.  It requires its
\* winners and, if the rules ask, its approval, and nothing else.
CommitSelection(a, th, d, replaced, uses) ==
  LET repl == IF replaced = None THEN {} ELSE {Ref("Replace", replaced)}
      hash == SubjectHash(a, replaced, d)
      approval == IF SelectionRequiresApproval THEN ApprovalOf(hash) ELSE None
      refs == uses \union repl \union RequireRefs((d.selected \union {approval}) \ {None})
  IN  /\ Decidable(d, uses)
      /\ SelectionRequiresApproval => Mandated(approval, a)
      /\ replaced # None => /\ log[replaced].body.objective = d.objective
                            /\ Reaffirmers = {} \/ a \in Reaffirmers
      /\ Accept("Selection", a, [thread |-> th, objective |-> d.objective,
                                 considered |-> d.considered, selected |-> d.selected], refs)
      /\ Claims(refs)
      /\ IF approval # None
           THEN /\ selection_approvals' = Without(hash)
                /\ selection_approval_index' = [selection_approval_index EXCEPT ![approval] = NoKey]
           ELSE UNCHANGED mandates
      /\ UNCHANGED <<governance, demands>>

\* A withdrawn approval approves no selection.
Revoke(target) ==
  /\ selection_approvals' =
       LET hash == selection_approval_index[target]
       IN  IF hash # NoKey /\ ApprovalOf(hash) = target THEN Without(hash) ELSE selection_approvals
  /\ UNCHANGED selection_approval_index

-----------------------------------------------------------------------------

\* The whole effect of a retraction, on both sides.
Retract(a, th, target, uses) ==
  /\ CommitRetraction(a, th, target, uses)
  /\ Release(target)
  /\ Revoke(target)

Decisions ==
  [objective : Objectives, considered : SUBSET Accepted("Candidate"),
   selected : SUBSET Accepted("Candidate")]

UsesOf(kind) ==
  IF kind \in Users THEN {u \in Uses : \A r \in u : log[r.target].kind \in bounds.used} ELSE {{}}

\* Bound: some kinds are proposed until one record of theirs is accepted, and an
\* author leaves some kinds to others.
Wanted(a, kind) ==
  (kind \in bounds.once => Accepted(kind) = {}) /\ <<a, kind>> \notin bounds.left

Develop(a, th) ==
  \/ /\ Wanted(a, "Candidate")
     /\ \E causes \in UpTo(Accepted("Request"), 1), b \in Bindings,
           uses \in UsesOf("Candidate") : CommitRoot(a, causes, b, uses)
  \/ \E s \in Accepted("Selection"), p \in Accepted("Candidate"), b \in Bindings,
        uses \in UsesOf("Candidate") : CommitContinuation(a, s, p, b, uses)
  \/ \E causes \in UpTo(Accepted("Candidate") \union Accepted("Evaluation"), MaxDerived),
        b \in Bindings, uses \in UsesOf("Candidate") : CommitDerivation(a, causes, b, uses)
  \/ /\ Wanted(a, "Evaluation")
     /\ \E c \in Accepted("Candidate"),
           reqs \in {T \in SUBSET Accepted("Requirement") : Cardinality(T) \in NumJudged},
           s \in Schemas, j \in Judgements, uses \in UsesOf("Evaluation") :
          CommitEvaluation(a, c, reqs, s, j, uses)
  \/ /\ Wanted(a, "Selection")
     /\ \E d \in Decisions, r \in {None} \union Accepted("Selection"),
           uses \in UsesOf("Selection") : CommitSelection(a, th, d, r, uses)
  \/ /\ Wanted(a, "Retraction")
     /\ \E target \in accepted_records, uses \in UsesOf("Retraction") : Retract(a, th, target, uses)

Demand(a, th) ==
  \/ /\ Wanted(a, "Request")
     /\ \E sc \in Scopes : CommitRequest(a, th, sc, None, {})
     /\ UNCHANGED <<demands, mandates>>
  \/ /\ Wanted(a, "Requirement")
     /\ \E req \in Accepted("Request"), d \in Asked :
          CommitRequirement(a, th, req, d.key, d.required)
  \/ \E who \in Grantees, actor \in Grantees, d \in Decisions, r \in {None} \union Accepted("Selection"),
        e \in Expiries, sc \in Scopes, repl \in Replacing("Approval") :
       ApproveSelection(a, SubjectHash(who, r, d), actor, sc, e, repl)

\* The work that ends in a result, as Governance has it.
Perform(a, th) ==
  /\ \/ /\ Wanted(a, "Capability")
        /\ \E key \in CapKeys, mode \in Modes, e \in Expiries :
             CommitCapability(a, th, key, mode, e, {}, {})
     \/ /\ Wanted(a, "Action") /\ a \in Grantees
        /\ \E req \in Accepted("Request"), cls \in Classes, sc \in Scopes, x \in Execs :
             CommitAction(a, th, req, cls, sc, x, {}, {})
     \/ /\ Wanted(a, "Result")
        /\ \E act \in Accepted("Action"), s \in {"result", "external_receipt"}, artifacts \in Results :
             CommitResult(a, th, act, s, artifacts, {})
  /\ UNCHANGED <<demands, mandates>>

EvNext ==
  /\ Room
  /\ \/ \E a \in Authors, th \in Threads :
          th \in bounds.threads /\ (Develop(a, th) \/ Demand(a, th) \/ Perform(a, th))
     \/ CommitRejected /\ UNCHANGED <<demands, mandates>>

EvSpec == EvInit /\ [][EvNext]_evolution

-----------------------------------------------------------------------------
(* Standing, at the end of the log *)

ReplacedBy(s) == Targets(log[s].refs, "Replace")

Unsound == Accepted("Selection") \intersect (retracted_records \union tainted_records)

\* selection |-> the selections on its chain of replacements.
Chain ==
  LET chain[s \in 1..Len(log)] ==
        IF s \in Accepted("Selection")
          THEN UNION {{t} \union chain[t] : t \in ReplacedBy(s)} ELSE {}
  IN  chain

\* The sound selections that replace s, in one hop or more.
Replacers(s) == {t \in Accepted("Selection") \ Unsound : s \in Chain[t]}

Restorations == [s \in {u \in Unsound : Replacers(u) # {}} |-> Replacers(s)]

\* Mutant of AnchorSound: any sound replacement of the anchor will do.
AnchorSoundAny(anchor, parent) == anchor \notin Unsound \/ Replacers(anchor) # {}

\* The anchor stands, or a sound replacement of it chose the same parent.
AnchorSound(anchor, parent) ==
  \/ anchor \notin Unsound
  \/ \E t \in Replacers(anchor) : parent \in log[t].body.selected

\* The candidates whose standing that of c depends on.
StandingDeps(c) ==
  LET b == log[c].body
  IN  CASE b.basis = "Root" -> {}
        [] b.basis = "Continuation" -> {b.parent}
        [] b.basis = "Derivation" -> b.causes \intersect Accepted("Candidate")

\* What derive_standing computes; StandingWalk has the walk that computes it.
Stands ==
  LET stands[c \in 1..Len(log)] ==
        /\ c \in Accepted("Candidate") \ retracted_records
        /\ log[c].body.basis = "Continuation" =>
             \A s \in log[c].body.causes : AnchorSound(s, log[c].body.parent)
        /\ \A d \in StandingDeps(c) : stands[d]
  IN  stands

Compromised == {c \in Accepted("Candidate") : ~Stands[c]}

-----------------------------------------------------------------------------
(* Properties *)

\* The evolution state stays in range, and an approval for a selection is one.
EvTypeOK ==
  /\ \A i \in Ids :
       /\ requirement_keys[i] \subseteq Keys
       /\ requirement_index[i] # NoKey => i \in Accepted("Requirement")
       /\ selection_approval_index[i] # NoKey => i \in Accepted("Approval")
  /\ \A h \in DOMAIN selection_approvals : selection_approval_index[selection_approvals[h]] = h

\* The requirements of request r that are accepted and not retracted.
LiveRequirements(r) == WorkFor(r, "Requirement") \ retracted_records

\* No key is held by a requirement that is gone: a correction of a retracted
\* requirement can always carry its key.
KeysAreLive ==
  \A r \in Accepted("Request") :
    requirement_keys[r] \subseteq {log[q].body.key : q \in LiveRequirements(r)}

\* "The key is unique among accepted, unretracted Requirements under the
\* request" (the comment of check_requirement).
RequirementKeysUnique ==
  \A r \in Accepted("Request") : \A p, q \in LiveRequirements(r) :
    (log[p].body.key = log[q].body.key) => p = q

\* A decision that stands rests on nothing that fell: its winners, the
\* judgements it used, the candidates they judged and the requirements they
\* judged them against are all unretracted, however late a retraction came.
SoundDecision ==
  \A s \in Accepted("Selection") \ Unsound :
    LET judgements == Evidences(log[s].refs)
        rests == log[s].body.selected \union judgements
                   \union {log[e].body.candidate : e \in judgements}
                   \union UNION {log[e].body.requirements : e \in judgements}
    IN  rests \intersect retracted_records = {}

\* The decision of accepted selection s.
DecisionOf(s) ==
  [objective |-> log[s].body.objective, considered |-> log[s].body.considered,
   selected |-> log[s].body.selected]

\* The hash of accepted selection s, and the earlier selections that were made
\* under approval p.
HashOfSelection(s) ==
  LET replaced == Max(ReplacedBy(s) \union {None})
  IN  SubjectHash(log[s].author, replaced, DecisionOf(s))
MadeUnder(p, i) == {j \in Accepted("Selection") : j < i /\ Ref("Require", p) \in log[j].refs}

\* Where the rules ask for it, every accepted decision is backed, in the log
\* alone, by the newest approval of exactly this decision (its author, what it
\* replaces, what it considers and chooses), in force at that moment, declared
\* for its author and never used before.
AuditSelection ==
  SelectionRequiresApproval =>
    \A s \in Accepted("Selection") :
      LET p == Latest(Approvals("exact", HashOfSelection(s), s))
      IN  InForce(p, s) /\ log[p].body.actor = log[s].author /\ MadeUnder(p, s) = {}

\* Every line runs through decisions: what a continuation continues was chosen
\* by its anchor, before it and at a time when nobody had withdrawn it.
ChosenLine ==
  \A c \in {d \in Accepted("Candidate") : log[d].body.basis = "Continuation"} :
    LET p == log[c].body.parent
    IN  \A s \in log[c].body.causes :
          /\ p < s /\ s < c
          /\ Ref("Require", p) \in log[s].refs
          /\ ~Withdrawn(p, s)

\* A candidate and all that it came from.
LineOf ==
  LET line[c \in 1..Len(log)] ==
        IF c \in Accepted("Candidate") THEN {c} \union UNION {line[d] : d \in StandingDeps(c)}
                                       ELSE {}
  IN  line

\* A step that restores c: it commits a decision that stands, replaces the
\* anchor of a candidate in the line of c and chooses the same parent again;
\* and no candidate of that line is retracted.
Restores(c) ==
  /\ NextId \in (Accepted("Selection") \ Unsound)'
  /\ \E d \in LineOf[c] :
       /\ log[d].body.basis = "Continuation"
       /\ log[d].body.causes \subseteq Chain'[NextId]
       /\ log[d].body.parent \in log'[NextId].body.selected
  /\ LineOf[c] \intersect retracted_records = {}

\* Standing once lost comes back only by a reaffirming decision for that very
\* line, and never for a line with a retracted candidate in it; a decision that
\* is unsound stays so.
LostUntilReaffirmed ==
  [][/\ \A c \in Compromised : c \in Compromised' \/ Restores(c)
     /\ Unsound \subseteq Unsound']_evolution
=============================================================================
