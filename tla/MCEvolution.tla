---------------------------- MODULE MCEvolution ----------------------------
(***************************************************************************)
(* Evolution and the reports on it for TLC.  Each setting opens the kinds and *)
(* choices of one group of properties.                                       *)
(***************************************************************************)
EXTENDS Receipts

MCRole == [user |-> "User", agent |-> "Provider", tool |-> "Executor"]

Knobs(kinds, considered, binding, evaluation, approval) ==
  [kinds |-> kinds, max_considered |-> considered, min_binding |-> binding,
   selection_requires_evaluation |-> evaluation, selection_requires_approval |-> approval,
   reject_compromised_continuation |-> FALSE, max_context_records |-> 2,
   signature_required_kinds |-> {}, evidence_thresholds |-> [k \in {} |-> 0]]

Asks(key, required) == [key |-> key, required |-> required]

\* What no setting below opens unless it says so.
Closed ==
  [records |-> 6, threads |-> {"t"}, authors |-> {"user"}, expiries |-> {}, modes |-> {}, execs |-> {}, linked |-> {},
   uses |-> 0, users |-> {}, used |-> {"Evaluation"}, bases |-> {"Root"}, bindings |-> {"Reported"}, derived |-> 0,
   schemas |-> {}, judged |-> {0}, rejected |-> 0, demands |-> {Asks("k", TRUE)}, artifacts |-> {}, results |-> {{}},
   judgements |-> {[outcome |-> "passed", evidence |-> {}, bound |-> FALSE]}, once |-> {}, left |-> {},
   receipts |-> {}, asked |-> <<>>, limits |-> [max_records |-> 99, max_refs_per_record |-> 9]]

\* Requirements and judgements under the default rules.
Judgement ==
  [rules |-> Knobs({"Request", "Requirement", "Candidate", "Evaluation", "Selection", "Retraction"},
                   1, "Reported", TRUE, FALSE),
   bounds |-> [Closed EXCEPT !.uses = 1, !.users = {"Selection"}, !.schemas = {"attested"},
                             !.judged = {0, 1}]]

\* Decisions that need an approval, which may expire, be replaced or be withdrawn.
Mandate ==
  [rules |-> Knobs({"Candidate", "Selection", "Approval", "Retraction"}, 1, "Manifest", FALSE, TRUE),
   bounds |-> [Closed EXCEPT !.records = 5, !.authors = {"user", "agent"}, !.expiries = {7, 99},
                             !.linked = {"Approval"}, !.left = {<<"user", "Candidate">>},
                             !.bindings = {"Manifest"}]]

\* Decisions over judged candidates, some of which a manifest binds.
Binding ==
  [rules |-> Knobs({"Candidate", "Evaluation", "Selection", "Retraction"}, 1, "Manifest", TRUE, FALSE),
   bounds |-> [Closed EXCEPT !.records = 5, !.bindings = {"Reported", "Manifest"}, !.uses = 1,
                             !.users = {"Selection"}, !.schemas = {"v1", "v2", "attested"},
                             !.rejected = 1]]

\* Lines of candidates.
Lines ==
  [rules |-> Knobs({"Candidate", "Selection", "Retraction"}, 1, "Reported", FALSE, FALSE),
   bounds |-> [Closed EXCEPT !.bases = {"Root", "Continuation", "Derivation"}, !.derived = 1]]

\* Lines that meet, under rules that refuse to continue a compromised one, through
\* decisions over two candidates.
Strict ==
  [rules |-> [Lines.rules EXCEPT !.reject_compromised_continuation = TRUE, !.max_considered = 2],
   bounds |-> [Lines.bounds EXCEPT !.records = 5, !.derived = 2]]

\* Deliveries, under the thresholds of the baseline, and the receipts of them.
Declared(id, matches) == [id |-> id, matches |-> matches]

Exports ==
  {[spec_version |-> v, profiles |-> p] :
     v \in {"0.2", "0.3", "0.4"},
     p \in {<<>>, <<Declared("delivery", TRUE), Declared("core", FALSE)>>}}

Deliveries ==
  [rules |-> [Judgement.rules EXCEPT
                !.signature_required_kinds = SignedKinds,
                !.evidence_thresholds =
                   [k \in {"Candidate", "Evaluation", "Selection"} |-> IF k = "Selection" THEN 3 ELSE 2]],
   bounds |-> [Closed EXCEPT
     !.records = 6, !.authors = {"user", "tool"}, !.uses = 2, !.users = {"Selection"},
     !.schemas = {"v2"}, !.judged = {1}, !.once = {"Request", "Candidate"},
     !.demands = {Asks("k", TRUE), Asks("k2", FALSE)}, !.artifacts = {"a"},
     !.judgements = {[outcome |-> "passed", evidence |-> {"a"}, bound |-> TRUE],
                     [outcome |-> "failed", evidence |-> {"a"}, bound |-> TRUE],
                     [outcome |-> "passed", evidence |-> {"x"}, bound |-> FALSE]},
     !.receipts = Exports, !.asked = <<"delivery", "core", "signed", "core">>,
     !.limits = [max_records |-> 12, max_refs_per_record |-> 2]]]

\* Two claims to one delivery, of which either may be withdrawn.
Reclaimed ==
  [rules |-> Deliveries.rules,
   bounds |-> [Deliveries.bounds EXCEPT
     !.records = 7, !.uses = 1, !.demands = {Asks("k", TRUE)},
     !.once = {"Request", "Requirement", "Candidate", "Evaluation", "Retraction"},
     !.judgements = {[outcome |-> "passed", evidence |-> {"a"}, bound |-> TRUE]},
     !.receipts = {Plain}, !.limits = Closed.limits]]

\* A delivery whose evidence is an artifact of a result, in its thread or another.
Worked ==
  [rules |-> [Deliveries.rules EXCEPT
                !.kinds = {"Request", "Requirement", "Candidate", "Evaluation", "Selection",
                           "Capability", "Action", "Result"}],
   bounds |-> [Reclaimed.bounds EXCEPT
     !.records = 8, !.threads = {"t", "u"}, !.authors = {"user", "agent", "tool"},
     !.once = @ \union {"Selection", "Capability", "Action", "Result"},
     !.left = {"agent"} \X {"Requirement", "Candidate", "Evaluation", "Selection"},
     !.expiries = {99}, !.modes = {"Auto"}, !.execs = {"Internal"}, !.results = {{}, {"r"}},
     !.judgements = {[outcome |-> "passed", evidence |-> {"a", "r"}, bound |-> TRUE]}]]

MCSettings == {Judgement, Mandate, Binding, Lines, Strict, Deliveries, Reclaimed, Worked}

\* Requirements alone.
KeySettings ==
  {[rules |-> Knobs({"Request", "Requirement", "Retraction"}, 1, "Reported", TRUE, FALSE),
    bounds |-> Closed]}
=============================================================================
