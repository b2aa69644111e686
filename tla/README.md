# A verification project for Bellbook

Bellbook is a Rust library that keeps an append-only, content-addressed log of
what agents ask, are allowed to do, do and claim. Each record is judged by a
deterministic verifier and followed in the log by the Verdict record that
accepts or rejects it; the effective `State` is a fold of the accepted records,
and anyone who has the log can replay it. This directory models that system in
TLA+, checks the models with TLC on small instances, and proves every safety
property that these checks show with TLAPS for all instances: of the commit
protocol, batches, plans, the fold, contexts, replay and checkpoints, evolution,
the standing walk, queries and receipts. Liveness is left to TLC.

Paths below are relative to the repository; its library is under `src/`
(`PROJECT.json` writes `src/src/...`).

## Inventory

| Component | State it keeps | Operations | Hard parts | What makes it correct |
|---|---|---|---|---|
| Log writer: `log/storage.rs`, `log/writer/*`, `base/time.rs` | `records.log`, `.intent`, `.lock`; in memory the records, the clock, the rules hash, `recovery_required` | open (lock, read, truncate, replay, recover), `commit`, drop | crashes, power losses and I/O errors between any two writes; two processes; the caller's stale `State`; the file limit; the end of the clock | pairs are whole or repairable, acknowledged pairs are durable, a usable handle mirrors a log that replays |
| Batch appender: `batch_commit`, `checked_batch_commit` | none of its own | compare-and-append, retry | lost answers, retries after partial success, racing appenders | no duplicate append, the same answer for every retry, a conflict only with a cause |
| Verifier: `verify/verifier/{record_checks,activity,lifecycle,plans}.rs` | none: a function of rules, prior log and State | one check per kind | guards that read indexes maintained by other kinds | every accepted action had authority; requests and actions end once |
| State fold: `state/*` | slots, indexes, counters, taint sets | one fold per kind | retraction before, between or after dependents; single use; counters | the indexes say what the log says |
| Evidence: `record/evidence.rs` | none | derivation from the weakest source | targets withdrawn before the commit | no inflation |
| Evolution: `verify/verifier/evolution.rs`, `verify/standing.rs` | requirement keys; the rest is derived | candidate, evaluation, selection and requirement checks; standing | order of retractions and reaffirmations, reused keys | standing follows from lineage and withdrawn records alone; keys are unique |
| Plans: `verify/verifier/plans.rs` | none | task list, proof and status checks, cycle check | repeated dependencies, the order of a hash map | exactly the acyclic, proven and consistent plans pass |
| Replay and checkpoints: `verify/verifier/{replay,verdict}.rs`, `checkpoint.rs` | the checkpoint | `verify_log`, `create_checkpoint` | a prefix that is attested and not replayed; logs that were cut or edited | replay accepts what commits write; replay from a verified checkpoint agrees with replay from genesis |
| Context: `context/context.rs` | none | selection for a prompt | withdrawn and replaced records | nothing withdrawn is selected by default |
| Queries: `queries.rs` | none | q1 descent, q2 descendants, q3 siblings, q4 frontier, q5 standing, q6 evidence, q7 selected | lines that meet; standing that changed since | a report explains itself |
| Receipts and profiles: `receipt.rs`, `profiles/*` | none | offline validation | schema epochs, declarations, several claims for one request, retractions under a claim | a receipt proves no more than its log |
| Formats: `record/*`, `base/{canonical,hash,schema}.rs`, `manifest.rs` | none | canonical JSON, SHA-256, Ed25519 | character-level rules | identities are injective |
| Tools: `bin/bellbook.rs`, `bindings/`, `conformance/`, `fuzz/` | none | wrappers | | |

A host calls the writer; the writer calls the verifier with the State that the
host passed in, appends subject and verdict, and folds the pair into that
State. The verifier reads only the State and the prior log. Queries, contexts,
receipts and checkpoints read a finished log. There are no threads inside the
library: concurrency is between processes that share the directory and between
clients that share a writer.

## Modules

### LogWriter (with AtomicLedger, MCLogWriter, LogWriterProofs)

`LogWriter` is the commit protocol step by step. `disk` is the sequence of
complete frames, `torn` says that a partial one follows, `synced` how many
frames a `sync_data` has covered, `intent` the content of `.intent`. Each handle
has a program counter over the steps of `open_with_max_bytes` (`OpenLock`,
`OpenRead`, `OpenRefused`, `RecoverWrite`, `RecoverSync`, `OpenFinish`) and of
`commit_inner` (`CommitPrepare`, `WriteIntentFalse`, `WriteSubject`,
`SyncSubject`, `WriteIntentTrue`, `WriteVerdict`, `SyncVerdict`,
`CommitFinish`), and the fields of `struct LogWriter`. `IoError`, `Crash` and
`PowerLoss` may strike between any two of them; a failing write may leave a part
of its frame, a failing intent write the old or the new intent. A frame written
behind a torn one reads back as garbage. The host's `State` is a variable of its
own, which a host may let go stale and `Rebuild`.

Abstractions: frames have size one, so limits count frames; a record's id is its
time and content (hashing is injective); the verifier is a parameter
`Accepts(rules, state, proposal)`, in front of which `VerifyRecord` keeps the
two rejections that matter to replay (a foreign space, a Verdict kind);
`verify_log` is `VerifyLog`, as far as a log that was only ever committed can
tell (`Replay` has all of it); the directory entry of
`records.log` is durable, because the intent write syncs the directory before
the first frame. `set_len` and its sync are one step with the read, and an error
inside it is part of `IoError`.

`AtomicLedger` is what the writer promises: entries appear decided, in one
instant, on top of exactly the entries before them; only entries nobody
acknowledged can be lost. `LogWriter!ImplementsLedger` is the refinement, under
the mapping `DecidedEntries` (the complete pairs of the file).

### CheckedBatch (with MCCheckedBatch, CheckedBatchProofs)

`batch_commit` and `checked_batch_commit` over a log to which a commit that
succeeds adds its pair in one step, which is what `ImplementsLedger` justifies.
Clients build a batch on a head they saw, call, lose answers, resend the batch in
any order; hosts append without a check. A call may die between two pairs or within
one (`Interrupt`), and so may the open that recovers it (`InterruptReopen`).
`durable` counts the records, two to a pair, that a sync covers; `owed` says that the
last pair lacks its verdict, `torn` that a part of a frame follows. The sync of a
subject comes before the first byte of its verdict, so that one fault leaves at
most one record without a sync; the sync of a verdict that recovery appends covers the
subject too. That the pair of an owed verdict is already in `log` with its result is
sound because recovery derives the same verdict (`LogWriter`, `DecidedEntries`).
`SortBatch` puts each proposal at its `Place`, behind those of a smaller hash;
two proposals of one hash are equal, so that it need not matter which is first.

### Ledger and Governance (with MCGovernance, GovernanceProofs)

`Ledger` has what all kinds share: roles, references, replacement, evidence,
acceptance, the dependence index, retraction and taint. `Governance` has one
action per kind (Request, Plan, Response, Capability, exact and class Approval,
Action, Result, the three Refusals, Summary, Usage, Retraction), each the
conjunction of the kind's check and of its fold; `CommitRejected` is the commit
of any record the verifier rejects. A subject is its place in the log, with time
2i-1. Of rejected records only evaluations are read by anything modelled here
(`selection_evidence`), so a rejected record is one. An exact approval names the
pair of an author and an action instead of its hash. Left out: signatures and
payload decoding, the tasks of a plan (`PlanTasks`), the effect of retractions on evolution state (added by `Evolution`), and optional
references beyond `MaxUse` Use references on the
kinds of `Grant` and `Work` (an action may also Require the exact approval of its
hash without needing it). The constant `Grantees` and the fields of `bounds`
(`Expiries`, `Modes`, `Execs`, `Linked`, `MaxUse`, `MaxRejected` and the number
of records)
bound what the environment proposes, never what the code does.

`Context` extends `Governance` with `build_context_with`: `Eligible` is its
filter, `Newest` its order and limit, `ContextOf` the context under a policy.

### PlanTasks (with MCPlanTasks, PlanTasksProofs)

The rest of `check_plan`: `Check` has the checks before the cycle check, `Count`
builds the two maps of `has_cycle`, `Pop` and `Relax` are its loop, one
occurrence of a dependency at a time, and `Decide` is the comparison at its end
and the status check behind it. The order of the hash map and of the neighbours
is a choice. What a task's `result_record_id` names is "own" (an accepted result,
in the thread, of an action of the plan's request), something else, or nothing.

### Replay (with MCReplay, ReplayProofs)

`verify_log`, `check_verdict_record`, `build_state_unchecked` and the
checkpoints, over logs with a history: proposals are committed under any rules,
and the stored log is then cut, loses a record, has one altered under its old id
or rewritten under a new one, or gets another one. A host takes a checkpoint of a
log that it verified (`FromVerifiedLog`) or asserts one over any prefix
(`AssumeVerified`). Ids are the tuples that they are hashes of, and a record
carries the id it was stored under. What the envelope of a verdict record must
have is "ok" or not.

### Evolution, Queries and Receipts (with MCEvolution, EvolutionProofs, ReceiptsProofs)

`Evolution` extends `Governance` with the kinds of `evolution.rs`: Requirement,
Candidate (`CommitRoot`, `CommitContinuation`, `CommitDerivation`), Evaluation
and Selection, and the approvals of selections. `Retract` is the whole effect of
a retraction: that of `Governance`, the release of a requirement's key and the
revocation of a selection's approval. The knobs of `VerifierRules` that these
checks read are fields of `rules`. The hash of a selection is the triple of its author,
the record it replaces and the decision; since the code separates its domain
from that of action hashes, the part of `valid_approvals` for selections is a
variable of its own. An outcome `None` is a decision that selects nothing.
`Unsound`, `Chain`, `Replacers`, `Restorations`, `AnchorSound`, `Stands` and
`Compromised` are the report of `derive_standing` at the end of the log. Left
out: the well-formedness of git ids, manifests and artifact lists. `Authors`,
`Schemas`, `Bases`, `Bindings`, `Users`, `MaxDerived`, `NumJudged`, `Judgements`
(outcome, evidence and decider binding of an evaluation) and `Asked` (keys of
requirements, and whether they are required) are fields of `bounds` and bound
what is proposed, and so are `threads`, the kinds of `once`, of which one accepted
record is enough for a setting, the kinds an author leaves to others (`left`), the
artifacts of candidates, and those a result may carry (`Results` of `Governance`).
`Perform` has the capabilities, actions and results of `Governance` beside the
kinds of this module: a result puts artifacts on record that judgements cite.

`Queries` extends `Evolution` with the seven queries as operators over any of its
states: `Node` is the annotation of a record, `BackEdges` and `Visit` the walk
of `descent` with its queue and its set of seen records. Records are ordered as
the log is; ids would give another order of the steps of equal distance.

`Receipts` extends `Queries` with the validation of an exported log:
`SchemasFor` and `ReplaysIn` are the dispatch on the epoch, `Structural` what is
refused before replay, `Core`, `Signed` and `Delivery` the profiles with one
conjunct per clause, `EvaluateProfiles` and `Validate` the report, and
`ValidateCommand` what `bellbook validate` answers with. A receipt is the whole
log under a spec version with declarations, each of which names the clause table
of the validator or another one. Left out: byte limits, strict decoding, detail
texts and the weakest basis that reports print. A rejected record has a schema
that every epoch knows. `OnRecord` is what the evidence of a claim may cite: the
artifacts of the chosen candidate and of the results of the claim's thread at the
head of the log, those after the decision included.

### StandingWalk (with MCStandingWalk, StandingWalkProofs)

The iterative walk by which `derive_standing` evaluates that recursion: the
candidates are read (`Collect`), then visited in any order (`Visit`), with an
explicit stack (`Push`, `Settle`, `Drop`) and the memo `sound`. The order of hash
map keys and of a candidate's causes is a choice. The health of anchors is part
of the input; `Evolution` has how it is determined.

## Runs

| Run | Question | Bounds |
|---|---|---|
| `commit_protocol` | Is the commit protocol safe, and an atomic ledger? | two handles, two proposals (one accepted only after another), two rule sets, limits 5 and 8 frames, clock of 7, three faults |
| `recovery_live` | Is every interrupted commit completed, with room for its verdict? | one limit, two faults |
| `rejected_replay` | Does a log with any rejected record still replay? (no) | no fault; one commit suffices |
| `checked_batch` | Are retries idempotent? | two clients, one host, batches of one and two |
| `batch_live` | Does a client learn what became of its batch? | no power loss |
| `retry_durability` | Is a retried success durable? (no) | two faults, one power loss |
| `governance` | Was every action authorized when it was committed? Do slots, requests, plans, actions and turns follow the log? Is taint exact, and evidence never inflated? What does a context select? | four settings, below |
| `evolution` | Does a decision that stands rest on nothing withdrawn, and did it have an approval of its own? Through what can a line run, and how is lost standing restored? Do the queries explain what they report, and does a receipt claim more than its log? | eight settings, below |
| `requirement_keys` | Are the keys of live requirements unique? (no) | six records |
| `standing_walk` | Does the walk end with the standing that lineage gives, in every order? | four candidates, one of them retracted |
| `replay` | Which logs does replay accept, and what does a checkpoint change? | five records, two edits, two proposals in two threads, two rule sets |
| `plan_tasks` | Does the plan check accept exactly the acyclic, proven and consistent plans? | three tasks with two dependencies each, four with one, two with every status and proof |

The rules of a space never change, and neither do the bounds of a history; both
are variables that `Init` takes from the constant `Settings`, so that one run
covers several rule sets. Every invariant is checked under every setting. Those
of `governance` are

- `Authority`: capabilities of modes Ask and Deny, exact and class approvals,
  actions and retractions; five records, one expiry that passes and one that does
  not;
- `Slots`: the same kinds with mode Ask and replacement of capabilities and
  approvals, six records: long histories of granting, spending and granting again;
- `Lifecycle`: requests, plans, actions under an Auto capability, results,
  refusals, responses and usage reports, six records, turn ceiling 2;
- `Dependence`: five records with a Use each, one of them rejected: chains and
  late retractions;

and those of `evolution`

- `Judgement`: requirements, candidates, attested evaluations and selections, six
  records, under the default rules;
- `Mandate`: selections that need an approval, five records, an expiry that
  passes within them and one that does not, approvals that are spent, replaced or
  withdrawn and granted again for the same decision;
- `Binding`: `min_binding` Manifest over candidates of both bindings, evaluations
  of every schema, five records, one of them rejected;
- `Lines`: continuations, derivations and reaffirmations, six records;
- `Strict`: the same under `reject_compromised_continuation`, with decisions over
  two candidates and derivations from two, so that lines meet, five records;
- `Deliveries`: one request and one candidate, a required and an optional
  requirement, judgements that passed, failed or are bound to nothing, by two
  authors, selections that use up to two of them, retractions, six records, under
  the thresholds of the baseline; each state is exported under three spec
  versions, with and without declarations, one of which names another table;
- `Reclaimed`: the same with one judgement and several claims, of which one may be
  retracted, seven records: the latest claim falls, and an earlier one is evaluated;
- `Worked`: a judgement that cites an artifact no candidate carries, and the action
  whose result does, in two threads, eight records: the result comes before or after
  the decision, in its thread or in the other one.

The bounds are the smallest at which each hazard occurs: three faults allow a
crash, a failed recovery and a power loss in one history; a clock of 7 runs out
after two commits; six records allow grant, use, retraction, a new grant and
another use, or a decision, a continuation, the fall of the decision, its
reaffirmation and the fall of that, or a request, its requirement, a candidate,
its judgement, the claim and a retraction under it, a seventh another claim; eight
records are the request, its requirement, a candidate, its judgement, the claim, and
the capability, the action and the result behind the evidence; two edits rewrite a record
and the verdict behind it. Where several
invariants answer one question they are named parts of one property
(`HandleCoherent`, `RetriesIdempotent`, `RequestsEnd`, `WorkExact`,
`ContextSound`, `LinesExact`, `StandingReported`, `DecisionSound`,
`ReportSound`, `RegainedByWork`, `WalkExact`, `ReplaySound`,
`ExemptsPrefixOnly`). Every property has mutants, operators next to the one they
replace that make a plausible mistake, under which TLC finds the property
violated; a property with parts has them for each part. Deadlock is not checked: a host may stop, and the bounds end histories.

Fairness: `StandingWalk` and `PlanTasks` are one call each over finite data, which
runs to its end. In
`LogWriter` and `CheckedBatch` (`FairSpec`) the code of a handle
that is inside a call runs on (weak fairness on its steps: there is nothing it
waits for); hosts reopen a log nobody holds and drop a handle that answers
`RecoveryRequired`, which the library tells them to do; a client repeats a call
that failed, strongly fair because another call may hold the writer at times.

### Findings

1. `rejected_replay`: a rejected record of a foreign space makes the log
   unopenable, since its verdict inherits that space and replay refuses it; so
   does a rejected proposal of kind Verdict.
2. `retry_durability`: the no-op of `checked_batch_commit` reports success for a
   pair that only the page cache may hold. It takes two faults: a commit that dies
   before its subject is synced, and a recovery that dies between the write and the
   sync of the verdict. The open after that finds a whole pair and syncs nothing. With
   one fault the property holds: at most the verdict is lost, and recovery writes
   the same one again.
3. `requirement_keys`: an accepted record may be retracted twice, and the second
   retraction of a Requirement takes the key away from its correction, so that
   two live requirements can share it. The comment in the fold says that a second
   retraction does nothing.

The passing runs assume what 1 shows to be needed: hosts propose neither
(`Foreign = {}`, `VerdictKind = {}`).

Met on the way, without a run of their own:

- `log/writer/intent.rs:9-10` says that `written` "tells recovery whether a
  verdict may still be owed"; a crash between the append of the subject and the
  second intent write leaves one owed under `false`. Recovery is right not to
  read it.
- `verify/verifier/replay.rs:76-77` calls "every replayed verdict re-derives"
  unconditional. With a checkpoint that a host asserted over a split pair, a
  verdict later in the log on that subject is applied as stored. A verified
  checkpoint never covers such a prefix; `SuffixRederives` states the exception.
- After a power loss a retry need not be answered as the first success was: the
  loss may take a pair that the no-op of `checked_batch_commit` had answered for
  (finding 2), and since ids do not bind what came before a record, the batch may
  land on an equal head over another past and get other verdicts. `SameAnswer`
  therefore speaks of histories without a loss; the attempt to prove it without
  that condition showed the case, which the bounds of the run do not reach.
- The header of `queries.rs` says that only accepted records participate in
  evidence; `selection_evidence` lists rejected evaluations that a Selection
  used, so `EvidenceSound` speaks of the accepted ones.
- Epochs tell schemas apart and not fields: a "0.3" receipt whose candidates or results
  carry the later `artifacts` field validates. `EpochStable` claims nothing about
  either.
- A met delivery may rest on a candidate whose line is compromised, or on a
  request that was retracted: clause D7 asks for the soundness of the Selection.
  `DeliverySound` states what holds. `ExitZeroEarned` shows that the exit code
  still tells the second case apart.
- A comment in the `candidate` command (`bin/bellbook.rs`) says that the verifier
  would reject a derivation of a retracted candidate; it accepts one, and
  standing reports it compromised. The comment on `find_candidate` says
  "accepted", and it does not ask.

## Proofs

Every theorem holds for all values of the constants: any number of handles,
clients, actors, keys, records, tasks and faults, any rules and any verifier.

### Assumptions

The constants are what their names say (`WriterConstants`, `BatchConstants`,
`LedgerConstants`, `GovernanceConstants`, `ContextConstants`,
`EvolutionConstants`, `ReceiptsConstants`, `ReplayConstants`, `PlanTypes`,
`BoundsAssumption`); TLC evaluates these on every run. Of more than types:
`WriterConstants` has a clock of at least one tick; `BatchConstants` has
non-empty batches of ranked proposals, with a rank (the order of hashes) that
tells proposals apart; `LedgerConstants` lets no setting exceed the bound on
records; `ReceiptsConstants` has the three schemas of evaluations that exist, and
lists of declared and required profiles; `ReplayConstants` has a thread for every
proposal, and "Accept" among the results of verdicts; `PlanTypes` says that tasks
and dependencies are lists. Nothing is assumed of `Decide`, the verifier of
`Replay`.

Three hypotheses stand in the theorems themselves. `HostProposals`
(`VerdictKind = {}`) and `OwnSpace` (`Foreign = {}`): hosts propose neither
Verdicts nor records of another space; without them `PairedLog` and
`HandleCoherent` are false, which is finding 1. `Decides`: the verifier accepts
or rejects.

### The commit protocol

`LogWriterProofs` has `TypeOK`, `SingleWriter`, `PairedLog`, `AckedDurable`,
`AckedStable`, `HandleCoherent` and `ImplementsLedger`. The first two follow step
by step. `PairedLog` is not inductive: a
step that appends needs to know what the handle holds. The inductive invariant
(`IInv`) adds that the holder of the lock has in memory what is on disk up to the
frame it is writing, that its pair continues the log at the time its clock shows,
that a handle whose memory lags behind the file, or whose file is torn, has
`recovery_required` set, and that what is acknowledged is a synced prefix of
complete pairs.

For `HandleCoherent`, the invariant `CInv` adds what the
handle knows of the content: every record it holds is the one on disk, the
verdict of the pair under way is the verifier's on the State folded from exactly
the records below it, and there is a time left for the verdict of a subject at
the end of the file. The lemmas show that `VerifyLog` and `BuildState` of a log
depend on the prefix that they read only, so that an append decided on the whole
of a log that replays leaves one that replays.

For `ImplementsLedger`: writing a verdict frame, by
`commit_inner` or by a recovery, is `Commit` of `AtomicLedger`; a power loss or a
truncation loses entries nobody acknowledged; every other step leaves the decided
entries alone.

### Batches

`CheckedBatchProofs` has all safety properties of `CheckedBatch`. The invariant
`BInv` says where the pairs of a client can stand (`OwnPlace`), that a call in
progress has its batch's prefix in place up to where it stands (`CallOK`), and,
until a loss, that the pairs behind a first success are still there (`Kept`). The
part `FileOK` of the type invariant is kept by lemmas on what is stored
(`StoredIs`, `StoredIsThen`) through cuts, recoveries and losses.
That the order in which a batch is resent does not matter rests on lemmas about
`SortBatch`: `Place` is a bijection onto the places, so a sorted batch has the
same proposals, and a permutation of a batch sorts to the same list.

### Plans and the standing walk

`PlanTasksProofs` has `WalkExact` and `VerdictExact`. The invariant `PInv` says
that each in-degree counts the occurrences in `depends_on` that were not popped
yet, that what was visited has no cycle, and that only tasks at zero are queued.
At the end, if tasks are left, each of them waits for another one that is left,
so there is no order of them; if none is left, the queue is such an order.

`StandingWalkProofs` has `WalkExact` and that a finished walk leaves no candidate
out. By the invariant `WInv` a candidate that waits on the stack has each of its
unsettled dependencies above it, so that one that comes back to the top finds all
of them in the memo; the memo has what the whole lineage gives; and what has no
standing yet is still to be visited or on the stack.

### The fold

`GovernanceProofs` has `TypeOK`, `TaintExact`, `NoInflation`, `RequestsEnd`,
`WorkExact`, `SlotsAreLatest` and `AuditAuthority`. The invariant `GInv` has five
parts, and one lemma per action shows that it keeps them:

- `LedgerInv`: records rest on earlier ones, the dependence index inverts the
  references, taint is exact, and evidence is derived. `CascadeLeast` shows that
  `mark_tainted` computes the least set that is closed under dependence; a
  retraction and a record that inherits taint are two lemmas on top of it.
- `WorkInv`: the open actions, their counts, the slots of plans and the turns are
  those of the log, and nothing follows the record that ends a request. All kinds
  of work go through one lemma (`WorkStepKeeps`) about a step that adds a record
  of some kinds and changes the indexes as these kinds do.
- `GrantInv`: a slot holds the newest grant for its key unless that one is
  withdrawn or, for an exact approval, used (`SlotsNow`).
- `AuditInv`: the verdict on authority as an auditor reads it off the log. The
  slots say what is in force now; what was in force then does not change by what
  is appended (`PastBacked`).
- `ClaimInv`: summaries and usage counts.

`ContextSound` is there too. It speaks of everything a record rests on
(`Foundations`, a recursive function of the place in the log), while the fold
keeps only the taint set: `FoundationsAre` shows that the function exists and
unfolds, and `TaintIsFounded` that a record is tainted exactly if a retracted one
is among its foundations, both by the least record at which they would fail.
`NewestOf` shows that the limit keeps the newest of what is eligible, by counting.
`ReplacedInv` adds that the index of replaced records is that of the log.

### Recursive functions

The induction theorems of the library take a predicate as a parameter, which the
provers here cannot instantiate. What `Replay`, `Context`, `Queries`, `Receipts`
and the standing of `Evolution` define by recursion over the log is proved about
by the least counterexample instead: the places at which a statement fails are a
set of naturals, a non-empty one has a least element (`LeastPlace` and its like,
from the well-foundedness of the naturals), and there the step of the recursion
gives a contradiction. That a recursive function exists at all, and so equals
its defining equation, is shown the same way, from the functions on shorter
domains (`ProgressStep`, `RunExists`, `SolutionExists`, `CourseExists`).

### Replay and checkpoints

`ReplayProofs` has `TypeOK`, `ReplaySound`, `CheckpointAgrees` and
`ExemptsPrefixOnly`. The state that is inductive is small (`RInv`: the log is a
list of records, and a checkpoint is one of some list under some rules), because
the properties hold of every list of records, however it came about; the work is
in the function `Progress`. It is shown that a replay from genesis that is still
clean behind k pairs has read k commits (`Commits`) and is in the state of their
accepted subjects (`StateAfter`), and the converse; that `CommitLogs` builds
exactly these lists; that a record that was altered under its old id is found,
since ids determine records; and that two replays which agree in phase and state
at one place agree at every later one (`Alike`), so that resuming behind a prefix
that was replayed is replaying it. With a prefix that was only asserted, the same
steps show what is read behind it.

### Evolution and queries

`EvolutionProofs` has `EvTypeOK`, `KeysAreLive`, `AuditSelection`,
`DecisionSound`, the action property `FrontierForward`, and the part `ChosenLine`
of `LinesExact`. Its invariant `EvInv` is `LedgerInv` and

- `RecordFacts`: an accepted evaluation rests on what it judges, a decision
  requires what it chose, unwithdrawn then, among what it considered, and a
  continuation continues what its anchor chose. With exact taint this is
  `DecisionSound`: a withdrawal anywhere below a decision taints it.
- `DemandInv`: each key that is taken has a requirement that was not withdrawn.
  It says nothing of uniqueness, which is false (finding 3).
- `MandateInv`: an approval that can be used is the newest for its decision,
  neither withdrawn nor required by a decision yet.
- `MandateAudit`: what backed each decision, as an auditor reads it.

`ReceiptsProofs` has the rest: `LinesExact`, `StandingReported`, `ReportSound`,
`DeliverySound` and the action property `RegainedByWork`. To `EvInv` it adds
`DetailInv` (references point backwards, and what the schemas of evaluations and
the bases of candidates promise). Along the way:

- Descent. `Distances` is the reference: the least number of steps to each
  ancestor, by recursion over the log (`Measured`). The walk of `descent` is a
  queue of edges in which the levels rise by at most one (`Leveled`); what is
  nearer than the head of the queue was seen already (`Between`); each turn keeps
  that (`Takes`, `Walking`). A turn shortens the queue, or expands one more
  candidate by fewer edges than the log has records, so that `MaxVisits` turns
  empty it (`Bounded`). Then the line has every ancestor once, the nearer ones
  first (`WholeLine`).
- Standing. The recursion of `derive_standing` unfolds to a statement about the
  whole line (`StandsByLine`: a candidate stands exactly if each candidate of its
  line is not retracted and has an anchor that is sound or restored), and the line
  it recurs along is the one that is reported (`LineReached`).
- Regained standing. A step that accepts a record changes no line of an older
  candidate (`ClaimStep`, `WithdrawStep`); so what stands again has a new
  restoration of one of its anchors, which is the new decision itself. For a
  delivery the clauses are compared one by one before and after the step; what is on
  record for a claim after it and was not before is the result that the step commits
  (`OnRecordThen`).
- Reports. `EvaluateProfiles` is a run over what is required, which appends an
  entry only for a profile that has none (`ReportsOn`); the clauses of a
  delivery are read back from its failed ones (`DeliveryHolds`), and with
  `FoundedSays` (taint is withdrawn foundations) they are `DeliverySound`.

### What stays with TLC, and why

The four liveness properties, `Recovers`, `Settles`, `Completes` and `Ends`: the
prover has no rules for fairness and `ENABLED`. TLC checks them on the instances of
the table above; that a plan check or a standing walk that has ended is complete
and right (`VerdictExact`, `FinishedWalkIsTotal`) is proved.

The three runs that expect a violation have no theorem, of course; the theorems
say what holds instead (`HostProposals` and `OwnSpace` for the first,
`DemandInv` without uniqueness for the third).

## Plan

Done: the models of the commit protocol, batches, the generic checks, authority,
life cycle, plans with their tasks, taint, contexts, requirements, the evolution
kinds, standing, queries, receipts and profiles, and replay with checkpoints; the
runs; and a theorem for each of their safety properties. What could follow:

1. one composed model of `LogWriter` with `Governance` as its verifier, in place
   of the parameter `Accepts`;
2. the head attestations of `checkpoint.rs`, with several signers and a log that
   is forked between them.

## Not modelled

Canonical JSON, hashing and signatures (character-level or cryptographic; taken
as injective identities), the timestamp grammar and the head attestations of
`checkpoint.rs`, the commands of the command line other than `validate` (they
parse arguments, build one record or run one query, and print), the bindings,
the conformance reader and the fuzzers (wrappers and test drivers), manifests
(a walk over a file system, and path rules at the level of characters).
