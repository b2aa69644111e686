------------------------------ MODULE Receipts ------------------------------
(***************************************************************************)
(* The validation of an exported log (receipt.rs) and the profiles that are   *)
(* evaluated beside its verdict (profiles/): the baseline bellbook-core-v1,   *)
(* its signed tier and the delivery receipt.                                  *)
(*                                                                          *)
(* A receipt is the whole log with the rules of its space, an epoch and        *)
(* declarations.  That a log which was committed replays under its own rules   *)
(* is Replay's concern; here it is replayed under those of the epoch, which    *)
(* know fewer schemas.  Texts, hashes and byte limits are left out.            *)
(***************************************************************************)
EXTENDS Queries

\* Evaluations have three schemas; a receipt declares a sequence of profiles, and
\* what is asked for is one too.
ASSUME ReceiptsConstants ==
  \A s \in Settings :
    /\ s.bounds.schemas \subseteq {"v1", "v2", "attested"}
    /\ s.bounds.asked \in Seq(STRING)
    /\ \A receipt \in s.bounds.receipts : receipt.profiles \in Seq([id : STRING, matches : BOOLEAN])

-----------------------------------------------------------------------------
(* Epochs *)

\* SUPPORTED_SPEC_VERSIONS, oldest first.
Epochs == <<"0.3", "0.4">>
SpecVersion == "0.4"

\* The schema of an accepted record, as far as epochs tell schemas apart.
SchemaOf(i) ==
  CASE log[i].kind = "Requirement" -> "requirement"
    [] log[i].kind = "Evaluation" -> log[i].body.schema
    [] OTHER -> "frozen"

\* Mutant of SchemasFor: the older epoch knows requirements.
SchemasForWide(epoch) ==
  IF epoch = "0.3" THEN {"frozen", "v1", "requirement"} ELSE {"frozen", "v1", "v2", "attested", "requirement"}

\* schemas_for_epoch.
SchemasFor(epoch) ==
  IF epoch = "0.3" THEN {"frozen", "v1"} ELSE {"frozen", "v1", "v2", "attested", "requirement"}

\* rules_for_epoch, and the replay under them: an accepted record of a schema
\* that the epoch does not know would have been rejected.
ReplaysIn(epoch) == \A i \in accepted_records : SchemaOf(i) \in SchemasFor(epoch)

-----------------------------------------------------------------------------
(* Validation: a receipt has a spec_version and declarations <<id, matches>>,  *)
(* where matches says if version and hash name the table of the validator.     *)

\* check_declarations.
DeclarationsOk(receipt) ==
  LET ids == [n \in 1..Len(receipt.profiles) |-> receipt.profiles[n].id]
  IN  receipt.profiles # <<>> =>
        /\ receipt.spec_version # "0.3"
        /\ \A n \in 1..Len(ids) : ids[n] # ""
        /\ \A m, n \in 1..Len(ids) : ids[m] = ids[n] => m = n

\* A receipt that does not even reach replay.
Structural(receipt, limits) ==
  \/ 2 * Len(log) > limits.max_records
  \/ \E i \in accepted_records : Cardinality(log[i].refs) > limits.max_refs_per_record
  \/ receipt.spec_version \notin {Epochs[n] : n \in 1..Len(Epochs)}
  \/ ~DeclarationsOk(receipt)

\* ValidationStatus.
StatusOf(receipt) ==
  CASE ~ReplaysIn(receipt.spec_version) -> "Invalid"
    [] ReplaysIn(receipt.spec_version) /\ retracted_records \union tainted_records = {} -> "Clean"
    [] OTHER -> "Tainted"

-----------------------------------------------------------------------------
(* Profiles: a result has the clauses that failed *)

Result(id, failed) ==
  [id |-> id, status |-> IF failed = {} THEN "Conformant" ELSE "NonConformant",
   failed |-> failed, declared |-> FALSE, matches |-> TRUE]

Unmet(clauses) == {c[1] : c \in {d \in clauses : ~d[2]}}

\* met.
Met(result) == result.status = "Conformant" /\ (result.declared => result.matches)

\* What the baseline asks of the rules: the weakest evidence that they admit, and
\* the sizes of a context.
BaselineThreshold == [k \in {"Candidate", "Evaluation", "Selection"} |-> IF k = "Selection" THEN 3 ELSE 2]
BaselineContext == 1..100000

ThresholdsHold ==
  \A k \in DOMAIN BaselineThreshold : k \in DOMAIN Threshold /\ Threshold[k] <= BaselineThreshold[k]

ContextLimited == rules.max_context_records \in BaselineContext

\* evaluate_core_v1.
Core(receipt) ==
  Result("core", Unmet({
    <<"B1", StatusOf(receipt) # "Invalid">>,
    <<"B2", Actors # {}>>,
    <<"B3", ThresholdsHold>>,
    <<"B4", ContextLimited>>}))

\* evaluate_declared: the result, with what the receipt said of it.
AsDeclared(decl, result) ==
  [result EXCEPT !.declared = TRUE, !.matches = result.status = "Unknown" \/ decl.matches]

DeclarationsOf(receipt, id) ==
  {receipt.profiles[n] : n \in {m \in 1..Len(receipt.profiles) : receipt.profiles[m].id = id}}

\* Mutant of Baseline: what the receipt declares of the baseline is ignored.
BaselineFallback(receipt) == Core(receipt)

\* The baseline as the tiers above it take it: as declared, if it is.
Baseline(receipt) ==
  LET decls == DeclarationsOf(receipt, "core")
  IN  IF decls = {} THEN Core(receipt)
      ELSE AsDeclared(CHOOSE d \in decls : TRUE, Core(receipt))

-----------------------------------------------------------------------------
(* The signed tier *)

SignedKinds == {"Candidate", "Evaluation", "Selection", "Retraction", "Requirement"}

SignedClauses == {"S0", "S1", "S2", "S3"}

\* evaluate of signed_v1.
Signed(receipt) ==
  LET decided == {s \in Accepted("Selection") : log[s].body.selected # {}}
      relied == UNION {Evidences(log[s].refs) : s \in decided}
  IN  Result("signed",
        IF StatusOf(receipt) = "Invalid" THEN SignedClauses
        ELSE Unmet({
          <<"S0", Met(Baseline(receipt))>>,
          <<"S1", SignedKinds \subseteq rules.signature_required_kinds>>,
          <<"S2", {log[i].author : i \in UNION {Accepted(k) : k \in SignedKinds}} \subseteq Pinned>>,
          <<"S3", \A e \in relied : log[e].body.schema = "attested">>}))

-----------------------------------------------------------------------------
(* The delivery receipt *)

\* The requests whose requirements the judgements of selection s bind to.
RequestsOf(s) ==
  {log[q].body.request : q \in UNION {log[e].body.requirements : e \in Evidences(log[s].refs)}}

\* A delivery claim is a decision whose judgements bind to one request.
DeliveryClaims ==
  {s \in Accepted("Selection") : log[s].body.selected # {} /\ Cardinality(RequestsOf(s)) = 1}

\* The latest claim for request r that stands, or the latest if none does.
ClaimFor(r) ==
  LET group == {s \in DeliveryClaims : r \in RequestsOf(s)}
  IN  Max(IF group \subseteq Unsound THEN group ELSE group \ Unsound)

EvaluatedClaims == {ClaimFor(r) : r \in UNION {RequestsOf(s) : s \in DeliveryClaims}}

\* Mutant of RequiredBy: what was required when the claim was made.
RequiredByThen(s) ==
  {q \in Accepted("Requirement") \ retracted_records :
     log[q].body.request \in RequestsOf(s) /\ log[q].body.required /\ q < s}

\* What the request of claim s requires at the head of the log.
RequiredBy(s) ==
  {q \in Accepted("Requirement") \ retracted_records :
     log[q].body.request \in RequestsOf(s) /\ log[q].body.required}

\* D1: a judgement that claim s uses passed requirement q.
Covers(s, q) ==
  \E e \in Evidences(log[s].refs) \ retracted_records :
    log[e].body.outcome = "passed" /\ q \in log[e].body.requirements

\* D2: a judgement of what is required that claim s uses passed.
Truthful(s) ==
  \A e \in Evidences(log[s].refs) :
    log[e].body.requirements \intersect RequiredBy(s) # {} => log[e].body.outcome = "passed"

\* Mutant of OnRecord: the results of every thread.
OnRecordAnywhere(s) ==
  UNION {log[c].body.artifacts : c \in log[s].body.selected \union Accepted("Result")}

\* The artifacts on record for claim s, at the head of the log: those of what it
\* chose and of the results of its thread, withdrawn ones included.
OnRecord(s) ==
  UNION {log[c].body.artifacts :
           c \in log[s].body.selected
                  \union {r \in Accepted("Result") : log[r].body.thread = log[s].body.thread}}

\* D3: claim s chose one candidate, and all that was judged is that candidate, on
\* evidence that is on record.
Bound(s) ==
  /\ Cardinality(log[s].body.selected) = 1
  /\ \A e \in Evidences(log[s].refs) :
       /\ log[e].body.schema # "v1"
       /\ {log[e].body.candidate} = log[s].body.selected
       /\ log[e].body.evidence # {}
       /\ log[e].body.evidence \subseteq OnRecord(s)

\* Mutant of Separate: somebody else judged the candidate, for the claim or not.
SeparateAny(s) ==
  /\ Cardinality(log[s].body.selected) = 1
  /\ \A c \in log[s].body.selected : \E e \in Accepted("Evaluation") :
       log[e].body.candidate = c /\ log[e].author # log[c].author

\* D4: nobody judged their own work.
Separate(s) ==
  /\ Cardinality(log[s].body.selected) = 1
  /\ \A e \in Evidences(log[s].refs) : \A c \in log[s].body.selected : log[e].author # log[c].author

\* D5: every judgement names who decided it, by what procedure, on what input.
Decided(s) ==
  /\ Evidences(log[s].refs) # {}
  /\ \A e \in Evidences(log[s].refs) : log[e].body.schema # "v1" /\ log[e].body.bound

DeliveryClauses == {"D0", "D1", "D2", "D3", "D4", "D5", "D6", "D7"}

\* evaluate of delivery_v1: a clause holds if it holds for every claim.
Delivery(receipt) ==
  LET claimed == EvaluatedClaims
  IN  Result("delivery",
        IF StatusOf(receipt) = "Invalid" \/ claimed = {} THEN DeliveryClauses
        ELSE Unmet({
          <<"D1", \A s \in claimed : \A q \in RequiredBy(s) : Covers(s, q)>>,
          <<"D2", \A s \in claimed : Truthful(s)>>,
          <<"D3", \A s \in claimed : Bound(s)>>,
          <<"D4", \A s \in claimed : Separate(s)>>,
          <<"D5", \A s \in claimed : Decided(s)>>,
          <<"D6", Met(Baseline(receipt))>>,
          <<"D7", \A s \in claimed : Sound(s)>>}))

-----------------------------------------------------------------------------
(* Reports *)

\* evaluate_profile.
Evaluate(id, receipt) ==
  CASE id = "core" -> Core(receipt)
    [] id = "signed" -> Signed(receipt)
    [] id = "delivery" -> Delivery(receipt)
    [] OTHER -> [Result(id, {}) EXCEPT !.status = "Unknown"]

\* evaluate_profiles: the declared profiles, then what was required of the
\* others, each once.
EvaluateProfiles(receipt, required) ==
  LET declared == [n \in 1..Len(receipt.profiles) |->
        AsDeclared(receipt.profiles[n], Evaluate(receipt.profiles[n].id, receipt))]
      added[n \in 0..Len(required)] ==
        IF n = 0 THEN declared
        ELSE LET out == added[n - 1]
             IN  IF \E m \in 1..Len(out) : out[m].id = required[n] THEN out
                 ELSE Append(out, Evaluate(required[n], receipt))
  IN  added[Len(required)]

\* validate_with_profiles.
Validate(receipt, limits, required) ==
  IF Structural(receipt, limits)
    THEN [status |-> "Invalid", problem |-> TRUE, profiles |-> <<>>]
    ELSE [status |-> StatusOf(receipt), problem |-> FALSE,
          profiles |-> EvaluateProfiles(receipt, required)]

\* Mutant of ValidateCommand: with its profiles met, a tainted receipt will do.
ValidateCommandMet(receipt, limits, required) ==
  LET report == Validate(receipt, limits, required)
      missed == \E n \in 1..Len(report.profiles) : ~Met(report.profiles[n])
  IN  CASE report.status = "Invalid" -> 1
        [] report.status # "Invalid" /\ missed -> 3
        [] report.status # "Invalid" /\ ~missed /\ required # <<>> -> 0
        [] OTHER -> IF report.status = "Clean" THEN 0 ELSE 2

\* cmd_validate of the command line: its exit code on a file that it can read.
ValidateCommand(receipt, limits, required) ==
  LET report == Validate(receipt, limits, required)
      missed == \E n \in 1..Len(report.profiles) : ~Met(report.profiles[n])
  IN  CASE report.status = "Invalid" -> 1
        [] report.status # "Invalid" /\ missed -> 3
        [] report.status = "Clean" /\ ~missed -> 0
        [] report.status = "Tainted" /\ ~missed -> 2

-----------------------------------------------------------------------------
(* Properties.  They are about the receipts that a setting exports.            *)

Plain == [spec_version |-> SpecVersion, profiles |-> <<>>]
Delivered == Met(Delivery(Plain))

\* An old epoch keeps its meaning: whatever is appended, a receipt of it reports
\* what the current epoch reports, or Invalid; and one that it does not find
\* invalid has no requirement, and no evaluation with requirements or evidence, for
\* a query or a claim to report, so it cannot be a delivery.  (Epochs tell schemas
\* apart: the artifacts of candidates and results, fields of frozen schemas, are
\* reported under either.)
EpochStable ==
  LET old == [Plain EXCEPT !.spec_version = "0.3"]
  IN  \/ StatusOf(old) = "Invalid"
      \/ /\ StatusOf(old) = StatusOf(Plain)
         /\ Accepted("Requirement") = {} /\ DeliveryClaims = {}
         /\ \A e \in Accepted("Evaluation") : Node(e).requirements = {} /\ Node(e).artifacts = {}

\* A report has one entry for each profile that was declared or required, those
\* declared first and as declared; an invalid log meets no profile; and no tier
\* is met beside a baseline that is not, even when it is only the declaration of
\* the baseline that names another table.
ReportCoherent ==
  \A receipt \in bounds.receipts :
    LET report == Validate(receipt, bounds.limits, bounds.asked)
        out == report.profiles
        ids == {out[n].id : n \in 1..Len(out)}
    IN  ~report.problem =>
          /\ Cardinality(ids) = Len(out)
          /\ ids = {receipt.profiles[n].id : n \in 1..Len(receipt.profiles)}
                     \union {bounds.asked[n] : n \in 1..Len(bounds.asked)}
          /\ \A n \in 1..Len(out) : out[n].declared <=> n <= Len(receipt.profiles)
          /\ (\/ report.status = "Invalid"
              \/ \E n \in 1..Len(out) : out[n].id = "core" /\ ~Met(out[n]))
               => \A n \in 1..Len(out) : ~Met(out[n]) \/ (out[n].id = "core" /\ report.status # "Invalid")

\* A delivery that is reported met can be relied on as it stands at the head:
\* behind each claim nothing was withdrawn, down to the last record it rests on;
\* every requirement that its request now has was passed for the one candidate it
\* chose, by somebody who did not make it; and no later claim for the request
\* stands.
DeliverySound ==
  bounds.receipts # {} /\ Delivered =>
    /\ EvaluatedClaims # {}
    /\ \A s \in EvaluatedClaims :
         /\ (Foundations[s] \union {s}) \intersect retracted_records = {}
         /\ \A q \in Accepted("Requirement") \ retracted_records :
              (log[q].body.required /\ log[q].body.request \in RequestsOf(s)) =>
                \E e \in Foundations[s] \intersect Accepted("Evaluation") :
                  /\ q \in log[e].body.requirements /\ log[e].body.outcome = "passed"
                  /\ {log[e].body.candidate} = log[s].body.selected
                  /\ log[e].author # log[log[e].body.candidate].author
         /\ \A t \in DeliveryClaims : (RequestsOf(t) = RequestsOf(s) /\ t > s) => t \in Unsound

\* The exit code 0 is a promise about the whole log.  With the delivery required
\* it is given only under the current epoch, where every declaration names the
\* table of the validator, to a delivery in a log in which nothing was retracted:
\* a retraction, even of what no claim rests on, is never hidden by profiles that
\* are met ("the receipt reports Tainted from then on - permanently").
ExitZeroEarned ==
  \A receipt \in bounds.receipts :
    ValidateCommand(receipt, bounds.limits, <<"delivery">>) = 0 =>
      /\ receipt.spec_version = SpecVersion
      /\ \A n \in 1..Len(receipt.profiles) : receipt.profiles[n].matches
      /\ DeliveryClaims # {} /\ Accepted("Retraction") = {}

\* A receipt reports no more than its log bears out: in every epoch, in every
\* entry and in the exit code.
ReportSound == EpochStable /\ ReportCoherent /\ ExitZeroEarned

\* The new record is a result that puts on record, for claim s, an artifact which a
\* judgement of that claim cites.
Evidenced(s) ==
  /\ log'[NextId].kind = "Result" /\ log'[NextId].body.thread = log[s].body.thread
  /\ \E e \in Evidences(log[s].refs) :
       (log[e].body.evidence \intersect log'[NextId].body.artifacts) \ OnRecord(s) # {}

\* A delivery that is not met becomes so by a decision, by a result that carries
\* what a judgement of an evaluated claim cites and nothing on record carried, or
\* by a retraction of a requirement or of what a claim evaluated before rested on;
\* never by a further judgement, candidate, request or requirement alone.
DeliveryRegained ==
  [][bounds.receipts # {} /\ ~Delivered /\ Delivered' =>
       \/ log'[NextId].kind = "Selection"
       \/ \E s \in EvaluatedClaims : Evidenced(s)
       \/ log'[NextId].kind = "Retraction"
          /\ \/ log'[NextId].body.target \in Accepted("Requirement")
             \/ EvaluatedClaims \intersect (Unsound' \ Unsound) # {}]_evolution

\* What was lost comes back only by work that was done again: standing by a
\* decision for the same line, a delivery by a decision, a result that was missing
\* or a withdrawn demand.
RegainedByWork == LostUntilReaffirmed /\ DeliveryRegained
=============================================================================
