--------------------------- MODULE ReceiptsProofs ---------------------------
(***************************************************************************)
(* Receipts, the profiles beside their verdict, and the standing that the     *)
(* queries report, for every set of actors, every setting and every length    *)
(* of the log.                                                               *)
(***************************************************************************)
EXTENDS Receipts, EvolutionProofs

-----------------------------------------------------------------------------
(* More of what accepted records say *)

\* A judgement under the first of the three schemas binds to nothing.
BareFact(body) ==
  /\ body.schema \in {"v1", "v2", "attested"}
  /\ body.schema = "v1" => body.requirements = {} /\ body.evidence = {}

\* A candidate is caused by what its basis says: a continuation by one decision,
\* a derivation by candidates and judgements.
CauseFact(body, refs) ==
  /\ body.causes = Targets(refs, "Cause")
  /\ body.basis \in {"Root", "Continuation", "Derivation"}
  /\ body.basis = "Continuation" => \E s : body.causes = {s}
  /\ body.basis = "Derivation" => body.causes \subseteq Accepted("Candidate") \union Accepted("Evaluation")

\* What a setting exports are receipts.
ExportsTyped ==
  /\ bounds.schemas \subseteq {"v1", "v2", "attested"}
  /\ bounds.asked \in Seq(STRING)
  /\ \A receipt \in bounds.receipts : receipt.profiles \in Seq([id : STRING, matches : BOOLEAN])

\* References point backwards, and records say what their kinds promise.
DetailInv ==
  /\ ExportsTyped
  /\ \A i \in accepted_records : \A r \in log[i].refs : r.target \in 1..(i - 1)
  /\ \A e \in Accepted("Evaluation") : BareFact(log[e].body)
  /\ \A c \in Accepted("Candidate") : CauseFact(log[c].body, log[c].refs)

LEMMA DetailsKeep ==
  ASSUME LogInv, DetailInv, NEW kind, NEW a, NEW body, NEW refs, Accept(kind, a, body, refs),
         kind = "Evaluation" => BareFact(body), kind = "Candidate" => CauseFact(body, refs)
  PROVE  DetailInv'
<1>1. /\ Adds({kind}) /\ accepted_records' = accepted_records \union {NextId}
      /\ log'[NextId].refs = refs /\ log'[NextId].body = body
      /\ \A r \in refs : r.target \in 1..Len(log)
  BY AcceptAdds
<1>2. bounds' = bounds
  BY DEF Accept, setting
<1>3. /\ \A i \in 1..Len(log) : log'[i] = log[i]
      /\ \A k : Accepted(k)' = Accepted(k) \union (IF k \in {kind} THEN {NextId} ELSE {})
      /\ \A k : Accepted(k) \subseteq 1..Len(log)
      /\ NextId = Len(log) + 1 /\ Len(log) \in Nat
  BY <1>1, AddedFacts
<1>4. ASSUME NEW b, NEW rs, CauseFact(b, rs) PROVE CauseFact(b, rs)'
  <2>1. Accepted("Candidate") \subseteq Accepted("Candidate")' /\ Accepted("Evaluation") \subseteq Accepted("Evaluation")'
    BY <1>3
  <2> QED BY <1>4, <2>1 DEF CauseFact, Targets
<1>5. ASSUME NEW i \in accepted_records', NEW r \in log'[i].refs PROVE r.target \in 1..(i - 1)
  <2>1. CASE i \in accepted_records
    BY <1>3, <1>5, <2>1 DEF DetailInv, LogInv
  <2>2. CASE i = NextId
    BY <1>1, <1>3, <1>5, <2>2
  <2> QED BY <1>1, <2>1, <2>2
<1>6. ASSUME NEW e \in Accepted("Evaluation")' PROVE BareFact(log'[e].body)
  <2>1. CASE e \in Accepted("Evaluation")
    BY <1>3, <2>1 DEF DetailInv
  <2>2. CASE e = NextId /\ kind = "Evaluation"
    BY <1>1, <2>2
  <2> QED BY <1>3, <2>1, <2>2
<1>7. ASSUME NEW c \in Accepted("Candidate")' PROVE CauseFact(log[c].body, log[c].refs)'
  <2>1. CASE c \in Accepted("Candidate")
    <3>1. CauseFact(log[c].body, log[c].refs)
      BY <2>1 DEF DetailInv
    <3>2. log'[c] = log[c]
      BY <1>3, <2>1
    <3>3. \A b, rs : CauseFact(b, rs) => CauseFact(b, rs)'
      BY <1>4
    <3>4. PICK b, rs : b = log[c].body /\ rs = log[c].refs
      OBVIOUS
    <3>5. CauseFact(b, rs)' /\ b = log'[c].body /\ rs = log'[c].refs
      BY <3>1, <3>2, <3>3, <3>4
    <3> QED BY <3>5 DEF CauseFact, Targets
  <2>2. CASE c = NextId /\ kind = "Candidate"
    <3>1. CauseFact(body, refs)'
      BY <1>4, <2>2
    <3> QED BY <1>1, <2>2, <3>1 DEF CauseFact, Targets
  <2> QED BY <1>3, <2>1, <2>2
<1>8. ExportsTyped'
  BY <1>2 DEF DetailInv, ExportsTyped
<1>9. \A e \in Accepted("Evaluation")' : BareFact(log[e].body)'
  BY <1>6 DEF BareFact
<1> QED BY <1>5, <1>7, <1>8, <1>9 DEF DetailInv

\* What a proposal of each basis says.
LEMMA ProposalDetails ==
  ASSUME LogInv, DetailInv, NEW a, NEW basis, NEW parent, NEW causes, NEW b, NEW uses,
         Propose(a, basis, parent, causes, b, uses), \A r \in uses : r.type = "Use",
         basis \in {"Root", "Continuation", "Derivation"},
         basis = "Continuation" => \E s : causes = {s},
         basis = "Derivation" => causes \subseteq Accepted("Candidate") \union Accepted("Evaluation")
  PROVE  DetailInv'
<1> DEFINE body == [basis |-> basis, parent |-> parent, causes |-> causes, binding |-> b,
                    artifacts |-> bounds.artifacts]
           refs == uses \union CauseRefs(causes)
<1>1. Accept("Candidate", a, body, refs) /\ body.basis = basis /\ body.causes = causes
  BY DEF Propose
<1>2. causes = Targets(refs, "Cause")
  <2>1. \A t : Ref("Cause", t).type = "Cause" /\ Ref("Cause", t).target = t
    BY DEF Ref
  <2>2. ASSUME NEW t \in causes PROVE t \in Targets(refs, "Cause")
    <3>1. Ref("Cause", t) \in refs
      BY DEF CauseRefs
    <3> QED BY <2>1, <3>1 DEF Targets
  <2>3. ASSUME NEW t \in Targets(refs, "Cause") PROVE t \in causes
    <3>1. PICK r \in refs : r.type = "Cause" /\ r.target = t
      BY DEF Targets
    <3>2. r \in CauseRefs(causes)
      BY <3>1
    <3> QED BY <2>1, <3>1, <3>2 DEF CauseRefs
  <2> QED BY <2>2, <2>3
<1> HIDE DEF body, refs
<1>3. CauseFact(body, refs)
  BY <1>1, <1>2 DEF CauseFact
<1> QED BY <1>1, <1>3, DetailsKeep

LEMMA DetailsStep ==
  ASSUME EvInv, DetailInv, EvNext
  PROVE  DetailInv'
<1>1. LogInv
  BY DEF EvInv, LedgerInv
<1>2. CASE \E a \in Authors, th \in Threads : Develop(a, th)
  <2>1. PICK a, th : Develop(a, th)
    BY <1>2
  <2>2. CASE \E causes, b, uses : uses \in UsesOf("Candidate") /\ CommitRoot(a, causes, b, uses)
    <3>1. PICK causes, b, uses : uses \in UsesOf("Candidate") /\ CommitRoot(a, causes, b, uses)
      BY <2>2
    <3>2. Propose(a, "Root", None, causes, b, uses) /\ \A r \in uses : r.type = "Use"
      BY <3>1, UsesOfAreUses DEF CommitRoot
    <3> QED BY <1>1, <3>2, ProposalDetails
  <2>3. CASE \E s, p, b, uses : uses \in UsesOf("Candidate") /\ CommitContinuation(a, s, p, b, uses)
    <3>1. PICK s, p, b, uses : uses \in UsesOf("Candidate") /\ CommitContinuation(a, s, p, b, uses)
      BY <2>3
    <3>2. Propose(a, "Continuation", p, {s}, b, uses) /\ \A r \in uses : r.type = "Use"
      BY <3>1, UsesOfAreUses DEF CommitContinuation
    <3> QED BY <1>1, <3>2, ProposalDetails
  <2>4. CASE \E causes, b, uses : uses \in UsesOf("Candidate") /\ CommitDerivation(a, causes, b, uses)
    <3>1. PICK causes, b, uses : uses \in UsesOf("Candidate") /\ CommitDerivation(a, causes, b, uses)
      BY <2>4
    <3>2. /\ Propose(a, "Derivation", None, causes, b, uses) /\ \A r \in uses : r.type = "Use"
          /\ causes \subseteq Accepted("Candidate") \union Accepted("Evaluation")
      BY <3>1, UsesOfAreUses DEF CommitDerivation
    <3> QED BY <1>1, <3>2, ProposalDetails
  <2>5. CASE \E c, reqs, s, j, uses : s \in Schemas /\ CommitEvaluation(a, c, reqs, s, j, uses)
    <3>1. PICK c, reqs, s, j, uses : s \in Schemas /\ CommitEvaluation(a, c, reqs, s, j, uses)
      BY <2>5
    <3> DEFINE body == [candidate |-> c, requirements |-> reqs, schema |-> s,
                        outcome |-> j.outcome, evidence |-> j.evidence, bound |-> j.bound]
    <3>2. /\ \E refs : Accept("Evaluation", a, body, refs)
          /\ s = "v1" => reqs = {} /\ j.evidence = {}
      BY <3>1, Zenon DEF CommitEvaluation
    <3>3. s \in {"v1", "v2", "attested"}
      BY <3>1 DEF DetailInv, ExportsTyped, Schemas
    <3>4. BareFact(body)
      BY <3>2, <3>3 DEF BareFact
    <3> HIDE DEF body
    <3> QED BY <1>1, <3>2, <3>4, DetailsKeep
  <2>6. CASE \E d, r, uses : CommitSelection(a, th, d, r, uses)
    <3>1. \E body, refs : Accept("Selection", a, body, refs)
      BY <2>6, Zenon DEF CommitSelection
    <3> QED BY <1>1, <3>1, DetailsKeep
  <2>7. CASE \E target, uses : Retract(a, th, target, uses)
    <3>1. \E body, refs : Accept("Retraction", a, body, refs)
      BY <2>7, Zenon DEF Retract, CommitRetraction
    <3> QED BY <1>1, <3>1, DetailsKeep
  <2> QED BY <2>1, <2>2, <2>3, <2>4, <2>5, <2>6, <2>7 DEF Develop
<1>3. CASE \E a \in Authors, th \in Threads : Demand(a, th)
  <2>1. PICK a, th : Demand(a, th)
    BY <1>3
  <2>2. CASE \E sc, p, uses : CommitRequest(a, th, sc, p, uses)
    <3>1. \E body, refs : Accept("Request", a, body, refs)
      BY <2>2, Zenon DEF CommitRequest
    <3> QED BY <1>1, <3>1, DetailsKeep
  <2>3. CASE \E req, key, required : CommitRequirement(a, th, req, key, required)
    <3>1. \E body, refs : Accept("Requirement", a, body, refs)
      BY <2>3, Zenon DEF CommitRequirement
    <3> QED BY <1>1, <3>1, DetailsKeep
  <2>4. CASE \E hash, actor, sc, e, repl : ApproveSelection(a, hash, actor, sc, e, repl)
    <3>1. \E body, refs : Accept("Approval", a, body, refs)
      BY <2>4, Zenon DEF ApproveSelection
    <3> QED BY <1>1, <3>1, DetailsKeep
  <2> QED BY <2>1, <2>2, <2>3, <2>4 DEF Demand
<1>4. CASE CommitRejected
  <2>1. Reject
    BY <1>4 DEF CommitRejected
  <2>2. Adds({}) /\ accepted_records' = accepted_records /\ bounds' = bounds
    BY <1>1, <2>1, RejectAdds DEF Reject, setting
  <2>3. /\ \A i \in accepted_records : log'[i] = log[i]
        /\ \A k : Accepted(k)' = Accepted(k)
        /\ \A k : Accepted(k) \subseteq accepted_records
    BY SMTT(60), <1>1, <2>2, AddedFacts DEF LogInv, Accepted
  <2>4. \A i \in accepted_records' : \A r \in log'[i].refs : r.target \in 1..(i - 1)
    BY <2>2, <2>3 DEF DetailInv
  <2>5. \A e \in Accepted("Evaluation")' : BareFact(log[e].body)'
    BY <2>3 DEF DetailInv, BareFact
  <2>6. \A c \in Accepted("Candidate")' : CauseFact(log[c].body, log[c].refs)'
    BY <2>3 DEF DetailInv, CauseFact, Targets
  <2>7. ExportsTyped'
    BY <2>2 DEF DetailInv, ExportsTyped
  <2> QED BY <2>4, <2>5, <2>6, <2>7 DEF DetailInv
<1>5. CASE \E a \in Authors, th \in Threads : Perform(a, th)
  <2>1. PICK kind \in {"Capability", "Action", "Result"} : Commits(kind)
    BY <1>5, PerformCommits
  <2>2. kind # "Evaluation" /\ kind # "Candidate"
    BY <2>1
  <2>3. \E a, body, refs : Accept(kind, a, body, refs)
    BY <2>1 DEF Commits
  <2> QED BY <1>1, <2>2, <2>3, DetailsKeep
<1> QED BY <1>2, <1>3, <1>4, <1>5 DEF EvNext

LEMMA DetailsAlways == EvSpec => []DetailInv
<1>1. EvInit => DetailInv
  <2> SUFFICES ASSUME EvInit PROVE DetailInv
    OBVIOUS
  <2>1. accepted_records = {} /\ \E s \in Settings : bounds = s.bounds
    BY DEF EvInit, Init, LedgerInit
  <2>2. ExportsTyped
    BY <2>1, ReceiptsConstants DEF ExportsTyped
  <2> QED BY <2>1, <2>2 DEF DetailInv, Accepted
<1>2. EvInv /\ DetailInv /\ [EvNext]_evolution => DetailInv'
  <2>1. ASSUME DetailInv, UNCHANGED evolution PROVE DetailInv'
    BY <2>1 DEF DetailInv, ExportsTyped, BareFact, CauseFact, Accepted, Targets, evolution, vars,
                epistemic, setting
  <2> QED BY <2>1, DetailsStep
<1> QED BY <1>1, <1>2, EvInvAlways, PTL DEF EvSpec

-----------------------------------------------------------------------------
(* What an old epoch says *)

\* Under the older epoch, a log that replays has neither requirements nor
\* judgements that bind to one, so no claim either.
LEMMA OldEpochIsBare ==
  ASSUME LogInv, DetailInv, ReplaysIn("0.3")
  PROVE  /\ Accepted("Requirement") = {}
         /\ \A e \in Accepted("Evaluation") : log[e].body.requirements = {} /\ log[e].body.evidence = {}
         /\ \A s : RequestsOf(s) = {}
         /\ DeliveryClaims = {} /\ EvaluatedClaims = {}
<1>1. ASSUME NEW i \in accepted_records PROVE SchemaOf(i) \in {"frozen", "v1"}
  BY DEF ReplaysIn, SchemasFor
<1>2. ASSUME NEW i \in Accepted("Requirement") PROVE FALSE
  <2>1. SchemaOf(i) = "requirement" /\ i \in accepted_records
    BY DEF SchemaOf, Accepted
  <2> QED BY <1>1, <2>1
<1>3. ASSUME NEW e \in Accepted("Evaluation")
      PROVE  log[e].body.requirements = {} /\ log[e].body.evidence = {}
  <2>1. log[e].kind = "Evaluation" /\ e \in accepted_records
    BY DEF Accepted
  <2>2. SchemaOf(e) = log[e].body.schema
    BY <2>1 DEF SchemaOf
  <2>3. SchemaOf(e) \in {"frozen", "v1"} /\ BareFact(log[e].body)
    BY <1>1, <2>1 DEF DetailInv
  <2> QED BY <2>2, <2>3 DEF BareFact
<1>4. ASSUME NEW s PROVE RequestsOf(s) = {}
  <2>1. \A e \in Evidences(log[s].refs) : log[e].body.requirements = {}
    BY <1>3 DEF Evidences
  <2> QED BY <2>1 DEF RequestsOf
<1>5. DeliveryClaims = {}
  <2>1. Cardinality({}) = 0
    BY FS_EmptySet
  <2> QED BY <1>4, <2>1 DEF DeliveryClaims
<1>6. EvaluatedClaims = {}
  BY <1>5 DEF EvaluatedClaims
<1> QED BY <1>2, <1>3, <1>4, <1>5, <1>6

LEMMA StatusSays ==
  ASSUME NEW receipt
  PROVE  /\ StatusOf(receipt) \in {"Invalid", "Clean", "Tainted"}
         /\ StatusOf(receipt) = "Invalid" <=> ~ReplaysIn(receipt.spec_version)
         /\ StatusOf(receipt) = "Clean" =>
              ReplaysIn(receipt.spec_version) /\ retracted_records \union tainted_records = {}
<1>1. CASE ~ReplaysIn(receipt.spec_version)
  BY <1>1 DEF StatusOf
<1>2. CASE ReplaysIn(receipt.spec_version) /\ retracted_records \union tainted_records = {}
  <2>1. StatusOf(receipt) = "Clean"
    BY <1>2 DEF StatusOf
  <2> QED BY <1>2, <2>1
<1>3. CASE ReplaysIn(receipt.spec_version) /\ retracted_records \union tainted_records # {}
  <2>1. StatusOf(receipt) = "Tainted"
    BY <1>3 DEF StatusOf
  <2> QED BY <1>3, <2>1
<1> QED BY <1>1, <1>2, <1>3

\* Whatever was appended, a receipt of the older epoch is invalid or says what
\* the current epoch says, and then nothing of the later epoch is in the log.
LEMMA OldEpochStable ==
  ASSUME LogInv, DetailInv
  PROVE  EpochStable
<1> DEFINE old == [Plain EXCEPT !.spec_version = "0.3"]
<1>1. old.spec_version = "0.3" /\ Plain.spec_version = "0.4"
  BY DEF Plain, SpecVersion
<1> HIDE DEF old
<1> SUFFICES ASSUME ReplaysIn("0.3")
             PROVE  /\ StatusOf(old) = StatusOf(Plain)
                    /\ Accepted("Requirement") = {} /\ DeliveryClaims = {}
                    /\ \A e \in Accepted("Evaluation") : Node(e).requirements = {} /\ Node(e).artifacts = {}
  BY <1>1, StatusSays DEF EpochStable, old
<1>2. ReplaysIn("0.4")
  BY DEF ReplaysIn, SchemasFor
<1>3. StatusOf(old) = StatusOf(Plain)
  BY <1>1, <1>2 DEF StatusOf
<1>4. ASSUME NEW e \in Accepted("Evaluation") PROVE Node(e).requirements = {} /\ Node(e).artifacts = {}
  <2>1. log[e].body.requirements = {} /\ log[e].body.evidence = {}
    BY OldEpochIsBare
  <2>2. e \notin Accepted("Candidate") \union Accepted("Result")
    BY DEF Accepted
  <2>3. Node(e).artifacts = CASE e \in Accepted("Candidate") \union Accepted("Result") -> log[e].body.artifacts
                              [] e \in Accepted("Evaluation") -> log[e].body.evidence
                              [] OTHER -> {}
    BY Zenon DEF Node
  <2>4. Node(e).artifacts = log[e].body.evidence
    BY <2>2, <2>3
  <2> QED BY <2>1, <2>4, NodeSays
<1> QED BY <1>3, <1>4, OldEpochIsBare

-----------------------------------------------------------------------------
(* Entries of a report *)

Entry(id, status, failed, declared, matches) ==
  [id |-> id, status |-> status, failed |-> failed, declared |-> declared, matches |-> matches]

LEMMA EntrySays ==
  ASSUME NEW id, NEW status, NEW failed, NEW declared, NEW matches
  PROVE  LET e == Entry(id, status, failed, declared, matches)
         IN  e.id = id /\ e.status = status /\ e.declared = declared /\ e.matches = matches
<1> QED BY DEF Entry

LEMMA ResultIs ==
  ASSUME NEW id, NEW failed
  PROVE  Result(id, failed) = Entry(id, IF failed = {} THEN "Conformant" ELSE "NonConformant", failed, FALSE, TRUE)
<1> QED BY Zenon DEF Result, Entry

LEMMA UnmetHas ==
  ASSUME NEW C, NEW n, NEW b \in BOOLEAN, <<n, b>> \in C, Unmet(C) = {}
  PROVE  b
<1> SUFFICES ASSUME ~b PROVE FALSE
  OBVIOUS
<1>1. <<n, b>>[1] = n /\ ~<<n, b>>[2]
  OBVIOUS
<1>2. <<n, b>> \in {d \in C : ~d[2]}
  BY <1>1
<1>3. n \in Unmet(C)
  BY <1>1, <1>2 DEF Unmet
<1> QED BY <1>3

LEMMA TwoChanged ==
  ASSUME NEW f, NEW a, NEW x, NEW b, NEW y, a \in DOMAIN f, b \in DOMAIN f, a # b
  PROVE  /\ [f EXCEPT ![a] = x, ![b] = y][a] = x
         /\ [f EXCEPT ![a] = x, ![b] = y][b] = y
         /\ \A c \in DOMAIN f : c # a /\ c # b => [f EXCEPT ![a] = x, ![b] = y][c] = f[c]
<1> QED OBVIOUS

\* What is declared of a result is added to it.
LEMMA DeclaredSays ==
  ASSUME NEW decl, NEW result, DOMAIN result = {"id", "status", "failed", "declared", "matches"},
         NEW entry, entry = AsDeclared(decl, result)
  PROVE  /\ entry.id = result.id /\ entry.status = result.status /\ entry.declared
         /\ entry.matches = (result.status = "Unknown" \/ decl.matches)
<1> DEFINE m == result.status = "Unknown" \/ decl.matches
           e == [result EXCEPT !["declared"] = TRUE, !["matches"] = m]
<1>1. entry = e
  BY Zenon DEF AsDeclared
<1> HIDE DEF m
<1>2. /\ "declared" \in DOMAIN result /\ "matches" \in DOMAIN result /\ "declared" # "matches"
      /\ "id" \in DOMAIN result /\ "id" # "declared" /\ "id" # "matches"
      /\ "status" \in DOMAIN result /\ "status" # "declared" /\ "status" # "matches"
  OBVIOUS
<1>3. e["declared"] = TRUE /\ e["matches"] = m /\ e["id"] = result["id"] /\ e["status"] = result["status"]
  BY ONLY <1>2, TwoChanged
<1> QED BY <1>1, <1>3, Zenon DEF m

LEMMA ResultSays ==
  ASSUME NEW id, NEW failed, NEW r, r = Result(id, failed)
  PROVE  /\ DOMAIN r = {"id", "status", "failed", "declared", "matches"}
         /\ r.id = id /\ r.declared = FALSE /\ r.matches = TRUE
         /\ r.status \in {"Conformant", "NonConformant"}
         /\ r.status = "Conformant" <=> failed = {}
<1> QED BY DEF Result

LEMMA UnmetNone ==
  ASSUME NEW C, \A d \in C : d[2]
  PROVE  Unmet(C) = {}
<1> QED BY DEF Unmet

LEMMA CoreSays ==
  ASSUME NEW receipt, NEW r, r = Core(receipt)
  PROVE  /\ DOMAIN r = {"id", "status", "failed", "declared", "matches"}
         /\ r.id = "core" /\ r.declared = FALSE /\ r.matches = TRUE
         /\ r.status \in {"Conformant", "NonConformant"}
         /\ StatusOf(receipt) = "Invalid" => r.status # "Conformant"
<1> DEFINE b == StatusOf(receipt) # "Invalid"
           b2 == Actors # {}
           C == {<<"B1", b>>, <<"B2", b2>>, <<"B3", ThresholdsHold>>, <<"B4", ContextLimited>>}
<1>1. Core(receipt) = Result("core", Unmet(C))
  BY Zenon DEF Core
<1>2. <<"B1", b>> \in C /\ b \in BOOLEAN
  <2> HIDE DEF b2
  <2> QED BY Zenon
<1> HIDE DEF C, b
<1>3. Unmet(C) = {} => b
  BY <1>2, UnmetHas
<1> DEFINE failed == Unmet(C)
<1> HIDE DEF failed
<1>4. r = Result("core", failed) /\ (failed = {} => b)
  BY <1>1, <1>3 DEF failed
<1>5. /\ DOMAIN r = {"id", "status", "failed", "declared", "matches"}
      /\ r.id = "core" /\ r.declared = FALSE /\ r.matches = TRUE
      /\ r.status \in {"Conformant", "NonConformant"}
      /\ r.status = "Conformant" => failed = {}
  BY <1>4 DEF Result
<1> QED BY <1>4, <1>5, Zenon DEF b

LEMMA SignedSays ==
  ASSUME NEW receipt, NEW r, r = Signed(receipt)
  PROVE  /\ DOMAIN r = {"id", "status", "failed", "declared", "matches"}
         /\ r.id = "signed" /\ r.declared = FALSE /\ r.matches = TRUE
         /\ r.status = "Conformant" => StatusOf(receipt) # "Invalid" /\ Met(Baseline(receipt))
<1> DEFINE decided == {s \in Accepted("Selection") : log[s].body.selected # {}}
           relied == UNION {Evidences(log[s].refs) : s \in decided}
           b == Met(Baseline(receipt))
           C == {<<"S0", b>>,
                 <<"S1", SignedKinds \subseteq rules.signature_required_kinds>>,
                 <<"S2", {log[i].author : i \in UNION {Accepted(k) : k \in SignedKinds}} \subseteq Pinned>>,
                 <<"S3", \A e \in relied : log[e].body.schema = "attested">>}
           failed == IF StatusOf(receipt) = "Invalid" THEN SignedClauses ELSE Unmet(C)
<1>1. Signed(receipt) = Result("signed", failed)
  BY Zenon DEF Signed
<1>2. <<"S0", b>> \in C
  BY Zenon
<1>3. b \in BOOLEAN
  BY Zenon DEF Met
<1> HIDE DEF C, b
<1>4. Unmet(C) = {} => b
  BY <1>2, <1>3, UnmetHas
<1>5. failed = {} => StatusOf(receipt) # "Invalid" /\ b
  BY <1>4 DEF SignedClauses
<1> HIDE DEF failed
<1>6. /\ DOMAIN r = {"id", "status", "failed", "declared", "matches"}
      /\ r.id = "signed" /\ r.declared = FALSE /\ r.matches = TRUE
      /\ r.status = "Conformant" => failed = {}
  BY <1>1 DEF Result
<1> QED BY <1>5, <1>6, Zenon DEF b

\* The clauses of the delivery profile.
DeliveryHolds(receipt) ==
  /\ StatusOf(receipt) # "Invalid" /\ EvaluatedClaims # {}
  /\ \A s \in EvaluatedClaims : \A q \in RequiredBy(s) : Covers(s, q)
  /\ \A s \in EvaluatedClaims : Truthful(s)
  /\ \A s \in EvaluatedClaims : Bound(s)
  /\ \A s \in EvaluatedClaims : Separate(s)
  /\ \A s \in EvaluatedClaims : Decided(s)
  /\ Met(Baseline(receipt))
  /\ \A s \in EvaluatedClaims : Sound(s)

LEMMA DeliverySays ==
  ASSUME NEW receipt, NEW r, r = Delivery(receipt)
  PROVE  /\ DOMAIN r = {"id", "status", "failed", "declared", "matches"}
         /\ r.id = "delivery" /\ r.declared = FALSE /\ r.matches = TRUE
         /\ r.status = "Conformant" <=> DeliveryHolds(receipt)
<1> DEFINE c == EvaluatedClaims
           b1 == \A s \in c : \A q \in RequiredBy(s) : Covers(s, q)
           b2 == \A s \in c : Truthful(s)
           b3 == \A s \in c : Bound(s)
           b4 == \A s \in c : Separate(s)
           b5 == \A s \in c : Decided(s)
           b6 == Met(Baseline(receipt))
           b7 == \A s \in c : Sound(s)
           C == {<<"D1", b1>>, <<"D2", b2>>, <<"D3", b3>>, <<"D4", b4>>, <<"D5", b5>>, <<"D6", b6>>, <<"D7", b7>>}
           failed == IF StatusOf(receipt) = "Invalid" \/ c = {} THEN DeliveryClauses ELSE Unmet(C)
<1>1. Delivery(receipt) = Result("delivery", failed)
  BY Zenon DEF Delivery
<1>2. DeliveryHolds(receipt) <=>
        /\ ~(StatusOf(receipt) = "Invalid" \/ c = {})
        /\ b1 /\ b2 /\ b3 /\ b4 /\ b5 /\ b6 /\ b7
  BY Zenon DEF DeliveryHolds
<1>3. /\ b1 \in BOOLEAN /\ b2 \in BOOLEAN /\ b3 \in BOOLEAN /\ b4 \in BOOLEAN /\ b5 \in BOOLEAN
      /\ b7 \in BOOLEAN
  BY Zenon
<1>4. b6 \in BOOLEAN
  BY Zenon DEF Met
<1> HIDE DEF b1, b2, b3, b4, b5, b6, b7
<1>5. /\ <<"D1", b1>> \in C /\ <<"D2", b2>> \in C /\ <<"D3", b3>> \in C /\ <<"D4", b4>> \in C
      /\ <<"D5", b5>> \in C /\ <<"D6", b6>> \in C /\ <<"D7", b7>> \in C
  BY Zenon
<1>6. ASSUME b1, b2, b3, b4, b5, b6, b7 PROVE \A d \in C : d[2]
  <2>1. \A n, b : <<n, b>>[2] = b
    OBVIOUS
  <2>2. \A d \in C : \E n : d \in {<<n, b1>>, <<n, b2>>, <<n, b3>>, <<n, b4>>, <<n, b5>>, <<n, b6>>, <<n, b7>>}
    BY Zenon
  <2>3. ASSUME NEW d \in C PROVE d[2] \in {b1, b2, b3, b4, b5, b6, b7}
    <3>1. PICK n, b : b \in {b1, b2, b3, b4, b5, b6, b7} /\ d = <<n, b>>
      BY <2>2, Zenon
    <3> QED BY <2>1, <3>1, Zenon
  <2> QED BY <1>6, <2>3
<1> HIDE DEF C
<1>7. Unmet(C) = {} => b1 /\ b2 /\ b3 /\ b4 /\ b5 /\ b6 /\ b7
  <2> SUFFICES ASSUME Unmet(C) = {} PROVE b1 /\ b2 /\ b3 /\ b4 /\ b5 /\ b6 /\ b7
    OBVIOUS
  <2>1. b1 /\ b2 /\ b3
    BY <1>3, <1>5, UnmetHas
  <2>2. b4 /\ b5
    BY <1>3, <1>5, UnmetHas
  <2>3. b6 /\ b7
    BY <1>3, <1>4, <1>5, UnmetHas
  <2> QED BY <2>1, <2>2, <2>3
<1>8. b1 /\ b2 /\ b3 /\ b4 /\ b5 /\ b6 /\ b7 => Unmet(C) = {}
  BY <1>6, UnmetNone
<1>9. failed = {} <=> DeliveryHolds(receipt)
  BY <1>2, <1>7, <1>8 DEF DeliveryClauses
<1> HIDE DEF failed
<1>10. /\ DOMAIN r = {"id", "status", "failed", "declared", "matches"}
       /\ r.id = "delivery" /\ r.declared = FALSE /\ r.matches = TRUE
       /\ r.status = "Conformant" <=> failed = {}
  BY <1>1 DEF Result
<1> QED BY <1>9, <1>10, Zenon

-----------------------------------------------------------------------------
(* What is defined by recursion over a number of steps *)

\* The states of X that n steps of G lead through, from state a.
Runs(f, n, a, G) == f = [m \in 0..n |-> IF m = 0 THEN a ELSE G[m][f[m - 1]]]

LEMMA RunExists ==
  ASSUME NEW n \in Nat, NEW X, NEW a \in X, NEW G, \A m \in 1..n : \A x \in X : G[m][x] \in X
  PROVE  \E f : Runs(f, n, a, G) /\ \A m \in 0..n : f[m] \in X
<1> DEFINE T == {m \in 0..n : \E f : Runs(f, m, a, G) /\ \A k \in 0..m : f[k] \in X}
<1>1. 0 \in T
  <2> DEFINE f == [m \in 0..0 |-> a]
  <2>1. \A m \in 0..0 : m = 0 /\ f[m] = a
    OBVIOUS
  <2>2. f = [m \in 0..0 |-> IF m = 0 THEN a ELSE G[m][f[m - 1]]]
    BY <2>1
  <2> HIDE DEF f
  <2>3. Runs(f, 0, a, G)
    BY <2>2 DEF Runs
  <2> QED BY <2>1, <2>3
<1>2. ASSUME NEW m \in 0..n, m < n, m \in T PROVE m + 1 \in T
  <2>1. PICK f : Runs(f, m, a, G) /\ \A k \in 0..m : f[k] \in X
    BY <1>2
  <2> DEFINE D == 0..(m + 1)
             g == [k \in D |-> IF k <= m THEN f[k] ELSE G[m + 1][f[m]]]
  <2>2. \A k \in 0..m : k \in D /\ k <= m /\ g[k] = f[k]
    OBVIOUS
  <2>3. m + 1 \in D /\ ~(m + 1 <= m) /\ g[m + 1] = G[m + 1][f[m]]
    OBVIOUS
  <2>4. \A k \in 0..m : f[k] = IF k = 0 THEN a ELSE G[k][f[k - 1]]
    BY <2>1 DEF Runs
  <2>5. \A k \in D : k \in 0..m \/ k = m + 1
    OBVIOUS
  <2>6. g = [k \in D |-> g[k]]
    OBVIOUS
  <2> HIDE DEF g
  <2>7. ASSUME NEW k \in D PROVE g[k] = IF k = 0 THEN a ELSE G[k][g[k - 1]]
    <3>1. CASE k \in 0..m
      <4>1. k # 0 => k - 1 \in 0..m
        BY <3>1
      <4>2. k # 0 => g[k - 1] = f[k - 1]
        BY <2>2, <4>1
      <4>3. g[k] = f[k]
        BY <2>2, <3>1
      <4> QED BY <2>4, <3>1, <4>2, <4>3
    <3>2. CASE k = m + 1
      <4>1. k # 0 /\ k - 1 = m /\ m \in 0..m
        BY <3>2
      <4>2. g[m] = f[m]
        BY <2>2, <4>1
      <4> QED BY <2>3, <3>2, <4>1, <4>2
    <3> QED BY <2>5, <3>1, <3>2
  <2>8. g = [k \in D |-> IF k = 0 THEN a ELSE G[k][g[k - 1]]]
    BY <2>6, <2>7
  <2>9. Runs(g, m + 1, a, G)
    BY <2>8 DEF Runs, D
  <2>10. \A k \in D : g[k] \in X
    <3>1. m \in 0..m /\ m + 1 \in 1..n
      BY <1>2
    <3>2. G[m + 1][f[m]] \in X
      BY <2>1, <3>1
    <3> QED BY <2>1, <2>2, <2>3, <2>5, <3>2
  <2>11. m + 1 \in 0..n
    BY <1>2
  <2> QED BY <2>9, <2>10, <2>11 DEF D
<1>3. n \in 0..n
  OBVIOUS
<1>4. n \in T
  <2> HIDE DEF T
  <2> QED BY <1>1, <1>2, <1>3, PlaceInduction
<1> QED BY <1>4

-----------------------------------------------------------------------------
(* Reports *)

EntryFields == {"id", "status", "failed", "declared", "matches"}

LEMMA EvaluateSays ==
  ASSUME NEW id, NEW receipt, NEW r, r = Evaluate(id, receipt)
  PROVE  /\ DOMAIN r = EntryFields /\ r.id = id /\ ~r.declared
         /\ id = "core" => r = Core(receipt)
         /\ r.status = "Conformant" =>
              /\ StatusOf(receipt) # "Invalid"
              /\ id # "core" => Met(Baseline(receipt))
              /\ id = "delivery" => DeliveryHolds(receipt)
<1>1. CASE id = "core"
  <2>1. r = Core(receipt)
    BY <1>1 DEF Evaluate
  <2> QED BY <1>1, <2>1, CoreSays DEF EntryFields
<1>2. CASE id = "signed"
  <2>1. r = Signed(receipt)
    BY <1>2 DEF Evaluate
  <2> QED BY <1>2, <2>1, SignedSays DEF EntryFields
<1>3. CASE id = "delivery"
  <2>1. r = Delivery(receipt)
    BY <1>3 DEF Evaluate
  <2>2. /\ DOMAIN r = EntryFields /\ r.id = id /\ ~r.declared
        /\ r.status = "Conformant" <=> DeliveryHolds(receipt)
    BY <1>3, <2>1, DeliverySays DEF EntryFields
  <2>3. DeliveryHolds(receipt) => StatusOf(receipt) # "Invalid" /\ Met(Baseline(receipt))
    BY DEF DeliveryHolds
  <2> QED BY <1>3, <2>2, <2>3
<1>4. CASE id # "core" /\ id # "signed" /\ id # "delivery"
  <2>1. r = [Result(id, {}) EXCEPT !.status = "Unknown"]
    BY <1>4 DEF Evaluate
  <2>2. DOMAIN r = EntryFields /\ r.id = id /\ ~r.declared /\ r.status = "Unknown"
    BY <2>1 DEF Result, EntryFields
  <2> QED BY <1>4, <2>2
<1> QED BY <1>1, <1>2, <1>3, <1>4

\* The entry of a declared profile.
DeclaredEntry(receipt, n) == AsDeclared(receipt.profiles[n], Evaluate(receipt.profiles[n].id, receipt))

\* The report of a receipt on n of the profiles that were asked for.
ReportsOn(out, receipt, asked, n) ==
  LET declared == Len(receipt.profiles)
  IN  /\ Len(out) >= declared
      /\ \A m \in 1..declared : out[m] = DeclaredEntry(receipt, m)
      /\ \A m \in (declared + 1)..Len(out) : \E k \in 1..n : out[m] = Evaluate(asked[k], receipt)
      /\ \A k \in 1..n : \E m \in 1..Len(out) : out[m].id = asked[k]
      /\ \A l, m \in 1..Len(out) : out[l].id = out[m].id => l = m

LEMMA DeclaredEntrySays ==
  ASSUME NEW receipt, NEW n, NEW e, e = DeclaredEntry(receipt, n), NEW d, d = receipt.profiles[n]
  PROVE  /\ e.id = d.id /\ e.declared
         /\ e.status = Evaluate(d.id, receipt).status
         /\ e.matches = (e.status = "Unknown" \/ d.matches)
<1>1. PICK r : r = Evaluate(d.id, receipt)
  OBVIOUS
<1>2. DOMAIN r = EntryFields /\ r.id = d.id
  BY <1>1, EvaluateSays
<1>3. e = AsDeclared(d, r)
  BY <1>1 DEF DeclaredEntry
<1>4. DOMAIN r = {"id", "status", "failed", "declared", "matches"}
  BY <1>2 DEF EntryFields
<1>5. e.id = r.id /\ e.status = r.status /\ e.declared
  BY ONLY <1>3, <1>4, DeclaredSays
<1>6. e.matches = (r.status = "Unknown" \/ d.matches)
  BY ONLY <1>3, <1>4, DeclaredSays
<1> QED BY <1>1, <1>2, <1>5, <1>6, Zenon

\* One more profile is reported unless it was already.
LEMMA ReportGrows ==
  ASSUME NEW S, NEW receipt, NEW asked, NEW n \in Nat, NEW out \in Seq(S), ReportsOn(out, receipt, asked, n),
         Len(receipt.profiles) \in Nat, NEW e \in S, e = Evaluate(asked[n + 1], receipt),
         NEW new, new = IF \E m \in 1..Len(out) : out[m].id = asked[n + 1] THEN out ELSE Append(out, e)
  PROVE  new \in Seq(S) /\ ReportsOn(new, receipt, asked, n + 1)
<1> DEFINE L == Len(receipt.profiles)
<1>0. /\ Len(out) >= L
      /\ \A m \in 1..L : out[m] = DeclaredEntry(receipt, m)
      /\ \A m \in (L + 1)..Len(out) : \E k \in 1..n : out[m] = Evaluate(asked[k], receipt)
      /\ \A k \in 1..n : \E m \in 1..Len(out) : out[m].id = asked[k]
      /\ \A l, m \in 1..Len(out) : out[l].id = out[m].id => l = m
  BY DEF ReportsOn
<1>00. \A k \in 1..n : k \in 1..(n + 1)
  OBVIOUS
<1>000. \A k \in 1..(n + 1) : k \in 1..n \/ k = n + 1
  OBVIOUS
<1>1. CASE \E m \in 1..Len(out) : out[m].id = asked[n + 1]
  <2>1. new = out
    BY <1>1
  <2>2. \A m \in (L + 1)..Len(out) : \E k \in 1..(n + 1) : out[m] = Evaluate(asked[k], receipt)
    BY <1>0, <1>00
  <2>3. \A k \in 1..(n + 1) : \E m \in 1..Len(out) : out[m].id = asked[k]
    BY <1>0, <1>000, <1>1
  <2> QED BY <1>0, <2>1, <2>2, <2>3 DEF ReportsOn
<1>2. CASE ~(\E m \in 1..Len(out) : out[m].id = asked[n + 1])
  <2>1. new = Append(out, e)
    BY <1>2
  <2>2. /\ new \in Seq(S) /\ Len(new) = Len(out) + 1 /\ Len(out) \in Nat
        /\ \A m \in 1..Len(out) : new[m] = out[m]
        /\ new[Len(out) + 1] = e
    BY <2>1
  <2>3. e.id = asked[n + 1]
    <3>1. PICK id : id = asked[n + 1]
      OBVIOUS
    <3>2. e = Evaluate(id, receipt)
      BY <3>1
    <3>3. e.id = id
      BY ONLY <3>2, EvaluateSays
    <3> QED BY <3>1, <3>3
  <2>4. \A m \in 1..Len(new) : m \in 1..Len(out) \/ m = Len(out) + 1
    BY <2>2
  <2>5. \A m \in 1..L : m \in 1..Len(out)
    BY <1>0, <2>2
  <2>6. \A m \in 1..L : new[m] = DeclaredEntry(receipt, m)
    BY <1>0, <2>2, <2>5
  <2>7. \A m \in (L + 1)..Len(new) : \E k \in 1..(n + 1) : new[m] = Evaluate(asked[k], receipt)
    <3> SUFFICES ASSUME NEW m \in (L + 1)..Len(new) PROVE \E k \in 1..(n + 1) : new[m] = Evaluate(asked[k], receipt)
      OBVIOUS
    <3>1. CASE m = Len(out) + 1
      <4>1. n + 1 \in 1..(n + 1)
        OBVIOUS
      <4> QED BY <2>2, <3>1, <4>1
    <3>2. CASE m # Len(out) + 1
      <4>1. m \in (L + 1)..Len(out) /\ m \in 1..Len(out)
        BY <2>2, <3>2
      <4>2. PICK k \in 1..n : out[m] = Evaluate(asked[k], receipt)
        BY <1>0, <4>1
      <4> QED BY <1>00, <2>2, <4>1, <4>2
    <3> QED BY <3>1, <3>2
  <2>8. \A k \in 1..(n + 1) : \E m \in 1..Len(new) : new[m].id = asked[k]
    <3> SUFFICES ASSUME NEW k \in 1..(n + 1) PROVE \E m \in 1..Len(new) : new[m].id = asked[k]
      OBVIOUS
    <3>1. \A m \in 1..Len(out) : m \in 1..Len(new)
      BY <2>2
    <3>2. Len(out) + 1 \in 1..Len(new)
      BY <2>2
    <3>3. CASE k = n + 1
      BY <2>2, <2>3, <3>2, <3>3
    <3>4. CASE k \in 1..n
      BY <1>0, <2>2, <3>1, <3>4
    <3> QED BY <1>000, <3>3, <3>4
  <2>9. \A l, m \in 1..Len(new) : new[l].id = new[m].id => l = m
    <3> SUFFICES ASSUME NEW l \in 1..Len(new), NEW m \in 1..Len(new), new[l].id = new[m].id PROVE l = m
      OBVIOUS
    <3> QED BY <1>0, <1>2, <2>2, <2>3, <2>4
  <2>10. Len(new) >= L
    BY <1>0, <2>2
  <2> QED BY <2>2, <2>6, <2>7, <2>8, <2>9, <2>10 DEF ReportsOn
<1> QED BY <1>1, <1>2

\* The declarations of a receipt that was not refused name each profile once.
LEMMA DeclarationsSay ==
  ASSUME NEW receipt, NEW D, receipt.profiles \in Seq(D), DeclarationsOk(receipt)
  PROVE  \A m, n \in 1..Len(receipt.profiles) :
           /\ receipt.spec_version # "0.3"
           /\ receipt.profiles[m].id = receipt.profiles[n].id => m = n
<1> DEFINE L == Len(receipt.profiles)
           ids == [n \in 1..L |-> receipt.profiles[n].id]
<1>1. L \in Nat
  OBVIOUS
<1>2. ids \in Seq({receipt.profiles[n].id : n \in 1..L})
  BY <1>1
<1>3. Len(ids) = L /\ \A n \in 1..L : ids[n] = receipt.profiles[n].id
  BY <1>1, <1>2
<1>4. receipt.profiles # <<>> =>
        /\ receipt.spec_version # "0.3"
        /\ \A m, n \in 1..Len(ids) : ids[m] = ids[n] => m = n
  BY Zenon DEF DeclarationsOk
<1> HIDE DEF ids
<1>5. \A m \in 1..L : receipt.profiles # <<>>
  BY <1>1
<1> QED BY <1>3, <1>4, <1>5

\* A report is on all that was declared and asked for.
LEMMA ReportsAll ==
  ASSUME NEW receipt, NEW D, receipt.profiles \in Seq(D), DeclarationsOk(receipt),
         NEW A, NEW asked \in Seq(A), NEW out, out = EvaluateProfiles(receipt, asked)
  PROVE  Len(out) \in Nat /\ ReportsOn(out, receipt, asked, Len(asked))
<1> DEFINE L == Len(receipt.profiles)
           N == Len(asked)
           S == {DeclaredEntry(receipt, n) : n \in 1..L} \union {Evaluate(asked[k], receipt) : k \in 1..N}
           declared == [n \in 1..L |-> DeclaredEntry(receipt, n)]
           Of(x, m) == IF \E k \in 1..Len(x) : x[k].id = asked[m] THEN x
                       ELSE Append(x, Evaluate(asked[m], receipt))
           Fits(f) == f = [m \in 0..N |-> IF m = 0 THEN declared ELSE Of(f[m - 1], m)]
           G == [m \in 1..N |-> [x \in Seq(S) |-> Of(x, m)]]
<1>1. L \in Nat /\ N \in Nat
  OBVIOUS
<1>2. declared \in Seq(S) /\ Len(declared) = L /\ \A n \in 1..L : declared[n] = DeclaredEntry(receipt, n)
  <2>1. \A n \in 1..L : DeclaredEntry(receipt, n) \in S
    OBVIOUS
  <2>2. \A n \in 1..L : declared[n] = DeclaredEntry(receipt, n)
    OBVIOUS
  <2> HIDE DEF S
  <2>3. declared \in [1..L -> S]
    BY <2>1
  <2>4. declared \in Seq(S)
    BY <1>1, <2>3
  <2>5. Len(declared) = L
    BY <1>1, <2>4
  <2> QED BY <2>2, <2>4, <2>5
<1>3. ASSUME NEW m \in 1..N, NEW x \in Seq(S) PROVE Of(x, m) \in Seq(S) /\ G[m][x] = Of(x, m)
  <2>1. Evaluate(asked[m], receipt) \in S
    OBVIOUS
  <2> HIDE DEF S
  <2>2. Of(x, m) \in Seq(S)
    BY <2>1
  <2> HIDE DEF Of
  <2> QED BY <2>2
<1>4. ASSUME NEW m \in 1..N, NEW x \in Seq(S) PROVE G[m][x] \in Seq(S)
  <2> HIDE DEF Of, S, G
  <2> QED BY <1>3
<1>5. PICK f : Runs(f, N, declared, G) /\ \A m \in 0..N : f[m] \in Seq(S)
  <2> DEFINE X == Seq(S)
  <2>1. declared \in X /\ \A m \in 1..N : \A x \in X : G[m][x] \in X
    BY <1>2, <1>4
  <2> HIDE DEF X, G, declared, N
  <2>2. \E f : Runs(f, N, declared, G) /\ \A m \in 0..N : f[m] \in X
    BY <1>1, <2>1, RunExists
  <2> QED BY <2>2 DEF X
<1>6. Fits(f)
  <2> HIDE DEF Of, G, S, declared, N
  <2>1. ASSUME NEW m \in 0..N, m # 0 PROVE G[m][f[m - 1]] = Of(f[m - 1], m)
    <3>1. m - 1 \in 0..N /\ m \in 1..N
      BY <1>1, <2>1
    <3> QED BY <1>3, <1>5, <3>1
  <2>2. f = [m \in 0..N |-> IF m = 0 THEN declared ELSE G[m][f[m - 1]]]
    BY <1>5 DEF Runs
  <2>3. \A m \in 0..N : (IF m = 0 THEN declared ELSE G[m][f[m - 1]]) = IF m = 0 THEN declared ELSE Of(f[m - 1], m)
    BY <2>1
  <2> QED BY <2>2, <2>3
<1>7. EvaluateProfiles(receipt, asked) = (CHOOSE g : Fits(g))[N]
  BY Zenon DEF EvaluateProfiles, DeclaredEntry
<1>8. PICK added : added = (CHOOSE g : Fits(g)) /\ Fits(added)
  <2> HIDE DEF Fits
  <2> QED BY <1>6
<1>9. added[0] = declared /\ \A m \in 1..N : added[m] = Of(added[m - 1], m)
  <2>1. \A m \in 0..N : added[m] = IF m = 0 THEN declared ELSE Of(added[m - 1], m)
    <3> HIDE DEF Of, declared, N
    <3> QED BY <1>8
  <2> HIDE DEF Of, declared
  <2>2. \A m \in 1..N : m \in 0..N /\ m # 0
    BY <1>1
  <2>3. 0 \in 0..N
    BY <1>1
  <2> QED BY <2>1, <2>2, <2>3
<1> DEFINE T == {m \in 0..N : added[m] \in Seq(S) /\ ReportsOn(added[m], receipt, asked, m)}
<1>10. 0 \in T
  <2>1. ASSUME NEW l \in 1..L, NEW m \in 1..L, declared[l].id = declared[m].id PROVE l = m
    <3>1. declared[l].id = receipt.profiles[l].id /\ declared[m].id = receipt.profiles[m].id
      <4> HIDE DEF declared
      <4> QED BY SMTT(60), <1>2, DeclaredEntrySays
    <3>3. receipt.profiles[l].id = receipt.profiles[m].id
      <4> HIDE DEF declared
      <4> QED BY <2>1, <3>1
    <3> QED BY <3>3, DeclarationsSay
  <2>2. ReportsOn(declared, receipt, asked, 0)
    <3>1. (\A m \in (L + 1)..L : FALSE) /\ (\A k \in 1..0 : FALSE) /\ L >= L
      BY <1>1
    <3> HIDE DEF declared
    <3>2. \A l, m \in 1..Len(declared) : declared[l].id = declared[m].id => l = m
      BY <1>2, <2>1
    <3> QED BY <1>2, <3>1, <3>2 DEF ReportsOn
  <2>3. 0 \in 0..N
    BY <1>1
  <2> HIDE DEF declared, S, N
  <2> QED BY <1>2, <1>9, <2>2, <2>3
<1>11. ASSUME NEW m \in 0..N, m < N, m \in T PROVE m + 1 \in T
  <2>1. added[m] \in Seq(S) /\ ReportsOn(added[m], receipt, asked, m) /\ m + 1 \in 1..N /\ m \in Nat
    BY <1>1, <1>11
  <2>2. PICK e : e = Evaluate(asked[m + 1], receipt) /\ e \in S
    BY <2>1
  <2>3. PICK x : x = added[m]
    OBVIOUS
  <2>4. added[m + 1] = Of(x, m + 1)
    <3>1. (m + 1) - 1 = m
      BY <2>1
    <3> HIDE DEF Of, N
    <3> QED BY <1>9, <2>1, <2>3, <3>1
  <2>5. added[m + 1] = IF \E k \in 1..Len(x) : x[k].id = asked[m + 1] THEN x ELSE Append(x, e)
    <3> HIDE DEF N, S
    <3> QED BY <2>2, <2>4
  <2>6. PICK new : new = added[m + 1]
    OBVIOUS
  <2>7. new \in Seq(S) /\ ReportsOn(new, receipt, asked, m + 1)
    <3> HIDE DEF S, Of, N, T, G, declared, Fits
    <3>1. /\ x \in Seq(S) /\ ReportsOn(x, receipt, asked, m) /\ Len(receipt.profiles) \in Nat /\ m \in Nat
          /\ e \in S /\ e = Evaluate(asked[m + 1], receipt)
          /\ new = IF \E k \in 1..Len(x) : x[k].id = asked[m + 1] THEN x ELSE Append(x, e)
      BY <1>1, <2>1, <2>2, <2>3, <2>5, <2>6
    <3> QED BY ONLY <3>1, ReportGrows
  <2>8. m + 1 \in 0..N
    BY <2>1
  <2> HIDE DEF S, N
  <2> QED BY <2>6, <2>7, <2>8
<1>12. N \in T
  <2>1. N \in 0..N
    BY <1>1
  <2> HIDE DEF T, N
  <2> QED BY <1>1, <1>10, <1>11, <2>1, PlaceInduction
<1>13. out \in Seq(S) /\ ReportsOn(out, receipt, asked, N)
  <2>1. out = added[N]
    BY <1>7, <1>8
  <2> HIDE DEF S, N
  <2> QED BY <1>12, <2>1
<1> HIDE DEF S
<1> QED BY <1>13

LEMMA DistinctCount ==
  ASSUME NEW N \in Nat, NEW f, \A l, m \in 1..N : f[l] = f[m] => l = m,
         NEW T, T = {f[n] : n \in 1..N}
  PROVE  IsFiniteSet(T) /\ Cardinality(T) = N
<1> DEFINE g == [n \in 1..N |-> f[n]]
<1>1. g \in Bijection(1..N, T)
  BY DEF Bijection, Injection, Surjection, IsInjective
<1>2. IsFiniteSet(1..N) /\ Cardinality(1..N) = N
  BY FS_Interval
<1> HIDE DEF g
<1> QED BY <1>1, <1>2, FS_Bijection DEF ExistsBijection

\* What the entries of a report say.
LEMMA EntriesSay ==
  ASSUME NEW receipt, receipt.profiles \in Seq([id : STRING, matches : BOOLEAN]), DeclarationsOk(receipt),
         NEW A, NEW asked \in Seq(A), NEW out, out = EvaluateProfiles(receipt, asked), NEW n \in 1..Len(out)
  PROVE  /\ out[n].declared <=> n <= Len(receipt.profiles)
         /\ n <= Len(receipt.profiles) => out[n].id = receipt.profiles[n].id
         /\ n > Len(receipt.profiles) => \E k \in 1..Len(asked) : out[n].id = asked[k]
         /\ out[n].id = "core" => (Met(out[n]) <=> Met(Baseline(receipt)))
         /\ Met(out[n]) =>
              /\ StatusOf(receipt) # "Invalid"
              /\ out[n].id # "core" => Met(Baseline(receipt))
              /\ out[n].id = "delivery" => DeliveryHolds(receipt)
              /\ n <= Len(receipt.profiles) => receipt.profiles[n].matches
<1> DEFINE L == Len(receipt.profiles)
<1>1. L \in Nat /\ Len(out) \in Nat /\ ReportsOn(out, receipt, asked, Len(asked))
  BY ReportsAll
<1>2. /\ \A m \in 1..L : out[m] = DeclaredEntry(receipt, m)
      /\ \A m \in (L + 1)..Len(out) : \E k \in 1..Len(asked) : out[m] = Evaluate(asked[k], receipt)
      /\ \A l, m \in 1..Len(out) : out[l].id = out[m].id => l = m
      /\ Len(out) >= L
  BY <1>1 DEF ReportsOn
<1>3. PICK o : o = out[n]
  OBVIOUS
<1>4. CASE n <= L
  <2>1. PICK d : d = receipt.profiles[n]
    OBVIOUS
  <2>2. n \in 1..L
    BY <1>1, <1>4
  <2>3. d.matches \in BOOLEAN
    <3> DEFINE D == [id : STRING, matches : BOOLEAN]
    <3>1. \A x \in D : x.matches \in BOOLEAN
      OBVIOUS
    <3>2. receipt.profiles \in Seq(D)
      OBVIOUS
    <3> HIDE DEF D
    <3>3. d \in D
      BY <2>1, <2>2, <3>2
    <3> QED BY <3>1, <3>3
  <2>4. o = DeclaredEntry(receipt, n)
    BY <1>2, <1>3, <2>2
  <2>5. PICK r : r = Evaluate(d.id, receipt)
    OBVIOUS
  <2>6. /\ o.id = d.id /\ o.declared /\ o.status = r.status
        /\ o.matches = (o.status = "Unknown" \/ d.matches)
    BY <2>1, <2>4, <2>5, DeclaredEntrySays
  <2>7. /\ d.id = "core" => r = Core(receipt)
        /\ r.status = "Conformant" =>
              /\ StatusOf(receipt) # "Invalid"
              /\ d.id # "core" => Met(Baseline(receipt))
              /\ d.id = "delivery" => DeliveryHolds(receipt)
    BY <2>5, EvaluateSays
  <2>8. Met(o) <=> r.status = "Conformant" /\ d.matches
    <3>1. Met(o) <=> o.status = "Conformant" /\ (o.declared => o.matches)
      BY DEF Met
    <3>2. o.status = "Conformant" => (o.matches <=> d.matches)
      BY <2>3, <2>6
    <3> QED BY <2>6, <3>1, <3>2
  <2>9. d.id = "core" => (Met(o) <=> Met(Baseline(receipt)))
    <3> SUFFICES ASSUME d.id = "core" PROVE Met(o) <=> Met(Baseline(receipt))
      OBVIOUS
    <3>1. DeclarationsOf(receipt, "core") = {d}
      <4>1. \A m \in 1..L : receipt.profiles[m].id = "core" => m = n
        BY <2>1, <2>2, DeclarationsSay
      <4> QED BY <2>1, <2>2, <4>1 DEF DeclarationsOf
    <3>2. Baseline(receipt) = AsDeclared(CHOOSE x \in {d} : TRUE, Core(receipt))
      BY <3>1 DEF Baseline
    <3>3. Baseline(receipt) = AsDeclared(d, r)
      <4>1. (CHOOSE x \in {d} : TRUE) = d
        OBVIOUS
      <4> QED BY <2>7, <3>2, <4>1
    <3>4. o = AsDeclared(d, r)
      BY <2>1, <2>4, <2>5 DEF DeclaredEntry
    <3> QED BY <3>3, <3>4
  <2> QED BY <1>3, <1>4, <2>1, <2>6, <2>7, <2>8, <2>9
<1>5. CASE ~(n <= L)
  <2>1. n \in (L + 1)..Len(out)
    BY <1>1, <1>5
  <2>2. PICK k \in 1..Len(asked) : o = Evaluate(asked[k], receipt)
    BY <1>2, <1>3, <2>1
  <2>3. PICK id : id = asked[k]
    OBVIOUS
  <2>4. /\ o.id = id /\ ~o.declared
        /\ id = "core" => o = Core(receipt)
        /\ o.status = "Conformant" =>
              /\ StatusOf(receipt) # "Invalid"
              /\ id # "core" => Met(Baseline(receipt))
              /\ id = "delivery" => DeliveryHolds(receipt)
    BY <2>2, <2>3, EvaluateSays
  <2>5. Met(o) <=> o.status = "Conformant"
    BY <2>4 DEF Met
  <2>6. id = "core" => Met(o) <=> Met(Baseline(receipt))
    <3> SUFFICES ASSUME id = "core" PROVE Baseline(receipt) = o
      OBVIOUS
    <3>1. ASSUME NEW m \in 1..L PROVE receipt.profiles[m].id # "core"
      <4>1. m \in 1..Len(out) /\ m # n
        BY <1>1, <1>2, <1>5
      <4>2. out[m].id = receipt.profiles[m].id
        BY SMTT(60), <1>2, DeclaredEntrySays
      <4> QED BY <1>2, <1>3, <2>4, <4>1, <4>2
    <3>2. DeclarationsOf(receipt, "core") = {}
      BY <3>1 DEF DeclarationsOf
    <3> QED BY <2>4, <3>2 DEF Baseline
  <2> QED BY <1>3, <1>5, <1>1, <2>1, <2>2, <2>3, <2>4, <2>5, <2>6
<1> QED BY <1>4, <1>5

\* What validation makes of a receipt that is not refused.
LEMMA ValidateSays ==
  ASSUME NEW receipt, NEW limits, NEW asked, NEW report, report = Validate(receipt, limits, asked)
  PROVE  /\ Structural(receipt, limits) => report.problem /\ report.status = "Invalid"
         /\ ~Structural(receipt, limits) =>
              /\ ~report.problem /\ report.status = StatusOf(receipt)
              /\ report.profiles = EvaluateProfiles(receipt, asked)
              /\ DeclarationsOk(receipt) /\ receipt.spec_version \in {"0.3", "0.4"}
<1>1. CASE Structural(receipt, limits)
  BY <1>1 DEF Validate
<1>2. CASE ~Structural(receipt, limits)
  <2>1. /\ ~report.problem /\ report.status = StatusOf(receipt)
        /\ report.profiles = EvaluateProfiles(receipt, asked)
    BY <1>2 DEF Validate
  <2>2. DeclarationsOk(receipt) /\ receipt.spec_version \in {Epochs[n] : n \in 1..Len(Epochs)}
    BY <1>2 DEF Structural
  <2>3. {Epochs[n] : n \in 1..Len(Epochs)} = {"0.3", "0.4"}
    <3>1. Len(Epochs) = 2 /\ Epochs[1] = "0.3" /\ Epochs[2] = "0.4"
      BY DEF Epochs
    <3>2. \A n \in 1..2 : n = 1 \/ n = 2
      OBVIOUS
    <3>3. 1 \in 1..2 /\ 2 \in 1..2
      OBVIOUS
    <3> QED BY <3>1, <3>2, <3>3
  <2> QED BY <1>2, <2>1, <2>2, <2>3
<1> QED BY <1>1, <1>2

LEMMA ReportsCohere ==
  ASSUME ExportsTyped
  PROVE  ReportCoherent
<1> SUFFICES ASSUME NEW receipt \in bounds.receipts,
                    NEW report, report = Validate(receipt, bounds.limits, bounds.asked),
                    NEW out, out = report.profiles, ~report.problem
             PROVE  LET ids == {out[n].id : n \in 1..Len(out)}
                    IN  /\ Cardinality(ids) = Len(out)
                        /\ ids = {receipt.profiles[n].id : n \in 1..Len(receipt.profiles)}
                                   \union {bounds.asked[n] : n \in 1..Len(bounds.asked)}
                        /\ \A n \in 1..Len(out) : out[n].declared <=> n <= Len(receipt.profiles)
                        /\ (\/ report.status = "Invalid"
                            \/ \E n \in 1..Len(out) : out[n].id = "core" /\ ~Met(out[n]))
                             => \A n \in 1..Len(out) : ~Met(out[n]) \/ (out[n].id = "core" /\ report.status # "Invalid")
  BY Zenon DEF ReportCoherent
<1> DEFINE ids == {out[n].id : n \in 1..Len(out)}
           L == Len(receipt.profiles)
           asked == bounds.asked
<1>1. receipt.profiles \in Seq([id : STRING, matches : BOOLEAN]) /\ asked \in Seq(STRING)
  BY DEF ExportsTyped
<1>2. DeclarationsOk(receipt) /\ report.status = StatusOf(receipt) /\ out = EvaluateProfiles(receipt, asked)
  BY ValidateSays
<1> HIDE DEF asked
<1>3. L \in Nat /\ Len(out) \in Nat /\ ReportsOn(out, receipt, asked, Len(asked))
  BY <1>1, <1>2, ReportsAll
<1>4. /\ \A l, m \in 1..Len(out) : out[l].id = out[m].id => l = m
      /\ \A k \in 1..Len(asked) : \E m \in 1..Len(out) : out[m].id = asked[k]
      /\ Len(out) >= L
  BY <1>3 DEF ReportsOn
<1>5. \A n \in 1..Len(out) :
        /\ out[n].declared <=> n <= L
        /\ n <= L => out[n].id = receipt.profiles[n].id
        /\ n > L => \E k \in 1..Len(asked) : out[n].id = asked[k]
        /\ out[n].id = "core" => (Met(out[n]) <=> Met(Baseline(receipt)))
        /\ Met(out[n]) =>
             /\ StatusOf(receipt) # "Invalid"
             /\ out[n].id # "core" => Met(Baseline(receipt))
  BY <1>1, <1>2, EntriesSay
<1>6. Cardinality(ids) = Len(out)
  <2> DEFINE f == [n \in 1..Len(out) |-> out[n].id]
  <2>1. \A n \in 1..Len(out) : f[n] = out[n].id
    OBVIOUS
  <2>2. ids = {f[n] : n \in 1..Len(out)}
    BY <2>1
  <2>3. \A l, m \in 1..Len(out) : f[l] = f[m] => l = m
    BY <1>4, <2>1
  <2> HIDE DEF f, ids
  <2>4. PICK N : N = Len(out)
    OBVIOUS
  <2>5. N \in Nat /\ ids = {f[n] : n \in 1..N} /\ \A l, m \in 1..N : f[l] = f[m] => l = m
    BY <1>3, <2>2, <2>3, <2>4
  <2>6. Cardinality(ids) = N
    BY ONLY <2>5, DistinctCount
  <2> QED BY <2>4, <2>6
<1>7. ids = {receipt.profiles[n].id : n \in 1..L} \union {asked[n] : n \in 1..Len(asked)}
  <2>1. \A n \in 1..L : n \in 1..Len(out) /\ n <= L
    BY <1>3, <1>4
  <2>2. \A n \in 1..Len(out) : n \in 1..L \/ n > L
    BY <1>3
  <2>3. \A n \in 1..L : receipt.profiles[n].id \in ids
    <3> SUFFICES ASSUME NEW n \in 1..L PROVE receipt.profiles[n].id \in ids
      OBVIOUS
    <3>1. n \in 1..Len(out) /\ out[n].id = receipt.profiles[n].id
      BY <1>5, <2>1
    <3> QED BY <3>1
  <2>4. \A k \in 1..Len(asked) : asked[k] \in ids
    BY <1>4
  <2>5. ASSUME NEW n \in 1..Len(out)
        PROVE  out[n].id \in {receipt.profiles[m].id : m \in 1..L} \union {asked[m] : m \in 1..Len(asked)}
    <3>1. CASE n \in 1..L
      BY <1>5, <2>1, <3>1
    <3>2. CASE n > L
      BY <1>5, <3>2
    <3> QED BY <2>2, <3>1, <3>2
  <2> DEFINE R == {receipt.profiles[n].id : n \in 1..L} \union {asked[n] : n \in 1..Len(asked)}
  <2>6. ASSUME NEW x \in R PROVE x \in ids
    <3>1. CASE \E n \in 1..L : x = receipt.profiles[n].id
      <4> HIDE DEF ids
      <4> QED BY <2>3, <3>1
    <3>2. CASE \E n \in 1..Len(asked) : x = asked[n]
      <4> HIDE DEF ids
      <4> QED BY <2>4, <3>2
    <3> QED BY <3>1, <3>2
  <2>7. ASSUME NEW x \in ids PROVE x \in R
    <3>1. PICK n \in 1..Len(out) : x = out[n].id
      OBVIOUS
    <3> HIDE DEF ids
    <3> QED BY <2>5, <3>1
  <2> HIDE DEF ids, R
  <2>8. ids = R
    BY <2>6, <2>7
  <2> QED BY <2>8 DEF R
<1>8. ASSUME \/ report.status = "Invalid"
             \/ \E n \in 1..Len(out) : out[n].id = "core" /\ ~Met(out[n])
      PROVE  \A n \in 1..Len(out) : ~Met(out[n]) \/ (out[n].id = "core" /\ report.status # "Invalid")
  BY <1>2, <1>5, <1>8
<1> HIDE DEF ids
<1> QED BY <1>5, <1>6, <1>7, <1>8 DEF ids, asked

\* A retraction leaves its target retracted, so a clean log has none.
LEMMA CleanHasNoRetraction ==
  ASSUME EvInv, retracted_records = {}
  PROVE  Accepted("Retraction") = {}
<1>1. retracted_records = {log[j].body.target : j \in Accepted("Retraction")}
  BY DEF EvInv, LedgerInv, TaintInv
<1> QED BY <1>1

LEMMA ZeroIsEarned ==
  ASSUME EvInv, DetailInv
  PROVE  ExitZeroEarned
<1> DEFINE asked == <<"delivery">>
<1> SUFFICES ASSUME NEW receipt \in bounds.receipts,
                    ValidateCommand(receipt, bounds.limits, asked) = 0
             PROVE  /\ receipt.spec_version = SpecVersion
                    /\ \A n \in 1..Len(receipt.profiles) : receipt.profiles[n].matches
                    /\ DeliveryClaims # {} /\ Accepted("Retraction") = {}
  BY Zenon DEF ExitZeroEarned
<1>1. asked \in Seq({"delivery"}) /\ Len(asked) = 1 /\ asked[1] = "delivery"
  OBVIOUS
<1> HIDE DEF asked
<1>2. PICK report : report = Validate(receipt, bounds.limits, asked)
  OBVIOUS
<1>3. PICK out : out = report.profiles
  OBVIOUS
<1> DEFINE missed == \E n \in 1..Len(out) : ~Met(out[n])
<1>4. ValidateCommand(receipt, bounds.limits, asked) =
        CASE report.status = "Invalid" -> 1
          [] report.status # "Invalid" /\ missed -> 3
          [] report.status = "Clean" /\ ~missed -> 0
          [] report.status = "Tainted" /\ ~missed -> 2
  BY <1>2, <1>3 DEF ValidateCommand
<1>5. report.status = "Invalid" \/ report.status \in {"Clean", "Tainted"}
  BY <1>2, ValidateSays, StatusSays
<1>6. report.status = "Clean" /\ ~missed
  <2> HIDE DEF missed
  <2>1. report.status = "Invalid" => ValidateCommand(receipt, bounds.limits, asked) = 1
    BY <1>4
  <2>2. report.status # "Invalid" /\ missed => ValidateCommand(receipt, bounds.limits, asked) = 3
    BY <1>4
  <2>3. report.status = "Tainted" /\ ~missed => ValidateCommand(receipt, bounds.limits, asked) = 2
    BY <1>4
  <2> QED BY <1>5, <2>1, <2>2, <2>3
<1>7. /\ StatusOf(receipt) = "Clean" /\ out = EvaluateProfiles(receipt, asked)
      /\ DeclarationsOk(receipt) /\ receipt.spec_version \in {"0.3", "0.4"}
  BY <1>2, <1>3, <1>6, ValidateSays
<1>8. receipt.profiles \in Seq([id : STRING, matches : BOOLEAN])
  BY DEF DetailInv, ExportsTyped
<1>9. \A n \in 1..Len(out) :
        /\ Met(out[n])
        /\ n <= Len(receipt.profiles) => out[n].id = receipt.profiles[n].id /\ receipt.profiles[n].matches
        /\ out[n].id = "delivery" => DeliveryHolds(receipt)
  BY <1>1, <1>6, <1>7, <1>8, EntriesSay
<1>10. /\ Len(out) \in Nat /\ Len(receipt.profiles) \in Nat /\ Len(out) >= Len(receipt.profiles)
       /\ \A k \in 1..Len(asked) : \E m \in 1..Len(out) : out[m].id = asked[k]
  <2>1. Len(out) \in Nat /\ ReportsOn(out, receipt, asked, Len(asked))
    BY <1>1, <1>7, <1>8, ReportsAll
  <2>2. Len(receipt.profiles) \in Nat
    BY <1>8
  <2> QED BY <2>1, <2>2 DEF ReportsOn
<1>11. DeliveryHolds(receipt)
  BY <1>1, <1>9, <1>10
<1>12. EvaluatedClaims # {} /\ DeliveryClaims # {}
  BY <1>11 DEF DeliveryHolds, EvaluatedClaims
<1>13. receipt.spec_version = SpecVersion
  <2>1. receipt.spec_version # "0.3"
    <3> SUFFICES ASSUME receipt.spec_version = "0.3" PROVE FALSE
      OBVIOUS
    <3>1. ReplaysIn("0.3")
      BY <1>7, StatusSays
    <3>2. LogInv
      BY DEF EvInv, LedgerInv
    <3> QED BY <1>12, <3>1, <3>2, OldEpochIsBare
  <2> QED BY <1>7, <2>1 DEF SpecVersion
<1>14. \A n \in 1..Len(receipt.profiles) : receipt.profiles[n].matches
  BY <1>9, <1>10
<1>15. Accepted("Retraction") = {}
  BY <1>7, StatusSays, CleanHasNoRetraction
<1> QED BY <1>12, <1>13, <1>14, <1>15

\* In every state that a space can reach, and for every receipt that is exported
\* in it: an old epoch keeps its meaning, a report has one coherent entry for
\* each profile, and the exit code 0 is earned by the whole log.
THEOREM ReportsAreSound == EvSpec => []ReportSound
<1>1. EvInv /\ DetailInv => ReportSound
  <2> SUFFICES ASSUME EvInv, DetailInv PROVE ReportSound
    OBVIOUS
  <2>1. LogInv /\ ExportsTyped
    BY DEF EvInv, LedgerInv, DetailInv
  <2> QED BY <2>1, OldEpochStable, ReportsCohere, ZeroIsEarned DEF ReportSound
<1> QED BY <1>1, EvInvAlways, DetailsAlways, PTL

-----------------------------------------------------------------------------
(* Deliveries *)

ClaimsOn(r) == {s \in DeliveryClaims : r \in RequestsOf(s)}
Claimed == UNION {RequestsOf(s) : s \in DeliveryClaims}

\* The claim that is evaluated is the latest that stands, or the latest of all
\* if none does.
LEMMA ClaimForSays ==
  ASSUME LogInv, NEW r \in Claimed
  PROVE  /\ ClaimFor(r) \in ClaimsOn(r)
         /\ ClaimsOn(r) \subseteq Unsound => \A t \in ClaimsOn(r) : t <= ClaimFor(r)
         /\ ~(ClaimsOn(r) \subseteq Unsound) =>
              /\ ClaimFor(r) \notin Unsound
              /\ \A t \in ClaimsOn(r) \ Unsound : t <= ClaimFor(r)
<1> DEFINE G == ClaimsOn(r)
           S == IF G \subseteq Unsound THEN G ELSE G \ Unsound
<1>1. ClaimFor(r) = Max(S)
  BY DEF ClaimFor, ClaimsOn
<1>2. Len(log) \in Nat /\ G \in SUBSET (0..Len(log)) /\ G # {}
  BY DEF LogInv, Accepted, DeliveryClaims, ClaimsOn, Claimed
<1>3. S \in SUBSET (0..Len(log)) /\ S # {} /\ S \subseteq G
  <2> HIDE DEF G
  <2> QED BY <1>2
<1>4. Max(S) \in S /\ \A y \in S : y <= Max(S)
  <2> HIDE DEF S
  <2> QED BY <1>2, <1>3, GreatestOf
<1> QED BY <1>1, <1>3, <1>4

LEMMA ClaimsAreClaims ==
  ASSUME LogInv, NEW s \in EvaluatedClaims
  PROVE  s \in DeliveryClaims /\ \E r \in Claimed : s = ClaimFor(r) /\ s \in ClaimsOn(r)
<1>1. PICK r \in Claimed : s = ClaimFor(r)
  BY DEF EvaluatedClaims, Claimed
<1>2. s \in ClaimsOn(r)
  BY <1>1, ClaimForSays
<1> QED BY <1>1, <1>2 DEF ClaimsOn

LEMMA DeliveredSays == Delivered <=> DeliveryHolds(Plain)
<1>1. PICK r : r = Delivery(Plain)
  OBVIOUS
<1>2. r.declared = FALSE /\ (r.status = "Conformant" <=> DeliveryHolds(Plain))
  BY <1>1, DeliverySays
<1>3. Met(r) <=> r.status = "Conformant"
  BY <1>2 DEF Met
<1> QED BY <1>1, <1>2, <1>3 DEF Delivered

\* A delivery that is met rests, to the last record, on nothing withdrawn; all
\* that its request requires was passed for the one candidate it chose, by
\* somebody else; and no later claim for the request stands.
THEOREM DeliveriesAreSound == EvSpec => []DeliverySound
<1>1. EvInv => DeliverySound
  <2> SUFFICES ASSUME EvInv, DeliveryHolds(Plain), NEW s \in EvaluatedClaims
               PROVE  /\ (Foundations[s] \union {s}) \intersect retracted_records = {}
                      /\ \A q \in Accepted("Requirement") \ retracted_records :
                           (log[q].body.required /\ log[q].body.request \in RequestsOf(s)) =>
                             \E e \in Foundations[s] \intersect Accepted("Evaluation") :
                               /\ q \in log[e].body.requirements /\ log[e].body.outcome = "passed"
                               /\ {log[e].body.candidate} = log[s].body.selected
                               /\ log[e].author # log[log[e].body.candidate].author
                      /\ \A t \in DeliveryClaims : (RequestsOf(t) = RequestsOf(s) /\ t > s) => t \in Unsound
    <3>1. DeliveryHolds(Plain) => EvaluatedClaims # {}
      BY DEF DeliveryHolds
    <3> QED BY <3>1, DeliveredSays DEF DeliverySound
  <2>1. LogInv /\ TaintInv
    BY DEF EvInv, LedgerInv
  <2>2. Sound(s) /\ Bound(s) /\ Separate(s) /\ \A q \in RequiredBy(s) : Covers(s, q)
    BY DEF DeliveryHolds
  <2>3. s \in accepted_records /\ s \notin retracted_records /\ s \notin tainted_records /\ s \in 1..Len(log)
    BY <2>1, <2>2 DEF Sound, LogInv
  <2>4. Foundations[s] \intersect retracted_records = {}
    BY <2>1, <2>3, TaintIsFounded
  <2>5. Rests(log[s].refs) \subseteq Foundations[s]
    BY <2>1, <2>3, FoundationsAre
  <2>6. ASSUME NEW q \in Accepted("Requirement") \ retracted_records,
               log[q].body.required, log[q].body.request \in RequestsOf(s)
        PROVE  \E e \in Foundations[s] \intersect Accepted("Evaluation") :
                 /\ q \in log[e].body.requirements /\ log[e].body.outcome = "passed"
                 /\ {log[e].body.candidate} = log[s].body.selected
                 /\ log[e].author # log[log[e].body.candidate].author
    <3>1. q \in RequiredBy(s)
      BY <2>6 DEF RequiredBy
    <3>2. PICK e \in Evidences(log[s].refs) : log[e].body.outcome = "passed" /\ q \in log[e].body.requirements
      BY <2>2, <3>1 DEF Covers
    <3>3. e \in Accepted("Evaluation") /\ e \in Foundations[s]
      BY <2>5 DEF Evidences, Rests
    <3>4. {log[e].body.candidate} = log[s].body.selected
      BY <2>2 DEF Bound
    <3>5. log[e].author # log[log[e].body.candidate].author
      BY <2>2, <3>4 DEF Separate
    <3> QED BY <3>2, <3>3, <3>4, <3>5
  <2>7. ASSUME NEW t \in DeliveryClaims, RequestsOf(t) = RequestsOf(s), t > s PROVE t \in Unsound
    <3>1. PICK r \in Claimed : s = ClaimFor(r) /\ s \in ClaimsOn(r)
      BY <2>1, ClaimsAreClaims
    <3>2. t \in ClaimsOn(r)
      BY <2>7, <3>1 DEF ClaimsOn
    <3>3. s \notin Unsound
      BY <2>3 DEF Unsound
    <3>4. \A x \in ClaimsOn(r) \ Unsound : x <= s
      BY <2>1, <3>1, <3>3, ClaimForSays
    <3>5. t \in Nat /\ s \in Nat
      BY <2>1, <2>3 DEF DeliveryClaims, Accepted, LogInv
    <3> QED BY <2>7, <3>2, <3>4, <3>5
  <2> QED BY <2>3, <2>4, <2>6, <2>7
<1> QED BY <1>1, EvInvAlways, PTL

-----------------------------------------------------------------------------
(* Lines, chains of replacements and standing *)

LEMMA EvLog ==
  ASSUME EvInv
  PROVE  LogInv /\ TaintInv /\ Len(log) \in Nat /\ \A k : Accepted(k) \subseteq 1..Len(log)
<1>1. LogInv /\ TaintInv
  BY DEF EvInv, LedgerInv
<1>2. Len(log) \in Nat /\ accepted_records \subseteq 1..Len(log)
  BY <1>1 DEF LogInv
<1>3. \A k : Accepted(k) \subseteq accepted_records
  BY DEF Accepted
<1> QED BY <1>1, <1>2, <1>3

\* What a candidate comes from is in the log before it.
LEMMA DepsAreOlder ==
  ASSUME EvInv, DetailInv, NEW c \in Accepted("Candidate")
  PROVE  /\ StandingDeps(c) \subseteq 1..(c - 1)
         /\ StandingDeps(c) \subseteq Accepted("Candidate")
<1>1. LogInv /\ c \in accepted_records /\ c \in 1..Len(log)
  BY DEF EvInv, LedgerInv, LogInv, Accepted
<1>2. CauseFact(log[c].body, log[c].refs) /\ ContinueFact(c) /\ \A r \in log[c].refs : r.target \in 1..(c - 1)
  BY <1>1 DEF DetailInv, EvInv, RecordFacts
<1> DEFINE b == log[c].body
<1>3. CASE b.basis = "Root"
  BY <1>3 DEF StandingDeps
<1>4. CASE b.basis = "Continuation"
  <2>1. StandingDeps(c) = {b.parent}
    BY <1>4 DEF StandingDeps
  <2>2. PICK s : s \in Accepted("Selection") /\ s < c /\ b.parent \in log[s].body.selected
    BY <1>2, <1>4 DEF ContinueFact
  <2>3. b.parent < s /\ b.parent \in Accepted("Candidate")
    BY <2>2 DEF EvInv, RecordFacts, DecideFact
  <2>4. b.parent \in 1..Len(log) /\ s \in 1..Len(log)
    BY <1>1, <2>2, <2>3 DEF LogInv, Accepted
  <2>5. b.parent \in 1..(c - 1)
    BY <1>1, <2>2, <2>3, <2>4
  <2> QED BY <2>1, <2>3, <2>5
<1>5. CASE b.basis = "Derivation"
  <2>1. StandingDeps(c) = b.causes \intersect Accepted("Candidate")
    BY <1>5 DEF StandingDeps
  <2>2. b.causes \subseteq 1..(c - 1)
    BY <1>2 DEF CauseFact, Targets
  <2> QED BY <2>1, <2>2
<1> QED BY <1>2, <1>3, <1>4, <1>5 DEF CauseFact

\* A candidate is not lost on its own account: it was not retracted, and the
\* decision that it continues stands or was made again.
Holds(c) ==
  /\ c \notin retracted_records
  /\ log[c].body.basis = "Continuation" =>
       \A s \in log[c].body.causes : AnchorSound(s, log[c].body.parent)

LineSays ==
  \A c \in Accepted("Candidate") : LineOf[c] = {c} \union UNION {LineOf[d] : d \in StandingDeps(c)}

LEMMA LineIs ==
  ASSUME EvInv, DetailInv
  PROVE  LineSays
<1> DEFINE n == Len(log)
           K == Accepted("Candidate")
           R == [i \in 1..n |-> IF i \in K THEN StandingDeps(i) ELSE {}]
           B == [i \in 1..n |-> IF i \in K THEN {i} ELSE {}]
           Of(f, i) == IF i \in K THEN {i} \union UNION {f[d] : d \in StandingDeps(i)} ELSE {}
           Fits(f) == f = [i \in 1..n |-> Of(f, i)]
<1>1. n \in Nat /\ K \subseteq 1..n
  BY EvLog
<1>2. \A i \in 1..n : R[i] \subseteq 1..(i - 1)
  <2> SUFFICES ASSUME NEW i \in 1..n PROVE R[i] \subseteq 1..(i - 1)
    OBVIOUS
  <2>1. CASE i \in K
    BY <2>1, DepsAreOlder
  <2>2. CASE i \notin K
    BY <2>2
  <2> QED BY <2>1, <2>2
<1>3. PICK f : Solves(f, n, B, R)
  <2> HIDE DEF R, B, n
  <2> QED BY <1>1, <1>2, SolutionExists
<1>4. Fits(f)
  <2>1. \A i \in 1..n : B[i] \union UNION {f[t] : t \in R[i]} = Of(f, i)
    <3> TAKE i \in 1..n
    <3>1. CASE i \in K
      <4>1. R[i] = StandingDeps(i) /\ B[i] = {i}
        BY <3>1
      <4> HIDE DEF R, B
      <4> QED BY <3>1, <4>1
    <3>2. CASE i \notin K
      <4>1. R[i] = {} /\ B[i] = {}
        BY <3>2
      <4> HIDE DEF R, B
      <4> QED BY <3>2, <4>1
    <3> QED BY <3>1, <3>2
  <2> HIDE DEF Of, R, B, n
  <2> QED BY <1>3, <2>1 DEF Solves
<1>5. LineOf = CHOOSE g : Fits(g)
  BY DEF LineOf
<1>6. Fits(LineOf)
  <2> HIDE DEF Fits
  <2> QED BY <1>4, <1>5
<1>7. \A i \in 1..n : LineOf[i] = Of(LineOf, i)
  <2> HIDE DEF Of
  <2> QED BY <1>6
<1> QED BY <1>1, <1>7 DEF LineSays

StandsSays ==
  \A c \in Accepted("Candidate") :
    Stands[c] \in BOOLEAN /\ (Stands[c] <=> Holds(c) /\ \A d \in StandingDeps(c) : Stands[d])

LEMMA StandsIs ==
  ASSUME EvInv, DetailInv
  PROVE  StandsSays
<1> DEFINE n == Len(log)
           K == Accepted("Candidate")
           Own(c) == /\ c \in K \ retracted_records
                     /\ log[c].body.basis = "Continuation" =>
                          \A s \in log[c].body.causes : AnchorSound(s, log[c].body.parent)
           R == [i \in 1..n |-> IF i \in K THEN StandingDeps(i) ELSE {}]
           B == [i \in 1..n |-> IF Own(i) THEN {} ELSE {i}]
           Of(f, i) == Own(i) /\ \A d \in StandingDeps(i) : f[d]
           Fits(f) == f = [i \in 1..n |-> Of(f, i)]
<1>1. n \in Nat /\ K \subseteq 1..n
  BY EvLog
<1>2. \A i \in 1..n : R[i] \subseteq 1..(i - 1)
  <2> SUFFICES ASSUME NEW i \in 1..n PROVE R[i] \subseteq 1..(i - 1)
    OBVIOUS
  <2>1. CASE i \in K
    BY <2>1, DepsAreOlder
  <2>2. CASE i \notin K
    BY <2>2
  <2> QED BY <2>1, <2>2
<1>3. PICK f : Solves(f, n, B, R)
  <2> HIDE DEF R, B, n
  <2> QED BY <1>1, <1>2, SolutionExists
<1> DEFINE g == [i \in 1..n |-> f[i] = {}]
<1>4. ASSUME NEW i \in 1..n PROVE g[i] = Of(g, i)
  <2>1. f[i] = B[i] \union UNION {f[t] : t \in R[i]}
    <3> HIDE DEF R, B, n
    <3> QED BY <1>3 DEF Solves
  <2>2. B[i] = {} <=> Own(i)
    <3> HIDE DEF Own
    <3> QED OBVIOUS
  <2>3. Own(i) => i \in K
    OBVIOUS
  <2>4. i \in K => R[i] = StandingDeps(i)
    OBVIOUS
  <2>5. \A t \in R[i] : t \in 1..n
    BY <1>1, <1>2
  <2>6. \A t \in R[i] : g[t] <=> f[t] = {}
    BY <2>5
  <2>7. g[i] <=> f[i] = {}
    OBVIOUS
  <2> HIDE DEF R, B, n, Own, K, g
  <2>8. f[i] = {} <=> Own(i) /\ \A t \in R[i] : f[t] = {}
    BY <2>1, <2>2
  <2>9. g[i] <=> Of(g, i)
    BY <2>3, <2>4, <2>6, <2>7, <2>8
  <2>10. g[i] \in BOOLEAN
    BY DEF g
  <2>11. Of(g, i) \in BOOLEAN
    BY Zenon
  <2> HIDE DEF Of
  <2> QED BY <2>9, <2>10, <2>11
<1>5. Fits(g)
  <2>1. g = [i \in 1..n |-> g[i]]
    OBVIOUS
  <2> HIDE DEF g, Of, n
  <2> QED BY <1>4, <2>1
<1>6. Stands = CHOOSE h : Fits(h)
  BY DEF Stands
<1>7. Fits(Stands)
  <2> HIDE DEF Fits, g
  <2> QED BY <1>5, <1>6
<1>8. \A i \in 1..n : Stands[i] = Of(Stands, i)
  <2> HIDE DEF Of
  <2> QED BY <1>7
<1>9. ASSUME NEW c \in Accepted("Candidate")
      PROVE  Stands[c] \in BOOLEAN /\ (Stands[c] <=> Holds(c) /\ \A d \in StandingDeps(c) : Stands[d])
  <2>1. Stands[c] = Of(Stands, c)
    <3> HIDE DEF Of
    <3> QED BY <1>1, <1>8
  <2>2. Own(c) <=> Holds(c)
    BY DEF Holds
  <2> HIDE DEF Own
  <2>3. Of(Stands, c) \in BOOLEAN
    BY Zenon
  <2>4. Stands[c] \in BOOLEAN
    <3> HIDE DEF Of
    <3> QED BY <2>1, <2>3
  <2> QED BY <2>1, <2>2, <2>4
<1> QED BY <1>9 DEF StandsSays

ChainSays ==
  \A s \in 1..Len(log) :
    Chain[s] = IF s \in Accepted("Selection")
                 THEN ReplacedBy(s) \union UNION {Chain[t] : t \in ReplacedBy(s)} ELSE {}

LEMMA ChainIs ==
  ASSUME EvInv, DetailInv
  PROVE  ChainSays
<1> DEFINE n == Len(log)
           K == Accepted("Selection")
           R == [i \in 1..n |-> IF i \in K THEN ReplacedBy(i) ELSE {}]
           Of(f, i) == IF i \in K THEN UNION {{t} \union f[t] : t \in ReplacedBy(i)} ELSE {}
           Fits(f) == f = [i \in 1..n |-> Of(f, i)]
           Plainly(f, i) == IF i \in K THEN ReplacedBy(i) \union UNION {f[t] : t \in ReplacedBy(i)} ELSE {}
<1>1. n \in Nat /\ K \subseteq 1..n
  BY EvLog
<1>2. \A i \in 1..n : R[i] \subseteq 1..(i - 1)
  <2> SUFFICES ASSUME NEW i \in 1..n PROVE R[i] \subseteq 1..(i - 1)
    OBVIOUS
  <2>1. CASE i \in K
    <3>1. \A r \in log[i].refs : r.target \in 1..(i - 1)
      BY <2>1 DEF DetailInv, Accepted
    <3> QED BY <2>1, <3>1 DEF ReplacedBy, Targets
  <2>2. CASE i \notin K
    BY <2>2
  <2> QED BY <2>1, <2>2
<1>3. PICK f : Solves(f, n, R, R)
  <2> HIDE DEF R, n
  <2> QED BY <1>1, <1>2, SolutionExists
<1>4. \A h, i : Of(h, i) = Plainly(h, i)
  <2> SUFFICES ASSUME NEW h, NEW i PROVE Of(h, i) = Plainly(h, i)
    OBVIOUS
  <2>1. CASE i \in K
    <3> DEFINE S == ReplacedBy(i)
    <3>1. UNION {{t} \union h[t] : t \in S} = S \union UNION {h[t] : t \in S}
      <4> HIDE DEF S
      <4>1. \A x : x \in UNION {{t} \union h[t] : t \in S} <=> \E t \in S : x = t \/ x \in h[t]
        OBVIOUS
      <4>2. \A x : x \in S \union UNION {h[t] : t \in S} <=> \E t \in S : x = t \/ x \in h[t]
        OBVIOUS
      <4> QED BY <4>1, <4>2
    <3> QED BY <2>1, <3>1
  <2>2. CASE i \notin K
    BY <2>2
  <2> QED BY <2>1, <2>2
<1>5. Fits(f)
  <2>1. \A i \in 1..n : R[i] \union UNION {f[t] : t \in R[i]} = Plainly(f, i)
    <3> TAKE i \in 1..n
    <3>1. CASE i \in K
      <4>1. R[i] = ReplacedBy(i)
        BY <3>1
      <4> HIDE DEF R
      <4> QED BY <3>1, <4>1
    <3>2. CASE i \notin K
      <4>1. R[i] = {}
        BY <3>2
      <4> HIDE DEF R
      <4> QED BY <3>2, <4>1
    <3> QED BY <3>1, <3>2
  <2> HIDE DEF Of, Plainly, R, n
  <2> QED BY <1>3, <1>4, <2>1 DEF Solves
<1>6. Chain = CHOOSE g : Fits(g)
  BY DEF Chain
<1>7. Fits(Chain)
  <2> HIDE DEF Fits
  <2> QED BY <1>5, <1>6
<1>8. \A i \in 1..n : Chain[i] = Plainly(Chain, i)
  <2> HIDE DEF Of, Plainly
  <2> QED BY <1>4, <1>7
<1> QED BY <1>8 DEF ChainSays

\* A candidate stands if and only if everything on its line holds.
StandsByLine == \A c \in Accepted("Candidate") : Stands[c] <=> \A d \in LineOf[c] : Holds(d)

LEMMA StandsIsByLine ==
  ASSUME EvInv, DetailInv
  PROVE  StandsByLine
<1> DEFINE T == {c \in 1..Len(log) : c \in Accepted("Candidate") => (Stands[c] <=> \A d \in LineOf[c] : Holds(d))}
<1>1. Len(log) \in Nat /\ Accepted("Candidate") \subseteq 1..Len(log)
  BY EvLog
<1>2. LineSays /\ StandsSays
  BY LineIs, StandsIs
<1>3. ASSUME NEW c \in 1..Len(log), \A j \in 1..(c - 1) : j \in T PROVE c \in T
  <2> SUFFICES ASSUME c \in Accepted("Candidate") PROVE Stands[c] <=> \A d \in LineOf[c] : Holds(d)
    OBVIOUS
  <2>1. StandingDeps(c) \subseteq 1..(c - 1) /\ StandingDeps(c) \subseteq Accepted("Candidate")
    BY DepsAreOlder
  <2>2. \A d \in StandingDeps(c) : Stands[d] <=> \A x \in LineOf[d] : Holds(x)
    BY <1>3, <2>1
  <2>3. LineOf[c] = {c} \union UNION {LineOf[d] : d \in StandingDeps(c)}
    BY <1>2 DEF LineSays
  <2>4. Stands[c] <=> Holds(c) /\ \A d \in StandingDeps(c) : Stands[d]
    BY <1>2 DEF StandsSays
  <2> QED BY <2>2, <2>3, <2>4
<1>4. \A c \in 1..Len(log) : c \in T
  <2> HIDE DEF T
  <2> QED BY <1>1, <1>3, PastInduction
<1> QED BY <1>1, <1>4 DEF StandsByLine

\* The line of a candidate is of candidates.
LEMMA LineOfCandidates ==
  ASSUME EvInv, DetailInv
  PROVE  \A c \in Accepted("Candidate") : LineOf[c] \subseteq Accepted("Candidate") /\ c \in LineOf[c]
<1> DEFINE T == {c \in 1..Len(log) : c \in Accepted("Candidate") => LineOf[c] \subseteq Accepted("Candidate")}
<1>1. Len(log) \in Nat /\ Accepted("Candidate") \subseteq 1..Len(log)
  BY EvLog
<1>2. LineSays
  BY LineIs
<1>3. ASSUME NEW c \in 1..Len(log), \A j \in 1..(c - 1) : j \in T PROVE c \in T
  <2> SUFFICES ASSUME c \in Accepted("Candidate") PROVE LineOf[c] \subseteq Accepted("Candidate")
    OBVIOUS
  <2>1. StandingDeps(c) \subseteq 1..(c - 1) /\ StandingDeps(c) \subseteq Accepted("Candidate")
    BY DepsAreOlder
  <2>2. \A d \in StandingDeps(c) : LineOf[d] \subseteq Accepted("Candidate")
    BY <1>3, <2>1
  <2>3. LineOf[c] = {c} \union UNION {LineOf[d] : d \in StandingDeps(c)}
    BY <1>2 DEF LineSays
  <2> QED BY <2>2, <2>3
<1>4. \A c \in 1..Len(log) : c \in T
  <2> HIDE DEF T
  <2> QED BY <1>1, <1>3, PastInduction
<1> QED BY <1>1, <1>2, <1>4 DEF LineSays

-----------------------------------------------------------------------------
(* What a step leaves alone *)

ClaimStep(kind) == kind # "Retraction" /\ \E a, body, refs : Accept(kind, a, body, refs) /\ Claims(refs)
WithdrawStep(target) ==
  \E a, th, refs : Accept("Retraction", a, [thread |-> th, target |-> target], refs) /\ Withdraws(target, refs)

LEMMA EvNextShape ==
  ASSUME EvNext
  PROVE  (\E kind : ClaimStep(kind)) \/ (\E target : WithdrawStep(target)) \/ Reject
<1>1. CASE \E a \in Authors, th \in Threads : Develop(a, th)
  <2>1. PICK a, th : Develop(a, th)
    BY <1>1
  <2>2. CASE \E basis, parent, causes, b, uses : Propose(a, basis, parent, causes, b, uses)
    <3>1. ClaimStep("Candidate")
      BY <2>2, Zenon DEF Propose, ClaimStep
    <3> QED BY <3>1
  <2>3. CASE \E c, reqs, s, j, uses : CommitEvaluation(a, c, reqs, s, j, uses)
    <3>1. ClaimStep("Evaluation")
      BY <2>3, ZenonT(60) DEF CommitEvaluation, ClaimStep
    <3> QED BY <3>1
  <2>4. CASE \E d, r, uses : CommitSelection(a, th, d, r, uses)
    <3>1. ClaimStep("Selection")
      BY <2>4, ZenonT(60) DEF CommitSelection, ClaimStep
    <3> QED BY <3>1
  <2>5. CASE \E target, uses : Retract(a, th, target, uses)
    <3>1. PICK target, uses : Retract(a, th, target, uses)
      BY <2>5
    <3>2. WithdrawStep(target)
      BY <3>1, Zenon DEF Retract, CommitRetraction, WithdrawStep
    <3> QED BY <3>2
  <2> QED BY <2>1, <2>2, <2>3, <2>4, <2>5 DEF Develop, CommitRoot, CommitContinuation, CommitDerivation
<1>2. CASE \E a \in Authors, th \in Threads : Demand(a, th)
  <2>1. PICK a, th : Demand(a, th)
    BY <1>2
  <2>2. CASE \E sc, p, uses : CommitRequest(a, th, sc, p, uses)
    <3>1. ClaimStep("Request")
      BY <2>2, Zenon DEF CommitRequest, ClaimStep
    <3> QED BY <3>1
  <2>3. CASE \E req, key, required : CommitRequirement(a, th, req, key, required)
    <3>1. ClaimStep("Requirement")
      BY <2>3, Zenon DEF CommitRequirement, ClaimStep
    <3> QED BY <3>1
  <2>4. CASE \E hash, actor, sc, e, repl : ApproveSelection(a, hash, actor, sc, e, repl)
    <3>1. ClaimStep("Approval")
      BY <2>4, Zenon DEF ApproveSelection, ClaimStep
    <3> QED BY <3>1
  <2> QED BY <2>1, <2>2, <2>3, <2>4 DEF Demand
<1>3. CASE CommitRejected
  BY <1>3 DEF CommitRejected
<1>4. CASE \E a \in Authors, th \in Threads : Perform(a, th)
  <2>1. PICK kind \in {"Capability", "Action", "Result"} : Commits(kind)
    BY <1>4, PerformCommits
  <2>2. ClaimStep(kind)
    BY <2>1 DEF Commits, ClaimStep
  <2> QED BY <2>2
<1> QED BY <1>1, <1>2, <1>3, <1>4 DEF EvNext

\* A step adds record n and changes no other; it takes nothing back.
LEMMA StepGrows ==
  ASSUME EvInv, EvNext, NEW n, n = NextId
  PROVE  /\ n = Len(log) + 1 /\ Len(log) \in Nat /\ Len(log') = n
         /\ \A i \in 1..Len(log) : log'[i] = log[i] /\ \A k : i \in Accepted(k)' <=> i \in Accepted(k)
         /\ \A k : Accepted(k) \subseteq Accepted(k)' /\ Accepted(k)' \subseteq Accepted(k) \union {n}
         /\ \A k : n \in Accepted(k)' => log'[n].kind = k
         /\ \A i \in 1..Len(log) : i \in accepted_records' <=> i \in accepted_records
         /\ retracted_records \subseteq retracted_records' /\ tainted_records \subseteq tainted_records'
         /\ rules' = rules /\ bounds' = bounds
<1>1. LogInv
  BY DEF EvInv, LedgerInv
<1>2. PICK K : Adds(K)
  BY EvNextAdds
<1>3. /\ \A i \in 1..Len(log) : log'[i] = log[i] /\ i # n
      /\ \A k : Accepted(k)' = Accepted(k) \union (IF k \in K THEN {n} ELSE {})
      /\ Len(log') = Len(log) + 1 /\ n = Len(log) + 1 /\ Len(log) \in Nat
  BY <1>1, <1>2, AddedFacts
<1>4. \A k : n \in Accepted(k)' => log'[n].kind = k
  BY DEF Accepted
<1>5. (\E kind, a, body, refs : Accept(kind, a, body, refs)) \/ Reject
  BY EvNextShape DEF ClaimStep, WithdrawStep
<1>6. \A i \in 1..Len(log) : i \in accepted_records' <=> i \in accepted_records
  <2>1. accepted_records' = accepted_records \union {n} \/ accepted_records' = accepted_records
    BY <1>5 DEF Accept, Reject
  <2> QED BY <1>3, <2>1
<1>7. rules' = rules /\ bounds' = bounds
  BY <1>5 DEF Accept, Reject, setting
<1>8. retracted_records \subseteq retracted_records' /\ tainted_records \subseteq tainted_records'
  <2>1. CASE \E kind : ClaimStep(kind)
    BY <2>1 DEF ClaimStep, Claims
  <2>2. CASE \E target : WithdrawStep(target)
    BY <2>2 DEF WithdrawStep, Withdraws
  <2>3. CASE Reject
    BY <2>3 DEF Reject
  <2> QED BY <2>1, <2>2, <2>3, EvNextShape
<1>9. \A i \in 1..Len(log) : \A k : i \in Accepted(k)' <=> i \in Accepted(k)
  BY <1>3
<1> QED BY <1>3, <1>4, <1>6, <1>7, <1>8, <1>9

\* What was unsound stays so.
LEMMA UnsoundStays ==
  ASSUME EvInv, EvNext
  PROVE  Unsound \subseteq Unsound'
<1>1. /\ Accepted("Selection") \subseteq Accepted("Selection")'
      /\ retracted_records \subseteq retracted_records' /\ tainted_records \subseteq tainted_records'
  BY StepGrows
<1> QED BY <1>1 DEF Unsound

\* All of the above, after a step.
FoundedSays == \A i \in 1..Len(log) : i \in tainted_records <=> Foundations[i] \intersect retracted_records # {}
FoundationsSay ==
  \A i \in 1..Len(log) :
    Foundations[i] =
      IF i \in accepted_records
        THEN Rests(log[i].refs) \union UNION {Foundations[t] : t \in Rests(log[i].refs)} ELSE {}
LineHas == \A c \in Accepted("Candidate") : LineOf[c] \subseteq Accepted("Candidate") /\ c \in LineOf[c]

LEMMA ThenSays ==
  EvInv' /\ DetailInv' =>
    ChainSays' /\ LineSays' /\ StandsByLine' /\ FoundedSays' /\ FoundationsSay' /\ LineHas'
<1>1. EvInv /\ DetailInv =>
        ChainSays /\ LineSays /\ StandsByLine /\ FoundedSays /\ FoundationsSay /\ LineHas
  <2> SUFFICES ASSUME EvInv, DetailInv
               PROVE  ChainSays /\ LineSays /\ StandsByLine /\ FoundedSays /\ FoundationsSay /\ LineHas
    OBVIOUS
  <2>1. LogInv /\ TaintInv
    BY EvLog
  <2>2. FoundedSays
    BY <2>1, TaintIsFounded DEF FoundedSays
  <2>3. FoundationsSay
    BY <2>1, FoundationsAre DEF FoundationsSay
  <2>4. LineHas
    BY LineOfCandidates DEF LineHas
  <2> QED BY <2>2, <2>3, <2>4, ChainIs, LineIs, StandsIsByLine
<1> QED BY <1>1, PTL

LEMMA ChainStays ==
  ASSUME EvInv, DetailInv, EvNext
  PROVE  \A s \in 1..Len(log) : Chain'[s] = Chain[s]
<1> DEFINE T == {s \in 1..Len(log) : Chain'[s] = Chain[s]}
<1>1. ChainSays /\ ChainSays'
  BY ChainIs, ThenSays, EvNextKeeps, DetailsStep
<1>2. /\ Len(log) \in Nat /\ Len(log') = Len(log) + 1
      /\ \A i \in 1..Len(log) : log'[i] = log[i] /\ \A k : i \in Accepted(k)' <=> i \in Accepted(k)
  BY StepGrows
<1>3. ASSUME NEW s \in 1..Len(log), \A j \in 1..(s - 1) : j \in T PROVE s \in T
  <2>1. s \in 1..Len(log')
    BY <1>2
  <2>2. CASE s \in Accepted("Selection")
    <3>1. s \in Accepted("Selection")' /\ log'[s] = log[s]
      BY <1>2, <2>2
    <3>2. PICK R : R = ReplacedBy(s)
      OBVIOUS
    <3>3. R = ReplacedBy(s)'
      BY <3>1, <3>2 DEF ReplacedBy, Targets
    <3>4. Chain[s] = R \union UNION {Chain[t] : t \in R}
      BY <1>1, <2>2, <3>2 DEF ChainSays
    <3>5. Chain'[s] = R \union UNION {Chain'[t] : t \in R}
      BY <1>1, <2>1, <3>1, <3>3 DEF ChainSays
    <3>6. R \subseteq 1..(s - 1)
      <4>1. \A r \in log[s].refs : r.target \in 1..(s - 1)
        BY <2>2 DEF DetailInv, Accepted
      <4> QED BY <3>2, <4>1 DEF ReplacedBy, Targets
    <3>7. \A t \in R : Chain'[t] = Chain[t]
      BY <1>3, <3>6
    <3> QED BY <3>4, <3>5, <3>7
  <2>3. CASE s \notin Accepted("Selection")
    <3>1. s \notin Accepted("Selection")'
      BY <1>2, <2>3
    <3>2. Chain[s] = {}
      BY <1>1, <2>3 DEF ChainSays
    <3>3. Chain'[s] = {}
      BY <1>1, <2>1, <3>1 DEF ChainSays
    <3> QED BY <3>2, <3>3
  <2> QED BY <2>2, <2>3
<1>4. \A s \in 1..Len(log) : s \in T
  <2> HIDE DEF T
  <2> QED BY <1>2, <1>3, PastInduction
<1> QED BY <1>4

LEMMA LineStays ==
  ASSUME EvInv, DetailInv, EvNext
  PROVE  \A c \in Accepted("Candidate") : LineOf'[c] = LineOf[c]
<1> DEFINE T == {c \in 1..Len(log) : c \in Accepted("Candidate") => LineOf'[c] = LineOf[c]}
<1>1. LineSays /\ LineSays'
  BY LineIs, ThenSays, EvNextKeeps, DetailsStep
<1>2. /\ Len(log) \in Nat
      /\ \A i \in 1..Len(log) : log'[i] = log[i] /\ \A k : i \in Accepted(k)' <=> i \in Accepted(k)
      /\ Accepted("Candidate") \subseteq 1..Len(log)
  BY StepGrows, EvLog
<1>3. ASSUME NEW c \in 1..Len(log), \A j \in 1..(c - 1) : j \in T PROVE c \in T
  <2> SUFFICES ASSUME c \in Accepted("Candidate") PROVE LineOf'[c] = LineOf[c]
    OBVIOUS
  <2>1. c \in Accepted("Candidate")' /\ log'[c] = log[c]
    BY <1>2
  <2>2. PICK R : R = StandingDeps(c)
    OBVIOUS
  <2>3. R \subseteq 1..(c - 1) /\ R \subseteq Accepted("Candidate")
    BY <2>2, DepsAreOlder
  <2>4. R = StandingDeps(c)'
    <3>1. CauseFact(log[c].body, log[c].refs)
      BY DEF DetailInv
    <3>2. log[c].body.causes \subseteq 1..Len(log)
      <4>1. \A r \in log[c].refs : r.target \in 1..Len(log)
        BY <1>2 DEF DetailInv, Accepted
      <4> QED BY <3>1, <4>1 DEF CauseFact, Targets
    <3>3. log[c].body.causes \intersect Accepted("Candidate")' = log[c].body.causes \intersect Accepted("Candidate")
      BY <1>2, <3>2
    <3> QED BY <2>1, <2>2, <3>1, <3>3 DEF StandingDeps, CauseFact
  <2>5. LineOf[c] = {c} \union UNION {LineOf[d] : d \in R}
    BY <1>1, <2>2 DEF LineSays
  <2>6. LineOf'[c] = {c} \union UNION {LineOf'[d] : d \in R}
    BY <1>1, <2>1, <2>4 DEF LineSays
  <2>7. \A d \in R : LineOf'[d] = LineOf[d]
    BY <1>3, <2>3
  <2> QED BY <2>5, <2>6, <2>7
<1>4. \A c \in 1..Len(log) : c \in T
  <2> HIDE DEF T
  <2> QED BY <1>2, <1>3, PastInduction
<1> QED BY <1>2, <1>4

\* Standing is regained by a decision alone, for a line with nothing retracted.
LEMMA StandingRegained ==
  ASSUME EvInv, DetailInv, EvNext, NEW c \in Compromised, c \notin Compromised'
  PROVE  Restores(c)
<1>1. PICK n : n = NextId
  OBVIOUS
<1>2. /\ n = Len(log) + 1 /\ Len(log) \in Nat /\ Len(log') = n
      /\ \A i \in 1..Len(log) : log'[i] = log[i] /\ \A k : i \in Accepted(k)' <=> i \in Accepted(k)
      /\ \A k : Accepted(k) \subseteq Accepted(k)' /\ Accepted(k)' \subseteq Accepted(k) \union {n}
      /\ retracted_records \subseteq retracted_records'
  BY <1>1, StepGrows
<1>3. c \in Accepted("Candidate") /\ ~Stands[c]
  BY DEF Compromised
<1>4. c \in Accepted("Candidate")' /\ Stands'[c]
  BY <1>2, <1>3 DEF Compromised
<1>5. StandsByLine /\ StandsByLine' /\ LineOf'[c] = LineOf[c] /\ LineOf[c] \subseteq Accepted("Candidate")
  BY <1>3, StandsIsByLine, ThenSays, EvNextKeeps, DetailsStep, LineStays, LineOfCandidates
<1>6. PICK L : L = LineOf[c]
  OBVIOUS
<1>7. \A d \in L : Holds(d)'
  BY <1>4, <1>5, <1>6 DEF StandsByLine
<1>8. PICK d \in L : ~Holds(d)
  BY <1>3, <1>5, <1>6 DEF StandsByLine
<1>9. L \intersect retracted_records = {}
  BY <1>2, <1>7 DEF Holds
<1>10. d \in Accepted("Candidate") /\ d \in 1..Len(log) /\ log'[d] = log[d]
  BY <1>2, <1>5, <1>6, <1>8, EvLog
<1>11. log[d].body.basis = "Continuation"
       /\ \E s \in log[d].body.causes : ~AnchorSound(s, log[d].body.parent)
  BY <1>8, <1>9 DEF Holds
<1>12. PICK s \in log[d].body.causes : ~AnchorSound(s, log[d].body.parent)
  BY <1>11
<1>13. log[d].body.causes = {s}
  <2>1. CauseFact(log[d].body, log[d].refs)
    BY <1>10 DEF DetailInv
  <2> QED BY <1>11, <1>12, <2>1 DEF CauseFact
<1>14. PICK p : p = log[d].body.parent
  OBVIOUS
<1>15. s \in Unsound /\ \A t \in Accepted("Selection") \ Unsound : s \in Chain[t] => p \notin log[t].body.selected
  BY <1>12, <1>14 DEF AnchorSound, Replacers
<1>16. s \in Unsound'
  BY <1>15, UnsoundStays
<1>17. AnchorSound(s, p)'
  BY <1>7, <1>8, <1>10, <1>11, <1>12, <1>14 DEF Holds, AnchorSound, Replacers
<1>18. PICK t \in Accepted("Selection")' \ Unsound' : s \in Chain'[t] /\ p \in log'[t].body.selected
  BY <1>16, <1>17 DEF AnchorSound, Replacers
<1>19. t = n
  <2> SUFFICES ASSUME t \in Accepted("Selection") PROVE FALSE
    BY <1>2, <1>18
  <2>1. t \in 1..Len(log)
    BY EvLog
  <2>2. Chain'[t] = Chain[t] /\ log'[t] = log[t]
    BY <1>2, <2>1, ChainStays
  <2>3. t \notin Unsound
    BY <1>18, UnsoundStays
  <2> QED BY <1>15, <1>18, <2>2, <2>3
<1> QED BY <1>1, <1>6, <1>8, <1>9, <1>11, <1>13, <1>14, <1>18, <1>19 DEF Restores

LEMMA FoundationsStay ==
  ASSUME EvInv, DetailInv, EvNext
  PROVE  \A i \in 1..Len(log) : Foundations'[i] = Foundations[i]
<1> DEFINE T == {i \in 1..Len(log) : Foundations'[i] = Foundations[i]}
<1>1. FoundationsSay /\ FoundationsSay'
  BY ThenSays, EvNextKeeps, DetailsStep, EvLog, FoundationsAre DEF FoundationsSay
<1>2. /\ Len(log) \in Nat /\ Len(log') = Len(log) + 1
      /\ \A i \in 1..Len(log) : log'[i] = log[i] /\ (i \in accepted_records' <=> i \in accepted_records)
  BY StepGrows
<1>3. ASSUME NEW i \in 1..Len(log), \A j \in 1..(i - 1) : j \in T PROVE i \in T
  <2>1. i \in 1..Len(log')
    BY <1>2
  <2>2. PICK R : R = Rests(log[i].refs)
    OBVIOUS
  <2>3. R = Rests(log'[i].refs)
    BY <1>2, <2>2
  <2>4. CASE i \in accepted_records
    <3>1. Foundations[i] = R \union UNION {Foundations[t] : t \in R}
      BY <1>1, <2>2, <2>4 DEF FoundationsSay
    <3>2. Foundations'[i] = R \union UNION {Foundations'[t] : t \in R}
      BY <1>1, <1>2, <2>1, <2>3, <2>4 DEF FoundationsSay
    <3>3. R \subseteq 1..(i - 1)
      BY <2>2, <2>4, EvLog DEF LogInv
    <3>4. \A t \in R : Foundations'[t] = Foundations[t]
      BY <1>3, <3>3
    <3> QED BY <3>1, <3>2, <3>4
  <2>5. CASE i \notin accepted_records
    <3>1. Foundations[i] = {}
      BY <1>1, <2>5 DEF FoundationsSay
    <3>2. Foundations'[i] = {}
      BY <1>1, <1>2, <2>1, <2>5 DEF FoundationsSay
    <3> QED BY <3>1, <3>2
  <2> QED BY <2>4, <2>5
<1>4. \A i \in 1..Len(log) : i \in T
  <2> HIDE DEF T
  <2> QED BY <1>2, <1>3, PastInduction
<1> QED BY <1>4

\* Nothing that was in the log becomes unsound but by a retraction.
LEMMA SoundStays ==
  ASSUME EvInv, DetailInv, EvNext, retracted_records' = retracted_records
  PROVE  Unsound' \intersect (1..Len(log)) \subseteq Unsound
<1>1. /\ Len(log) \in Nat /\ Len(log') = Len(log) + 1
      /\ \A i \in 1..Len(log) : \A k : i \in Accepted(k)' <=> i \in Accepted(k)
  BY StepGrows
<1>2. FoundedSays /\ FoundedSays'
  BY ThenSays, EvNextKeeps, DetailsStep, EvLog, TaintIsFounded DEF FoundedSays
<1>3. \A i \in 1..Len(log) : i \in tainted_records' <=> i \in tainted_records
  <2> SUFFICES ASSUME NEW i \in 1..Len(log) PROVE i \in tainted_records' <=> i \in tainted_records
    OBVIOUS
  <2>1. i \in 1..Len(log') /\ Foundations'[i] = Foundations[i]
    BY <1>1, FoundationsStay
  <2> QED BY <1>2, <2>1 DEF FoundedSays
<1> QED BY <1>1, <1>3 DEF Unsound

\* The clauses of the baseline, for a receipt that declares nothing.
LEMMA PlainBaseline ==
  Met(Baseline(Plain)) <=> StatusOf(Plain) # "Invalid" /\ Actors # {} /\ ThresholdsHold /\ ContextLimited
<1> DEFINE b1 == StatusOf(Plain) # "Invalid"
           b2 == Actors # {}
           C == {<<"B1", b1>>, <<"B2", b2>>, <<"B3", ThresholdsHold>>, <<"B4", ContextLimited>>}
<1>1. Baseline(Plain) = Core(Plain)
  <2>1. Plain.profiles = <<>> /\ 1..Len(Plain.profiles) = {}
    BY DEF Plain
  <2>2. DeclarationsOf(Plain, "core") = {}
    BY <2>1 DEF DeclarationsOf
  <2> QED BY <2>2 DEF Baseline
<1>2. Core(Plain) = Result("core", Unmet(C))
  BY Zenon DEF Core
<1>3. b1 \in BOOLEAN /\ b2 \in BOOLEAN /\ ThresholdsHold \in BOOLEAN /\ ContextLimited \in BOOLEAN
  <2>1. b1 \in BOOLEAN /\ b2 \in BOOLEAN
    OBVIOUS
  <2>2. ThresholdsHold \in BOOLEAN
    BY Zenon DEF ThresholdsHold
  <2>3. ContextLimited \in BOOLEAN
    BY DEF ContextLimited
  <2> QED BY <2>1, <2>2, <2>3
<1> HIDE DEF b1, b2
<1>4. Unmet(C) = {} => b1 /\ b2 /\ ThresholdsHold /\ ContextLimited
  <2>1. /\ <<"B1", b1>> \in C /\ <<"B2", b2>> \in C
        /\ <<"B3", ThresholdsHold>> \in C /\ <<"B4", ContextLimited>> \in C
    BY Zenon
  <2> HIDE DEF C
  <2> QED BY <1>3, <2>1, UnmetHas
<1>5. b1 /\ b2 /\ ThresholdsHold /\ ContextLimited => Unmet(C) = {}
  <2> SUFFICES ASSUME b1, b2, ThresholdsHold, ContextLimited PROVE \A d \in C : d[2]
    BY UnmetNone
  <2> TAKE d \in C
  <2>1. d = <<"B1", b1>> \/ d = <<"B2", b2>> \/ d = <<"B3", ThresholdsHold>> \/ d = <<"B4", ContextLimited>>
    BY Zenon
  <2>2. CASE d = <<"B1", b1>>
    BY <2>2
  <2>3. CASE d = <<"B2", b2>>
    BY <2>3
  <2>4. CASE d = <<"B3", ThresholdsHold>>
    BY <2>4
  <2>5. CASE d = <<"B4", ContextLimited>>
    BY <2>5
  <2> QED BY <2>1, <2>2, <2>3, <2>4, <2>5
<1> DEFINE failed == Unmet(C)
<1> HIDE DEF C
<1>6. PICK r : r = Core(Plain)
  OBVIOUS
<1>7. r = Result("core", failed)
  BY <1>2, <1>6
<1>8. r.declared = FALSE /\ (r.status = "Conformant" <=> failed = {})
  <2> HIDE DEF failed
  <2> QED BY <1>7 DEF Result
<1>9. Met(Baseline(Plain)) <=> failed = {}
  BY <1>1, <1>6, <1>8 DEF Met
<1> QED BY <1>4, <1>5, <1>9, Zenon DEF b1, b2

LEMMA ClaimThenSays ==
  EvInv' => \A r \in Claimed' :
    /\ ClaimFor(r)' \in ClaimsOn(r)'
    /\ ClaimsOn(r)' \subseteq Unsound' => \A t \in ClaimsOn(r)' : t <= ClaimFor(r)'
    /\ ~(ClaimsOn(r)' \subseteq Unsound') =>
         /\ ClaimFor(r)' \notin Unsound'
         /\ \A t \in ClaimsOn(r)' \ Unsound' : t <= ClaimFor(r)'
<1> DEFINE Now == \A r \in Claimed :
             /\ ClaimFor(r) \in ClaimsOn(r)
             /\ ClaimsOn(r) \subseteq Unsound => \A t \in ClaimsOn(r) : t <= ClaimFor(r)
             /\ ~(ClaimsOn(r) \subseteq Unsound) =>
                  /\ ClaimFor(r) \notin Unsound
                  /\ \A t \in ClaimsOn(r) \ Unsound : t <= ClaimFor(r)
<1>1. EvInv => Now
  BY EvLog, ClaimForSays
<1>2. EvInv' => Now'
  <2> HIDE DEF Now
  <2> QED BY <1>1, PTL
<1> QED BY <1>2

\* What a decision was based on stays what it was.
LEMMA BasisStays ==
  ASSUME EvInv, DetailInv, EvNext, NEW s \in Accepted("Selection"), NEW E, E = Evidences(log[s].refs)
  PROVE  /\ s \in 1..Len(log) /\ log'[s] = log[s]
         /\ Evidences(log[s].refs)' = E
         /\ \A e \in E : /\ log'[e] = log[e] /\ log'[log[e].body.candidate] = log[log[e].body.candidate]
                         /\ \A q \in log[e].body.requirements : log'[q] = log[q]
         /\ \A p \in log[s].body.selected : log'[p] = log[p]
         /\ RequestsOf(s)' = RequestsOf(s)
<1>1. /\ Len(log) \in Nat
      /\ \A i \in 1..Len(log) : log'[i] = log[i] /\ \A k : i \in Accepted(k)' <=> i \in Accepted(k)
  BY StepGrows
<1>2. \A k : Accepted(k) \subseteq 1..Len(log)
  BY EvLog
<1>3. s \in accepted_records /\ s \in 1..Len(log) /\ log'[s] = log[s]
  BY <1>1, <1>2 DEF Accepted
<1>4. Targets(log[s].refs, "Use") \subseteq 1..Len(log)
  <2>1. Rests(log[s].refs) \subseteq 1..(s - 1)
    BY <1>3, EvLog DEF LogInv
  <2> QED BY <1>1, <1>3, <2>1 DEF Rests
<1>5. Targets(log[s].refs, "Use") \intersect Accepted("Evaluation")'
        = Targets(log[s].refs, "Use") \intersect Accepted("Evaluation")
  BY <1>1, <1>4
<1>6. Evidences(log[s].refs)' = E
  BY <1>3, <1>5 DEF Evidences, Targets
<1>7. ASSUME NEW e \in E
      PROVE  /\ log'[e] = log[e] /\ log'[log[e].body.candidate] = log[log[e].body.candidate]
             /\ \A q \in log[e].body.requirements : log'[q] = log[q]
  <2>1. e \in Accepted("Evaluation") /\ e \in accepted_records /\ e \in 1..Len(log)
    BY <1>2 DEF Evidences, Accepted
  <2>2. Rests(log[e].refs) \subseteq 1..(e - 1) /\ JudgeFact(e)
    BY <2>1, EvLog DEF LogInv, EvInv, RecordFacts
  <2>3. Rests(log[e].refs) \subseteq 1..Len(log)
    BY <1>1, <2>1, <2>2
  <2> QED BY <1>1, <2>1, <2>2, <2>3 DEF JudgeFact
<1>8. \A p \in log[s].body.selected : log'[p] = log[p]
  BY <1>1, <1>2 DEF EvInv, RecordFacts, DecideFact
<1>9. RequestsOf(s)' = RequestsOf(s)
  <2>1. \A x : x \in RequestsOf(s) <=> \E e \in E : \E q \in log[e].body.requirements : x = log[q].body.request
    BY DEF RequestsOf
  <2>2. \A x : x \in RequestsOf(s)' <=> \E e \in E : \E q \in log'[e].body.requirements : x = log'[q].body.request
    BY <1>6 DEF RequestsOf
  <2>3. \A x : x \in RequestsOf(s)' <=> x \in RequestsOf(s)
    BY <1>7, <2>1, <2>2
  <2> QED BY <2>3
<1> QED BY <1>3, <1>6, <1>7, <1>8, <1>9

\* A step that commits no decision and withdraws nothing under a claim that is
\* evaluated leaves the claims alone.
LEMMA ClaimsStay ==
  ASSUME EvInv, DetailInv, EvNext, Accepted("Selection")' = Accepted("Selection"),
         EvaluatedClaims \intersect (Unsound' \ Unsound) = {}
  PROVE  EvaluatedClaims' = EvaluatedClaims
<1>1. \A s \in Accepted("Selection") : RequestsOf(s)' = RequestsOf(s) /\ log'[s] = log[s]
  BY BasisStays
<1>2. DeliveryClaims' = DeliveryClaims
  BY <1>1 DEF DeliveryClaims
<1>3. \A s \in DeliveryClaims : RequestsOf(s)' = RequestsOf(s)
  BY <1>1 DEF DeliveryClaims
<1>4. Claimed' = Claimed
  <2>1. \A x : x \in Claimed <=> \E s \in DeliveryClaims : x \in RequestsOf(s)
    BY DEF Claimed
  <2>2. \A x : x \in Claimed' <=> \E s \in DeliveryClaims' : x \in RequestsOf(s)'
    BY DEF Claimed
  <2>3. \A x : x \in Claimed' <=> x \in Claimed
    BY <1>2, <1>3, <2>1, <2>2
  <2> QED BY <2>3
<1>5. ASSUME NEW r \in Claimed PROVE ClaimFor(r)' = ClaimFor(r)
  <2>1. PICK G : G = ClaimsOn(r)
    OBVIOUS
  <2>2. G = ClaimsOn(r)'
    BY <1>2, <1>3, <2>1 DEF ClaimsOn
  <2>3. PICK s, t : s = ClaimFor(r) /\ t = ClaimFor(r)'
    OBVIOUS
  <2>4. /\ s \in G
        /\ G \subseteq Unsound => \A x \in G : x <= s
        /\ ~(G \subseteq Unsound) => s \notin Unsound /\ \A x \in G \ Unsound : x <= s
    BY <2>1, <2>3, EvLog, ClaimForSays
  <2>5. /\ t \in G
        /\ G \subseteq Unsound' => \A x \in G : x <= t
        /\ ~(G \subseteq Unsound') => t \notin Unsound' /\ \A x \in G \ Unsound' : x <= t
    BY <1>4, <2>2, <2>3, ClaimThenSays, EvNextKeeps
  <2>6. Unsound \subseteq Unsound'
    BY UnsoundStays
  <2>7. s \in EvaluatedClaims
    BY <2>3 DEF EvaluatedClaims, Claimed
  <2>8. s \in Unsound' => s \in Unsound
    BY <2>7
  <2>9. G \subseteq Nat
    BY <2>1, EvLog DEF ClaimsOn, DeliveryClaims
  <2>10. s <= t /\ t <= s
    BY <2>4, <2>5, <2>6, <2>8
  <2> QED BY <2>3, <2>4, <2>5, <2>9, <2>10
<1>6. EvaluatedClaims = {ClaimFor(r) : r \in Claimed}
  BY DEF EvaluatedClaims, Claimed
<1>7. EvaluatedClaims' = {ClaimFor(r)' : r \in Claimed'}
  BY DEF EvaluatedClaims, Claimed
<1> QED BY <1>4, <1>5, <1>6, <1>7

LEMMA PlainThen ==
  Met(Baseline(Plain))' => Actors # {} /\ ThresholdsHold' /\ ContextLimited'
<1>1. Met(Baseline(Plain)) => Actors # {} /\ ThresholdsHold /\ ContextLimited
  BY PlainBaseline
<1>2. Met(Baseline(Plain))' => (Actors # {})' /\ ThresholdsHold' /\ ContextLimited'
  BY <1>1, PTL
<1> QED BY <1>2, Zenon

\* What is on record for a decision is so before the step, or it is the result that
\* the step commits.
LEMMA OnRecordThen ==
  ASSUME EvInv, DetailInv, EvNext, NEW s \in Accepted("Selection"), NEW x \in OnRecord(s)',
         x \notin OnRecord(s)
  PROVE  /\ log'[NextId].kind = "Result" /\ log'[NextId].body.thread = log[s].body.thread
         /\ x \in log'[NextId].body.artifacts
<1>1. PICK n : n = NextId
  OBVIOUS
<1>2. /\ \A i \in 1..Len(log) : log'[i] = log[i]
      /\ \A k : Accepted(k)' \subseteq Accepted(k) \union {n}
      /\ \A k : n \in Accepted(k)' => log'[n].kind = k
  BY <1>1, StepGrows
<1>3. Accepted("Result") \subseteq 1..Len(log)
  BY EvLog
<1>4. log'[s] = log[s] /\ \A p \in log[s].body.selected : log'[p] = log[p]
  BY BasisStays
<1>5. PICK c : /\ x \in log'[c].body.artifacts
               /\ \/ c \in log'[s].body.selected
                  \/ c \in Accepted("Result")' /\ log'[c].body.thread = log'[s].body.thread
  BY DEF OnRecord
<1>6. c \notin log[s].body.selected
  BY <1>4, <1>5 DEF OnRecord
<1>7. c \in Accepted("Result")' /\ log'[c].body.thread = log[s].body.thread
  BY <1>4, <1>5, <1>6
<1>8. c \notin Accepted("Result")
  BY <1>2, <1>3, <1>5, <1>7 DEF OnRecord
<1>9. c = n
  BY <1>2, <1>7, <1>8
<1> QED BY <1>1, <1>2, <1>5, <1>7, <1>9

\* Such a step, if it withdraws no requirement and brings no evidence that was
\* missing either, meets no delivery.
LEMMA DeliveryUnmoved ==
  ASSUME EvInv, DetailInv, EvNext, Accepted("Selection")' = Accepted("Selection"),
         \A s \in EvaluatedClaims : ~Evidenced(s),
         EvaluatedClaims \intersect (Unsound' \ Unsound) = {},
         Accepted("Requirement") \intersect retracted_records' \subseteq retracted_records,
         DeliveryHolds(Plain)'
  PROVE  DeliveryHolds(Plain)
<1>1. /\ Len(log) \in Nat
      /\ \A i \in 1..Len(log) : log'[i] = log[i] /\ (i \in accepted_records' <=> i \in accepted_records)
      /\ \A k : Accepted(k) \subseteq Accepted(k)'
      /\ retracted_records \subseteq retracted_records' /\ tainted_records \subseteq tainted_records'
      /\ rules' = rules /\ bounds' = bounds
  BY StepGrows
<1>2. accepted_records \subseteq 1..Len(log) /\ \A k : Accepted(k) \subseteq 1..Len(log)
  BY EvLog DEF LogInv
<1>3. PICK C : C = EvaluatedClaims
  OBVIOUS
<1>4. C = EvaluatedClaims'
  BY <1>3, ClaimsStay
<1>5. C \subseteq Accepted("Selection")
  BY <1>3, EvLog, ClaimsAreClaims DEF DeliveryClaims
<1>6. StatusOf(Plain) # "Invalid"
  <2>1. StatusOf(Plain)' # "Invalid"
    BY DEF DeliveryHolds
  <2>2. \A i \in accepted_records' : SchemaOf(i)' \in SchemasFor(Plain.spec_version)'
    BY <2>1 DEF StatusOf, ReplaysIn, Plain, SchemasFor, SpecVersion
  <2>3. \A i \in accepted_records : SchemaOf(i)' = SchemaOf(i) /\ i \in accepted_records'
    BY <1>1, <1>2 DEF SchemaOf
  <2>4. SchemasFor(Plain.spec_version)' = SchemasFor(Plain.spec_version)
    BY DEF SchemasFor, Plain, SpecVersion
  <2>5. ReplaysIn(Plain.spec_version)
    BY <2>2, <2>3, <2>4 DEF ReplaysIn
  <2> QED BY <2>5 DEF StatusOf
<1>7. Met(Baseline(Plain))
  <2>1. Met(Baseline(Plain))'
    BY DEF DeliveryHolds
  <2>2. Actors # {} /\ ThresholdsHold' /\ ContextLimited'
    BY <2>1, PlainThen
  <2>3. ThresholdsHold
    BY <1>1, <2>2, Zenon DEF ThresholdsHold, Threshold, BaselineThreshold
  <2>4. ContextLimited
    BY <1>1, <2>2, Zenon DEF ContextLimited
  <2> QED BY <1>6, <2>2, <2>3, <2>4, PlainBaseline
<1>8. ASSUME NEW s \in C
      PROVE  /\ \A q \in RequiredBy(s) : Covers(s, q)
             /\ Truthful(s) /\ Bound(s) /\ Separate(s) /\ Decided(s) /\ Sound(s)
  <2>1. PICK E : E = Evidences(log[s].refs)
    OBVIOUS
  <2>2. /\ s \in 1..Len(log) /\ log'[s] = log[s]
        /\ Evidences(log[s].refs)' = E
        /\ \A e \in E : /\ log'[e] = log[e] /\ log'[log[e].body.candidate] = log[log[e].body.candidate]
                        /\ \A q \in log[e].body.requirements : log'[q] = log[q]
        /\ \A p \in log[s].body.selected : log'[p] = log[p]
        /\ RequestsOf(s)' = RequestsOf(s)
    BY <1>5, <2>1, BasisStays
  <2>3. /\ \A q \in RequiredBy(s)' : Covers(s, q)'
        /\ Truthful(s)' /\ Bound(s)' /\ Separate(s)' /\ Decided(s)' /\ Sound(s)'
    BY <1>4, <1>8 DEF DeliveryHolds
  <2>4. RequiredBy(s) \subseteq RequiredBy(s)'
    BY <1>1, <1>2, <2>2 DEF RequiredBy
  <2>5. ASSUME NEW q \in RequiredBy(s) PROVE Covers(s, q)
    <3>1. Covers(s, q)'
      BY <2>3, <2>4
    <3> QED BY <1>1, <2>1, <2>2, <3>1 DEF Covers
  <2>6. Truthful(s)
    <3>1. \A e \in E : log'[e].body.requirements \intersect RequiredBy(s)' # {} => log'[e].body.outcome = "passed"
      BY <2>2, <2>3 DEF Truthful
    <3> QED BY <2>1, <2>2, <2>4, <3>1 DEF Truthful
  <2>7. Bound(s)
    <3>1. /\ Cardinality(log'[s].body.selected) = 1
          /\ \A e \in E :
               /\ log'[e].body.schema # "v1"
               /\ {log'[e].body.candidate} = log'[s].body.selected
               /\ log'[e].body.evidence # {}
               /\ log'[e].body.evidence \subseteq OnRecord(s)'
      BY <2>2, <2>3 DEF Bound
    <3>2. ~Evidenced(s)
      BY <1>3, <1>8
    <3>3. ASSUME NEW e \in E, NEW x \in log[e].body.evidence, x \notin OnRecord(s) PROVE FALSE
      <4>1. x \in OnRecord(s)'
        BY <2>2, <3>1, <3>3
      <4>2. /\ log'[NextId].kind = "Result" /\ log'[NextId].body.thread = log[s].body.thread
            /\ x \in log'[NextId].body.artifacts
        BY <1>5, <1>8, <3>3, <4>1, OnRecordThen
      <4> QED BY <2>1, <3>2, <3>3, <4>2 DEF Evidenced
    <3>4. \A e \in E : log[e].body.evidence \subseteq OnRecord(s)
      BY <3>3
    <3> QED BY <2>1, <2>2, <3>1, <3>4 DEF Bound
  <2>8. Separate(s)
    <3>1. /\ Cardinality(log'[s].body.selected) = 1
          /\ \A e \in E : \A c \in log'[s].body.selected : log'[e].author # log'[c].author
      BY <2>2, <2>3 DEF Separate
    <3> QED BY <2>1, <2>2, <3>1 DEF Separate
  <2>9. Decided(s)
    <3>1. E # {} /\ \A e \in E : log'[e].body.schema # "v1" /\ log'[e].body.bound
      BY <2>2, <2>3 DEF Decided
    <3> QED BY <2>1, <2>2, <3>1 DEF Decided
  <2>10. Sound(s)
    BY <1>1, <2>2, <2>3 DEF Sound
  <2> QED BY <2>5, <2>6, <2>7, <2>8, <2>9, <2>10
<1>9. C # {}
  BY <1>4 DEF DeliveryHolds
<1> QED BY <1>3, <1>6, <1>7, <1>8, <1>9 DEF DeliveryHolds

\* A delivery is regained by a decision, by the result that was missing, or by what
\* a retraction takes away.
LEMMA DeliveryMoves ==
  ASSUME EvInv, DetailInv, EvNext, ~DeliveryHolds(Plain), DeliveryHolds(Plain)'
  PROVE  \/ log'[NextId].kind = "Selection"
         \/ \E s \in EvaluatedClaims : Evidenced(s)
         \/ log'[NextId].kind = "Retraction"
            /\ \/ log'[NextId].body.target \in Accepted("Requirement")
               \/ EvaluatedClaims \intersect (Unsound' \ Unsound) # {}
<1> SUFFICES ASSUME log'[NextId].kind # "Selection", \A s \in EvaluatedClaims : ~Evidenced(s),
                    log'[NextId].kind = "Retraction" =>
                      /\ log'[NextId].body.target \notin Accepted("Requirement")
                      /\ EvaluatedClaims \intersect (Unsound' \ Unsound) = {}
             PROVE  FALSE
  OBVIOUS
<1>1. PICK n : n = NextId
  OBVIOUS
<1>2. /\ \A k : Accepted(k) \subseteq Accepted(k)' /\ Accepted(k)' \subseteq Accepted(k) \union {n}
      /\ \A k : n \in Accepted(k)' => log'[n].kind = k
  BY <1>1, StepGrows
<1>3. Accepted("Selection")' = Accepted("Selection")
  <2>1. log'[n].kind # "Selection"
    BY <1>1
  <2>2. n \notin Accepted("Selection")'
    BY <1>2, <2>1
  <2> QED BY <1>2, <2>2
<1>4. EvaluatedClaims \subseteq 1..Len(log)
  BY EvLog, ClaimsAreClaims DEF DeliveryClaims
<1>5. CASE retracted_records' = retracted_records
  <2>1. EvaluatedClaims \intersect (Unsound' \ Unsound) = {}
    BY <1>4, <1>5, SoundStays
  <2> QED BY <1>3, <1>5, <2>1, DeliveryUnmoved
<1>6. CASE \E target : WithdrawStep(target)
  <2>1. PICK target, a, th, refs :
          Accept("Retraction", a, [thread |-> th, target |-> target], refs) /\ Withdraws(target, refs)
    BY <1>6 DEF WithdrawStep
  <2>2. log'[NextId].body = [thread |-> th, target |-> target] /\ log'[NextId].kind = "Retraction"
    BY <2>1, AcceptAdds, EvLog DEF Accepted, Accept, LogInv, IsLog
  <2>3. log'[NextId].body.target = target
    BY <2>2
  <2>4. target \notin Accepted("Requirement") /\ EvaluatedClaims \intersect (Unsound' \ Unsound) = {}
    BY <2>2, <2>3
  <2>5. retracted_records' = retracted_records \union {target}
    BY <2>1 DEF Withdraws
  <2>6. Accepted("Requirement") \intersect retracted_records' \subseteq retracted_records
    BY <2>4, <2>5
  <2> QED BY <1>3, <2>4, <2>6, DeliveryUnmoved
<1>7. CASE (\E kind : ClaimStep(kind)) \/ Reject
  BY <1>5, <1>7 DEF ClaimStep, Claims, Reject
<1> QED BY <1>6, <1>7, EvNextShape

\* What was lost comes back only by work that was done again: standing by a
\* decision for the same line, a delivery by a decision, a result that was missing
\* or a withdrawn demand.
THEOREM RegainedOnlyByWork == EvSpec => RegainedByWork
<1> DEFINE A == /\ \A c \in Compromised : c \in Compromised' \/ Restores(c)
                /\ Unsound \subseteq Unsound'
           B == bounds.receipts # {} /\ ~Delivered /\ Delivered' =>
                  \/ log'[NextId].kind = "Selection"
                  \/ \E s \in EvaluatedClaims : Evidenced(s)
                  \/ log'[NextId].kind = "Retraction"
                     /\ \/ log'[NextId].body.target \in Accepted("Requirement")
                        \/ EvaluatedClaims \intersect (Unsound' \ Unsound) # {}
<1>1. EvInv /\ DetailInv /\ EvNext => A
  BY StandingRegained, UnsoundStays
<1>2. Delivered' <=> DeliveryHolds(Plain)'
  BY DeliveredSays, PTL
<1>3. EvInv /\ DetailInv /\ EvNext => B
  BY <1>2, DeliveredSays, DeliveryMoves
<1>4. EvInv /\ DetailInv /\ [EvNext]_evolution => [A]_evolution /\ [B]_evolution
  <2> HIDE DEF A, B
  <2> QED BY <1>1, <1>3
<1>5. EvSpec => [][A]_evolution /\ [][B]_evolution
  <2> HIDE DEF A, B
  <2> QED BY <1>4, EvInvAlways, DetailsAlways, PTL DEF EvSpec
<1> QED BY <1>5, PTL DEF RegainedByWork, LostUntilReaffirmed, DeliveryRegained

-----------------------------------------------------------------------------
(* Lines of descent: the edges of a candidate *)

LEMMA AscendingSays ==
  ASSUME NEW m \in Nat, NEW S \in SUBSET (1..m), NEW a, a = Ascending(S)
  PROVE  /\ IsFiniteSet(S) /\ Cardinality(S) \in Nat /\ Cardinality(S) <= m
         /\ a \in Seq(S) /\ Len(a) = Cardinality(S)
         /\ {a[n] : n \in 1..Len(a)} = S
<1> DEFINE N == Cardinality(S)
           Upto(i) == {j \in S : j <= i}
           rank == [i \in S |-> Cardinality(Upto(i))]
<1>1. IsFiniteSet(1..m) /\ Cardinality(1..m) = m
  BY FS_Interval
<1>2. IsFiniteSet(S) /\ N \in Nat /\ N <= m
  BY <1>1, FS_Subset, FS_CardinalityType
<1>3. ASSUME NEW i \in S PROVE IsFiniteSet(Upto(i)) /\ rank[i] = Cardinality(Upto(i)) /\ rank[i] \in 1..N
  <2>1. Upto(i) \in SUBSET S /\ i \in Upto(i)
    OBVIOUS
  <2> HIDE DEF Upto
  <2>2. IsFiniteSet(Upto(i)) /\ Cardinality(Upto(i)) <= N
    BY <1>2, <2>1, FS_Subset
  <2>3. Cardinality(Upto(i)) \in Nat /\ Cardinality(Upto(i)) # 0
    BY <2>1, <2>2, FS_CardinalityType, FS_EmptySet
  <2>4. rank[i] = Cardinality(Upto(i))
    OBVIOUS
  <2> HIDE DEF rank, N
  <2> QED BY <1>2, <2>2, <2>3, <2>4
<1>4. ASSUME NEW i \in S, NEW k \in S, i < k PROVE rank[i] # rank[k]
  <2>1. Upto(i) \in SUBSET Upto(k) /\ k \in Upto(k) /\ k \notin Upto(i)
    <3>1. i \in Int /\ k \in Int /\ \A j \in S : j \in Int
      OBVIOUS
    <3>2. \A j \in S : j <= i => j <= k
      BY <1>4, <3>1
    <3>3. k <= k /\ ~(k <= i)
      BY <1>4, <3>1
    <3> QED BY <3>2, <3>3, Zenon
  <2>2. IsFiniteSet(Upto(k)) /\ rank[i] = Cardinality(Upto(i)) /\ rank[k] = Cardinality(Upto(k))
    BY <1>3
  <2> HIDE DEF Upto, rank
  <2>3. Cardinality(Upto(k)) = Cardinality(Upto(i)) => Upto(k) = Upto(i)
    BY <2>1, <2>2, FS_Subset
  <2> QED BY <2>1, <2>2, <2>3
<1>5. \A i, k \in S : rank[i] = rank[k] => i = k
  <2>1. \A i \in S : i \in Int
    OBVIOUS
  <2> HIDE DEF rank
  <2> QED BY <1>4, <2>1
<1>6. rank \in [S -> 1..N]
  <2> HIDE DEF N
  <2> QED BY <1>3
<1>7. rank \in Injection(S, 1..N)
  <2> HIDE DEF rank, N
  <2> QED BY <1>5, <1>6 DEF Injection, IsInjective
<1>8. IsFiniteSet(1..N) /\ Cardinality(1..N) = N
  <2> HIDE DEF N
  <2> QED BY <1>2, FS_Interval
<1>9. rank \in Surjection(S, 1..N)
  <2> DEFINE T == 1..N
  <2>1. rank \in Injection(S, T) /\ IsFiniteSet(T) /\ Cardinality(S) = Cardinality(T)
    BY <1>7, <1>8
  <2> HIDE DEF rank, N, T
  <2>2. rank \in Surjection(S, T)
    BY <2>1, FS_Injection
  <2> QED BY <2>2 DEF T
<1>10. \A n \in 1..N : \E i \in S : rank[i] = n
  <2> HIDE DEF rank, N
  <2> QED BY <1>9 DEF Surjection
<1>11. a = [n \in 1..N |-> CHOOSE i \in S : Cardinality(Upto(i)) = n]
  BY DEF Ascending
<1>12. ASSUME NEW n \in 1..N PROVE a[n] \in S /\ rank[a[n]] = n
  <2>1. a[n] = CHOOSE i \in S : Cardinality(Upto(i)) = n
    <3> HIDE DEF N, Upto
    <3> QED BY <1>11
  <2>2. \E i \in S : Cardinality(Upto(i)) = n
    <3> HIDE DEF N, Upto, rank
    <3> QED BY <1>3, <1>10
  <2>3. a[n] \in S /\ Cardinality(Upto(a[n])) = n
    <3> HIDE DEF N, Upto, rank
    <3> QED BY <2>1, <2>2
  <2> HIDE DEF Upto, rank, N
  <2> QED BY <1>3, <2>3
<1>13. a \in [1..N -> S]
  <2> HIDE DEF Upto, rank, N
  <2> QED BY <1>11, <1>12
<1>14. a \in Seq(S) /\ Len(a) = N
  <2> HIDE DEF N
  <2> QED BY <1>2, <1>13
<1>15. \A i \in S : rank[i] \in 1..N /\ a[rank[i]] = i
  <2> HIDE DEF rank, N
  <2> QED BY <1>3, <1>5, <1>12
<1>16. {a[n] : n \in 1..N} = S
  <2> HIDE DEF rank, N
  <2> QED BY <1>12, <1>15, ZenonT(60)
<1> QED BY <1>2, <1>14, <1>16

Vias == {"continuation-anchor", "parent", "derivation"}

LEMMA ViaSays ==
  ASSUME NEW m \in Nat, NEW S \in SUBSET (1..m), NEW via \in Vias, NEW v, v = Via(S, via)
  PROVE  /\ Cardinality(S) \in Nat /\ Cardinality(S) <= m
         /\ v \in Seq(S \X Vias) /\ Len(v) = Cardinality(S)
         /\ AncestorsOf(v) = S
<1>1. PICK a : a = Ascending(S)
  OBVIOUS
<1>2. /\ Cardinality(S) \in Nat /\ Cardinality(S) <= m
      /\ a \in Seq(S) /\ Len(a) = Cardinality(S)
      /\ {a[n] : n \in 1..Len(a)} = S
  BY <1>1, AscendingSays
<1>3. v = [n \in 1..Len(a) |-> <<a[n], via>>]
  BY <1>1 DEF Via
<1>4. ASSUME NEW n \in 1..Len(a) PROVE v[n] = <<a[n], via>> /\ v[n] \in S \X Vias /\ v[n][1] = a[n]
  <2>1. a[n] \in S
    BY <1>2
  <2>2. v[n] = <<a[n], via>>
    BY <1>3
  <2> QED BY <2>1, <2>2
<1> HIDE DEF Vias
<1>5. v \in [1..Len(a) -> S \X Vias]
  BY <1>3, <1>4
<1>6. v \in Seq(S \X Vias) /\ Len(v) = Len(a)
  BY <1>2, <1>5
<1>7. {v[n][1] : n \in 1..Len(a)} = {a[n] : n \in 1..Len(a)}
  BY <1>4
<1> QED BY <1>2, <1>6, <1>7 DEF AncestorsOf

\* What candidate c directly comes from: candidates, and the anchor of a
\* continuation.
Direct(c) ==
  StandingDeps(c) \union (IF log[c].body.basis = "Continuation" THEN log[c].body.causes ELSE {})

LEMMA DirectIs ==
  ASSUME EvInv, DetailInv, NEW c \in Accepted("Candidate")
  PROVE  /\ Direct(c) \subseteq 1..(c - 1) /\ Direct(c) \subseteq accepted_records
         /\ Direct(c) \intersect Accepted("Candidate") = StandingDeps(c)
<1>1. StandingDeps(c) \subseteq 1..(c - 1) /\ StandingDeps(c) \subseteq Accepted("Candidate")
  BY DepsAreOlder
<1>2. c \in 1..Len(log) /\ Len(log) \in Nat /\ Accepted("Selection") \subseteq 1..Len(log)
  BY EvLog
<1>3. CASE log[c].body.basis = "Continuation"
  <2>1. ContinueFact(c)
    BY DEF EvInv, RecordFacts
  <2>2. \A s \in log[c].body.causes : s \in Accepted("Selection") /\ s < c
    BY <1>3, <2>1 DEF ContinueFact
  <2>3. \A s \in log[c].body.causes : s \in 1..(c - 1) /\ s \in accepted_records /\ s \notin Accepted("Candidate")
    BY <1>2, <2>2 DEF Accepted
  <2>4. Direct(c) = StandingDeps(c) \union log[c].body.causes
    BY <1>3 DEF Direct
  <2>5. Accepted("Candidate") \subseteq accepted_records
    BY DEF Accepted
  <2> QED BY <1>1, <2>3, <2>4, <2>5
<1>4. CASE log[c].body.basis # "Continuation"
  <2>1. Direct(c) = StandingDeps(c)
    BY <1>4 DEF Direct
  <2>2. Accepted("Candidate") \subseteq accepted_records
    BY DEF Accepted
  <2> QED BY <1>1, <2>1, <2>2
<1> QED BY <1>3, <1>4

LEMMA BackEdgesSay ==
  ASSUME EvInv, DetailInv, NEW c \in Accepted("Candidate"), NEW b, b = BackEdges(c)
  PROVE  /\ b \in Seq(Direct(c) \X Vias) /\ Len(b) <= c - 1
         /\ AncestorsOf(b) = Direct(c)
<1>1. c \in 1..Len(log) /\ Len(log) \in Nat
  BY EvLog
<1>2. CauseFact(log[c].body, log[c].refs) /\ ContinueFact(c)
  BY DEF DetailInv, EvInv, RecordFacts
<1>3. Direct(c) \subseteq 1..(c - 1) /\ Direct(c) \subseteq accepted_records
      /\ Direct(c) \intersect Accepted("Candidate") = StandingDeps(c)
  BY DirectIs
<1> DEFINE body == log[c].body
<1>4. CASE body.basis = "Root"
  <2>1. b = <<>> /\ Direct(c) = {}
    BY <1>4 DEF BackEdges, Direct, StandingDeps
  <2> QED BY <1>1, <2>1 DEF AncestorsOf
<1>5. CASE body.basis = "Continuation"
  <2>1. PICK s : body.causes = {s}
    BY <1>2, <1>5 DEF CauseFact
  <2>2. PICK p : p = body.parent
    OBVIOUS
  <2>3. Direct(c) = {p, s}
    BY <1>5, <2>1, <2>2 DEF Direct, StandingDeps
  <2>4. s \in Accepted("Selection") /\ p \in log[s].body.selected
    BY <1>2, <1>5, <2>1, <2>2 DEF ContinueFact
  <2>5. p < s /\ s \in 1..(c - 1) /\ p \in 1..(c - 1)
    BY <1>3, <2>3, <2>4 DEF EvInv, RecordFacts, DecideFact
  <2>6. PICK v : v = Via({s}, "continuation-anchor")
    OBVIOUS
  <2>7. b = v \o << <<p, "parent">> >>
    BY <1>2, <1>5, <2>1, <2>2, <2>6 DEF BackEdges, CauseFact
  <2>8. c - 1 \in Nat /\ {s} \in SUBSET (1..(c - 1)) /\ "continuation-anchor" \in Vias /\ "parent" \in Vias
    BY <1>1, <2>5 DEF Vias
  <2>9. v \in Seq({s} \X Vias) /\ Len(v) = Cardinality({s}) /\ AncestorsOf(v) = {s}
    <3>1. PICK k, S, via : k = c - 1 /\ S = {s} /\ via = "continuation-anchor"
      OBVIOUS
    <3>2. k \in Nat /\ S \in SUBSET (1..k) /\ via \in Vias /\ v = Via(S, via)
      BY <2>6, <2>8, <3>1
    <3>3. v \in Seq(S \X Vias) /\ Len(v) = Cardinality(S) /\ AncestorsOf(v) = S
      BY ONLY <3>2, ViaSays
    <3> QED BY <3>1, <3>3
  <2>10. Len(v) = 1
    BY <2>9, FS_Singleton
  <2> HIDE DEF body
  <2>11. PICK D : D = Direct(c) \X Vias
    OBVIOUS
  <2>12. v \in Seq(D) /\ <<p, "parent">> \in D
    <3>1. {s} \X Vias \subseteq D
      BY <2>3, <2>11
    <3>2. v \in Seq(D)
      BY <2>9, <3>1
    <3> QED BY <2>3, <2>8, <2>11, <3>2
  <2>13. b \in Seq(D) /\ Len(b) = 2 /\ b[1] = v[1] /\ b[2] = <<p, "parent">>
    <3>1. PICK e, u : e = <<p, "parent">> /\ u = <<e>>
      OBVIOUS
    <3>2. v \in Seq(D) /\ e \in D /\ b = v \o u /\ Len(v) = 1 /\ u = <<e>>
      BY <2>7, <2>10, <2>12, <3>1
    <3>3. u \in Seq(D) /\ Len(u) = 1 /\ u[1] = e
      BY ONLY <3>2
    <3>4. b \in Seq(D) /\ Len(b) = 2 /\ b[1] = v[1] /\ b[2] = u[1]
      BY ONLY <3>2, <3>3, ConcatProperties
    <3> QED BY <3>1, <3>3, <3>4
  <2>14. v[1][1] = s /\ b[2][1] = p
    <3>1. 1 \in 1..Len(v)
      BY <2>10
    <3> QED BY <2>9, <2>13, <3>1 DEF AncestorsOf
  <2>15. AncestorsOf(b) = {s, p}
    <3>1. 1..Len(b) = {1, 2}
      BY <2>13
    <3> QED BY <2>13, <2>14, <3>1 DEF AncestorsOf
  <2>16. Len(b) <= c - 1
    BY <1>1, <2>5, <2>13
  <2> QED BY <2>3, <2>11, <2>13, <2>15, <2>16
<1>6. CASE body.basis = "Derivation"
  <2>1. PICK S : S = {t \in body.causes : log[t].kind = "Candidate"}
    OBVIOUS
  <2>2. b = Via(S, "derivation")
    BY <1>2, <1>6, <2>1 DEF BackEdges, CauseFact
  <2>3. body.causes \subseteq accepted_records
    BY <1>2, <1>6 DEF CauseFact, Accepted
  <2>4. Direct(c) = S
    BY <1>6, <2>1, <2>3 DEF Direct, StandingDeps, Accepted
  <2>5. c - 1 \in Nat /\ S \in SUBSET (1..(c - 1)) /\ "derivation" \in Vias
    BY <1>1, <1>3, <2>4 DEF Vias
  <2> HIDE DEF body
  <2>6. /\ Cardinality(S) <= c - 1 /\ b \in Seq(S \X Vias) /\ Len(b) = Cardinality(S)
        /\ AncestorsOf(b) = S
    <3>1. PICK k, via : k = c - 1 /\ via = "derivation"
      OBVIOUS
    <3>2. k \in Nat /\ S \in SUBSET (1..k) /\ via \in Vias /\ b = Via(S, via)
      BY <2>2, <2>5, <3>1
    <3>3. /\ Cardinality(S) <= k /\ b \in Seq(S \X Vias) /\ Len(b) = Cardinality(S)
          /\ AncestorsOf(b) = S
      BY ONLY <3>2, ViaSays
    <3> QED BY <3>1, <3>3
  <2> QED BY <2>4, <2>6
<1> QED BY <1>2, <1>4, <1>5, <1>6 DEF CauseFact

-----------------------------------------------------------------------------
(* Lines of descent: distances *)

\* What is defined from the values at earlier places exists.
LooksBack(F, n, X) ==
  /\ \A i \in 1..n : \A h \in [1..n -> X] : F[i][h] \in X
  /\ \A i \in 1..n : \A g, h \in [1..n -> X] :
       (\A j \in 1..(i - 1) : g[j] = h[j]) => F[i][g] = F[i][h]
Follows(f, F, n) == \A i \in 1..n : f[i] = F[i][f]

LEMMA CourseExists ==
  ASSUME NEW n \in Nat, NEW X, NEW x0 \in X, NEW F, LooksBack(F, n, X)
  PROVE  \E f \in [1..n -> X] : Follows(f, F, n)
<1> USE DEF LooksBack, Follows
<1> DEFINE T == {m \in 0..n : \E f \in [1..n -> X] : \A i \in 1..m : f[i] = F[i][f]}
<1>1. 0 \in T
  <2>1. [i \in 1..n |-> x0] \in [1..n -> X] /\ \A i \in 1..0 : FALSE
    OBVIOUS
  <2>2. 0 \in 0..n
    OBVIOUS
  <2> QED BY <2>1, <2>2
<1>2. ASSUME NEW m \in 0..n, m < n, m \in T PROVE m + 1 \in T
  <2>1. PICK f \in [1..n -> X] : \A i \in 1..m : f[i] = F[i][f]
    BY <1>2
  <2>2. m + 1 \in 1..n /\ m + 1 \in 0..n
    BY <1>2
  <2> DEFINE y == F[m + 1][f]
             g == [f EXCEPT ![m + 1] = y]
  <2>3. y \in X
    BY <2>2
  <2>4. g \in [1..n -> X] /\ g[m + 1] = y /\ \A j \in 1..n : j # m + 1 => g[j] = f[j]
    <3> HIDE DEF y
    <3> QED BY <2>2, <2>3
  <2> HIDE DEF g
  <2>5. \A i \in 1..(m + 1) : \A j \in 1..(i - 1) : j \in 1..n /\ j # m + 1
    BY <2>2
  <2>6. \A i \in 1..(m + 1) : i \in 1..n /\ F[i][g] = F[i][f]
    <3> SUFFICES ASSUME NEW i \in 1..(m + 1) PROVE i \in 1..n /\ F[i][g] = F[i][f]
      OBVIOUS
    <3>1. i \in 1..n
      BY <2>2
    <3>2. \A j \in 1..(i - 1) : g[j] = f[j]
      BY <2>4, <2>5
    <3> QED BY <2>4, <3>1, <3>2
  <2>7. ASSUME NEW i \in 1..(m + 1) PROVE g[i] = F[i][g]
    <3>1. CASE i = m + 1
      BY <2>4, <2>6, <3>1 DEF y
    <3>2. CASE i # m + 1
      <4>1. i \in 1..m /\ i \in 1..n
        BY <2>2, <3>2
      <4> QED BY <2>1, <2>4, <2>6, <3>2, <4>1
    <3> QED BY <3>1, <3>2
  <2> QED BY <2>2, <2>4, <2>7
<1>3. n \in 0..n
  OBVIOUS
<1>4. n \in T
  <2> HIDE DEF T
  <2> QED BY <1>1, <1>2, <1>3, PlaceInduction
<1> QED BY <1>4

Nearest(S) == {x \in S : \A y \in S : y[1] = x[1] => x[2] <= y[2]}
FarFrom(h, D) == {<<d, 1>> : d \in D} \union UNION {{<<x[1], x[2] + 1>> : x \in h[d]} : d \in D}

DistancesSay ==
  \A c \in 1..Len(log) :
    Distances[c] = IF c \in Accepted("Candidate") THEN Nearest(FarFrom(Distances, Direct(c))) ELSE {}

LEMMA DistancesAre ==
  ASSUME EvInv, DetailInv
  PROVE  DistancesSay
<1> DEFINE n == Len(log)
           K == Accepted("Candidate")
           P == Nat \X Nat
           X == SUBSET P
           Of(h, c) == IF c \notin K THEN {} ELSE Nearest(FarFrom(h, Direct(c)))
           Fits(f) == f = [c \in 1..n |-> Of(f, c)]
           F == [c \in 1..n |-> [h \in [1..n -> X] |-> Of(h, c)]]
<1>1. n \in Nat /\ K \subseteq 1..n
  BY EvLog
<1>2. \A c \in K : Direct(c) \subseteq 1..(c - 1)
  BY DirectIs
<1>3. \A c \in K : Direct(c) \subseteq 1..n
  <2> HIDE DEF K, n
  <2> QED BY <1>1, <1>2
<1>4. ASSUME NEW c \in 1..n, NEW h \in [1..n -> X] PROVE Of(h, c) \in X
  <2>1. CASE c \in K
    <3>1. PICK D : D = Direct(c)
      OBVIOUS
    <3>2. D \subseteq 1..n
      BY <1>3, <2>1, <3>1
    <3>3. \A d \in D : h[d] \subseteq P /\ <<d, 1>> \in P
      BY <3>2
    <3>4. \A d \in D : \A x \in h[d] : <<x[1], x[2] + 1>> \in P
      <4>1. \A x \in P : x[1] \in Nat /\ x[2] + 1 \in Nat
        OBVIOUS
      <4>2. \A i, j \in Nat : <<i, j>> \in P
        OBVIOUS
      <4> HIDE DEF P
      <4> QED BY <3>3, <4>1, <4>2
    <3>5. FarFrom(h, D) \subseteq P
      <4> HIDE DEF P
      <4> QED BY <3>3, <3>4 DEF FarFrom
    <3> HIDE DEF P, K, n
    <3> QED BY <2>1, <3>1, <3>5 DEF Nearest
  <2>2. CASE c \notin K
    BY <2>2
  <2> QED BY <2>1, <2>2
<1>5. ASSUME NEW c \in 1..n, NEW g \in [1..n -> X], NEW h \in [1..n -> X], \A j \in 1..(c - 1) : g[j] = h[j]
      PROVE  Of(g, c) = Of(h, c)
  <2> HIDE DEF P, n, X
  <2>1. CASE c \in K
    <3>1. PICK D : D = Direct(c)
      OBVIOUS
    <3>2. \A d \in D : g[d] = h[d]
      BY <1>2, <1>5, <2>1, <3>1
    <3>3. UNION {{<<x[1], x[2] + 1>> : x \in g[d]} : d \in D} = UNION {{<<x[1], x[2] + 1>> : x \in h[d]} : d \in D}
      BY <3>2
    <3>4. FarFrom(g, D) = FarFrom(h, D)
      BY <3>3 DEF FarFrom
    <3> QED BY <2>1, <3>1, <3>4
  <2>2. CASE c \notin K
    BY <2>2
  <2> QED BY <2>1, <2>2
<1>6. \A c \in 1..n : \A h \in [1..n -> X] : F[c][h] = Of(h, c)
  <2> HIDE DEF Of, n, X
  <2> QED OBVIOUS
<1>7. {} \in X
  OBVIOUS
<1>8. PICK f \in [1..n -> X] : Follows(f, F, n)
  <2>1. LooksBack(F, n, X)
    <3> HIDE DEF Of, n, X, F
    <3> QED BY <1>4, <1>5, <1>6 DEF LooksBack
  <2> HIDE DEF F, X, n
  <2> QED BY <1>1, <1>7, <2>1, CourseExists
<1>9. Fits(f)
  <2> HIDE DEF Of, F, X, n
  <2> QED BY <1>6, <1>8 DEF Follows
<1>10. Distances = CHOOSE g : Fits(g)
  BY Zenon DEF Distances, Nearest, FarFrom, Direct
<1>11. Fits(Distances)
  <2> HIDE DEF Fits
  <2> QED BY <1>9, <1>10
<1>12. \A c \in 1..n : Distances[c] = Of(Distances, c)
  <2> HIDE DEF Of
  <2> QED BY <1>11
<1> QED BY <1>12 DEF DistancesSay

\* dist gives each member of K its distance from what it comes from.
Measured(dist, N, K, Dir) ==
  /\ N \in Nat /\ K \subseteq 1..N
  /\ \A c \in K : Dir[c] \subseteq 1..(c - 1)
  /\ \A c \in 1..N : dist[c] = IF c \in K THEN Nearest(FarFrom(dist, Dir[c])) ELSE {}

LEMMA FarHas ==
  ASSUME NEW h, NEW D, NEW z
  PROVE  z \in FarFrom(h, D) <=>
           \/ \E d \in D : z = <<d, 1>>
           \/ \E d \in D : \E x \in h[d] : z = <<x[1], x[2] + 1>>
<1>1. z \in {<<d, 1>> : d \in D} <=> \E d \in D : z = <<d, 1>>
  OBVIOUS
<1>2. z \in UNION {{<<x[1], x[2] + 1>> : x \in h[d]} : d \in D}
        <=> \E d \in D : \E x \in h[d] : z = <<x[1], x[2] + 1>>
  OBVIOUS
<1> QED BY <1>1, <1>2 DEF FarFrom

Distant(c) == (1..(c - 1)) \X (Nat \ {0})

LEMMA DistantHas ==
  ASSUME NEW c \in Nat, NEW x \in Distant(c)
  PROVE  /\ x = <<x[1], x[2]>> /\ x[1] \in 1..(c - 1) /\ x[2] \in Nat /\ x[2] >= 1
         /\ \A d \in Nat : c < d => x \in Distant(d) /\ <<x[1], x[2] + 1>> \in Distant(d)
<1>1. x = <<x[1], x[2]>> /\ x[1] \in 1..(c - 1) /\ x[2] \in Nat \ {0}
  BY DEF Distant
<1>2. ASSUME NEW d \in Nat, c < d PROVE x[1] \in 1..(d - 1) /\ x[2] + 1 \in Nat \ {0}
  BY <1>1, <1>2
<1> QED BY <1>1, <1>2 DEF Distant

LEMMA DistTyped ==
  ASSUME NEW dist, NEW N, NEW K, NEW Dir, Measured(dist, N, K, Dir)
  PROVE  \A c \in 1..N : dist[c] \subseteq Distant(c)
<1> DEFINE T == {c \in 1..N : dist[c] \subseteq Distant(c)}
<1>1. N \in Nat
  BY DEF Measured
<1>2. ASSUME NEW c \in 1..N, \A j \in 1..(c - 1) : j \in T PROVE c \in T
  <2> SUFFICES ASSUME NEW z \in dist[c] PROVE z \in Distant(c)
    OBVIOUS
  <2>1. c \in K /\ z \in FarFrom(dist, Dir[c]) /\ Dir[c] \subseteq 1..(c - 1) /\ c \in Nat
    <3>1. c \in K
      BY DEF Measured
    <3>2. dist[c] = Nearest(FarFrom(dist, Dir[c])) /\ Dir[c] \subseteq 1..(c - 1)
      BY <3>1 DEF Measured
    <3>3. z \in FarFrom(dist, Dir[c])
      BY <3>2 DEF Nearest
    <3> QED BY <1>1, <3>1, <3>2, <3>3
  <2>2. PICK D : D = Dir[c]
    OBVIOUS
  <2>3. \A d \in D : d \in 1..(c - 1) /\ d < c /\ d \in Nat
    BY <2>1, <2>2
  <2>4. CASE \E d \in D : z = <<d, 1>>
    <3>1. 1 \in Nat \ {0}
      OBVIOUS
    <3> QED BY <2>3, <2>4, <3>1 DEF Distant
  <2>5. CASE \E d \in D : \E x \in dist[d] : z = <<x[1], x[2] + 1>>
    <3>1. PICK d \in D : \E x \in dist[d] : z = <<x[1], x[2] + 1>>
      BY <2>5
    <3>2. PICK x \in dist[d] : z = <<x[1], x[2] + 1>>
      BY <3>1
    <3>3. x \in Distant(d)
      BY <1>2, <2>3
    <3> QED BY <2>1, <2>3, <3>2, <3>3, DistantHas
  <2> QED BY <2>1, <2>2, <2>4, <2>5, FarHas
<1>3. \A c \in 1..N : c \in T
  <2> HIDE DEF T
  <2> QED BY <1>1, <1>2, PastInduction
<1> QED BY <1>3

\* The first step of a way, and what it adds to the rest.
LEMMA DistSteps ==
  ASSUME NEW dist, NEW N, NEW K, NEW Dir, Measured(dist, N, K, Dir), NEW c \in K
  PROVE  /\ \A y, k : <<y, k>> \in dist[c] =>
              (k = 1 /\ y \in Dir[c]) \/ \E d \in Dir[c] : <<y, k - 1>> \in dist[d]
         /\ \A d \in Dir[c] : <<d, 1>> \in dist[c]
         /\ \A d \in Dir[c] : \A y, k : <<y, k>> \in dist[d] =>
              \E j \in Nat : j <= k + 1 /\ <<y, j>> \in dist[c]
         /\ \A y, j, k : <<y, j>> \in dist[c] /\ <<y, k>> \in dist[c] => j = k
<1>1. N \in Nat /\ c \in 1..N /\ c \in Nat /\ Dir[c] \subseteq 1..(c - 1)
  BY DEF Measured
<1>2. PICK D, S : D = Dir[c] /\ S = FarFrom(dist, D)
  OBVIOUS
<1>3. dist[c] = Nearest(S)
  BY <1>1, <1>2 DEF Measured
<1>4. \A d \in D : d \in 1..N /\ d \in Nat /\ d < c /\ dist[d] \subseteq Distant(d)
  BY <1>1, <1>2, DistTyped
<1>5. \A d \in D : \A x \in dist[d] : x = <<x[1], x[2]>> /\ x[2] \in Nat /\ x[2] >= 1
  BY <1>4, DistantHas
<1>6. \A z \in S : z = <<z[1], z[2]>> /\ z[2] \in Nat /\ z[2] >= 1
  <2> SUFFICES ASSUME NEW z \in S PROVE z = <<z[1], z[2]>> /\ z[2] \in Nat /\ z[2] >= 1
    OBVIOUS
  <2>1. CASE \E d \in D : z = <<d, 1>>
    BY <2>1
  <2>2. CASE \E d \in D : \E x \in dist[d] : z = <<x[1], x[2] + 1>>
    <3>1. PICK d \in D : \E x \in dist[d] : z = <<x[1], x[2] + 1>>
      BY <2>2
    <3>2. PICK x \in dist[d] : z = <<x[1], x[2] + 1>>
      BY <3>1
    <3>3. x[2] \in Nat
      BY <1>5
    <3> QED BY <3>2, <3>3
  <2> QED BY <1>2, <2>1, <2>2, FarHas
<1>7. ASSUME NEW y, NEW k, <<y, k>> \in S PROVE \E j \in Nat : 1 <= j /\ j <= k /\ <<y, j>> \in dist[c]
  <2> DEFINE J == {j \in Nat : <<y, j>> \in S}
  <2>1. k \in J
    BY <1>6, <1>7
  <2>2. PICK j \in J : \A m \in J : j <= m
    <3>1. J \in SUBSET Nat /\ J # {}
      BY <2>1
    <3> HIDE DEF J
    <3> QED BY <3>1, LeastPlace
  <2>3. j \in Nat /\ <<y, j>> \in S /\ j <= k /\ 1 <= j
    BY <1>6, <2>1, <2>2
  <2>4. ASSUME NEW z \in S, z[1] = <<y, j>>[1] PROVE <<y, j>>[2] <= z[2]
    <3>1. z = <<y, z[2]>> /\ z[2] \in Nat
      BY <1>6, <2>4
    <3>2. z[2] \in J
      BY <2>4, <3>1
    <3> QED BY <2>2, <3>2
  <2>5. <<y, j>> \in Nearest(S)
    BY <2>3, <2>4 DEF Nearest
  <2> QED BY <1>3, <2>3, <2>5
<1>8. ASSUME NEW y, NEW k, <<y, k>> \in dist[c]
      PROVE  (k = 1 /\ y \in D) \/ \E d \in D : <<y, k - 1>> \in dist[d]
  <2>1. <<y, k>> \in S
    BY <1>3, <1>8 DEF Nearest
  <2>2. CASE \E d \in D : <<y, k>> = <<d, 1>>
    BY <2>2
  <2>3. CASE \E d \in D : \E x \in dist[d] : <<y, k>> = <<x[1], x[2] + 1>>
    <3>1. PICK d \in D : \E x \in dist[d] : <<y, k>> = <<x[1], x[2] + 1>>
      BY <2>3
    <3>2. PICK x \in dist[d] : <<y, k>> = <<x[1], x[2] + 1>>
      BY <3>1
    <3>3. x = <<x[1], x[2]>> /\ x[2] \in Nat /\ y = x[1] /\ k = x[2] + 1
      BY <1>5, <3>2
    <3>4. k - 1 = x[2]
      BY <3>3
    <3> QED BY <3>3, <3>4
  <2> QED BY <1>2, <2>1, <2>2, <2>3, FarHas
<1>9. ASSUME NEW d \in D PROVE <<d, 1>> \in dist[c]
  <2>1. <<d, 1>> \in S
    BY <1>2, FarHas
  <2>2. PICK j \in Nat : 1 <= j /\ j <= 1 /\ <<d, j>> \in dist[c]
    BY <1>7, <2>1
  <2>3. j = 1
    BY <2>2
  <2> QED BY <2>2, <2>3
<1>10. ASSUME NEW d \in D, NEW y, NEW k, <<y, k>> \in dist[d]
       PROVE  \E j \in Nat : j <= k + 1 /\ <<y, j>> \in dist[c]
  <2>1. \E x \in dist[d] : <<y, k + 1>> = <<x[1], x[2] + 1>>
    BY <1>10
  <2>2. <<y, k + 1>> \in S
    BY <1>2, <2>1, FarHas
  <2> QED BY <1>7, <2>2
<1>11. ASSUME NEW y, NEW j, NEW k, <<y, j>> \in dist[c], <<y, k>> \in dist[c] PROVE j = k
  <2>1. /\ <<y, j>> \in S /\ <<y, k>> \in S
        /\ <<y, j>>[2] <= <<y, k>>[2] /\ <<y, k>>[2] <= <<y, j>>[2]
    <3>1. <<y, j>>[1] = <<y, k>>[1]
      OBVIOUS
    <3> QED BY <1>3, <1>11, <3>1 DEF Nearest
  <2>2. j \in Nat /\ k \in Nat
    BY <1>6, <2>1
  <2> QED BY <2>1, <2>2
<1> QED BY <1>2, <1>8, <1>9, <1>10, <1>11

\* A way can be prolonged by a step.
LEMMA DistExtends ==
  ASSUME NEW dist, NEW N, NEW K, NEW Dir, Measured(dist, N, K, Dir)
  PROVE  \A c \in 1..N : \A x, k, y : <<x, k>> \in dist[c] /\ x \in K /\ y \in Dir[x] =>
           \E j \in Nat : j <= k + 1 /\ <<y, j>> \in dist[c]
<1> DEFINE P(c) == \A x, k, y : <<x, k>> \in dist[c] /\ x \in K /\ y \in Dir[x] =>
                     \E j \in Nat : j <= k + 1 /\ <<y, j>> \in dist[c]
           T == {c \in 1..N : P(c)}
<1>1. N \in Nat /\ K \subseteq 1..N /\ \A c \in K : Dir[c] \subseteq 1..(c - 1)
  BY DEF Measured
<1>2. ASSUME NEW c \in 1..N, \A j \in 1..(c - 1) : j \in T PROVE c \in T
  <2> SUFFICES ASSUME NEW x, NEW k, NEW y, <<x, k>> \in dist[c], x \in K, y \in Dir[x]
               PROVE  \E j \in Nat : j <= k + 1 /\ <<y, j>> \in dist[c]
    OBVIOUS
  <2>1. c \in K
    BY DEF Measured
  <2>2. CASE k = 1 /\ x \in Dir[c]
    <3>1. <<y, 1>> \in dist[x]
      BY DistSteps
    <3> QED BY <2>1, <2>2, <3>1, DistSteps
  <2>3. CASE \E d \in Dir[c] : <<x, k - 1>> \in dist[d]
    <3>1. PICK d \in Dir[c] : <<x, k - 1>> \in dist[d]
      BY <2>3
    <3>2. d \in 1..(c - 1)
      BY <1>1, <2>1
    <3>3. P(d)
      BY <1>2, <3>2
    <3>4. PICK j \in Nat : j <= (k - 1) + 1 /\ <<y, j>> \in dist[d]
      BY <3>1, <3>3
    <3>5. PICK i \in Nat : i <= j + 1 /\ <<y, i>> \in dist[c]
      BY <2>1, <3>4, DistSteps
    <3>6. k \in Nat
      <4>1. <<x, k>> \in Distant(c) /\ c \in Nat
        BY DistTyped
      <4>2. <<x, k>>[2] \in Nat
        BY <4>1, DistantHas
      <4> QED BY <4>2
    <3>7. i <= k + 1
      BY <3>4, <3>5, <3>6
    <3> QED BY <3>5, <3>7
  <2> QED BY <2>1, <2>2, <2>3, DistSteps
<1>3. \A c \in 1..N : c \in T
  <2> HIDE DEF T
  <2> QED BY <1>1, <1>2, PastInduction
<1> QED BY <1>3

\* The last step of a way.
LEMMA DistLast ==
  ASSUME NEW dist, NEW N, NEW K, NEW Dir, Measured(dist, N, K, Dir)
  PROVE  \A c \in 1..N : \A y, k : <<y, k>> \in dist[c] =>
           \/ k = 1 /\ y \in Dir[c]
           \/ k > 1 /\ \E x \in K : <<x, k - 1>> \in dist[c] /\ y \in Dir[x]
<1> DEFINE P(c) == \A y, k : <<y, k>> \in dist[c] =>
                     \/ k = 1 /\ y \in Dir[c]
                     \/ k > 1 /\ \E x \in K : <<x, k - 1>> \in dist[c] /\ y \in Dir[x]
           T == {c \in 1..N : P(c)}
<1>1. N \in Nat /\ K \subseteq 1..N /\ \A c \in K : Dir[c] \subseteq 1..(c - 1)
  BY DEF Measured
<1>2. ASSUME NEW c \in 1..N, NEW y, NEW k, <<y, k>> \in dist[c] PROVE k \in Nat /\ k >= 1
  <2>1. <<y, k>> \in Distant(c) /\ c \in Nat
    BY <1>2, DistTyped
  <2>2. <<y, k>>[2] \in Nat /\ <<y, k>>[2] >= 1
    BY <2>1, DistantHas
  <2> QED BY <2>2
<1>3. ASSUME NEW c \in 1..N, \A j \in 1..(c - 1) : j \in T PROVE c \in T
  <2> SUFFICES ASSUME NEW y, NEW k, <<y, k>> \in dist[c]
               PROVE  \/ k = 1 /\ y \in Dir[c]
                      \/ k > 1 /\ \E x \in K : <<x, k - 1>> \in dist[c] /\ y \in Dir[x]
    OBVIOUS
  <2>1. c \in K
    BY DEF Measured
  <2>2. CASE \E d \in Dir[c] : <<y, k - 1>> \in dist[d]
    <3>1. PICK d \in Dir[c] : <<y, k - 1>> \in dist[d]
      BY <2>2
    <3>2. d \in 1..(c - 1) /\ d \in 1..N
      BY <1>1, <2>1
    <3>3. P(d)
      BY <1>3, <3>2
    <3>4. d \in K
      BY <3>1, <3>2 DEF Measured
    <3>5. k \in Nat /\ k - 1 \in Nat /\ k - 1 >= 1
      BY <1>2, <3>1, <3>2
    <3>6. CASE k - 1 = 1 /\ y \in Dir[d]
      <4>1. <<d, k - 1>> \in dist[c]
        BY <2>1, <3>6, DistSteps
      <4> QED BY <3>4, <3>5, <3>6, <4>1
    <3>7. CASE k - 1 > 1 /\ \E x \in K : <<x, (k - 1) - 1>> \in dist[d] /\ y \in Dir[x]
      <4>1. PICK x \in K : <<x, (k - 1) - 1>> \in dist[d] /\ y \in Dir[x]
        BY <3>7
      <4>2. PICK j \in Nat : j <= ((k - 1) - 1) + 1 /\ <<x, j>> \in dist[c]
        BY <2>1, <4>1, DistSteps
      <4>3. PICK i \in Nat : i <= j + 1 /\ <<y, i>> \in dist[c]
        BY <4>1, <4>2, DistExtends
      <4>4. i = k
        BY <2>1, <4>3, DistSteps
      <4>5. j = k - 1
        BY <3>5, <4>2, <4>3, <4>4
      <4> QED BY <3>5, <3>7, <4>1, <4>2, <4>5
    <3> QED BY <3>1, <3>3, <3>6, <3>7
  <2> QED BY <2>1, <2>2, DistSteps
<1>4. \A c \in 1..N : c \in T
  <2> HIDE DEF T
  <2> QED BY <1>1, <1>3, PastInduction
<1> QED BY <1>4

-----------------------------------------------------------------------------
(* Lines of descent: the walk.  Nothing here is about the log: K is what is      *)
(* expanded, B[x] the edges of x, A what is reached from c and Lv its distance.  *)

WellFormed(c, A, K, B, Lv, M, V) ==
  /\ c \in A /\ c \in K /\ M \in Nat
  /\ \A y \in A : Lv[y] \in Nat /\ (Lv[y] = 0 <=> y = c)
  /\ \A x \in A \intersect K : B[x] \in Seq(A \X V) /\ Len(B[x]) <= M
  /\ \A x \in A \intersect K : \A n \in 1..Len(B[x]) :
       Lv[B[x][n][1]] >= 1 /\ Lv[B[x][n][1]] <= Lv[x] + 1
  /\ \A y \in A : Lv[y] > 0 =>
       \E x \in A \intersect K : Lv[x] = Lv[y] - 1 /\ \E n \in 1..Len(B[x]) : B[x][n][1] = y

\* q2 is q without its head, and then p.
Shifted(q, q2, p) ==
  /\ Len(q) \in Nat /\ Len(q) >= 1 /\ Len(p) \in Nat /\ Len(q2) = Len(q) - 1 + Len(p)
  /\ \A j \in 1..(Len(q) - 1) : q2[j] = q[j + 1]
  /\ \A n \in 1..Len(p) : q2[Len(q) - 1 + n] = p[n]

LEMMA ShiftedSays ==
  ASSUME NEW E, NEW q \in Seq(E), q # <<>>, NEW p \in Seq(E)
  PROVE  Tail(q) \o p \in Seq(E) /\ Shifted(q, Tail(q) \o p, p)
<1>1. PICK t : t = Tail(q)
  OBVIOUS
<1>2. t \in Seq(E) /\ Len(t) = Len(q) - 1 /\ Len(q) \in Nat /\ Len(q) >= 1 /\ Len(p) \in Nat
      /\ \A j \in 1..(Len(q) - 1) : t[j] = q[j + 1]
  BY <1>1, HeadTailProperties
<1>3. PICK s : s = t \o p
  OBVIOUS
<1>4. s \in Seq(E) /\ Len(s) = Len(t) + Len(p)
      /\ \A i \in 1..(Len(t) + Len(p)) : s[i] = IF i <= Len(t) THEN t[i] ELSE p[i - Len(t)]
  BY <1>2, <1>3, ConcatProperties
<1>5. ASSUME NEW j \in 1..(Len(q) - 1) PROVE s[j] = q[j + 1]
  <2>1. j \in 1..(Len(t) + Len(p)) /\ j <= Len(t)
    BY <1>2
  <2>2. s[j] = t[j]
    BY <1>4, <2>1
  <2> QED BY <1>2, <2>2
<1>6. ASSUME NEW n \in 1..Len(p) PROVE s[Len(q) - 1 + n] = p[n]
  <2>1. PICK i : i = Len(t) + n
    OBVIOUS
  <2>2. i \in 1..(Len(t) + Len(p)) /\ ~(i <= Len(t)) /\ i - Len(t) = n /\ i = Len(q) - 1 + n
    BY <1>2, <2>1
  <2> QED BY <1>4, <2>2
<1> QED BY <1>1, <1>2, <1>3, <1>4, <1>5, <1>6 DEF Shifted

\* The queue q with levels L: no entry is farther away than its level, and levels
\* rise along the queue by no more than one.
Queued(q, L, Lv) ==
  /\ Len(q) \in Nat /\ Len(L) = Len(q)
  /\ \A j \in 1..Len(q) : L[j] \in Nat /\ L[j] >= 1 /\ Lv[q[j][1]] <= L[j]
  /\ \A i, j \in 1..Len(q) : i < j => L[i] <= L[j] /\ L[j] <= L[i] + 1

\* Nothing after the head of the queue is below level m; all the entries have
\* levels m and m + 1; nothing in the line is farther away than m.
FromSecond(q, L, m) == \A j \in 1..Len(q) : j # 1 => m <= L[j]
Leveled(q, L, m) == \A j \in 1..Len(q) : m <= L[j] /\ L[j] <= m + 1
Within(line, Lv, m) == \A i \in 1..Len(line) : Lv[line[i][1]] \in Nat /\ Lv[line[i][1]] <= m
Constantly(l, k, m) == Len(l) = k /\ \A n \in 1..k : l[n] = m

LEMMA QueueTurns ==
  ASSUME NEW q, NEW L, NEW Lv, Queued(q, L, Lv), NEW q2, NEW p, Shifted(q, q2, p),
         NEW L2, NEW l, Shifted(L, L2, l), Constantly(l, Len(p), L[1] + 1), Within(p, Lv, L[1] + 1)
  PROVE  Queued(q2, L2, Lv) /\ Leveled(q2, L2, L[1])
<1>1. /\ Len(q) \in Nat /\ Len(L) = Len(q) /\ Len(p) \in Nat /\ Len(q) >= 1
      /\ Len(q2) = Len(q) - 1 + Len(p) /\ Len(L2) = Len(q2)
  BY DEF Queued, Shifted, Constantly
<1>2. 1 \in 1..Len(q) /\ L[1] \in Nat /\ L[1] >= 1
  BY <1>1 DEF Queued
<1>3. ASSUME NEW j \in 1..Len(q2)
      PROVE  /\ L2[j] \in Nat /\ L2[j] >= 1 /\ Lv[q2[j][1]] <= L2[j]
             /\ L[1] <= L2[j] /\ L2[j] <= L[1] + 1
  <2>1. CASE j \in 1..(Len(q) - 1)
    <3>1. q2[j] = q[j + 1] /\ L2[j] = L[j + 1]
      BY <1>1, <2>1 DEF Shifted
    <3>2. j + 1 \in 1..Len(q) /\ 1 < j + 1
      BY <1>1, <2>1
    <3> QED BY <1>2, <3>1, <3>2 DEF Queued
  <2>2. CASE ~(j \in 1..(Len(q) - 1))
    <3>1. PICK n : n = j - (Len(q) - 1)
      OBVIOUS
    <3>2. n \in 1..Len(p) /\ j = Len(q) - 1 + n
      BY <1>1, <2>2, <3>1
    <3>3. q2[j] = p[n] /\ L2[j] = l[n]
      BY <1>1, <3>2 DEF Shifted
    <3>4. L2[j] = L[1] + 1 /\ Lv[q2[j][1]] <= L[1] + 1
      BY <3>2, <3>3 DEF Constantly, Within
    <3> QED BY <1>2, <3>4
  <2> QED BY <2>1, <2>2
<1>4. ASSUME NEW i \in 1..Len(q2), NEW j \in 1..Len(q2), i < j PROVE L2[i] <= L2[j] /\ L2[j] <= L2[i] + 1
  <2>1. L2[i] \in Nat /\ L2[j] \in Nat /\ L[1] <= L2[i] /\ L2[j] <= L[1] + 1
    BY <1>3
  <2>2. L2[j] <= L2[i] + 1
    <3>1. \A a, b, d \in Nat : d <= a /\ b <= d + 1 => b <= a + 1
      OBVIOUS
    <3>2. L[1] \in Nat
      BY <1>2
    <3> QED BY ONLY <2>1, <3>1, <3>2
  <2>3. CASE j \in 1..(Len(q) - 1)
    <3>1. i \in 1..(Len(q) - 1) /\ i + 1 \in 1..Len(q) /\ j + 1 \in 1..Len(q) /\ i + 1 < j + 1
      BY <1>1, <1>4, <2>3
    <3>2. L2[i] = L[i + 1] /\ L2[j] = L[j + 1]
      BY <1>1, <2>3, <3>1 DEF Shifted
    <3> QED BY <2>2, <3>1, <3>2 DEF Queued
  <2>4. CASE ~(j \in 1..(Len(q) - 1))
    <3>1. PICK n : n = j - (Len(q) - 1)
      OBVIOUS
    <3>2. n \in 1..Len(p) /\ j = Len(q) - 1 + n
      BY <1>1, <2>4, <3>1
    <3>3. L2[j] = L[1] + 1
      BY <1>1, <3>2 DEF Shifted, Constantly
    <3>4. L2[i] <= L[1] + 1
      BY <1>3
    <3> QED BY <2>2, <3>3, <3>4
  <2> QED BY <2>3, <2>4
<1>5. Queued(q2, L2, Lv)
  <2>1. Len(q2) \in Nat /\ Len(L2) = Len(q2)
    BY <1>1
  <2>2. \A j \in 1..Len(q2) : L2[j] \in Nat /\ L2[j] >= 1 /\ Lv[q2[j][1]] <= L2[j]
    BY <1>3
  <2>3. \A i, j \in 1..Len(q2) : i < j => L2[i] <= L2[j] /\ L2[j] <= L2[i] + 1
    BY <1>4
  <2> QED BY ONLY <2>1, <2>2, <2>3 DEF Queued
<1>6. Leveled(q2, L2, L[1])
  BY <1>3 DEF Leveled
<1> QED BY <1>5, <1>6

\* The line has what was seen, each once and the nearer ones first.
Listed(line, seen, c, Lv) ==
  /\ Len(line) \in Nat
  /\ \A y : y \in seen <=> y = c \/ \E i \in 1..Len(line) : line[i][1] = y
  /\ \A i \in 1..Len(line) : line[i][1] # c
  /\ \A i, j \in 1..Len(line) : i < j => line[i][1] # line[j][1] /\ Lv[line[i][1]] <= Lv[line[j][1]]

\* Nothing that is reported is farther away than what is queued; all that is
\* nearer than the head was seen; what was expanded left its edges.
Between(line, seen, q, L, A, K, B, Lv) ==
  /\ \A i \in 1..Len(line), j \in 1..Len(q) : Lv[line[i][1]] <= L[j]
  /\ Len(q) >= 1 => \A y \in A : Lv[y] < L[1] => y \in seen
  /\ \A x \in seen \intersect K : \A n \in 1..Len(B[x]) :
       \/ B[x][n][1] \in seen
       \/ \E j \in 1..Len(q) : q[j][1] = B[x][n][1] /\ L[j] <= Lv[x] + 1

LEMMA ListGrows ==
  ASSUME NEW E, NEW line \in Seq(E), NEW seen, NEW c, NEW Lv, Listed(line, seen, c, Lv), NEW e \in E,
         NEW id, id = e[1], id \notin seen,
         Within(line, Lv, Lv[id]), Lv[id] \in Nat,
         NEW line2, line2 = Append(line, e), NEW seen2, seen2 = seen \union {id}
  PROVE  Listed(line2, seen2, c, Lv) /\ Within(line2, Lv, Lv[id])
<1>1. Len(line) \in Nat /\ Len(line2) = Len(line) + 1 /\ line2[Len(line) + 1] = e
      /\ \A i \in 1..Len(line) : line2[i] = line[i]
  BY AppendProperties
<1>2. PICK n : n = Len(line)
  OBVIOUS
<1>3. \A i \in 1..(n + 1) : i \in 1..n \/ i = n + 1
  BY <1>1, <1>2
<1>4. /\ n \in Nat /\ Len(line2) = n + 1 /\ line2[n + 1] = e /\ n + 1 \in 1..(n + 1)
      /\ \A i \in 1..n : line2[i] = line[i] /\ i \in 1..(n + 1)
  BY <1>1, <1>2
<1>5. /\ \A y : y \in seen <=> y = c \/ \E i \in 1..n : line[i][1] = y
      /\ \A i \in 1..n : line[i][1] # c
      /\ \A i, j \in 1..n : i < j => line[i][1] # line[j][1] /\ Lv[line[i][1]] <= Lv[line[j][1]]
      /\ \A i \in 1..n : Lv[line[i][1]] \in Nat /\ Lv[line[i][1]] <= Lv[id]
  BY <1>2 DEF Listed, Within
<1>6. ASSUME NEW y PROVE y \in seen2 <=> y = c \/ \E i \in 1..(n + 1) : line2[i][1] = y
  BY <1>3, <1>4, <1>5
<1>7. \A i \in 1..(n + 1) : line2[i][1] # c
  BY <1>3, <1>4, <1>5
<1>8. ASSUME NEW i \in 1..(n + 1), NEW j \in 1..(n + 1), i < j
      PROVE  line2[i][1] # line2[j][1] /\ Lv[line2[i][1]] <= Lv[line2[j][1]]
  <2>1. i \in 1..n
    BY <1>4, <1>8
  <2>2. line[i][1] \in seen
    BY <1>5, <2>1
  <2>3. CASE j \in 1..n
    BY <1>4, <1>5, <1>8, <2>1, <2>3
  <2>4. CASE j = n + 1
    BY <1>4, <1>5, <2>1, <2>2, <2>4
  <2> QED BY <1>3, <2>3, <2>4
<1>9. \A i \in 1..(n + 1) : Lv[line2[i][1]] \in Nat /\ Lv[line2[i][1]] <= Lv[id]
  BY <1>3, <1>4, <1>5
<1> QED BY <1>4, <1>6, <1>7, <1>8, <1>9 DEF Listed, Within

\* When the head of the queue is gone and seen, all that is nearer than the next
\* head was seen.
LEMMA NearerSeen ==
  ASSUME NEW c, NEW A, NEW K, NEW B, NEW Lv, NEW M, NEW V, WellFormed(c, A, K, B, Lv, M, V),
         NEW line, NEW seen, seen \subseteq A, NEW q, NEW L, Len(q) \in Nat, Len(q) >= 1,
         Queued(q, L, Lv), Between(line, seen, q, L, A, K, B, Lv),
         NEW l, l \in Nat, L[1] <= l, l <= L[1] + 1, FromSecond(q, L, l),
         NEW y, y \in A, Lv[y] < l, NEW id, id = q[1][1]
  PROVE  y \in seen \/ y = id
<1>1. 1 \in 1..Len(q) /\ L[1] \in Nat /\ L[1] >= 1 /\ Lv[y] \in Nat
  BY DEF Queued, WellFormed
<1>2. CASE Lv[y] < L[1]
  BY <1>2 DEF Between
<1>3. CASE ~(Lv[y] < L[1])
  <2>1. Lv[y] = L[1] /\ Lv[y] > 0 /\ l = L[1] + 1
    BY <1>1, <1>3
  <2>2. PICK x \in A \intersect K : Lv[x] = Lv[y] - 1 /\ \E n \in 1..Len(B[x]) : B[x][n][1] = y
    BY <2>1 DEF WellFormed
  <2>3. Lv[x] \in Nat
    BY DEF WellFormed
  <2>4. Lv[x] < L[1] /\ Lv[x] + 1 = L[1]
    BY <1>1, <2>1, <2>2, <2>3
  <2>5. x \in seen
    BY <2>4 DEF Between
  <2>6. y \in seen \/ \E j \in 1..Len(q) : q[j][1] = y /\ L[j] <= L[1]
    BY <2>2, <2>4, <2>5 DEF Between
  <2>7. ASSUME NEW j \in 1..Len(q), q[j][1] = y, L[j] <= L[1] PROVE j = 1
    <3>1. L[j] \in Nat
      BY DEF Queued
    <3>2. j # 1 => l <= L[j]
      BY DEF FromSecond
    <3> QED BY ONLY <1>1, <2>1, <2>7, <3>1, <3>2
  <2> QED BY <2>6, <2>7
<1> QED BY <1>2, <1>3

LEMMA ShiftedKeeps ==
  ASSUME NEW q, NEW q2, NEW p, Shifted(q, q2, p), NEW j \in 1..Len(q), j # 1
  PROVE  j - 1 \in 1..Len(q2) /\ q2[j - 1] = q[j]
<1>1. PICK k : k = j - 1
  OBVIOUS
<1>2. Len(q) \in Nat /\ Len(p) \in Nat /\ Len(q2) = Len(q) - 1 + Len(p)
  BY DEF Shifted
<1>3. k \in 1..(Len(q) - 1) /\ k + 1 = j /\ k \in 1..Len(q2)
  BY <1>1, <1>2
<1>4. q2[k] = q[k + 1]
  BY <1>3 DEF Shifted
<1> QED BY <1>1, <1>3, <1>4

LEMMA ShiftedAdds ==
  ASSUME NEW q, NEW q2, NEW p, Shifted(q, q2, p), NEW n \in 1..Len(p)
  PROVE  Len(q) - 1 + n \in 1..Len(q2) /\ q2[Len(q) - 1 + n] = p[n]
<1>1. Len(q) \in Nat /\ Len(q) >= 1 /\ Len(p) \in Nat /\ Len(q2) = Len(q) - 1 + Len(p)
  BY DEF Shifted
<1>2. Len(q) - 1 + n \in 1..Len(q2)
  BY <1>1
<1> QED BY <1>2 DEF Shifted

\* The head id of the queue q is taken and its edges p are queued.
Turned(q, L, q2, p, L2, l, id, seen, seen2, K, B, Lv) ==
  /\ Shifted(q, q2, p) /\ Shifted(L, L2, l)
  /\ Constantly(l, Len(p), L[1] + 1) /\ Queued(q2, L2, Lv) /\ Leveled(q2, L2, L[1])
  /\ id = q[1][1] /\ (id \notin seen => Lv[id] = L[1]) /\ (id \notin seen /\ id \in K => p = B[id])
  /\ seen2 = seen \union {id}

LEMMA BetweenTurns ==
  ASSUME NEW c, NEW A, NEW K, NEW B, NEW Lv, NEW M, NEW V, WellFormed(c, A, K, B, Lv, M, V),
         NEW line, NEW seen, seen \subseteq A, NEW q, NEW L, Queued(q, L, Lv),
         Between(line, seen, q, L, A, K, B, Lv),
         NEW q2, NEW p, NEW L2, NEW l, NEW id, NEW seen2,
         Turned(q, L, q2, p, L2, l, id, seen, seen2, K, B, Lv),
         NEW line2, Within(line2, Lv, L[1])
  PROVE  Between(line2, seen2, q2, L2, A, K, B, Lv)
<1>0. /\ Shifted(q, q2, p) /\ Shifted(L, L2, l)
      /\ Constantly(l, Len(p), L[1] + 1) /\ Queued(q2, L2, Lv) /\ Leveled(q2, L2, L[1])
      /\ id = q[1][1] /\ (id \notin seen => Lv[id] = L[1]) /\ (id \notin seen /\ id \in K => p = B[id])
      /\ seen2 = seen \union {id}
  BY DEF Turned
<1>1. Len(q) \in Nat /\ Len(q) >= 1 /\ 1 \in 1..Len(q) /\ Len(L) = Len(q) /\ L[1] \in Nat
  BY <1>0 DEF Queued, Shifted
<1>2. Len(q2) \in Nat /\ Len(L2) = Len(q2) /\ \A j \in 1..Len(q2) : L2[j] \in Nat
  BY <1>0 DEF Queued
<1>3. ASSUME NEW i \in 1..Len(line2), NEW j \in 1..Len(q2) PROVE Lv[line2[i][1]] <= L2[j]
  <2>1. Lv[line2[i][1]] \in Nat /\ Lv[line2[i][1]] <= L[1] /\ L[1] <= L2[j] /\ L2[j] \in Nat
    BY <1>0, <1>2 DEF Within, Leveled
  <2> QED BY ONLY <1>1, <2>1
<1>4. ASSUME Len(q2) >= 1, NEW y \in A, Lv[y] < L2[1] PROVE y \in seen2
  <2>1. 1 \in 1..Len(q2)
    BY <1>0, <1>2, <1>4
  <2>2. L2[1] \in Nat /\ L[1] <= L2[1] /\ L2[1] <= L[1] + 1
    BY <1>0, <1>2, <2>1 DEF Leveled
  <2>3. ASSUME NEW j \in 1..Len(q), j # 1 PROVE L2[1] <= L[j]
    <3>1. j \in 1..Len(L)
      BY <1>0, <1>1
    <3>2. j - 1 \in 1..Len(L2) /\ L2[j - 1] = L[j]
      BY ONLY <1>0, <2>3, <3>1, ShiftedKeeps
    <3>3. PICK k : k = j - 1 /\ k \in 1..Len(q2) /\ L2[k] = L[j]
      BY <1>0, <1>2, <3>2
    <3>4. CASE k = 1
      BY <1>0, <2>2, <3>3, <3>4
    <3>5. CASE k # 1
      <4>1. 1 < k
        BY <1>0, <1>2, <3>3, <3>5
      <4> QED BY <1>0, <2>1, <3>3, <4>1 DEF Queued
    <3> QED BY <1>0, <3>4, <3>5
  <2>4. PICK m : m = L2[1]
    OBVIOUS
  <2>5. m \in Nat /\ L[1] <= m /\ m <= L[1] + 1 /\ FromSecond(q, L, m) /\ Lv[y] < m
    BY <1>0, <1>4, <2>2, <2>3, <2>4 DEF FromSecond
  <2>6. y \in seen \/ y = id
    BY ONLY <1>1, <1>4, <2>5, NearerSeen, WellFormed(c, A, K, B, Lv, M, V), seen \subseteq A,
            Queued(q, L, Lv), Between(line, seen, q, L, A, K, B, Lv), <1>0
  <2> QED BY <1>0, <2>6
<1>5. ASSUME NEW x \in seen2 \intersect K, NEW n \in 1..Len(B[x])
      PROVE  \/ B[x][n][1] \in seen2
             \/ \E j \in 1..Len(q2) : q2[j][1] = B[x][n][1] /\ L2[j] <= Lv[x] + 1
  <2>1. CASE x \in seen
    <3>1. CASE B[x][n][1] \in seen
      BY <1>0, <3>1
    <3>2. CASE \E j \in 1..Len(q) : q[j][1] = B[x][n][1] /\ L[j] <= Lv[x] + 1
      <4>1. PICK j \in 1..Len(q) : q[j][1] = B[x][n][1] /\ L[j] <= Lv[x] + 1
        BY <1>0, <3>2
      <4>2. CASE j = 1
        BY <1>0, <4>1, <4>2
      <4>3. CASE j # 1
        <5>1. j - 1 \in 1..Len(q2) /\ q2[j - 1] = q[j]
          BY ONLY <1>0, <4>3, ShiftedKeeps
        <5>2. L2[j - 1] = L[j]
          BY ONLY <1>0, <1>1, <4>3, ShiftedKeeps
        <5> QED BY <1>0, <4>1, <5>1, <5>2
      <4> QED BY <1>0, <4>2, <4>3
    <3> QED BY <1>0, <1>5, <2>1, <3>1, <3>2 DEF Between
  <2>2. CASE x \notin seen
    <3>1. x = id /\ p = B[x] /\ Lv[x] = L[1] /\ n \in 1..Len(p)
      BY <1>0, <2>2
    <3>2. PICK j : j = Len(q) - 1 + n
      OBVIOUS
    <3>3. j \in 1..Len(q2) /\ q2[j] = p[n]
      BY ONLY <1>0, <3>1, <3>2, ShiftedAdds
    <3>4. L2[j] = l[n]
      <4>1. Len(l) = Len(p)
        BY <1>0 DEF Constantly
      <4>2. n \in 1..Len(l)
        BY <3>1, <4>1
      <4>3. L2[Len(L) - 1 + n] = l[n]
        BY ONLY <1>0, <4>2, ShiftedAdds
      <4> QED BY <1>1, <3>2, <4>3
    <3>5. L2[j] = L[1] + 1
      BY <1>0, <3>1, <3>4 DEF Constantly
    <3>6. L2[j] <= Lv[x] + 1
      BY ONLY <1>1, <3>1, <3>5
    <3>7. q2[j][1] = B[x][n][1]
      BY <1>0, <3>1, <3>3
    <3> QED BY <1>0, <3>3, <3>6, <3>7
  <2> QED BY <1>0, <2>1, <2>2
<1> QED BY <1>0, <1>3, <1>4, <1>5 DEF Between

\* A state of the walk, and a turn of it that takes the head id of the queue, to
\* report and expand it or to skip it.
Walking(line, seen, q, L, c, A, K, B, Lv, E) ==
  /\ line \in Seq(E) /\ q \in Seq(E) /\ L \in Seq(Nat) /\ seen \subseteq A
  /\ Listed(line, seen, c, Lv) /\ Queued(q, L, Lv) /\ Between(line, seen, q, L, A, K, B, Lv)
Takes(line, seen, q, line2, seen2, q2, p, id, K, B) ==
  /\ id = q[1][1] /\ Shifted(q, q2, p) /\ seen2 = seen \union {id}
  /\ id \in seen => line2 = line /\ Len(p) = 0
  /\ id \notin seen => line2 = Append(line, q[1])
  /\ id \notin seen /\ id \in K => p = B[id]
  /\ id \notin K => Len(p) = 0

LEMMA WalkTurns ==
  ASSUME NEW c, NEW A, NEW K, NEW B, NEW Lv, NEW M, NEW V, WellFormed(c, A, K, B, Lv, M, V),
         NEW E, E = A \X V, NEW line, NEW seen, NEW q, NEW L, Walking(line, seen, q, L, c, A, K, B, Lv, E),
         NEW line2 \in Seq(E), NEW seen2, NEW q2 \in Seq(E), NEW p \in Seq(E), NEW id,
         Takes(line, seen, q, line2, seen2, q2, p, id, K, B)
  PROVE  \E L2 : Walking(line2, seen2, q2, L2, c, A, K, B, Lv, E)
<1>0. /\ line \in Seq(E) /\ q \in Seq(E) /\ L \in Seq(Nat) /\ seen \subseteq A
      /\ Listed(line, seen, c, Lv) /\ Queued(q, L, Lv) /\ Between(line, seen, q, L, A, K, B, Lv)
      /\ id = q[1][1] /\ Shifted(q, q2, p) /\ seen2 = seen \union {id}
      /\ (id \in seen => line2 = line) /\ (id \notin seen => line2 = Append(line, q[1]))
      /\ (id \notin seen /\ id \in K => p = B[id])
      /\ (~(id \notin seen /\ id \in K) => Len(p) = 0)
      /\ \A e \in E : e[1] \in A
  BY DEF Walking, Takes
<1>1. Len(q) \in Nat /\ Len(q) >= 1 /\ 1 \in 1..Len(q) /\ q[1] \in E /\ id \in A
  <2>1. Len(q) \in Nat /\ Len(q) >= 1 /\ 1 \in 1..Len(q)
    BY <1>0 DEF Shifted
  <2>2. q[1] \in E
    BY ONLY <1>0, <2>1
  <2> QED BY <1>0, <2>1, <2>2
<1>2. Len(L) = Len(q) /\ L[1] \in Nat /\ L[1] >= 1 /\ Lv[id] \in Nat /\ Lv[id] <= L[1]
  <2>1. Lv[id] \in Nat
    BY <1>0, <1>1 DEF WellFormed
  <2>2. Len(L) = Len(q) /\ L[1] \in Nat /\ L[1] >= 1 /\ Lv[id] <= L[1]
    BY <1>0, <1>1 DEF Queued
  <2> QED BY <1>0, <2>1, <2>2
<1>3. id \notin seen => Lv[id] = L[1]
  <2>1. id \notin seen => ~(Lv[id] < L[1])
    BY <1>0, <1>1 DEF Between
  <2> QED BY ONLY <1>2, <2>1
<1>4. Within(p, Lv, L[1] + 1)
  <2>1. CASE id \notin seen /\ id \in K
    <3>1. p = B[id] /\ id \in A \intersect K
      BY <1>0, <1>1, <2>1
    <3>2. Lv[id] = L[1]
      BY <1>0, <1>3, <2>1
    <3>3. ASSUME NEW n \in 1..Len(p) PROVE Lv[p[n][1]] \in Nat /\ Lv[p[n][1]] <= L[1] + 1
      <4>1. Lv[p[n][1]] <= Lv[id] + 1
        BY <1>0, <3>1 DEF WellFormed
      <4>2. p[n] \in E
        BY ONLY p \in Seq(E), <3>3
      <4>3. Lv[p[n][1]] \in Nat
        BY <1>0, <4>2 DEF WellFormed
      <4> QED BY <1>0, <3>2, <4>1, <4>3
    <3> QED BY <1>0, <3>3 DEF Within
  <2>2. CASE ~(id \notin seen /\ id \in K)
    <3>1. Len(p) = 0 /\ \A n \in 1..0 : FALSE
      BY <1>0, <2>2
    <3> QED BY <1>0, <3>1 DEF Within
  <2> QED BY <1>0, <2>1, <2>2
<1>5. PICK l : l \in Seq(Nat) /\ Constantly(l, Len(p), L[1] + 1)
  <2>1. PICK k, m : k = Len(p) /\ m = L[1] + 1
    OBVIOUS
  <2>2. k \in Nat /\ m \in Nat
    BY SMTT(60), <1>0, <1>2, <2>1 DEF Shifted
  <2>3. PICK f : f = [n \in 1..k |-> m]
    OBVIOUS
  <2>4. f \in Seq(Nat) /\ Len(f) = k /\ \A n \in 1..k : f[n] = m
    BY ONLY <2>2, <2>3
  <2> QED BY ONLY <1>0, <2>1, <2>4 DEF Constantly
<1>6. PICK L2 \in Seq(Nat) : Shifted(L, L2, l)
  <2>1. L # <<>>
    BY ONLY <1>0, <1>1, <1>2
  <2> QED BY ONLY <1>0, <1>5, <2>1, ShiftedSays
<1>7. Queued(q2, L2, Lv) /\ Leveled(q2, L2, L[1])
  BY ONLY <1>0, <1>4, <1>5, <1>6, QueueTurns
<1>8. \A i \in 1..Len(line) : Lv[line[i][1]] \in Nat
  <2>1. \A i \in 1..Len(line) : line[i] \in E
    BY ONLY <1>0
  <2> QED BY <1>0, <2>1 DEF WellFormed
<1>9. Listed(line2, seen2, c, Lv) /\ Within(line2, Lv, L[1])
  <2>1. Within(line, Lv, L[1])
    BY <1>0, <1>1, <1>8 DEF Between, Within
  <2>2. CASE id \in seen
    <3>1. seen2 = seen /\ line2 = line
      BY <1>0, <2>2
    <3> QED BY <1>0, <2>1, <3>1
  <2>3. CASE id \notin seen
    <3>1. PICK e : e = q[1]
      OBVIOUS
    <3>2. e \in E /\ id = e[1] /\ id \notin seen /\ line2 = Append(line, e) /\ Lv[id] = L[1]
      BY <1>0, <1>1, <1>3, <2>3, <3>1
    <3>3. Within(line, Lv, Lv[id])
      BY ONLY <1>0, <2>1, <3>2
    <3>4. Listed(line2, seen2, c, Lv) /\ Within(line2, Lv, Lv[id])
      BY ONLY <1>0, <1>2, <3>2, <3>3, ListGrows
    <3> QED BY ONLY <1>0, <3>2, <3>4
  <2> QED BY <1>0, <2>2, <2>3
<1>10. Between(line2, seen2, q2, L2, A, K, B, Lv)
  <2>1. Turned(q, L, q2, p, L2, l, id, seen, seen2, K, B, Lv)
    BY <1>0, <1>3, <1>5, <1>6, <1>7 DEF Turned
  <2> QED
    BY ONLY <1>0, <1>9, <2>1, BetweenTurns, WellFormed(c, A, K, B, Lv, M, V)
<1>11. seen2 \subseteq A
  BY <1>0, <1>1
<1> QED BY <1>0, <1>6, <1>7, <1>9, <1>10, <1>11 DEF Walking

LEMMA WalkStarts ==
  ASSUME NEW c, NEW A, NEW K, NEW B, NEW Lv, NEW M, NEW V, WellFormed(c, A, K, B, Lv, M, V),
         NEW E, E = A \X V, NEW q, q = B[c]
  PROVE  \E L : Walking(<<>>, {c}, q, L, c, A, K, B, Lv, E)
<1>1. q \in Seq(E) /\ c \in A \intersect K /\ Lv[c] = 0
  BY DEF WellFormed
<1>2. PICK k, L : k = Len(q) /\ L = [n \in 1..k |-> 1]
  OBVIOUS
<1>3. k \in Nat
  BY <1>1, <1>2
<1>4. L \in Seq(Nat) /\ Len(L) = k /\ \A n \in 1..k : L[n] = 1
  BY ONLY <1>2, <1>3
<1>5. \A n \in 1..k : Lv[q[n][1]] <= 1
  BY <1>1, <1>2 DEF WellFormed
<1>6. Queued(q, L, Lv)
  BY ONLY <1>2, <1>3, <1>4, <1>5 DEF Queued
<1>7. Between(<<>>, {c}, q, L, A, K, B, Lv)
  <2>1. ASSUME Len(q) >= 1, NEW y \in A, Lv[y] < L[1] PROVE y = c
    <3>1. L[1] = 1
      BY <1>2, <1>3, <1>4, <2>1
    <3>2. Lv[y] \in Nat
      BY DEF WellFormed
    <3>3. Lv[y] = 0
      BY ONLY <2>1, <3>1, <3>2
    <3> QED BY <3>3 DEF WellFormed
  <2>2. ASSUME NEW n \in 1..Len(B[c]) PROVE \E j \in 1..Len(q) : q[j][1] = B[c][n][1] /\ L[j] <= Lv[c] + 1
    <3>1. n \in 1..Len(q) /\ q[n][1] = B[c][n][1] /\ L[n] = 1 /\ Lv[c] + 1 = 1
      BY <1>1, <1>2, <1>4
    <3> QED BY <3>1
  <2>3. ASSUME NEW i \in 1..Len(<<>>) PROVE FALSE
    OBVIOUS
  <2> QED BY <2>1, <2>2, <2>3 DEF Between
<1>8. Listed(<<>>, {c}, c, Lv)
  BY DEF Listed
<1>9. <<>> \in Seq(E) /\ {c} \subseteq A
  BY <1>1
<1> QED BY <1>1, <1>4, <1>6, <1>7, <1>8, <1>9 DEF Walking

\* What is left to do after n turns: only the first visit of a member of K adds
\* edges, and no more than M.
Bounded(seen, q, n, K, M) == q = <<>> \/ n + Len(q) <= Cardinality(seen \intersect K) * M

LEMMA BoundTurns ==
  ASSUME NEW seen, NEW q, NEW line, NEW line2, NEW seen2, NEW q2, NEW p, NEW id, NEW K, NEW B,
         Takes(line, seen, q, line2, seen2, q2, p, id, K, B), IsFiniteSet(K), NEW M \in Nat,
         id \in K => Len(B[id]) <= M, NEW n \in Nat, n + Len(q) <= Cardinality(seen \intersect K) * M
  PROVE  n + 1 + Len(q2) <= Cardinality(seen2 \intersect K) * M
<1>1. Len(q) \in Nat /\ Len(q) >= 1 /\ Len(p) \in Nat /\ Len(q2) = Len(q) - 1 + Len(p)
  BY DEF Takes, Shifted
<1>2. PICK k, m : k = Cardinality(seen \intersect K) /\ m = Cardinality(seen2 \intersect K)
  OBVIOUS
<1>3. IsFiniteSet(seen \intersect K) /\ k \in Nat
  <2>1. seen \intersect K \in SUBSET K
    OBVIOUS
  <2> QED BY <1>2, <2>1, FS_Subset, FS_CardinalityType
<1>4. CASE id \notin seen /\ id \in K
  <2>1. seen2 \intersect K = (seen \intersect K) \union {id} /\ id \notin seen \intersect K
    BY <1>4 DEF Takes
  <2>2. m = k + 1
    BY <1>2, <1>3, <2>1, FS_AddElement
  <2>3. Len(p) <= M
    BY <1>4 DEF Takes
  <2>4. (k + 1) * M = k * M + M
    BY ONLY <1>3, M \in Nat
  <2>5. k * M \in Nat
    BY ONLY <1>3, M \in Nat
  <2>6. PICK x : x = k * M
    OBVIOUS
  <2>7. n + Len(q) <= x /\ x \in Nat /\ m * M = x + M
    BY <1>2, <2>2, <2>4, <2>5, <2>6
  <2>8. n + 1 + Len(q2) <= m * M
    BY ONLY <1>1, <2>3, <2>7, n \in Nat, M \in Nat
  <2> QED BY <1>2, <2>8
<1>5. CASE ~(id \notin seen /\ id \in K)
  <2>1. seen2 \intersect K = seen \intersect K /\ Len(p) = 0
    BY <1>5 DEF Takes
  <2>2. n + 1 + Len(q2) = n + Len(q)
    BY <1>1, <2>1
  <2> QED BY <2>1, <2>2
<1> QED BY <1>4, <1>5

\* A line that has all of A but c, each once and the nearer ones first.
WholeLine(line, c, A, Lv) ==
  /\ \A y : y \in AncestorsOf(line) <=> y \in A /\ y # c
  /\ Len(line) \in Nat /\ Cardinality(AncestorsOf(line)) = Len(line)
  /\ \A i, j \in 1..Len(line) : i < j => Lv[line[i][1]] <= Lv[line[j][1]]

LEMMA WalkEnds ==
  ASSUME NEW c, NEW A, NEW K, NEW B, NEW Lv, NEW M, NEW V, WellFormed(c, A, K, B, Lv, M, V),
         NEW E, E = A \X V, NEW line, NEW seen, NEW q, q = <<>>, NEW L,
         Walking(line, seen, q, L, c, A, K, B, Lv, E)
  PROVE  WholeLine(line, c, A, Lv)
<1>1. Listed(line, seen, c, Lv) /\ seen \subseteq A /\ Between(line, seen, q, L, A, K, B, Lv) /\ Len(q) = 0
  BY DEF Walking
<1>2. \A x \in seen \intersect K : \A n \in 1..Len(B[x]) : B[x][n][1] \in seen
  <2>1. \A j \in 1..Len(q) : FALSE
    BY <1>1
  <2> QED BY <1>1, <2>1 DEF Between
<1>3. c \in seen
  BY <1>1 DEF Listed
<1>4. \A y \in A : y \in seen
  <2> SUFFICES ASSUME NEW z \in A, z \notin seen PROVE FALSE
    OBVIOUS
  <2> DEFINE S == {Lv[y] : y \in {x \in A : x \notin seen}}
  <2>1. \A y \in A : Lv[y] \in Nat /\ (Lv[y] = 0 <=> y = c)
    BY DEF WellFormed
  <2>2. S \in SUBSET Nat /\ S # {}
    BY <2>1
  <2>3. PICK k \in S : \A m \in S : k <= m
    <3> HIDE DEF S
    <3> QED BY <2>2, LeastPlace
  <2>4. PICK y \in A : y \notin seen /\ Lv[y] = k
    BY <2>3
  <2>5. k \in Nat /\ k > 0
    <3>1. y # c
      BY <1>3, <2>4
    <3> QED BY <2>1, <2>4, <3>1
  <2>6. PICK x \in A \intersect K : Lv[x] = Lv[y] - 1 /\ \E n \in 1..Len(B[x]) : B[x][n][1] = y
    BY <2>4, <2>5 DEF WellFormed
  <2>7. x \notin seen
    BY <1>2, <2>4, <2>6
  <2>8. Lv[x] \in S
    BY <2>7
  <2>9. k <= k - 1
    <3>1. Lv[x] = k - 1
      BY <2>4, <2>6
    <3> HIDE DEF S
    <3> QED BY <2>3, <2>8, <3>1
  <2> QED BY ONLY <2>5, <2>9
<1>5. /\ Len(line) \in Nat
      /\ \A y : y \in seen <=> y = c \/ \E i \in 1..Len(line) : line[i][1] = y
      /\ \A i \in 1..Len(line) : line[i][1] # c
      /\ \A i, j \in 1..Len(line) : i < j => line[i][1] # line[j][1] /\ Lv[line[i][1]] <= Lv[line[j][1]]
  BY <1>1 DEF Listed
<1>6. \A y : y \in AncestorsOf(line) <=> \E i \in 1..Len(line) : line[i][1] = y
  BY DEF AncestorsOf
<1>7. \A y : y \in AncestorsOf(line) <=> y \in A /\ y # c
  BY ONLY <1>1, <1>4, <1>5, <1>6
<1>8. Cardinality(AncestorsOf(line)) = Len(line)
  <2>1. PICK f, N, T : N = Len(line) /\ f = [i \in 1..N |-> line[i][1]] /\ T = AncestorsOf(line)
    OBVIOUS
  <2>2. \A i \in 1..N : f[i] = line[i][1]
    BY <2>1
  <2>3. \A i, j \in 1..N : f[i] = f[j] => i = j
    <3>1. \A i, j \in 1..N : i < j => f[i] # f[j]
      BY <1>5, <2>1, <2>2
    <3>2. \A i, j \in 1..N : i = j \/ i < j \/ j < i
      BY <1>5, <2>1
    <3> QED BY ONLY <3>1, <3>2
  <2>4. T = {f[n] : n \in 1..N}
    <3>1. T = {line[n][1] : n \in 1..N}
      BY <2>1 DEF AncestorsOf
    <3> QED BY ONLY <2>2, <3>1
  <2>5. Cardinality(T) = N
    <3>1. f \in Bijection(1..N, T)
      BY ONLY <2>1, <2>3, <2>4 DEF Bijection, Injection, Surjection, IsInjective
    <3>2. IsFiniteSet(1..N) /\ Cardinality(1..N) = N
      <4>1. N \in Nat
        BY ONLY <1>5, <2>1
      <4> QED BY ONLY <4>1, FS_Interval
    <3> QED BY ONLY <3>1, <3>2, FS_Bijection DEF ExistsBijection
  <2> QED BY <2>1, <2>5
<1> QED BY <1>5, <1>7, <1>8 DEF WholeLine

\* What candidate c reaches, and how far away that is.
Reached(dist, c) == {c} \union {x[1] : x \in dist[c]}
LevelOf(dist, c) == [y \in Reached(dist, c) |-> IF y = c THEN 0 ELSE (CHOOSE x \in dist[c] : x[1] = y)[2]]

LEMMA LevelSays ==
  ASSUME NEW dist, NEW N, NEW K, NEW Dir, Measured(dist, N, K, Dir), NEW c \in K, NEW Lv, Lv = LevelOf(dist, c)
  PROVE  /\ c \in Reached(dist, c) /\ Lv[c] = 0
         /\ \A y, k : <<y, k>> \in dist[c] =>
              y \in Reached(dist, c) /\ y # c /\ Lv[y] = k /\ k \in Nat /\ k >= 1
         /\ \A y \in Reached(dist, c) : y # c => <<y, Lv[y]>> \in dist[c]
<1>1. N \in Nat /\ c \in 1..N /\ c \in Nat
  BY DEF Measured
<1>2. dist[c] \subseteq Distant(c)
  BY <1>1, DistTyped
<1>3. \A x \in dist[c] : x = <<x[1], x[2]>> /\ x[1] # c /\ x[2] \in Nat /\ x[2] >= 1
  <2> SUFFICES ASSUME NEW x \in dist[c] PROVE x = <<x[1], x[2]>> /\ x[1] # c /\ x[2] \in Nat /\ x[2] >= 1
    OBVIOUS
  <2>1. x = <<x[1], x[2]>> /\ x[1] \in 1..(c - 1) /\ x[2] \in Nat /\ x[2] >= 1
    BY <1>1, <1>2, DistantHas
  <2> QED BY <1>1, <2>1
<1>4. \A y : y \in Reached(dist, c) <=> y = c \/ \E x \in dist[c] : x[1] = y
  BY DEF Reached
<1>5. \A y \in Reached(dist, c) : Lv[y] = IF y = c THEN 0 ELSE (CHOOSE x \in dist[c] : x[1] = y)[2]
  BY DEF LevelOf
<1>6. c \in Reached(dist, c) /\ Lv[c] = 0
  BY <1>4, <1>5
<1>7. ASSUME NEW y \in Reached(dist, c), y # c PROVE <<y, Lv[y]>> \in dist[c]
  <2>1. PICK x : x = CHOOSE z \in dist[c] : z[1] = y
    OBVIOUS
  <2>2. x \in dist[c] /\ x[1] = y
    BY <1>4, <1>7, <2>1
  <2>3. Lv[y] = x[2]
    BY <1>5, <1>7, <2>1
  <2>4. x = <<y, Lv[y]>>
    BY <1>3, <2>2, <2>3
  <2> QED BY <2>2, <2>4
<1>8. ASSUME NEW y, NEW k, <<y, k>> \in dist[c]
      PROVE  y \in Reached(dist, c) /\ y # c /\ Lv[y] = k /\ k \in Nat /\ k >= 1
  <2>1. PICK x : x = <<y, k>>
    OBVIOUS
  <2>2. x \in dist[c] /\ x[1] = y /\ x[2] = k
    BY <1>8, <2>1
  <2>3. y \in Reached(dist, c) /\ y # c /\ k \in Nat /\ k >= 1
    BY <1>3, <1>4, <2>2
  <2>4. <<y, Lv[y]>> \in dist[c]
    BY <1>7, <2>3
  <2>5. Lv[y] = k
    BY <1>8, <2>4, DistSteps
  <2> QED BY <2>3, <2>5
<1> QED BY <1>6, <1>7, <1>8

\* The edges B lead where Dir says.
Edged(B, N, K, Dir, V) ==
  \A x \in K : B[x] \in Seq(Dir[x] \X V) /\ Len(B[x]) <= N /\ AncestorsOf(B[x]) = Dir[x]

LEMMA DescentFormed ==
  ASSUME NEW dist, NEW N, NEW K, NEW Dir, Measured(dist, N, K, Dir), NEW c \in K,
         NEW B, NEW V, Edged(B, N, K, Dir, V),
         NEW A, A = Reached(dist, c), NEW Lv, Lv = LevelOf(dist, c)
  PROVE  WellFormed(c, A, K, B, Lv, N, V)
<1>1. N \in Nat /\ c \in 1..N
  BY DEF Measured
<1>2. /\ c \in A /\ Lv[c] = 0
      /\ \A y, k : <<y, k>> \in dist[c] => y \in A /\ y # c /\ Lv[y] = k /\ k \in Nat /\ k >= 1
      /\ \A y \in A : y # c => <<y, Lv[y]>> \in dist[c]
  BY LevelSays
<1>3. ASSUME NEW y \in A PROVE Lv[y] \in Nat /\ (Lv[y] = 0 <=> y = c)
  <2>1. y # c => Lv[y] \in Nat /\ Lv[y] >= 1
    BY <1>2
  <2> QED BY <1>2, <2>1
<1>4. ASSUME NEW x \in A \intersect K, NEW d \in Dir[x] PROVE d \in A /\ Lv[d] >= 1 /\ Lv[d] <= Lv[x] + 1
  <2>1. CASE x = c
    <3>1. <<d, 1>> \in dist[c]
      BY <2>1, DistSteps
    <3>2. d \in A /\ Lv[d] = 1
      BY <1>2, <3>1
    <3> QED BY <1>2, <2>1, <3>2
  <2>2. CASE x # c
    <3>1. <<x, Lv[x]>> \in dist[c]
      BY <1>2, <2>2
    <3>2. PICK j \in Nat : j <= Lv[x] + 1 /\ <<d, j>> \in dist[c]
      BY <1>1, <3>1, DistExtends
    <3> QED BY <1>2, <3>2
  <2> QED BY <2>1, <2>2
<1>5. ASSUME NEW x \in A \intersect K
      PROVE  /\ B[x] \in Seq(A \X V) /\ Len(B[x]) <= N
             /\ \A n \in 1..Len(B[x]) : Lv[B[x][n][1]] >= 1 /\ Lv[B[x][n][1]] <= Lv[x] + 1
  <2>1. PICK b, D : b = B[x] /\ D = Dir[x]
    OBVIOUS
  <2>2. b \in Seq(D \X V) /\ Len(b) <= N
    BY <2>1 DEF Edged
  <2>3. D \X V \subseteq A \X V
    BY <1>4, <2>1
  <2>4. b \in Seq(A \X V)
    BY ONLY <2>2, <2>3
  <2>5. \A n \in 1..Len(b) : b[n] \in D \X V
    BY ONLY <2>2
  <2>6. \A n \in 1..Len(b) : b[n][1] \in D
    BY ONLY <2>5
  <2> QED BY <1>4, <2>1, <2>2, <2>4, <2>6
<1>6. ASSUME NEW y \in A, Lv[y] > 0
      PROVE  \E x \in A \intersect K : Lv[x] = Lv[y] - 1 /\ \E n \in 1..Len(B[x]) : B[x][n][1] = y
  <2>1. y # c
    BY <1>2, <1>6
  <2>2. <<y, Lv[y]>> \in dist[c]
    BY <1>2, <2>1
  <2>3. \A x \in K : y \in Dir[x] => \E n \in 1..Len(B[x]) : B[x][n][1] = y
    <3> SUFFICES ASSUME NEW x \in K, y \in Dir[x] PROVE \E n \in 1..Len(B[x]) : B[x][n][1] = y
      OBVIOUS
    <3>1. y \in AncestorsOf(B[x])
      BY DEF Edged
    <3> QED BY ONLY <3>1 DEF AncestorsOf
  <2>4. CASE Lv[y] = 1 /\ y \in Dir[c]
    BY <1>2, <2>3, <2>4
  <2>5. CASE Lv[y] > 1 /\ \E x \in K : <<x, Lv[y] - 1>> \in dist[c] /\ y \in Dir[x]
    BY <1>2, <2>3, <2>5
  <2> QED BY <1>1, <2>2, <2>4, <2>5, DistLast
<1> QED BY <1>1, <1>2, <1>3, <1>5, <1>6 DEF WellFormed

\* Measures in Evolution.
LEMMA DescentMeasured ==
  ASSUME EvInv, DetailInv, NEW N, N = Len(log), NEW K, K = Accepted("Candidate"),
         NEW Dir, Dir = [x \in K |-> Direct(x)], NEW B, B = [x \in K |-> BackEdges(x)],
         NEW dist, dist = Distances
  PROVE  Measured(dist, N, K, Dir) /\ Edged(B, N, K, Dir, Vias)
<1>1. N \in Nat /\ K \subseteq 1..N
  BY EvLog
<1>2. ASSUME NEW x \in K PROVE Dir[x] = Direct(x) /\ B[x] = BackEdges(x) /\ x \in 1..N
  BY <1>1
<1>3. \A x \in K : Dir[x] \subseteq 1..(x - 1)
  BY <1>2, DirectIs
<1>4. \A c \in 1..N : dist[c] = IF c \in K THEN Nearest(FarFrom(dist, Dir[c])) ELSE {}
  BY <1>2, DistancesAre DEF DistancesSay
<1>5. ASSUME NEW x \in K PROVE B[x] \in Seq(Dir[x] \X Vias) /\ Len(B[x]) <= N /\ AncestorsOf(B[x]) = Dir[x]
  <2>1. PICK b : b = BackEdges(x)
    OBVIOUS
  <2>2. b \in Seq(Direct(x) \X Vias) /\ Len(b) <= x - 1 /\ AncestorsOf(b) = Direct(x)
    BY <2>1, BackEdgesSay
  <2>3. Len(b) \in Nat
    BY ONLY <2>2
  <2>4. Len(b) <= N
    BY ONLY <1>1, <1>2, <2>2, <2>3
  <2> QED BY <1>2, <2>1, <2>2, <2>4
<1> QED BY <1>1, <1>3, <1>4, <1>5 DEF Measured, Edged

\* Where a walk is.
WalkStates(A, V) == [line : Seq(A \X V), seen : SUBSET A, queue : Seq(A \X V)]

LEMMA VisitTakes ==
  ASSUME NEW c, NEW A, NEW K, NEW B, NEW Lv, NEW M, NEW V, WellFormed(c, A, K, B, Lv, M, V),
         \A y \in A : log[y].kind = "Candidate" <=> y \in K, \A x \in K : B[x] = BackEdges(x),
         NEW w \in WalkStates(A, V), w.queue # <<>>, NEW v, v = Visit(w)
  PROVE  /\ v \in WalkStates(A, V)
         /\ \E id \in A, p \in Seq(A \X V) :
              Takes(w.line, w.seen, w.queue, v.line, v.seen, v.queue, p, id, K, B)
<1>1. PICK E, q, e, id : E = A \X V /\ q = w.queue /\ e = Head(q) /\ id = e[1]
  OBVIOUS
<1>2. w.line \in Seq(E) /\ w.seen \subseteq A /\ q \in Seq(E) /\ q # <<>>
  BY <1>1 DEF WalkStates
<1>3. e \in E /\ e = q[1] /\ id \in A
  <2>1. e \in E /\ e = q[1]
    BY ONLY <1>1, <1>2, HeadTailProperties
  <2> QED BY <1>1, <2>1
<1>4. <<>> \in Seq(E) /\ Len(<<>>) = 0
  OBVIOUS
<1>5. PICK t : t = Tail(q)
  OBVIOUS
<1>6. t \in Seq(E) /\ Shifted(q, t, <<>>)
  <2>1. t \in Seq(E)
    BY <1>2, <1>5, HeadTailProperties
  <2>2. t \o <<>> = t
    BY <2>1, ConcatEmptySeq
  <2>3. Shifted(q, t \o <<>>, <<>>)
    BY ONLY <1>2, <1>4, <1>5, ShiftedSays
  <2> QED BY <2>1, <2>2, <2>3
<1>7. CASE id \in w.seen
  <2>1. v = [w EXCEPT !.queue = t]
    BY <1>1, <1>5, <1>7 DEF Visit
  <2>2. v \in WalkStates(A, V) /\ v.line = w.line /\ v.seen = w.seen /\ v.queue = t
    BY <1>1, <1>6, <2>1 DEF WalkStates
  <2>3. w.seen = w.seen \union {id}
    BY <1>7
  <2>4. Takes(w.line, w.seen, w.queue, v.line, v.seen, v.queue, <<>>, id, K, B)
    BY <1>1, <1>3, <1>4, <1>6, <1>7, <2>2, <2>3 DEF Takes
  <2> QED BY <1>1, <1>3, <1>4, <2>2, <2>4
<1>8. CASE id \notin w.seen
  <2>1. PICK p : p = IF id \in K THEN B[id] ELSE <<>>
    OBVIOUS
  <2>2. p \in Seq(E)
    BY <1>1, <1>3, <1>4, <2>1 DEF WellFormed
  <2>3. PICK u : u = t \o p
    OBVIOUS
  <2>4. u \in Seq(E) /\ Shifted(q, u, p)
    BY ONLY <1>2, <1>5, <2>2, <2>3, ShiftedSays
  <2>5. (IF log[id].kind = "Candidate" THEN t \o BackEdges(id) ELSE t) = u
    <3>1. CASE id \in K
      BY <1>3, <2>1, <2>3, <3>1
    <3>2. CASE id \notin K
      <4>1. u = t
        BY <1>6, <2>1, <2>3, <3>2, ConcatEmptySeq
      <4> QED BY <1>3, <3>2, <4>1
    <3> QED BY <3>1, <3>2
  <2>6. PICK line2, seen2 : line2 = Append(w.line, e) /\ seen2 = w.seen \union {id}
    OBVIOUS
  <2>7. v = [line |-> line2, seen |-> seen2, queue |-> u]
    BY <1>1, <1>5, <1>8, <2>5, <2>6 DEF Visit
  <2>8. line2 \in Seq(E) /\ seen2 \subseteq A
    <3>1. line2 \in Seq(E)
      BY ONLY <1>2, <1>3, <2>6, AppendProperties
    <3> QED BY <1>2, <1>3, <2>6, <3>1
  <2>9. v \in WalkStates(A, V) /\ v.line = line2 /\ v.seen = seen2 /\ v.queue = u
    BY <1>1, <2>4, <2>7, <2>8 DEF WalkStates
  <2>10. Takes(w.line, w.seen, w.queue, v.line, v.seen, v.queue, p, id, K, B)
    BY <1>1, <1>3, <1>4, <1>8, <2>1, <2>4, <2>6, <2>9 DEF Takes
  <2> QED BY <1>1, <1>3, <2>2, <2>9, <2>10
<1> QED BY <1>7, <1>8

LEMMA DescentWalks ==
  ASSUME NEW c, NEW A, NEW K, NEW B, NEW Lv, NEW V, WellFormed(c, A, K, B, Lv, Len(log), V),
         \A y \in A : log[y].kind = "Candidate" <=> y \in K, \A x \in K : B[x] = BackEdges(x),
         K = Accepted("Candidate"), IsFiniteSet(K), NEW line, line = Descent(c)
  PROVE  \E seen, L : Walking(line, seen, <<>>, L, c, A, K, B, Lv, A \X V)
<1> DEFINE N == MaxVisits
           X == WalkStates(A, V)
           start == [line |-> <<>>, seen |-> {c}, queue |-> BackEdges(c)]
           Turn(w) == IF w.queue = <<>> THEN w ELSE Visit(w)
           Fits(f) == f = [n \in 0..N |-> IF n = 0 THEN start ELSE Turn(f[n - 1])]
           G == [m \in 1..N |-> [w \in X |-> Turn(w)]]
<1>1. Len(log) \in Nat /\ c \in A /\ c \in K
  BY DEF WellFormed
<1>2. N \in Nat /\ N = Cardinality(K) * Len(log)
  <2>1. Cardinality(K) \in Nat
    BY FS_CardinalityType
  <2>2. Cardinality(K) * Len(log) \in Nat
    BY ONLY <1>1, <2>1
  <2> QED BY <2>2 DEF MaxVisits
<1>3. start \in X
  <2>1. BackEdges(c) \in Seq(A \X V)
    BY <1>1 DEF WellFormed
  <2>2. <<>> \in Seq(A \X V) /\ {c} \in SUBSET A
    BY <1>1
  <2> QED BY <2>1, <2>2 DEF WalkStates
<1>4. ASSUME NEW w \in X PROVE Turn(w) \in X
  <2>1. CASE w.queue = <<>>
    BY <2>1
  <2>2. CASE w.queue # <<>>
    <3>1. PICK v : v = Visit(w)
      OBVIOUS
    <3>2. v \in WalkStates(A, V)
      BY <2>2, <3>1, VisitTakes
    <3> QED BY <2>2, <3>1, <3>2
  <2> QED BY <2>1, <2>2
<1>5. ASSUME NEW m \in 1..N, NEW w \in X PROVE G[m][w] = Turn(w)
  <2> HIDE DEF X, N, Turn
  <2> QED OBVIOUS
<1>6. PICK f : Runs(f, N, start, G) /\ \A m \in 0..N : f[m] \in X
  <2>1. \A m \in 1..N : \A x \in X : G[m][x] \in X
    <3> HIDE DEF X, N, Turn, G
    <3> QED BY <1>4, <1>5
  <2>2. N \in Nat
    BY <1>2
  <2> HIDE DEF X, N, G, start
  <2> QED BY ONLY <1>3, <2>1, <2>2, RunExists
<1>7. Fits(f)
  <2> HIDE DEF Turn, G, X, start, N
  <2>1. ASSUME NEW m \in 0..N, m # 0 PROVE G[m][f[m - 1]] = Turn(f[m - 1])
    <3>1. m - 1 \in 0..N /\ m \in 1..N
      BY <1>2, <2>1
    <3> QED BY <1>5, <1>6, <3>1
  <2>2. f = [m \in 0..N |-> IF m = 0 THEN start ELSE G[m][f[m - 1]]]
    BY <1>6 DEF Runs
  <2>3. \A m \in 0..N : (IF m = 0 THEN start ELSE G[m][f[m - 1]]) = IF m = 0 THEN start ELSE Turn(f[m - 1])
    BY <2>1
  <2> QED BY <2>2, <2>3
<1>8. Descent(c) = (CHOOSE g : Fits(g))[N].line
  BY Zenon DEF Descent
<1>9. PICK walk : walk = (CHOOSE g : Fits(g)) /\ Fits(walk)
  <2> HIDE DEF Fits
  <2> QED BY <1>7
<1>10. walk[0] = start /\ \A m \in 1..N : walk[m] = Turn(walk[m - 1])
  <2>1. \A m \in 0..N : walk[m] = IF m = 0 THEN start ELSE Turn(walk[m - 1])
    <3> HIDE DEF Turn, start, N
    <3> QED BY <1>9
  <2> HIDE DEF Turn, start
  <2>2. \A m \in 1..N : m \in 0..N /\ m # 0
    BY <1>2
  <2>3. 0 \in 0..N
    BY <1>2
  <2> HIDE DEF N
  <2> QED BY <2>1, <2>2, <2>3
<1> DEFINE Good(w, n) == /\ w \in X
                         /\ \E L : Walking(w.line, w.seen, w.queue, L, c, A, K, B, Lv, A \X V)
                         /\ Bounded(w.seen, w.queue, n, K, Len(log))
           T == {n \in 0..N : Good(walk[n], n)}
<1>11. Good(start, 0)
  <2>1. PICK q : q = BackEdges(c)
    OBVIOUS
  <2>2. q = B[c] /\ Len(q) \in Nat /\ Len(q) <= Len(log)
    BY <1>1, <2>1 DEF WellFormed
  <2>3. \E L : Walking(<<>>, {c}, q, L, c, A, K, B, Lv, A \X V)
    BY <2>2, WalkStarts
  <2>4. Bounded({c}, q, 0, K, Len(log))
    <3>1. {c} \intersect K = {c} /\ Cardinality({c}) = 1
      BY <1>1, FS_Singleton
    <3>2. 0 + Len(q) <= 1 * Len(log)
      BY ONLY <1>1, <2>2
    <3> QED BY <3>1, <3>2 DEF Bounded
  <2>5. start.line = <<>> /\ start.seen = {c} /\ start.queue = q
    BY <2>1
  <2> QED BY <1>3, <2>3, <2>4, <2>5
<1>12. ASSUME NEW w, NEW n \in Nat, Good(w, n) PROVE Good(Turn(w), n + 1)
  <2>1. CASE w.queue = <<>>
    <3>1. Turn(w) = w
      BY <2>1
    <3>2. Bounded(w.seen, w.queue, n + 1, K, Len(log))
      BY <2>1 DEF Bounded
    <3> QED BY <1>12, <3>1, <3>2
  <2>2. CASE w.queue # <<>>
    <3>1. PICK v : v = Visit(w)
      OBVIOUS
    <3>2. w \in WalkStates(A, V)
      BY <1>12
    <3>3. /\ v \in WalkStates(A, V)
          /\ \E id \in A, p \in Seq(A \X V) :
               Takes(w.line, w.seen, w.queue, v.line, v.seen, v.queue, p, id, K, B)
      BY <2>2, <3>1, <3>2, VisitTakes
    <3>4. PICK id, p : id \in A /\ p \in Seq(A \X V)
                       /\ Takes(w.line, w.seen, w.queue, v.line, v.seen, v.queue, p, id, K, B)
      BY <3>3
    <3>5. PICK L : Walking(w.line, w.seen, w.queue, L, c, A, K, B, Lv, A \X V)
      BY <1>12
    <3>6. v.line \in Seq(A \X V) /\ v.queue \in Seq(A \X V)
      BY <3>3 DEF WalkStates
    <3>7. PICK E, M : E = A \X V /\ M = Len(log)
      OBVIOUS
    <3>8. \E L2 : Walking(v.line, v.seen, v.queue, L2, c, A, K, B, Lv, E)
      <4>1. WellFormed(c, A, K, B, Lv, M, V)
        BY <3>7
      <4> QED BY ONLY <3>4, <3>5, <3>6, <3>7, <4>1, WalkTurns
    <3>9. n + Len(w.queue) <= Cardinality(w.seen \intersect K) * M
      BY <1>12, <2>2, <3>7 DEF Bounded
    <3>10. id \in K => Len(B[id]) <= M
      BY <3>4, <3>7 DEF WellFormed
    <3>11. n + 1 + Len(v.queue) <= Cardinality(v.seen \intersect K) * M
      BY ONLY <1>1, <3>4, <3>7, <3>9, <3>10, BoundTurns, IsFiniteSet(K), n \in Nat
    <3>12. Turn(w) = v
      BY <2>2, <3>1
    <3> HIDE DEF Turn
    <3> QED BY <3>3, <3>7, <3>8, <3>11, <3>12 DEF Bounded
  <2> QED BY <2>1, <2>2
<1>13. N \in T
  <2> HIDE DEF Good, Turn, start, N
  <2>1. 0 \in T
    BY <1>2, <1>10, <1>11
  <2>2. ASSUME NEW n \in 0..N, n < N, n \in T PROVE n + 1 \in T
    <3>1. n + 1 \in 1..N /\ n + 1 \in 0..N /\ (n + 1) - 1 = n /\ n \in Nat
      BY <1>2, <2>2
    <3>2. walk[n + 1] = Turn(walk[n])
      BY <1>10, <3>1
    <3> QED BY <1>12, <2>2, <3>1, <3>2
  <2>3. N \in 0..N
    BY <1>2
  <2> HIDE DEF T
  <2> QED BY <1>2, <2>1, <2>2, <2>3, PlaceInduction
<1>14. PICK w : w = walk[N] /\ Good(w, N) /\ line = w.line
  <2> HIDE DEF Good, Fits, N
  <2> QED BY <1>8, <1>9, <1>13
<1>15. w.queue = <<>>
  <2> SUFFICES ASSUME w.queue # <<>> PROVE FALSE
    OBVIOUS
  <2>1. PICK k : k = Cardinality(w.seen \intersect K)
    OBVIOUS
  <2>2. N + Len(w.queue) <= k * Len(log)
    BY <1>14, <2>1 DEF Bounded
  <2>3. w.queue \in Seq(A \X V)
    BY <1>14 DEF WalkStates
  <2>4. Len(w.queue) \in Nat /\ Len(w.queue) >= 1
    <3>1. PICK q : q = w.queue
      OBVIOUS
    <3>2. Len(q) \in Nat /\ Len(q) >= 1
      BY <2>3, <3>1, EmptySeq
    <3> QED BY <3>1, <3>2
  <2>5. k \in Nat /\ k <= Cardinality(K) /\ Cardinality(K) \in Nat
    <3>1. w.seen \intersect K \in SUBSET K
      OBVIOUS
    <3> QED BY <2>1, <3>1, FS_Subset, FS_CardinalityType
  <2>6. k * Len(log) <= Cardinality(K) * Len(log)
    <3>1. \A i, j, m \in Nat : i <= j => i * m <= j * m
      OBVIOUS
    <3> QED BY ONLY <1>1, <2>5, <3>1
  <2>7. PICK i, j, m : i = k * Len(log) /\ j = Cardinality(K) * Len(log) /\ m = Len(w.queue)
    OBVIOUS
  <2>8. i \in Nat /\ j \in Nat
    BY ONLY <1>1, <2>5, <2>7
  <2>9. j + m <= i /\ i <= j /\ m \in Nat /\ m >= 1
    BY <1>2, <2>2, <2>4, <2>6, <2>7
  <2> QED BY ONLY <2>8, <2>9
<1> QED BY <1>14, <1>15

\* The line of descent of a candidate, as its distances say.
LEMMA DescentSays ==
  ASSUME EvInv, DetailInv, NEW c \in Accepted("Candidate"), NEW line, line = Descent(c),
         NEW Lv, Lv = LevelOf(Distances, c)
  PROVE  WholeLine(line, c, Reached(Distances, c), Lv)
<1>1. PICK N, K, dist, A : N = Len(log) /\ K = Accepted("Candidate") /\ dist = Distances /\ A = Reached(dist, c)
  OBVIOUS
<1>2. PICK Dir, B : Dir = [x \in K |-> Direct(x)] /\ B = [x \in K |-> BackEdges(x)]
  OBVIOUS
<1>3. Measured(dist, N, K, Dir) /\ Edged(B, N, K, Dir, Vias)
  BY <1>1, <1>2, DescentMeasured
<1>4. c \in K /\ Lv = LevelOf(dist, c)
  BY <1>1
<1>5. WellFormed(c, A, K, B, Lv, N, Vias)
  BY ONLY <1>1, <1>3, <1>4, DescentFormed
<1>6. \A x \in K : B[x] = BackEdges(x) /\ Dir[x] = Direct(x)
  BY <1>2
<1>7. N \in Nat /\ K \subseteq 1..N
  BY <1>1, EvLog
<1>8. IsFiniteSet(K)
  <2>1. IsFiniteSet(1..N) /\ K \in SUBSET (1..N)
    BY <1>7, FS_Interval
  <2> QED BY <2>1, FS_Subset
<1>9. ASSUME NEW y \in A PROVE y \in accepted_records
  <2>1. \A x \in K : x \in accepted_records /\ Dir[x] \subseteq accepted_records
    <3>1. \A x \in Accepted("Candidate") : Direct(x) \subseteq accepted_records
      BY DirectIs
    <3> QED BY <1>1, <1>6, <3>1 DEF Accepted
  <2>2. CASE y = c
    BY <1>4, <2>1, <2>2
  <2>3. CASE y # c
    <3>1. <<y, Lv[y]>> \in dist[c]
      BY <1>1, <1>3, <1>4, <2>3, LevelSays
    <3>2. c \in 1..N
      BY <1>4, <1>7
    <3>3. \E x \in K : y \in Dir[x]
      <4>1. PICK k : k = Lv[y]
        OBVIOUS
      <4>2. \/ k = 1 /\ y \in Dir[c]
            \/ k > 1 /\ \E x \in K : <<x, k - 1>> \in dist[c] /\ y \in Dir[x]
        BY ONLY <1>3, <3>1, <3>2, <4>1, DistLast
      <4> QED BY <1>4, <4>2
    <3> QED BY <2>1, <3>3
  <2> QED BY <2>2, <2>3
<1>10. \A y \in A : log[y].kind = "Candidate" <=> y \in K
  BY <1>1, <1>9 DEF Accepted
<1>11. PICK E, q : E = A \X Vias /\ q = <<>>
  OBVIOUS
<1>12. PICK seen, L : Walking(line, seen, q, L, c, A, K, B, Lv, E)
  <2>1. WellFormed(c, A, K, B, Lv, Len(log), Vias)
    BY <1>1, <1>5
  <2> HIDE DEF Vias
  <2>2. \E seen, L : Walking(line, seen, <<>>, L, c, A, K, B, Lv, A \X Vias)
    BY <1>1, <1>6, <1>8, <1>10, <2>1, DescentWalks
  <2> QED BY <1>11, <2>2
<1>13. WholeLine(line, c, A, Lv)
  BY ONLY <1>5, <1>11, <1>12, WalkEnds
<1> QED BY <1>1, <1>13

LEMMA DescentIsExact ==
  ASSUME EvInv, DetailInv
  PROVE  DescentExact
<1> DEFINE far(c, n) == (CHOOSE x \in Distances[c] : x[1] = Descent(c)[n][1])[2]
<1> SUFFICES ASSUME NEW c \in Accepted("Candidate")
             PROVE  /\ AncestorsOf(Descent(c)) = {x[1] : x \in Distances[c]}
                    /\ Cardinality(AncestorsOf(Descent(c))) = Len(Descent(c))
                    /\ \A n \in 1..(Len(Descent(c)) - 1) : far(c, n) <= far(c, n + 1)
  BY Zenon DEF DescentExact
<1>1. PICK line, Lv, dist : line = Descent(c) /\ Lv = LevelOf(Distances, c) /\ dist = Distances
  OBVIOUS
<1>2. /\ \A y : y \in AncestorsOf(line) <=> y \in Reached(Distances, c) /\ y # c
      /\ Len(line) \in Nat /\ Cardinality(AncestorsOf(line)) = Len(line)
      /\ \A i, j \in 1..Len(line) : i < j => Lv[line[i][1]] <= Lv[line[j][1]]
  BY <1>1, DescentSays DEF WholeLine
<1>3. \A x \in dist[c] : x[1] # c
  <2>1. PICK N, K, Dir, B : /\ N = Len(log) /\ K = Accepted("Candidate")
                            /\ Dir = [x \in K |-> Direct(x)] /\ B = [x \in K |-> BackEdges(x)]
    OBVIOUS
  <2>2. Measured(dist, N, K, Dir)
    BY <1>1, <2>1, DescentMeasured
  <2>3. c \in 1..N /\ c \in Nat
    BY <2>1, <2>2 DEF Measured
  <2> SUFFICES ASSUME NEW x \in dist[c] PROVE x[1] # c
    OBVIOUS
  <2>4. x \in Distant(c)
    BY <2>2, <2>3, DistTyped
  <2>5. x[1] \in 1..(c - 1)
    BY <2>3, <2>4, DistantHas
  <2> QED BY <2>3, <2>5
<1>4. \A y : y \in AncestorsOf(line) <=> \E x \in dist[c] : x[1] = y
  BY <1>1, <1>2, <1>3 DEF Reached
<1>5. AncestorsOf(line) = {x[1] : x \in dist[c]}
  BY <1>4
<1>6. ASSUME NEW n \in 1..Len(line) PROVE far(c, n) = Lv[line[n][1]]
  <2>1. PICK y : y = line[n][1]
    OBVIOUS
  <2>2. y \in AncestorsOf(line)
    BY <2>1 DEF AncestorsOf
  <2>3. y \in Reached(dist, c) /\ y # c
    BY <1>1, <1>2, <2>2
  <2>4. Lv[y] = (CHOOSE x \in dist[c] : x[1] = y)[2]
    BY <1>1, <2>3 DEF LevelOf
  <2> QED BY <1>1, <2>1, <2>4
<1>7. ASSUME NEW n \in 1..(Len(line) - 1) PROVE far(c, n) <= far(c, n + 1)
  <2>1. n \in 1..Len(line) /\ n + 1 \in 1..Len(line) /\ n < n + 1
    BY <1>2
  <2>2. Lv[line[n][1]] <= Lv[line[n + 1][1]]
    BY <1>2, <2>1
  <2>3. far(c, n) = Lv[line[n][1]] /\ far(c, n + 1) = Lv[line[n + 1][1]]
    BY <1>6, <2>1
  <2> HIDE DEF far
  <2> QED BY <2>2, <2>3
<1> HIDE DEF far
<1> QED BY <1>1, <1>2, <1>5, <1>7

\* THE LINES OF DESCENT ARE EXACT: for every log, what q1 reports of a candidate
\* has every ancestor, each once, the nearer ones first (queries.rs, descent),
\* and what a continuation continues was chosen by its anchor at a time when
\* nobody had withdrawn it.
THEOREM LinesAreExact == EvSpec => []LinesExact
<1>1. EvInv /\ DetailInv => DescentExact
  BY DescentIsExact
<1> QED BY <1>1, EvInvAlways, DetailsAlways, LinesRunThroughDecisions, PTL DEF LinesExact

-----------------------------------------------------------------------------
(* The standing that is reported *)

\* The candidates among what a candidate reaches are its line.
LineReached == \A c \in Accepted("Candidate") : LineOf[c] = Reached(Distances, c) \intersect Accepted("Candidate")

LEMMA LineIsReached ==
  ASSUME EvInv, DetailInv
  PROVE  LineReached
<1>1. PICK N, K, dist : N = Len(log) /\ K = Accepted("Candidate") /\ dist = Distances
  OBVIOUS
<1>2. PICK Dir, B : Dir = [x \in K |-> Direct(x)] /\ B = [x \in K |-> BackEdges(x)]
  OBVIOUS
<1>3. Measured(dist, N, K, Dir)
  BY <1>1, <1>2, DescentMeasured
<1>4. N \in Nat /\ K \subseteq 1..N /\ \A d \in 1..N : d \notin K => dist[d] = {}
  BY <1>3 DEF Measured
<1>5. ASSUME NEW c \in K PROVE \A y : y \in Reached(dist, c) <=> y = c \/ \E k : <<y, k>> \in dist[c]
  <2>1. PICK Lv : Lv = LevelOf(dist, c)
    OBVIOUS
  <2>2. /\ c \in Reached(dist, c)
        /\ \A y, k : <<y, k>> \in dist[c] => y \in Reached(dist, c)
        /\ \A y \in Reached(dist, c) : y # c => <<y, Lv[y]>> \in dist[c]
    BY <1>3, <2>1, LevelSays
  <2> QED BY <2>2
<1>6. ASSUME NEW c \in K
      PROVE  /\ Dir[c] \subseteq 1..(c - 1) /\ Dir[c] \subseteq 1..N /\ Dir[c] \intersect K = StandingDeps(c)
             /\ c \in LineOf[c] /\ LineOf[c] \subseteq K
             /\ LineOf[c] = {c} \union UNION {LineOf[d] : d \in StandingDeps(c)}
  <2>1. Dir[c] = Direct(c) /\ c \in 1..N
    BY <1>2, <1>4
  <2>2. Direct(c) \subseteq 1..(c - 1) /\ Direct(c) \intersect K = StandingDeps(c)
    BY <1>1, DirectIs
  <2>3. LineSays /\ c \in LineOf[c] /\ LineOf[c] \subseteq K
    BY <1>1, LineIs, LineOfCandidates
  <2>4. 1..(c - 1) \subseteq 1..N
    BY <1>4, <2>1
  <2> QED BY <1>1, <2>1, <2>2, <2>3, <2>4 DEF LineSays
<1> DEFINE T == {c \in 1..N : c \in K => LineOf[c] = Reached(dist, c) \intersect K}
<1>7. ASSUME NEW c \in 1..N, \A j \in 1..(c - 1) : j \in T PROVE c \in T
  <2> SUFFICES ASSUME c \in K PROVE LineOf[c] = Reached(dist, c) \intersect K
    OBVIOUS
  <2>1. \A d \in StandingDeps(c) : d \in Dir[c] /\ d \in K /\ LineOf[d] = Reached(dist, d) \intersect K
    BY <1>6, <1>7
  <2>2. ASSUME NEW y \in LineOf[c] PROVE y \in Reached(dist, c)
    <3>1. CASE y = c
      BY <1>5, <3>1
    <3>2. CASE \E d \in StandingDeps(c) : y \in LineOf[d]
      <4>1. PICK d \in StandingDeps(c) : y \in LineOf[d]
        BY <3>2
      <4>2. d \in Dir[c] /\ d \in K /\ y \in Reached(dist, d)
        BY <2>1, <4>1
      <4>3. CASE y = d
        <5>1. <<y, 1>> \in dist[c]
          BY <1>3, <4>2, <4>3, DistSteps
        <5> QED BY <1>5, <5>1
      <4>4. CASE \E k : <<y, k>> \in dist[d]
        <5>1. PICK k : <<y, k>> \in dist[d]
          BY <4>4
        <5>2. \E j \in Nat : j <= k + 1 /\ <<y, j>> \in dist[c]
          BY <1>3, <4>2, <5>1, DistSteps
        <5> QED BY <1>5, <5>2
      <4> QED BY <1>5, <4>2, <4>3, <4>4
    <3> QED BY <1>6, <3>1, <3>2
  <2>3. ASSUME NEW y \in K, y \in Reached(dist, c) PROVE y \in LineOf[c]
    <3>1. CASE y = c
      BY <1>6, <3>1
    <3>2. CASE \E k : <<y, k>> \in dist[c]
      <4>1. PICK k : <<y, k>> \in dist[c]
        BY <3>2
      <4>2. CASE k = 1 /\ y \in Dir[c]
        <5>1. y \in StandingDeps(c) /\ y \in LineOf[y]
          BY <1>6, <4>2
        <5> QED BY <1>6, <5>1
      <4>3. CASE \E d \in Dir[c] : <<y, k - 1>> \in dist[d]
        <5>1. PICK d \in Dir[c] : <<y, k - 1>> \in dist[d]
          BY <4>3
        <5>2. d \in K
          BY <1>4, <1>6, <5>1
        <5>3. d \in StandingDeps(c)
          BY <1>6, <5>2
        <5>4. y \in Reached(dist, d)
          BY <1>5, <5>1, <5>2
        <5>5. y \in LineOf[d]
          BY <2>1, <5>3, <5>4
        <5> QED BY <1>6, <5>3, <5>5
      <4> QED BY <1>3, <4>1, <4>2, <4>3, DistSteps
    <3> QED BY <1>5, <2>3, <3>1, <3>2
  <2>4. LineOf[c] \subseteq K
    BY <1>6
  <2> QED BY <2>2, <2>3, <2>4
<1>8. \A c \in 1..N : c \in T
  <2> HIDE DEF T
  <2> QED BY <1>4, <1>7, PastInduction
<1>9. \A c \in K : LineOf[c] = Reached(dist, c) \intersect K
  BY <1>4, <1>8
<1> QED BY <1>1, <1>9 DEF LineReached

\* The line that is reported is the line.
LEMMA LineReported ==
  ASSUME EvInv, DetailInv, NEW c \in Accepted("Candidate")
  PROVE  {c} \union (AncestorsOf(Descent(c)) \intersect Accepted("Candidate")) = LineOf[c]
<1>1. PICK line, Lv : line = Descent(c) /\ Lv = LevelOf(Distances, c)
  OBVIOUS
<1>2. WholeLine(line, c, Reached(Distances, c), Lv)
  BY <1>1, DescentSays
<1>3. \A y : y \in AncestorsOf(line) <=> y \in Reached(Distances, c) /\ y # c
  BY <1>2 DEF WholeLine
<1>4. LineOf[c] = Reached(Distances, c) \intersect Accepted("Candidate")
  BY LineIsReached DEF LineReached
<1>5. c \in Reached(Distances, c)
  BY DEF Reached
<1> QED BY <1>1, <1>3, <1>4, <1>5

\* What q5 reports of a decision or of a candidate.
LEMMA NodesSay ==
  ASSUME EvInv, DetailInv
  PROVE  /\ \A c \in Accepted("Candidate") : Node(c).standing = "compromised" <=> ~Stands[c]
         /\ \A i : Node(i).retracted <=> i \in retracted_records
         /\ \A s \in Accepted("Selection") :
              /\ Standing(s).node.standing = "unsound" <=> s \in Unsound
              /\ s \in Unsound => Standing(s).restorations = Replacers(s)
<1>1. ASSUME NEW c \in Accepted("Candidate") PROVE Node(c).standing = "compromised" <=> ~Stands[c]
  <2>1. c \notin Accepted("Selection")
    BY DEF Accepted
  <2>2. Node(c).standing = IF Stands[c] THEN "sound" ELSE "compromised"
    BY <2>1 DEF Node
  <2> QED BY <2>2
<1>2. ASSUME NEW i PROVE Node(i).retracted <=> i \in retracted_records
  BY DEF Node
<1>3. ASSUME NEW s \in Accepted("Selection")
      PROVE  /\ Standing(s).node.standing = "unsound" <=> s \in Unsound
             /\ s \in Unsound => Standing(s).restorations = Replacers(s)
  <2>1. s \notin Accepted("Candidate")
    BY DEF Accepted
  <2>2. Standing(s).node.standing = Node(s).standing
    BY DEF Standing
  <2>3. Node(s).standing = IF s \in Unsound THEN "unsound" ELSE "sound"
    BY <2>1 DEF Node
  <2>4. Standing(s).restorations = IF s \in DOMAIN Restorations THEN Restorations[s] ELSE {}
    BY DEF Standing
  <2>5. DOMAIN Restorations = {u \in Unsound : Replacers(u) # {}}
        /\ \A u \in DOMAIN Restorations : Restorations[u] = Replacers(u)
    BY DEF Restorations
  <2> QED BY <2>2, <2>3, <2>4, <2>5
<1> QED BY <1>1, <1>2, <1>3

LEMMA SiblingsShare ==
  ASSUME EvInv, DetailInv
  PROVE  SiblingsShareFate
<1> SUFFICES ASSUME NEW c \in Accepted("Candidate"), NEW d \in Siblings(c)
             PROVE  /\ c \in Siblings(d)
                    /\ ({c, d} \intersect retracted_records = {} /\ log[c].body.parent = log[d].body.parent)
                         => Stands[c] = Stands[d]
  BY DEF SiblingsShareFate
<1>1. /\ d \in Accepted("Candidate") /\ d # c
      /\ log[c].body.basis # "Root" /\ log[d].body.basis = log[c].body.basis
      /\ Targets(log[d].refs, "Cause") = Targets(log[c].refs, "Cause")
  BY DEF Siblings
<1>2. c \in Siblings(d)
  BY <1>1 DEF Siblings
<1>3. ASSUME {c, d} \intersect retracted_records = {}, log[c].body.parent = log[d].body.parent
      PROVE  Stands[c] = Stands[d]
  <2>1. log[d].body.causes = log[c].body.causes
    BY <1>1 DEF DetailInv, CauseFact
  <2>2. StandingDeps(c) = StandingDeps(d)
    BY <1>1, <1>3, <2>1 DEF StandingDeps
  <2>3. Holds(c) <=> Holds(d)
    BY <1>1, <1>3, <2>1 DEF Holds
  <2>4. StandsSays
    BY StandsIs
  <2>5. Stands[c] <=> Stands[d]
    BY <1>1, <2>2, <2>3, <2>4 DEF StandsSays
  <2>6. Stands[c] \in BOOLEAN /\ Stands[d] \in BOOLEAN
    BY <1>1, <2>4 DEF StandsSays
  <2> QED BY <2>5, <2>6
<1> QED BY <1>2, <1>3

LEMMA StandingIsExplained ==
  ASSUME EvInv, DetailInv
  PROVE  StandingExplained
<1> DEFINE K == Accepted("Candidate")
           line(c) == {c} \union (AncestorsOf(Descent(c)) \intersect K)
           lost(d) == log[d].body.basis = "Continuation" /\
             \E s \in log[d].body.causes :
               /\ Standing(s).node.standing = "unsound"
               /\ \A t \in Standing(s).restorations : log[d].body.parent \notin log[t].body.selected
<1>1. ASSUME NEW d \in K PROVE Node(d).retracted \/ lost(d) <=> ~Holds(d)
  <2>1. Node(d).retracted <=> d \in retracted_records
    BY NodesSay
  <2>2. CASE log[d].body.basis = "Continuation"
    <3>1. PICK p, S : p = log[d].body.parent /\ S = log[d].body.causes
      OBVIOUS
    <3>2. S \subseteq Accepted("Selection")
      BY <2>2, <3>1 DEF EvInv, RecordFacts, ContinueFact
    <3>3. ASSUME NEW s \in S
          PROVE  (/\ Standing(s).node.standing = "unsound"
                  /\ \A t \in Standing(s).restorations : p \notin log[t].body.selected)
                   <=> ~AnchorSound(s, p)
      <4>1. /\ Standing(s).node.standing = "unsound" <=> s \in Unsound
            /\ s \in Unsound => Standing(s).restorations = Replacers(s)
        BY <3>2, NodesSay
      <4> QED BY <4>1 DEF AnchorSound
    <3>4. lost(d) <=> \E s \in S : ~AnchorSound(s, p)
      BY <2>2, <3>1, <3>3
    <3>5. Holds(d) <=> d \notin retracted_records /\ \A s \in S : AnchorSound(s, p)
      BY <2>2, <3>1 DEF Holds
    <3> HIDE DEF lost
    <3> QED BY <2>1, <3>4, <3>5
  <2>3. CASE log[d].body.basis # "Continuation"
    <3>1. ~lost(d)
      BY <2>3
    <3>2. Holds(d) <=> d \notin retracted_records
      BY <2>3 DEF Holds
    <3> HIDE DEF lost
    <3> QED BY <2>1, <3>1, <3>2
  <2> QED BY <2>2, <2>3
<1>2. ASSUME NEW c \in K
      PROVE  /\ line(c) = LineOf[c] /\ line(c) \subseteq K
             /\ Node(c).standing = "compromised" <=> ~Stands[c]
             /\ Stands[c] <=> \A d \in LineOf[c] : Holds(d)
  <2>1. line(c) = LineOf[c]
    BY LineReported
  <2>2. LineOf[c] \subseteq K
    BY LineOfCandidates
  <2>3. Node(c).standing = "compromised" <=> ~Stands[c]
    BY NodesSay
  <2>4. Stands[c] <=> \A d \in LineOf[c] : Holds(d)
    BY StandsIsByLine DEF StandsByLine
  <2> HIDE DEF line
  <2> QED BY <2>1, <2>2, <2>3, <2>4
<1>3. ASSUME NEW c \in K
      PROVE  (Node(c).standing = "compromised") <=> \E d \in line(c) : Node(d).retracted \/ lost(d)
  <2> HIDE DEF line, lost
  <2> QED BY <1>1, <1>2
<1>4. ASSUME NEW c \in K, c \in retracted_records, NEW d \in Descendants(c) PROVE Node(d).standing = "compromised"
  <2>1. d \in K /\ c \in AncestorsOf(Descent(d))
    BY DEF Descendants
  <2>2. c \in line(d)
    BY <2>1
  <2>3. c \in LineOf[d]
    <3> HIDE DEF line
    <3> QED BY <1>2, <2>1, <2>2
  <2>4. ~Holds(c)
    BY <1>4 DEF Holds
  <2> HIDE DEF line
  <2> QED BY <1>2, <2>1, <2>3, <2>4
<1>5. \A c \in Accepted("Candidate") \intersect retracted_records :
        \A d \in Descendants(c) : Node(d).standing = "compromised"
  BY <1>4
<1> QED BY <1>3, <1>5 DEF StandingExplained

\* THE STANDING REPORTED IS EXPLAINED: for every log, a candidate is reported
\* compromised exactly if its reported line has a reason for it, a retracted
\* candidate takes all its reported descendants with it, and siblings share
\* their fate (queries.rs, standing and descent; standing.rs).
THEOREM StandingIsReported == EvSpec => []StandingReported
<1>1. EvInv /\ DetailInv => StandingReported
  BY StandingIsExplained, SiblingsShare DEF StandingReported
<1> QED BY <1>1, EvInvAlways, DetailsAlways, PTL
=============================================================================
