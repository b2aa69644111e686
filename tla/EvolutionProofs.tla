-------------------------- MODULE EvolutionProofs --------------------------
(***************************************************************************)
(* Requirements, decisions and the approvals of them, for every set of        *)
(* actors, keys and objectives, every setting and every length of the log.    *)
(* The log, its taint and its evidence are those of GovernanceProofs.         *)
(***************************************************************************)
EXTENDS Queries, GovernanceProofs

-----------------------------------------------------------------------------
(* What accepted records say *)

\* An evaluation rests on the candidate and on the requirements that it names.
JudgeFact(e) ==
  /\ log[e].body.candidate \in Rests(log[e].refs)
  /\ log[e].body.requirements \subseteq Rests(log[e].refs)

\* A decision chooses among what it considers, and requires what it chooses,
\* which nobody had withdrawn.
DecideFact(s) ==
  /\ log[s].body.selected \subseteq log[s].body.considered
  /\ \A p \in log[s].body.selected :
       Ref("Require", p) \in log[s].refs /\ p < s /\ p \in Accepted("Candidate") /\ ~Withdrawn(p, s)

\* A continuation continues what its anchor chose.
ContinueFact(c) ==
  IF log[c].body.basis = "Continuation"
    THEN /\ log[c].body.causes # {}
         /\ \A s \in log[c].body.causes :
              s \in Accepted("Selection") /\ s < c /\ log[c].body.parent \in log[s].body.selected
    ELSE log[c].body.parent = None

RecordFacts ==
  /\ \A e \in Accepted("Evaluation") : JudgeFact(e)
  /\ \A s \in Accepted("Selection") : DecideFact(s)
  /\ \A c \in Accepted("Candidate") : ContinueFact(c)

\* They say it still after a step, and the new record must.
LEMMA RecordsKeep ==
  ASSUME LogInv, RecordFacts, NEW K, Adds(K), NEW n, n = NextId,
         "Evaluation" \in K => JudgeFact(n)',
         "Selection" \in K => DecideFact(n)',
         "Candidate" \in K => ContinueFact(n)'
  PROVE  RecordFacts'
<1>1. \A k : \A i \in Accepted(k) : log'[i] = log[i] /\ i \in Accepted(k)' /\ i \in 1..(Len(log) + 1)
  BY AddedFacts
<1>2. \A k : \A i \in Accepted(k)' : i \in Accepted(k) \/ (i = n /\ k \in K)
  BY AddedFacts
<1>3. \A e \in Accepted("Evaluation") : JudgeFact(e)'
  BY <1>1 DEF RecordFacts, JudgeFact
<1>4. \A s \in Accepted("Selection") : DecideFact(s)'
  <2> SUFFICES ASSUME NEW s \in Accepted("Selection") PROVE DecideFact(s)'
    OBVIOUS
  <2>1. DecideFact(s) /\ log'[s] = log[s] /\ s \in 1..(Len(log) + 1)
    BY <1>1 DEF RecordFacts
  <2>2. \A t : Withdrawn(t, s)' <=> Withdrawn(t, s)
    BY <2>1, PastSame
  <2>3. \A p \in log'[s].body.selected :
          Ref("Require", p) \in log'[s].refs /\ p < s /\ p \in Accepted("Candidate")' /\ ~Withdrawn(p, s)'
    <3> SUFFICES ASSUME NEW p \in log'[s].body.selected
                 PROVE  Ref("Require", p) \in log'[s].refs /\ p < s /\ p \in Accepted("Candidate")' /\ ~Withdrawn(p, s)'
      OBVIOUS
    <3>1. Ref("Require", p) \in log[s].refs /\ p < s /\ p \in Accepted("Candidate") /\ ~Withdrawn(p, s)
      BY <2>1 DEF DecideFact
    <3> QED BY <1>1, <2>1, <2>2, <3>1
  <2>4. log'[s].body.selected \subseteq log'[s].body.considered
    BY <2>1 DEF DecideFact
  <2> QED BY <2>3, <2>4 DEF DecideFact
<1>5. \A c \in Accepted("Candidate") : ContinueFact(c)'
  <2> SUFFICES ASSUME NEW c \in Accepted("Candidate") PROVE ContinueFact(c)'
    OBVIOUS
  <2>1. ContinueFact(c) /\ log'[c] = log[c]
    BY <1>1 DEF RecordFacts
  <2>2. CASE log[c].body.basis = "Continuation"
    BY <1>1, <2>1, <2>2 DEF ContinueFact
  <2>3. CASE log[c].body.basis # "Continuation"
    BY <2>1, <2>3 DEF ContinueFact
  <2> QED BY <2>2, <2>3
<1> QED BY <1>2, <1>3, <1>4, <1>5 DEF RecordFacts

-----------------------------------------------------------------------------
(* Requirements and their keys *)

\* A requirement knows its request and its key, and every key that is taken
\* belongs to a requirement that was not withdrawn.
DemandInv ==
  /\ requirement_keys = [r \in Ids |-> requirement_keys[r]]
  /\ requirement_index = [i \in Ids |-> IF i \in Accepted("Requirement")
                                          THEN <<log[i].body.request, log[i].body.key>> ELSE NoKey]
  /\ \A q \in Accepted("Requirement") : log[q].body.request \in Ids
  /\ \A r \in Ids : /\ requirement_keys[r] \subseteq Keys
                    /\ requirement_keys[r] \subseteq {log[q].body.key : q \in LiveRequirements(r)}

\* A key that is taken has its requirement.
LEMMA KeyHolder ==
  ASSUME DemandInv, NEW r \in Ids, NEW k \in requirement_keys[r]
  PROVE  /\ k \in Keys
         /\ \E q \in Accepted("Requirement") :
              log[q].body.request = r /\ log[q].body.key = k /\ q \notin retracted_records
<1> QED BY DEF DemandInv, LiveRequirements, WorkFor

LEMMA OtherDemands ==
  ASSUME LogInv, DemandInv, NEW K, Adds(K), "Requirement" \notin K, UNCHANGED demands,
         retracted_records' = retracted_records
  PROVE  DemandInv'
<1>1. \A i : i \in Accepted("Requirement")' <=> i \in Accepted("Requirement")
  BY AddedFacts
<1>2. \A q \in Accepted("Requirement") : log'[q] = log[q]
  BY AddedFacts
<1>3. requirement_keys' = requirement_keys /\ requirement_index' = requirement_index
  BY DEF demands
<1>4. requirement_index' = [i \in Ids |-> IF i \in Accepted("Requirement")'
                                          THEN <<log'[i].body.request, log'[i].body.key>> ELSE NoKey]
  BY <1>1, <1>2, <1>3 DEF DemandInv
<1>5. \A r \in Ids : requirement_keys'[r] \subseteq {log'[q].body.key : q \in LiveRequirements(r)'}
  <2> SUFFICES ASSUME NEW r \in Ids, NEW k \in requirement_keys'[r]
               PROVE  k \in {log'[q].body.key : q \in LiveRequirements(r)'}
    OBVIOUS
  <2>1. PICK q \in Accepted("Requirement") :
          log[q].body.request = r /\ log[q].body.key = k /\ q \notin retracted_records
    BY <1>3, KeyHolder
  <2> QED BY <1>1, <1>2, <2>1 DEF LiveRequirements, WorkFor
<1> QED BY <1>1, <1>2, <1>3, <1>4, <1>5 DEF DemandInv

LEMMA RequirementDemands ==
  ASSUME LedgerInv, DemandInv, NEW a, NEW th, NEW req, NEW key \in Keys, NEW required,
         CommitRequirement(a, th, req, key, required)
  PROVE  DemandInv'
<1> DEFINE body == [thread |-> th, request |-> req, key |-> key, required |-> required, provenance |-> ProvenanceOf(a)]
<1>1. Accept("Requirement", a, body, CauseRefs({req})) /\ body.request = req /\ body.key = key
  BY Zenon DEF CommitRequirement
<1> HIDE DEF body
<1>2. /\ Adds({"Requirement"}) /\ log'[NextId].body = body /\ NextId \in Ids
  BY <1>1, AcceptAdds DEF LedgerInv
<1>3. /\ requirement_keys' = [requirement_keys EXCEPT ![req] = @ \union {key}]
      /\ requirement_index' = [requirement_index EXCEPT ![NextId] = <<req, key>>]
      /\ req \in Accepted("Request") /\ retracted_records' = retracted_records
  BY DEF CommitRequirement, Claims
<1>4. LogInv
  BY DEF LedgerInv
<1>5. \A i : i \in Accepted("Requirement")' <=> i \in Accepted("Requirement") \/ i = NextId
  BY <1>2, <1>4, AddedFacts
<1>6. \A q \in Accepted("Requirement") : log'[q] = log[q] /\ q # NextId
  BY <1>2, <1>4, AddedFacts
<1>7. req \in Ids /\ NextId \notin retracted_records
  <2>1. req \in 1..Len(log)
    BY <1>2, <1>3, <1>4, AddedFacts
  <2>2. retracted_records \subseteq 1..Len(log)
    BY DEF LedgerInv, LogInv, TaintInv
  <2>3. NextId \notin 1..Len(log)
    BY <1>4 DEF LogInv, NextId
  <2>4. Len(log) \in 0..MaxRecords
    BY <1>4 DEF LogInv
  <2>5. req \in Ids
    BY <2>1, <2>4, LedgerConstants DEF Ids
  <2> QED BY <2>2, <2>3, <2>5
<1>8. requirement_index' = [i \in Ids |-> IF i \in Accepted("Requirement")'
                                          THEN <<log'[i].body.request, log'[i].body.key>> ELSE NoKey]
  <2> DEFINE new == [i \in Ids |-> IF i \in Accepted("Requirement")'
                                    THEN <<log'[i].body.request, log'[i].body.key>> ELSE NoKey]
  <2>1. requirement_index = [i \in Ids |-> IF i \in Accepted("Requirement")
                                            THEN <<log[i].body.request, log[i].body.key>> ELSE NoKey]
    BY DEF DemandInv
  <2>2. \A i \in Ids : requirement_index'[i] = new[i]
    <3> SUFFICES ASSUME NEW i \in Ids PROVE requirement_index'[i] = new[i]
      OBVIOUS
    <3>1. CASE i = NextId
      BY <1>1, <1>2, <1>3, <1>5, <2>1, <3>1
    <3>2. CASE i # NextId
      BY <1>3, <1>5, <1>6, <2>1, <3>2
    <3> QED BY <3>1, <3>2
  <2>3. requirement_index' = [i \in Ids |-> requirement_index'[i]]
    BY <1>3, <2>1
  <2> QED BY <2>2, <2>3
<1>9. \A q \in Accepted("Requirement")' : log'[q].body.request \in Ids
  BY <1>1, <1>2, <1>5, <1>6, <1>7 DEF DemandInv
<1>10. \A r \in Ids : requirement_keys'[r] = IF r = req THEN requirement_keys[r] \union {key} ELSE requirement_keys[r]
  BY <1>3, <1>7 DEF DemandInv
<1>11. \A r \in Ids : /\ requirement_keys'[r] \subseteq Keys
                      /\ requirement_keys'[r] \subseteq {log'[q].body.key : q \in LiveRequirements(r)'}
  <2> SUFFICES ASSUME NEW r \in Ids, NEW k \in requirement_keys'[r]
               PROVE  k \in Keys /\ k \in {log'[q].body.key : q \in LiveRequirements(r)'}
    OBVIOUS
  <2>1. CASE k \in requirement_keys[r]
    <3>1. PICK q \in Accepted("Requirement") :
            log[q].body.request = r /\ log[q].body.key = k /\ q \notin retracted_records
      BY <2>1, KeyHolder
    <3>2. q \in Accepted("Requirement")' /\ log'[q] = log[q]
      BY <1>5, <1>6
    <3>3. q \in LiveRequirements(r)'
      BY <1>3, <3>1, <3>2 DEF LiveRequirements, WorkFor
    <3>4. k \in Keys
      BY <2>1 DEF DemandInv
    <3> QED BY <3>1, <3>2, <3>3, <3>4
  <2>2. CASE k \notin requirement_keys[r]
    <3>1. r = req /\ k = key
      BY <1>10, <2>2
    <3>2. PICK n : n = NextId
      OBVIOUS
    <3>3. n \in LiveRequirements(r)'
      BY <1>1, <1>2, <1>3, <1>5, <1>7, <3>1, <3>2 DEF LiveRequirements, WorkFor
    <3>4. log'[n].body.key = k
      BY <1>1, <1>2, <3>1, <3>2
    <3> QED BY <3>1, <3>3, <3>4
  <2> QED BY <2>1, <2>2
<1>12. requirement_keys' = [r \in Ids |-> requirement_keys'[r]]
  BY <1>3 DEF DemandInv
<1> QED BY <1>8, <1>9, <1>11, <1>12 DEF DemandInv

LEMMA RetractionDemands ==
  ASSUME LogInv, DemandInv, NEW target \in Ids, Adds({"Retraction"}),
         retracted_records' = retracted_records \union {target}, Release(target)
  PROVE  DemandInv'
<1>1. \A i : i \in Accepted("Requirement")' <=> i \in Accepted("Requirement")
  BY AddedFacts
<1>2. \A q \in Accepted("Requirement") : log'[q] = log[q]
  BY AddedFacts
<1>3. requirement_index' = requirement_index
  BY DEF Release
<1>4. requirement_index' = [i \in Ids |-> IF i \in Accepted("Requirement")'
                                          THEN <<log'[i].body.request, log'[i].body.key>> ELSE NoKey]
  BY <1>1, <1>2, <1>3 DEF DemandInv
<1>5. /\ requirement_keys' = [r \in Ids |-> requirement_keys'[r]]
      /\ \A r \in Ids : \A k \in requirement_keys'[r] :
           /\ k \in requirement_keys[r]
           /\ target \in Accepted("Requirement") => log[target].body.request # r \/ log[target].body.key # k
  <2>1. CASE target \in Accepted("Requirement")
    <3>1. requirement_index[target] = <<log[target].body.request, log[target].body.key>>
      BY <2>1 DEF DemandInv
    <3>2. /\ requirement_index[target] # NoKey
          /\ requirement_index[target][1] = log[target].body.request
          /\ requirement_index[target][2] = log[target].body.key
      BY <3>1 DEF NoKey
    <3>3. requirement_keys' = [requirement_keys EXCEPT ![log[target].body.request] = @ \ {log[target].body.key}]
      BY <3>2 DEF Release
    <3>4. log[target].body.request \in Ids
      BY <2>1 DEF DemandInv
    <3>5. requirement_keys = [r \in Ids |-> requirement_keys[r]]
      BY DEF DemandInv
    <3> QED BY <2>1, <3>3, <3>4, <3>5
  <2>2. CASE target \notin Accepted("Requirement")
    <3>1. requirement_index[target] = NoKey
      BY <2>2 DEF DemandInv
    <3>2. requirement_keys' = requirement_keys
      BY <3>1 DEF Release
    <3> QED BY <2>2, <3>2 DEF DemandInv
  <2> QED BY <2>1, <2>2
<1>6. \A r \in Ids : /\ requirement_keys'[r] \subseteq Keys
                     /\ requirement_keys'[r] \subseteq {log'[q].body.key : q \in LiveRequirements(r)'}
  <2> SUFFICES ASSUME NEW r \in Ids, NEW k \in requirement_keys'[r]
               PROVE  k \in Keys /\ k \in {log'[q].body.key : q \in LiveRequirements(r)'}
    OBVIOUS
  <2>1. PICK q \in Accepted("Requirement") :
          log[q].body.request = r /\ log[q].body.key = k /\ q \notin retracted_records
    BY <1>5, KeyHolder
  <2>2. q # target
    BY <1>5, <2>1
  <2>3. q \in LiveRequirements(r)'
    BY <1>1, <1>2, <2>1, <2>2 DEF LiveRequirements, WorkFor
  <2>4. k \in Keys
    BY <1>5 DEF DemandInv
  <2> QED BY <1>2, <2>1, <2>3, <2>4
<1>7. \A q \in Accepted("Requirement")' : log'[q].body.request \in Ids
  BY <1>1, <1>2 DEF DemandInv
<1> QED BY <1>4, <1>5, <1>6, <1>7 DEF DemandInv

-----------------------------------------------------------------------------
(* Approvals of decisions *)

\* The records that accepted decisions require.
Required == {p \in 1..Len(log) : \E j \in Accepted("Selection") : Ref("Require", p) \in log[j].refs}

\* An approval that can be used is the newest for its decision, not withdrawn
\* and not required by a decision yet; and it knows its decision.
MandateInv ==
  /\ selection_approval_index = [i \in Ids |-> selection_approval_index[i]]
  /\ \A i \in Ids : selection_approval_index[i] # NoKey => i \in Accepted("Approval")
  /\ \A h \in DOMAIN selection_approvals : h # NoKey /\ selection_approval_index[selection_approvals[h]] = h
  /\ \A h : ApprovalOf(h) = SlotOf(Apps("exact", h), retracted_records \union Required)
  /\ \A h \in DOMAIN selection_approvals : selection_approvals[h] # None

\* What a step adds to them.
LEMMA NewRequired ==
  ASSUME LogInv, LogInv', NEW K, Adds(K)
  PROVE  /\ Required \subseteq 1..Len(log)
         /\ IF "Selection" \in K THEN Required' = Required \union NewlyUsed ELSE Required' = Required
<1>1. \A p : p \in Required <=> p \in 1..Len(log) /\ \E j \in Accepted("Selection") : Ref("Require", p) \in log[j].refs
  BY DEF Required
<1>2. \A p : p \in Required' <=> p \in 1..Len(log') /\ \E j \in Accepted("Selection")' : Ref("Require", p) \in log'[j].refs
  BY DEF Required
<1>3. \A j \in Accepted("Selection")' : \A p : Ref("Require", p) \in log'[j].refs => p \in 1..Len(log)
  <2> SUFFICES ASSUME NEW j \in Accepted("Selection")', NEW p, Ref("Require", p) \in log'[j].refs
               PROVE  p \in 1..Len(log)
    OBVIOUS
  <2>1. j \in accepted_records'
    BY DEF Accepted
  <2>2. p \in Rests(log'[j].refs)
    BY DEF Rests, Targets, Ref
  <2>3. p \in 1..(j - 1)
    BY <2>1, <2>2 DEF LogInv
  <2>4. j \in 1..(Len(log) + 1)
    BY AddedFacts
  <2> QED BY AddedFacts, <2>3, <2>4
<1>4. \A p : p \in NewlyUsed <=> p \in 1..Len(log) /\ Ref("Require", p) \in log'[NextId].refs
  BY DEF NewlyUsed
<1>5. \A p : p \in Required' <=> p \in Required \/ (p \in NewlyUsed /\ "Selection" \in K)
  BY AddedFacts, <1>1, <1>2, <1>3, <1>4
<1>6. Required \subseteq 1..Len(log)
  BY <1>1
<1> DEFINE new == "Selection" \in K
<1> HIDE DEF new
<1>7. \A p : p \in Required' <=> p \in Required \/ (p \in NewlyUsed /\ new)
  BY <1>5 DEF new
<1>8. IF new THEN Required' = Required \union NewlyUsed ELSE Required' = Required
  BY <1>7
<1> QED BY <1>6, <1>8 DEF new

\* What can be used is in the log.
LEMMA MandateHeld ==
  ASSUME LedgerInv, MandateInv
  PROVE  /\ Len(log) \in Nat /\ retracted_records \in SUBSET (1..Len(log)) /\ Required \in SUBSET (1..Len(log))
         /\ \A h : Apps("exact", h) \in SUBSET (1..Len(log))
         /\ \A h : /\ ApprovalOf(h) \in 0..Len(log)
                   /\ ApprovalOf(h) # None => /\ ApprovalOf(h) = Latest(Apps("exact", h)) /\ ApprovalOf(h) \in Apps("exact", h)
                                              /\ ApprovalOf(h) \notin retracted_records \union Required
                                              /\ h \in DOMAIN selection_approvals /\ ApprovalOf(h) = selection_approvals[h]
                                              /\ selection_approval_index[ApprovalOf(h)] = h
         /\ \A h \in DOMAIN selection_approvals : ApprovalOf(h) = selection_approvals[h] /\ ApprovalOf(h) # None
<1>1. Len(log) \in Nat /\ retracted_records \in SUBSET (1..Len(log)) /\ Required \in SUBSET (1..Len(log))
  <2>1. accepted_records \subseteq 1..Len(log) /\ Len(log) \in Nat
    BY DEF LedgerInv, LogInv
  <2>2. retracted_records \subseteq accepted_records
    BY DEF LedgerInv, TaintInv
  <2> QED BY <2>1, <2>2 DEF Required
<1>2. \A h : Apps("exact", h) \in SUBSET (1..Len(log))
  <2>1. Accepted("Approval") \subseteq 1..Len(log)
    BY DEF LedgerInv, LogInv, Accepted
  <2> QED BY <2>1 DEF Apps
<1>3. \A h \in DOMAIN selection_approvals : ApprovalOf(h) = selection_approvals[h] /\ ApprovalOf(h) # None
  BY DEF MandateInv, ApprovalOf
<1>4. ASSUME NEW h
      PROVE  /\ ApprovalOf(h) \in 0..Len(log)
             /\ ApprovalOf(h) # None => /\ ApprovalOf(h) = Latest(Apps("exact", h)) /\ ApprovalOf(h) \in Apps("exact", h)
                                        /\ ApprovalOf(h) \notin retracted_records \union Required
                                        /\ h \in DOMAIN selection_approvals /\ ApprovalOf(h) = selection_approvals[h]
                                        /\ selection_approval_index[ApprovalOf(h)] = h
  <2>1. ApprovalOf(h) = SlotOf(Apps("exact", h), retracted_records \union Required)
    BY DEF MandateInv
  <2>2. /\ ApprovalOf(h) \in 0..Len(log)
        /\ ApprovalOf(h) # None => /\ ApprovalOf(h) = Latest(Apps("exact", h)) /\ ApprovalOf(h) \in Apps("exact", h)
                                   /\ ApprovalOf(h) \notin retracted_records \union Required
    <3> DEFINE S == Apps("exact", h)
               gone == retracted_records \union Required
    <3>1. S \in SUBSET (1..Len(log)) /\ ApprovalOf(h) = SlotOf(S, gone)
      BY <1>2, <2>1
    <3> HIDE DEF S, gone
    <3>2. /\ ApprovalOf(h) \in 0..Len(log)
          /\ ApprovalOf(h) # None => ApprovalOf(h) = Latest(S) /\ ApprovalOf(h) \in S /\ ApprovalOf(h) \notin gone
      <4>1. /\ SlotOf(S, gone) \in 0..Len(log)
            /\ SlotOf(S, gone) # None => /\ SlotOf(S, gone) \in S /\ SlotOf(S, gone) = Latest(S)
                                         /\ SlotOf(S, gone) \notin gone
        BY <1>1, <3>1, SlotHolder
      <4> QED BY <3>1, <4>1
    <3> QED BY <3>2 DEF S, gone
  <2>3. ApprovalOf(h) # None => h \in DOMAIN selection_approvals /\ ApprovalOf(h) = selection_approvals[h]
    BY DEF ApprovalOf
  <2>4. \A x \in DOMAIN selection_approvals : selection_approval_index[selection_approvals[x]] = x
    BY DEF MandateInv
  <2> QED BY <2>2, <2>3, <2>4
<1> QED BY <1>1, <1>2, <1>3, <1>4

LEMMA OtherMandates ==
  ASSUME LedgerInv, LedgerInv', MandateInv, NEW K, Adds(K), "Selection" \notin K, "Approval" \notin K,
         UNCHANGED mandates, retracted_records' = retracted_records
  PROVE  MandateInv'
<1>1. LogInv /\ LogInv'
  BY DEF LedgerInv
<1>2. Required' = Required /\ \A f, k : Apps(f, k)' = Apps(f, k)
  BY <1>1, NewRequired, NewApps
<1>3. \A i \in Accepted("Approval") : i \in Accepted("Approval")'
  BY <1>1, AddedFacts
<1>4. \A h : ApprovalOf(h)' = SlotOf(Apps("exact", h)', retracted_records' \union Required')
  BY <1>2 DEF MandateInv, mandates, ApprovalOf
<1>5. \A h : ApprovalOf(h)' = SlotOf(Apps("exact", h), retracted_records \union Required)'
  BY <1>4 DEF SlotOf, Latest
<1> QED BY <1>3, <1>5 DEF MandateInv, mandates

LEMMA ApprovalMandates ==
  ASSUME LedgerInv, LedgerInv', MandateInv, NEW a, NEW hash, NEW actor, NEW sc, NEW expiry, NEW repl,
         hash # NoKey, ApproveSelection(a, hash, actor, sc, expiry, repl)
  PROVE  MandateInv'
<1> DEFINE body == [form |-> "exact", key |-> hash, actor |-> actor, scope |-> sc, expiry |-> expiry]
<1>1. Accept("Approval", a, body, repl) /\ body.form = "exact" /\ body.key = hash
  BY DEF ApproveSelection
<1> HIDE DEF body
<1>2. LogInv /\ LogInv'
  BY DEF LedgerInv
<1>3. /\ Adds({"Approval"}) /\ log'[NextId].body = body /\ NextId \in Ids
  BY <1>1, <1>2, AcceptAdds
<1>4. /\ selection_approval_index' = [selection_approval_index EXCEPT ![NextId] = hash]
      /\ selection_approvals' = [h \in DOMAIN selection_approvals \union {hash} |->
                                   IF h = hash THEN NextId ELSE selection_approvals[h]]
      /\ retracted_records' = retracted_records
  BY DEF ApproveSelection, Claims
<1>5. /\ Required' = Required
      /\ Apps("exact", hash)' = Apps("exact", hash) \union {NextId}
      /\ \A h : h # hash => Apps("exact", h)' = Apps("exact", h)
  <2>1. Required' = Required
    BY <1>2, <1>3, NewRequired
  <2>2. Apps("exact", hash)' = Apps("exact", hash) \union {NextId}
    BY <1>1, <1>2, <1>3, NewApps
  <2>3. \A h : h # hash => Apps("exact", h)' = Apps("exact", h)
    BY <1>1, <1>2, <1>3, NewApps
  <2> QED BY <2>1, <2>2, <2>3
<1>6. /\ Len(log) \in Nat /\ retracted_records \in SUBSET (1..Len(log)) /\ Required \in SUBSET (1..Len(log))
      /\ Apps("exact", hash) \in SUBSET (1..Len(log))
      /\ \A h \in DOMAIN selection_approvals : selection_approvals[h] \in 0..Len(log)
  BY MandateHeld
<1>7. NextId = Len(log) + 1 /\ NextId # None
  BY <1>6 DEF NextId, None
<1>8. \A h : ApprovalOf(h)' = SlotOf(Apps("exact", h)', retracted_records' \union Required')
  <2> SUFFICES ASSUME NEW h PROVE ApprovalOf(h)' = SlotOf(Apps("exact", h)', retracted_records' \union Required')
    OBVIOUS
  <2>1. CASE h = hash
    <3>1. ApprovalOf(h)' = NextId
      BY <1>4, <2>1 DEF ApprovalOf
    <3> DEFINE S == Apps("exact", hash)
               gone == retracted_records \union Required
    <3>2. S \in SUBSET (1..Len(log)) /\ gone \in SUBSET (1..Len(log))
      BY <1>6
    <3> HIDE DEF S, gone
    <3>3. SlotOf(S \union {NextId}, gone) = NextId
      BY <1>6, <1>7, <3>2, SlotTaken
    <3> QED BY <1>4, <1>5, <2>1, <3>1, <3>3 DEF S, gone
  <2>2. CASE h # hash
    <3>1. ApprovalOf(h)' = ApprovalOf(h)
      BY <1>4, <2>2 DEF ApprovalOf
    <3>2. ApprovalOf(h) = SlotOf(Apps("exact", h), retracted_records \union Required)
      BY DEF MandateInv
    <3> QED BY <1>4, <1>5, <2>2, <3>1, <3>2
  <2> QED BY <2>1, <2>2
<1>9. \A h : ApprovalOf(h)' = SlotOf(Apps("exact", h), retracted_records \union Required)'
  BY <1>8 DEF SlotOf, Latest
<1>10. \A i : i \in Accepted("Approval")' <=> i \in Accepted("Approval") \/ i = NextId
  BY <1>2, <1>3, AddedFacts
<1>11. /\ selection_approval_index' = [i \in Ids |-> selection_approval_index'[i]]
       /\ \A i \in Ids : selection_approval_index'[i] # NoKey => i \in Accepted("Approval")'
  BY <1>3, <1>4, <1>10 DEF MandateInv
<1>12. \A h \in DOMAIN selection_approvals' :
         /\ h # NoKey /\ selection_approval_index'[selection_approvals'[h]] = h
         /\ selection_approvals'[h] # None
  <2> SUFFICES ASSUME NEW h \in DOMAIN selection_approvals'
               PROVE  /\ h # NoKey /\ selection_approval_index'[selection_approvals'[h]] = h
                      /\ selection_approvals'[h] # None
    OBVIOUS
  <2>1. selection_approval_index = [i \in Ids |-> selection_approval_index[i]]
    BY DEF MandateInv
  <2>2. CASE h = hash
    BY <1>3, <1>4, <1>7, <2>1, <2>2
  <2>3. CASE h # hash
    <3>1. h \in DOMAIN selection_approvals /\ selection_approvals'[h] = selection_approvals[h]
      BY <1>4, <2>3
    <3>2. h # NoKey /\ selection_approval_index[selection_approvals[h]] = h /\ selection_approvals[h] # None
      BY <3>1 DEF MandateInv
    <3>3. selection_approvals[h] # NextId
      BY <1>6, <1>7, <3>1
    <3>4. selection_approval_index'[selection_approvals[h]] = selection_approval_index[selection_approvals[h]]
      BY <1>4, <2>1, <3>3
    <3> QED BY <3>1, <3>2, <3>4
  <2> QED BY <2>2, <2>3
<1> QED BY <1>9, <1>11, <1>12 DEF MandateInv

LEMMA RetractionMandates ==
  ASSUME LedgerInv, LedgerInv', MandateInv, NEW target \in Ids, Adds({"Retraction"}),
         retracted_records' = retracted_records \union {target}, Revoke(target)
  PROVE  MandateInv'
<1>1. LogInv /\ LogInv'
  BY DEF LedgerInv
<1>2. Required' = Required /\ \A f, k : Apps(f, k)' = Apps(f, k)
  BY <1>1, NewRequired, NewApps
<1>3. target # None
  BY LedgerConstants DEF Ids, None
<1>4. selection_approval_index' = selection_approval_index
  BY DEF Revoke
<1>5. /\ \A h : ApprovalOf(h)' = IF ApprovalOf(h) = target THEN None ELSE ApprovalOf(h)
      /\ \A h \in DOMAIN selection_approvals' :
           h \in DOMAIN selection_approvals /\ selection_approvals'[h] = selection_approvals[h]
  <2> DEFINE hash == selection_approval_index[target]
  <2>1. \A h : ApprovalOf(h) = target => h = hash /\ h # NoKey
    <3> SUFFICES ASSUME NEW h, ApprovalOf(h) = target PROVE h = hash /\ h # NoKey
      OBVIOUS
    <3>1. h \in DOMAIN selection_approvals /\ selection_approval_index[target] = h
      BY <1>3, MandateHeld
    <3> QED BY <3>1 DEF MandateInv
  <2>2. CASE hash # NoKey /\ ApprovalOf(hash) = target
    <3>1. selection_approvals' = Without(hash)
      BY <2>2 DEF Revoke
    <3> HIDE DEF hash
    <3>2. \A h : ApprovalOf(h)' = IF h = hash THEN None ELSE ApprovalOf(h)
      BY <3>1 DEF ApprovalOf, Without
    <3>3. \A h : h = hash <=> ApprovalOf(h) = target
      BY <2>1, <2>2
    <3> QED BY <3>1, <3>2, <3>3 DEF Without
  <2>3. CASE ~(hash # NoKey /\ ApprovalOf(hash) = target)
    <3>1. selection_approvals' = selection_approvals
      BY <2>3 DEF Revoke
    <3>2. \A h : ApprovalOf(h) # target
      BY <2>1, <2>3
    <3> QED BY <3>1, <3>2 DEF ApprovalOf
  <2> QED BY <2>2, <2>3
<1>6. \A h : ApprovalOf(h)' = SlotOf(Apps("exact", h)', retracted_records' \union Required')
  <2> SUFFICES ASSUME NEW h PROVE ApprovalOf(h)' = SlotOf(Apps("exact", h)', retracted_records' \union Required')
    OBVIOUS
  <2> DEFINE S == Apps("exact", h)
             gone == retracted_records \union Required
  <2>1. S \in SUBSET (1..Len(log)) /\ ApprovalOf(h) = SlotOf(S, gone) /\ Len(log) \in Nat
    BY MandateHeld DEF MandateInv
  <2>2. retracted_records' \union Required' = gone \union {target} /\ Apps("exact", h)' = S
    BY <1>2
  <2> HIDE DEF S, gone
  <2>3. SlotOf(S, gone \union {target}) = IF SlotOf(S, gone) \in {target} THEN None ELSE SlotOf(S, gone)
    BY <2>1, SlotGone
  <2> QED BY <1>5, <2>1, <2>2, <2>3
<1>7. \A h : ApprovalOf(h)' = SlotOf(Apps("exact", h), retracted_records \union Required)'
  BY <1>6 DEF SlotOf, Latest
<1>8. \A i \in Accepted("Approval") : i \in Accepted("Approval")'
  BY <1>1, AddedFacts
<1> QED BY <1>4, <1>5, <1>7, <1>8 DEF MandateInv

-----------------------------------------------------------------------------
(* A decision *)

\* The body of a selection says decision d.
Carries(body, d) ==
  body.objective = d.objective /\ body.considered = d.considered /\ body.selected = d.selected

\* The parts of a decision that is committed, by name.
LEMMA SelectionParts ==
  ASSUME LedgerInv, MandateInv, NEW a, NEW th, NEW d, NEW replaced, NEW uses, \A r \in uses : r.type = "Use",
         replaced \in {None} \union Accepted("Selection"), CommitSelection(a, th, d, replaced, uses)
  PROVE  \E hash, approval, refs, body :
           /\ hash = SubjectHash(a, replaced, d)
           /\ approval = IF SelectionRequiresApproval THEN ApprovalOf(hash) ELSE None
           /\ Accept("Selection", a, body, refs) /\ Carries(body, d) /\ Claims(refs) /\ Decidable(d, uses)
           /\ SelectionRequiresApproval => Mandated(approval, a)
           /\ IF approval # None
                THEN /\ selection_approvals' = Without(hash)
                     /\ selection_approval_index' = [selection_approval_index EXCEPT ![approval] = NoKey]
                ELSE UNCHANGED mandates
           /\ \A p : Ref("Require", p) \in refs <=> p \in (d.selected \union {approval}) \ {None}
           /\ Targets(refs, "Replace") = {replaced} \ {None}
<1> DEFINE repl == IF replaced = None THEN {} ELSE {Ref("Replace", replaced)}
           hash == SubjectHash(a, replaced, d)
           approval == IF SelectionRequiresApproval THEN ApprovalOf(hash) ELSE None
           ids == (d.selected \union {approval}) \ {None}
           refs == uses \union repl \union RequireRefs(ids)
           body == [thread |-> th, objective |-> d.objective, considered |-> d.considered, selected |-> d.selected]
<1>1. /\ Accept("Selection", a, body, refs) /\ Carries(body, d) /\ Claims(refs) /\ Decidable(d, uses)
      /\ SelectionRequiresApproval => Mandated(approval, a)
      /\ IF approval # None
           THEN /\ selection_approvals' = Without(hash)
                /\ selection_approval_index' = [selection_approval_index EXCEPT ![approval] = NoKey]
           ELSE UNCHANGED mandates
  BY DEF CommitSelection, Carries
<1>2. \A p : Ref("Require", p) \in refs <=> p \in ids
  <2> HIDE DEF ids
  <2>1. \A p : Ref("Require", p) \notin uses
    BY DEF Ref
  <2>2. \A p : Ref("Require", p) \notin repl
    BY DEF Ref
  <2>3. \A p : Ref("Require", p) \in RequireRefs(ids) <=> p \in ids
    BY DEF Ref, RequireRefs
  <2> QED BY <2>1, <2>2, <2>3
<1>3. Targets(refs, "Replace") = {replaced} \ {None}
  <2> HIDE DEF ids
  <2>1. \A r \in uses \union RequireRefs(ids) : r.type # "Replace"
    BY DEF Ref, RequireRefs
  <2>2. Ref("Replace", replaced).type = "Replace" /\ Ref("Replace", replaced).target = replaced
    BY DEF Ref
  <2>3. \A x : x \in Targets(refs, "Replace") <=> \E r \in refs : r.type = "Replace" /\ x = r.target
    BY DEF Targets
  <2>4. CASE replaced = None
    <3>1. \A r \in refs : r.type # "Replace"
      BY <2>1, <2>4
    <3> HIDE DEF refs
    <3> QED BY <2>3, <2>4, <3>1
  <2>5. CASE replaced # None
    <3>1. \A r : (r \in refs /\ r.type = "Replace") <=> r = Ref("Replace", replaced)
      BY <2>1, <2>2, <2>5
    <3> HIDE DEF refs
    <3>2. \A x : x \in Targets(refs, "Replace") <=> x = replaced
      BY <2>2, <2>3, <3>1
    <3> QED BY <2>5, <3>2
  <2> QED BY <2>4, <2>5
<1> HIDE DEF refs, body
<1> QED BY <1>1, <1>2, <1>3

LEMMA SelectionMandates ==
  ASSUME LedgerInv, LedgerInv', MandateInv, NEW a, NEW th, NEW d, NEW replaced, NEW uses, \A r \in uses : r.type = "Use",
         replaced \in {None} \union Accepted("Selection"), CommitSelection(a, th, d, replaced, uses)
  PROVE  MandateInv'
<1>1. PICK hash, approval, refs, body :
           /\ hash = SubjectHash(a, replaced, d)
           /\ approval = IF SelectionRequiresApproval THEN ApprovalOf(hash) ELSE None
           /\ Accept("Selection", a, body, refs) /\ Carries(body, d) /\ Claims(refs) /\ Decidable(d, uses)
           /\ SelectionRequiresApproval => Mandated(approval, a)
           /\ IF approval # None
                THEN /\ selection_approvals' = Without(hash)
                     /\ selection_approval_index' = [selection_approval_index EXCEPT ![approval] = NoKey]
                ELSE UNCHANGED mandates
           /\ \A p : Ref("Require", p) \in refs <=> p \in (d.selected \union {approval}) \ {None}
           /\ Targets(refs, "Replace") = {replaced} \ {None}
  BY SelectionParts
<1>2. LogInv /\ LogInv'
  BY DEF LedgerInv
<1>3. Adds({"Selection"}) /\ log'[NextId].refs = refs /\ retracted_records' = retracted_records
  BY <1>1, <1>2, AcceptAdds DEF Claims
<1>4. Required' = Required \union NewlyUsed /\ \A f, k : Apps(f, k)' = Apps(f, k)
  BY <1>2, <1>3, NewRequired, NewApps
<1>5. d.selected \subseteq Accepted("Candidate")
  BY <1>1 DEF Decidable
<1>6. \A h : \A p \in Apps("exact", h) : p \notin d.selected /\ p # None
  <2>1. \A h : \A p \in Apps("exact", h) : p \notin Accepted("Candidate")
    BY DEF Apps, Accepted
  <2>2. \A h : \A p \in Apps("exact", h) : p # None
    BY MandateHeld DEF None
  <2> QED BY <1>5, <2>1, <2>2
<1>7. \A h : ApprovalOf(h) # None => (ApprovalOf(h) \in NewlyUsed <=> ApprovalOf(h) = approval)
  <2> SUFFICES ASSUME NEW h, ApprovalOf(h) # None PROVE ApprovalOf(h) \in NewlyUsed <=> ApprovalOf(h) = approval
    OBVIOUS
  <2>1. ApprovalOf(h) \in Apps("exact", h) /\ ApprovalOf(h) \in 1..Len(log)
    BY MandateHeld DEF None
  <2>2. ApprovalOf(h) \notin d.selected
    BY <1>6, <2>1
  <2>3. ApprovalOf(h) \in NewlyUsed <=> Ref("Require", ApprovalOf(h)) \in refs
    BY <1>3, <2>1 DEF NewlyUsed
  <2> QED BY <1>1, <2>2, <2>3
<1>8. None \notin NewlyUsed
  BY <1>2 DEF NewlyUsed, None, LogInv
<1>9. CASE approval = None
  <2>1. UNCHANGED mandates
    BY <1>1, <1>9
  <2>2. \A h : ApprovalOf(h)' = SlotOf(Apps("exact", h)', retracted_records' \union Required')
    <3> SUFFICES ASSUME NEW h PROVE ApprovalOf(h)' = SlotOf(Apps("exact", h)', retracted_records' \union Required')
      OBVIOUS
    <3> DEFINE S == Apps("exact", h)
               gone == retracted_records \union Required
    <3>1. S \in SUBSET (1..Len(log)) /\ ApprovalOf(h) = SlotOf(S, gone) /\ Len(log) \in Nat
      BY MandateHeld DEF MandateInv
    <3>2. retracted_records' \union Required' = gone \union NewlyUsed /\ Apps("exact", h)' = S
      BY <1>3, <1>4
    <3> HIDE DEF S, gone
    <3>3. SlotOf(S, gone \union NewlyUsed) = IF SlotOf(S, gone) \in NewlyUsed THEN None ELSE SlotOf(S, gone)
      BY <3>1, SlotGone
    <3>4. ApprovalOf(h)' = ApprovalOf(h)
      BY <2>1 DEF mandates, ApprovalOf
    <3>5. ApprovalOf(h) \notin NewlyUsed
      BY <1>7, <1>8, <1>9
    <3> QED BY <3>1, <3>2, <3>3, <3>4, <3>5
  <2>3. \A h : ApprovalOf(h)' = SlotOf(Apps("exact", h), retracted_records \union Required)'
    BY <2>2 DEF SlotOf, Latest
  <2>4. \A i \in Accepted("Approval") : i \in Accepted("Approval")'
    BY <1>2, <1>3, AddedFacts
  <2> QED BY <2>1, <2>3, <2>4 DEF MandateInv, mandates
<1>10. CASE approval # None
  <2>1. /\ selection_approvals' = Without(hash)
        /\ selection_approval_index' = [selection_approval_index EXCEPT ![approval] = NoKey]
        /\ approval = ApprovalOf(hash)
    BY <1>1, <1>10
  <2>2. \A h : ApprovalOf(h) = approval <=> h = hash
    <3>1. selection_approval_index[approval] = hash
      BY <1>10, <2>1, MandateHeld
    <3>2. \A h : ApprovalOf(h) = approval => selection_approval_index[approval] = h
      BY <1>10, MandateHeld
    <3> QED BY <2>1, <3>1, <3>2
  <2>3. \A h : ApprovalOf(h)' = IF h = hash THEN None ELSE ApprovalOf(h)
    BY <2>1 DEF ApprovalOf, Without
  <2>4. \A h : ApprovalOf(h)' = SlotOf(Apps("exact", h)', retracted_records' \union Required')
    <3> SUFFICES ASSUME NEW h PROVE ApprovalOf(h)' = SlotOf(Apps("exact", h)', retracted_records' \union Required')
      OBVIOUS
    <3> DEFINE S == Apps("exact", h)
               gone == retracted_records \union Required
    <3>1. S \in SUBSET (1..Len(log)) /\ ApprovalOf(h) = SlotOf(S, gone) /\ Len(log) \in Nat
      BY MandateHeld DEF MandateInv
    <3>2. retracted_records' \union Required' = gone \union NewlyUsed /\ Apps("exact", h)' = S
      BY <1>3, <1>4
    <3> HIDE DEF S, gone
    <3>3. SlotOf(S, gone \union NewlyUsed) = IF SlotOf(S, gone) \in NewlyUsed THEN None ELSE SlotOf(S, gone)
      BY <3>1, SlotGone
    <3>4. h = hash <=> ApprovalOf(h) \in NewlyUsed
      BY <1>7, <1>8, <1>10, <2>2
    <3> QED BY <2>3, <3>1, <3>2, <3>3, <3>4
  <2>5. \A h : ApprovalOf(h)' = SlotOf(Apps("exact", h), retracted_records \union Required)'
    BY <2>4 DEF SlotOf, Latest
  <2>6. \A i \in Accepted("Approval") : i \in Accepted("Approval")'
    BY <1>2, <1>3, AddedFacts
  <2>7. /\ selection_approval_index' = [i \in Ids |-> selection_approval_index'[i]]
        /\ \A i \in Ids : selection_approval_index'[i] # NoKey => i \in Accepted("Approval")'
    BY <2>1, <2>6 DEF MandateInv
  <2>8. \A h \in DOMAIN selection_approvals' :
          /\ h # NoKey /\ selection_approval_index'[selection_approvals'[h]] = h
          /\ selection_approvals'[h] # None
    <3> SUFFICES ASSUME NEW h \in DOMAIN selection_approvals'
                 PROVE  /\ h # NoKey /\ selection_approval_index'[selection_approvals'[h]] = h
                        /\ selection_approvals'[h] # None
      OBVIOUS
    <3>1. h # hash /\ h \in DOMAIN selection_approvals /\ selection_approvals'[h] = selection_approvals[h]
      BY <2>1 DEF Without
    <3>2. ApprovalOf(h) = selection_approvals[h] /\ ApprovalOf(h) # approval
      BY <2>2, <3>1, MandateHeld
    <3>3. h # NoKey /\ selection_approval_index[selection_approvals[h]] = h /\ selection_approvals[h] # None
      BY <3>1 DEF MandateInv
    <3>4. selection_approval_index'[selection_approvals[h]] = selection_approval_index[selection_approvals[h]]
      BY <2>1, <3>2 DEF MandateInv
    <3> QED BY <3>1, <3>3, <3>4
  <2> QED BY <2>5, <2>7, <2>8 DEF MandateInv
<1> QED BY <1>9, <1>10

\* What a decision that was committed says.
LEMMA SelectionFact ==
  ASSUME LedgerInv, MandateInv, NEW a, NEW th, NEW d, NEW replaced, NEW uses, \A r \in uses : r.type = "Use",
         replaced \in {None} \union Accepted("Selection"), CommitSelection(a, th, d, replaced, uses),
         NEW n, n = NextId
  PROVE  DecideFact(n)'
<1>1. PICK hash, approval, refs, body :
        /\ hash = SubjectHash(a, replaced, d)
        /\ approval = IF SelectionRequiresApproval THEN ApprovalOf(hash) ELSE None
        /\ Accept("Selection", a, body, refs) /\ Carries(body, d) /\ Claims(refs) /\ Decidable(d, uses)
        /\ SelectionRequiresApproval => Mandated(approval, a)
        /\ IF approval # None
             THEN /\ selection_approvals' = Without(hash)
                  /\ selection_approval_index' = [selection_approval_index EXCEPT ![approval] = NoKey]
             ELSE UNCHANGED mandates
        /\ \A p : Ref("Require", p) \in refs <=> p \in (d.selected \union {approval}) \ {None}
        /\ Targets(refs, "Replace") = {replaced} \ {None}
  BY SelectionParts
<1>2. LogInv
  BY DEF LedgerInv
<1>3. Adds({"Selection"}) /\ log'[n].refs = refs /\ Carries(log'[n].body, d)
  BY <1>1, <1>2, AcceptAdds
<1>4. d.selected \subseteq Accepted("Candidate") /\ d.selected \subseteq d.considered
  BY <1>1 DEF Decidable
<1>5. \A p \in d.selected : Ref("Require", p) \in log'[n].refs /\ p < n /\ p \in Accepted("Candidate")' /\ ~Withdrawn(p, n)'
  <2> SUFFICES ASSUME NEW p \in d.selected
               PROVE  Ref("Require", p) \in log'[n].refs /\ p < n /\ p \in Accepted("Candidate")' /\ ~Withdrawn(p, n)'
    OBVIOUS
  <2>1. p \in Accepted("Candidate")
    BY <1>4
  <2>2. p \in 1..Len(log) /\ p \in Accepted("Candidate")' /\ Len(log) \in Nat /\ NextId = Len(log) + 1
    BY <1>2, <1>3, <2>1, AddedFacts
  <2>3. p # None /\ p < n
    BY <2>2 DEF None
  <2>4. Ref("Require", p) \in refs
    BY <1>1, <2>3
  <2>5. Sound(p)
    <3>1. p \in Targets(refs, "Require")
      BY <2>4 DEF Targets, Ref
    <3> QED BY <1>1, <3>1 DEF Accept, Checked, Requirable
  <2>6. ~Withdrawn(p, n)
    BY <2>5, LogNow DEF Sound
  <2>7. ~Withdrawn(p, n)'
    <3>1. n \in 1..(Len(log) + 1)
      BY <2>2
    <3> QED BY <1>2, <1>3, <2>6, <3>1, PastSame
  <2> QED BY <1>3, <2>2, <2>3, <2>4, <2>7
<1> QED BY <1>3, <1>4, <1>5 DEF DecideFact, Carries

-----------------------------------------------------------------------------
(* What an auditor of decisions sees *)

\* Decision s of actor me has hash h, and approval p backs it.
DecidesFor(s, me, h) == log[s].author = me /\ HashOfSelection(s) = h

MandatedBy(s, me, h, p) ==
  /\ p = Latest(Approvals("exact", h, s))
  /\ InForce(p, s) /\ log[p].body.actor = me /\ MadeUnder(p, s) = {}

MandateAudit ==
  SelectionRequiresApproval =>
    \A s \in Accepted("Selection") : \E me, h, p : DecidesFor(s, me, h) /\ MandatedBy(s, me, h, p)

LEMMA MandateAuditSays ==
  ASSUME MandateAudit
  PROVE  AuditSelection
<1> SUFFICES ASSUME SelectionRequiresApproval, NEW s \in Accepted("Selection")
             PROVE  LET p == Latest(Approvals("exact", HashOfSelection(s), s))
                    IN  InForce(p, s) /\ log[p].body.actor = log[s].author /\ MadeUnder(p, s) = {}
  BY DEF AuditSelection
<1>1. PICK me, h, p : DecidesFor(s, me, h) /\ MandatedBy(s, me, h, p)
  BY DEF MandateAudit
<1> QED BY <1>1 DEF DecidesFor, MandatedBy

\* What backed a decision backs it still.
LEMMA PastMandated ==
  ASSUME LogInv, NEW K, Adds(K), NEW s \in Accepted("Selection"), NEW me, NEW h, NEW p,
         DecidesFor(s, me, h), MandatedBy(s, me, h, p)
  PROVE  DecidesFor(s, me, h)' /\ MandatedBy(s, me, h, p)'
<1>1. s \in 1..(Len(log) + 1) /\ s \in 1..Len(log) /\ Len(log) \in Nat /\ log'[s] = log[s]
  BY AddedFacts
<1>2. HashOfSelection(s)' = HashOfSelection(s)
  BY <1>1 DEF HashOfSelection, DecisionOf, ReplacedBy, SubjectHash, Max
<1>3. Approvals("exact", h, s)' = Approvals("exact", h, s)
  BY <1>1, PastSame
<1>4. p \in 0..Len(log)
  <2>1. Approvals("exact", h, s) \in SUBSET (1..Len(log))
    BY AddedFacts DEF Approvals
  <2> QED BY <1>1, <2>1, LatestOf DEF MandatedBy
<1>5. p # None
  BY DEF MandatedBy, InForce
<1>6. p \in 1..Len(log) /\ log'[p] = log[p]
  BY <1>4, <1>5, AddedFacts DEF None
<1>7. InForce(p, s)'
  <2>1. InForce(p, s)
    BY DEF MandatedBy
  <2>2. Withdrawn(p, s)' <=> Withdrawn(p, s)
    BY <1>1, PastSame
  <2> QED BY <1>1, <1>6, <2>1, <2>2 DEF InForce, TimeOf
<1>8. MadeUnder(p, s)' = MadeUnder(p, s)
  <2>1. \A j : j < s => (j \in Accepted("Selection")' <=> j \in Accepted("Selection"))
    BY <1>1, AddedFacts
  <2>2. \A j \in Accepted("Selection") : log'[j] = log[j]
    BY AddedFacts
  <2> QED BY <2>1, <2>2 DEF MadeUnder
<1>9. DecidesFor(s, me, h)'
  BY <1>1, <1>2 DEF DecidesFor
<1>10. p = Latest(Approvals("exact", h, s)')
  BY <1>3 DEF MandatedBy
<1>11. log'[p].body.actor = me /\ MadeUnder(p, s)' = {}
  BY <1>6, <1>8 DEF MandatedBy
<1>12. MandatedBy(s, me, h, p)'
  BY <1>7, <1>10, <1>11 DEF MandatedBy, Latest
<1> QED BY <1>9, <1>12

LEMMA OtherMandateAudit ==
  ASSUME LogInv, MandateAudit, NEW K, Adds(K), "Selection" \notin K, rules' = rules
  PROVE  MandateAudit'
<1>1. \A s : s \in Accepted("Selection")' => s \in Accepted("Selection")
  BY AddedFacts
<1> SUFFICES ASSUME SelectionRequiresApproval', NEW s \in Accepted("Selection")'
             PROVE  \E me, h, p : (DecidesFor(s, me, h) /\ MandatedBy(s, me, h, p))'
  BY DEF MandateAudit
<1>2. SelectionRequiresApproval
  BY DEF SelectionRequiresApproval
<1>3. s \in Accepted("Selection")
  BY <1>1
<1>4. PICK me, h, p : DecidesFor(s, me, h) /\ MandatedBy(s, me, h, p)
  BY <1>2, <1>3 DEF MandateAudit
<1>5. DecidesFor(s, me, h)' /\ MandatedBy(s, me, h, p)'
  BY <1>3, <1>4, PastMandated
<1> QED BY <1>5

LEMMA SelectionMandateAudit ==
  ASSUME LedgerInv, MandateInv, MandateAudit, NEW a, NEW th, NEW d \in Decisions, NEW replaced, NEW uses, \A r \in uses : r.type = "Use",
         replaced \in {None} \union Accepted("Selection"), CommitSelection(a, th, d, replaced, uses)
  PROVE  MandateAudit'
<1>1. PICK hash, p, refs, body :
        /\ hash = SubjectHash(a, replaced, d)
        /\ p = IF SelectionRequiresApproval THEN ApprovalOf(hash) ELSE None
        /\ Accept("Selection", a, body, refs) /\ Carries(body, d)
        /\ SelectionRequiresApproval => Mandated(p, a)
        /\ \A q : Ref("Require", q) \in refs <=> q \in (d.selected \union {p}) \ {None}
        /\ Targets(refs, "Replace") = {replaced} \ {None}
  BY SelectionParts
<1>2. LogInv /\ rules' = rules
  BY <1>1 DEF LedgerInv, Accept, setting
<1>3. PICK n : n = NextId
  OBVIOUS
<1>4. Adds({"Selection"}) /\ log'[n].refs = refs /\ Carries(log'[n].body, d) /\ log'[n].author = a
  BY <1>1, <1>2, <1>3, AcceptAdds
<1> SUFFICES ASSUME SelectionRequiresApproval', NEW s \in Accepted("Selection")'
             PROVE  \E me, h, q : (DecidesFor(s, me, h) /\ MandatedBy(s, me, h, q))'
  BY DEF MandateAudit
<1>5. SelectionRequiresApproval
  BY <1>2 DEF SelectionRequiresApproval
<1>6. CASE s \in Accepted("Selection")
  <2>1. PICK me, h, q : DecidesFor(s, me, h) /\ MandatedBy(s, me, h, q)
    BY <1>5, <1>6 DEF MandateAudit
  <2>2. DecidesFor(s, me, h)' /\ MandatedBy(s, me, h, q)'
    BY <1>2, <1>4, <1>6, <2>1, PastMandated
  <2> QED BY <2>2
<1>7. CASE s \notin Accepted("Selection")
  <2>1. s = n
    BY <1>2, <1>3, <1>4, <1>7, AddedFacts
  <2>2. Len(log) \in Nat /\ n = Len(log) + 1 /\ n \in 1..(Len(log) + 1)
    BY <1>2, <1>3 DEF LogInv, NextId
  <2>3. /\ p = ApprovalOf(hash) /\ p # None /\ Sound(p) /\ log[p].body.actor = a /\ Unexpired(p)
    BY <1>1, <1>5 DEF Mandated
  <2>4. p \in 1..Len(log) /\ p = Latest(Apps("exact", hash)) /\ p \notin retracted_records /\ p \notin Required
    BY <2>3, MandateHeld DEF None
  <2>5. log'[p] = log[p]
    BY <1>2, <1>4, <2>4, AddedFacts
  <2>6. /\ Approvals("exact", hash, n)' = Apps("exact", hash)
        /\ ~Withdrawn(p, n)'
    BY <1>2, <1>3, <1>4, <2>2, <2>4, LogNow, PastSame
  <2>7. InForce(p, n)'
    <3>1. Ref("Require", p) \in log'[n].refs
      BY <1>1, <1>4, <2>3
    <3>2. TimeOf(n) < log'[p].body.expiry
      BY <1>3, <2>3, <2>5 DEF Unexpired
    <3> QED BY <2>3, <2>6, <3>1, <3>2 DEF InForce, TimeOf
  <2>8. MadeUnder(p, n)' = {}
    <3>1. \A j \in Accepted("Selection") : Ref("Require", p) \notin log[j].refs
      BY <2>4 DEF Required
    <3>2. \A j : j \in Accepted("Selection")' /\ j < n => j \in Accepted("Selection") /\ log'[j] = log[j]
      <4>1. \A j : j \in Accepted("Selection")' => j \in Accepted("Selection") \/ j = n
        BY <1>2, <1>3, <1>4, AddedFacts
      <4>2. \A j \in Accepted("Selection") : log'[j] = log[j]
        BY <1>2, <1>4, AddedFacts
      <4>3. ~(n < n)
        BY <2>2
      <4> QED BY <4>1, <4>2, <4>3
    <3>3. \A j : j \notin MadeUnder(p, n)'
      BY <3>1, <3>2 DEF MadeUnder
    <3> QED BY <3>3
  <2>9. DecidesFor(n, a, hash)'
    <3>1. Latest({replaced} \ {None}) = replaced
      <4>1. {replaced} \ {None} \in SUBSET (1..Len(log))
        <5>1. Accepted("Selection") \subseteq 1..Len(log)
          BY <1>2 DEF LogInv, Accepted
        <5> QED BY <5>1
      <4> DEFINE S == {replaced} \ {None}
      <4>2. Latest(S) = replaced
        <5>1. S \in SUBSET (1..Len(log))
          BY <4>1
        <5>2. Latest(S) \in S \union {None} /\ (Latest(S) = None <=> S = {})
          <6> HIDE DEF S
          <6> QED BY <2>2, <5>1, LatestOf
        <5> QED BY <5>2
      <4> QED BY <4>2
    <3>2. ReplacedBy(n)' = {replaced} \ {None}
      BY <1>1, <1>4 DEF ReplacedBy, Targets
    <3>3. DecisionOf(n)' = d
      BY <1>4 DEF DecisionOf, Carries, Decisions
    <3>4. HashOfSelection(n)' = hash
      BY <1>1, <1>4, <3>1, <3>2, <3>3 DEF HashOfSelection, SubjectHash, Latest
    <3> QED BY <1>4, <3>4 DEF DecidesFor
  <2>10. MandatedBy(n, a, hash, p)'
    <3>1. p = Latest(Approvals("exact", hash, n)')
      BY <2>4, <2>6
    <3> QED BY <2>3, <2>5, <2>7, <2>8, <3>1 DEF MandatedBy, Latest
  <2> QED BY <2>1, <2>9, <2>10
<1> QED BY <1>6, <1>7

-----------------------------------------------------------------------------
(* The inductive invariant *)

EvInv ==
  /\ LedgerInv /\ RecordFacts /\ DemandInv /\ MandateInv /\ MandateAudit
  /\ \A d \in bounds.demands : d.key \in Keys

\* A record that is neither a requirement, nor an approval, nor a decision, nor a
\* retraction leaves the indexes alone.
LEMMA PlainKeeps ==
  ASSUME EvInv, NEW kind, Commits(kind), kind \notin {"Requirement", "Approval", "Selection", "Retraction"},
         UNCHANGED <<demands, mandates>>, NEW n, n = NextId,
         kind = "Evaluation" => JudgeFact(n)',
         kind = "Candidate" => ContinueFact(n)'
  PROVE  EvInv'
<1>1. LogInv /\ LedgerInv /\ RecordFacts /\ DemandInv /\ MandateInv /\ MandateAudit
  BY DEF EvInv, LedgerInv
<1>2. LedgerInv' /\ Adds({kind}) /\ retracted_records' = retracted_records /\ bounds' = bounds
  BY <1>1, CommitsKeeps
<1>3. rules' = rules
  BY DEF Commits, Accept, setting
<1>4. RecordFacts'
  BY <1>1, <1>2, RecordsKeep
<1>5. DemandInv'
  BY <1>1, <1>2, OtherDemands
<1>6. MandateInv'
  BY <1>1, <1>2, OtherMandates
<1>7. MandateAudit'
  BY <1>1, <1>2, <1>3, OtherMandateAudit
<1> QED BY <1>2, <1>4, <1>5, <1>6, <1>7 DEF EvInv

LEMMA KeepsCandidate ==
  ASSUME EvInv, NEW a, NEW basis, NEW parent, NEW causes, NEW binding, NEW uses,
         Propose(a, basis, parent, causes, binding, uses),
         IF basis = "Continuation"
           THEN causes # {} /\ \A s \in causes : s \in Accepted("Selection") /\ parent \in log[s].body.selected
           ELSE parent = None
  PROVE  EvInv'
<1> DEFINE body == [basis |-> basis, parent |-> parent, causes |-> causes, binding |-> binding,
                    artifacts |-> bounds.artifacts]
           refs == uses \union CauseRefs(causes)
<1>1. Accept("Candidate", a, body, refs) /\ Claims(refs) /\ UNCHANGED <<demands, mandates>>
  BY DEF Propose
<1>2. body.basis = basis /\ body.parent = parent /\ body.causes = causes
  OBVIOUS
<1> HIDE DEF body, refs
<1>3. Commits("Candidate")
  BY <1>1 DEF Commits
<1>4. PICK n : n = NextId
  OBVIOUS
<1>5. LogInv
  BY DEF EvInv, LedgerInv
<1>6. Adds({"Candidate"}) /\ log'[n].body = body
  BY <1>1, <1>4, <1>5, AcceptAdds
<1>7. ContinueFact(n)'
  <2>1. CASE basis = "Continuation"
    <3>1. \A s \in causes : s \in Accepted("Selection")' /\ s < n /\ parent \in log'[s].body.selected
      <4> SUFFICES ASSUME NEW s \in causes
                   PROVE  s \in Accepted("Selection")' /\ s < n /\ parent \in log'[s].body.selected
        OBVIOUS
      <4>1. s \in Accepted("Selection") /\ parent \in log[s].body.selected
        BY <2>1
      <4>2. s \in 1..Len(log) /\ s \in Accepted("Selection")' /\ log'[s] = log[s] /\ NextId = Len(log) + 1 /\ Len(log) \in Nat
        BY <1>5, <1>6, <4>1, AddedFacts
      <4> QED BY <1>4, <4>1, <4>2
    <3> QED BY <1>2, <1>6, <2>1, <3>1 DEF ContinueFact
  <2>2. CASE basis # "Continuation"
    BY <1>2, <1>6, <2>2 DEF ContinueFact, None
  <2> QED BY <2>1, <2>2
<1> QED BY <1>1, <1>3, <1>4, <1>7, PlainKeeps

LEMMA KeepsEvaluation ==
  ASSUME EvInv, NEW a, NEW cand, NEW reqs, NEW schema, NEW j, NEW uses,
         CommitEvaluation(a, cand, reqs, schema, j, uses)
  PROVE  EvInv'
<1> DEFINE body == [candidate |-> cand, requirements |-> reqs, schema |-> schema,
                    outcome |-> j.outcome, evidence |-> j.evidence, bound |-> j.bound]
           refs == uses \union Judged(cand, reqs)
<1>1. Accept("Evaluation", a, body, refs) /\ Claims(refs) /\ UNCHANGED <<demands, mandates>>
  BY Zenon DEF CommitEvaluation
<1>2. body.candidate = cand /\ body.requirements = reqs
  OBVIOUS
<1>3. cand \in Rests(refs) /\ reqs \subseteq Rests(refs)
  <2>1. \A i \in {cand} \union reqs : Ref("Use", i) \in refs
    BY DEF Judged, UseRefs
  <2> HIDE DEF refs
  <2>2. \A i \in {cand} \union reqs : i \in Targets(refs, "Use")
    <3> SUFFICES ASSUME NEW i \in {cand} \union reqs PROVE i \in Targets(refs, "Use")
      OBVIOUS
    <3>1. Ref("Use", i).type = "Use" /\ Ref("Use", i).target = i
      BY DEF Ref
    <3> QED BY <2>1, <3>1 DEF Targets
  <2> QED BY <2>2 DEF Rests
<1> HIDE DEF body, refs
<1>4. Commits("Evaluation")
  BY <1>1 DEF Commits
<1>5. PICK n : n = NextId
  OBVIOUS
<1>6. log'[n].body = body /\ log'[n].refs = refs
  BY <1>1, <1>5, AcceptAdds DEF EvInv, LedgerInv
<1>7. JudgeFact(n)'
  BY <1>2, <1>3, <1>6 DEF JudgeFact, Rests, Targets
<1> QED BY <1>1, <1>4, <1>5, <1>7, PlainKeeps

LEMMA KeepsRequirement ==
  ASSUME EvInv, NEW a, NEW th, NEW req, NEW key \in Keys, NEW required, CommitRequirement(a, th, req, key, required)
  PROVE  EvInv'
<1>1. LogInv /\ LedgerInv /\ RecordFacts /\ DemandInv /\ MandateInv /\ MandateAudit
  BY DEF EvInv, LedgerInv
<1>2. Commits("Requirement") /\ UNCHANGED mandates
  BY Zenon DEF CommitRequirement, Commits
<1>3. LedgerInv' /\ Adds({"Requirement"}) /\ retracted_records' = retracted_records /\ bounds' = bounds
  BY <1>1, <1>2, CommitsKeeps
<1>4. rules' = rules
  BY <1>2 DEF Commits, Accept, setting
<1>5. RecordFacts'
  BY <1>1, <1>3, RecordsKeep
<1>6. DemandInv'
  BY <1>1, RequirementDemands
<1>7. MandateInv'
  BY <1>1, <1>2, <1>3, OtherMandates
<1>8. MandateAudit'
  BY <1>1, <1>3, <1>4, OtherMandateAudit
<1> QED BY <1>3, <1>5, <1>6, <1>7, <1>8 DEF EvInv

LEMMA KeepsMandate ==
  ASSUME EvInv, NEW a, NEW hash, NEW actor, NEW sc, NEW expiry, NEW repl, hash # NoKey,
         ApproveSelection(a, hash, actor, sc, expiry, repl)
  PROVE  EvInv'
<1>1. LogInv /\ LedgerInv /\ RecordFacts /\ DemandInv /\ MandateInv /\ MandateAudit
  BY DEF EvInv, LedgerInv
<1>2. Commits("Approval") /\ UNCHANGED demands
  BY Zenon DEF ApproveSelection, Commits
<1>3. LedgerInv' /\ Adds({"Approval"}) /\ retracted_records' = retracted_records /\ bounds' = bounds
  BY <1>1, <1>2, CommitsKeeps
<1>4. rules' = rules
  BY <1>2 DEF Commits, Accept, setting
<1>5. RecordFacts'
  BY <1>1, <1>3, RecordsKeep
<1>6. DemandInv'
  BY <1>1, <1>2, <1>3, OtherDemands
<1>7. MandateInv'
  BY <1>1, <1>3, ApprovalMandates
<1>8. MandateAudit'
  BY <1>1, <1>3, <1>4, OtherMandateAudit
<1> QED BY <1>3, <1>5, <1>6, <1>7, <1>8 DEF EvInv

LEMMA KeepsSelection ==
  ASSUME EvInv, NEW a, NEW th, NEW d \in Decisions, NEW replaced, NEW uses, \A r \in uses : r.type = "Use",
         replaced \in {None} \union Accepted("Selection"), CommitSelection(a, th, d, replaced, uses)
  PROVE  EvInv'
<1>1. LogInv /\ LedgerInv /\ RecordFacts /\ DemandInv /\ MandateInv /\ MandateAudit
  BY DEF EvInv, LedgerInv
<1>2. Commits("Selection") /\ UNCHANGED demands
  BY Zenon DEF CommitSelection, Commits
<1>3. LedgerInv' /\ Adds({"Selection"}) /\ retracted_records' = retracted_records /\ bounds' = bounds
  BY <1>1, <1>2, CommitsKeeps
<1>4. PICK n : n = NextId
  OBVIOUS
<1>5. DecideFact(n)'
  BY <1>1, <1>4, SelectionFact
<1>6. RecordFacts'
  BY <1>1, <1>3, <1>4, <1>5, RecordsKeep
<1>7. DemandInv'
  BY <1>1, <1>2, <1>3, OtherDemands
<1>8. MandateInv'
  BY <1>1, <1>3, SelectionMandates
<1>9. MandateAudit'
  BY <1>1, SelectionMandateAudit
<1> QED BY <1>3, <1>6, <1>7, <1>8, <1>9 DEF EvInv

LEMMA KeepsWithdrawal ==
  ASSUME EvInv, NEW a, NEW th, NEW target, NEW uses, Retract(a, th, target, uses)
  PROVE  EvInv'
<1> DEFINE body == [thread |-> th, target |-> target]
           refs == uses \union {Ref("Cause", target)}
<1>1. LogInv /\ LedgerInv /\ RecordFacts /\ DemandInv /\ MandateInv /\ MandateAudit
  BY DEF EvInv, LedgerInv
<1>2. /\ target \in accepted_records /\ body.target = target
      /\ Accept("Retraction", a, body, refs) /\ Withdraws(target, refs)
      /\ Release(target) /\ Revoke(target)
  BY DEF Retract, CommitRetraction
<1> HIDE DEF body, refs
<1>3. LedgerInv'
  BY <1>1, <1>2, RetractionKeepsLedger
<1>4. Adds({"Retraction"}) /\ bounds' = bounds /\ rules' = rules
  BY <1>1, <1>2, AcceptAdds DEF Accept, setting
<1>5. retracted_records' = retracted_records \union {target}
  BY <1>2 DEF Withdraws
<1>6. target \in Ids
  BY <1>1, <1>2, LedgerConstants DEF LogInv, Ids
<1>7. RecordFacts'
  BY <1>1, <1>4, RecordsKeep
<1>8. DemandInv'
  BY <1>1, <1>2, <1>4, <1>5, <1>6, RetractionDemands
<1>9. MandateInv'
  BY <1>1, <1>2, <1>3, <1>4, <1>5, <1>6, RetractionMandates
<1>10. MandateAudit'
  BY <1>1, <1>4, OtherMandateAudit
<1> QED BY <1>3, <1>4, <1>7, <1>8, <1>9, <1>10 DEF EvInv

LEMMA KeepsRejection ==
  ASSUME EvInv, CommitRejected, UNCHANGED <<demands, mandates>>
  PROVE  EvInv'
<1>1. LogInv /\ LedgerInv /\ RecordFacts /\ DemandInv /\ MandateInv /\ MandateAudit
  BY DEF EvInv, LedgerInv
<1>2. Reject
  BY DEF CommitRejected
<1>3. /\ LedgerInv' /\ Adds({})
      /\ retracted_records' = retracted_records /\ bounds' = bounds /\ rules' = rules
  BY <1>1, <1>2, RejectionKeepsLedger, RejectAdds DEF Reject, setting
<1>4. RecordFacts'
  BY <1>1, <1>3, RecordsKeep
<1>5. DemandInv'
  BY <1>1, <1>3, OtherDemands
<1>6. MandateInv'
  BY <1>1, <1>3, OtherMandates
<1>7. MandateAudit'
  BY <1>1, <1>3, OtherMandateAudit
<1> QED BY <1>3, <1>4, <1>5, <1>6, <1>7 DEF EvInv

LEMMA EvInvStarts ==
  ASSUME EvInit
  PROVE  EvInv
<1>1. LedgerInv /\ \A k : Accepted(k) = {}
  <2>1. LedgerInit /\ accepted_records = {}
    BY DEF EvInit, Init, LedgerInit
  <2> QED BY <2>1, LedgerStarts DEF Accepted
<1>2. RecordFacts
  BY <1>1 DEF RecordFacts
<1>3. DemandInv
  BY <1>1 DEF EvInit, DemandInv
<1>4. MandateInv
  <2>1. \A h : Apps("exact", h) = {}
    BY <1>1 DEF Apps
  <2>2. \A gone : SlotOf({}, gone) = None
    <3>1. Latest({}) = None
      <4>1. {} \in SUBSET (1..0) /\ 0 \in Nat
        OBVIOUS
      <4> QED BY <4>1, LatestOf
    <3> QED BY <3>1 DEF SlotOf
  <2>3. \A h : ApprovalOf(h) = None
    BY DEF EvInit, ApprovalOf
  <2>4. \A h : ApprovalOf(h) = SlotOf(Apps("exact", h), retracted_records \union Required)
    BY <2>1, <2>2, <2>3
  <2>5. DOMAIN selection_approvals = {} /\ selection_approval_index = [i \in Ids |-> NoKey]
    BY DEF EvInit
  <2> QED BY <2>4, <2>5 DEF MandateInv
<1>5. MandateAudit
  BY <1>1 DEF MandateAudit
<1>6. \A d \in bounds.demands : d.key \in Keys
  BY EvolutionConstants DEF EvInit, Init, LedgerInit
<1> QED BY <1>1, <1>2, <1>3, <1>4, <1>5, <1>6 DEF EvInv

LEMMA EvInvStutters ==
  ASSUME EvInv, UNCHANGED evolution
  PROVE  EvInv'
<1>1. LedgerInv'
  BY LedgerStutters DEF EvInv, evolution, vars
<1> USE DEF evolution, vars, epistemic, setting, demands, mandates
<1>2. \A k : Accepted(k)' = Accepted(k)
  BY DEF Accepted
<1>3. \A t, i : Withdrawn(t, i)' <=> Withdrawn(t, i)
  BY <1>2 DEF Withdrawn
<1>4. RecordFacts'
  <2>1. \A e \in Accepted("Evaluation") : JudgeFact(e)'
    BY DEF EvInv, RecordFacts, JudgeFact
  <2>2. \A s \in Accepted("Selection") : DecideFact(s)'
    BY <1>2, <1>3 DEF EvInv, RecordFacts, DecideFact
  <2>3. \A c \in Accepted("Candidate") : ContinueFact(c)'
    BY <1>2 DEF EvInv, RecordFacts, ContinueFact
  <2> QED BY <1>2, <2>1, <2>2, <2>3 DEF RecordFacts
<1>5. DemandInv'
  <2>1. \A r : LiveRequirements(r)' = LiveRequirements(r)
    BY <1>2 DEF LiveRequirements, WorkFor
  <2> QED BY <1>2, <2>1 DEF EvInv, DemandInv
<1>6. MandateInv'
  <2>1. Required' = Required /\ \A f, k : Apps(f, k)' = Apps(f, k)
    BY <1>2 DEF Required, Apps
  <2>2. \A h : ApprovalOf(h)' = ApprovalOf(h)
    BY DEF ApprovalOf
  <2>3. \A h : ApprovalOf(h)' = SlotOf(Apps("exact", h)', retracted_records' \union Required')
    BY <2>1, <2>2 DEF EvInv, MandateInv
  <2>4. \A h : ApprovalOf(h)' = SlotOf(Apps("exact", h), retracted_records \union Required)'
    BY <2>3 DEF SlotOf, Latest
  <2> QED BY <1>2, <2>4 DEF EvInv, MandateInv
<1>7. MandateAudit'
  <2>1. /\ \A f, k, i : Approvals(f, k, i)' = Approvals(f, k, i)
        /\ \A p, s : MadeUnder(p, s)' = MadeUnder(p, s)
        /\ \A s : HashOfSelection(s)' = HashOfSelection(s)
    <3>1. \A f, k, i : Approvals(f, k, i)' = Approvals(f, k, i)
      BY <1>2 DEF Approvals
    <3>2. \A p, s : MadeUnder(p, s)' = MadeUnder(p, s)
      BY <1>2 DEF MadeUnder
    <3>3. \A s : HashOfSelection(s)' = HashOfSelection(s)
      BY DEF HashOfSelection, DecisionOf, ReplacedBy, SubjectHash, Max
    <3> QED BY <3>1, <3>2, <3>3
  <2>2. \A g, i : InForce(g, i)' <=> InForce(g, i)
    BY <1>3 DEF InForce, TimeOf
  <2>3. \A s, me, h, p : (DecidesFor(s, me, h) /\ MandatedBy(s, me, h, p)) =>
                         (DecidesFor(s, me, h) /\ MandatedBy(s, me, h, p))'
    <3> SUFFICES ASSUME NEW s, NEW me, NEW h, NEW p, DecidesFor(s, me, h), MandatedBy(s, me, h, p)
                 PROVE  DecidesFor(s, me, h)' /\ MandatedBy(s, me, h, p)'
      OBVIOUS
    <3>1. DecidesFor(s, me, h)'
      BY <2>1 DEF DecidesFor
    <3>2. p = Latest(Approvals("exact", h, s)')
      BY <2>1 DEF MandatedBy
    <3>3. InForce(p, s)' /\ log'[p].body.actor = me /\ MadeUnder(p, s)' = {}
      BY <2>1, <2>2 DEF MandatedBy
    <3> QED BY <3>1, <3>2, <3>3 DEF MandatedBy, Latest
  <2>4. SelectionRequiresApproval' <=> SelectionRequiresApproval
    BY DEF SelectionRequiresApproval
  <2> QED BY <1>2, <2>3, <2>4 DEF EvInv, MandateAudit
<1>8. \A d \in bounds'.demands : d.key \in Keys
  BY DEF EvInv
<1> QED BY <1>1, <1>4, <1>5, <1>6, <1>7, <1>8 DEF EvInv

-----------------------------------------------------------------------------
(* Every step *)

LEMMA UsesOfAreUses ==
  ASSUME NEW kind, NEW uses \in UsesOf(kind)
  PROVE  \A r \in uses : r.type = "Use"
<1>1. uses \in Uses \/ uses = {}
  BY DEF UsesOf
<1> QED BY <1>1, UsesAreUses

LEMMA DevelopKeeps ==
  ASSUME EvInv, NEW a, NEW th, Develop(a, th)
  PROVE  EvInv'
<1>1. CASE \E causes, b, uses : CommitRoot(a, causes, b, uses)
  BY <1>1, KeepsCandidate DEF CommitRoot
<1>2. CASE \E s, p, b, uses : CommitContinuation(a, s, p, b, uses)
  <2>1. PICK s, p, b, uses : CommitContinuation(a, s, p, b, uses)
    BY <1>2
  <2>2. Propose(a, "Continuation", p, {s}, b, uses) /\ s \in Accepted("Selection") /\ p \in log[s].body.selected
    BY <2>1 DEF CommitContinuation, Anchors
  <2> QED BY <2>2, KeepsCandidate
<1>3. CASE \E causes, b, uses : CommitDerivation(a, causes, b, uses)
  BY <1>3, KeepsCandidate DEF CommitDerivation
<1>4. CASE \E c, reqs, s, j, uses : CommitEvaluation(a, c, reqs, s, j, uses)
  BY <1>4, KeepsEvaluation
<1>5. CASE \E d \in Decisions, r \in {None} \union Accepted("Selection"), uses \in UsesOf("Selection") :
             CommitSelection(a, th, d, r, uses)
  BY <1>5, UsesOfAreUses, KeepsSelection
<1>6. CASE \E target, uses : Retract(a, th, target, uses)
  BY <1>6, KeepsWithdrawal
<1> QED BY <1>1, <1>2, <1>3, <1>4, <1>5, <1>6 DEF Develop

LEMMA DemandKeeps ==
  ASSUME EvInv, NEW a, NEW th, Demand(a, th)
  PROVE  EvInv'
<1>1. CASE (\E sc \in Scopes : CommitRequest(a, th, sc, None, {})) /\ UNCHANGED <<demands, mandates>>
  <2>1. Commits("Request")
    BY <1>1, Zenon DEF CommitRequest, Commits
  <2> QED BY <1>1, <2>1, PlainKeeps
<1>2. CASE \E req \in Accepted("Request"), d \in Asked : CommitRequirement(a, th, req, d.key, d.required)
  <2>1. PICK req \in Accepted("Request"), d \in Asked : CommitRequirement(a, th, req, d.key, d.required)
    BY <1>2
  <2>2. d.key \in Keys
    BY DEF EvInv, Asked
  <2> QED BY <2>1, <2>2, KeepsRequirement
<1>3. CASE \E who \in Grantees, actor \in Grantees, d \in Decisions, r \in {None} \union Accepted("Selection"),
              e \in Expiries, sc \in Scopes, repl \in Replacing("Approval") :
                ApproveSelection(a, SubjectHash(who, r, d), actor, sc, e, repl)
  <2>1. PICK who, actor, d, r, e, sc, repl : ApproveSelection(a, SubjectHash(who, r, d), actor, sc, e, repl)
    BY <1>3
  <2>2. SubjectHash(who, r, d) # NoKey
    BY DEF SubjectHash, NoKey
  <2> QED BY <2>1, <2>2, KeepsMandate
<1> QED BY <1>1, <1>2, <1>3 DEF Demand

\* The work that ends in a result is of Governance's kinds.
LEMMA PerformCommits ==
  ASSUME NEW a, NEW th, Perform(a, th)
  PROVE  \E kind \in {"Capability", "Action", "Result"} : Commits(kind)
<1>1. CASE \E key, mode, e : CommitCapability(a, th, key, mode, e, {}, {})
  <2>1. Commits("Capability")
    BY <1>1, Zenon DEF CommitCapability, Commits
  <2> QED BY <2>1
<1>2. CASE \E req, cls, sc, x : CommitAction(a, th, req, cls, sc, x, {}, {})
  <2>1. PICK req, cls, sc, x : CommitAction(a, th, req, cls, sc, x, {}, {})
    BY <1>2
  <2>2. \E body, refs : Accept("Action", a, body, refs) /\ Claims(refs)
    BY <2>1, ZenonT(60) DEF CommitAction
  <2>3. Commits("Action")
    BY <2>2, Zenon DEF Commits
  <2> QED BY <2>3
<1>3. CASE \E act, s, artifacts : CommitResult(a, th, act, s, artifacts, {})
  <2>1. Commits("Result")
    BY <1>3, Zenon DEF CommitResult, Commits
  <2> QED BY <2>1
<1> QED BY <1>1, <1>2, <1>3 DEF Perform

LEMMA PerformKeeps ==
  ASSUME EvInv, NEW a, NEW th, Perform(a, th)
  PROVE  EvInv'
<1>1. UNCHANGED <<demands, mandates>>
  BY DEF Perform
<1>2. PICK kind \in {"Capability", "Action", "Result"} : Commits(kind)
  BY PerformCommits
<1>3. kind \notin {"Requirement", "Approval", "Selection", "Retraction", "Evaluation", "Candidate"}
  OBVIOUS
<1> QED BY <1>1, <1>2, <1>3, PlainKeeps

LEMMA EvNextKeeps ==
  ASSUME EvInv, EvNext
  PROVE  EvInv'
<1>1. CASE \E a \in Authors, th \in Threads : Develop(a, th) \/ Demand(a, th) \/ Perform(a, th)
  BY <1>1, DevelopKeeps, DemandKeeps, PerformKeeps
<1>2. CASE CommitRejected /\ UNCHANGED <<demands, mandates>>
  BY <1>2, KeepsRejection
<1> QED BY <1>1, <1>2 DEF EvNext

\* Everything above, in every state.
LEMMA EvInvAlways == EvSpec => []EvInv
<1>1. EvInit => EvInv
  BY EvInvStarts
<1>2. EvInv /\ [EvNext]_evolution => EvInv'
  BY EvNextKeeps, EvInvStutters
<1> QED BY <1>1, <1>2, PTL DEF EvSpec

-----------------------------------------------------------------------------

\* The indexes of requirements and of approvals for decisions stay in range,
\* and each approval that can be used is indexed under its decision.
THEOREM EvTypeCorrect == EvSpec => []EvTypeOK
<1>1. EvInv => EvTypeOK
  <2> SUFFICES ASSUME EvInv PROVE EvTypeOK
    OBVIOUS
  <2>1. \A i \in Ids : requirement_keys[i] \subseteq Keys
    BY DEF EvInv, DemandInv
  <2>2. \A i \in Ids : requirement_index[i] # NoKey => i \in Accepted("Requirement")
    BY DEF EvInv, DemandInv
  <2>3. /\ \A i \in Ids : selection_approval_index[i] # NoKey => i \in Accepted("Approval")
        /\ \A h \in DOMAIN selection_approvals : selection_approval_index[selection_approvals[h]] = h
    BY DEF EvInv, MandateInv
  <2> QED BY <2>1, <2>2, <2>3 DEF EvTypeOK
<1> QED BY <1>1, EvInvAlways, PTL

\* The fold never leaves a key with a requirement that was withdrawn, so its
\* correction can carry it.
THEOREM KeysStayLive == EvSpec => []KeysAreLive
<1>1. EvInv => KeysAreLive
  <2> SUFFICES ASSUME EvInv, NEW r \in Accepted("Request")
               PROVE  requirement_keys[r] \subseteq {log[q].body.key : q \in LiveRequirements(r)}
    BY DEF KeysAreLive
  <2>1. r \in Ids
    BY LedgerConstants DEF EvInv, LedgerInv, LogInv, Accepted, Ids
  <2> QED BY <2>1 DEF EvInv, DemandInv
<1> QED BY <1>1, EvInvAlways, PTL

\* Where the rules ask for approvals, every accepted decision was made under
\* the newest one for exactly that decision, in force and never used before.
THEOREM SelectionsAreMandated == EvSpec => []AuditSelection
<1>1. EvInv => AuditSelection
  BY MandateAuditSays DEF EvInv
<1> QED BY <1>1, EvInvAlways, PTL

-----------------------------------------------------------------------------
(* What a decision that stands rests on *)

\* A record that is not tainted rests on nothing that fell.
LEMMA UntaintedRests ==
  ASSUME EvInv, NEW i \in accepted_records, i \notin tainted_records
  PROVE  \A t \in Rests(log[i].refs) : t \notin retracted_records /\ t \notin tainted_records
<1>1. TaintExact
  BY DEF EvInv, LedgerInv, TaintInv
<1> QED BY <1>1 DEF TaintExact

LEMMA SoundRests ==
  ASSUME EvInv, NEW s \in Accepted("Selection") \ Unsound
  PROVE  /\ \A p \in log[s].body.selected : p \notin retracted_records /\ p \notin tainted_records
         /\ \A e \in Accepted("Evaluation") :
              e \in Targets(log[s].refs, "Use") =>
                /\ e \notin retracted_records /\ e \notin tainted_records
                /\ log[e].body.candidate \notin retracted_records
                /\ \A q \in log[e].body.requirements : q \notin retracted_records
<1>1. s \in accepted_records /\ s \notin tainted_records /\ s \in Accepted("Selection")
  BY DEF Unsound, Accepted
<1>2. \A t \in Rests(log[s].refs) : t \notin retracted_records /\ t \notin tainted_records
  BY <1>1, UntaintedRests
<1>3. ASSUME NEW p \in log[s].body.selected
      PROVE  p \notin retracted_records /\ p \notin tainted_records
  <2>1. Ref("Require", p) \in log[s].refs
    BY <1>1 DEF EvInv, RecordFacts, DecideFact
  <2>2. Ref("Require", p).type = "Require" /\ Ref("Require", p).target = p
    BY DEF Ref
  <2>3. p \in Rests(log[s].refs)
    BY <2>1, <2>2 DEF Rests, Targets
  <2> QED BY <1>2, <2>3
<1>4. ASSUME NEW e \in Accepted("Evaluation"), e \in Targets(log[s].refs, "Use")
      PROVE  /\ e \notin retracted_records /\ e \notin tainted_records
             /\ log[e].body.candidate \notin retracted_records
             /\ \A q \in log[e].body.requirements : q \notin retracted_records
  <2>1. e \in Rests(log[s].refs)
    BY <1>4 DEF Rests
  <2>2. e \notin retracted_records /\ e \notin tainted_records
    BY <1>2, <2>1
  <2>3. e \in accepted_records
    BY DEF Accepted
  <2>4. \A t \in Rests(log[e].refs) : t \notin retracted_records
    BY <2>2, <2>3, UntaintedRests
  <2>5. log[e].body.candidate \in Rests(log[e].refs) /\ log[e].body.requirements \subseteq Rests(log[e].refs)
    BY DEF EvInv, RecordFacts, JudgeFact
  <2> QED BY <2>2, <2>4, <2>5
<1> QED BY <1>3, <1>4

\* What a report says of a record.
LEMMA NodeSays ==
  ASSUME NEW i
  PROVE  /\ Node(i).id = i
         /\ Node(i).tainted <=> i \in tainted_records
         /\ Node(i).retracted <=> i \in retracted_records
         /\ Node(i).requirements = IF i \in Accepted("Evaluation") THEN log[i].body.requirements ELSE {}
         /\ Node(i).standing = "sound" /\ log[i].kind = "Selection" => i \in Accepted("Selection") \ Unsound
<1>1. /\ Node(i).id = i
      /\ Node(i).tainted <=> i \in tainted_records
      /\ Node(i).retracted <=> i \in retracted_records
      /\ Node(i).requirements = IF i \in Accepted("Evaluation") THEN log[i].body.requirements ELSE {}
  BY Zenon DEF Node
<1>2. Node(i).standing = CASE i \in Accepted("Candidate") -> IF Stands[i] THEN "sound" ELSE "compromised"
                           [] i \in Accepted("Selection") -> IF i \in Unsound THEN "unsound" ELSE "sound"
                           [] OTHER -> "n/a"
  BY Zenon DEF Node
<1>3. log[i].kind = "Selection" => i \notin Accepted("Candidate")
  BY DEF Accepted
<1>4. Node(i).standing = "sound" /\ log[i].kind = "Selection" => i \in Accepted("Selection") \ Unsound
  BY <1>2, <1>3
<1> QED BY <1>1, <1>4

\* A decision that stands, and every report of one, rests on nothing that was
\* withdrawn, however late and through however many records the withdrawal came.
THEOREM DecisionsRestOnSound == EvSpec => []DecisionSound
<1>1. EvInv => SoundDecision
  <2> SUFFICES ASSUME EvInv, NEW s \in Accepted("Selection") \ Unsound
               PROVE  LET judgements == Evidences(log[s].refs)
                          rests == log[s].body.selected \union judgements
                                     \union {log[e].body.candidate : e \in judgements}
                                     \union UNION {log[e].body.requirements : e \in judgements}
                      IN  rests \intersect retracted_records = {}
    BY DEF SoundDecision
  <2>1. \A e \in Evidences(log[s].refs) : e \in Accepted("Evaluation") /\ e \in Targets(log[s].refs, "Use")
    BY DEF Evidences
  <2>2. \A p \in log[s].body.selected : p \notin retracted_records
    BY SoundRests
  <2>3. \A e \in Evidences(log[s].refs) :
          /\ e \notin retracted_records /\ log[e].body.candidate \notin retracted_records
          /\ \A q \in log[e].body.requirements : q \notin retracted_records
    BY <2>1, SoundRests
  <2> QED BY <2>2, <2>3
<1>2. EvInv => EvidenceSound
  <2> SUFFICES ASSUME EvInv PROVE EvidenceSound
    OBVIOUS
  <2>1. ASSUME NEW s, log[s].kind = "Selection", Node(s).standing = "sound",
               NEW e \in SelectionEvidence(s), e.id \in accepted_records
        PROVE  ~e.retracted /\ ~e.tainted /\ \A q \in e.requirements : ~Node(q).retracted
    <3>1. s \in Accepted("Selection") \ Unsound
      BY <2>1, NodeSays
    <3>2. PICK x \in Targets(log[s].refs, "Use") : e = Node(x) /\ log[x].kind = "Evaluation"
      BY DEF SelectionEvidence
    <3>3. x \in Accepted("Evaluation")
      BY <2>1, <3>2, NodeSays DEF Accepted
    <3>4. x \notin retracted_records /\ x \notin tainted_records
          /\ \A q \in log[x].body.requirements : q \notin retracted_records
      BY <3>1, <3>2, <3>3, SoundRests
    <3> QED BY <3>2, <3>3, <3>4, NodeSays
  <2>2. ASSUME NEW i, NEW entry \in Evidence(i), entry.selection.standing = "sound",
               NEW e \in entry.evidence, e.id \in accepted_records
        PROVE  ~e.retracted /\ ~e.tainted /\ \A q \in e.requirements : ~Node(q).retracted
    <3>1. PICK s : entry = [selection |-> Node(s), evidence |-> SelectionEvidence(s)] /\ log[s].kind = "Selection"
      BY Zenon DEF Evidence
    <3>2. Node(s).standing = "sound" /\ e \in SelectionEvidence(s)
      BY <2>2, <3>1
    <3> QED BY <2>1, <2>2, <3>1, <3>2
  <2>3. ASSUME NEW o, NEW entry \in Selected(o), entry.selection.standing = "sound", NEW c \in entry.chosen
        PROVE  ~c.retracted /\ ~c.tainted
    <3>1. PICK s \in Accepted("Selection") :
            entry = [selection |-> Node(s), chosen |-> {Node(p) : p \in log[s].body.selected},
                     evidence |-> SelectionEvidence(s)]
      BY DEF Selected
    <3>2. Node(s).standing = "sound" /\ log[s].kind = "Selection" /\ c \in {Node(p) : p \in log[s].body.selected}
      BY <2>3, <3>1 DEF Accepted
    <3>3. PICK p \in log[s].body.selected : c = Node(p)
      BY <3>2
    <3>4. s \in Accepted("Selection") \ Unsound
      BY <3>2, NodeSays
    <3>5. p \notin retracted_records /\ p \notin tainted_records
      BY <3>3, <3>4, SoundRests
    <3> QED BY <3>3, <3>5, NodeSays
  <2> QED BY <2>2, <2>3 DEF EvidenceSound
<1>3. EvInv => DecisionSound
  BY <1>1, <1>2 DEF DecisionSound
<1> QED BY <1>3, EvInvAlways, PTL

-----------------------------------------------------------------------------
(* Lines and the frontier *)

\* What a continuation continues was chosen by its anchor before it, while
\* nobody had withdrawn it, whatever was withdrawn since.
THEOREM LinesRunThroughDecisions == EvSpec => []ChosenLine
<1>1. EvInv => ChosenLine
  <2> SUFFICES ASSUME EvInv, NEW c \in Accepted("Candidate"), log[c].body.basis = "Continuation",
                      NEW s \in log[c].body.causes
               PROVE  /\ log[c].body.parent < s /\ s < c
                      /\ Ref("Require", log[c].body.parent) \in log[s].refs
                      /\ ~Withdrawn(log[c].body.parent, s)
    BY DEF ChosenLine
  <2>1. s \in Accepted("Selection") /\ s < c /\ log[c].body.parent \in log[s].body.selected
    BY DEF EvInv, RecordFacts, ContinueFact
  <2> QED BY <2>1 DEF EvInv, RecordFacts, DecideFact
<1> QED BY <1>1, EvInvAlways, PTL

\* Every step adds one record.
LEMMA EvNextAdds ==
  ASSUME EvInv, EvNext
  PROVE  \E K : Adds(K)
<1>1. (\E kind, a, body, refs : Accept(kind, a, body, refs)) \/ Reject
  <2>1. CASE \E a \in Authors, th \in Threads : Develop(a, th)
    <3>1. PICK a, th : Develop(a, th)
      BY <2>1
    <3>2. CASE \E basis, parent, causes, b, uses : Propose(a, basis, parent, causes, b, uses)
      BY <3>2 DEF Propose
    <3>3. CASE \E c, reqs, s, j, uses : CommitEvaluation(a, c, reqs, s, j, uses)
      BY <3>3, Zenon DEF CommitEvaluation
    <3>4. CASE \E d, r, uses : CommitSelection(a, th, d, r, uses)
      BY <3>4, Zenon DEF CommitSelection
    <3>5. CASE \E target, uses : Retract(a, th, target, uses)
      BY <3>5, Zenon DEF Retract, CommitRetraction
    <3> QED BY <3>1, <3>2, <3>3, <3>4, <3>5 DEF Develop, CommitRoot, CommitContinuation, CommitDerivation
  <2>2. CASE \E a \in Authors, th \in Threads : Demand(a, th)
    <3>1. PICK a, th : Demand(a, th)
      BY <2>2
    <3>2. CASE \E sc, p, uses : CommitRequest(a, th, sc, p, uses)
      BY <3>2, Zenon DEF CommitRequest
    <3>3. CASE \E req, key, required : CommitRequirement(a, th, req, key, required)
      BY <3>3, Zenon DEF CommitRequirement
    <3>4. CASE \E hash, actor, sc, e, repl : ApproveSelection(a, hash, actor, sc, e, repl)
      BY <3>4, Zenon DEF ApproveSelection
    <3> QED BY <3>1, <3>2, <3>3, <3>4 DEF Demand
  <2>3. CASE CommitRejected
    BY <2>3 DEF CommitRejected
  <2>4. CASE \E a \in Authors, th \in Threads : Perform(a, th)
    <3>1. PICK kind : Commits(kind)
      BY <2>4, PerformCommits
    <3> QED BY <3>1 DEF Commits
  <2> QED BY <2>1, <2>2, <2>3, <2>4 DEF EvNext
<1>2. LogInv
  BY DEF EvInv, LedgerInv
<1>3. CASE \E kind, a, body, refs : Accept(kind, a, body, refs)
  BY <1>2, <1>3, AcceptAdds
<1>4. CASE Reject
  BY <1>2, <1>4, RejectAdds
<1> QED BY <1>1, <1>3, <1>4

\* What is continued was chosen, and what was chosen was considered.
LEMMA FrontierNested ==
  ASSUME EvInv
  PROVE  Continued \subseteq Chosen /\ Chosen \subseteq Considered
<1>1. ASSUME NEW p \in Continued PROVE p \in Chosen
  <2>1. PICK c \in Accepted("Candidate") : log[c].body.basis = "Continuation" /\ p = log[c].body.parent
    BY <1>1 DEF Continued
  <2>2. PICK s \in Accepted("Selection") : p \in log[s].body.selected
    BY <2>1 DEF EvInv, RecordFacts, ContinueFact
  <2> QED BY <2>2 DEF Chosen
<1>2. ASSUME NEW p \in Chosen PROVE p \in Considered
  <2>1. PICK s \in Accepted("Selection") : p \in log[s].body.selected
    BY <1>2 DEF Chosen
  <2> QED BY <2>1 DEF Considered, EvInv, RecordFacts, DecideFact
<1> QED BY <1>1, <1>2

\* What a step adds to them.
LEMMA FrontierGrows ==
  ASSUME EvInv, NEW K, Adds(K), NEW n, n = NextId, NEW c
  PROVE  /\ c \in Considered' <=> c \in Considered \/ ("Selection" \in K /\ c \in log'[n].body.considered)
         /\ c \in Chosen' <=> c \in Chosen \/ ("Selection" \in K /\ c \in log'[n].body.selected)
         /\ c \in Continued' <=> \/ c \in Continued
                                 \/ /\ "Candidate" \in K /\ log'[n].body.basis = "Continuation"
                                    /\ c = log'[n].body.parent
<1>1. LogInv
  BY DEF EvInv, LedgerInv
<1>2. \A k : \A i \in Accepted(k) : log'[i] = log[i]
  BY <1>1, AddedFacts
<1>3. \A k, i : i \in Accepted(k)' <=> i \in Accepted(k) \/ (i = n /\ k \in K)
  BY <1>1, AddedFacts
<1>4. c \in Considered' <=> c \in Considered \/ ("Selection" \in K /\ c \in log'[n].body.considered)
  BY <1>2, <1>3 DEF Considered
<1>5. c \in Chosen' <=> c \in Chosen \/ ("Selection" \in K /\ c \in log'[n].body.selected)
  BY <1>2, <1>3 DEF Chosen
<1>6. c \in Continued' <=> \/ c \in Continued
                           \/ /\ "Candidate" \in K /\ log'[n].body.basis = "Continuation"
                              /\ c = log'[n].body.parent
  BY <1>2, <1>3 DEF Continued
<1> QED BY <1>4, <1>5, <1>6

\* A candidate moves on the frontier only by a decision that considers it or by
\* a continuation of it, and only forward; a retraction moves nothing.
THEOREM FrontierMovesForward == EvSpec => FrontierForward
<1> DEFINE Moves ==
      \A c \in Accepted("Candidate") :
        FrontierReason(c)' # FrontierReason(c) =>
          LET new == log'[NextId]
          IN  \/ new.kind = "Selection" /\ c \in new.body.considered
                 /\ FrontierReason(c)' # "unconsidered" /\ c \notin Continued
              \/ new.kind = "Candidate" /\ new.body.parent = c
                 /\ FrontierReason(c)' = "none"
           Nested == Continued \subseteq Chosen /\ Chosen \subseteq Considered
<1>1. EvInv => Nested
  BY FrontierNested
<1>2. EvInv' => Nested'
  BY <1>1, PTL
<1>3. EvInv /\ [EvNext]_evolution => [Moves]_evolution
  <2> SUFFICES ASSUME EvInv, EvNext PROVE Moves
    OBVIOUS
  <2>1. PICK K : Adds(K)
    BY EvNextAdds
  <2>2. PICK n : n = NextId
    OBVIOUS
  <2>3. EvInv'
    BY EvNextKeeps
  <2> SUFFICES ASSUME NEW c \in Accepted("Candidate"), FrontierReason(c)' # FrontierReason(c)
               PROVE  \/ /\ log'[n].kind = "Selection" /\ c \in log'[n].body.considered
                         /\ FrontierReason(c)' # "unconsidered" /\ c \notin Continued
                      \/ log'[n].kind = "Candidate" /\ log'[n].body.parent = c /\ FrontierReason(c)' = "none"
    BY <2>2
  <2>4. /\ c \in Considered' <=> c \in Considered \/ ("Selection" \in K /\ c \in log'[n].body.considered)
        /\ c \in Chosen' <=> c \in Chosen \/ ("Selection" \in K /\ c \in log'[n].body.selected)
        /\ c \in Continued' <=> \/ c \in Continued
                                \/ /\ "Candidate" \in K /\ log'[n].body.basis = "Continuation"
                                   /\ c = log'[n].body.parent
    BY <2>1, <2>2, FrontierGrows
  <2>5. \A k \in K : log'[n].kind = k
    <3>1. LogInv
      BY DEF EvInv, LedgerInv
    <3>2. \A k \in K : n \in Accepted(k)'
      BY <2>1, <2>2, <3>1, AddedFacts
    <3> QED BY <3>2 DEF Accepted
  <2>6. /\ c \in Continued => c \in Chosen /\ c \in Considered
        /\ c \in Chosen => c \in Considered
    BY FrontierNested
  <2>7. Continued' \subseteq Chosen' /\ Chosen' \subseteq Considered'
    BY <1>2, <2>3
  <2>8. /\ c \in Continued' => c \in Chosen' /\ c \in Considered'
        /\ c \in Chosen' => c \in Considered'
    BY <2>7
  <2>9. /\ c \notin Considered => FrontierReason(c) = "unconsidered"
        /\ c \in Considered /\ c \in Chosen /\ c \notin Continued => FrontierReason(c) = "selected-no-continuation"
        /\ c \in Considered /\ ~(c \in Chosen /\ c \notin Continued) => FrontierReason(c) = "none"
    BY DEF FrontierReason
  <2>10. /\ c \notin Considered' => FrontierReason(c)' = "unconsidered"
         /\ c \in Considered' /\ c \in Chosen' /\ c \notin Continued' => FrontierReason(c)' = "selected-no-continuation"
         /\ c \in Considered' /\ ~(c \in Chosen' /\ c \notin Continued') => FrontierReason(c)' = "none"
    BY DEF FrontierReason
  <2>11. CASE "Selection" \in K /\ c \in log'[n].body.considered
    <3>1. log'[n].kind = "Selection" /\ "Candidate" \notin K
      BY <2>5, <2>11
    <3>2. c \in Considered' /\ FrontierReason(c)' # "unconsidered"
      BY <2>4, <2>10, <2>11
    <3>3. c \notin Continued
      BY <2>4, <2>6, <2>8, <2>9, <2>10, <3>1
    <3> QED BY <2>11, <3>1, <3>2, <3>3
  <2>12. CASE "Candidate" \in K /\ log'[n].body.basis = "Continuation" /\ c = log'[n].body.parent
    BY <2>4, <2>5, <2>8, <2>10, <2>12
  <2>13. CASE /\ ~("Selection" \in K /\ c \in log'[n].body.considered)
              /\ ~("Candidate" \in K /\ log'[n].body.basis = "Continuation" /\ c = log'[n].body.parent)
    <3>1. (c \in Considered' <=> c \in Considered) /\ (c \in Continued' <=> c \in Continued)
      BY <2>4, <2>13
    <3>2. c \in Chosen' <=> c \in Chosen
      <4>1. "Selection" \in K /\ c \in log'[n].body.selected => c \in log'[n].body.considered
        <5>1. LogInv
          BY DEF EvInv, LedgerInv
        <5>2. "Selection" \in K => n \in Accepted("Selection")'
          BY <2>1, <2>2, <5>1, AddedFacts
        <5>3. \A s \in Accepted("Selection")' : log'[s].body.selected \subseteq log'[s].body.considered
          BY <2>3 DEF EvInv, RecordFacts, DecideFact
        <5> QED BY <5>2, <5>3
      <4> QED BY <2>4, <2>13, <4>1
    <3> QED BY <2>9, <2>10, <3>1, <3>2
  <2> QED BY <2>11, <2>12, <2>13
<1> QED BY <1>3, EvInvAlways, PTL DEF EvSpec, FrontierForward
=============================================================================
