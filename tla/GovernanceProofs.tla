-------------------------- MODULE GovernanceProofs --------------------------
(***************************************************************************)
(* Taint, evidence, authority and the life of requests, for every set of      *)
(* actors, threads, classes and scopes, every setting and every length of     *)
(* the log.                                                                  *)
(***************************************************************************)
EXTENDS Context, TLAPS, FiniteSetTheorems, SequenceTheorems, WellFoundedInduction

-----------------------------------------------------------------------------
(* The log and its accepted records *)

IsLog(l) == \E S : l \in Seq(S)

\* The log stays within its bound; accepted records are in it and rest on
\* earlier records only.
LogInv ==
  /\ IsLog(log)
  /\ bounds.records \in 0..MaxRecords
  /\ Len(log) \in 0..MaxRecords
  /\ accepted_records \subseteq 1..Len(log)
  /\ \A i \in accepted_records : Rests(log[i].refs) \subseteq 1..(i - 1)

\* A step adds one record to the log, accepted with kind k if k is in K.
Adds(K) ==
  /\ Room
  /\ Len(log') = Len(log) + 1
  /\ \A i \in 1..Len(log) : log'[i] = log[i]
  /\ accepted_records \subseteq accepted_records'
  /\ \A k : Accepted(k)' = Accepted(k) \union (IF k \in K THEN {NextId} ELSE {})

LEMMA AppendAt ==
  ASSUME NEW l, NEW e, IsLog(l)
  PROVE  /\ IsLog(Append(l, e))
         /\ Len(l) \in Nat
         /\ Len(Append(l, e)) = Len(l) + 1
         /\ \A i \in 1..Len(l) : Append(l, e)[i] = l[i]
         /\ Append(l, e)[Len(l) + 1] = e
<1>1. PICK S : l \in Seq(S)
  BY DEF IsLog
<1> DEFINE T == S \union {e}
<1>2. l \in Seq(T) /\ e \in T
  BY <1>1
<1> HIDE DEF T
<1>3. Append(l, e) \in Seq(T)
  BY <1>2
<1> QED BY <1>2, <1>3 DEF IsLog

LEMMA AcceptAdds ==
  ASSUME LogInv, NEW kind, NEW author, NEW body, NEW refs, Accept(kind, author, body, refs)
  PROVE  /\ LogInv'
         /\ Adds({kind})
         /\ NextId \in Ids /\ NextId \notin accepted_records
         /\ accepted_records' = accepted_records \union {NextId}
         /\ log'[NextId].kind = kind /\ log'[NextId].author = author
         /\ log'[NextId].refs = refs /\ log'[NextId].body = body
         /\ log'[NextId].evidence = DeriveEvidence(kind, body, refs)
         /\ \A r \in refs : r.target \in 1..Len(log)
         /\ Rests(refs) \subseteq 1..Len(log)
<1> DEFINE e == [accepted |-> TRUE, kind |-> kind, author |-> author, refs |-> refs,
                 body |-> body, evidence |-> DeriveEvidence(kind, body, refs)]
<1>1. log' = Append(log, e) /\ accepted_records' = accepted_records \union {NextId} /\ bounds' = bounds
  BY DEF Accept, setting
<1>2. Len(log) < bounds.records /\ Room
  BY DEF Accept, Room
<1>3. \A r \in refs : r.target \in 1..Len(log)
  BY DEF Accept, Checked, Resolves
<1>4. Rests(refs) \subseteq 1..Len(log)
  BY <1>3 DEF Rests, Targets
<1>5. /\ e.kind = kind /\ e.author = author /\ e.refs = refs /\ e.body = body
      /\ e.evidence = DeriveEvidence(kind, body, refs)
  OBVIOUS
<1> HIDE DEF e
<1>6. /\ IsLog(log') /\ Len(log) \in Nat /\ Len(log') = Len(log) + 1
      /\ \A i \in 1..Len(log) : log'[i] = log[i]
      /\ log'[NextId] = e
  BY <1>1, AppendAt DEF LogInv, NextId
<1>7. Len(log') \in 0..MaxRecords /\ NextId \in Ids /\ NextId \notin accepted_records
  BY <1>2, <1>6, LedgerConstants DEF LogInv, Ids, NextId
<1>8. \A i \in accepted_records' : Rests(log'[i].refs) \subseteq 1..(i - 1)
  BY <1>1, <1>4, <1>5, <1>6 DEF LogInv, NextId
<1>9. accepted_records' \subseteq 1..Len(log')
  <2>1. \A i \in accepted_records : i \in 1..Len(log')
    BY <1>6 DEF LogInv
  <2>2. NextId \in 1..Len(log')
    BY <1>6 DEF NextId
  <2> QED BY <1>1, <2>1, <2>2
<1>10. LogInv'
  BY <1>1, <1>6, <1>7, <1>8, <1>9 DEF LogInv
<1>11. \A k : Accepted(k)' = Accepted(k) \union (IF k \in {kind} THEN {NextId} ELSE {})
  BY <1>1, <1>5, <1>6, <1>7 DEF Accepted, LogInv
<1> QED BY <1>1, <1>2, <1>3, <1>4, <1>5, <1>6, <1>7, <1>10, <1>11 DEF Adds

LEMMA RejectAdds ==
  ASSUME LogInv, Reject
  PROVE  LogInv' /\ Adds({}) /\ NextId \notin accepted_records
<1> DEFINE e == [accepted |-> FALSE, kind |-> "Evaluation"]
<1>1. log' = Append(log, e) /\ accepted_records' = accepted_records /\ bounds' = bounds /\ Room
  BY DEF Reject, setting
<1> HIDE DEF e
<1>2. /\ IsLog(log') /\ Len(log) \in Nat /\ Len(log') = Len(log) + 1
      /\ \A i \in 1..Len(log) : log'[i] = log[i]
  BY <1>1, AppendAt DEF LogInv, NextId
<1>3. Len(log') \in 0..MaxRecords /\ NextId \notin accepted_records
  BY <1>1, <1>2, LedgerConstants DEF LogInv, NextId, Room
<1>4. LogInv'
  BY <1>1, <1>2, <1>3 DEF LogInv
<1>5. \A k : Accepted(k)' = Accepted(k) \union (IF k \in {} THEN {NextId} ELSE {})
  BY <1>1, <1>2 DEF Accepted, LogInv
<1> QED BY <1>1, <1>2, <1>3, <1>4, <1>5 DEF Adds

-----------------------------------------------------------------------------
(* Taint and evidence *)

\* The dependence index inverts the references, retracted records are the
\* targets of retractions, and taint is exact.
TaintInv ==
  /\ epistemic_dependents = [t \in Ids |-> {i \in accepted_records : t \in Rests(log[i].refs)}]
  /\ retracted_records = {log[j].body.target : j \in Accepted("Retraction")}
  /\ retracted_records \subseteq accepted_records
  /\ TaintExact

EvidenceInv ==
  /\ \A i \in accepted_records : log[i].evidence \in 0..4
  /\ NoInflation

LedgerInv == LogInv /\ TaintInv /\ EvidenceInv

\* The cascade has its seeds and, of what it has that was not tainted, the
\* dependents; and it is in every set that has them.
LEMMA CascadeLeast ==
  ASSUME NEW deps, NEW seeds, seeds \subseteq 1..NextId, \A j \in 1..NextId : deps[j] \subseteq 1..NextId
  PROVE  /\ Cascade(deps, seeds) \subseteq 1..NextId
         /\ seeds \subseteq Cascade(deps, seeds)
         /\ \A j \in Cascade(deps, seeds) \ tainted_records : deps[j] \subseteq Cascade(deps, seeds)
         /\ \A S \in SUBSET (1..NextId) :
              (seeds \subseteq S /\ \A j \in S \ tainted_records : deps[j] \subseteq S)
                => Cascade(deps, seeds) \subseteq S
<1> DEFINE N == 1..NextId
           C == Cascade(deps, seeds)
           Closed(S) == seeds \subseteq S /\ \A j \in S \ tainted_records : deps[j] \subseteq S
<1>1. \A i : i \in C <=> i \in N /\ \A S \in SUBSET N : Closed(S) => i \in S
  BY DEF Cascade
<1> HIDE DEF C
<1>2. C \subseteq N /\ seeds \subseteq C
  BY <1>1
<1>3. ASSUME NEW j \in C \ tainted_records PROVE deps[j] \subseteq C
  <2> SUFFICES ASSUME NEW i \in deps[j] PROVE i \in C
    OBVIOUS
  <2>1. i \in N
    BY <1>2
  <2>2. ASSUME NEW S \in SUBSET N, Closed(S) PROVE i \in S
    BY <1>1, <2>2
  <2> QED BY <1>1, <2>1, <2>2
<1>4. ASSUME NEW S \in SUBSET N, Closed(S) PROVE C \subseteq S
  BY <1>1, <1>4
<1> QED BY <1>2, <1>3, <1>4 DEF C

\* The new index inverts the references of the longer log.
LEMMA IndexedInverts ==
  ASSUME LogInv, TaintInv, NEW kind, NEW author, NEW body, NEW refs, Accept(kind, author, body, refs)
  PROVE  /\ epistemic_dependents' = Indexed(refs)
         /\ epistemic_dependents' = [t \in Ids |-> {i \in accepted_records' : t \in Rests(log'[i].refs)}]
         /\ \A t \in Ids : Indexed(refs)[t] = {i \in accepted_records' : t \in Rests(log'[i].refs)}
         /\ \A j \in 1..NextId : Indexed(refs)[j] \subseteq 1..NextId
         /\ Indexed(refs)[NextId] = {}
<1>1. /\ LogInv' /\ NextId \in Ids /\ NextId \notin accepted_records
      /\ accepted_records' = accepted_records \union {NextId}
      /\ log'[NextId].refs = refs
      /\ Rests(refs) \subseteq 1..Len(log)
      /\ \A i \in 1..Len(log) : log'[i] = log[i]
      /\ Len(log') = Len(log) + 1
  BY AcceptAdds DEF Adds
<1>2. epistemic_dependents' = Indexed(refs)
  BY DEF Accept
<1>3. \A t \in Ids : Indexed(refs)[t] = {i \in accepted_records' : t \in Rests(log'[i].refs)}
  <2> SUFFICES ASSUME NEW t \in Ids PROVE Indexed(refs)[t] = {i \in accepted_records' : t \in Rests(log'[i].refs)}
    OBVIOUS
  <2>1. epistemic_dependents[t] = {i \in accepted_records : t \in Rests(log[i].refs)}
    BY DEF TaintInv
  <2>2. Indexed(refs)[t] = epistemic_dependents[t] \union (IF t \in Rests(refs) THEN {NextId} ELSE {})
    BY DEF Indexed
  <2>3. \A i \in accepted_records : log'[i] = log[i]
    BY <1>1 DEF LogInv
  <2> QED BY <1>1, <2>1, <2>2, <2>3
<1>4. Indexed(refs) = [t \in Ids |-> Indexed(refs)[t]]
  BY DEF Indexed
<1>5. epistemic_dependents' = [t \in Ids |-> {i \in accepted_records' : t \in Rests(log'[i].refs)}]
  BY <1>2, <1>3, <1>4
<1>6. 1..NextId \subseteq Ids /\ accepted_records' \subseteq 1..NextId
  BY <1>1, LedgerConstants DEF LogInv, Ids, NextId
<1>7. \A i \in accepted_records' : NextId \notin Rests(log'[i].refs)
  BY <1>1 DEF LogInv, NextId
<1> QED BY <1>1, <1>2, <1>3, <1>5, <1>6, <1>7

\* The records retracted, and those that the new record rests on.
LEMMA NewestIsUnused ==
  ASSUME LogInv, TaintInv, NEW kind, NEW author, NEW body, NEW refs, Accept(kind, author, body, refs)
  PROVE  /\ \A i \in accepted_records' : NextId \notin Rests(log'[i].refs)
         /\ \A i \in accepted_records : log'[i] = log[i] /\ i # NextId
         /\ log'[NextId].refs = refs
         /\ NextId \notin tainted_records /\ NextId \notin retracted_records
         /\ tainted_records \subseteq accepted_records
<1>1. LogInv' /\ Adds({kind}) /\ NextId \notin accepted_records /\ log'[NextId].refs = refs
  BY AcceptAdds, Zenon
<1>2. \A i \in accepted_records' : NextId \notin Rests(log'[i].refs)
  BY <1>1 DEF LogInv, Adds, NextId
<1>3. tainted_records \subseteq accepted_records
  BY DEF TaintInv, TaintExact
<1> QED BY <1>1, <1>2, <1>3 DEF LogInv, Adds, TaintInv

\* What an accepted record that is no Retraction does to the taint sets.
LEMMA ClaimsTaint ==
  ASSUME LogInv, TaintInv, NEW kind, NEW author, NEW body, NEW refs, kind # "Retraction",
         Accept(kind, author, body, refs), Claims(refs)
  PROVE  TaintInv'
<1>1. /\ \A i \in accepted_records' : NextId \notin Rests(log'[i].refs)
      /\ \A i \in accepted_records : log'[i] = log[i] /\ i # NextId
      /\ log'[NextId].refs = refs
      /\ NextId \notin tainted_records
      /\ tainted_records \subseteq accepted_records
  BY NewestIsUnused
<1>2. accepted_records' = accepted_records \union {NextId} /\ LogInv' /\ Adds({kind})
  BY AcceptAdds, Zenon
<1>3. epistemic_dependents' = [t \in Ids |-> {i \in accepted_records' : t \in Rests(log'[i].refs)}]
  BY IndexedInverts, Zenon
<1>4. retracted_records' = retracted_records
  BY DEF Claims
<1>5. retracted_records' = {log'[j].body.target : j \in Accepted("Retraction")'}
  <2>1. Accepted("Retraction")' = Accepted("Retraction")
    BY <1>2 DEF Adds
  <2>2. \A j \in Accepted("Retraction") : log'[j] = log[j]
    BY <1>1 DEF Accepted
  <2>3. {log'[j].body.target : j \in Accepted("Retraction")} = {log[j].body.target : j \in Accepted("Retraction")}
    BY <2>2
  <2> QED BY <1>4, <2>1, <2>3 DEF TaintInv
<1>6. tainted_records' = tainted_records \union (IF Inherits(refs) THEN {NextId} ELSE {})
  <2> DEFINE deps == Indexed(refs)
  <2>1. deps[NextId] = {} /\ \A j \in 1..NextId : deps[j] \subseteq 1..NextId
    BY IndexedInverts, Zenon
  <2>2. {NextId} \subseteq 1..NextId
    BY DEF NextId, LogInv
  <2>3. Cascade(deps, {NextId}) = {NextId}
    <3> HIDE DEF deps
    <3>1. {NextId} \subseteq Cascade(deps, {NextId})
      BY <2>1, <2>2, CascadeLeast
    <3>2. \A j \in {NextId} \ tainted_records : deps[j] \subseteq {NextId}
      BY <2>1
    <3>3. {NextId} \in SUBSET (1..NextId)
      BY <2>2
    <3>4. Cascade(deps, {NextId}) \subseteq {NextId}
      BY <2>1, <2>2, <3>2, <3>3, CascadeLeast
    <3> QED BY <3>1, <3>4
  <2> QED BY <2>3 DEF Claims
<1>7. TaintExact'
  <2> DEFINE lost == retracted_records \union tainted_records
  <2>0. tainted_records = {i \in accepted_records : Rests(log[i].refs) \intersect lost # {}}
    BY DEF TaintInv, TaintExact
  <2>1. \A i \in accepted_records : i \in tainted_records <=> Rests(log[i].refs) \intersect lost # {}
    <3> HIDE DEF lost
    <3> QED BY <2>0
  <2>2. \A i \in accepted_records :
          i \in tainted_records' <=> Rests(log'[i].refs) \intersect (retracted_records' \union tainted_records') # {}
    BY <1>1, <1>2, <1>4, <1>6, <2>1
  <2>3. NextId \in tainted_records' <=>
          Rests(log'[NextId].refs) \intersect (retracted_records' \union tainted_records') # {}
    BY <1>1, <1>2, <1>4, <1>6 DEF Inherits
  <2>4. tainted_records' \subseteq accepted_records'
    BY <1>1, <1>2, <1>6
  <2> QED BY <1>2, <2>2, <2>3, <2>4 DEF TaintExact
<1>8. retracted_records' \subseteq accepted_records'
  BY <1>2, <1>4 DEF TaintInv
<1> QED BY <1>3, <1>5, <1>7, <1>8 DEF TaintInv

\* What an accepted Retraction does to them.
LEMMA WithdrawsTaint ==
  ASSUME LogInv, TaintInv, NEW author, NEW body, NEW refs, NEW target \in accepted_records,
         body.target = target, Accept("Retraction", author, body, refs), Withdraws(target, refs)
  PROVE  TaintInv'
<1> DEFINE deps == Indexed(refs)
           C == Cascade(deps, deps[target])
           N == 1..NextId
<1>1. /\ \A i \in accepted_records' : NextId \notin Rests(log'[i].refs)
      /\ \A i \in accepted_records : log'[i] = log[i] /\ i # NextId
      /\ log'[NextId].refs = refs
      /\ NextId \notin tainted_records
      /\ tainted_records \subseteq accepted_records
  BY NewestIsUnused
<1>2. /\ accepted_records' = accepted_records \union {NextId} /\ LogInv' /\ Adds({"Retraction"})
      /\ log'[NextId].body = body
  BY AcceptAdds
<1>3. /\ epistemic_dependents' = [t \in Ids |-> {i \in accepted_records' : t \in Rests(log'[i].refs)}]
      /\ \A t \in Ids : deps[t] = {i \in accepted_records' : t \in Rests(log'[i].refs)}
      /\ \A j \in N : deps[j] \subseteq N
      /\ deps[NextId] = {}
  BY IndexedInverts
<1>4. retracted_records' = retracted_records \union {target}
  BY DEF Withdraws
<1>5. retracted_records' = {log'[j].body.target : j \in Accepted("Retraction")'}
  <2>1. Accepted("Retraction")' = Accepted("Retraction") \union {NextId}
    BY <1>2 DEF Adds
  <2>2. \A j \in Accepted("Retraction") : log'[j] = log[j]
    BY <1>1 DEF Accepted
  <2>3. {log'[j].body.target : j \in Accepted("Retraction") \union {NextId}}
          = {log[j].body.target : j \in Accepted("Retraction")} \union {log'[NextId].body.target}
    BY <2>2
  <2> QED BY <1>2, <1>4, <2>1, <2>3 DEF TaintInv
<1>6. target \in N /\ target \in Ids /\ accepted_records' \subseteq N /\ N \subseteq Ids
  BY <1>2, LedgerConstants DEF LogInv, NextId, Ids, Adds
<1> DEFINE own == IF Inherits(refs) THEN {NextId} ELSE {}
<1>7. Inherits(refs) => Cascade(deps, {NextId}) = {NextId}
  <2> HIDE DEF deps
  <2>1. NextId \in N
    BY DEF NextId, LogInv
  <2>2. {NextId} \subseteq Cascade(deps, {NextId})
    BY <1>3, <2>1, CascadeLeast
  <2>3. \A j \in {NextId} \ tainted_records : deps[j] \subseteq {NextId}
    BY <1>3
  <2>4. {NextId} \in SUBSET N
    BY <2>1
  <2>5. Cascade(deps, {NextId}) \subseteq {NextId}
    BY <1>3, <2>1, <2>3, <2>4, CascadeLeast
  <2> QED BY <2>2, <2>5
<1>8. tainted_records' = tainted_records \union own \union C
  BY <1>7 DEF Withdraws
<1>9. /\ C \subseteq N /\ deps[target] \subseteq C
      /\ \A j \in C \ tainted_records : deps[j] \subseteq C
      /\ \A S \in SUBSET N :
           (deps[target] \subseteq S /\ \A j \in S \ tainted_records : deps[j] \subseteq S) => C \subseteq S
  <2> HIDE DEF deps
  <2> QED BY <1>3, <1>6, CascadeLeast
<1> DEFINE lost == retracted_records' \union tainted_records'
           Fallen(i) == Rests(log'[i].refs) \intersect lost # {}
           S == {i \in C : i \in accepted_records' /\ Fallen(i)}
<1> HIDE DEF deps, C, N, own
<1>10. C \subseteq S
  <2>1. S \in SUBSET N
    BY <1>9
  <2>2. deps[target] \subseteq S
    BY <1>3, <1>4, <1>6, <1>9
  <2>3. ASSUME NEW j \in S \ tainted_records PROVE deps[j] \subseteq S
    BY <1>3, <1>6, <1>8, <1>9
  <2> QED BY <1>9, <2>1, <2>2, <2>3
<1>11. \A i \in accepted_records : i \in tainted_records <=>
          Rests(log'[i].refs) \intersect (retracted_records \union tainted_records) # {}
  <2> DEFINE past == retracted_records \union tainted_records
  <2>1. tainted_records = {i \in accepted_records : Rests(log[i].refs) \intersect past # {}}
    BY DEF TaintInv, TaintExact
  <2> HIDE DEF past
  <2>2. \A i \in accepted_records : i \in tainted_records <=> Rests(log'[i].refs) \intersect past # {}
    BY <1>1, <2>1
  <2> QED BY <2>2 DEF past
<1>12. ASSUME NEW i \in tainted_records' PROVE i \in accepted_records' /\ Fallen(i)
  <2>1. CASE i \in tainted_records
    BY <1>1, <1>2, <1>4, <1>8, <1>11, <2>1
  <2>2. CASE i \in own
    BY <1>1, <1>2, <1>4, <1>8, <2>2 DEF own, Inherits
  <2>3. CASE i \in C
    BY <1>10, <2>3
  <2> QED BY <1>8, <2>1, <2>2, <2>3
<1>13. ASSUME NEW i \in accepted_records', Fallen(i) PROVE i \in tainted_records'
  <2>1. PICK x \in Rests(log'[i].refs) : x \in lost
    BY <1>13
  <2>2. x # NextId
    BY <1>1, <2>1
  <2>3. x \in N
    BY <1>4, <1>6, <1>8, <1>9, <1>1, <1>2, <2>1, <2>2 DEF TaintInv, own
  <2>4. i \in deps[x]
    BY <1>3, <1>6, <2>1, <2>3
  <2>5. CASE x = target
    BY <1>8, <1>9, <2>4, <2>5
  <2>6. CASE x \in C \ tainted_records
    BY <1>8, <1>9, <2>4, <2>6
  <2>7. CASE x \in retracted_records \union tainted_records
    <3>1. CASE i \in accepted_records
      BY <1>8, <1>11, <2>1, <2>7, <3>1
    <3>2. CASE i = NextId
      BY <1>1, <1>8, <2>1, <2>7, <3>2 DEF own, Inherits
    <3> QED BY <1>2, <3>1, <3>2
  <2> QED BY <1>4, <1>8, <2>1, <2>2, <2>5, <2>6, <2>7 DEF own
<1>14. TaintExact'
  <2>1. \A i : i \in tainted_records' <=> i \in accepted_records' /\ Fallen(i)
    BY <1>12, <1>13
  <2>2. tainted_records' = {i \in accepted_records' : Fallen(i)}
    <3> HIDE DEF Fallen
    <3> QED BY <2>1
  <2> QED BY <2>2 DEF TaintExact
<1>15. retracted_records' \subseteq accepted_records'
  BY <1>2, <1>4 DEF TaintInv
<1> QED BY <1>3, <1>5, <1>14, <1>15 DEF TaintInv

\* The class that a record derives is the weakest of its classes.
LEMMA DerivedIsWeakest ==
  ASSUME LogInv, \A i \in accepted_records : log[i].evidence \in 0..4, NEW kind, NEW body, NEW refs
  PROVE  /\ DeriveEvidence(kind, body, refs) \in 0..4
         /\ \A t \in Rests(refs) : RefEvidence(t) \in 0..4 /\ RefEvidence(t) <= DeriveEvidence(kind, body, refs)
<1> DEFINE classes == {BaseEvidence(kind, body)} \union {RefEvidence(t) : t \in Rests(refs)}
<1>1. BaseEvidence(kind, body) \in 0..4
  BY DEF BaseEvidence
<1>2. \A t \in Rests(refs) : RefEvidence(t) \in 0..4
  BY DEF RefEvidence, Sound, Assumed
<1>3. classes \subseteq 0..4 /\ classes # {} /\ \A t \in Rests(refs) : RefEvidence(t) \in classes
  BY <1>1, <1>2
<1>4. DeriveEvidence(kind, body, refs) = CHOOSE e \in 0..4 : e \in classes /\ \A c \in classes : c <= e
  BY DEF DeriveEvidence
<1> HIDE DEF classes
<1>5. \E e \in 0..4 : e \in classes /\ \A c \in classes : c <= e
  <2>1. \A c \in classes : c = 0 \/ c = 1 \/ c = 2 \/ c = 3 \/ c = 4
    BY <1>3
  <2>2. CASE 4 \in classes
    BY <2>1, <2>2
  <2>3. CASE 4 \notin classes /\ 3 \in classes
    BY <2>1, <2>3
  <2>4. CASE 4 \notin classes /\ 3 \notin classes /\ 2 \in classes
    BY <2>1, <2>4
  <2>5. CASE 4 \notin classes /\ 3 \notin classes /\ 2 \notin classes /\ 1 \in classes
    BY <2>1, <2>5
  <2>6. CASE classes = {0}
    BY <2>6
  <2> QED BY <1>3, <2>1, <2>2, <2>3, <2>4, <2>5, <2>6
<1> QED BY <1>2, <1>3, <1>4, <1>5

LEMMA AcceptEvidence ==
  ASSUME LedgerInv, NEW kind, NEW author, NEW body, NEW refs, Accept(kind, author, body, refs)
  PROVE  EvidenceInv'
<1>1. /\ accepted_records' = accepted_records \union {NextId} /\ NextId \notin accepted_records
      /\ LogInv' /\ Adds({kind})
      /\ log'[NextId].refs = refs /\ log'[NextId].evidence = DeriveEvidence(kind, body, refs)
      /\ Rests(refs) \subseteq 1..Len(log)
  BY AcceptAdds DEF LedgerInv
<1>2. \A i \in accepted_records : log'[i] = log[i] /\ Rests(log[i].refs) \subseteq 1..(i-1) /\ i \in 1..Len(log)
  BY <1>1 DEF LedgerInv, LogInv, Adds
<1>3. \A i \in accepted_records : log[i].evidence \in 0..4
  BY DEF LedgerInv, EvidenceInv
<1>4. /\ DeriveEvidence(kind, body, refs) \in 0..4
      /\ \A t \in Rests(refs) : RefEvidence(t) \in 0..4 /\ RefEvidence(t) <= DeriveEvidence(kind, body, refs)
  BY <1>3, DerivedIsWeakest DEF LedgerInv
<1>5. \A i \in accepted_records' : log'[i].evidence \in 0..4
  BY <1>1, <1>2, <1>3, <1>4
<1>6. \A j \in Accepted("Retraction") : log[j].body.target \in retracted_records /\ log'[j] = log[j] /\ j \in accepted_records
  BY <1>2 DEF LedgerInv, TaintInv, Accepted
<1>7. \A j \in Accepted("Retraction")' : j \in Accepted("Retraction") \/ j = NextId
  BY <1>1 DEF Adds
<1>8. ASSUME NEW i \in accepted_records', NEW t \in Rests(log'[i].refs)
      PROVE  /\ t \in accepted_records' => log'[i].evidence >= log'[t].evidence
             /\ t \notin accepted_records' => log'[i].evidence = Assumed
             /\ (\E j \in Accepted("Retraction")' : j < i /\ log'[j].body.target = t)
                  => log'[i].evidence = Assumed
  <2>1. CASE i \in accepted_records
    <3>1. t \in Rests(log[i].refs) /\ t \in 1..Len(log) /\ t # NextId /\ i < NextId
      BY SMTT(60), <1>2, <2>1 DEF NextId, LedgerInv, LogInv
    <3>2. /\ t \in accepted_records => log[i].evidence >= log[t].evidence
          /\ t \notin accepted_records => log[i].evidence = Assumed
          /\ (\E j \in Accepted("Retraction") : j < i /\ log[j].body.target = t) => log[i].evidence = Assumed
      BY <2>1, <3>1 DEF LedgerInv, EvidenceInv, NoInflation
    <3>3. \A j \in Accepted("Retraction")' : j < i => j \in Accepted("Retraction")
      BY <1>7, <2>1, <3>1, <1>2 DEF NextId, LedgerInv, LogInv
    <3> QED BY <1>1, <1>2, <1>6, <2>1, <3>1, <3>2, <3>3
  <2>2. CASE i = NextId
    <3>1. t \in Rests(refs) /\ t \in 1..Len(log) /\ t # NextId
      BY <1>1, <2>2 DEF NextId, LedgerInv, LogInv
    <3>2. RefEvidence(t) \in 0..4 /\ RefEvidence(t) <= log'[i].evidence /\ log'[i].evidence \in 0..4
      BY <1>1, <1>4, <2>2, <3>1
    <3>3. t \in accepted_records => log[t].evidence <= RefEvidence(t)
      BY <1>3 DEF RefEvidence, Assumed
    <3>4. t \notin accepted_records => RefEvidence(t) = 4
      BY DEF RefEvidence, Sound, Assumed
    <3>5. t \in retracted_records => RefEvidence(t) = 4
      BY DEF RefEvidence, Sound, Assumed
    <3>6. \A j \in Accepted("Retraction")' : j < i => j \in Accepted("Retraction")
      BY <1>7, <2>2 DEF NextId, LedgerInv, LogInv
    <3>7. t \in accepted_records' => log'[i].evidence >= log'[t].evidence
      BY <1>1, <1>2, <1>3, <3>1, <3>2, <3>3
    <3> QED BY <1>1, <1>6, <3>1, <3>2, <3>4, <3>5, <3>6, <3>7 DEF Assumed
  <2> QED BY <1>1, <2>1, <2>2
<1>9. NoInflation'
  BY <1>8 DEF NoInflation
<1> QED BY <1>5, <1>9 DEF EvidenceInv

\* The three ways in which the log grows.
LEMMA ClaimKeepsLedger ==
  ASSUME LedgerInv, NEW kind, NEW author, NEW body, NEW refs, kind # "Retraction",
         Accept(kind, author, body, refs), Claims(refs)
  PROVE  LedgerInv'
<1>1. LogInv'
  BY AcceptAdds DEF LedgerInv
<1>2. TaintInv'
  BY ClaimsTaint DEF LedgerInv
<1> QED BY <1>1, <1>2, AcceptEvidence DEF LedgerInv

LEMMA RetractionKeepsLedger ==
  ASSUME LedgerInv, NEW author, NEW body, NEW refs, NEW target \in accepted_records,
         body.target = target, Accept("Retraction", author, body, refs), Withdraws(target, refs)
  PROVE  LedgerInv'
<1>1. LogInv'
  BY AcceptAdds DEF LedgerInv
<1>2. TaintInv'
  BY WithdrawsTaint DEF LedgerInv
<1> QED BY <1>1, <1>2, AcceptEvidence DEF LedgerInv

LEMMA RejectionKeepsLedger ==
  ASSUME LedgerInv, Reject
  PROVE  LedgerInv'
<1>1. LogInv' /\ Adds({})
  BY RejectAdds DEF LedgerInv
<1>2. \A i \in accepted_records : log'[i] = log[i]
  BY <1>1 DEF LedgerInv, LogInv, Adds
<1>3. /\ accepted_records' = accepted_records /\ retracted_records' = retracted_records
      /\ tainted_records' = tainted_records /\ epistemic_dependents' = epistemic_dependents
  BY DEF Reject
<1>4. Accepted("Retraction")' = Accepted("Retraction") /\ Accepted("Retraction") \subseteq accepted_records
  BY <1>1 DEF Adds, Accepted
<1>5. \A t : {i \in accepted_records' : t \in Rests(log'[i].refs)} = {i \in accepted_records : t \in Rests(log[i].refs)}
  BY <1>2, <1>3
<1>6. {log'[j].body.target : j \in Accepted("Retraction")'} = {log[j].body.target : j \in Accepted("Retraction")}
  BY <1>2, <1>4
<1>7. TaintExact'
  <2> DEFINE lost == retracted_records \union tainted_records
  <2>1. tainted_records = {i \in accepted_records : Rests(log[i].refs) \intersect lost # {}}
    BY DEF LedgerInv, TaintInv, TaintExact
  <2> HIDE DEF lost
  <2>2. {i \in accepted_records : Rests(log[i].refs) \intersect lost # {}}
          = {i \in accepted_records : Rests(log'[i].refs) \intersect lost # {}}
    BY <1>2
  <2>3. tainted_records = {i \in accepted_records : Rests(log'[i].refs) \intersect lost # {}}
    BY <2>1, <2>2
  <2> QED BY <1>3, <2>3 DEF TaintExact, lost
<1>8. TaintInv'
  BY <1>3, <1>5, <1>6, <1>7 DEF LedgerInv, TaintInv
<1>9. NoInflation'
  <2>1. \A i \in accepted_records : \A t \in Rests(log[i].refs) :
          /\ t \in accepted_records => log[i].evidence >= log[t].evidence
          /\ t \notin accepted_records => log[i].evidence = Assumed
          /\ (\E j \in Accepted("Retraction") : j < i /\ log[j].body.target = t) => log[i].evidence = Assumed
    BY DEF LedgerInv, EvidenceInv, NoInflation
  <2>2. \A i \in accepted_records' : \A t \in Rests(log'[i].refs) :
          /\ t \in accepted_records' => log'[i].evidence >= log'[t].evidence
          /\ t \notin accepted_records' => log'[i].evidence = Assumed
          /\ (\E j \in Accepted("Retraction")' : j < i /\ log'[j].body.target = t) => log'[i].evidence = Assumed
    BY <1>2, <1>3, <1>4, <2>1
  <2> QED BY <2>2 DEF NoInflation
<1>10. EvidenceInv'
  BY <1>2, <1>3, <1>9 DEF LedgerInv, EvidenceInv
<1> QED BY <1>1, <1>8, <1>10 DEF LedgerInv

LEMMA LedgerStarts ==
  ASSUME LedgerInit
  PROVE  LedgerInv
<1>1. log = <<>> /\ accepted_records = {} /\ retracted_records = {} /\ tainted_records = {}
  BY DEF LedgerInit
<1>2. bounds.records \in 0..MaxRecords
  BY LedgerConstants DEF LedgerInit
<1>3. \A k : Accepted(k) = {}
  BY <1>1 DEF Accepted
<1>4. IsLog(log) /\ Len(log) = 0
  BY <1>1 DEF IsLog
<1>5. LogInv
  BY <1>1, <1>2, <1>4, LedgerConstants DEF LogInv
<1>6. epistemic_dependents = [t \in Ids |-> {i \in accepted_records : t \in Rests(log[i].refs)}]
  BY <1>1 DEF LedgerInit
<1>7. TaintInv
  BY <1>1, <1>3, <1>6 DEF TaintInv, TaintExact
<1>8. EvidenceInv
  BY <1>1 DEF EvidenceInv, NoInflation
<1> QED BY <1>5, <1>7, <1>8 DEF LedgerInv

LEMMA LedgerStutters ==
  ASSUME LedgerInv, UNCHANGED epistemic
  PROVE  LedgerInv'
<1> USE DEF epistemic, setting
<1>1. LogInv'
  BY DEF LedgerInv, LogInv
<1>2. TaintInv'
  <2>1. TaintExact'
    <3> DEFINE lost == retracted_records \union tainted_records
    <3>1. tainted_records = {i \in accepted_records : Rests(log[i].refs) \intersect lost # {}}
      BY DEF LedgerInv, TaintInv, TaintExact
    <3> HIDE DEF lost
    <3>2. tainted_records' = {i \in accepted_records' : Rests(log'[i].refs) \intersect lost # {}}
      BY <3>1
    <3> QED BY <3>2 DEF TaintExact, lost
  <2>2. Accepted("Retraction")' = Accepted("Retraction")
    BY DEF Accepted
  <2> QED BY <2>1, <2>2 DEF LedgerInv, TaintInv
<1>3. EvidenceInv'
  BY DEF LedgerInv, EvidenceInv, NoInflation, Accepted
<1> QED BY <1>1, <1>2, <1>3 DEF LedgerInv

-----------------------------------------------------------------------------
(* The newest of a set of records *)

LEMMA GreatestOf ==
  ASSUME NEW n \in Nat, NEW S \in SUBSET (0..n), S # {}
  PROVE  Max(S) \in S /\ \A y \in S : y <= Max(S)
<1> DEFINE T == {n - x : x \in S}
<1>0. \A x \in S : x \in Nat /\ x <= n /\ n - x \in Nat
  OBVIOUS
<1>1. T \subseteq Nat /\ T # {}
  <2>1. T \subseteq Nat
    BY <1>0
  <2>2. PICK x \in S : TRUE
    OBVIOUS
  <2>3. n - x \in T
    OBVIOUS
  <2> QED BY <2>1, <2>3
<1>2. PICK m \in T : \A y \in T : ~(<<y, m>> \in OpToRel(<, Nat))
  <2> HIDE DEF T
  <2> QED BY <1>1, NatLessThanWellFounded, WFMin
<1>3. \A y \in T : m <= y
  <2> HIDE DEF T
  <2> SUFFICES ASSUME NEW y \in T PROVE m <= y
    OBVIOUS
  <2>1. y \in Nat /\ m \in Nat
    BY <1>1
  <2>2. ~(y < m)
    BY <1>2, <2>1 DEF OpToRel
  <2> QED BY <2>1, <2>2
<1>4. PICK x \in S : m = n - x
  OBVIOUS
<1>5. \A y \in S : x >= y
  <2> SUFFICES ASSUME NEW y \in S PROVE x >= y
    OBVIOUS
  <2>1. n - y \in T
    OBVIOUS
  <2>2. n - x <= n - y
    BY <1>3, <1>4, <2>1
  <2> QED BY <1>0, <2>2
<1>6. \E z \in S : \A y \in S : z >= y
  BY <1>5
<1>7. Max(S) \in S /\ \A y \in S : Max(S) >= y
  BY <1>6 DEF Max
<1> QED BY <1>7

LEMMA LatestOf ==
  ASSUME NEW n \in Nat, NEW S \in SUBSET (1..n)
  PROVE  /\ Latest(S) \in S \union {None}
         /\ \A y \in S : y <= Latest(S)
         /\ Latest(S) = None <=> S = {}
         /\ Latest(S) \in 0..n
<1>1. S \union {None} \in SUBSET (0..n) /\ S \union {None} # {}
  BY DEF None
<1>2. Max(S \union {None}) \in S \union {None} /\ \A y \in S \union {None} : y <= Max(S \union {None})
  <2> DEFINE T == S \union {None}
  <2> HIDE DEF T
  <2>1. T \in SUBSET (0..n) /\ T # {}
    BY <1>1 DEF T
  <2>2. Max(T) \in T /\ \A y \in T : y <= Max(T)
    BY <2>1, GreatestOf
  <2> QED BY <2>2 DEF T
<1>3. Latest(S) = Max(S \union {None})
  BY DEF Latest
<1> DEFINE x == Latest(S)
<1>4. x \in S \union {None} /\ \A y \in S \union {None} : y <= x
  BY <1>2, <1>3
<1> HIDE DEF x
<1>5. x \in S \union {None} /\ (\A y \in S : y <= x) /\ x \in 0..n
  BY <1>1, <1>4
<1>6. x = None <=> S = {}
  <2>1. \A y \in S : y \in 1..n
    OBVIOUS
  <2> QED BY <1>5, <2>1 DEF None
<1> QED BY <1>5, <1>6 DEF x

\* A record newer than all of a set is the newest when it joins it.
LEMMA LatestAdded ==
  ASSUME NEW n \in Nat, NEW S \in SUBSET (1..n)
  PROVE  Latest(S \union {n + 1}) = n + 1
<1> DEFINE T == S \union {n + 1}
<1>1. T \in SUBSET (1..(n + 1)) /\ n + 1 \in T /\ n + 1 \in Nat
  OBVIOUS
<1> HIDE DEF T
<1>2. Latest(T) \in 0..(n + 1) /\ n + 1 <= Latest(T)
  BY <1>1, LatestOf
<1>3. Latest(T) = n + 1
  BY <1>2
<1> QED BY <1>3 DEF T

LEMMA PlacesFinite ==
  ASSUME NEW n \in Nat, NEW S \in SUBSET (1..n)
  PROVE  /\ IsFiniteSet(S) /\ Cardinality(S) \in Nat
         /\ Cardinality(S) = 0 <=> S = {}
<1>1. IsFiniteSet(1..n)
  BY FS_Interval
<1>2. IsFiniteSet(S)
  BY <1>1, FS_Subset
<1> QED BY <1>2, FS_CardinalityType, FS_EmptySet

-----------------------------------------------------------------------------
(* The life of requests, actions and plans *)

\* Work names a request, and outcomes an action, of before.
WorkTyped ==
  /\ \A k \in {"Action", "Plan", "Response"} : \A i \in Accepted(k) : log[i].body.request \in Accepted("Request")
  /\ \A i \in Accepted("Result") : log[i].body.action \in accepted_records
  /\ \A i \in Accepted("Refusal") : log[i].body.target \in accepted_records

WorkIndexes ==
  /\ active_plans \in [Ids -> Accepted("Plan") \union {None}]
  /\ response_turns \in [Ids -> 0..MaxTurns]
  /\ action_to_request \in [Ids -> Accepted("Request") \union {None}]
  /\ request_open_action_count \in [Ids -> Nat]
  /\ \A i \in Ids \ Accepted("Request") :
       active_plans[i] = None /\ response_turns[i] = 0 /\ request_open_action_count[i] = 0
  /\ \A i \in Accepted("Action") : action_to_request[i] = log[i].body.request

\* The turn counter counts.
TurnsCount ==
  \A r \in Accepted("Request") : response_turns[r] = Cardinality(WorkFor(r, "Response"))

WorkInv ==
  WorkTyped /\ WorkIndexes /\ TurnsCount /\ TerminalIsLast /\ ClosedClean /\ OpenExact /\ PlansExact /\ TurnsGapFree

\* The record that a step adds is of kind k and for request r, ends it, or
\* closes action act.
NewFor(r, k) == NextId \in WorkFor(r, k)'
Ends(r) == NextId \in Terminals(r)'
Closes(act) == NextId \in Closers(act)'

\* What a step that adds a record must do about requests and actions, whatever
\* the kind of the record.
WorkStep(K) ==
  /\ Adds(K) /\ \E k : K \subseteq {k}
  /\ WorkTyped'
  /\ \A r \in Accepted("Request") :
       (Ends(r) \/ NewFor(r, "Action") \/ NewFor(r, "Plan") \/ NewFor(r, "Response")) => r \in active_requests
  /\ active_requests' = {r \in active_requests \union (IF "Request" \in K THEN {NextId} ELSE {}) : ~Ends(r)}
  /\ active_plans' =
       [r \in Ids |-> IF NewFor(r, "Plan")
                        THEN (IF log'[NextId].body.status = "Running" THEN NextId ELSE None)
                        ELSE IF Ends(r) THEN None ELSE active_plans[r]]
  /\ response_turns' = [r \in Ids |-> IF NewFor(r, "Response") THEN response_turns[r] + 1 ELSE response_turns[r]]
  /\ \A r \in Ids : NewFor(r, "Response") =>
       /\ TurnOf(r, log'[NextId].body.turn)
       /\ log'[NextId].body.closes => Closable(r)
  /\ \A act : Closes(act) => act \in open_actions
  /\ open_actions' = {act \in open_actions \union (IF "Action" \in K THEN {NextId} ELSE {}) : ~Closes(act)}
  /\ action_to_request' =
       [i \in Ids |-> IF "Action" \in K /\ i = NextId THEN log'[NextId].body.request ELSE action_to_request[i]]
  /\ request_open_action_count' =
       [r \in Ids |-> IF NewFor(r, "Action") THEN request_open_action_count[r] + 1
                      ELSE IF \E act \in WorkFor(r, "Action") : Closes(act)
                        THEN request_open_action_count[r] - 1
                        ELSE request_open_action_count[r]]

\* The records about a request or an action, after the step.
LEMMA NewWork ==
  ASSUME LogInv, NEW K, Adds(K)
  PROVE  /\ \A r, k : /\ WorkFor(r, k)' = WorkFor(r, k) \union (IF NewFor(r, k) THEN {NextId} ELSE {})
                      /\ WorkFor(r, k) \subseteq 1..Len(log)
                      /\ NewFor(r, k) <=> k \in K /\ log'[NextId].body.request = r
         /\ \A r : /\ Terminals(r)' = Terminals(r) \union (IF Ends(r) THEN {NextId} ELSE {})
                   /\ Terminals(r) \subseteq 1..Len(log)
                   /\ Ends(r) <=> \/ "Response" \in K /\ log'[NextId].body.request = r /\ log'[NextId].body.closes
                                  \/ "Refusal" \in K /\ log'[NextId].body.of = "Request"
                                       /\ log'[NextId].body.target = r
         /\ \A act : /\ Closers(act)' = Closers(act) \union (IF Closes(act) THEN {NextId} ELSE {})
                     /\ Closers(act) \subseteq 1..Len(log)
                     /\ Closes(act) <=> \/ "Result" \in K /\ log'[NextId].body.action = act
                                        \/ "Refusal" \in K /\ log'[NextId].body.of = "Action"
                                             /\ log'[NextId].body.target = act
<1>1. /\ \A i \in 1..Len(log) : log'[i] = log[i] /\ i # NextId
      /\ \A k : Accepted(k)' = Accepted(k) \union (IF k \in K THEN {NextId} ELSE {})
      /\ \A k : Accepted(k) \subseteq 1..Len(log)
      /\ \A k : NextId \notin Accepted(k)
  <2>1. \A k : Accepted(k)' = Accepted(k) \union (IF k \in K THEN {NextId} ELSE {})
    BY DEF Adds
  <2>2. \A i \in 1..Len(log) : log'[i] = log[i] /\ i # NextId
    BY DEF Adds, NextId, LogInv
  <2>3. \A k : Accepted(k) \subseteq 1..Len(log)
    BY DEF LogInv, Accepted
  <2>4. NextId \notin 1..Len(log)
    BY DEF NextId, LogInv
  <2> QED BY <2>1, <2>2, <2>3, <2>4
<1>2. ASSUME NEW r, NEW k
      PROVE  /\ WorkFor(r, k)' = WorkFor(r, k) \union (IF NewFor(r, k) THEN {NextId} ELSE {})
             /\ WorkFor(r, k) \subseteq 1..Len(log)
             /\ NewFor(r, k) <=> k \in K /\ log'[NextId].body.request = r
  <2>1. \A i : i \in WorkFor(r, k)' <=> i \in Accepted(k)' /\ log'[i].body.request = r
    BY DEF WorkFor
  <2>2. \A i : i \in WorkFor(r, k) <=> i \in Accepted(k) /\ log[i].body.request = r
    BY DEF WorkFor
  <2> QED BY <1>1, <2>1, <2>2 DEF NewFor
<1>3. ASSUME NEW r
      PROVE  /\ Terminals(r)' = Terminals(r) \union (IF Ends(r) THEN {NextId} ELSE {})
             /\ Terminals(r) \subseteq 1..Len(log)
             /\ Ends(r) <=> \/ "Response" \in K /\ log'[NextId].body.request = r /\ log'[NextId].body.closes
                            \/ "Refusal" \in K /\ log'[NextId].body.of = "Request"
                                 /\ log'[NextId].body.target = r
  <2>1. \A i : i \in Terminals(r)' <=>
          \/ i \in Accepted("Response")' /\ log'[i].body.request = r /\ log'[i].body.closes
          \/ i \in Accepted("Refusal")' /\ log'[i].body.of = "Request" /\ log'[i].body.target = r
    BY DEF Terminals
  <2>2. \A i : i \in Terminals(r) <=>
          \/ i \in Accepted("Response") /\ log[i].body.request = r /\ log[i].body.closes
          \/ i \in Accepted("Refusal") /\ log[i].body.of = "Request" /\ log[i].body.target = r
    BY DEF Terminals
  <2> QED BY <1>1, <2>1, <2>2 DEF Ends
<1>4. ASSUME NEW act
      PROVE  /\ Closers(act)' = Closers(act) \union (IF Closes(act) THEN {NextId} ELSE {})
             /\ Closers(act) \subseteq 1..Len(log)
             /\ Closes(act) <=> \/ "Result" \in K /\ log'[NextId].body.action = act
                                \/ "Refusal" \in K /\ log'[NextId].body.of = "Action"
                                     /\ log'[NextId].body.target = act
  <2>1. \A i : i \in Closers(act)' <=>
          \/ i \in Accepted("Result")' /\ log'[i].body.action = act
          \/ i \in Accepted("Refusal")' /\ log'[i].body.of = "Action" /\ log'[i].body.target = act
    BY DEF Closers
  <2>2. \A i : i \in Closers(act) <=>
          \/ i \in Accepted("Result") /\ log[i].body.action = act
          \/ i \in Accepted("Refusal") /\ log[i].body.of = "Action" /\ log[i].body.target = act
    BY DEF Closers
  <2> QED BY <1>1, <2>1, <2>2 DEF Closes
<1> QED BY <1>2, <1>3, <1>4

LEMMA StepRequests ==
  ASSUME LogInv, WorkInv, NEW K, WorkStep(K)
  PROVE  /\ Accepted("Request")' = Accepted("Request") \union (IF "Request" \in K THEN {NextId} ELSE {})
         /\ Accepted("Request") \subseteq 1..Len(log) /\ NextId \notin 1..Len(log)
         /\ Len(log) \in Nat /\ NextId = Len(log) + 1
         /\ "Request" \in K => \A r : /\ ~Ends(r) /\ ~Closes(r)
                                      /\ \A k \in {"Action", "Plan", "Response"} : ~NewFor(r, k)
         /\ Terminals(NextId) = {}
         /\ \A k \in {"Action", "Plan", "Response"} : WorkFor(NextId, k) = {}
         /\ Closers(NextId) = {}
<1>1. /\ Accepted("Request")' = Accepted("Request") \union (IF "Request" \in K THEN {NextId} ELSE {})
      /\ Adds(K) /\ \E k : K \subseteq {k}
  BY DEF WorkStep, Adds
<1>2. /\ \A k : Accepted(k) \subseteq 1..Len(log)
      /\ NextId \notin 1..Len(log) /\ Len(log) \in Nat /\ NextId = Len(log) + 1
      /\ accepted_records \subseteq 1..Len(log)
  <2>1. accepted_records \subseteq 1..Len(log) /\ Len(log) \in Nat
    BY DEF LogInv
  <2>2. \A k : Accepted(k) \subseteq accepted_records
    BY DEF Accepted
  <2>3. NextId \notin 1..Len(log) /\ NextId = Len(log) + 1
    BY <2>1 DEF NextId
  <2> QED BY <2>1, <2>2, <2>3
<1>3. "Request" \in K => \A r : /\ ~Ends(r) /\ ~Closes(r)
                                /\ \A k \in {"Action", "Plan", "Response"} : ~NewFor(r, k)
  BY <1>1, NewWork
<1>4. /\ \A k \in {"Action", "Plan", "Response"} : \A i \in Accepted(k) : log[i].body.request \in Accepted("Request")
      /\ \A i \in Accepted("Result") : log[i].body.action \in accepted_records
      /\ \A i \in Accepted("Refusal") : log[i].body.target \in accepted_records
  BY DEF WorkInv, WorkTyped
<1>5. Terminals(NextId) = {}
  BY <1>2, <1>4 DEF Terminals
<1>6. \A k \in {"Action", "Plan", "Response"} : WorkFor(NextId, k) = {}
  BY <1>2, <1>4 DEF WorkFor
<1>7. Closers(NextId) = {}
  BY <1>2, <1>4 DEF Closers
<1> QED BY <1>1, <1>2, <1>3, <1>5, <1>6, <1>7

LEMMA StepEnds ==
  ASSUME LogInv, WorkInv, NEW K, WorkStep(K)
  PROVE  TerminalIsLast'
<1>1. Adds(K)
  BY DEF WorkStep
<1> DEFINE AllWork(r) == Terminals(r) \union WorkFor(r, "Action") \union WorkFor(r, "Plan") \union WorkFor(r, "Response")
           Concerns(r) == Ends(r) \/ NewFor(r, "Action") \/ NewFor(r, "Plan") \/ NewFor(r, "Response")
<1>2. /\ \A r : Terminals(r)' = Terminals(r) \union (IF Ends(r) THEN {NextId} ELSE {})
      /\ \A r : AllWork(r)' = AllWork(r) \union (IF Concerns(r) THEN {NextId} ELSE {})
      /\ \A r : AllWork(r) \subseteq 1..Len(log) /\ Terminals(r) \subseteq 1..Len(log)
  BY <1>1, NewWork
<1>3. /\ Accepted("Request")' = Accepted("Request") \union (IF "Request" \in K THEN {NextId} ELSE {})
      /\ Accepted("Request") \subseteq 1..Len(log) /\ NextId \notin 1..Len(log)
      /\ Len(log) \in Nat /\ NextId = Len(log) + 1
      /\ "Request" \in K => \A r : ~Concerns(r)
      /\ AllWork(NextId) = {} /\ Terminals(NextId) = {}
  BY StepRequests
<1>4. /\ \A r \in Accepted("Request") : Concerns(r) => r \in active_requests
      /\ active_requests' = {r \in active_requests \union (IF "Request" \in K THEN {NextId} ELSE {}) : ~Ends(r)}
  BY DEF WorkStep
<1>5. /\ \A r \in Accepted("Request") : \A t \in Terminals(r) : \A i \in AllWork(r) : i <= t
      /\ \A r : r \in active_requests <=> r \in Accepted("Request") /\ Terminals(r) = {}
  BY DEF WorkInv, TerminalIsLast
<1>6. \A r \in Accepted("Request")' : \A t \in Terminals(r)' : \A i \in AllWork(r)' : i <= t
  <2> HIDE DEF AllWork, Concerns
  <2> SUFFICES ASSUME NEW r \in Accepted("Request")', NEW t \in Terminals(r)', NEW i \in AllWork(r)' PROVE i <= t
    OBVIOUS
  <2>1. r \in Accepted("Request")
    BY <1>2, <1>3 DEF Concerns
  <2>2. CASE Concerns(r)
    <3>1. Terminals(r) = {}
      BY <1>4, <1>5, <2>1, <2>2
    <3>2. t = NextId
      BY <1>2, <3>1
    <3>3. i \in 1..Len(log) \/ i = NextId
      BY <1>2
    <3> QED BY <1>3, <3>2, <3>3
  <2>3. CASE ~Concerns(r)
    BY <1>2, <1>5, <2>1, <2>3 DEF Concerns
  <2> QED BY <2>2, <2>3
<1>7. \A r : r \in active_requests' <=> r \in Accepted("Request")' /\ Terminals(r)' = {}
  <2> HIDE DEF AllWork
  <2> SUFFICES ASSUME NEW r PROVE r \in active_requests' <=> r \in Accepted("Request")' /\ Terminals(r)' = {}
    OBVIOUS
  <2>1. CASE r = NextId
    <3>1. r \notin Accepted("Request") /\ r \notin active_requests /\ Terminals(r) = {}
      BY <1>3, <1>5, <2>1
    <3> QED BY <1>2, <1>3, <1>4, <2>1, <3>1
  <2>2. CASE r # NextId
    BY <1>2, <1>3, <1>4, <1>5, <2>2
  <2> QED BY <2>1, <2>2
<1>8. active_requests' = {r \in Accepted("Request")' : Terminals(r)' = {}}
  BY <1>7
<1> QED BY <1>6, <1>8 DEF TerminalIsLast

LEMMA StepPlans ==
  ASSUME LogInv, WorkInv, NEW K, WorkStep(K)
  PROVE  PlansExact'
<1>1. Adds(K) /\ (\E k : K \subseteq {k}) /\ \A i \in 1..Len(log) : log'[i] = log[i]
  BY DEF WorkStep, Adds
<1>2. /\ \A r : WorkFor(r, "Plan")' = WorkFor(r, "Plan") \union (IF NewFor(r, "Plan") THEN {NextId} ELSE {})
      /\ \A r : WorkFor(r, "Plan") \subseteq 1..Len(log)
      /\ \A r : NewFor(r, "Plan") => "Plan" \in K
      /\ \A r : Ends(r) => "Response" \in K \/ "Refusal" \in K
  BY <1>1, NewWork
<1>3. /\ Accepted("Request")' = Accepted("Request") \union (IF "Request" \in K THEN {NextId} ELSE {})
      /\ Accepted("Request") \subseteq 1..Len(log) /\ NextId \notin 1..Len(log)
      /\ Len(log) \in Nat /\ NextId = Len(log) + 1
      /\ "Request" \in K => \A r : ~Ends(r) /\ ~NewFor(r, "Plan")
      /\ WorkFor(NextId, "Plan") = {}
  BY StepRequests
<1>4. /\ \A r \in Accepted("Request") : NewFor(r, "Plan") => r \in active_requests
      /\ active_requests' = {r \in active_requests \union (IF "Request" \in K THEN {NextId} ELSE {}) : ~Ends(r)}
      /\ \A r \in Ids : active_plans'[r] =
           IF NewFor(r, "Plan") THEN (IF log'[NextId].body.status = "Running" THEN NextId ELSE None)
                                ELSE IF Ends(r) THEN None ELSE active_plans[r]
  BY DEF WorkStep
<1>5. \A r \in Accepted("Request") :
        active_plans[r] = IF r \in active_requests /\ Latest(WorkFor(r, "Plan")) # None
                               /\ log[Latest(WorkFor(r, "Plan"))].body.status = "Running"
                            THEN Latest(WorkFor(r, "Plan")) ELSE None
  BY DEF WorkInv, PlansExact
<1>6. NextId \in Ids /\ 1..Len(log) \subseteq Ids
  BY <1>1, <1>3, LedgerConstants DEF LogInv, Ids, Adds, Room
<1>7. ASSUME NEW r \in Accepted("Request")'
      PROVE  active_plans'[r] = IF r \in active_requests' /\ Latest(WorkFor(r, "Plan")') # None
                                     /\ log'[Latest(WorkFor(r, "Plan")')].body.status = "Running"
                                  THEN Latest(WorkFor(r, "Plan")') ELSE None
  <2>1. CASE r = NextId
    <3>1. "Request" \in K /\ ~Ends(r) /\ ~NewFor(r, "Plan") /\ NextId \notin Accepted("Request")
      BY <1>3, <1>7, <2>1
    <3>2. WorkFor(r, "Plan")' = {}
      BY <1>2, <1>3, <2>1, <3>1
    <3>3. Latest({}) = None
      BY LatestOf
    <3>4. active_plans[NextId] = None
      BY <1>6, <3>1 DEF WorkInv, WorkIndexes
    <3> QED BY <1>4, <1>6, <2>1, <3>1, <3>2, <3>3, <3>4
  <2>2. CASE r \in Accepted("Request") /\ NewFor(r, "Plan")
    <3>1. Latest(WorkFor(r, "Plan")') = NextId
      BY <1>2, <1>3, <2>2, LatestAdded
    <3>2. r \in active_requests' /\ r \in Ids /\ NextId # None
      BY <1>1, <1>2, <1>3, <1>4, <1>6, <2>2 DEF None
    <3> QED BY <1>4, <2>2, <3>1, <3>2
  <2>3. CASE r \in Accepted("Request") /\ ~NewFor(r, "Plan")
    <3> DEFINE q == Latest(WorkFor(r, "Plan"))
    <3>1. WorkFor(r, "Plan")' = WorkFor(r, "Plan")
      BY <1>2, <2>3
    <3>2. q \in 1..Len(log) \/ q = None
      BY <1>2, <1>3, LatestOf
    <3>3. q # None => log'[q] = log[q]
      BY <1>1, <3>2
    <3>4. r \in Ids /\ r # NextId
      BY <1>3, <1>6, <2>3
    <3>5. active_plans[r] = IF r \in active_requests /\ q # None /\ log[q].body.status = "Running" THEN q ELSE None
      BY <1>5, <2>3
    <3>6. active_plans'[r] = IF Ends(r) THEN None ELSE active_plans[r]
      BY <1>4, <2>3, <3>4
    <3>7. r \in active_requests' <=> r \in active_requests /\ ~Ends(r)
      BY <1>4, <3>4
    <3> HIDE DEF q
    <3>8. active_plans'[r] = IF r \in active_requests' /\ q # None /\ log'[q].body.status = "Running" THEN q ELSE None
      BY <3>3, <3>5, <3>6, <3>7
    <3> QED BY <3>1, <3>8 DEF q
  <2> QED BY <1>3, <2>1, <2>2, <2>3
<1> QED BY <1>7 DEF PlansExact, Latest

LEMMA StepClosed ==
  ASSUME LogInv, WorkInv, NEW K, WorkStep(K)
  PROVE  ClosedClean'
<1>1. Adds(K) /\ (\E k : K \subseteq {k}) /\ \A i \in 1..Len(log) : log'[i] = log[i]
  BY DEF WorkStep, Adds
<1>2. /\ \A r, k : WorkFor(r, k)' = WorkFor(r, k) \union (IF NewFor(r, k) THEN {NextId} ELSE {})
      /\ \A r, k : WorkFor(r, k) \subseteq 1..Len(log)
      /\ \A r, k : NewFor(r, k) <=> k \in K /\ log'[NextId].body.request = r
      /\ \A act : Closers(act) \subseteq Closers(act)' /\ Closers(act) \subseteq 1..Len(log)
  BY <1>1, NewWork
<1>3. /\ Accepted("Request")' = Accepted("Request") \union (IF "Request" \in K THEN {NextId} ELSE {})
      /\ Accepted("Request") \subseteq 1..Len(log) /\ NextId \notin 1..Len(log)
      /\ Len(log) \in Nat /\ NextId = Len(log) + 1
  BY StepRequests
<1>4. /\ Accepted("Response")' = Accepted("Response") \union (IF "Response" \in K THEN {NextId} ELSE {})
      /\ Accepted("Response") \subseteq 1..Len(log)
  BY <1>1 DEF Adds, LogInv, Accepted
<1> DEFINE Before(r, t) == {p \in WorkFor(r, "Plan") : p < t}
<1>5. ASSUME NEW t \in Accepted("Response")', log'[t].body.closes, NEW r, r = log'[t].body.request
      PROVE  /\ \A act \in WorkFor(r, "Action")' : \E c \in Closers(act)' : c < t
             /\ Latest({p \in WorkFor(r, "Plan")' : p < t}) # None
                  => log'[Latest({p \in WorkFor(r, "Plan")' : p < t})].body.status # "Running"
  <2>1. CASE t \in Accepted("Response")
    <3>1. log'[t] = log[t] /\ t \in 1..Len(log)
      BY <1>1, <1>4, <2>1
    <3>2. r \in Accepted("Request") /\ t \in Terminals(r)
      BY <1>5, <2>1, <3>1 DEF WorkInv, WorkTyped, Terminals
    <3>3. r \notin active_requests
      BY <3>2 DEF WorkInv, TerminalIsLast
    <3>4. ~NewFor(r, "Action") /\ ~NewFor(r, "Plan")
      BY <3>2, <3>3 DEF WorkStep
    <3>5. WorkFor(r, "Action")' = WorkFor(r, "Action") /\ WorkFor(r, "Plan")' = WorkFor(r, "Plan")
      BY <1>2, <3>4
    <3> DEFINE q == Latest(Before(r, t))
    <3>6. /\ \A act \in WorkFor(r, "Action") : \E c \in Closers(act) : c < t
          /\ q # None => log[q].body.status # "Running"
      BY <1>5, <2>1, <3>1 DEF WorkInv, ClosedClean
    <3>7. q \in 1..Len(log) \/ q = None
      BY <1>2, <1>3, LatestOf
    <3>8. q # None => log'[q].body.status # "Running"
      BY <1>1, <3>6, <3>7
    <3> QED BY <1>2, <3>5, <3>6, <3>8
  <2>2. CASE t = NextId /\ "Response" \in K
    <3>1. NewFor(r, "Response") /\ ~NewFor(r, "Action") /\ ~NewFor(r, "Plan")
      BY <1>1, <1>2, <1>5, <2>2
    <3>2. r \in Accepted("Request")
      <4>1. r \in Accepted("Request")'
        BY <1>4, <1>5, <2>2 DEF WorkStep, WorkTyped
      <4> QED BY <1>1, <1>3, <2>2, <4>1
    <3>3. r \in Ids /\ r \in active_requests
      BY <3>1, <3>2, <1>3, LedgerConstants DEF WorkStep, Ids, LogInv
    <3>4. request_open_action_count[r] = 0 /\ active_plans[r] = None
      BY <1>5, <2>2, <3>1, <3>3 DEF WorkStep, Closable
    <3>5. WorkFor(r, "Action")' = WorkFor(r, "Action") /\ WorkFor(r, "Plan")' = WorkFor(r, "Plan")
      BY <1>2, <3>1
    <3>6. WorkFor(r, "Action") \intersect open_actions = {}
      <4>1. Cardinality(WorkFor(r, "Action") \intersect open_actions) = 0
        BY <3>2, <3>4 DEF WorkInv, OpenExact
      <4>2. WorkFor(r, "Action") \intersect open_actions \in SUBSET (1..Len(log))
        BY <1>2
      <4> QED BY <1>3, <4>1, <4>2, PlacesFinite
    <3>7. ASSUME NEW act \in WorkFor(r, "Action") PROVE \E c \in Closers(act)' : c < t
      <4>1. act \in Accepted("Action") /\ act \notin open_actions
        BY <3>6, <3>7 DEF WorkFor
      <4>2. PICK c \in Closers(act) : TRUE
        BY <4>1 DEF WorkInv, OpenExact
      <4>3. c \in Closers(act)' /\ c \in 1..Len(log)
        BY <1>2, <4>2
      <4>4. c < t
        BY <1>3, <2>2, <4>3
      <4> QED BY <4>3, <4>4
    <3> DEFINE q == Latest(WorkFor(r, "Plan"))
    <3>8. q \in 1..Len(log) \/ q = None
      BY <1>2, <1>3, LatestOf
    <3>9. q # None => log[q].body.status # "Running"
      BY <3>2, <3>3, <3>4 DEF WorkInv, PlansExact
    <3>10. {p \in WorkFor(r, "Plan") : p < t} = WorkFor(r, "Plan")
      <4>1. \A p \in WorkFor(r, "Plan") : p < t
        BY <1>2, <1>3, <2>2
      <4> QED BY <4>1
    <3>11. q # None => log'[q].body.status # "Running"
      BY <1>1, <3>8, <3>9
    <3> QED BY <3>5, <3>7, <3>10, <3>11
  <2> QED BY <1>4, <2>1, <2>2
<1> QED BY <1>5 DEF ClosedClean, Latest

LEMMA StepOpen ==
  ASSUME LogInv, WorkInv, NEW K, WorkStep(K)
  PROVE  OpenExact'
<1> DEFINE Open(r) == WorkFor(r, "Action") \intersect open_actions
<1>1. /\ Adds(K) /\ (\E k : K \subseteq {k}) /\ \A i \in 1..Len(log) : log'[i] = log[i]
      /\ Accepted("Action")' = Accepted("Action") \union (IF "Action" \in K THEN {NextId} ELSE {})
      /\ Accepted("Action") \subseteq 1..Len(log)
  <2>1. Adds(K) /\ \E k : K \subseteq {k}
    BY DEF WorkStep
  <2> QED BY <2>1 DEF Adds, LogInv, Accepted
<1>2. /\ \A act : Closers(act)' = Closers(act) \union (IF Closes(act) THEN {NextId} ELSE {})
      /\ \A act : Closers(act) \subseteq 1..Len(log)
      /\ \A act : Closes(act) => "Result" \in K \/ "Refusal" \in K
      /\ \A a, b : Closes(a) /\ Closes(b) => a = b
      /\ \A r : WorkFor(r, "Action")' = WorkFor(r, "Action") \union (IF NewFor(r, "Action") THEN {NextId} ELSE {})
      /\ \A r : WorkFor(r, "Action") \subseteq 1..Len(log)
      /\ \A r : NewFor(r, "Action") => "Action" \in K
  BY <1>1, NewWork
<1>3. /\ Accepted("Request")' = Accepted("Request") \union (IF "Request" \in K THEN {NextId} ELSE {})
      /\ Accepted("Request") \subseteq 1..Len(log) /\ NextId \notin 1..Len(log)
      /\ Len(log) \in Nat /\ NextId = Len(log) + 1
      /\ "Request" \in K => \A r : ~NewFor(r, "Action") /\ ~Closes(r)
      /\ WorkFor(NextId, "Action") = {} /\ Closers(NextId) = {}
  BY StepRequests
<1>4. /\ \A act : Closes(act) => act \in open_actions
      /\ open_actions' = {act \in open_actions \union (IF "Action" \in K THEN {NextId} ELSE {}) : ~Closes(act)}
      /\ \A r \in Ids : request_open_action_count'[r] =
           IF NewFor(r, "Action") THEN request_open_action_count[r] + 1
           ELSE IF \E act \in WorkFor(r, "Action") : Closes(act)
                  THEN request_open_action_count[r] - 1
                  ELSE request_open_action_count[r]
  BY DEF WorkStep
<1>5. /\ \A act \in Accepted("Action") : Cardinality(Closers(act)) <= 1
      /\ \A act : act \in open_actions <=> act \in Accepted("Action") /\ Closers(act) = {}
      /\ \A r \in Accepted("Request") : request_open_action_count[r] = Cardinality(Open(r))
  BY DEF WorkInv, OpenExact
<1>6. \A act \in Accepted("Action")' : Cardinality(Closers(act)') <= 1
  <2> SUFFICES ASSUME NEW act \in Accepted("Action")' PROVE Cardinality(Closers(act)') <= 1
    OBVIOUS
  <2>1. CASE Closes(act)
    <3>1. Closers(act)' = {NextId}
      BY <1>2, <1>4, <1>5, <2>1
    <3>2. Cardinality({NextId}) = 1
      BY FS_Singleton
    <3> QED BY <3>1, <3>2
  <2>2. CASE ~Closes(act) /\ act \in Accepted("Action")
    BY <1>2, <1>5, <2>2
  <2>3. CASE ~Closes(act) /\ act = NextId
    <3>1. Closers(act)' = {}
      BY <1>2, <1>3, <2>3
    <3>2. Cardinality({}) = 0
      BY FS_EmptySet
    <3> QED BY <3>1, <3>2
  <2> QED BY <1>1, <2>1, <2>2, <2>3
<1>7. \A act : act \in open_actions' <=> act \in Accepted("Action")' /\ Closers(act)' = {}
  <2> SUFFICES ASSUME NEW act PROVE act \in open_actions' <=> act \in Accepted("Action")' /\ Closers(act)' = {}
    OBVIOUS
  <2>1. CASE act = NextId
    <3>1. act \notin Accepted("Action") /\ act \notin open_actions /\ Closers(act) = {} /\ ~Closes(act)
      BY <1>1, <1>3, <1>4, <1>5, <2>1
    <3> QED BY <1>1, <1>2, <1>4, <2>1, <3>1
  <2>2. CASE act # NextId
    BY <1>1, <1>2, <1>4, <1>5, <2>2
  <2> QED BY <2>1, <2>2
<1>8. open_actions' = {act \in Accepted("Action")' : Closers(act)' = {}}
  BY <1>7
<1>9. ASSUME NEW r \in Accepted("Request")'
      PROVE  request_open_action_count'[r] = Cardinality(WorkFor(r, "Action")' \intersect open_actions')
  <2>1. r \in Ids /\ NextId \in Ids
    BY <1>1, <1>3, <1>9, LedgerConstants DEF LogInv, Ids, Adds, Room
  <2>2. request_open_action_count[r] = Cardinality(Open(r)) /\ Open(r) \subseteq 1..Len(log) /\ NextId \notin Open(r)
    <3>1. Open(r) \subseteq 1..Len(log)
      BY <1>2
    <3>2. CASE r \in Accepted("Request")
      BY <1>3, <1>5, <3>1, <3>2
    <3>3. CASE r = NextId /\ r \notin Accepted("Request")
      <4>1. request_open_action_count[r] = 0
        BY <2>1, <3>3 DEF WorkInv, WorkIndexes
      <4>2. Open(r) = {}
        BY <1>3, <3>3
      <4> QED BY <4>1, <4>2, FS_EmptySet
    <3> QED BY <1>3, <3>2, <3>3
  <2>3. IsFiniteSet(Open(r)) /\ Cardinality(Open(r)) \in Nat
    BY <1>3, <2>2, PlacesFinite
  <2> DEFINE Open2 == WorkFor(r, "Action")' \intersect open_actions'
  <2>4. CASE NewFor(r, "Action")
    <3>1. "Action" \in K /\ \A act : ~Closes(act)
      BY <1>1, <1>2, <2>4
    <3>2. Open2 = Open(r) \union {NextId}
      BY <1>2, <1>4, <2>4, <3>1
    <3>3. Cardinality(Open2) = Cardinality(Open(r)) + 1
      BY <2>2, <2>3, <3>2, FS_AddElement
    <3> QED BY <1>4, <2>1, <2>2, <2>4, <3>3
  <2>5. CASE ~NewFor(r, "Action") /\ \E act \in WorkFor(r, "Action") : Closes(act)
    <3>1. PICK act \in WorkFor(r, "Action") : Closes(act)
      BY <2>5
    <3>2. act \in Open(r) /\ "Action" \notin K
      BY <1>1, <1>2, <1>4, <3>1
    <3>3. Open2 = Open(r) \ {act}
      BY <1>2, <1>4, <2>5, <3>1, <3>2
    <3>4. Cardinality(Open2) = Cardinality(Open(r)) - 1
      <4> DEFINE A == Open(r)
      <4>1. IsFiniteSet(A) /\ act \in A
        BY <2>3, <3>2
      <4> HIDE DEF A
      <4>2. Cardinality(A \ {act}) = Cardinality(A) - 1
        BY <4>1, FS_RemoveElement
      <4> QED BY <3>3, <4>2 DEF A
    <3> QED BY <1>4, <2>1, <2>2, <2>5, <3>4
  <2>6. CASE ~NewFor(r, "Action") /\ ~\E act \in WorkFor(r, "Action") : Closes(act)
    <3>1. WorkFor(r, "Action")' = WorkFor(r, "Action") /\ NextId \notin WorkFor(r, "Action")
      BY <1>2, <1>3, <2>6
    <3>2. Open2 = Open(r)
      BY <1>4, <2>6, <3>1
    <3> QED BY <1>4, <2>1, <2>2, <2>6, <3>2
  <2> QED BY <2>4, <2>5, <2>6
<1> QED BY <1>6, <1>8, <1>9 DEF OpenExact

LEMMA StepTurns ==
  ASSUME LogInv, WorkInv, NEW K, WorkStep(K)
  PROVE  TurnsCount' /\ TurnsGapFree'
<1>1. Adds(K) /\ \A i \in 1..Len(log) : log'[i] = log[i]
  BY DEF WorkStep, Adds
<1> DEFINE W(r) == WorkFor(r, "Response")
<1>2. /\ \A r : W(r)' = W(r) \union (IF NewFor(r, "Response") THEN {NextId} ELSE {})
      /\ \A r : W(r) \subseteq 1..Len(log)
  BY <1>1, NewWork
<1>3. /\ Accepted("Request")' = Accepted("Request") \union (IF "Request" \in K THEN {NextId} ELSE {})
      /\ Accepted("Request") \subseteq 1..Len(log) /\ NextId \notin 1..Len(log)
      /\ Len(log) \in Nat /\ NextId = Len(log) + 1
      /\ "Request" \in K => \A r : ~NewFor(r, "Response")
      /\ W(NextId) = {}
  BY StepRequests
<1>4. \A r \in Ids : /\ response_turns'[r] = IF NewFor(r, "Response") THEN response_turns[r] + 1 ELSE response_turns[r]
                     /\ NewFor(r, "Response") => log'[NextId].body.turn = response_turns[r]
  BY DEF WorkStep, TurnOf
<1>5. ASSUME NEW r \in Accepted("Request")'
      PROVE  /\ r \in Ids /\ IsFiniteSet(W(r)) /\ Cardinality(W(r)) \in Nat
             /\ response_turns[r] = Cardinality(W(r))
             /\ \A t \in W(r) : log[t].body.turn = Cardinality({u \in W(r) : u < t})
  <2>1. r \in Ids /\ NextId \in Ids
    BY <1>1, <1>3, <1>5, LedgerConstants DEF LogInv, Ids, Adds, Room
  <2>2. IsFiniteSet(W(r)) /\ Cardinality(W(r)) \in Nat
    BY <1>2, <1>3, PlacesFinite
  <2>3. CASE r \in Accepted("Request")
    BY <2>1, <2>2, <2>3 DEF WorkInv, TurnsCount, TurnsGapFree
  <2>4. CASE r = NextId /\ r \notin Accepted("Request")
    <3>1. response_turns[r] = 0
      BY <2>1, <2>4 DEF WorkInv, WorkIndexes
    <3>2. W(r) = {}
      BY <1>3, <2>4
    <3>3. \A t \in W(r) : FALSE
      BY <3>2
    <3>4. Cardinality(W(r)) = 0
      BY <3>2, FS_EmptySet
    <3> QED BY <2>1, <2>2, <3>1, <3>3, <3>4
  <2> QED BY <1>3, <2>3, <2>4
<1>6. ASSUME NEW r \in Accepted("Request")' PROVE response_turns'[r] = Cardinality(W(r)')
  <2>1. CASE NewFor(r, "Response")
    <3>1. W(r)' = W(r) \union {NextId} /\ NextId \notin W(r)
      BY <1>2, <1>3, <2>1
    <3>2. Cardinality(W(r)') = Cardinality(W(r)) + 1
      BY <1>5, <1>6, <3>1, FS_AddElement
    <3> QED BY <1>4, <1>5, <1>6, <2>1, <3>2
  <2>2. CASE ~NewFor(r, "Response")
    BY <1>2, <1>4, <1>5, <1>6, <2>2
  <2> QED BY <2>1, <2>2
<1>7. ASSUME NEW r \in Accepted("Request")', NEW t \in W(r)'
      PROVE  log'[t].body.turn = Cardinality({u \in W(r)' : u < t})
  <2>1. CASE t \in W(r)
    <3>1. t \in 1..Len(log) /\ log'[t] = log[t]
      BY <1>1, <1>2, <2>1
    <3>2. {u \in W(r)' : u < t} = {u \in W(r) : u < t}
      BY <1>2, <1>3, <3>1
    <3> QED BY <1>5, <1>7, <2>1, <3>1, <3>2
  <2>2. CASE t = NextId /\ NewFor(r, "Response")
    <3>1. \A u \in W(r) : u < t
      BY <1>2, <1>3, <2>2
    <3>2. {u \in W(r)' : u < t} = W(r)
      BY <1>2, <1>3, <2>2, <3>1
    <3> QED BY <1>4, <1>5, <1>7, <2>2, <3>2
  <2> QED BY <1>2, <1>7, <2>1, <2>2
<1> QED BY <1>6, <1>7 DEF TurnsCount, TurnsGapFree

LEMMA StepIndexes ==
  ASSUME LogInv, WorkInv, NEW K, WorkStep(K)
  PROVE  WorkIndexes'
<1>1. /\ Adds(K) /\ WorkTyped' /\ (\E k : K \subseteq {k}) /\ \A i \in 1..Len(log) : log'[i] = log[i]
      /\ \A k : Accepted(k)' = Accepted(k) \union (IF k \in K THEN {NextId} ELSE {})
  BY DEF WorkStep, Adds
<1>2. /\ \A r, k : NewFor(r, k) <=> k \in K /\ log'[NextId].body.request = r
      /\ \A r : Ends(r) => "Request" \notin K
      /\ \A act : Closes(act) => "Request" \notin K
      /\ \A r : WorkFor(r, "Action") = {i \in Accepted("Action") : log[i].body.request = r}
  <2>1. \A r, k : NewFor(r, k) <=> k \in K /\ log'[NextId].body.request = r
    BY <1>1, NewWork
  <2>2. "Request" \in K => \A r : ~Ends(r) /\ ~Closes(r)
    BY StepRequests
  <2> QED BY <2>1, <2>2 DEF WorkFor
<1>3. /\ Accepted("Request") \subseteq 1..Len(log) /\ NextId \notin 1..Len(log)
      /\ Len(log) \in Nat /\ NextId = Len(log) + 1
  BY StepRequests
<1>4. NextId \in Ids /\ 1..Len(log) \subseteq Ids
  BY <1>1, <1>3, LedgerConstants DEF LogInv, Ids, Adds, Room
<1>5. /\ active_plans \in [Ids -> Accepted("Plan") \union {None}]
      /\ response_turns \in [Ids -> 0..MaxTurns]
      /\ action_to_request \in [Ids -> Accepted("Request") \union {None}]
      /\ request_open_action_count \in [Ids -> Nat]
      /\ \A i \in Ids \ Accepted("Request") :
           active_plans[i] = None /\ response_turns[i] = 0 /\ request_open_action_count[i] = 0
      /\ \A i \in Accepted("Action") : action_to_request[i] = log[i].body.request
  BY DEF WorkInv, WorkIndexes
<1>6. /\ \A k \in {"Action", "Plan", "Response"} : k \in K => log'[NextId].body.request \in Accepted("Request")
      /\ \A i \in Accepted("Action") : log[i].body.request \in Accepted("Request")
  BY <1>1 DEF WorkTyped, WorkInv
<1>7. active_plans' \in [Ids -> Accepted("Plan")' \union {None}]
  <2>1. active_plans' = [r \in Ids |-> IF NewFor(r, "Plan")
                          THEN (IF log'[NextId].body.status = "Running" THEN NextId ELSE None)
                          ELSE IF Ends(r) THEN None ELSE active_plans[r]]
    BY DEF WorkStep
  <2>2. \A r \in Ids : NewFor(r, "Plan") => NextId \in Accepted("Plan")'
    BY <1>1, <1>2
  <2>3. \A r \in Ids : active_plans[r] \in Accepted("Plan")' \union {None}
    BY <1>1, <1>5
  <2> QED BY <2>1, <2>2, <2>3
<1>8. response_turns' \in [Ids -> 0..MaxTurns]
  <2>1. response_turns' = [r \in Ids |-> IF NewFor(r, "Response") THEN response_turns[r] + 1 ELSE response_turns[r]]
    BY DEF WorkStep
  <2>2. \A r \in Ids : NewFor(r, "Response") => response_turns[r] # MaxTurns
    BY DEF WorkStep, TurnOf
  <2>3. \A r \in Ids : response_turns[r] \in 0..MaxTurns
    BY <1>5
  <2>4. \A r \in Ids : (IF NewFor(r, "Response") THEN response_turns[r] + 1 ELSE response_turns[r]) \in 0..MaxTurns
    BY <2>2, <2>3, GovernanceConstants
  <2> QED BY <2>1, <2>4
<1>9. action_to_request' \in [Ids -> Accepted("Request")' \union {None}]
  <2>1. action_to_request' =
          [i \in Ids |-> IF "Action" \in K /\ i = NextId THEN log'[NextId].body.request ELSE action_to_request[i]]
    BY DEF WorkStep
  <2>2. \A i \in Ids : action_to_request[i] \in Accepted("Request")' \union {None}
    BY <1>1, <1>5
  <2>3. "Action" \in K => log'[NextId].body.request \in Accepted("Request")'
    BY <1>1, <1>6
  <2> QED BY <2>1, <2>2, <2>3
<1>10. \A i \in Accepted("Action")' : action_to_request'[i] = log'[i].body.request
  <2>1. \A i \in Ids : action_to_request'[i] =
          IF "Action" \in K /\ i = NextId THEN log'[NextId].body.request ELSE action_to_request[i]
    BY DEF WorkStep
  <2>2. \A i \in Accepted("Action") : i \in 1..Len(log) /\ i \in Ids /\ i # NextId
    BY <1>3, <1>4 DEF Accepted, LogInv
  <2> QED BY <1>1, <1>4, <1>5, <2>1, <2>2
<1>11. \A i \in Ids \ Accepted("Request")' :
         active_plans'[i] = None /\ response_turns'[i] = 0 /\ request_open_action_count'[i] = 0
  <2> SUFFICES ASSUME NEW i \in Ids, i \notin Accepted("Request")'
               PROVE  active_plans'[i] = None /\ response_turns'[i] = 0 /\ request_open_action_count'[i] = 0
    OBVIOUS
  <2>1. i \notin Accepted("Request")
    BY <1>1
  <2>2. \A k \in {"Action", "Plan", "Response"} : ~NewFor(i, k)
    BY <1>2, <1>6, <2>1
  <2>3. WorkFor(i, "Action") = {}
    BY <1>2, <1>6, <2>1
  <2> QED BY <1>5, <2>1, <2>2, <2>3 DEF WorkStep
<1>12. OpenExact'
  BY StepOpen
<1>13. request_open_action_count' \in [Ids -> Nat]
  <2>1. \A r \in Accepted("Request")' : request_open_action_count'[r] \in Nat
    <3> SUFFICES ASSUME NEW r \in Accepted("Request")' PROVE request_open_action_count'[r] \in Nat
      OBVIOUS
    <3> DEFINE S == WorkFor(r, "Action")' \intersect open_actions'
    <3>1. request_open_action_count'[r] = Cardinality(S)
      BY <1>12 DEF OpenExact
    <3>2. WorkFor(r, "Action")' \subseteq 1..Len(log)'
      <4>1. WorkFor(r, "Action")' \subseteq WorkFor(r, "Action") \union {NextId} /\ WorkFor(r, "Action") \subseteq 1..Len(log)
        BY <1>1, NewWork
      <4>2. Len(log') = Len(log) + 1
        BY <1>1 DEF Adds
      <4> QED BY <1>3, <4>1, <4>2
    <3>3. S \in SUBSET (1..(Len(log) + 1)) /\ Len(log) + 1 \in Nat
      BY <1>1, <1>3, <3>2 DEF Adds
    <3>4. Cardinality(S) \in Nat
      <4> HIDE DEF S
      <4> QED BY <3>3, PlacesFinite
    <3> QED BY <3>1, <3>4
  <2>2. \A r \in Ids : request_open_action_count'[r] \in Nat
    BY <1>11, <2>1
  <2>3. request_open_action_count' = [r \in Ids |-> request_open_action_count'[r]]
    BY DEF WorkStep
  <2> QED BY <2>2, <2>3
<1> QED BY <1>7, <1>8, <1>9, <1>10, <1>11, <1>13 DEF WorkIndexes

LEMMA WorkStepKeeps ==
  ASSUME LogInv, WorkInv, NEW K, WorkStep(K)
  PROVE  WorkInv'
<1>1. WorkTyped'
  BY DEF WorkStep
<1> QED BY <1>1, StepIndexes, StepTurns, StepEnds, StepClosed, StepOpen, StepPlans DEF WorkInv

\* Each handler does that.
LEMMA TypedStep ==
  ASSUME LogInv, WorkInv, NEW K, Adds(K),
         \A k \in {"Action", "Plan", "Response"} : k \in K => log'[NextId].body.request \in Accepted("Request"),
         "Result" \in K => log'[NextId].body.action \in accepted_records,
         "Refusal" \in K => log'[NextId].body.target \in accepted_records
  PROVE  WorkTyped'
<1>1. /\ \A i \in 1..Len(log) : log'[i] = log[i]
      /\ \A k : Accepted(k)' = Accepted(k) \union (IF k \in K THEN {NextId} ELSE {})
      /\ accepted_records \subseteq accepted_records'
  BY DEF Adds
<1>2. \A k : Accepted(k) \subseteq 1..Len(log)
  BY DEF Accepted, LogInv
<1>3. /\ \A k \in {"Action", "Plan", "Response"} : \A i \in Accepted(k) : log[i].body.request \in Accepted("Request")
      /\ \A i \in Accepted("Result") : log[i].body.action \in accepted_records
      /\ \A i \in Accepted("Refusal") : log[i].body.target \in accepted_records
  BY DEF WorkInv, WorkTyped
<1>4. \A k \in {"Action", "Plan", "Response"} : \A i \in Accepted(k)' : log'[i].body.request \in Accepted("Request")'
  BY <1>1, <1>2, <1>3
<1>5. \A i \in Accepted("Result")' : log'[i].body.action \in accepted_records'
  BY <1>1, <1>2, <1>3
<1>6. \A i \in Accepted("Refusal")' : log'[i].body.target \in accepted_records'
  BY <1>1, <1>2, <1>3
<1> QED BY <1>4, <1>5, <1>6 DEF WorkTyped

\* What the indexes are when nothing happens to them.
LEMMA SameIndexes ==
  ASSUME WorkInv
  PROVE  /\ active_plans = [r \in Ids |-> active_plans[r]]
         /\ response_turns = [r \in Ids |-> response_turns[r]]
         /\ action_to_request = [i \in Ids |-> action_to_request[i]]
         /\ request_open_action_count = [r \in Ids |-> request_open_action_count[r]]
         /\ \A i \in active_requests : i \in Accepted("Request")
         /\ \A i \in open_actions : i \in Accepted("Action")
<1>1. WorkIndexes /\ TerminalIsLast /\ OpenExact
  BY DEF WorkInv
<1>2. \A i \in active_requests : i \in Accepted("Request")
  BY <1>1 DEF TerminalIsLast
<1>3. \A i \in open_actions : i \in Accepted("Action")
  BY <1>1 DEF OpenExact
<1> QED BY <1>1, <1>2, <1>3 DEF WorkIndexes

\* Records of the other kinds.
LEMMA OtherWork ==
  ASSUME LogInv, WorkInv, NEW K, Adds(K), \E k : K \subseteq {k},
         \A k \in {"Request", "Action", "Plan", "Response", "Result", "Refusal"} : k \notin K,
         UNCHANGED <<requests, actions>>
  PROVE  WorkInv'
<1>1. WorkTyped'
  BY TypedStep
<1>2. \A r : ~Ends(r) /\ ~Closes(r) /\ \A k \in {"Action", "Plan", "Response"} : ~NewFor(r, k)
  BY NewWork
<1>3. /\ active_requests' = active_requests /\ active_plans' = active_plans /\ response_turns' = response_turns
      /\ open_actions' = open_actions /\ action_to_request' = action_to_request
      /\ request_open_action_count' = request_open_action_count
  BY DEF requests, actions
<1>4. WorkStep(K)
  BY <1>1, <1>2, <1>3, SameIndexes DEF WorkStep
<1> QED BY <1>4, WorkStepKeeps

LEMMA RequestWork ==
  ASSUME LogInv, WorkInv, NEW a, NEW th, NEW sc, NEW parent, NEW uses, CommitRequest(a, th, sc, parent, uses)
  PROVE  WorkInv'
<1> DEFINE K == {"Request"}
<1>1. Adds(K)
  BY AcceptAdds DEF CommitRequest
<1>2. WorkTyped'
  BY <1>1, TypedStep
<1>3. \A r : ~Ends(r) /\ ~Closes(r) /\ \A k \in {"Action", "Plan", "Response"} : ~NewFor(r, k)
  BY <1>1, NewWork
<1>4. /\ active_requests' = active_requests \union {NextId} /\ active_plans' = active_plans
      /\ response_turns' = response_turns
      /\ open_actions' = open_actions /\ action_to_request' = action_to_request
      /\ request_open_action_count' = request_open_action_count
  BY DEF CommitRequest, actions
<1>5. WorkStep(K)
  BY <1>1, <1>2, <1>3, <1>4, SameIndexes DEF WorkStep
<1> QED BY <1>5, WorkStepKeeps

LEMMA PlanWork ==
  ASSUME LogInv, WorkInv, NEW a, NEW th, NEW req, NEW status, NEW repl, CommitPlan(a, th, req, status, repl)
  PROVE  WorkInv'
<1> DEFINE K == {"Plan"}
           body == [thread |-> th, request |-> req, status |-> status]
<1>1. Adds(K) /\ log'[NextId].body = body
  BY AcceptAdds DEF CommitPlan
<1>2. body.request = req /\ body.status = status
  OBVIOUS
<1> HIDE DEF body
<1>3. req \in active_requests /\ req \in Accepted("Request")
  BY SameIndexes DEF CommitPlan, Serves
<1>4. WorkTyped'
  BY <1>1, <1>2, <1>3, TypedStep
<1>5. \A r : ~Ends(r) /\ ~Closes(r) /\ ~NewFor(r, "Action") /\ ~NewFor(r, "Response")
                /\ (NewFor(r, "Plan") <=> r = req)
  BY <1>1, <1>2, NewWork
<1>6. /\ active_plans' = [active_plans EXCEPT ![req] = IF status = "Running" THEN NextId ELSE None]
      /\ active_requests' = active_requests /\ response_turns' = response_turns
      /\ open_actions' = open_actions /\ action_to_request' = action_to_request
      /\ request_open_action_count' = request_open_action_count
  BY DEF CommitPlan, actions
<1>7. active_plans' =
       [r \in Ids |-> IF NewFor(r, "Plan")
                        THEN (IF log'[NextId].body.status = "Running" THEN NextId ELSE None)
                        ELSE IF Ends(r) THEN None ELSE active_plans[r]]
  BY <1>1, <1>2, <1>5, <1>6, SameIndexes
<1>8. WorkStep(K)
  BY <1>1, <1>3, <1>4, <1>5, <1>6, <1>7, SameIndexes DEF WorkStep
<1> QED BY <1>8, WorkStepKeeps

LEMMA ResponseWork ==
  ASSUME LogInv, WorkInv, NEW a, NEW th, NEW req, NEW turn, NEW closes \in BOOLEAN, NEW uses,
         CommitResponse(a, th, req, turn, closes, uses)
  PROVE  WorkInv'
<1> DEFINE K == {"Response"}
           body == [thread |-> th, request |-> req, turn |-> turn, closes |-> closes]
<1>1. Adds(K) /\ log'[NextId].body = body
  BY AcceptAdds DEF CommitResponse
<1>2. body.request = req /\ body.turn = turn /\ body.closes = closes
  OBVIOUS
<1> HIDE DEF body
<1>3. req \in active_requests /\ req \in Accepted("Request")
  BY SameIndexes DEF CommitResponse, Serves
<1>4. WorkTyped'
  BY <1>1, <1>2, <1>3, TypedStep
<1>5. \A r : ~Closes(r) /\ ~NewFor(r, "Action") /\ ~NewFor(r, "Plan")
                /\ (NewFor(r, "Response") <=> r = req) /\ (Ends(r) <=> r = req /\ closes)
  BY <1>1, <1>2, NewWork
<1>6. /\ response_turns' = [response_turns EXCEPT ![req] = response_turns[req] + 1]
      /\ IF closes THEN EndRequest(req) ELSE UNCHANGED <<active_requests, active_plans>>
      /\ open_actions' = open_actions /\ action_to_request' = action_to_request
      /\ request_open_action_count' = request_open_action_count
      /\ TurnOf(req, turn) /\ (closes => Closable(req))
  BY DEF CommitResponse, actions
<1>7. active_plans' =
       [r \in Ids |-> IF NewFor(r, "Plan")
                        THEN (IF log'[NextId].body.status = "Running" THEN NextId ELSE None)
                        ELSE IF Ends(r) THEN None ELSE active_plans[r]]
  <2>1. CASE closes
    BY <1>5, <1>6, <2>1, SameIndexes DEF EndRequest
  <2>2. CASE ~closes
    BY <1>5, <1>6, <2>2, SameIndexes
  <2> QED BY <2>1, <2>2
<1>8. active_requests' = {r \in active_requests \union (IF "Request" \in K THEN {NextId} ELSE {}) : ~Ends(r)}
  <2>1. CASE closes
    BY <1>5, <1>6, <2>1 DEF EndRequest
  <2>2. CASE ~closes
    BY <1>5, <1>6, <2>2
  <2> QED BY <2>1, <2>2
<1>9. response_turns' = [r \in Ids |-> IF NewFor(r, "Response") THEN response_turns[r] + 1 ELSE response_turns[r]]
  BY <1>5, <1>6, SameIndexes
<1>10. \A r \in Ids : NewFor(r, "Response") =>
         TurnOf(r, log'[NextId].body.turn) /\ (log'[NextId].body.closes => Closable(r))
  BY <1>1, <1>2, <1>5, <1>6
<1>11. WorkStep(K)
  BY <1>1, <1>3, <1>4, <1>5, <1>6, <1>7, <1>8, <1>9, <1>10, SameIndexes DEF WorkStep
<1> QED BY <1>11, WorkStepKeeps

LEMMA ActionWork ==
  ASSUME LogInv, WorkInv, NEW a, NEW th, NEW req, NEW cls, NEW sc, NEW exec, NEW extra, NEW uses,
         CommitAction(a, th, req, cls, sc, exec, extra, uses)
  PROVE  WorkInv'
<1> DEFINE K == {"Action"}
           body == [thread |-> th, request |-> req, class |-> cls, scope |-> sc, exec |-> exec]
<1>1. Adds(K) /\ log'[NextId].body = body
  BY AcceptAdds DEF CommitAction
<1>2. body.request = req
  OBVIOUS
<1> HIDE DEF body
<1>3. req \in active_requests /\ req \in Accepted("Request")
  BY SameIndexes DEF CommitAction, Serves
<1>4. WorkTyped'
  BY <1>1, <1>2, <1>3, TypedStep
<1>5. \A r : ~Ends(r) /\ ~Closes(r) /\ ~NewFor(r, "Plan") /\ ~NewFor(r, "Response")
                /\ (NewFor(r, "Action") <=> r = req)
  BY <1>1, <1>2, NewWork
<1>6. /\ active_requests' = active_requests /\ active_plans' = active_plans /\ response_turns' = response_turns
      /\ open_actions' = open_actions \union {NextId}
      /\ action_to_request' = [action_to_request EXCEPT ![NextId] = req]
      /\ request_open_action_count' =
           [request_open_action_count EXCEPT ![req] = request_open_action_count[req] + 1]
  BY DEF CommitAction, requests
<1>7. action_to_request' =
       [i \in Ids |-> IF "Action" \in K /\ i = NextId THEN log'[NextId].body.request ELSE action_to_request[i]]
  BY <1>1, <1>2, <1>6, SameIndexes
<1>8. request_open_action_count' =
       [r \in Ids |-> IF NewFor(r, "Action") THEN request_open_action_count[r] + 1
                      ELSE IF \E act \in WorkFor(r, "Action") : Closes(act)
                        THEN request_open_action_count[r] - 1
                        ELSE request_open_action_count[r]]
  BY <1>5, <1>6, SameIndexes
<1>9. WorkStep(K)
  BY <1>1, <1>3, <1>4, <1>5, <1>6, <1>7, <1>8, SameIndexes DEF WorkStep
<1> QED BY <1>9, WorkStepKeeps

\* What closing an action does to the indexes.
CloseStep(act) ==
  /\ act \in open_actions
  /\ open_actions' = open_actions \ {act}
  /\ action_to_request' = action_to_request
  /\ request_open_action_count' =
       [r \in Ids |-> IF act \in WorkFor(r, "Action") THEN request_open_action_count[r] - 1
                      ELSE request_open_action_count[r]]

LEMMA ClosedCount ==
  ASSUME LogInv, WorkInv, NEW act \in open_actions, CloseAction(act)
  PROVE  CloseStep(act)
<1>1. act \in Accepted("Action")
  BY SameIndexes
<1> DEFINE req == log[act].body.request
<1>2. action_to_request[act] = req /\ req \in Accepted("Request")
  BY <1>1 DEF WorkInv, WorkIndexes, WorkTyped
<1>3. req # None
  BY <1>2 DEF Accepted, LogInv, None
<1>4. \A r : act \in WorkFor(r, "Action") <=> r = req
  BY <1>1 DEF WorkFor
<1> HIDE DEF req
<1>5. request_open_action_count' =
        [request_open_action_count EXCEPT ![req] = request_open_action_count[req] - 1]
  BY <1>2, <1>3 DEF CloseAction
<1>6. request_open_action_count' =
       [r \in Ids |-> IF act \in WorkFor(r, "Action") THEN request_open_action_count[r] - 1
                      ELSE request_open_action_count[r]]
  BY <1>4, <1>5, SameIndexes
<1> QED BY <1>6 DEF CloseStep, CloseAction

LEMMA ResultWork ==
  ASSUME LogInv, WorkInv, NEW a, NEW th, NEW act, NEW schema, NEW artifacts, NEW uses,
         CommitResult(a, th, act, schema, artifacts, uses)
  PROVE  WorkInv'
<1> DEFINE K == {"Result"}
           body == [thread |-> th, action |-> act, schema |-> schema, artifacts |-> artifacts,
                    external |-> schema = "external_receipt"]
<1>1. Adds(K) /\ log'[NextId].body = body
  <2>1. Accept("Result", a, body, uses \union {Ref("Cause", act)})
    BY Zenon DEF CommitResult
  <2> HIDE DEF body
  <2> QED BY <2>1, AcceptAdds
<1>2. body.action = act
  OBVIOUS
<1> HIDE DEF body
<1>3. act \in open_actions /\ act \in Accepted("Action") /\ act \in accepted_records
  BY SameIndexes DEF CommitResult, OpenIn, Accepted
<1>4. WorkTyped'
  BY <1>1, <1>2, <1>3, TypedStep
<1>5. \A r : ~Ends(r) /\ ~NewFor(r, "Action") /\ ~NewFor(r, "Plan") /\ ~NewFor(r, "Response")
                /\ (Closes(r) <=> r = act)
  BY <1>1, <1>2, NewWork
<1>6. /\ CloseAction(act)
      /\ active_requests' = active_requests /\ active_plans' = active_plans /\ response_turns' = response_turns
  BY DEF CommitResult, requests
<1>7. CloseStep(act)
  BY <1>3, <1>5, <1>6, ClosedCount DEF CloseStep
<1>8. WorkStep(K)
  BY <1>1, <1>4, <1>5, <1>6, <1>7, SameIndexes DEF WorkStep, CloseStep
<1> QED BY <1>8, WorkStepKeeps

LEMMA RefuseActionWork ==
  ASSUME LogInv, WorkInv, NEW a, NEW th, NEW act, RefuseAction(a, th, act)
  PROVE  WorkInv'
<1> DEFINE K == {"Refusal"}
           body == [thread |-> th, of |-> "Action", target |-> act]
<1>1. Adds(K) /\ log'[NextId].body = body
  BY AcceptAdds DEF RefuseAction
<1>2. body.of = "Action" /\ body.target = act
  OBVIOUS
<1> HIDE DEF body
<1>3. act \in open_actions /\ act \in Accepted("Action") /\ act \in accepted_records
  BY SameIndexes DEF RefuseAction, OpenIn, Accepted
<1>4. WorkTyped'
  BY <1>1, <1>2, <1>3, TypedStep
<1>5. \A r : ~Ends(r) /\ ~NewFor(r, "Action") /\ ~NewFor(r, "Plan") /\ ~NewFor(r, "Response")
                /\ (Closes(r) <=> r = act)
  BY <1>1, <1>2, NewWork
<1>6. /\ CloseAction(act)
      /\ active_requests' = active_requests /\ active_plans' = active_plans /\ response_turns' = response_turns
  BY DEF RefuseAction, requests
<1>7. CloseStep(act)
  BY <1>3, <1>5, <1>6, ClosedCount DEF CloseStep
<1>8. WorkStep(K)
  BY <1>1, <1>4, <1>5, <1>6, <1>7, SameIndexes DEF WorkStep, CloseStep
<1> QED BY <1>8, WorkStepKeeps

LEMMA RefuseRequestWork ==
  ASSUME LogInv, WorkInv, NEW a, NEW th, NEW req, RefuseRequest(a, th, req)
  PROVE  WorkInv'
<1> DEFINE K == {"Refusal"}
           body == [thread |-> th, of |-> "Request", target |-> req]
<1>1. Adds(K) /\ log'[NextId].body = body
  BY AcceptAdds DEF RefuseRequest
<1>2. body.of = "Request" /\ body.target = req
  OBVIOUS
<1> HIDE DEF body
<1>3. req \in active_requests /\ req \in Accepted("Request") /\ req \in accepted_records
  BY SameIndexes DEF RefuseRequest, Serves, Accepted
<1>4. WorkTyped'
  BY <1>1, <1>2, <1>3, TypedStep
<1>5. \A r : ~Closes(r) /\ ~NewFor(r, "Action") /\ ~NewFor(r, "Plan") /\ ~NewFor(r, "Response")
                /\ (Ends(r) <=> r = req)
  BY <1>1, <1>2, NewWork
<1>6. /\ active_requests' = active_requests \ {req}
      /\ active_plans' = [active_plans EXCEPT ![req] = None]
      /\ response_turns' = response_turns
      /\ open_actions' = open_actions /\ action_to_request' = action_to_request
      /\ request_open_action_count' = request_open_action_count
  BY DEF RefuseRequest, EndRequest, actions
<1>7. active_plans' =
       [r \in Ids |-> IF NewFor(r, "Plan")
                        THEN (IF log'[NextId].body.status = "Running" THEN NextId ELSE None)
                        ELSE IF Ends(r) THEN None ELSE active_plans[r]]
  BY <1>5, <1>6, SameIndexes
<1>8. WorkStep(K)
  BY <1>1, <1>3, <1>4, <1>5, <1>6, <1>7, SameIndexes DEF WorkStep
<1> QED BY <1>8, WorkStepKeeps

LEMMA RefuseEffectWork ==
  ASSUME LogInv, WorkInv, NEW a, NEW th, NEW res, RefuseEffect(a, th, res)
  PROVE  WorkInv'
<1> DEFINE K == {"Refusal"}
           body == [thread |-> th, of |-> "VerifiedEffect", target |-> res]
<1>1. Adds(K) /\ log'[NextId].body = body
  BY AcceptAdds DEF RefuseEffect
<1>2. body.of = "VerifiedEffect" /\ body.target = res
  OBVIOUS
<1> HIDE DEF body
<1>3. res \in accepted_records
  BY DEF RefuseEffect, Accepted
<1>4. WorkTyped'
  BY <1>1, <1>2, <1>3, TypedStep
<1>5. \A r : ~Closes(r) /\ ~Ends(r) /\ ~NewFor(r, "Action") /\ ~NewFor(r, "Plan") /\ ~NewFor(r, "Response")
  BY <1>1, <1>2, NewWork
<1>6. /\ active_requests' = active_requests /\ active_plans' = active_plans /\ response_turns' = response_turns
      /\ open_actions' = open_actions /\ action_to_request' = action_to_request
      /\ request_open_action_count' = request_open_action_count
  BY DEF RefuseEffect, requests, actions
<1>7. WorkStep(K)
  BY <1>1, <1>4, <1>5, <1>6, SameIndexes DEF WorkStep
<1> QED BY <1>7, WorkStepKeeps

-----------------------------------------------------------------------------
(* Authority *)

Caps(k) == {c \in Accepted("Capability") : log[c].body.key = k}
Apps(form, k) == {p \in Accepted("Approval") : log[p].body.form = form /\ log[p].body.key = k}

\* The records that an accepted action with this hash requires.
Used(h) ==
  {p \in 1..Len(log) : \E j \in Accepted("Action") : HashOf(j) = h /\ Ref("Require", p) \in log[j].refs}

\* The newest of S, unless it is gone.
SlotOf(S, gone) == IF Latest(S) \in gone THEN None ELSE Latest(S)

\* A record that has a slot knows the key of it.
Indexes(index, slots, keys) == \A k \in keys : slots[k] # None => index[slots[k]] = k

SlotTypes ==
  /\ active_capabilities = [k \in CapKeys |-> active_capabilities[k]]
  /\ valid_approvals = [h \in Hashes |-> valid_approvals[h]]
  /\ class_approvals = [k \in ClassKeys |-> class_approvals[k]]
  /\ capability_index = [i \in Ids |-> capability_index[i]]
  /\ exact_approval_index = [i \in Ids |-> exact_approval_index[i]]
  /\ class_approval_index = [i \in Ids |-> class_approval_index[i]]

SlotsNow ==
  /\ \A k \in CapKeys : active_capabilities[k] = SlotOf(Caps(k), retracted_records)
  /\ \A h \in Hashes : valid_approvals[h] = SlotOf(Apps("exact", h), retracted_records \union Used(h))
  /\ \A k \in ClassKeys : class_approvals[k] = SlotOf(Apps("class", k), retracted_records)

GrantInv ==
  /\ SlotTypes
  /\ Indexes(capability_index, active_capabilities, CapKeys)
  /\ Indexes(exact_approval_index, valid_approvals, Hashes)
  /\ Indexes(class_approval_index, class_approvals, ClassKeys)
  /\ SlotsNow

LEMMA SlotGone ==
  ASSUME NEW n \in Nat, NEW S \in SUBSET (1..n), NEW gone, NEW more
  PROVE  SlotOf(S, gone \union more) =
           IF SlotOf(S, gone) \in more THEN None ELSE SlotOf(S, gone)
<1> QED BY DEF SlotOf

LEMMA SlotTaken ==
  ASSUME NEW n \in Nat, NEW S \in SUBSET (1..n), NEW gone \in SUBSET (1..n)
  PROVE  SlotOf(S \union {n + 1}, gone) = n + 1
<1>1. Latest(S \union {n + 1}) = n + 1
  BY LatestAdded
<1>2. n + 1 \notin gone
  OBVIOUS
<1> QED BY <1>1, <1>2 DEF SlotOf

LEMMA SlotHolder ==
  ASSUME NEW n \in Nat, NEW S \in SUBSET (1..n), NEW gone
  PROVE  /\ SlotOf(S, gone) \in 0..n
         /\ SlotOf(S, gone) # None => SlotOf(S, gone) \in S /\ SlotOf(S, gone) = Latest(S) /\ SlotOf(S, gone) \notin gone
<1> DEFINE q == Latest(S)
<1>1. q \in S \union {None} /\ q \in 0..n
  BY LatestOf
<1> HIDE DEF q
<1>2. SlotOf(S, gone) = IF q \in gone THEN None ELSE q
  BY DEF SlotOf, q
<1>3. None \in 0..n
  BY DEF None
<1> QED BY <1>1, <1>2, <1>3 DEF q

LEMMA FreedSlot ==
  ASSUME NEW keys, NEW slots, slots = [k \in keys |-> slots[k]], NoKey \notin keys, NEW ix, NEW i,
         \A k \in keys : slots[k] = i => ix = k
  PROVE  Freed(slots, ix, i) = [k \in keys |-> IF slots[k] = i THEN None ELSE slots[k]]
<1>1. CASE ix # NoKey /\ slots[ix] = i
  <2>1. Freed(slots, ix, i) = [slots EXCEPT ![ix] = None]
    BY <1>1 DEF Freed
  <2> QED BY <2>1, <1>1
<1>2. CASE ~(ix # NoKey /\ slots[ix] = i)
  <2>1. Freed(slots, ix, i) = slots
    BY <1>2 DEF Freed
  <2>2. \A k \in keys : slots[k] # i
    BY <1>2
  <2> QED BY <2>1, <2>2
<1> QED BY <1>1, <1>2

LEMMA KeysAreKeys ==
  NoKey \notin CapKeys /\ NoKey \notin Hashes /\ NoKey \notin ClassKeys
<1> QED BY DEF NoKey, CapKeys, Hashes, ClassKeys

\* The hash of the action that a step adds.
NewHash ==
  <<log'[NextId].author, log'[NextId].body.request, log'[NextId].body.class, log'[NextId].body.scope,
    log'[NextId].body.exec>>

\* What it requires.
NewlyUsed == {p \in 1..Len(log) : Ref("Require", p) \in log'[NextId].refs}

\* What a step does to the log.
LEMMA AddedFacts ==
  ASSUME LogInv, NEW K, Adds(K)
  PROVE  /\ \A i \in 1..Len(log) : log'[i] = log[i] /\ i # NextId
         /\ \A k : Accepted(k)' = Accepted(k) \union (IF k \in K THEN {NextId} ELSE {})
         /\ \A k : Accepted(k) \subseteq 1..Len(log)
         /\ \A k : NextId \notin Accepted(k)
         /\ Len(log') = Len(log) + 1 /\ NextId = Len(log) + 1 /\ Len(log) \in Nat
<1>1. /\ \A k : Accepted(k)' = Accepted(k) \union (IF k \in K THEN {NextId} ELSE {})
      /\ Len(log') = Len(log) + 1
  BY DEF Adds
<1>2. \A i \in 1..Len(log) : log'[i] = log[i] /\ i # NextId
  BY DEF Adds, NextId, LogInv
<1>3. \A k : Accepted(k) \subseteq 1..Len(log)
  BY DEF LogInv, Accepted
<1>4. NextId \notin 1..Len(log) /\ NextId = Len(log) + 1 /\ Len(log) \in Nat
  BY DEF NextId, LogInv
<1> QED BY <1>1, <1>2, <1>3, <1>4

\* The records of the slots, after a step.
LEMMA NewCaps ==
  ASSUME LogInv, NEW K, Adds(K), NEW k
  PROVE  /\ Caps(k) \subseteq 1..Len(log)
         /\ IF "Capability" \in K /\ log'[NextId].body.key = k
              THEN Caps(k)' = Caps(k) \union {NextId} ELSE Caps(k)' = Caps(k)
<1>1. \A i : i \in Caps(k)' <=> i \in Accepted("Capability")' /\ log'[i].body.key = k
  BY DEF Caps
<1>2. \A i : i \in Caps(k) <=> i \in Accepted("Capability") /\ log[i].body.key = k
  BY DEF Caps
<1>3. \A i : i \in Caps(k)' <=>
        i \in Caps(k) \/ (i = NextId /\ "Capability" \in K /\ log'[NextId].body.key = k)
  BY AddedFacts, <1>1, <1>2
<1>4. Caps(k) \subseteq 1..Len(log)
  BY AddedFacts, <1>2
<1> QED BY <1>3, <1>4

LEMMA NewApps ==
  ASSUME LogInv, NEW K, Adds(K), NEW f, NEW k
  PROVE  /\ Apps(f, k) \subseteq 1..Len(log)
         /\ IF "Approval" \in K /\ log'[NextId].body.form = f /\ log'[NextId].body.key = k
              THEN Apps(f, k)' = Apps(f, k) \union {NextId} ELSE Apps(f, k)' = Apps(f, k)
<1>1. \A i : i \in Apps(f, k)' <=> i \in Accepted("Approval")' /\ log'[i].body.form = f /\ log'[i].body.key = k
  BY DEF Apps
<1>2. \A i : i \in Apps(f, k) <=> i \in Accepted("Approval") /\ log[i].body.form = f /\ log[i].body.key = k
  BY DEF Apps
<1>3. \A i : i \in Apps(f, k)' <=>
        \/ i \in Apps(f, k)
        \/ i = NextId /\ "Approval" \in K /\ log'[NextId].body.form = f /\ log'[NextId].body.key = k
  BY AddedFacts, <1>1, <1>2
<1>4. Apps(f, k) \subseteq 1..Len(log)
  BY AddedFacts, <1>2
<1> DEFINE new == "Approval" \in K /\ log'[NextId].body.form = f /\ log'[NextId].body.key = k
<1> HIDE DEF new
<1>5. \A i : i \in Apps(f, k)' <=> i \in Apps(f, k) \/ (i = NextId /\ new)
  BY <1>3 DEF new
<1>6. IF new THEN Apps(f, k)' = Apps(f, k) \union {NextId} ELSE Apps(f, k)' = Apps(f, k)
  BY <1>5
<1> QED BY <1>4, <1>6 DEF new

LEMMA NewUsed ==
  ASSUME LogInv, LogInv', NEW K, Adds(K), NEW h
  PROVE  /\ Used(h) \subseteq 1..Len(log)
         /\ IF "Action" \in K /\ NewHash = h
              THEN Used(h)' = Used(h) \union NewlyUsed ELSE Used(h)' = Used(h)
<1> DEFINE Q(j, p) == HashOf(j) = h /\ Ref("Require", p) \in log[j].refs
<1>1. \A j \in 1..Len(log) : \A p : Q(j, p)' <=> Q(j, p)
  BY AddedFacts DEF HashOf
<1>2. \A p : p \in Used(h) <=> p \in 1..Len(log) /\ \E j \in Accepted("Action") : Q(j, p)
  BY DEF Used
<1>3. \A p : p \in Used(h)' <=> p \in 1..Len(log') /\ \E j \in Accepted("Action")' : Q(j, p)'
  BY DEF Used
<1>4. \A n, p : n = NextId => (Q(n, p)' <=> NewHash = h /\ Ref("Require", p) \in log'[NextId].refs)
  BY DEF HashOf, NewHash
<1>5. \A j \in Accepted("Action")' : \A p : Ref("Require", p) \in log'[j].refs => p \in 1..(j - 1)
  <2> SUFFICES ASSUME NEW j \in Accepted("Action")', NEW p, Ref("Require", p) \in log'[j].refs
               PROVE  p \in 1..(j - 1)
    OBVIOUS
  <2>1. j \in accepted_records'
    BY DEF Accepted
  <2>2. p \in Rests(log'[j].refs)
    BY DEF Rests, Targets, Ref
  <2> QED BY <2>1, <2>2 DEF LogInv
<1>6. \A j \in Accepted("Action")' : \A p : Q(j, p)' => p \in 1..Len(log)
  <2> SUFFICES ASSUME NEW j \in Accepted("Action")', NEW p, Q(j, p)' PROVE p \in 1..Len(log)
    OBVIOUS
  <2>1. p \in 1..(j - 1)
    BY <1>5
  <2>2. j \in 1..Len(log) + 1
    BY AddedFacts
  <2> QED BY AddedFacts, <2>1, <2>2
<1>7. \A p : p \in NewlyUsed <=> p \in 1..Len(log) /\ Ref("Require", p) \in log'[NextId].refs
  BY DEF NewlyUsed
<1> HIDE DEF Q
<1>8. \A p : p \in Used(h)' <=> p \in Used(h) \/ (p \in NewlyUsed /\ "Action" \in K /\ NewHash = h)
  BY AddedFacts, <1>1, <1>2, <1>3, <1>4, <1>6, <1>7
<1>9. Used(h) \subseteq 1..Len(log)
  BY <1>2
<1> DEFINE new == "Action" \in K /\ NewHash = h
<1> HIDE DEF new
<1>10. \A p : p \in Used(h)' <=> p \in Used(h) \/ (p \in NewlyUsed /\ new)
  BY <1>8 DEF new
<1>11. IF new THEN Used(h)' = Used(h) \union NewlyUsed ELSE Used(h)' = Used(h)
  BY <1>10
<1> QED BY <1>9, <1>11 DEF new

LEMMA SlotsInLog ==
  ASSUME LedgerInv, GrantInv
  PROVE  /\ retracted_records \in SUBSET (1..Len(log)) /\ Len(log) \in Nat
         /\ \A k \in CapKeys : active_capabilities[k] \in 0..Len(log)
         /\ \A h \in Hashes : valid_approvals[h] \in 0..Len(log)
         /\ \A k \in ClassKeys : class_approvals[k] \in 0..Len(log)
<1>1. retracted_records \in SUBSET (1..Len(log)) /\ Len(log) \in Nat /\ \A k : Accepted(k) \subseteq 1..Len(log)
  <2>1. accepted_records \subseteq 1..Len(log) /\ Len(log) \in Nat
    BY DEF LedgerInv, LogInv
  <2>2. retracted_records \subseteq accepted_records
    BY DEF LedgerInv, TaintInv
  <2>3. \A k : Accepted(k) \subseteq accepted_records
    BY DEF Accepted
  <2> QED BY <2>1, <2>2, <2>3
<1>2. \A k : Caps(k) \in SUBSET (1..Len(log))
  BY <1>1 DEF Caps
<1>3. \A f, k : Apps(f, k) \in SUBSET (1..Len(log))
  BY <1>1 DEF Apps
<1>4. SlotsNow
  BY DEF GrantInv
<1>5. \A k \in CapKeys : active_capabilities[k] \in 0..Len(log)
  <2> SUFFICES ASSUME NEW k \in CapKeys PROVE active_capabilities[k] \in 0..Len(log)
    OBVIOUS
  <2>1. active_capabilities[k] = SlotOf(Caps(k), retracted_records)
    BY <1>4 DEF SlotsNow
  <2>2. SlotOf(Caps(k), retracted_records) \in 0..Len(log)
    BY <1>1, <1>2, SlotHolder
  <2> QED BY <2>1, <2>2
<1>6. \A h \in Hashes : valid_approvals[h] \in 0..Len(log)
  <2> SUFFICES ASSUME NEW h \in Hashes PROVE valid_approvals[h] \in 0..Len(log)
    OBVIOUS
  <2>1. valid_approvals[h] = SlotOf(Apps("exact", h), retracted_records \union Used(h))
    BY <1>4 DEF SlotsNow
  <2>2. SlotOf(Apps("exact", h), retracted_records \union Used(h)) \in 0..Len(log)
    BY <1>1, <1>3, SlotHolder
  <2> QED BY <2>1, <2>2
<1>7. \A k \in ClassKeys : class_approvals[k] \in 0..Len(log)
  <2> SUFFICES ASSUME NEW k \in ClassKeys PROVE class_approvals[k] \in 0..Len(log)
    OBVIOUS
  <2>1. class_approvals[k] = SlotOf(Apps("class", k), retracted_records)
    BY <1>4 DEF SlotsNow
  <2>2. SlotOf(Apps("class", k), retracted_records) \in 0..Len(log)
    BY <1>1, <1>3, SlotHolder
  <2> QED BY <2>1, <2>2
<1> QED BY <1>1, <1>5, <1>6, <1>7

\* Records of the other kinds.
LEMMA OtherGrants ==
  ASSUME LedgerInv, LedgerInv', GrantInv, NEW K, Adds(K),
         \A k \in {"Capability", "Approval", "Action", "Retraction"} : k \notin K,
         UNCHANGED grants, retracted_records' = retracted_records
  PROVE  GrantInv'
<1>1. /\ \A k : Caps(k)' = Caps(k)
      /\ \A f, k : Apps(f, k)' = Apps(f, k)
      /\ \A h : Used(h)' = Used(h)
  <2>1. LogInv /\ LogInv'
    BY DEF LedgerInv
  <2>2. \A k : Caps(k)' = Caps(k)
    BY <2>1, NewCaps
  <2>3. \A f, k : Apps(f, k)' = Apps(f, k)
    BY <2>1, NewApps
  <2>4. \A h : Used(h)' = Used(h)
    BY <2>1, NewUsed
  <2> QED BY <2>2, <2>3, <2>4
<1>2. SlotsNow'
  BY <1>1 DEF GrantInv, SlotsNow, grants, SlotOf, Latest
<1> QED BY <1>2 DEF GrantInv, SlotTypes, Indexes, grants

LEMMA CapabilityGrants ==
  ASSUME LedgerInv, LedgerInv', GrantInv, NEW a, NEW th, NEW key \in CapKeys, NEW mode, NEW expiry, NEW uses, NEW repl,
         CommitCapability(a, th, key, mode, expiry, uses, repl)
  PROVE  GrantInv'
<1> DEFINE body == [thread |-> th, key |-> key, mode |-> mode, expiry |-> expiry]
<1>1. Adds({"Capability"}) /\ log'[NextId].body = body /\ NextId \in Ids
  BY AcceptAdds DEF CommitCapability, LedgerInv
<1>2. body.key = key
  OBVIOUS
<1> HIDE DEF body
<1>3. /\ \A k : Caps(k)' = Caps(k) \union (IF k = key THEN {NextId} ELSE {})
      /\ \A k : Caps(k) \in SUBSET (1..Len(log))
      /\ \A f, k : Apps(f, k)' = Apps(f, k)
      /\ \A h : Used(h)' = Used(h)
  <2>1. LogInv /\ LogInv'
    BY DEF LedgerInv
  <2>2. \A k : /\ Caps(k)' = Caps(k) \union (IF k = key THEN {NextId} ELSE {})
               /\ Caps(k) \in SUBSET (1..Len(log))
    BY <1>1, <1>2, <2>1, NewCaps
  <2>3. \A f, k : Apps(f, k)' = Apps(f, k)
    BY <1>1, <2>1, NewApps
  <2>4. \A h : Used(h)' = Used(h)
    BY <1>1, <2>1, NewUsed
  <2> QED BY <2>2, <2>3, <2>4
<1>4. /\ capability_index' = [capability_index EXCEPT ![NextId] = key]
      /\ active_capabilities' = [active_capabilities EXCEPT ![key] = NextId]
      /\ valid_approvals' = valid_approvals /\ class_approvals' = class_approvals
      /\ exact_approval_index' = exact_approval_index /\ class_approval_index' = class_approval_index
      /\ retracted_records' = retracted_records
  BY DEF CommitCapability, Claims
<1>5. /\ NextId = Len(log) + 1 /\ Len(log) \in Nat /\ retracted_records \in SUBSET (1..Len(log))
      /\ \A k \in CapKeys : active_capabilities[k] \in 0..Len(log)
  BY SlotsInLog DEF NextId
<1>6. \A k \in CapKeys : active_capabilities'[k] = IF k = key THEN NextId ELSE active_capabilities[k]
  BY <1>4 DEF GrantInv, SlotTypes
<1>7. \A k \in CapKeys : active_capabilities'[k] = SlotOf(Caps(k)', retracted_records')
  <2> SUFFICES ASSUME NEW k \in CapKeys PROVE active_capabilities'[k] = SlotOf(Caps(k)', retracted_records')
    OBVIOUS
  <2>1. CASE k = key
    BY <1>3, <1>4, <1>5, <1>6, <2>1, SlotTaken
  <2>2. CASE k # key
    BY <1>3, <1>4, <1>6, <2>2 DEF GrantInv, SlotsNow
  <2> QED BY <2>1, <2>2
<1>8. SlotsNow'
  BY <1>3, <1>4, <1>7 DEF GrantInv, SlotsNow, SlotOf, Latest
<1>9. SlotTypes'
  BY <1>4 DEF GrantInv, SlotTypes
<1>10. Indexes(capability_index, active_capabilities, CapKeys)'
  <2> SUFFICES ASSUME NEW k \in CapKeys, active_capabilities'[k] # None
               PROVE  capability_index'[active_capabilities'[k]] = k
    BY DEF Indexes
  <2>1. \A i \in Ids : capability_index'[i] = IF i = NextId THEN key ELSE capability_index[i]
    BY <1>4 DEF GrantInv, SlotTypes
  <2>2. CASE k = key
    BY <1>1, <1>6, <2>1, <2>2
  <2>3. CASE k # key
    <3>1. active_capabilities[k] \in Ids /\ active_capabilities[k] # NextId
      <4>1. active_capabilities[k] \in 0..Len(log) /\ active_capabilities[k] # 0
        BY <1>5, <1>6, <2>3 DEF None
      <4> QED BY <1>1, <1>5, <4>1, LedgerConstants DEF Ids
    <3>2. capability_index[active_capabilities[k]] = k
      BY <1>6, <2>3 DEF GrantInv, Indexes
    <3> QED BY <1>6, <2>1, <2>3, <3>1, <3>2
  <2> QED BY <2>2, <2>3
<1> QED BY <1>4, <1>8, <1>9, <1>10 DEF GrantInv, Indexes

LEMMA ExactGrants ==
  ASSUME LedgerInv, LedgerInv', GrantInv, NEW a, NEW th, NEW hash \in Hashes, NEW actor, NEW sc, NEW expiry, NEW uses,
         NEW repl, CommitExactApproval(a, th, hash, actor, sc, expiry, uses, repl)
  PROVE  GrantInv'
<1> DEFINE body == [form |-> "exact", thread |-> th, key |-> hash, actor |-> actor, scope |-> sc, expiry |-> expiry]
<1>1. Adds({"Approval"}) /\ log'[NextId].body = body /\ NextId \in Ids
  BY AcceptAdds DEF CommitExactApproval, LedgerInv
<1>2. body.form = "exact" /\ body.key = hash
  OBVIOUS
<1> HIDE DEF body
<1>3. /\ \A k : Caps(k)' = Caps(k)
      /\ \A f, k : Apps(f, k)' = Apps(f, k) \union (IF f = "exact" /\ k = hash THEN {NextId} ELSE {})
      /\ \A f, k : Apps(f, k) \in SUBSET (1..Len(log))
      /\ \A h : Used(h)' = Used(h) /\ Used(h) \in SUBSET (1..Len(log))
  <2>1. LogInv /\ LogInv'
    BY DEF LedgerInv
  <2>2. \A k : Caps(k)' = Caps(k)
    BY <1>1, <2>1, NewCaps
  <2>3. \A f, k : /\ Apps(f, k)' = Apps(f, k) \union (IF f = "exact" /\ k = hash THEN {NextId} ELSE {})
                  /\ Apps(f, k) \in SUBSET (1..Len(log))
    <3> SUFFICES ASSUME NEW f, NEW k
                 PROVE  /\ Apps(f, k)' = Apps(f, k) \union (IF f = "exact" /\ k = hash THEN {NextId} ELSE {})
                        /\ Apps(f, k) \in SUBSET (1..Len(log))
      OBVIOUS
    <3>1. /\ Apps(f, k) \subseteq 1..Len(log)
          /\ IF f = "exact" /\ k = hash THEN Apps(f, k)' = Apps(f, k) \union {NextId} ELSE Apps(f, k)' = Apps(f, k)
      BY <1>1, <1>2, <2>1, NewApps
    <3> QED BY <3>1
  <2>4. \A h : Used(h)' = Used(h) /\ Used(h) \in SUBSET (1..Len(log))
    BY <1>1, <2>1, NewUsed
  <2> QED BY <2>2, <2>3, <2>4
<1>4. /\ exact_approval_index' = [exact_approval_index EXCEPT ![NextId] = hash]
      /\ valid_approvals' = [valid_approvals EXCEPT ![hash] = NextId]
      /\ active_capabilities' = active_capabilities /\ class_approvals' = class_approvals
      /\ capability_index' = capability_index /\ class_approval_index' = class_approval_index
      /\ retracted_records' = retracted_records
  BY DEF CommitExactApproval, Claims
<1>5. /\ NextId = Len(log) + 1 /\ Len(log) \in Nat /\ retracted_records \in SUBSET (1..Len(log))
      /\ \A k \in Hashes : valid_approvals[k] \in 0..Len(log)
  BY SlotsInLog DEF NextId
<1>6. \A k \in Hashes : valid_approvals'[k] = IF k = hash THEN NextId ELSE valid_approvals[k]
  BY <1>4 DEF GrantInv, SlotTypes
<1>7. \A k \in Hashes : valid_approvals'[k] = SlotOf(Apps("exact", k)', (retracted_records \union Used(k))')
  <2> SUFFICES ASSUME NEW k \in Hashes PROVE valid_approvals'[k] = SlotOf(Apps("exact", k)', (retracted_records \union Used(k))')
    OBVIOUS
  <2> DEFINE gone == retracted_records \union Used(k)
  <2>1. gone \in SUBSET (1..Len(log)) /\ gone = (retracted_records \union Used(k))'
    BY <1>3, <1>4, <1>5
  <2> HIDE DEF gone
  <2>2. CASE k = hash
    <3>1. Apps("exact", k)' = Apps("exact", k) \union {NextId} /\ Apps("exact", k) \in SUBSET (1..Len(log))
      BY <1>3, <2>2
    <3> QED BY <1>5, <1>6, <2>1, <2>2, <3>1, SlotTaken
  <2>3. CASE k # hash
    <3>1. Apps("exact", k)' = Apps("exact", k)
      BY <1>3, <2>3
    <3>2. valid_approvals[k] = SlotOf(Apps("exact", k), gone)
      BY DEF GrantInv, SlotsNow, gone
    <3> QED BY <1>6, <2>1, <2>3, <3>1, <3>2
  <2> QED BY <2>2, <2>3
<1>8. SlotsNow'
  <2>1. \A k : Apps("class", k)' = Apps("class", k)
    BY <1>3
  <2> QED BY <1>3, <1>4, <1>7, <2>1 DEF GrantInv, SlotsNow, SlotOf, Latest
<1>9. SlotTypes'
  BY <1>4 DEF GrantInv, SlotTypes
<1>10. Indexes(exact_approval_index, valid_approvals, Hashes)'
  <2> SUFFICES ASSUME NEW k \in Hashes, valid_approvals'[k] # None
               PROVE  exact_approval_index'[valid_approvals'[k]] = k
    BY DEF Indexes
  <2>1. \A i \in Ids : exact_approval_index'[i] = IF i = NextId THEN hash ELSE exact_approval_index[i]
    BY <1>4 DEF GrantInv, SlotTypes
  <2>2. CASE k = hash
    BY <1>1, <1>6, <2>1, <2>2
  <2>3. CASE k # hash
    <3>1. valid_approvals[k] \in Ids /\ valid_approvals[k] # NextId
      <4>1. valid_approvals[k] \in 0..Len(log) /\ valid_approvals[k] # 0
        BY <1>5, <1>6, <2>3 DEF None
      <4> QED BY <1>1, <1>5, <4>1, LedgerConstants DEF Ids
    <3>2. exact_approval_index[valid_approvals[k]] = k
      BY <1>6, <2>3 DEF GrantInv, Indexes
    <3> QED BY <1>6, <2>1, <2>3, <3>1, <3>2
  <2> QED BY <2>2, <2>3
<1> QED BY <1>4, <1>8, <1>9, <1>10 DEF GrantInv, Indexes

LEMMA ClassGrants ==
  ASSUME LedgerInv, LedgerInv', GrantInv, NEW a, NEW th, NEW key \in ClassKeys, NEW expiry, NEW uses, NEW repl,
         CommitClassApproval(a, th, key, expiry, uses, repl)
  PROVE  GrantInv'
<1> DEFINE body == [form |-> "class", thread |-> th, key |-> key, expiry |-> expiry]
<1>1. Adds({"Approval"}) /\ log'[NextId].body = body /\ NextId \in Ids
  BY AcceptAdds DEF CommitClassApproval, LedgerInv
<1>2. body.form = "class" /\ body.key = key
  OBVIOUS
<1> HIDE DEF body
<1>3. /\ \A k : Caps(k)' = Caps(k)
      /\ \A f, k : Apps(f, k)' = Apps(f, k) \union (IF f = "class" /\ k = key THEN {NextId} ELSE {})
      /\ \A f, k : Apps(f, k) \in SUBSET (1..Len(log))
      /\ \A h : Used(h)' = Used(h) /\ Used(h) \in SUBSET (1..Len(log))
  <2>1. LogInv /\ LogInv'
    BY DEF LedgerInv
  <2>2. \A k : Caps(k)' = Caps(k)
    BY <1>1, <2>1, NewCaps
  <2>3. \A f, k : /\ Apps(f, k)' = Apps(f, k) \union (IF f = "class" /\ k = key THEN {NextId} ELSE {})
                  /\ Apps(f, k) \in SUBSET (1..Len(log))
    <3> SUFFICES ASSUME NEW f, NEW k
                 PROVE  /\ Apps(f, k)' = Apps(f, k) \union (IF f = "class" /\ k = key THEN {NextId} ELSE {})
                        /\ Apps(f, k) \in SUBSET (1..Len(log))
      OBVIOUS
    <3>1. /\ Apps(f, k) \subseteq 1..Len(log)
          /\ IF f = "class" /\ k = key THEN Apps(f, k)' = Apps(f, k) \union {NextId} ELSE Apps(f, k)' = Apps(f, k)
      BY <1>1, <1>2, <2>1, NewApps
    <3> QED BY <3>1
  <2>4. \A h : Used(h)' = Used(h) /\ Used(h) \in SUBSET (1..Len(log))
    BY <1>1, <2>1, NewUsed
  <2> QED BY <2>2, <2>3, <2>4
<1>4. /\ class_approval_index' = [class_approval_index EXCEPT ![NextId] = key]
      /\ class_approvals' = [class_approvals EXCEPT ![key] = NextId]
      /\ active_capabilities' = active_capabilities /\ valid_approvals' = valid_approvals
      /\ capability_index' = capability_index /\ exact_approval_index' = exact_approval_index
      /\ retracted_records' = retracted_records
  BY DEF CommitClassApproval, Claims
<1>5. /\ NextId = Len(log) + 1 /\ Len(log) \in Nat /\ retracted_records \in SUBSET (1..Len(log))
      /\ \A k \in ClassKeys : class_approvals[k] \in 0..Len(log)
  BY SlotsInLog DEF NextId
<1>6. \A k \in ClassKeys : class_approvals'[k] = IF k = key THEN NextId ELSE class_approvals[k]
  BY <1>4 DEF GrantInv, SlotTypes
<1>7. \A k \in ClassKeys : class_approvals'[k] = SlotOf(Apps("class", k)', retracted_records')
  <2> SUFFICES ASSUME NEW k \in ClassKeys PROVE class_approvals'[k] = SlotOf(Apps("class", k)', retracted_records')
    OBVIOUS
  <2> DEFINE gone == retracted_records
  <2>1. gone \in SUBSET (1..Len(log)) /\ gone = retracted_records'
    BY <1>3, <1>4, <1>5
  <2> HIDE DEF gone
  <2>2. CASE k = key
    <3>1. Apps("class", k)' = Apps("class", k) \union {NextId} /\ Apps("class", k) \in SUBSET (1..Len(log))
      BY <1>3, <2>2
    <3> QED BY <1>5, <1>6, <2>1, <2>2, <3>1, SlotTaken
  <2>3. CASE k # key
    <3>1. Apps("class", k)' = Apps("class", k)
      BY <1>3, <2>3
    <3>2. class_approvals[k] = SlotOf(Apps("class", k), gone)
      BY DEF GrantInv, SlotsNow, gone
    <3> QED BY <1>6, <2>1, <2>3, <3>1, <3>2
  <2> QED BY <2>2, <2>3
<1>8. SlotsNow'
  <2>1. \A k : Apps("exact", k)' = Apps("exact", k)
    BY <1>3
  <2> QED BY <1>3, <1>4, <1>7, <2>1 DEF GrantInv, SlotsNow, SlotOf, Latest
<1>9. SlotTypes'
  BY <1>4 DEF GrantInv, SlotTypes
<1>10. Indexes(class_approval_index, class_approvals, ClassKeys)'
  <2> SUFFICES ASSUME NEW k \in ClassKeys, class_approvals'[k] # None
               PROVE  class_approval_index'[class_approvals'[k]] = k
    BY DEF Indexes
  <2>1. \A i \in Ids : class_approval_index'[i] = IF i = NextId THEN key ELSE class_approval_index[i]
    BY <1>4 DEF GrantInv, SlotTypes
  <2>2. CASE k = key
    BY <1>1, <1>6, <2>1, <2>2
  <2>3. CASE k # key
    <3>1. class_approvals[k] \in Ids /\ class_approvals[k] # NextId
      <4>1. class_approvals[k] \in 0..Len(log) /\ class_approvals[k] # 0
        BY <1>5, <1>6, <2>3 DEF None
      <4> QED BY <1>1, <1>5, <4>1, LedgerConstants DEF Ids
    <3>2. class_approval_index[class_approvals[k]] = k
      BY <1>6, <2>3 DEF GrantInv, Indexes
    <3> QED BY <1>6, <2>1, <2>3, <3>1, <3>2
  <2> QED BY <2>2, <2>3
<1> QED BY <1>4, <1>8, <1>9, <1>10 DEF GrantInv, Indexes

\* An action that requires the exact approval of its hash takes it out of its slot.
LEMMA ActionGrants ==
  ASSUME LedgerInv, LedgerInv', GrantInv, NEW a, NEW th, NEW req, NEW cls, NEW sc, NEW exec, NEW extra, NEW uses,
         \A r \in uses : r.type = "Use", <<a, req, cls, sc, exec>> \in Hashes,
         CommitAction(a, th, req, cls, sc, exec, extra, uses)
  PROVE  GrantInv'
<1> DEFINE body == [thread |-> th, request |-> req, class |-> cls, scope |-> sc, exec |-> exec]
           hash == <<a, req, cls, sc, exec>>
           cap == active_capabilities[<<a, cls, sc>>]
           asks == cap # None /\ log[cap].body.mode = "Ask"
           approval == IF asks THEN ApprovalFor(hash, a, cls, sc) ELSE None
           req_ids == ({cap, approval} \union extra) \ {None}
           refs == uses \union {Ref("Require", i) : i \in req_ids}
           mine == valid_approvals[hash]
<1>1. Adds({"Action"}) /\ log'[NextId].body = body /\ log'[NextId].author = a /\ log'[NextId].refs = refs
  BY ZenonT(60), AcceptAdds DEF CommitAction, LedgerInv
<1>2. body.request = req /\ body.class = cls /\ body.scope = sc /\ body.exec = exec
  OBVIOUS
<1>3. \A p : p \in Targets(refs, "Require") <=> Ref("Require", p) \in refs
  <2> HIDE DEF req_ids
  <2>1. \A r \in refs : r.type = "Require" => r = Ref("Require", r.target)
    BY DEF Ref
  <2>2. \A p : Ref("Require", p).type = "Require" /\ Ref("Require", p).target = p
    BY DEF Ref
  <2> HIDE DEF refs
  <2> QED BY <2>1, <2>2 DEF Targets
<1>4. /\ IF Consumed(hash, refs)
           THEN /\ valid_approvals' = [valid_approvals EXCEPT ![hash] = None]
                /\ exact_approval_index' = [exact_approval_index EXCEPT ![mine] = NoKey]
           ELSE UNCHANGED <<valid_approvals, exact_approval_index>>
      /\ active_capabilities' = active_capabilities /\ class_approvals' = class_approvals
      /\ capability_index' = capability_index /\ class_approval_index' = class_approval_index
      /\ retracted_records' = retracted_records
  BY DEF CommitAction, Claims
<1> HIDE DEF body, refs
<1>5. NewHash = hash
  BY <1>1, <1>2 DEF NewHash
<1> HIDE DEF hash
<1>6. /\ \A k : Caps(k)' = Caps(k)
      /\ \A f, k : Apps(f, k)' = Apps(f, k) /\ Apps(f, k) \in SUBSET (1..Len(log))
      /\ \A h : h # hash => Used(h)' = Used(h)
      /\ Used(hash)' = Used(hash) \union NewlyUsed
  <2>1. LogInv /\ LogInv'
    BY DEF LedgerInv
  <2>2. \A k : Caps(k)' = Caps(k)
    BY <1>1, <2>1, NewCaps
  <2>3. \A f, k : Apps(f, k)' = Apps(f, k) /\ Apps(f, k) \in SUBSET (1..Len(log))
    BY <1>1, <2>1, NewApps
  <2>4. \A h : h # hash => Used(h)' = Used(h)
    BY <1>1, <1>5, <2>1, NewUsed
  <2>5. Used(hash)' = Used(hash) \union NewlyUsed
    BY <1>1, <1>5, <2>1, NewUsed
  <2> QED BY <2>2, <2>3, <2>4, <2>5
<1>7. Len(log) \in Nat /\ mine \in 0..Len(log) /\ hash \in Hashes
  BY SlotsInLog DEF hash
<1>8. Consumed(hash, refs) <=> mine # None /\ mine \in NewlyUsed
  BY <1>1, <1>3, <1>7 DEF Consumed, NewlyUsed, None
<1>9. /\ \A h \in Hashes : valid_approvals'[h] = IF h = hash /\ mine \in NewlyUsed THEN None ELSE valid_approvals[h]
      /\ valid_approvals' = [h \in Hashes |-> valid_approvals'[h]]
  <2>1. CASE Consumed(hash, refs)
    BY <1>4, <1>8, <2>1 DEF GrantInv, SlotTypes
  <2>2. CASE ~Consumed(hash, refs)
    BY <1>4, <1>8, <2>2 DEF GrantInv, SlotTypes
  <2> QED BY <2>1, <2>2
<1>10. \A h \in Hashes : valid_approvals'[h] = SlotOf(Apps("exact", h)', (retracted_records \union Used(h))')
  <2> SUFFICES ASSUME NEW h \in Hashes
               PROVE  valid_approvals'[h] = SlotOf(Apps("exact", h)', (retracted_records \union Used(h))')
    OBVIOUS
  <2>1. valid_approvals[h] = SlotOf(Apps("exact", h), retracted_records \union Used(h))
    BY DEF GrantInv, SlotsNow
  <2>2. CASE h # hash
    BY <1>4, <1>6, <1>9, <2>1, <2>2
  <2>3. CASE h = hash
    <3>1. (retracted_records \union Used(h))' = (retracted_records \union Used(h)) \union NewlyUsed
      BY <1>4, <1>6, <2>3
    <3>2. SlotOf(Apps("exact", h), (retracted_records \union Used(h)) \union NewlyUsed)
            = IF mine \in NewlyUsed THEN None ELSE mine
      <4> DEFINE S == Apps("exact", h)
                 gone == retracted_records \union Used(h)
      <4>1. S \in SUBSET (1..Len(log)) /\ SlotOf(S, gone) = mine
        BY <1>6, <2>1, <2>3
      <4> HIDE DEF S, gone
      <4>2. SlotOf(S, gone \union NewlyUsed) = IF SlotOf(S, gone) \in NewlyUsed THEN None ELSE SlotOf(S, gone)
        BY <1>7, <4>1, SlotGone
      <4>3. SlotOf(S, gone \union NewlyUsed) = IF mine \in NewlyUsed THEN None ELSE mine
        BY <4>1, <4>2
      <4> QED BY <4>3 DEF S, gone
    <3> QED BY <1>6, <1>9, <2>3, <3>1, <3>2
  <2> QED BY <2>2, <2>3
<1>11. SlotsNow'
  BY <1>4, <1>6, <1>10 DEF GrantInv, SlotsNow, SlotOf, Latest
<1>12. SlotTypes'
  <2>1. exact_approval_index' = [i \in Ids |-> exact_approval_index'[i]]
    BY <1>4 DEF GrantInv, SlotTypes
  <2> QED BY <1>4, <1>9, <2>1 DEF GrantInv, SlotTypes
<1>13. Indexes(exact_approval_index, valid_approvals, Hashes)'
  <2> SUFFICES ASSUME NEW h \in Hashes, valid_approvals'[h] # None
               PROVE  exact_approval_index'[valid_approvals'[h]] = h
    BY DEF Indexes
  <2>1. valid_approvals'[h] = valid_approvals[h] /\ exact_approval_index[valid_approvals[h]] = h
    BY <1>9 DEF GrantInv, Indexes
  <2>2. CASE Consumed(hash, refs)
    <3>1. h # hash
      BY <1>8, <1>9, <2>2
    <3>2. exact_approval_index[mine] = hash
      BY <1>7, <1>8, <2>2 DEF GrantInv, Indexes
    <3>3. valid_approvals[h] # mine
      BY <2>1, <3>1, <3>2
    <3>4. valid_approvals[h] \in Ids
      <4>1. valid_approvals[h] \in 0..Len(log) /\ valid_approvals[h] # 0 /\ Len(log) \in 0..MaxRecords
        BY <2>1, SlotsInLog DEF None, LedgerInv, LogInv
      <4> QED BY <4>1, LedgerConstants DEF Ids
    <3> QED BY <1>4, <2>1, <2>2, <3>3, <3>4 DEF GrantInv, SlotTypes
  <2>3. CASE ~Consumed(hash, refs)
    BY <1>4, <2>1, <2>3
  <2> QED BY <2>2, <2>3
<1> QED BY <1>4, <1>11, <1>12, <1>13 DEF GrantInv, Indexes

LEMMA RetractionGrants ==
  ASSUME LedgerInv, LedgerInv', GrantInv, NEW a, NEW th, NEW target, NEW uses, CommitRetraction(a, th, target, uses)
  PROVE  GrantInv'
<1>1. Adds({"Retraction"}) /\ target \in accepted_records
  BY AcceptAdds DEF CommitRetraction, LedgerInv
<1>2. /\ Deactivate(target) /\ retracted_records' = retracted_records \union {target}
      /\ capability_index' = capability_index /\ exact_approval_index' = exact_approval_index
      /\ class_approval_index' = class_approval_index
  BY DEF CommitRetraction, Withdraws
<1>3. /\ \A k : Caps(k)' = Caps(k) /\ Caps(k) \in SUBSET (1..Len(log))
      /\ \A f, k : Apps(f, k)' = Apps(f, k) /\ Apps(f, k) \in SUBSET (1..Len(log))
      /\ \A h : Used(h)' = Used(h)
  <2>1. LogInv /\ LogInv'
    BY DEF LedgerInv
  <2>2. \A k : Caps(k)' = Caps(k) /\ Caps(k) \in SUBSET (1..Len(log))
    BY <1>1, <2>1, NewCaps
  <2>3. \A f, k : Apps(f, k)' = Apps(f, k) /\ Apps(f, k) \in SUBSET (1..Len(log))
    BY <1>1, <2>1, NewApps
  <2>4. \A h : Used(h)' = Used(h)
    BY <1>1, <2>1, NewUsed
  <2> QED BY <2>2, <2>3, <2>4
<1>4. Len(log) \in Nat /\ target # None
  BY <1>1 DEF LedgerInv, LogInv, None
<1>5. active_capabilities' =
        [k \in CapKeys |-> IF active_capabilities[k] = target THEN None ELSE active_capabilities[k]]
  <2>1. \A k \in CapKeys : active_capabilities[k] = target => capability_index[target] = k
    BY <1>4 DEF GrantInv, Indexes
  <2> QED BY <1>2, <2>1, KeysAreKeys, FreedSlot DEF Deactivate, GrantInv, SlotTypes
<1>6. valid_approvals' =
        [h \in Hashes |-> IF valid_approvals[h] = target THEN None ELSE valid_approvals[h]]
  <2>1. \A h \in Hashes : valid_approvals[h] = target => exact_approval_index[target] = h
    BY <1>4 DEF GrantInv, Indexes
  <2> QED BY <1>2, <2>1, KeysAreKeys, FreedSlot DEF Deactivate, GrantInv, SlotTypes
<1>7. class_approvals' =
        [k \in ClassKeys |-> IF class_approvals[k] = target THEN None ELSE class_approvals[k]]
  <2>1. \A k \in ClassKeys : class_approvals[k] = target => class_approval_index[target] = k
    BY <1>4 DEF GrantInv, Indexes
  <2> QED BY <1>2, <2>1, KeysAreKeys, FreedSlot DEF Deactivate, GrantInv, SlotTypes
<1>8. \A S \in SUBSET (1..Len(log)) : \A gone :
        SlotOf(S, gone \union {target}) = IF SlotOf(S, gone) = target THEN None ELSE SlotOf(S, gone)
  BY <1>4, SlotGone
<1>9. \A k \in CapKeys : active_capabilities'[k] = SlotOf(Caps(k)', retracted_records')
  BY <1>2, <1>3, <1>5, <1>8 DEF GrantInv, SlotsNow
<1>10. \A h \in Hashes : valid_approvals'[h] = SlotOf(Apps("exact", h)', (retracted_records \union Used(h))')
  <2> SUFFICES ASSUME NEW h \in Hashes
               PROVE  valid_approvals'[h] = SlotOf(Apps("exact", h)', (retracted_records \union Used(h))')
    OBVIOUS
  <2>1. (retracted_records \union Used(h))' = (retracted_records \union Used(h)) \union {target}
    BY <1>2, <1>3
  <2>2. valid_approvals[h] = SlotOf(Apps("exact", h), retracted_records \union Used(h))
    BY DEF GrantInv, SlotsNow
  <2> QED BY <1>3, <1>6, <1>8, <2>1, <2>2
<1>11. \A k \in ClassKeys : class_approvals'[k] = SlotOf(Apps("class", k)', retracted_records')
  BY <1>2, <1>3, <1>7, <1>8 DEF GrantInv, SlotsNow
<1>12. SlotsNow'
  BY <1>9, <1>10, <1>11 DEF SlotsNow, SlotOf, Latest
<1>13. SlotTypes'
  BY <1>2, <1>5, <1>6, <1>7 DEF GrantInv, SlotTypes
<1>14. /\ Indexes(capability_index, active_capabilities, CapKeys)'
       /\ Indexes(exact_approval_index, valid_approvals, Hashes)'
       /\ Indexes(class_approval_index, class_approvals, ClassKeys)'
  BY <1>2, <1>5, <1>6, <1>7 DEF GrantInv, Indexes
<1> QED BY <1>12, <1>13, <1>14 DEF GrantInv

-----------------------------------------------------------------------------
(* What an auditor of the log sees *)

\* Action i, by me and with hash h, is backed by these grants: the newest of
\* before i of each form.
Backed(i, me, cls, sc, h, cap, exact, own, any) ==
  /\ cap = Latest(Capabilities(<<me, cls, sc>>, i))
  /\ exact = Latest(Approvals("exact", h, i))
  /\ own = Latest(Approvals("class", <<cls, sc, me>>, i))
  /\ any = Latest(Approvals("class", <<cls, sc, AnyActor>>, i))
  /\ InForce(cap, i)
  /\ log[cap].body.mode # "Deny"
  /\ log[cap].body.mode = "Ask" =>
       \/ /\ InForce(exact, i) /\ Spent(exact, i) = {}
          /\ log[exact].body.actor = me /\ log[exact].body.scope = sc
       \/ InForce(own, i) \/ InForce(any, i)

\* What action i says of itself.
Says(i, me, cls, sc, h) ==
  /\ log[i].author = me /\ log[i].body.class = cls /\ log[i].body.scope = sc
  /\ HashOf(i) = h

AuditInv ==
  \A i \in Accepted("Action") :
    \E me, cls, sc, h, cap, exact, own, any :
      Says(i, me, cls, sc, h) /\ Backed(i, me, cls, sc, h, cap, exact, own, any)

LEMMA AuditSays ==
  ASSUME AuditInv
  PROVE  AuditAuthority
<1> SUFFICES ASSUME NEW i \in Accepted("Action")
             PROVE  LET b == log[i].body
                        me == log[i].author
                        cap == Latest(Capabilities(<<me, b.class, b.scope>>, i))
                        exact == Latest(Approvals("exact", HashOf(i), i))
                        classes == {Latest(Approvals("class", <<b.class, b.scope, who>>, i)) : who \in {me, AnyActor}}
                    IN  /\ InForce(cap, i)
                        /\ log[cap].body.mode # "Deny"
                        /\ log[cap].body.mode = "Ask" =>
                             \/ /\ InForce(exact, i) /\ Spent(exact, i) = {}
                                /\ log[exact].body.actor = me /\ log[exact].body.scope = b.scope
                             \/ \E p \in classes : InForce(p, i)
  BY DEF AuditAuthority
<1>1. PICK me, cls, sc, h, cap, exact, own, any :
        Says(i, me, cls, sc, h) /\ Backed(i, me, cls, sc, h, cap, exact, own, any)
  BY DEF AuditInv
<1>2. log[i].author = me /\ log[i].body.class = cls /\ log[i].body.scope = sc /\ HashOf(i) = h
  BY <1>1 DEF Says
<1>3. /\ cap = Latest(Capabilities(<<me, cls, sc>>, i))
      /\ exact = Latest(Approvals("exact", h, i))
      /\ own = Latest(Approvals("class", <<cls, sc, me>>, i))
      /\ any = Latest(Approvals("class", <<cls, sc, AnyActor>>, i))
  BY <1>1 DEF Backed
<1>4. /\ InForce(cap, i)
      /\ log[cap].body.mode # "Deny"
      /\ log[cap].body.mode = "Ask" =>
           \/ /\ InForce(exact, i) /\ Spent(exact, i) = {}
              /\ log[exact].body.actor = me /\ log[exact].body.scope = sc
           \/ InForce(own, i) \/ InForce(any, i)
  BY <1>1 DEF Backed
<1> DEFINE classes == {Latest(Approvals("class", <<cls, sc, who>>, i)) : who \in {me, AnyActor}}
<1>5. own \in classes /\ any \in classes
  BY <1>3
<1> HIDE DEF classes
<1>6. log[cap].body.mode = "Ask" =>
        \/ /\ InForce(exact, i) /\ Spent(exact, i) = {}
           /\ log[exact].body.actor = me /\ log[exact].body.scope = sc
        \/ \E p \in classes : InForce(p, i)
  BY <1>4, <1>5
<1> QED BY <1>2, <1>3, <1>4, <1>6 DEF classes

\* The log of before i is still what it was.
LEMMA PastSame ==
  ASSUME LogInv, NEW K, Adds(K), NEW i \in 1..(Len(log) + 1)
  PROVE  /\ \A k : Capabilities(k, i)' = Capabilities(k, i)
         /\ \A f, k : Approvals(f, k, i)' = Approvals(f, k, i)
         /\ \A t : Withdrawn(t, i)' <=> Withdrawn(t, i)
         /\ \A p \in 1..Len(log) : Spent(p, i)' = Spent(p, i)
<1>1. \A k, j : j < i => (j \in Accepted(k)' <=> j \in Accepted(k))
  BY AddedFacts
<1>2. \A k : \A j \in Accepted(k) : log'[j] = log[j]
  BY AddedFacts
<1>3. \A k : Capabilities(k, i)' = Capabilities(k, i)
  BY <1>1, <1>2 DEF Capabilities
<1>4. \A f, k : Approvals(f, k, i)' = Approvals(f, k, i)
  BY <1>1, <1>2 DEF Approvals
<1>5. \A t : Withdrawn(t, i)' <=> Withdrawn(t, i)
  BY <1>1, <1>2 DEF Withdrawn
<1>6. \A k : \A j \in Accepted(k) : HashOf(j)' = HashOf(j)
  BY <1>2 DEF HashOf
<1>7. \A p \in 1..Len(log) : Spent(p, i)' = Spent(p, i)
  <2> SUFFICES ASSUME NEW p \in 1..Len(log) PROVE Spent(p, i)' = Spent(p, i)
    OBVIOUS
  <2>1. log'[p] = log[p]
    BY AddedFacts
  <2>2. \A j : j \in Spent(p, i)' <=>
          j \in Accepted("Action")' /\ j < i /\ HashOf(j)' = log'[p].body.key /\ Ref("Require", p) \in log'[j].refs
    BY DEF Spent
  <2>3. \A j : j \in Spent(p, i) <=>
          j \in Accepted("Action") /\ j < i /\ HashOf(j) = log[p].body.key /\ Ref("Require", p) \in log[j].refs
    BY DEF Spent
  <2>4. \A j : j \in Spent(p, i)' <=> j \in Spent(p, i)
    BY <1>1, <1>2, <1>6, <2>1, <2>2, <2>3
  <2> QED BY <2>4
<1> QED BY <1>3, <1>4, <1>5, <1>7

\* What backed an action backs it still.
LEMMA PastBacked ==
  ASSUME LogInv, NEW K, Adds(K), NEW i \in Accepted("Action"), AuditInv
  PROVE  \E me, cls, sc, h, cap, exact, own, any :
           (Says(i, me, cls, sc, h) /\ Backed(i, me, cls, sc, h, cap, exact, own, any))'
<1>1. PICK me, cls, sc, h, cap, exact, own, any :
        Says(i, me, cls, sc, h) /\ Backed(i, me, cls, sc, h, cap, exact, own, any)
  BY DEF AuditInv
<1>2. i \in 1..Len(log) /\ i \in 1..(Len(log) + 1) /\ Len(log) \in Nat /\ log'[i] = log[i]
  BY AddedFacts
<1>3. Says(i, me, cls, sc, h)'
  BY <1>1, <1>2 DEF Says, HashOf
<1>4. \A g \in 0..Len(log) : InForce(g, i)' <=> InForce(g, i)
  <2> SUFFICES ASSUME NEW g \in 0..Len(log) PROVE InForce(g, i)' <=> InForce(g, i)
    OBVIOUS
  <2>1. CASE g = None
    BY <2>1 DEF InForce
  <2>2. CASE g # None
    <3>1. log'[g] = log[g]
      BY <2>2, AddedFacts DEF None
    <3> QED BY <1>2, <3>1, PastSame DEF InForce, TimeOf
  <2> QED BY <2>1, <2>2
<1>5. /\ \A k : Capabilities(k, i) \in SUBSET (1..Len(log))
      /\ \A f, k : Approvals(f, k, i) \in SUBSET (1..Len(log))
  BY AddedFacts DEF Capabilities, Approvals
<1>6. cap \in 0..Len(log) /\ exact \in 0..Len(log) /\ own \in 0..Len(log) /\ any \in 0..Len(log)
  <2>1. \A S \in SUBSET (1..Len(log)) : Latest(S) \in 0..Len(log)
    BY <1>2, LatestOf
  <2> QED BY <1>1, <1>5, <2>1 DEF Backed
<1>7. \A g \in 0..Len(log) : InForce(g, i) => g \in 1..Len(log) /\ log'[g] = log[g]
  BY AddedFacts DEF InForce, None
<1>8. /\ cap = Latest(Capabilities(<<me, cls, sc>>, i)')
      /\ exact = Latest(Approvals("exact", h, i)')
      /\ own = Latest(Approvals("class", <<cls, sc, me>>, i)')
      /\ any = Latest(Approvals("class", <<cls, sc, AnyActor>>, i)')
  BY <1>1, <1>2, PastSame DEF Backed
<1>9. InForce(cap, i)' /\ log'[cap].body.mode # "Deny" /\ log'[cap] = log[cap]
  BY <1>1, <1>4, <1>6, <1>7 DEF Backed
<1>10. log[cap].body.mode = "Ask" =>
         \/ /\ InForce(exact, i)' /\ Spent(exact, i)' = {}
            /\ log'[exact].body.actor = me /\ log'[exact].body.scope = sc
         \/ InForce(own, i)' \/ InForce(any, i)'
  <2> SUFFICES ASSUME log[cap].body.mode = "Ask"
               PROVE  \/ /\ InForce(exact, i)' /\ Spent(exact, i)' = {}
                         /\ log'[exact].body.actor = me /\ log'[exact].body.scope = sc
                      \/ InForce(own, i)' \/ InForce(any, i)'
    OBVIOUS
  <2>1. CASE /\ InForce(exact, i) /\ Spent(exact, i) = {}
             /\ log[exact].body.actor = me /\ log[exact].body.scope = sc
    <3>1. InForce(exact, i)' /\ exact \in 1..Len(log) /\ log'[exact] = log[exact]
      BY <1>4, <1>6, <1>7, <2>1
    <3>2. Spent(exact, i)' = {}
      BY <1>2, <2>1, <3>1, PastSame
    <3> QED BY <2>1, <3>1, <3>2
  <2>2. CASE InForce(own, i) \/ InForce(any, i)
    BY <1>4, <1>6, <2>2
  <2> QED BY <1>1, <2>1, <2>2 DEF Backed
<1>11. Backed(i, me, cls, sc, h, cap, exact, own, any)'
  BY <1>8, <1>9, <1>10 DEF Backed, Latest
<1> QED BY <1>3, <1>11

LEMMA OtherAudit ==
  ASSUME LogInv, AuditInv, NEW K, Adds(K), "Action" \notin K
  PROVE  AuditInv'
<1>1. \A i : i \in Accepted("Action")' => i \in Accepted("Action")
  BY AddedFacts
<1>2. \A i \in Accepted("Action") : \E me, cls, sc, h, cap, exact, own, any :
           (Says(i, me, cls, sc, h) /\ Backed(i, me, cls, sc, h, cap, exact, own, any))'
  BY PastBacked
<1> QED BY <1>1, <1>2 DEF AuditInv

\* What the log says now, in terms of the folded state.
LEMMA LogNow ==
  ASSUME LedgerInv
  PROVE  /\ \A k : Capabilities(k, NextId) = Caps(k)
         /\ \A f, k : Approvals(f, k, NextId) = Apps(f, k)
         /\ \A t : Withdrawn(t, NextId) <=> t \in retracted_records
         /\ \A p \in 1..Len(log) : Spent(p, NextId) = {} <=> p \notin Used(log[p].body.key)
<1>1. /\ \A k : \A j \in Accepted(k) : j < NextId
      /\ Len(log) \in Nat
  <2>1. accepted_records \subseteq 1..Len(log) /\ Len(log) \in Nat
    BY DEF LedgerInv, LogInv
  <2>2. \A k : Accepted(k) \subseteq accepted_records
    BY DEF Accepted
  <2>3. \A j \in accepted_records : j < NextId
    BY <2>1 DEF NextId
  <2> QED BY <2>1, <2>2, <2>3
<1>2. \A k : Capabilities(k, NextId) = Caps(k)
  BY <1>1 DEF Capabilities, Caps
<1>3. \A f, k : Approvals(f, k, NextId) = Apps(f, k)
  BY <1>1 DEF Approvals, Apps
<1>4. \A t : Withdrawn(t, NextId) <=> t \in retracted_records
  BY <1>1 DEF Withdrawn, LedgerInv, TaintInv
<1>5. \A p \in 1..Len(log) : Spent(p, NextId) = {} <=> p \notin Used(log[p].body.key)
  BY <1>1 DEF Spent, Used
<1> QED BY <1>2, <1>3, <1>4, <1>5

LEMMA SlotsSay ==
  ASSUME LedgerInv, GrantInv
  PROVE  SlotsAreLatest
<1> DEFINE live(g) == IF g = None \/ Withdrawn(g, NextId) THEN None ELSE g
           unspent(p) == IF p = None \/ Spent(p, NextId) # {} THEN None ELSE p
<1>0. Len(log) \in Nat /\ SlotsNow
  BY DEF LedgerInv, LogInv, GrantInv
<1>1. \A S : live(Latest(S)) = SlotOf(S, retracted_records)
  BY LogNow DEF SlotOf
<1>2. /\ \A k : Capabilities(k, NextId) = Caps(k)
      /\ \A f, k : Approvals(f, k, NextId) = Apps(f, k)
  BY LogNow
<1>3. \A k \in CapKeys : active_capabilities[k] = live(Latest(Capabilities(k, NextId)))
  <2> HIDE DEF live
  <2> QED BY <1>0, <1>1, <1>2 DEF SlotsNow
<1>4. \A k \in ClassKeys : class_approvals[k] = live(Latest(Approvals("class", k, NextId)))
  <2> HIDE DEF live
  <2> QED BY <1>0, <1>1, <1>2 DEF SlotsNow
<1>5. \A h \in Hashes : valid_approvals[h] = unspent(live(Latest(Approvals("exact", h, NextId))))
  <2> SUFFICES ASSUME NEW h \in Hashes
               PROVE  valid_approvals[h] = unspent(live(Latest(Approvals("exact", h, NextId))))
    OBVIOUS
  <2> DEFINE S == Apps("exact", h)
             q == SlotOf(S, retracted_records)
  <2>1. live(Latest(Approvals("exact", h, NextId))) = q
    <3> HIDE DEF live
    <3> QED BY <1>1, <1>2
  <2>2. valid_approvals[h] = SlotOf(S, retracted_records \union Used(h))
    BY <1>0 DEF SlotsNow
  <2>3. S \in SUBSET (1..Len(log)) /\ \A p \in S : log[p].body.key = h
    <3>1. S \in SUBSET Accepted("Approval") /\ \A p \in S : log[p].body.key = h
      BY DEF Apps
    <3>2. Accepted("Approval") \subseteq 1..Len(log)
      BY DEF Accepted, LedgerInv, LogInv
    <3> QED BY <3>1, <3>2
  <2> HIDE DEF S, live
  <2>4. q \in 0..Len(log) /\ (q # None => q \in S)
    BY <1>0, <2>3, SlotHolder
  <2>5. valid_approvals[h] = IF q \in Used(h) THEN None ELSE q
    BY <1>0, <2>2, <2>3, SlotGone
  <2> HIDE DEF q
  <2>6. q # None => (Spent(q, NextId) = {} <=> q \notin Used(h))
    BY <2>3, <2>4, LogNow
  <2>7. unspent(q) = IF q \in Used(h) THEN None ELSE q
    BY <2>6
  <2> QED BY <2>1, <2>5, <2>7
<1> QED BY <1>3, <1>4, <1>5 DEF SlotsAreLatest

\* The approval that an action finds is in force by the slot that holds it.
LEMMA ApprovalFound ==
  ASSUME NEW hash, NEW actor, NEW cls, NEW sc, NEW p, p = ApprovalFor(hash, actor, cls, sc), p # None
  PROVE  /\ Sound(p) /\ Unexpired(p)
         /\ \/ p = valid_approvals[hash] /\ log[p].body.actor = actor /\ log[p].body.scope = sc
            \/ p = class_approvals[<<cls, sc, actor>>]
            \/ p = class_approvals[<<cls, sc, AnyActor>>]
<1> DEFINE own == <<cls, sc, actor>>
           any == <<cls, sc, AnyActor>>
<1>1. CASE ExactUsable(hash, actor, sc)
  <2>1. p = valid_approvals[hash]
    BY <1>1 DEF ApprovalFor
  <2> QED BY <1>1, <2>1 DEF ExactUsable
<1>2. CASE ~ExactUsable(hash, actor, sc) /\ ClassUsable(own)
  <2>1. p = IF Unexpired(class_approvals[own]) THEN class_approvals[own] ELSE None
    BY <1>2 DEF ApprovalFor
  <2>2. p = class_approvals[own] /\ Unexpired(p)
    BY <2>1
  <2> QED BY <1>2, <2>2 DEF ClassUsable
<1>3. CASE ~ExactUsable(hash, actor, sc) /\ ~ClassUsable(own) /\ ClassUsable(any)
  <2>1. p = IF Unexpired(class_approvals[any]) THEN class_approvals[any] ELSE None
    BY <1>3 DEF ApprovalFor
  <2>2. p = class_approvals[any] /\ Unexpired(p)
    BY <2>1
  <2> QED BY <1>3, <2>2 DEF ClassUsable
<1>4. CASE ~ExactUsable(hash, actor, sc) /\ ~ClassUsable(own) /\ ~ClassUsable(any)
  <2>1. p = None
    BY <1>4 DEF ApprovalFor
  <2> QED BY <2>1
<1> QED BY <1>1, <1>2, <1>3, <1>4

\* A new action is backed by what its slots held.
LEMMA ActionAudit ==
  ASSUME LedgerInv, GrantInv, AuditInv,
         NEW a, NEW th, NEW req, NEW cls, NEW sc, NEW exec, NEW extra, NEW uses,
         <<a, req, cls, sc, exec>> \in Hashes,
         CommitAction(a, th, req, cls, sc, exec, extra, uses)
  PROVE  AuditInv'
<1> DEFINE body == [thread |-> th, request |-> req, class |-> cls, scope |-> sc, exec |-> exec]
           hash == <<a, req, cls, sc, exec>>
           key == <<a, cls, sc>>
           ownkey == <<cls, sc, a>>
           anykey == <<cls, sc, AnyActor>>
           cap == active_capabilities[key]
           asks == cap # None /\ log[cap].body.mode = "Ask"
           approval == IF asks THEN ApprovalFor(hash, a, cls, sc) ELSE None
           req_ids == ({cap, approval} \union extra) \ {None}
           refs == uses \union {Ref("Require", i) : i \in req_ids}
<1>0. LogInv /\ SlotsNow
  BY DEF LedgerInv, GrantInv
<1>1. Adds({"Action"}) /\ log'[NextId].body = body /\ log'[NextId].author = a /\ log'[NextId].refs = refs
  BY AcceptAdds DEF CommitAction, LedgerInv
<1>2. body.request = req /\ body.class = cls /\ body.scope = sc /\ body.exec = exec
  OBVIOUS
<1>3. Authorizes(cap) /\ (asks => approval # None)
  BY DEF CommitAction
<1>4. key \in CapKeys /\ ownkey \in ClassKeys /\ anykey \in ClassKeys
  BY DEF Hashes, CapKeys, ClassKeys
<1>5. /\ Ref("Require", cap) \in refs
      /\ asks => Ref("Require", approval) \in refs
  BY <1>3 DEF Authorizes
<1> HIDE DEF body, refs, key, ownkey, anykey
<1>6. PICK n : n = NextId
  OBVIOUS
<1>7. Len(log) \in Nat /\ n = Len(log) + 1 /\ n \in 1..(Len(log) + 1)
  BY <1>0, <1>6 DEF LogInv, NextId
<1>8. /\ \A k : Capabilities(k, n)' = Caps(k)
      /\ \A f, k : Approvals(f, k, n)' = Apps(f, k)
      /\ \A t : Withdrawn(t, n)' <=> t \in retracted_records
      /\ \A p \in 1..Len(log) : Spent(p, n)' = {} <=> p \notin Used(log[p].body.key)
  BY <1>0, <1>1, <1>6, <1>7, LogNow, PastSame
<1>9. /\ \A k : Caps(k) \in SUBSET (1..Len(log))
      /\ \A f, k : Apps(f, k) \in SUBSET (1..Len(log)) /\ \A p \in Apps(f, k) : log[p].body.key = k
  <2>1. \A k : Accepted(k) \subseteq 1..Len(log)
    BY <1>0 DEF LogInv, Accepted
  <2> QED BY <2>1 DEF Caps, Apps
<1>10. \A p \in 1..Len(log) : log'[p] = log[p]
  BY <1>0, <1>1, AddedFacts
<1>11. \A p \in 1..Len(log) :
         p \notin retracted_records /\ Unexpired(p) /\ Ref("Require", p) \in refs => InForce(p, n)'
  <2> SUFFICES ASSUME NEW p \in 1..Len(log), p \notin retracted_records, Unexpired(p), Ref("Require", p) \in refs
               PROVE  InForce(p, n)'
    OBVIOUS
  <2>1. p # None /\ ~Withdrawn(p, n)' /\ log'[p] = log[p]
    BY <1>8, <1>10 DEF None
  <2>2. TimeOf(n) < log'[p].body.expiry
    BY <1>6, <2>1 DEF Unexpired
  <2>3. Ref("Require", p) \in log'[n].refs
    BY <1>1, <1>6
  <2> QED BY <2>1, <2>2, <2>3 DEF InForce, TimeOf
<1>12. Says(n, a, cls, sc, hash)'
  BY <1>1, <1>2, <1>6 DEF Says, HashOf
<1>13. PICK c, exact, own, any :
         /\ c = cap /\ exact = Latest(Apps("exact", hash))
         /\ own = Latest(Apps("class", ownkey)) /\ any = Latest(Apps("class", anykey))
  OBVIOUS
<1>14. c = Latest(Caps(key)) /\ c \in 1..Len(log) /\ c \notin retracted_records /\ c # None
  <2>1. c = SlotOf(Caps(key), retracted_records) /\ c # None
    BY <1>0, <1>3, <1>4, <1>13 DEF SlotsNow, Authorizes
  <2>2. c \in 0..Len(log) /\ c = Latest(Caps(key)) /\ c \notin retracted_records
    BY <1>7, <1>9, <2>1, SlotHolder
  <2> QED BY <2>1, <2>2 DEF None
<1>15. InForce(c, n)' /\ log'[c].body.mode # "Deny" /\ log'[c] = log[c]
  <2>1. Unexpired(c) /\ log[c].body.mode # "Deny"
    BY <1>3, <1>13 DEF Authorizes
  <2>2. Ref("Require", c) \in refs
    BY <1>5, <1>13
  <2> QED BY <1>10, <1>11, <1>14, <2>1, <2>2
<1>16. log[c].body.mode = "Ask" =>
         \/ /\ InForce(exact, n)' /\ Spent(exact, n)' = {}
            /\ log'[exact].body.actor = a /\ log'[exact].body.scope = sc
         \/ InForce(own, n)' \/ InForce(any, n)'
  <2> SUFFICES ASSUME log[c].body.mode = "Ask"
               PROVE  \/ /\ InForce(exact, n)' /\ Spent(exact, n)' = {}
                         /\ log'[exact].body.actor = a /\ log'[exact].body.scope = sc
                      \/ InForce(own, n)' \/ InForce(any, n)'
    OBVIOUS
  <2>1. PICK p : p = approval
    OBVIOUS
  <2>2. asks
    BY <1>13, <1>14
  <2>3. p = ApprovalFor(hash, a, cls, sc) /\ p # None /\ Ref("Require", p) \in refs
    BY <1>3, <1>5, <2>1, <2>2
  <2>4. /\ Sound(p) /\ Unexpired(p)
        /\ \/ p = valid_approvals[hash] /\ log[p].body.actor = a /\ log[p].body.scope = sc
           \/ p = class_approvals[ownkey]
           \/ p = class_approvals[anykey]
    BY <2>3, ApprovalFound DEF ownkey, anykey
  <2>5. p \in 1..Len(log) /\ p \notin retracted_records /\ InForce(p, n)'
    <3>1. p \in accepted_records /\ p \notin retracted_records
      BY <2>4 DEF Sound
    <3>2. p \in 1..Len(log)
      BY <1>0, <3>1 DEF LogInv
    <3> QED BY <1>11, <2>3, <2>4, <3>1, <3>2
  <2>6. CASE p = valid_approvals[hash] /\ log[p].body.actor = a /\ log[p].body.scope = sc
    <3>1. p = SlotOf(Apps("exact", hash), retracted_records \union Used(hash))
      BY <1>0, <2>6 DEF SlotsNow
    <3> HIDE DEF hash
    <3>2. p = exact /\ p \in Apps("exact", hash) /\ p \notin Used(hash)
      BY SMTT(60), <1>7, <1>9, <1>13, <2>3, <3>1, SlotHolder
    <3>3. log[p].body.key = hash
      BY <1>9, <3>2
    <3>4. Spent(p, n)' = {}
      BY <1>8, <2>5, <3>2, <3>3
    <3>5. log'[p] = log[p]
      BY <1>10, <2>5
    <3> QED BY <2>5, <2>6, <3>2, <3>4, <3>5
  <2>7. CASE p = class_approvals[ownkey]
    <3>1. p = SlotOf(Apps("class", ownkey), retracted_records)
      BY <1>0, <1>4, <2>7 DEF SlotsNow
    <3>2. p = own
      BY <1>7, <1>9, <1>13, <2>3, <3>1, SlotHolder
    <3> QED BY <2>5, <3>2
  <2>8. CASE p = class_approvals[anykey]
    <3>1. p = SlotOf(Apps("class", anykey), retracted_records)
      BY <1>0, <1>4, <2>8 DEF SlotsNow
    <3>2. p = any
      BY <1>7, <1>9, <1>13, <2>3, <3>1, SlotHolder
    <3> QED BY <2>5, <3>2
  <2> QED BY <2>4, <2>6, <2>7, <2>8
<1>17. Backed(n, a, cls, sc, hash, c, exact, own, any)'
  <2>1. /\ c = Latest(Capabilities(key, n)')
        /\ exact = Latest(Approvals("exact", hash, n)')
        /\ own = Latest(Approvals("class", ownkey, n)')
        /\ any = Latest(Approvals("class", anykey, n)')
    BY <1>8, <1>13, <1>14
  <2> QED BY <1>15, <1>16, <2>1 DEF Backed, Latest, key, ownkey, anykey
<1>18. \A i \in Accepted("Action")' : i = n \/ i \in Accepted("Action")
  BY <1>0, <1>1, <1>6, AddedFacts
<1>19. \A i \in Accepted("Action") : \E me, cl, s, h, q1, q2, q3, q4 :
           (Says(i, me, cl, s, h) /\ Backed(i, me, cl, s, h, q1, q2, q3, q4))'
  BY <1>0, <1>1, PastBacked
<1>20. \E me, cl, s, h, q1, q2, q3, q4 :
           (Says(n, me, cl, s, h) /\ Backed(n, me, cl, s, h, q1, q2, q3, q4))'
  BY <1>12, <1>17
<1> QED BY <1>18, <1>19, <1>20 DEF AuditInv

-----------------------------------------------------------------------------
(* The inductive invariant *)

ClaimInv ==
  /\ active_summaries \in [Scopes -> Accepted("Summary") \union {None}]
  /\ usage_counts \in [Ids -> Nat]
  /\ bounds.execs \subseteq ExecModes

GInv == LedgerInv /\ WorkInv /\ GrantInv /\ AuditInv /\ ClaimInv

\* A record of this kind, no Retraction, is committed.
Commits(kind) == \E a, body, refs : Accept(kind, a, body, refs) /\ Claims(refs)

LEMMA CommitsKeeps ==
  ASSUME LedgerInv, NEW kind, kind # "Retraction", Commits(kind)
  PROVE  /\ LedgerInv' /\ Adds({kind}) /\ \E k : {kind} \subseteq {k}
         /\ retracted_records' = retracted_records /\ bounds' = bounds
<1>1. PICK a, body, refs : Accept(kind, a, body, refs) /\ Claims(refs)
  BY DEF Commits
<1>2. LedgerInv'
  BY <1>1, ClaimKeepsLedger
<1>3. Adds({kind})
  BY <1>1, AcceptAdds DEF LedgerInv
<1>4. retracted_records' = retracted_records /\ bounds' = bounds
  BY <1>1 DEF Accept, Claims, setting
<1> QED BY <1>2, <1>3, <1>4

LEMMA OtherClaims ==
  ASSUME LogInv, ClaimInv, NEW K, Adds(K), bounds' = bounds, UNCHANGED claims
  PROVE  ClaimInv'
<1>1. \A i \in Accepted("Summary") : i \in Accepted("Summary")'
  BY AddedFacts
<1>2. active_summaries' = active_summaries /\ usage_counts' = usage_counts
  BY DEF claims
<1> QED BY <1>1, <1>2 DEF ClaimInv

LEMMA KeepsRequest ==
  ASSUME GInv, NEW a, NEW th, NEW sc, NEW parent, NEW uses,
         CommitRequest(a, th, sc, parent, uses)
  PROVE  GInv'
<1>1. LogInv /\ LedgerInv /\ WorkInv /\ GrantInv /\ AuditInv /\ ClaimInv
  BY DEF GInv, LedgerInv
<1>2. Commits("Request")
  BY Zenon DEF CommitRequest, Commits
<1>3. /\ LedgerInv' /\ Adds({"Request"}) /\ \E k : {"Request"} \subseteq {k}
      /\ retracted_records' = retracted_records /\ bounds' = bounds
  BY <1>1, <1>2, CommitsKeeps
<1>4. WorkInv'
  BY <1>1, RequestWork
<1>5. GrantInv'
  <2>1. UNCHANGED grants
    BY DEF CommitRequest
  <2> QED BY <1>1, <1>3, <2>1, OtherGrants
<1>6. AuditInv'
  BY <1>1, <1>3, OtherAudit
<1>7. ClaimInv'
  <2>1. UNCHANGED claims
    BY DEF CommitRequest
  <2> QED BY <1>1, <1>3, <2>1, OtherClaims
<1> QED BY <1>3, <1>4, <1>5, <1>6, <1>7 DEF GInv

LEMMA KeepsCapability ==
  ASSUME GInv, NEW a, NEW th, NEW key \in CapKeys, NEW mode, NEW expiry, NEW uses, NEW repl,
         CommitCapability(a, th, key, mode, expiry, uses, repl)
  PROVE  GInv'
<1>1. LogInv /\ LedgerInv /\ WorkInv /\ GrantInv /\ AuditInv /\ ClaimInv
  BY DEF GInv, LedgerInv
<1>2. Commits("Capability")
  BY Zenon DEF CommitCapability, Commits
<1>3. /\ LedgerInv' /\ Adds({"Capability"}) /\ \E k : {"Capability"} \subseteq {k}
      /\ retracted_records' = retracted_records /\ bounds' = bounds
  BY <1>1, <1>2, CommitsKeeps
<1>4. WorkInv'
  <2>1. UNCHANGED <<requests, actions>>
    BY DEF CommitCapability
  <2> QED BY <1>1, <1>3, <2>1, OtherWork
<1>5. GrantInv'
  BY <1>1, <1>3, CapabilityGrants
<1>6. AuditInv'
  BY <1>1, <1>3, OtherAudit
<1>7. ClaimInv'
  <2>1. UNCHANGED claims
    BY DEF CommitCapability
  <2> QED BY <1>1, <1>3, <2>1, OtherClaims
<1> QED BY <1>3, <1>4, <1>5, <1>6, <1>7 DEF GInv

LEMMA KeepsExactApproval ==
  ASSUME GInv, NEW a, NEW th, NEW hash \in Hashes, NEW actor, NEW sc, NEW expiry, NEW uses, NEW repl,
         CommitExactApproval(a, th, hash, actor, sc, expiry, uses, repl)
  PROVE  GInv'
<1>1. LogInv /\ LedgerInv /\ WorkInv /\ GrantInv /\ AuditInv /\ ClaimInv
  BY DEF GInv, LedgerInv
<1>2. Commits("Approval")
  BY Zenon DEF CommitExactApproval, Commits
<1>3. /\ LedgerInv' /\ Adds({"Approval"}) /\ \E k : {"Approval"} \subseteq {k}
      /\ retracted_records' = retracted_records /\ bounds' = bounds
  BY <1>1, <1>2, CommitsKeeps
<1>4. WorkInv'
  <2>1. UNCHANGED <<requests, actions>>
    BY DEF CommitExactApproval
  <2> QED BY <1>1, <1>3, <2>1, OtherWork
<1>5. GrantInv'
  BY <1>1, <1>3, ExactGrants
<1>6. AuditInv'
  BY <1>1, <1>3, OtherAudit
<1>7. ClaimInv'
  <2>1. UNCHANGED claims
    BY DEF CommitExactApproval
  <2> QED BY <1>1, <1>3, <2>1, OtherClaims
<1> QED BY <1>3, <1>4, <1>5, <1>6, <1>7 DEF GInv

LEMMA KeepsClassApproval ==
  ASSUME GInv, NEW a, NEW th, NEW key \in ClassKeys, NEW expiry, NEW uses, NEW repl,
         CommitClassApproval(a, th, key, expiry, uses, repl)
  PROVE  GInv'
<1>1. LogInv /\ LedgerInv /\ WorkInv /\ GrantInv /\ AuditInv /\ ClaimInv
  BY DEF GInv, LedgerInv
<1>2. Commits("Approval")
  BY Zenon DEF CommitClassApproval, Commits
<1>3. /\ LedgerInv' /\ Adds({"Approval"}) /\ \E k : {"Approval"} \subseteq {k}
      /\ retracted_records' = retracted_records /\ bounds' = bounds
  BY <1>1, <1>2, CommitsKeeps
<1>4. WorkInv'
  <2>1. UNCHANGED <<requests, actions>>
    BY DEF CommitClassApproval
  <2> QED BY <1>1, <1>3, <2>1, OtherWork
<1>5. GrantInv'
  BY <1>1, <1>3, ClassGrants
<1>6. AuditInv'
  BY <1>1, <1>3, OtherAudit
<1>7. ClaimInv'
  <2>1. UNCHANGED claims
    BY DEF CommitClassApproval
  <2> QED BY <1>1, <1>3, <2>1, OtherClaims
<1> QED BY <1>3, <1>4, <1>5, <1>6, <1>7 DEF GInv

LEMMA KeepsAction ==
  ASSUME GInv, NEW a, NEW th, NEW req, NEW cls, NEW sc, NEW exec, NEW extra, NEW uses,
         \A r \in uses : r.type = "Use", <<a, req, cls, sc, exec>> \in Hashes,
         CommitAction(a, th, req, cls, sc, exec, extra, uses)
  PROVE  GInv'
<1>1. LogInv /\ LedgerInv /\ WorkInv /\ GrantInv /\ AuditInv /\ ClaimInv
  BY DEF GInv, LedgerInv
<1>2. Commits("Action")
  BY Zenon DEF CommitAction, Commits
<1>3. /\ LedgerInv' /\ Adds({"Action"}) /\ \E k : {"Action"} \subseteq {k}
      /\ retracted_records' = retracted_records /\ bounds' = bounds
  BY <1>1, <1>2, CommitsKeeps
<1>4. WorkInv'
  BY <1>1, ActionWork
<1>5. GrantInv'
  BY <1>1, <1>3, ActionGrants
<1>6. AuditInv'
  BY <1>1, ActionAudit
<1>7. ClaimInv'
  <2>1. UNCHANGED claims
    BY DEF CommitAction
  <2> QED BY <1>1, <1>3, <2>1, OtherClaims
<1> QED BY <1>3, <1>4, <1>5, <1>6, <1>7 DEF GInv

LEMMA KeepsResult ==
  ASSUME GInv, NEW a, NEW th, NEW act, NEW schema, NEW artifacts, NEW uses,
         CommitResult(a, th, act, schema, artifacts, uses)
  PROVE  GInv'
<1>1. LogInv /\ LedgerInv /\ WorkInv /\ GrantInv /\ AuditInv /\ ClaimInv
  BY DEF GInv, LedgerInv
<1>2. Commits("Result")
  BY Zenon DEF CommitResult, Commits
<1>3. /\ LedgerInv' /\ Adds({"Result"}) /\ \E k : {"Result"} \subseteq {k}
      /\ retracted_records' = retracted_records /\ bounds' = bounds
  BY <1>1, <1>2, CommitsKeeps
<1>4. WorkInv'
  BY <1>1, ResultWork
<1>5. GrantInv'
  <2>1. UNCHANGED grants
    BY DEF CommitResult
  <2> QED BY <1>1, <1>3, <2>1, OtherGrants
<1>6. AuditInv'
  BY <1>1, <1>3, OtherAudit
<1>7. ClaimInv'
  <2>1. UNCHANGED claims
    BY DEF CommitResult
  <2> QED BY <1>1, <1>3, <2>1, OtherClaims
<1> QED BY <1>3, <1>4, <1>5, <1>6, <1>7 DEF GInv

LEMMA KeepsResponse ==
  ASSUME GInv, NEW a, NEW th, NEW req, NEW turn, NEW closes \in BOOLEAN, NEW uses,
         CommitResponse(a, th, req, turn, closes, uses)
  PROVE  GInv'
<1>1. LogInv /\ LedgerInv /\ WorkInv /\ GrantInv /\ AuditInv /\ ClaimInv
  BY DEF GInv, LedgerInv
<1>2. Commits("Response")
  BY Zenon DEF CommitResponse, Commits
<1>3. /\ LedgerInv' /\ Adds({"Response"}) /\ \E k : {"Response"} \subseteq {k}
      /\ retracted_records' = retracted_records /\ bounds' = bounds
  BY <1>1, <1>2, CommitsKeeps
<1>4. WorkInv'
  BY <1>1, ResponseWork
<1>5. GrantInv'
  <2>1. UNCHANGED grants
    BY DEF CommitResponse
  <2> QED BY <1>1, <1>3, <2>1, OtherGrants
<1>6. AuditInv'
  BY <1>1, <1>3, OtherAudit
<1>7. ClaimInv'
  <2>1. UNCHANGED claims
    BY DEF CommitResponse
  <2> QED BY <1>1, <1>3, <2>1, OtherClaims
<1> QED BY <1>3, <1>4, <1>5, <1>6, <1>7 DEF GInv

LEMMA KeepsPlan ==
  ASSUME GInv, NEW a, NEW th, NEW req, NEW status, NEW repl,
         CommitPlan(a, th, req, status, repl)
  PROVE  GInv'
<1>1. LogInv /\ LedgerInv /\ WorkInv /\ GrantInv /\ AuditInv /\ ClaimInv
  BY DEF GInv, LedgerInv
<1>2. Commits("Plan")
  BY Zenon DEF CommitPlan, Commits
<1>3. /\ LedgerInv' /\ Adds({"Plan"}) /\ \E k : {"Plan"} \subseteq {k}
      /\ retracted_records' = retracted_records /\ bounds' = bounds
  BY <1>1, <1>2, CommitsKeeps
<1>4. WorkInv'
  BY <1>1, PlanWork
<1>5. GrantInv'
  <2>1. UNCHANGED grants
    BY DEF CommitPlan
  <2> QED BY <1>1, <1>3, <2>1, OtherGrants
<1>6. AuditInv'
  BY <1>1, <1>3, OtherAudit
<1>7. ClaimInv'
  <2>1. UNCHANGED claims
    BY DEF CommitPlan
  <2> QED BY <1>1, <1>3, <2>1, OtherClaims
<1> QED BY <1>3, <1>4, <1>5, <1>6, <1>7 DEF GInv

LEMMA KeepsRefusedAction ==
  ASSUME GInv, NEW a, NEW th, NEW act,
         RefuseAction(a, th, act)
  PROVE  GInv'
<1>1. LogInv /\ LedgerInv /\ WorkInv /\ GrantInv /\ AuditInv /\ ClaimInv
  BY DEF GInv, LedgerInv
<1>2. Commits("Refusal")
  BY Zenon DEF RefuseAction, Commits
<1>3. /\ LedgerInv' /\ Adds({"Refusal"}) /\ \E k : {"Refusal"} \subseteq {k}
      /\ retracted_records' = retracted_records /\ bounds' = bounds
  BY <1>1, <1>2, CommitsKeeps
<1>4. WorkInv'
  BY <1>1, RefuseActionWork
<1>5. GrantInv'
  <2>1. UNCHANGED grants
    BY DEF RefuseAction
  <2> QED BY <1>1, <1>3, <2>1, OtherGrants
<1>6. AuditInv'
  BY <1>1, <1>3, OtherAudit
<1>7. ClaimInv'
  <2>1. UNCHANGED claims
    BY DEF RefuseAction
  <2> QED BY <1>1, <1>3, <2>1, OtherClaims
<1> QED BY <1>3, <1>4, <1>5, <1>6, <1>7 DEF GInv

LEMMA KeepsRefusedRequest ==
  ASSUME GInv, NEW a, NEW th, NEW req,
         RefuseRequest(a, th, req)
  PROVE  GInv'
<1>1. LogInv /\ LedgerInv /\ WorkInv /\ GrantInv /\ AuditInv /\ ClaimInv
  BY DEF GInv, LedgerInv
<1>2. Commits("Refusal")
  BY Zenon DEF RefuseRequest, Commits
<1>3. /\ LedgerInv' /\ Adds({"Refusal"}) /\ \E k : {"Refusal"} \subseteq {k}
      /\ retracted_records' = retracted_records /\ bounds' = bounds
  BY <1>1, <1>2, CommitsKeeps
<1>4. WorkInv'
  BY <1>1, RefuseRequestWork
<1>5. GrantInv'
  <2>1. UNCHANGED grants
    BY DEF RefuseRequest
  <2> QED BY <1>1, <1>3, <2>1, OtherGrants
<1>6. AuditInv'
  BY <1>1, <1>3, OtherAudit
<1>7. ClaimInv'
  <2>1. UNCHANGED claims
    BY DEF RefuseRequest
  <2> QED BY <1>1, <1>3, <2>1, OtherClaims
<1> QED BY <1>3, <1>4, <1>5, <1>6, <1>7 DEF GInv

LEMMA KeepsRefusedEffect ==
  ASSUME GInv, NEW a, NEW th, NEW res,
         RefuseEffect(a, th, res)
  PROVE  GInv'
<1>1. LogInv /\ LedgerInv /\ WorkInv /\ GrantInv /\ AuditInv /\ ClaimInv
  BY DEF GInv, LedgerInv
<1>2. Commits("Refusal")
  BY Zenon DEF RefuseEffect, Commits
<1>3. /\ LedgerInv' /\ Adds({"Refusal"}) /\ \E k : {"Refusal"} \subseteq {k}
      /\ retracted_records' = retracted_records /\ bounds' = bounds
  BY <1>1, <1>2, CommitsKeeps
<1>4. WorkInv'
  BY <1>1, RefuseEffectWork
<1>5. GrantInv'
  <2>1. UNCHANGED grants
    BY DEF RefuseEffect
  <2> QED BY <1>1, <1>3, <2>1, OtherGrants
<1>6. AuditInv'
  BY <1>1, <1>3, OtherAudit
<1>7. ClaimInv'
  <2>1. UNCHANGED claims
    BY DEF RefuseEffect
  <2> QED BY <1>1, <1>3, <2>1, OtherClaims
<1> QED BY <1>3, <1>4, <1>5, <1>6, <1>7 DEF GInv

LEMMA KeepsSummary ==
  ASSUME GInv, NEW a, NEW th, NEW sc \in Scopes, NEW uses, NEW repl,
         CommitSummary(a, th, sc, uses, repl)
  PROVE  GInv'
<1>1. LogInv /\ LedgerInv /\ WorkInv /\ GrantInv /\ AuditInv /\ ClaimInv
  BY DEF GInv, LedgerInv
<1>2. Commits("Summary")
  BY Zenon DEF CommitSummary, Commits
<1>3. /\ LedgerInv' /\ Adds({"Summary"}) /\ \E k : {"Summary"} \subseteq {k}
      /\ retracted_records' = retracted_records /\ bounds' = bounds
  BY <1>1, <1>2, CommitsKeeps
<1>4. WorkInv'
  <2>1. UNCHANGED <<requests, actions>>
    BY DEF CommitSummary
  <2> QED BY <1>1, <1>3, <2>1, OtherWork
<1>5. GrantInv'
  <2>1. UNCHANGED grants
    BY DEF CommitSummary
  <2> QED BY <1>1, <1>3, <2>1, OtherGrants
<1>6. AuditInv'
  BY <1>1, <1>3, OtherAudit
<1>7. ClaimInv'
  <2>1. NextId \in Accepted("Summary")' /\ \A i \in Accepted("Summary") : i \in Accepted("Summary")'
    BY <1>1, <1>3, AddedFacts
  <2>2. active_summaries' = [active_summaries EXCEPT ![sc] = NextId] /\ usage_counts' = usage_counts
    BY DEF CommitSummary
  <2>3. active_summaries' \in [Scopes -> Accepted("Summary")' \union {None}]
    BY <1>1, <2>1, <2>2 DEF ClaimInv
  <2> QED BY <1>1, <1>3, <2>2, <2>3 DEF ClaimInv
<1> QED BY <1>3, <1>4, <1>5, <1>6, <1>7 DEF GInv

LEMMA KeepsUsage ==
  ASSUME GInv, NEW a, NEW th, NEW used \in 1..Len(log), NEW consuming,
         CommitUsage(a, th, used, consuming)
  PROVE  GInv'
<1>1. LogInv /\ LedgerInv /\ WorkInv /\ GrantInv /\ AuditInv /\ ClaimInv
  BY DEF GInv, LedgerInv
<1>2. Commits("Usage")
  BY Zenon DEF CommitUsage, Commits
<1>3. /\ LedgerInv' /\ Adds({"Usage"}) /\ \E k : {"Usage"} \subseteq {k}
      /\ retracted_records' = retracted_records /\ bounds' = bounds
  BY <1>1, <1>2, CommitsKeeps
<1>4. WorkInv'
  <2>1. UNCHANGED <<requests, actions>>
    BY DEF CommitUsage
  <2> QED BY <1>1, <1>3, <2>1, OtherWork
<1>5. GrantInv'
  <2>1. UNCHANGED grants
    BY DEF CommitUsage
  <2> QED BY <1>1, <1>3, <2>1, OtherGrants
<1>6. AuditInv'
  BY <1>1, <1>3, OtherAudit
<1>7. ClaimInv'
  <2>1. \A i \in Accepted("Summary") : i \in Accepted("Summary")'
    BY <1>1, <1>3, AddedFacts
  <2>2. usage_counts' = [usage_counts EXCEPT ![used] = @ + 1] /\ active_summaries' = active_summaries
    BY DEF CommitUsage
  <2>3. usage_counts' \in [Ids -> Nat]
    <3>1. used \in Ids
      BY <1>1, LedgerConstants DEF LogInv, Ids
    <3> QED BY <1>1, <2>2, <3>1 DEF ClaimInv
  <2> QED BY <1>1, <1>3, <2>1, <2>2, <2>3 DEF ClaimInv
<1> QED BY <1>3, <1>4, <1>5, <1>6, <1>7 DEF GInv

LEMMA KeepsRetraction ==
  ASSUME GInv, NEW a, NEW th, NEW target, NEW uses, CommitRetraction(a, th, target, uses)
  PROVE  GInv'
<1> DEFINE body == [thread |-> th, target |-> target]
           refs == uses \union {Ref("Cause", target)}
<1>1. LogInv /\ LedgerInv /\ WorkInv /\ GrantInv /\ AuditInv /\ ClaimInv
  BY DEF GInv, LedgerInv
<1>2. /\ target \in accepted_records /\ body.target = target
      /\ Accept("Retraction", a, body, refs) /\ Withdraws(target, refs)
  BY DEF CommitRetraction
<1> HIDE DEF body, refs
<1>3. LedgerInv'
  BY <1>1, <1>2, RetractionKeepsLedger
<1>4. Adds({"Retraction"}) /\ bounds' = bounds /\ \E k : {"Retraction"} \subseteq {k}
  BY <1>1, <1>2, AcceptAdds DEF Accept, setting
<1>5. WorkInv'
  <2>1. UNCHANGED <<requests, actions>>
    BY DEF CommitRetraction
  <2> QED BY <1>1, <1>4, <2>1, OtherWork
<1>6. GrantInv'
  BY <1>1, <1>3, RetractionGrants
<1>7. AuditInv'
  BY <1>1, <1>4, OtherAudit
<1>8. ClaimInv'
  <2>1. UNCHANGED claims
    BY DEF CommitRetraction
  <2> QED BY <1>1, <1>4, <2>1, OtherClaims
<1> QED BY <1>3, <1>5, <1>6, <1>7, <1>8 DEF GInv

LEMMA KeepsRejected ==
  ASSUME GInv, CommitRejected
  PROVE  GInv'
<1>1. LogInv /\ LedgerInv /\ WorkInv /\ GrantInv /\ AuditInv /\ ClaimInv
  BY DEF GInv, LedgerInv
<1>2. Reject /\ UNCHANGED <<requests, actions, grants, claims>>
  BY DEF CommitRejected
<1>3. LedgerInv' /\ Adds({}) /\ (\E k : {} \subseteq {k}) /\ retracted_records' = retracted_records /\ bounds' = bounds
  BY <1>1, <1>2, RejectionKeepsLedger, RejectAdds DEF Reject, setting
<1>4. WorkInv'
  BY <1>1, <1>2, <1>3, OtherWork
<1>5. GrantInv'
  BY <1>1, <1>2, <1>3, OtherGrants
<1>6. AuditInv'
  BY <1>1, <1>3, OtherAudit
<1>7. ClaimInv'
  BY <1>1, <1>2, <1>3, OtherClaims
<1> QED BY <1>3, <1>4, <1>5, <1>6, <1>7 DEF GInv

LEMMA GInvStarts ==
  ASSUME Init
  PROVE  GInv
<1>1. LedgerInv /\ \A k : Accepted(k) = {}
  <2>1. LedgerInit /\ accepted_records = {}
    BY DEF Init, LedgerInit
  <2> QED BY <2>1, LedgerStarts DEF Accepted
<1>2. WorkInv
  <2>1. WorkTyped /\ TurnsCount /\ ClosedClean /\ PlansExact /\ TurnsGapFree
    BY <1>1 DEF WorkTyped, TurnsCount, ClosedClean, PlansExact, TurnsGapFree
  <2>2. WorkIndexes
    BY <1>1, GovernanceConstants DEF WorkIndexes, Init, None
  <2>3. TerminalIsLast /\ OpenExact
    BY <1>1 DEF TerminalIsLast, OpenExact, Init
  <2> QED BY <2>1, <2>2, <2>3 DEF WorkInv
<1>3. GrantInv
  <2>1. SlotTypes
    BY DEF Init, SlotTypes
  <2>2. /\ Indexes(capability_index, active_capabilities, CapKeys)
        /\ Indexes(exact_approval_index, valid_approvals, Hashes)
        /\ Indexes(class_approval_index, class_approvals, ClassKeys)
    BY DEF Init, Indexes
  <2>3. (\A k : Caps(k) = {}) /\ (\A f, k : Apps(f, k) = {})
    BY <1>1 DEF Caps, Apps
  <2>4. \A gone : SlotOf({}, gone) = None
    <3>1. Latest({}) = None
      <4>1. {} \in SUBSET (1..0) /\ 0 \in Nat
        OBVIOUS
      <4> QED BY <4>1, LatestOf
    <3> QED BY <3>1 DEF SlotOf
  <2>5. SlotsNow
    BY <2>3, <2>4 DEF Init, SlotsNow
  <2> QED BY <2>1, <2>2, <2>5 DEF GrantInv
<1>4. AuditInv
  BY <1>1 DEF AuditInv
<1>5. ClaimInv
  <2>1. bounds.execs \subseteq ExecModes
    BY GovernanceConstants DEF Init, LedgerInit
  <2> QED BY <2>1 DEF Init, ClaimInv
<1> QED BY <1>1, <1>2, <1>3, <1>4, <1>5 DEF GInv

LEMMA GInvStutters ==
  ASSUME GInv, UNCHANGED vars
  PROVE  GInv'
<1>1. LedgerInv'
  BY LedgerStutters DEF GInv, vars
<1> USE DEF vars, epistemic, setting, requests, actions, grants, claims
<1>2. \A k : Accepted(k)' = Accepted(k)
  BY DEF Accepted
<1>3. WorkInv'
  <2>1. /\ \A r, k : WorkFor(r, k)' = WorkFor(r, k)
        /\ \A r : Terminals(r)' = Terminals(r)
        /\ \A r : Closers(r)' = Closers(r)
    BY <1>2 DEF WorkFor, Terminals, Closers
  <2>2. WorkTyped' /\ WorkIndexes'
    BY <1>2 DEF GInv, WorkInv, WorkTyped, WorkIndexes
  <2>3. TurnsCount' /\ TurnsGapFree'
    BY <1>2, <2>1 DEF GInv, WorkInv, TurnsCount, TurnsGapFree
  <2>4. TerminalIsLast' /\ OpenExact'
    BY <1>2, <2>1 DEF GInv, WorkInv, TerminalIsLast, OpenExact
  <2>5. PlansExact'
    BY <1>2, <2>1 DEF GInv, WorkInv, PlansExact, Latest
  <2>6. ClosedClean'
    BY <1>2, <2>1 DEF GInv, WorkInv, ClosedClean, Latest
  <2> QED BY <2>2, <2>3, <2>4, <2>5, <2>6 DEF WorkInv
<1>4. GrantInv'
  <2>1. \A j : HashOf(j)' = HashOf(j)
    BY DEF HashOf
  <2>2. /\ \A k : Caps(k)' = Caps(k)
        /\ \A f, k : Apps(f, k)' = Apps(f, k)
        /\ \A h : Used(h)' = Used(h)
    BY <1>2, <2>1 DEF Caps, Apps, Used
  <2>3. SlotsNow'
    BY <2>2 DEF GInv, GrantInv, SlotsNow, SlotOf, Latest
  <2> QED BY <2>3 DEF GInv, GrantInv, SlotTypes, Indexes
<1>5. AuditInv'
  <2>1. \A j : HashOf(j)' = HashOf(j)
    BY DEF HashOf
  <2>2. /\ \A k, i : Capabilities(k, i)' = Capabilities(k, i)
        /\ \A f, k, i : Approvals(f, k, i)' = Approvals(f, k, i)
        /\ \A t, i : Withdrawn(t, i)' <=> Withdrawn(t, i)
        /\ \A p, i : Spent(p, i)' = Spent(p, i)
    BY <1>2, <2>1 DEF Capabilities, Approvals, Withdrawn, Spent
  <2>3. \A g, i : InForce(g, i)' <=> InForce(g, i)
    BY <2>2 DEF InForce, TimeOf
  <2>4. \A i, me, cls, sc, h, cap, exact, own, any :
          (Says(i, me, cls, sc, h) /\ Backed(i, me, cls, sc, h, cap, exact, own, any)) =>
          (Says(i, me, cls, sc, h) /\ Backed(i, me, cls, sc, h, cap, exact, own, any))'
    <3> SUFFICES ASSUME NEW i, NEW me, NEW cls, NEW sc, NEW h, NEW cap, NEW exact, NEW own, NEW any,
                        Says(i, me, cls, sc, h), Backed(i, me, cls, sc, h, cap, exact, own, any)
                 PROVE  Says(i, me, cls, sc, h)' /\ Backed(i, me, cls, sc, h, cap, exact, own, any)'
      OBVIOUS
    <3>1. Says(i, me, cls, sc, h)'
      BY <2>1 DEF Says
    <3>2. /\ cap = Latest(Capabilities(<<me, cls, sc>>, i)')
          /\ exact = Latest(Approvals("exact", h, i)')
          /\ own = Latest(Approvals("class", <<cls, sc, me>>, i)')
          /\ any = Latest(Approvals("class", <<cls, sc, AnyActor>>, i)')
      BY <2>2 DEF Backed
    <3>3. InForce(cap, i)' /\ log'[cap].body.mode # "Deny"
      BY <2>3 DEF Backed
    <3>4. log'[cap].body.mode = "Ask" =>
            \/ /\ InForce(exact, i)' /\ Spent(exact, i)' = {}
               /\ log'[exact].body.actor = me /\ log'[exact].body.scope = sc
            \/ InForce(own, i)' \/ InForce(any, i)'
      BY <2>2, <2>3 DEF Backed
    <3> QED BY <3>1, <3>2, <3>3, <3>4 DEF Backed, Latest
  <2> QED BY <1>2, <2>4 DEF GInv, AuditInv
<1>6. ClaimInv'
  BY <1>2 DEF GInv, ClaimInv
<1> QED BY <1>1, <1>3, <1>4, <1>5, <1>6 DEF GInv

\* What a record's author says it used, it used.
LEMMA UsesAreUses ==
  ASSUME NEW uses \in Uses
  PROVE  \A r \in uses : r.type = "Use"
<1> QED BY DEF Uses, Ref

LEMMA GrantKeeps ==
  ASSUME GInv, NEW a, NEW th, NEW uses, Grant(a, th, uses)
  PROVE  GInv'
<1>1. CASE \E sc \in Scopes, p \in {None} \union Linkable("Request") : CommitRequest(a, th, sc, p, uses)
  BY <1>1, KeepsRequest
<1>2. CASE \E key \in CapKeys, mode \in Modes, e \in Expiries, repl \in Replacing("Capability") :
             CommitCapability(a, th, key, mode, e, uses, repl)
  BY <1>2, KeepsCapability
<1>3. CASE \E h \in Hashes, actor \in Grantees, sc \in Scopes, e \in Expiries, repl \in Replacing("Approval") :
             CommitExactApproval(a, th, h, actor, sc, e, uses, repl)
  BY <1>3, KeepsExactApproval
<1>4. CASE \E key \in ClassKeys, e \in Expiries, repl \in Replacing("Approval") :
             CommitClassApproval(a, th, key, e, uses, repl)
  BY <1>4, KeepsClassApproval
<1> QED BY <1>1, <1>2, <1>3, <1>4 DEF Grant

LEMMA WorkKeeps ==
  ASSUME GInv, NEW a, NEW th, NEW uses \in Uses, Work(a, th, uses)
  PROVE  GInv'
<1>1. CASE \E req \in Accepted("Request"), cls \in Classes, sc \in Scopes, x \in Execs :
             \E extra \in IF a \in Grantees THEN {{}, {valid_approvals[<<a, req, cls, sc, x>>]}} ELSE {} :
               CommitAction(a, th, req, cls, sc, x, extra, uses)
  <2>1. PICK req \in Accepted("Request"), cls \in Classes, sc \in Scopes, x \in Execs :
          \E extra \in IF a \in Grantees THEN {{}, {valid_approvals[<<a, req, cls, sc, x>>]}} ELSE {} :
            CommitAction(a, th, req, cls, sc, x, extra, uses)
    BY <1>1
  <2>2. PICK extra : CommitAction(a, th, req, cls, sc, x, extra, uses) /\ a \in Grantees
    BY <2>1
  <2>3. req \in Ids
    BY LedgerConstants DEF GInv, LedgerInv, LogInv, Accepted, Ids
  <2>4. x \in ExecModes
    BY DEF GInv, ClaimInv, Execs
  <2>5. <<a, req, cls, sc, x>> \in Hashes
    BY <2>2, <2>3, <2>4 DEF Hashes
  <2> QED BY <2>2, <2>5, UsesAreUses, KeepsAction
<1>2. CASE \E act \in Accepted("Action"), s \in {"result", "external_receipt", "effect_confirmation"},
              artifacts \in Results : CommitResult(a, th, act, s, artifacts, uses)
  BY <1>2, KeepsResult
<1>3. CASE \E req \in Accepted("Request"), t \in 0..MaxTurns, c \in BOOLEAN : CommitResponse(a, th, req, t, c, uses)
  BY <1>3, KeepsResponse
<1>4. CASE \E sc \in Scopes, repl \in Replacing("Summary") : CommitSummary(a, th, sc, uses, repl)
  BY <1>4, KeepsSummary
<1>5. CASE \E target \in accepted_records : CommitRetraction(a, th, target, uses)
  BY <1>5, KeepsRetraction
<1> QED BY <1>1, <1>2, <1>3, <1>4, <1>5 DEF Work

LEMMA SettleKeeps ==
  ASSUME GInv, NEW a, NEW th, Settle(a, th)
  PROVE  GInv'
<1>1. CASE \E req \in Accepted("Request"), s \in {"Running", "Completed", "Abandoned"}, repl \in Replacing("Plan") :
             CommitPlan(a, th, req, s, repl)
  BY <1>1, KeepsPlan
<1>2. CASE \E act \in Accepted("Action") : RefuseAction(a, th, act)
  BY <1>2, KeepsRefusedAction
<1>3. CASE \E req \in Accepted("Request") : RefuseRequest(a, th, req)
  BY <1>3, KeepsRefusedRequest
<1>4. CASE \E res \in Accepted("Result") : RefuseEffect(a, th, res)
  BY <1>4, KeepsRefusedEffect
<1>5. CASE \E used \in 1..Len(log), c \in accepted_records : CommitUsage(a, th, used, c)
  BY <1>5, KeepsUsage
<1> QED BY <1>1, <1>2, <1>3, <1>4, <1>5 DEF Settle

\* Everything above, in every state.
LEMMA GInvAlways == Spec => []GInv
<1>1. Init => GInv
  BY GInvStarts
<1>2. GInv /\ [Next]_vars => GInv'
  <2> SUFFICES ASSUME GInv, [Next]_vars PROVE GInv'
    OBVIOUS
  <2>1. CASE \E a \in Actors, th \in Threads : \E uses \in Uses : Grant(a, th, uses) \/ Work(a, th, uses)
    BY <2>1, GrantKeeps, WorkKeeps
  <2>2. CASE \E a \in Actors, th \in Threads : Settle(a, th)
    BY <2>2, SettleKeeps
  <2>3. CASE CommitRejected
    BY <2>3, KeepsRejected
  <2>4. CASE UNCHANGED vars
    BY <2>4, GInvStutters
  <2> QED BY <2>1, <2>2, <2>3, <2>4 DEF Next
<1> QED BY <1>1, <1>2, PTL DEF Spec

-----------------------------------------------------------------------------

\* Every index of the fold stays in range, and no count of open actions goes
\* below zero, whatever is committed.
THEOREM TypeCorrect == Spec => []TypeOK
<1>1. GInv => TypeOK
  <2> SUFFICES ASSUME GInv PROVE TypeOK
    OBVIOUS
  <2>1. Len(log) \in 0..MaxRecords /\ accepted_records \subseteq 1..Len(log)
    BY DEF GInv, LedgerInv, LogInv
  <2>2. active_requests \subseteq Accepted("Request") /\ open_actions \subseteq Accepted("Action")
    BY DEF GInv, WorkInv, TerminalIsLast, OpenExact
  <2>3. \A i \in Ids : /\ active_plans[i] \in Accepted("Plan") \union {None}
                       /\ response_turns[i] \in 0..MaxTurns
                       /\ action_to_request[i] \in Accepted("Request") \union {None}
                       /\ request_open_action_count[i] \in Nat
    BY DEF GInv, WorkInv, WorkIndexes
  <2>4. /\ \A i \in Ids : usage_counts[i] \in Nat
        /\ \A s \in Scopes : active_summaries[s] \in Accepted("Summary") \union {None}
    BY DEF GInv, ClaimInv
  <2> QED BY <2>1, <2>2, <2>3, <2>4 DEF TypeOK
<1> QED BY <1>1, GInvAlways, PTL

\* The fold's taint set is exact after every commit: the cascade of a
\* retraction and what a new record inherits leave no dependent out and taint
\* nothing else.
THEOREM TaintStaysExact == Spec => []TaintExact
<1>1. GInv => TaintExact
  BY DEF GInv, LedgerInv, TaintInv
<1> QED BY <1>1, GInvAlways, PTL

\* No accepted record has a stronger class of evidence than what it rests on
\* had, and what rests on rejected or withdrawn records is assumed.
THEOREM EvidenceNeverInflates == Spec => []NoInflation
<1>1. GInv => NoInflation
  BY DEF GInv, LedgerInv, EvidenceInv
<1> QED BY <1>1, GInvAlways, PTL

\* A request ends once, last and clean, whichever records of whichever actors
\* come between.
THEOREM RequestsEndCleanly == Spec => []RequestsEnd
<1>1. GInv => RequestsEnd
  BY DEF GInv, WorkInv, RequestsEnd
<1> QED BY <1>1, GInvAlways, PTL

\* The indexes that closing is checked against say what the log says.
THEOREM WorkStaysExact == Spec => []WorkExact
<1>1. GInv => WorkExact
  BY DEF GInv, WorkInv, WorkExact
<1> QED BY <1>1, GInvAlways, PTL

\* Each authority slot holds the newest grant for its key, or nothing once
\* that one is withdrawn or spent.
THEOREM SlotsStayLatest == Spec => []SlotsAreLatest
<1>1. GInv => SlotsAreLatest
  BY SlotsSay DEF GInv
<1> QED BY <1>1, GInvAlways, PTL

\* Every accepted action is backed, in the log alone, by the authority of the
\* moment at which it was committed.
THEOREM ActionsAreAuthorized == Spec => []AuditAuthority
<1>1. GInv => AuditAuthority
  BY AuditSays DEF GInv
<1> QED BY <1>1, GInvAlways, PTL

-----------------------------------------------------------------------------
(* What is defined by recursion over the places of the log *)

LEMMA LeastPlace ==
  ASSUME NEW T \in SUBSET Nat, T # {}
  PROVE  \E n \in T : \A m \in T : n <= m
<1>1. PICK n \in T : \A m \in T : ~(<<m, n>> \in OpToRel(<, Nat))
  BY NatLessThanWellFounded, WFMin
<1>2. ASSUME NEW m \in T PROVE n <= m
  <2>1. m \in Nat /\ n \in Nat
    OBVIOUS
  <2>2. ~(m < n)
    BY <1>1, <2>1 DEF OpToRel
  <2> QED BY <2>1, <2>2
<1> QED BY <1>2

\* What holds at place a, and at the next place wherever it holds, holds up to b.
LEMMA PlaceInduction ==
  ASSUME NEW a \in Nat, NEW b \in Nat, NEW T, a \in T,
         \A n \in a..b : n < b /\ n \in T => n + 1 \in T
  PROVE  \A n \in a..b : n \in T
<1> DEFINE F == {n \in a..b : n \notin T}
<1> SUFFICES ASSUME F # {} PROVE FALSE
  OBVIOUS
<1>1. F \in SUBSET Nat
  OBVIOUS
<1>2. PICK n \in F : \A m \in F : n <= m
  <2> HIDE DEF F
  <2> QED BY <1>1, LeastPlace
<1>3. n \in a..b /\ n \notin T /\ n # a
  OBVIOUS
<1>4. n - 1 \in a..b /\ n - 1 < b /\ n - 1 \notin F
  BY <1>2, <1>3
<1>5. n - 1 \in T
  BY <1>4
<1>6. (n - 1) + 1 \in T
  BY <1>4, <1>5
<1> QED BY <1>3, <1>6

\* What holds of a place wherever it holds of all before it, holds of all.
LEMMA PastInduction ==
  ASSUME NEW n \in Nat, NEW T, \A i \in 1..n : (\A j \in 1..(i - 1) : j \in T) => i \in T
  PROVE  \A i \in 1..n : i \in T
<1> DEFINE F == {i \in 1..n : i \notin T}
<1> SUFFICES ASSUME F # {} PROVE FALSE
  OBVIOUS
<1>1. F \in SUBSET Nat
  OBVIOUS
<1>2. PICK i \in F : \A m \in F : i <= m
  <2> HIDE DEF F
  <2> QED BY <1>1, LeastPlace
<1>3. i \in 1..n /\ i \notin T
  OBVIOUS
<1>4. ASSUME NEW j \in 1..(i - 1) PROVE j \in T
  <2>1. j \in 1..n /\ j \in Nat /\ i \in Nat /\ ~(i <= j)
    BY <1>3
  <2>2. j \notin F
    BY <1>2, <2>1
  <2> QED BY <2>1, <2>2
<1> QED BY <1>3, <1>4

\* A function that gives each place i the set B[i], and all it gives to R[i].
Solves(f, n, B, R) == f = [i \in 1..n |-> B[i] \union UNION {f[t] : t \in R[i]}]

LEMMA SolutionExists ==
  ASSUME NEW n \in Nat, NEW B, NEW R, \A i \in 1..n : R[i] \subseteq 1..(i - 1)
  PROVE  \E f : Solves(f, n, B, R)
<1> DEFINE T == {m \in 0..n : \E f : Solves(f, m, B, R)}
<1>1. 0 \in T
  <2> DEFINE f == [i \in 1..0 |-> {}]
  <2>1. f = [i \in 1..0 |-> B[i] \union UNION {f[t] : t \in R[i]}]
    <3>1. \A i \in 1..0 : FALSE
      OBVIOUS
    <3> QED BY <3>1
  <2>2. Solves(f, 0, B, R)
    BY <2>1 DEF Solves
  <2> QED BY <2>2
<1>2. ASSUME NEW m \in 0..n, m < n, m \in T PROVE m + 1 \in T
  <2>1. PICK f : Solves(f, m, B, R)
    BY <1>2
  <2> DEFINE D == 1..(m + 1)
             Of(h, i) == B[i] \union UNION {h[t] : t \in R[i]}
             g == [i \in D |-> IF i <= m THEN f[i] ELSE Of(f, i)]
  <2>2. \A i \in 1..m : f[i] = Of(f, i)
    BY <2>1 DEF Solves
  <2>3. ASSUME NEW i \in D PROVE Of(g, i) = Of(f, i)
    <3>1. i \in 1..n /\ i - 1 <= m
      BY <1>2
    <3>2. \A t \in R[i] : t \in D /\ t <= m
      BY <3>1
    <3>3. \A t \in R[i] : g[t] = f[t]
      BY <3>2
    <3> HIDE DEF g
    <3> QED BY <3>3
  <2>4. ASSUME NEW i \in D PROVE g[i] = Of(f, i)
    <3>1. CASE i <= m
      <4>1. i \in 1..m
        BY <3>1
      <4>2. f[i] = Of(f, i)
        BY <2>2, <4>1
      <4> HIDE DEF Of
      <4> QED BY <3>1, <4>2
    <3>2. CASE ~(i <= m)
      <4> HIDE DEF Of
      <4> QED BY <3>2
    <3> QED BY <3>1, <3>2
  <2>5. g = [i \in D |-> g[i]]
    OBVIOUS
  <2> HIDE DEF g, D
  <2>6. g = [i \in D |-> Of(g, i)]
    <3> HIDE DEF Of
    <3> QED BY <2>3, <2>4, <2>5
  <2>7. Solves(g, m + 1, B, R)
    BY <2>6 DEF Solves, D
  <2>8. m + 1 \in 0..n
    BY <1>2
  <2> QED BY <2>7, <2>8
<1>3. n \in 0..n
  OBVIOUS
<1>4. n \in T
  <2> HIDE DEF T
  <2> QED BY <1>1, <1>2, <1>3, PlaceInduction
<1> QED BY <1>4

\* What a record rests on in the end is what it rests on, and what that does.
LEMMA FoundationsAre ==
  ASSUME LogInv
  PROVE  \A i \in 1..Len(log) :
           Foundations[i] =
             IF i \in accepted_records
               THEN Rests(log[i].refs) \union UNION {Foundations[t] : t \in Rests(log[i].refs)}
               ELSE {}
<1> DEFINE n == Len(log)
           R == [i \in 1..n |-> IF i \in accepted_records THEN Rests(log[i].refs) ELSE {}]
           Of(f, i) == IF i \in accepted_records
                         THEN Rests(log[i].refs) \union UNION {f[t] : t \in Rests(log[i].refs)}
                         ELSE {}
           Fits(f) == f = [i \in 1..n |-> Of(f, i)]
<1>1. n \in Nat /\ \A i \in 1..n : R[i] \subseteq 1..(i - 1)
  BY DEF LogInv
<1>2. PICK f : Solves(f, n, R, R)
  <2> HIDE DEF R, n
  <2> QED BY <1>1, SolutionExists
<1>3. Fits(f)
  <2>1. \A i \in 1..n : R[i] \union UNION {f[t] : t \in R[i]} = Of(f, i)
    <3> TAKE i \in 1..n
    <3>1. CASE i \in accepted_records
      <4>1. R[i] = Rests(log[i].refs)
        BY <3>1
      <4> HIDE DEF R
      <4> QED BY <3>1, <4>1
    <3>2. CASE i \notin accepted_records
      <4>1. R[i] = {}
        BY <3>2
      <4> HIDE DEF R
      <4> QED BY <3>2, <4>1
    <3> QED BY <3>1, <3>2
  <2> HIDE DEF Of, R, n
  <2> QED BY <1>2, <2>1 DEF Solves
<1>4. Foundations = CHOOSE g : Fits(g)
  BY DEF Foundations
<1>5. Fits(Foundations)
  <2> HIDE DEF Fits
  <2> QED BY <1>3, <1>4
<1>6. \A i \in 1..n : Foundations[i] = Of(Foundations, i)
  <2> HIDE DEF Of
  <2> QED BY <1>5
<1> QED BY <1>6

\* A record is tainted if and only if something that it rests on in the end was
\* withdrawn.
LEMMA TaintIsFounded ==
  ASSUME LogInv, TaintInv
  PROVE  \A i \in 1..Len(log) : i \in tainted_records <=> Foundations[i] \intersect retracted_records # {}
<1> DEFINE T == {i \in 1..Len(log) :
                   i \in tainted_records <=> Foundations[i] \intersect retracted_records # {}}
<1>1. Len(log) \in Nat
  BY DEF LogInv
<1>2. ASSUME NEW i \in 1..Len(log), \A j \in 1..(i - 1) : j \in T PROVE i \in T
  <2>1. CASE i \notin accepted_records
    <3>1. Foundations[i] = {}
      BY <2>1, FoundationsAre
    <3>2. i \notin tainted_records
      BY <2>1 DEF TaintInv, TaintExact
    <3> QED BY <3>1, <3>2
  <2>2. CASE i \in accepted_records
    <3> DEFINE S == Rests(log[i].refs)
    <3>1. Foundations[i] = S \union UNION {Foundations[t] : t \in S}
      BY <2>2, FoundationsAre
    <3>2. S \subseteq 1..(i - 1)
      BY <2>2 DEF LogInv
    <3>0. tainted_records =
            {j \in accepted_records :
               Rests(log[j].refs) \intersect (retracted_records \union tainted_records) # {}}
      BY DEF TaintInv, TaintExact
    <3>a. i \in tainted_records <=> S \intersect (retracted_records \union tainted_records) # {}
      BY ONLY <2>2, <3>0
    <3> HIDE DEF S
    <3>3. i \in tainted_records <=> \E t \in S : t \in retracted_records \/ t \in tainted_records
      BY ONLY <3>a
    <3>4. \A t \in S : t \in tainted_records <=> Foundations[t] \intersect retracted_records # {}
      BY <1>2, <3>2
    <3> QED BY <3>1, <3>3, <3>4
  <2> QED BY <2>1, <2>2
<1>3. \A i \in 1..Len(log) : i \in T
  <2> HIDE DEF T
  <2> QED BY <1>1, <1>2, PastInduction
<1> QED BY <1>3

-----------------------------------------------------------------------------
(* The context of a proposer *)

\* The newest of S are all of S, or as many as the rules allow and newer than
\* the others.
LEMMA NewestOf ==
  ASSUME NEW n \in Nat, NEW S \in SUBSET (1..n), rules.max_context_records \in Nat
  PROVE  /\ Newest(S) \subseteq S
         /\ Cardinality(Newest(S)) <= rules.max_context_records
         /\ \A i \in S \ Newest(S) :
              /\ Cardinality(Newest(S)) = rules.max_context_records
              /\ \A j \in Newest(S) : i < j
<1> DEFINE N == rules.max_context_records
           C == Newest(S)
           Above(i) == {j \in S : j > i}
<1>0. C = {i \in S : Cardinality(Above(i)) < N}
  BY DEF Newest
<1>1. C \subseteq S /\ C \in SUBSET (1..n)
  BY <1>0
<1>2. N \in Nat
  OBVIOUS
<1> HIDE DEF C, N
<1>3. ASSUME NEW T \in SUBSET (1..n), NEW U \in SUBSET T PROVE Cardinality(U) <= Cardinality(T)
  <2>1. IsFiniteSet(T)
    BY PlacesFinite
  <2> QED BY <2>1, FS_Subset
<1>4. \A T \in SUBSET (1..n) : IsFiniteSet(T) /\ Cardinality(T) \in Nat
  BY PlacesFinite
<1>5. \A i : Above(i) \in SUBSET (1..n)
  OBVIOUS
<1>6. Cardinality(C) <= N
  <2>1. CASE C = {}
    <3>1. Cardinality(C) = 0
      BY <2>1, FS_EmptySet
    <3> QED BY <1>2, <3>1
  <2>2. CASE C # {}
    <3>0. C \in SUBSET Nat
      BY <1>1
    <3>1. PICK l \in C : \A m \in C : l <= m
      BY <2>2, <3>0, LeastPlace
    <3>2. l \in S /\ Cardinality(Above(l)) < N
      BY <1>0, <3>1
    <3>3. C \subseteq Above(l) \union {l}
      <4> SUFFICES ASSUME NEW m \in C, m # l PROVE m \in Above(l)
        OBVIOUS
      <4>1. m \in S /\ m \in Nat /\ l \in Nat /\ l <= m
        BY <1>1, <3>0, <3>1
      <4> QED BY <4>1
    <3> DEFINE A == Above(l)
    <3>4. A \in SUBSET (1..n) /\ A \union {l} \in SUBSET (1..n)
      BY <3>2
    <3>5. Cardinality(A) < N
      BY <3>2
    <3> HIDE DEF A
    <3>6. Cardinality(A \union {l}) <= Cardinality(A) + 1
      <4>1. IsFiniteSet(A) /\ Cardinality(A) \in Nat
        BY <1>4, <3>4
      <4>2. Cardinality(A \union {l}) = IF l \in A THEN Cardinality(A) ELSE Cardinality(A) + 1
        BY <4>1, FS_AddElement
      <4> QED BY <4>1, <4>2
    <3>7. Cardinality(C) <= Cardinality(A \union {l})
      BY <1>3, <3>3, <3>4 DEF A
    <3>8. Cardinality(C) \in Nat /\ Cardinality(A) \in Nat /\ Cardinality(A \union {l}) \in Nat
      BY <1>1, <1>4, <3>4
    <3> QED BY <1>2, <3>5, <3>6, <3>7, <3>8
  <2> QED BY <2>1, <2>2
<1>7. ASSUME NEW i \in S, i \notin C PROVE Cardinality(C) = N /\ \A j \in C : i < j
  <2>1. ASSUME NEW j \in C PROVE i < j
    <3> SUFFICES ASSUME ~(i < j) PROVE FALSE
      OBVIOUS
    <3>1. i \in Nat /\ j \in Nat /\ j <= i
      BY <1>1
    <3>2. Above(i) \subseteq Above(j)
      <4> SUFFICES ASSUME NEW k \in S, k > i PROVE k > j
        OBVIOUS
      <4>1. k \in Nat
        OBVIOUS
      <4> QED BY <3>1, <4>1
    <3>3. Cardinality(Above(i)) <= Cardinality(Above(j))
      <4> HIDE DEF Above
      <4> QED BY <1>3, <1>5, <3>2
    <3>4. Cardinality(Above(j)) < N
      BY <1>0, <2>1
    <3>5. Cardinality(Above(i)) \in Nat /\ Cardinality(Above(j)) \in Nat
      BY <1>4, <1>5
    <3>6. ~(Cardinality(Above(i)) < N)
      BY <1>0, <1>7
    <3> HIDE DEF Above
    <3> QED BY <1>2, <3>3, <3>4, <3>5, <3>6
  <2> DEFINE D == S \ C
  <2>2. D \in SUBSET (0..n) /\ D # {}
    <3>1. i \in D
      BY <1>7
    <3>2. \A x \in D : x \in 0..n
      BY ONLY S \in SUBSET (1..n), n \in Nat
    <3> QED BY <3>1, <3>2
  <2> DEFINE m == Max(D)
  <2>3. m \in D /\ \A y \in D : y <= m
    <3> HIDE DEF D
    <3> QED BY <2>2, GreatestOf
  <2> HIDE DEF m
  <2>4. Above(m) \subseteq C
    <3> SUFFICES ASSUME NEW j \in Above(m), j \notin C PROVE FALSE
      OBVIOUS
    <3>1. j \in D /\ j > m
      OBVIOUS
    <3>2. j <= m /\ j \in Nat /\ m \in Nat
      BY <2>2, <2>3, <3>1
    <3> QED BY <3>1, <3>2
  <2>5. ~(Cardinality(Above(m)) < N)
    BY <1>0, <2>3
  <2>6. Cardinality(Above(m)) <= Cardinality(C)
    <3> HIDE DEF Above
    <3> QED BY <1>1, <1>3, <2>4
  <2>7. Cardinality(Above(m)) \in Nat /\ Cardinality(C) \in Nat
    BY <1>1, <1>4, <1>5
  <2>8. Cardinality(C) = N
    <3> HIDE DEF Above
    <3> QED BY <1>2, <1>6, <2>5, <2>6, <2>7
  <2> QED BY <2>1, <2>8
<1> QED BY <1>1, <1>6, <1>7 DEF C, N

\* What was replaced is replaced by an accepted record.
ReplacedInv ==
  /\ rules.max_context_records \in Nat
  /\ \A i \in replaced_records : \E j \in accepted_records : i \in Targets(log[j].refs, "Replace")

\* The step commits an accepted record.
Taken == \E kind, a, body, refs : Accept(kind, a, body, refs)

LEMMA NextTakes ==
  ASSUME Next
  PROVE  Taken \/ Reject
<1>1. ASSUME NEW a, NEW th, NEW uses, Grant(a, th, uses) PROVE Taken
  <2>1. ASSUME NEW sc, NEW p, CommitRequest(a, th, sc, p, uses) PROVE Taken
    BY <2>1 DEF CommitRequest, Taken
  <2>2. ASSUME NEW key, NEW mode, NEW e, NEW repl, CommitCapability(a, th, key, mode, e, uses, repl) PROVE Taken
    BY <2>2 DEF CommitCapability, Taken
  <2>3. ASSUME NEW h, NEW actor, NEW sc, NEW e, NEW repl, CommitExactApproval(a, th, h, actor, sc, e, uses, repl)
        PROVE  Taken
    BY <2>3 DEF CommitExactApproval, Taken
  <2>4. ASSUME NEW key, NEW e, NEW repl, CommitClassApproval(a, th, key, e, uses, repl) PROVE Taken
    BY <2>4 DEF CommitClassApproval, Taken
  <2> QED BY <1>1, <2>1, <2>2, <2>3, <2>4 DEF Grant
<1>2. ASSUME NEW a, NEW th, NEW uses, Work(a, th, uses) PROVE Taken
  <2>1. ASSUME NEW req, NEW cls, NEW sc, NEW x, NEW extra, CommitAction(a, th, req, cls, sc, x, extra, uses) PROVE Taken
    BY <2>1 DEF CommitAction, Taken
  <2>2. ASSUME NEW act, NEW s, NEW artifacts, CommitResult(a, th, act, s, artifacts, uses) PROVE Taken
    BY <2>2 DEF CommitResult, Taken
  <2>3. ASSUME NEW req, NEW t, NEW c, CommitResponse(a, th, req, t, c, uses) PROVE Taken
    BY <2>3 DEF CommitResponse, Taken
  <2>4. ASSUME NEW sc, NEW repl, CommitSummary(a, th, sc, uses, repl) PROVE Taken
    BY <2>4 DEF CommitSummary, Taken
  <2>5. ASSUME NEW target, CommitRetraction(a, th, target, uses) PROVE Taken
    BY <2>5 DEF CommitRetraction, Taken
  <2> QED BY <1>2, <2>1, <2>2, <2>3, <2>4, <2>5 DEF Work
<1>3. ASSUME NEW a, NEW th, Settle(a, th) PROVE Taken
  BY <1>3, Zenon DEF Settle, CommitPlan, RefuseAction, RefuseRequest, RefuseEffect, CommitUsage, Taken
<1>4. CASE CommitRejected
  BY <1>4 DEF CommitRejected
<1> QED BY <1>1, <1>2, <1>3, <1>4 DEF Next

LEMMA ReplacedStep ==
  ASSUME LogInv, ReplacedInv, Taken \/ Reject
  PROVE  ReplacedInv'
<1>1. CASE Taken
  <2>1. PICK kind, a, body, refs : Accept(kind, a, body, refs)
    BY <1>1 DEF Taken
  <2>2. /\ accepted_records' = accepted_records \union {NextId}
        /\ log'[NextId].refs = refs /\ \A i \in accepted_records : log'[i] = log[i]
    <3>1. accepted_records \subseteq 1..Len(log)
      BY DEF LogInv
    <3> QED BY <2>1, <3>1, AcceptAdds DEF Adds
  <2>3. replaced_records' = replaced_records \union Targets(refs, "Replace") /\ rules' = rules
    BY <2>1 DEF Accept, setting
  <2>5. PICK n : n = NextId
    OBVIOUS
  <2>6. ASSUME NEW i \in replaced_records' PROVE \E j \in accepted_records' : i \in Targets(log'[j].refs, "Replace")
    <3>1. CASE i \in replaced_records
      <4>1. PICK j \in accepted_records : i \in Targets(log[j].refs, "Replace")
        BY <3>1 DEF ReplacedInv
      <4> QED BY <2>2, <4>1
    <3>2. CASE i \in Targets(refs, "Replace")
      <4>1. n \in accepted_records' /\ i \in Targets(log'[n].refs, "Replace")
        BY <2>2, <2>5, <3>2
      <4> QED BY <4>1
    <3> QED BY <2>3, <2>6, <3>1, <3>2
  <2> QED BY <2>3, <2>6 DEF ReplacedInv, Targets
<1>2. CASE Reject
  <2>1. /\ accepted_records' = accepted_records /\ replaced_records' = replaced_records /\ rules' = rules
    BY <1>2 DEF Reject, setting
  <2>2. \A i \in accepted_records : log'[i] = log[i]
    <3>1. accepted_records \subseteq 1..Len(log)
      BY DEF LogInv
    <3> QED BY <1>2, <3>1, RejectAdds DEF Adds
  <2> QED BY <2>1, <2>2 DEF ReplacedInv, Targets
<1> QED BY <1>1, <1>2

LEMMA ReplacedAlways == Spec => []ReplacedInv
<1>1. Init => ReplacedInv
  BY ContextConstants DEF Init, LedgerInit, ReplacedInv
<1>2. GInv /\ ReplacedInv /\ [Next]_vars => ReplacedInv'
  <2> SUFFICES ASSUME GInv, ReplacedInv, [Next]_vars PROVE ReplacedInv'
    OBVIOUS
  <2>1. CASE Next
    BY <2>1, NextTakes, ReplacedStep DEF GInv, LedgerInv
  <2>2. CASE UNCHANGED vars
    BY <2>2 DEF vars, epistemic, setting, ReplacedInv, Targets
  <2> QED BY <2>1, <2>2
<1> QED BY <1>1, <1>2, GInvAlways, PTL DEF Spec

\* The working set of a thread has the newest records that nobody withdrew or
\* superseded, up to the limit of the rules; nothing in it rests, through any
\* number of records, on withdrawn content, or it is labelled.
THEOREM ContextIsSound == Spec => []ContextSound
<1>1. GInv /\ ReplacedInv => ContextSound
  <2> SUFFICES ASSUME GInv, ReplacedInv PROVE ContextSound
    OBVIOUS
  <2>1. Len(log) \in Nat /\ accepted_records \subseteq 1..Len(log)
    BY DEF GInv, LedgerInv, LogInv
  <2>2. \A i \in 1..Len(log) : i \in tainted_records <=> Foundations[i] \intersect retracted_records # {}
    BY TaintIsFounded DEF GInv, LedgerInv
  <2>3. \A th, policy : Eligible(th, policy) \in SUBSET (1..Len(log))
    BY <2>1 DEF Eligible
  <2>4. rules.max_context_records \in Nat
    BY DEF ReplacedInv
  <2>5. \A th, policy : LET E == Eligible(th, policy)
                        IN  /\ Newest(E) \subseteq E
                            /\ Cardinality(Newest(E)) <= rules.max_context_records
                            /\ \A i \in E \ Newest(E) :
                                 /\ Cardinality(Newest(E)) = rules.max_context_records
                                 /\ \A j \in Newest(E) : i < j
    BY <2>1, <2>3, <2>4, NewestOf
  <2>6. \A th, policy : /\ ContextOf(th, policy).records = Newest(Eligible(th, policy))
                        /\ ContextOf(th, policy).tainted_records =
                             Newest(Eligible(th, policy)) \intersect tainted_records
    BY DEF ContextOf
  <2>7. ContextClean
    <3> SUFFICES ASSUME NEW th \in Threads
                 PROVE  /\ \A i \in ContextOf(th, "ExcludeTainted").records :
                             (Foundations[i] \union {i}) \intersect retracted_records = {}
                        /\ ContextOf(th, "IncludeTainted").tainted_records =
                             {i \in ContextOf(th, "IncludeTainted").records :
                                Foundations[i] \intersect retracted_records # {}}
      BY DEF ContextClean
    <3>1. ASSUME NEW i \in Newest(Eligible(th, "ExcludeTainted"))
          PROVE  (Foundations[i] \union {i}) \intersect retracted_records = {}
      <4>1. i \in Eligible(th, "ExcludeTainted")
        BY <2>5
      <4>2. i \in 1..Len(log) /\ i \notin retracted_records /\ i \notin tainted_records
        BY <2>1, <4>1 DEF Eligible
      <4> QED BY <2>2, <4>2
    <3>2. Newest(Eligible(th, "IncludeTainted")) \subseteq 1..Len(log)
      BY <2>3, <2>5
    <3>3. Newest(Eligible(th, "IncludeTainted")) \intersect tainted_records =
            {i \in Newest(Eligible(th, "IncludeTainted")) : Foundations[i] \intersect retracted_records # {}}
      BY ONLY <2>2, <3>2
    <3> QED BY <2>6, <3>1, <3>3
  <2>8. ContextNewest
    <3> SUFFICES ASSUME NEW th \in Threads
                 PROVE  LET c == ContextOf(th, "ExcludeTainted").records
                            live == {i \in accepted_records : log[i].body.thread = th}
                                      \ (retracted_records \union tainted_records)
                        IN  /\ Cardinality(c) <= rules.max_context_records
                            /\ \A i \in live \ c :
                                 \/ \E j \in accepted_records : i \in Targets(log[j].refs, "Replace")
                                 \/ Cardinality(c) = rules.max_context_records /\ \A j \in c : i < j
      BY DEF ContextNewest
    <3> DEFINE E == Eligible(th, "ExcludeTainted")
    <3>1. ASSUME NEW i \in accepted_records, log[i].body.thread = th, i \notin retracted_records,
                 i \notin tainted_records, i \notin Newest(E)
          PROVE  \/ \E j \in accepted_records : i \in Targets(log[j].refs, "Replace")
                 \/ Cardinality(Newest(E)) = rules.max_context_records /\ \A j \in Newest(E) : i < j
      <4>1. CASE i \in replaced_records
        BY <4>1 DEF ReplacedInv
      <4>2. CASE i \notin replaced_records
        <5>1. i \in E
          BY <3>1, <4>2 DEF Eligible
        <5> HIDE DEF E
        <5> QED BY <2>5, <3>1, <5>1 DEF E
      <4> QED BY <4>1, <4>2
    <3>2. Cardinality(Newest(E)) <= rules.max_context_records
      BY <2>5
    <3>3. ContextOf(th, "ExcludeTainted").records = Newest(E)
      BY <2>6
    <3> HIDE DEF E
    <3> QED BY <3>1, <3>2, <3>3
  <2> QED BY <2>7, <2>8 DEF ContextSound
<1> QED BY <1>1, GInvAlways, ReplacedAlways, PTL
=============================================================================
