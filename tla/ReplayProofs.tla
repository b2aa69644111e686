---------------------------- MODULE ReplayProofs ----------------------------
(***************************************************************************)
(* What replay accepts, for any proposals, rules and verifier, logs of any   *)
(* length and any number of edits: the commits of one rule set and nothing   *)
(* else, with or without a checkpoint.                                       *)
(*                                                                          *)
(* The replay is a recursive function of the place in the log.  That it is   *)
(* one (ProgressStep) and what it has reached at each place are shown by      *)
(* the least place at which they fail.                                       *)
(***************************************************************************)
EXTENDS Replay, TLAPS, SequenceTheorems, WellFoundedInduction

SubjectIds == Nat \X Proposals
Threads == {Thread[p] : p \in Proposals}
States == [accepted : SUBSET SubjectIds, applied_up_to : Nat]
Outcomes == Results \union {Decide(r, st, p) : r \in Rules, st \in States, p \in Proposals}
Envelopes == {"ok", "bad"}
VerdictIds == Nat \X SubjectIds \X Outcomes \X Envelopes \X Threads

SubjectRecords ==
  {rec \in [kind : {"Subject"}, id : SubjectIds, time : Nat, prop : Proposals, thread : Threads] :
     rec.thread = Thread[rec.prop]}
VerdictRecords ==
  [kind : {"Verdict"}, id : VerdictIds, time : Nat, cause : SubjectIds, thread : Threads,
   result : Outcomes, envelope : Envelopes]
Record == SubjectRecords \union VerdictRecords

-----------------------------------------------------------------------------
(* Records and their ids *)

LEMMA SubjectType ==
  ASSUME NEW t \in Nat, NEW p \in Proposals
  PROVE  /\ Subject(t, p) \in SubjectRecords
         /\ Subject(t, p) = [kind |-> "Subject", id |-> <<t, p>>, time |-> t, prop |-> p,
                             thread |-> Thread[p]]
  BY DEF Subject, Stored, ComputeId, SubjectRecords, SubjectIds, Threads

LEMMA VerdictType ==
  ASSUME NEW t \in Nat, NEW c \in SubjectIds, NEW th \in Threads, NEW x \in Outcomes,
         NEW e \in Envelopes
  PROVE  /\ Verdict(t, c, th, x, e) \in VerdictRecords
         /\ Verdict(t, c, th, x, e) =
              [kind |-> "Verdict", id |-> <<t, c, x, e, th>>, time |-> t, cause |-> c,
               thread |-> th, result |-> x, envelope |-> e]
  BY DEF Verdict, Stored, ComputeId, VerdictRecords, VerdictIds

\* An id determines the record that it was computed from.
LEMMA IdsDetermine ==
  ASSUME NEW a \in Record, NEW b \in Record, a.id = ComputeId(a), b.id = ComputeId(b), a.id = b.id
  PROVE  a = b
<1>1. CASE a.kind = "Subject" /\ b.kind = "Subject"
  BY <1>1 DEF Record, SubjectRecords, VerdictRecords, ComputeId
<1>2. CASE a.kind = "Verdict" /\ b.kind = "Verdict"
  BY <1>2 DEF Record, SubjectRecords, VerdictRecords, ComputeId
<1>3. CASE a.kind # b.kind
  BY <1>3 DEF Record, SubjectRecords, VerdictRecords, ComputeId
<1> QED BY <1>1, <1>2, <1>3 DEF Record, SubjectRecords, VerdictRecords

-----------------------------------------------------------------------------
(* Induction over the places of a log *)

LEMMA LeastPlace ==
  ASSUME NEW T \in SUBSET Nat, T # {}
  PROVE  \E n \in T : \A m \in T : n <= m
<1>1. PICK n \in T : \A m \in T : ~(<<m, n>> \in OpToRel(<, Nat))
  BY NatLessThanWellFounded, WFMin
<1>2. ASSUME NEW m \in T PROVE n <= m
  <2>1. m \in Nat /\ n \in Nat
    OBVIOUS
  <2>2. ~(m < n)
    BY <1>1, <2>1 DEF OpToRel
  <2> QED BY <2>1, <2>2
<1> QED BY <1>2

\* What holds at place a, and at the next place wherever it holds, holds up to b.
LEMMA PlaceInduction ==
  ASSUME NEW a \in Nat, NEW b \in Nat, NEW T, a \in T,
         \A n \in a..b : n < b /\ n \in T => n + 1 \in T
  PROVE  \A n \in a..b : n \in T
<1> DEFINE F == {n \in a..b : n \notin T}
<1> SUFFICES ASSUME F # {} PROVE FALSE
  OBVIOUS
<1>1. F \in SUBSET Nat
  OBVIOUS
<1>2. PICK n \in F : \A m \in F : n <= m
  <2> HIDE DEF F
  <2> QED BY <1>1, LeastPlace
<1>3. n \in a..b /\ n \notin T /\ n # a
  OBVIOUS
<1>4. n - 1 \in a..b /\ n - 1 < b /\ n - 1 \notin F
  BY <1>2, <1>3
<1>5. n - 1 \in T
  BY <1>4
<1>6. (n - 1) + 1 \in T
  BY <1>4, <1>5
<1> QED BY <1>3, <1>6

-----------------------------------------------------------------------------
(* The replay as a function of the place *)

\* A function that follows the replay for m records behind start.
Follows(f, recs, r, start, m) ==
  f = [i \in start..(start + m) |->
         IF i = start THEN At("next", BuildState(SubSeq(recs, 1, start)), 0)
                      ELSE Step(recs, r, i, f[i - 1])]

LEMMA FollowsExists ==
  ASSUME NEW recs, NEW r, NEW start \in Nat, NEW n \in Nat
  PROVE  \E f : Follows(f, recs, r, start, n)
<1> DEFINE T == {m \in Nat : \E f : Follows(f, recs, r, start, m)}
           base == At("next", BuildState(SubSeq(recs, 1, start)), 0)
<1>1. 0 \in T
  <2> DEFINE f == [i \in start..(start + 0) |-> base]
  <2>1. \A i \in start..(start + 0) : i = start
    OBVIOUS
  <2> HIDE DEF base
  <2>2. f = [i \in start..(start + 0) |-> IF i = start THEN base ELSE Step(recs, r, i, f[i - 1])]
    BY <2>1
  <2>3. Follows(f, recs, r, start, 0)
    BY <2>2 DEF Follows, base
  <2> QED BY <2>3
<1>2. ASSUME NEW m \in Nat, m \in T PROVE m + 1 \in T
  <2>1. PICK f : Follows(f, recs, r, start, m)
    BY <1>2
  <2> DEFINE D == start..(start + (m + 1))
             g == [i \in D |-> IF i <= start + m THEN f[i] ELSE Step(recs, r, i, f[i - 1])]
  <2>2. \A i \in start..(start + m) : f[i] = IF i = start THEN base ELSE Step(recs, r, i, f[i - 1])
    BY <2>1 DEF Follows
  <2> HIDE DEF base
  <2>3. ASSUME NEW i \in D PROVE g[i] = IF i = start THEN base ELSE Step(recs, r, i, g[i - 1])
    <3>1. CASE i = start
      BY <2>2, <3>1
    <3>2. CASE i # start /\ i <= start + m
      <4>1. i \in start..(start + m) /\ i - 1 \in D /\ i - 1 <= start + m
        BY <3>2
      <4>2. g[i] = f[i] /\ g[i - 1] = f[i - 1]
        BY <4>1
      <4> QED BY <2>2, <3>2, <4>1, <4>2
    <3>3. CASE ~(i <= start + m)
      <4>1. i - 1 \in D /\ i - 1 <= start + m /\ i # start
        BY <3>3
      <4>2. g[i] = Step(recs, r, i, f[i - 1]) /\ g[i - 1] = f[i - 1]
        BY <3>3, <4>1
      <4> QED BY <4>1, <4>2
    <3> QED BY <3>1, <3>2, <3>3
  <2>4. g = [i \in D |-> IF i = start THEN base ELSE Step(recs, r, i, g[i - 1])]
    <3>1. g = [i \in D |-> g[i]]
      OBVIOUS
    <3> HIDE DEF g
    <3> QED BY <2>3, <3>1
  <2>5. Follows(g, recs, r, start, m + 1)
    BY <2>4 DEF Follows, base
  <2> QED BY <2>5
<1>3. n \in 0..n /\ \A m \in 0..n : m < n /\ m \in T => m + 1 \in T
  BY <1>2
<1>4. n \in T
  <2> HIDE DEF T
  <2> QED BY <1>1, <1>3, PlaceInduction
<1> QED BY <1>4

\* The replay stands where one more record takes it.
LEMMA ProgressStep ==
  ASSUME NEW recs, NEW r, NEW start \in Nat, Len(recs) \in Nat, start <= Len(recs)
  PROVE  LET at == Progress(recs, r, start)
         IN  /\ at[start] = At("next", BuildState(SubSeq(recs, 1, start)), 0)
             /\ \A i \in (start + 1)..Len(recs) : at[i] = Step(recs, r, i, at[i - 1])
<1> DEFINE at == Progress(recs, r, start)
           base == At("next", BuildState(SubSeq(recs, 1, start)), 0)
           Fits(f) == f = [i \in start..Len(recs) |-> IF i = start THEN base
                                                                  ELSE Step(recs, r, i, f[i - 1])]
<1>1. \E f : Fits(f)
  <2>1. Len(recs) - start \in Nat /\ start + (Len(recs) - start) = Len(recs)
    OBVIOUS
  <2>2. PICK f : Follows(f, recs, r, start, Len(recs) - start)
    BY <2>1, FollowsExists
  <2> QED BY <2>1, <2>2 DEF Follows
<1>2. at = CHOOSE f : Fits(f)
  BY DEF Progress
<1>3. Fits(at)
  <2> HIDE DEF at, Fits
  <2> QED BY <1>1, <1>2
<1> HIDE DEF at, base
<1>4. start \in start..Len(recs) /\ \A i \in (start + 1)..Len(recs) : i \in start..Len(recs) /\ i # start
  OBVIOUS
<1>5. at[start] = base
  BY <1>3, <1>4
<1>6. \A i \in (start + 1)..Len(recs) : at[i] = Step(recs, r, i, at[i - 1])
  BY <1>3, <1>4
<1> QED BY <1>5, <1>6 DEF at, base

-----------------------------------------------------------------------------
(* Logs of whole commits *)

AcceptedPairs(recs, k) ==
  {recs[2 * j - 1].id : j \in {m \in 1..k : recs[2 * m].result = "Accept"}}

\* The state behind the first k commits of recs.
StateAfter(recs, k) == [accepted |-> AcceptedPairs(recs, k), applied_up_to |-> 2 * k]

\* Records 2j - 1 and 2j are the j-th commit under rules r.
CommitAt(recs, r, j) ==
  /\ recs[2 * j - 1].prop \in Proposals
  /\ recs[2 * j - 1] = Subject(2 * j - 1, recs[2 * j - 1].prop)
  /\ recs[2 * j] = VerdictOf(recs[2 * j - 1],
                             Decide(r, StateAfter(recs, j - 1), recs[2 * j - 1].prop))

\* The first 2k records are k commits under rules r.
Commits(recs, r, k) == 2 * k <= Len(recs) /\ \A j \in 1..k : CommitAt(recs, r, j)

LEMMA Halves ==
  \A i \in Nat : i > 0 => \E j \in Nat : j > 0 /\ (i = 2 * j - 1 \/ i = 2 * j)
<1> SUFFICES ASSUME NEW i \in Nat, i > 0
             PROVE  \E j \in Nat : j > 0 /\ (i = 2 * j - 1 \/ i = 2 * j)
  OBVIOUS
<1>1. (i + 1) \div 2 \in Nat /\ (i + 1) \div 2 > 0
        /\ (i = 2 * ((i + 1) \div 2) - 1 \/ i = 2 * ((i + 1) \div 2))
  OBVIOUS
<1> QED BY <1>1

\* What the fields of the j-th commit are.
CommitFields(recs, r, j) ==
  LET s == recs[2 * j - 1]
      v == recs[2 * j]
  IN  /\ s \in SubjectRecords /\ v \in VerdictRecords
      /\ s.kind = "Subject" /\ v.kind = "Verdict"
      /\ s.time = 2 * j - 1 /\ v.time = 2 * j
      /\ s.id = <<2 * j - 1, s.prop>> /\ v.cause = s.id
      /\ s.id = ComputeId(s) /\ v.id = ComputeId(v)
      /\ v.thread = s.thread /\ v.envelope = "ok"
      /\ v.result = Decide(r, StateAfter(recs, j - 1), s.prop)

LEMMA StateAfterType ==
  ASSUME NEW recs, NEW k \in Nat, \A j \in 1..k : recs[2 * j - 1].id \in SubjectIds
  PROVE  StateAfter(recs, k) \in States
  BY DEF StateAfter, AcceptedPairs, States

\* Fields that fit are a commit, and a commit that meets a state has them.
LEMMA CommitHasFields ==
  ASSUME NEW recs, NEW r \in Rules, NEW j \in Nat, j > 0, CommitAt(recs, r, j),
         StateAfter(recs, j - 1) \in States
  PROVE  CommitFields(recs, r, j)
<1> DEFINE s == recs[2 * j - 1]
           v == recs[2 * j]
           x == Decide(r, StateAfter(recs, j - 1), s.prop)
<1>1. s.prop \in Proposals /\ 2 * j - 1 \in Nat /\ 2 * j \in Nat /\ (2 * j - 1) + 1 = 2 * j
  BY DEF CommitAt
<1>2. /\ s \in SubjectRecords
      /\ s = [kind |-> "Subject", id |-> <<2 * j - 1, s.prop>>, time |-> 2 * j - 1,
              prop |-> s.prop, thread |-> Thread[s.prop]]
  BY <1>1, SubjectType DEF CommitAt
<1>3. x \in Outcomes
  BY <1>1 DEF Outcomes
<1>4. v = Verdict(2 * j, s.id, s.thread, x, "ok")
  <2>1. v = Verdict(s.time + 1, s.id, s.thread, x, "ok")
    BY DEF CommitAt, VerdictOf
  <2>2. s.time = 2 * j - 1
    BY <1>2
  <2> QED BY <1>1, <2>1, <2>2
<1>5. s.id \in SubjectIds /\ s.thread \in Threads /\ "ok" \in Envelopes
  BY <1>2 DEF SubjectRecords, Envelopes
<1>6. /\ v \in VerdictRecords
      /\ v = [kind |-> "Verdict", id |-> <<2 * j, s.id, x, "ok", s.thread>>, time |-> 2 * j,
              cause |-> s.id, thread |-> s.thread, result |-> x, envelope |-> "ok"]
  <2> HIDE DEF s, v, x
  <2> QED BY <1>1, <1>3, <1>4, <1>5, VerdictType
<1>7. s.id = ComputeId(s)
  BY <1>2 DEF ComputeId
<1>8. v.id = ComputeId(v)
  <2> HIDE DEF v, s, x
  <2> QED BY <1>6 DEF ComputeId
<1>9. s.kind = "Subject" /\ s.time = 2 * j - 1 /\ s.id = <<2 * j - 1, s.prop>>
  BY <1>2
<1>10. /\ v.kind = "Verdict" /\ v.time = 2 * j /\ v.cause = s.id /\ v.thread = s.thread
       /\ v.envelope = "ok" /\ v.result = x
  <2> HIDE DEF v, s, x
  <2> QED BY <1>6
<1> QED BY <1>2, <1>6, <1>7, <1>8, <1>9, <1>10 DEF CommitFields

LEMMA FieldsMakeCommit ==
  ASSUME NEW recs, NEW r \in Rules, NEW j \in Nat, j > 0, CommitFields(recs, r, j)
  PROVE  CommitAt(recs, r, j)
<1> DEFINE s == recs[2 * j - 1]
           v == recs[2 * j]
           x == Decide(r, StateAfter(recs, j - 1), s.prop)
<1>1. s.prop \in Proposals /\ 2 * j - 1 \in Nat /\ 2 * j \in Nat /\ s.time + 1 = 2 * j
  BY DEF CommitFields, SubjectRecords
<1>2. s = Subject(2 * j - 1, s.prop)
  <2>1. s = [kind |-> "Subject", id |-> <<2 * j - 1, s.prop>>, time |-> 2 * j - 1,
             prop |-> s.prop, thread |-> Thread[s.prop]]
    BY DEF CommitFields, SubjectRecords
  <2> QED BY <1>1, <2>1, SubjectType
<1>3. /\ v \in VerdictRecords /\ v.time = 2 * j /\ v.cause = s.id /\ v.thread = s.thread
      /\ v.envelope = "ok" /\ v.result = x /\ v.kind = "Verdict" /\ v.id = ComputeId(v)
  BY DEF CommitFields
<1>4. s.id \in SubjectIds /\ s.thread \in Threads /\ x \in Outcomes /\ "ok" \in Envelopes
  BY <1>3 DEF CommitFields, SubjectRecords, VerdictRecords, Envelopes
<1>5. v = Verdict(2 * j, s.id, s.thread, x, "ok")
  <2> HIDE DEF v, s, x
  <2>1. v.id = <<2 * j, s.id, x, "ok", s.thread>>
    BY <1>3 DEF ComputeId
  <2>2. v = [kind |-> "Verdict", id |-> <<2 * j, s.id, x, "ok", s.thread>>, time |-> 2 * j,
             cause |-> s.id, thread |-> s.thread, result |-> x, envelope |-> "ok"]
    BY <1>3, <2>1 DEF VerdictRecords
  <2> QED BY <1>1, <1>4, <2>2, VerdictType
<1> QED BY <1>1, <1>2, <1>5 DEF CommitAt, VerdictOf

LEMMA CommitsFields ==
  ASSUME NEW recs, NEW r \in Rules, NEW k \in Nat, Commits(recs, r, k)
  PROVE  /\ \A j \in 1..k : CommitFields(recs, r, j)
         /\ \A j \in 0..k : StateAfter(recs, j) \in States
<1> DEFINE T == {n \in 0..k : \A j \in 1..n : CommitFields(recs, r, j)}
<1>0. ASSUME NEW n \in 0..k, n \in T PROVE StateAfter(recs, n) \in States
  <2>1. \A j \in 1..n : recs[2 * j - 1].id \in SubjectIds
    BY <1>0 DEF CommitFields, SubjectRecords
  <2> QED BY <2>1, StateAfterType
<1>1. 0 \in T
  OBVIOUS
<1>2. ASSUME NEW n \in 0..k, n < k, n \in T PROVE n + 1 \in T
  <2>1. StateAfter(recs, n) \in States
    BY <1>0, <1>2
  <2>2. n + 1 \in Nat /\ n + 1 > 0 /\ (n + 1) - 1 = n /\ n + 1 \in 1..k
    BY <1>2
  <2>3. CommitAt(recs, r, n + 1)
    BY <2>2 DEF Commits
  <2>4. CommitFields(recs, r, n + 1)
    BY <2>1, <2>2, <2>3, CommitHasFields
  <2> QED BY <1>2, <2>4
<1>3. \A n \in 0..k : n \in T
  <2> HIDE DEF T
  <2> QED BY <1>1, <1>2, PlaceInduction
<1>4. k \in 0..k
  OBVIOUS
<1> QED BY <1>0, <1>3, <1>4

\* One more commit and the state it leaves.
LEMMA StateAfterStep ==
  ASSUME NEW recs, NEW k \in Nat
  PROVE  StateAfter(recs, k + 1) =
           Apply(StateAfter(recs, k), recs[2 * k + 1], recs[2 * k + 2].result, 2 * k + 2)
<1>1. 2 * (k + 1) - 1 = 2 * k + 1 /\ 2 * (k + 1) = 2 * k + 2
  OBVIOUS
<1>2. AcceptedPairs(recs, k + 1) =
        IF recs[2 * k + 2].result = "Accept" THEN AcceptedPairs(recs, k) \union {recs[2 * k + 1].id}
                                             ELSE AcceptedPairs(recs, k)
  <2>1. \A id : id \in AcceptedPairs(recs, k + 1) <=>
                  \E m \in 1..(k + 1) : recs[2 * m].result = "Accept" /\ id = recs[2 * m - 1].id
    BY DEF AcceptedPairs
  <2>2. \A id : id \in AcceptedPairs(recs, k) <=>
                  \E m \in 1..k : recs[2 * m].result = "Accept" /\ id = recs[2 * m - 1].id
    BY DEF AcceptedPairs
  <2>3. 1..(k + 1) = (1..k) \union {k + 1}
    OBVIOUS
  <2>4. \A id : id \in AcceptedPairs(recs, k + 1) <=>
                  \/ id \in AcceptedPairs(recs, k)
                  \/ recs[2 * k + 2].result = "Accept" /\ id = recs[2 * k + 1].id
    <3> SUFFICES ASSUME NEW id
                 PROVE  id \in AcceptedPairs(recs, k + 1) <=>
                          \/ id \in AcceptedPairs(recs, k)
                          \/ recs[2 * k + 2].result = "Accept" /\ id = recs[2 * k + 1].id
      OBVIOUS
    <3>1. \A m : m \in 1..(k + 1) <=> m \in 1..k \/ m = k + 1
      BY <2>3
    <3> QED BY ONLY <1>1, <2>1, <2>2, <3>1
  <2> QED BY <2>4
<1> QED BY <1>1, <1>2 DEF StateAfter, Apply

\* Which records a log has at its commits.
LEMMA PlacesOfCommits ==
  ASSUME NEW recs, NEW r \in Rules, NEW k \in Nat, Commits(recs, r, k), NEW i \in 1..(2 * k)
  PROVE  \E j \in 1..k : /\ CommitFields(recs, r, j)
                         /\ \/ i = 2 * j - 1 /\ recs[i].kind = "Subject"
                            \/ i = 2 * j /\ recs[i].kind = "Verdict"
<1>1. PICK j \in Nat : j > 0 /\ (i = 2 * j - 1 \/ i = 2 * j)
  <2>1. i \in Nat /\ i > 0
    OBVIOUS
  <2> QED BY <2>1, Halves
<1>2. j \in 1..k
  BY <1>1
<1>3. CommitFields(recs, r, j)
  BY <1>2, CommitsFields
<1> QED BY <1>1, <1>2, <1>3 DEF CommitFields

\* build_state_unchecked of a log of whole commits.
LEMMA BuildOfCommits ==
  ASSUME NEW recs \in Seq(Record), NEW r \in Rules, NEW k \in Nat, Commits(recs, r, k)
  PROVE  BuildState(SubSeq(recs, 1, 2 * k)) = StateAfter(recs, k)
<1> DEFINE pre == SubSeq(recs, 1, 2 * k)
           verdicts(id) == {i \in DOMAIN pre : pre[i].kind = "Verdict" /\ pre[i].cause = id}
           rulings(id) == {pre[i].result : i \in {j \in verdicts(id) : \A m \in verdicts(id) : m <= j}}
<1>1. 2 * k \in Nat /\ 2 * k <= Len(recs) /\ Len(recs) \in Nat
  BY DEF Commits
<1>2. pre \in Seq(Record) /\ Len(pre) = 2 * k /\ DOMAIN pre = 1..(2 * k) /\ \A i \in 1..(2 * k) : pre[i] = recs[i]
  BY <1>1
<1> HIDE DEF pre
<1>3. \A j \in 1..k : CommitFields(recs, r, j)
  BY CommitsFields
<1>4. ASSUME NEW j \in 1..k PROVE verdicts(recs[2 * j - 1].id) = {2 * j}
  <2>1. 2 * j \in 1..(2 * k) /\ pre[2 * j].kind = "Verdict" /\ pre[2 * j].cause = recs[2 * j - 1].id
    <3>1. 2 * j \in 1..(2 * k)
      OBVIOUS
    <3> QED BY <1>2, <1>3, <3>1 DEF CommitFields
  <2>2. ASSUME NEW i \in 1..(2 * k), pre[i].kind = "Verdict", pre[i].cause = recs[2 * j - 1].id
        PROVE  i = 2 * j
    <3>1. PICK m \in 1..k : /\ CommitFields(recs, r, m)
                            /\ \/ i = 2 * m - 1 /\ recs[i].kind = "Subject"
                               \/ i = 2 * m /\ recs[i].kind = "Verdict"
      BY PlacesOfCommits
    <3>2. i = 2 * m
      BY <1>2, <2>2, <3>1
    <3>3. recs[2 * m - 1].id = recs[2 * j - 1].id
      BY <1>2, <2>2, <3>1, <3>2 DEF CommitFields
    <3>4. 2 * m - 1 = 2 * j - 1
      BY <1>3, <3>1, <3>3 DEF CommitFields
    <3> QED BY <3>2, <3>4
  <2> QED BY <1>2, <2>1, <2>2
<1>5. ASSUME NEW j \in 1..k
      PROVE  "Accept" \in rulings(recs[2 * j - 1].id) <=> recs[2 * j].result = "Accept"
  <2>1. verdicts(recs[2 * j - 1].id) = {2 * j}
    BY <1>4
  <2> HIDE DEF verdicts
  <2>2. 2 * j <= 2 * j /\ 2 * j \in 1..(2 * k)
    OBVIOUS
  <2>3. {m \in verdicts(recs[2 * j - 1].id) : \A n \in verdicts(recs[2 * j - 1].id) : n <= m} = {2 * j}
    BY <2>1, <2>2
  <2>4. rulings(recs[2 * j - 1].id) = {pre[2 * j].result}
    BY <2>3
  <2> QED BY <1>2, <2>2, <2>4
<1> DEFINE acc == {pre[i].id : i \in {j \in DOMAIN pre : /\ pre[j].kind = "Subject"
                                                         /\ "Accept" \in rulings(pre[j].id)}}
<1>6. acc = AcceptedPairs(recs, k)
  <2> HIDE DEF rulings, verdicts
  <2>1. ASSUME NEW i \in 1..(2 * k), pre[i].kind = "Subject", "Accept" \in rulings(pre[i].id)
        PROVE  pre[i].id \in AcceptedPairs(recs, k)
    <3>1. PICK j \in 1..k : /\ CommitFields(recs, r, j)
                            /\ \/ i = 2 * j - 1 /\ recs[i].kind = "Subject"
                               \/ i = 2 * j /\ recs[i].kind = "Verdict"
      BY PlacesOfCommits
    <3>2. i = 2 * j - 1 /\ pre[i] = recs[2 * j - 1]
      BY <1>2, <2>1, <3>1
    <3>3. recs[2 * j].result = "Accept"
      BY <1>5, <2>1, <3>2
    <3> QED BY <3>2, <3>3 DEF AcceptedPairs
  <2>2. ASSUME NEW j \in 1..k, recs[2 * j].result = "Accept"
        PROVE  recs[2 * j - 1].id \in acc
    <3>1. 2 * j - 1 \in 1..(2 * k)
      OBVIOUS
    <3>2. pre[2 * j - 1] = recs[2 * j - 1] /\ pre[2 * j - 1].kind = "Subject"
      BY <1>2, <1>3, <3>1 DEF CommitFields
    <3>3. "Accept" \in rulings(pre[2 * j - 1].id)
      BY <1>5, <2>2, <3>2
    <3> QED BY <1>2, <3>1, <3>2, <3>3
  <2>3. acc \subseteq AcceptedPairs(recs, k)
    BY <1>2, <2>1
  <2>4. AcceptedPairs(recs, k) \subseteq acc
    <3> HIDE DEF acc
    <3> QED BY <2>2 DEF AcceptedPairs
  <2> QED BY <2>3, <2>4
<1>7. LastTime(pre) = 2 * k
  <2>1. CASE k = 0
    <3>1. pre = <<>>
      BY <1>2, <2>1
    <3> QED BY <2>1, <3>1 DEF LastTime
  <2>2. CASE k # 0
    <3>1. pre # <<>> /\ 2 * k \in 1..(2 * k) /\ k \in 1..k
      BY <1>2, <2>2
    <3> QED BY <1>2, <1>3, <3>1 DEF LastTime, CommitFields
  <2> QED BY <2>1, <2>2
<1>8. BuildState(pre) = [accepted |-> acc, applied_up_to |-> LastTime(pre)]
  BY DEF BuildState
<1> HIDE DEF acc
<1> QED BY <1>6, <1>7, <1>8 DEF StateAfter, pre

-----------------------------------------------------------------------------
(* One step of the replay *)

\* In a log whose times have no gaps and whose ids bind, a subject is found by
\* its id.
LEMMA FoundSubject ==
  ASSUME NEW recs \in Seq(Record), Sequenced(recs), IdsBind(recs),
         NEW m \in 1..Len(recs), NEW i \in 1..Len(recs), m < i, recs[m].kind = "Subject"
  PROVE  Found(recs, i, recs[m].id) = {m}
<1>1. ASSUME NEW j \in 1..Len(recs), recs[j].id = recs[m].id PROVE j = m
  <2>1. recs[j] \in Record /\ recs[m] \in Record
    OBVIOUS
  <2>2. recs[j].id = ComputeId(recs[j]) /\ recs[m].id = ComputeId(recs[m])
    BY DEF IdsBind
  <2>3. recs[j] = recs[m]
    BY <1>1, <2>1, <2>2, IdsDetermine
  <2>4. recs[j].time = j /\ recs[m].time = m
    BY DEF Sequenced
  <2> QED BY <2>3, <2>4
<1>2. m \in 1..(i - 1) /\ \A k \in 1..(m - 1) : k \in 1..Len(recs) /\ k # m
  OBVIOUS
<1>3. m \in Found(recs, i, recs[m].id)
  BY <1>1, <1>2 DEF Found
<1>4. \A j \in Found(recs, i, recs[m].id) : j \in 1..Len(recs) /\ recs[j].id = recs[m].id
  BY DEF Found
<1> QED BY <1>1, <1>3, <1>4

\* Place a of the replay from genesis, behind i records of which 2k are commits.
Reached(recs, r, a, i, k) ==
  /\ 2 * k <= i /\ Commits(recs, r, k) /\ a.checked = 2 * k
  /\ \/ a.phase = "rejected"
     \/ a.phase = "next" /\ i = 2 * k /\ a.state = StateAfter(recs, k)
     \/ a.phase = "owed" /\ i = 2 * k + 1 /\ recs[i].kind = "Subject" /\ a.state = StateAfter(recs, k)

LEMMA KindCases ==
  ASSUME NEW recs \in Seq(Record), NEW i \in 1..Len(recs)
  PROVE  recs[i].kind = "Subject" \/ recs[i].kind = "Verdict"
  BY DEF Record, SubjectRecords, VerdictRecords

LEMMA AtFields ==
  ASSUME NEW phase, NEW st, NEW checked
  PROVE  /\ At(phase, st, checked).phase = phase /\ At(phase, st, checked).state = st
         /\ At(phase, st, checked).checked = checked
  BY DEF At

LEMMA StepRejected ==
  ASSUME NEW recs, NEW r, NEW i, NEW a, a.phase = "rejected"
  PROVE  Step(recs, r, i, a) = a
  BY DEF Step

LEMMA StepSubject ==
  ASSUME NEW recs, NEW r, NEW i, NEW a, a.phase # "rejected", recs[i].kind = "Subject"
  PROVE  Step(recs, r, i, a) =
           At(IF a.phase = "next" THEN "owed" ELSE "rejected", a.state, a.checked)
  BY DEF Step

\* Whether the verdict of place i gets through, and where the replay is then.
Through(recs, r, i, a) ==
  VerdictRecord(recs, i) /\ (a.phase = "owed" => Rederives(r, a.state, recs[i - 1], recs[i]))

Behind(recs, i, a) ==
  At("next", Apply(a.state, recs[CHOOSE j \in Found(recs, i, recs[i].cause) : TRUE],
                   recs[i].result, recs[i].time),
     a.checked + IF a.phase = "owed" THEN 2 ELSE 1)

LEMMA StepVerdict ==
  ASSUME NEW recs, NEW r, NEW i, NEW a, a.phase # "rejected", recs[i].kind = "Verdict"
  PROVE  /\ Through(recs, r, i, a) => Step(recs, r, i, a) = Behind(recs, i, a)
         /\ ~Through(recs, r, i, a) => Step(recs, r, i, a) = At("rejected", a.state, a.checked)
  BY DEF Step, Through, Behind

\* Behind whole commits no verdict stands alone: its subject has one.
LEMMA NoLoneVerdict ==
  ASSUME NEW recs \in Seq(Record), NEW r \in Rules, NEW k \in Nat, Commits(recs, r, k),
         2 * k + 1 <= Len(recs)
  PROVE  ~VerdictRecord(recs, 2 * k + 1)
<1> SUFFICES ASSUME VerdictRecord(recs, 2 * k + 1) PROVE FALSE
  OBVIOUS
<1> DEFINE v == recs[2 * k + 1]
<1>0. (2 * k + 1) - 1 = 2 * k
  OBVIOUS
<1>1. PICK i \in Found(recs, 2 * k + 1, v.cause) : recs[i].kind = "Subject"
  BY DEF VerdictRecord
<1>2. i \in 1..(2 * k) /\ recs[i].id = v.cause
  BY <1>0 DEF Found
<1>3. PICK j \in 1..k : /\ CommitFields(recs, r, j)
                        /\ \/ i = 2 * j - 1 /\ recs[i].kind = "Subject"
                           \/ i = 2 * j /\ recs[i].kind = "Verdict"
  BY <1>2, PlacesOfCommits
<1>4. i = 2 * j - 1 /\ 2 * j \in 1..(2 * k)
  BY <1>1, <1>3
<1>5. recs[2 * j].kind = "Verdict" /\ recs[2 * j].cause = v.cause
  BY <1>2, <1>3, <1>4 DEF CommitFields
<1> QED BY <1>0, <1>4, <1>5 DEF VerdictRecord

\* A verdict that re-derives makes the subject before it a commit.
LEMMA RederivedIsCommit ==
  ASSUME NEW recs \in Seq(Record), Sequenced(recs), IdsBind(recs), NEW r \in Rules, NEW k \in Nat,
         Commits(recs, r, k), 2 * k + 2 <= Len(recs),
         recs[2 * k + 1].kind = "Subject", recs[2 * k + 2].kind = "Verdict",
         VerdictRecord(recs, 2 * k + 2),
         Rederives(r, StateAfter(recs, k), recs[2 * k + 1], recs[2 * k + 2])
  PROVE  /\ Commits(recs, r, k + 1)
         /\ (CHOOSE j \in Found(recs, 2 * k + 2, recs[2 * k + 2].cause) : TRUE) = 2 * k + 1
<1> DEFINE s == recs[2 * k + 1]
           v == recs[2 * k + 2]
<1>0. 2 * k + 1 \in 1..Len(recs) /\ 2 * k + 2 \in 1..Len(recs) /\ 2 * k + 1 < 2 * k + 2
  OBVIOUS
<1>1. v.cause = s.id /\ v.result = Decide(r, StateAfter(recs, k), s.prop)
  BY DEF Rederives
<1>2. Found(recs, 2 * k + 2, s.id) = {2 * k + 1}
  BY <1>0, FoundSubject
<1>3. v.envelope = "ok" /\ v.thread = s.thread
  <2>1. PICK j \in Found(recs, 2 * k + 2, v.cause) : recs[j].thread = v.thread
    BY DEF VerdictRecord
  <2>2. j = 2 * k + 1
    BY <1>1, <1>2, <2>1
  <2> QED BY <2>1, <2>2 DEF VerdictRecord
<1>4. s \in SubjectRecords /\ v \in VerdictRecords
  <2>1. s \in Record /\ v \in Record
    BY <1>0
  <2> QED BY <2>1 DEF Record, SubjectRecords, VerdictRecords
<1>5. s.time = 2 * k + 1 /\ v.time = 2 * k + 2
  BY <1>0 DEF Sequenced
<1>6. s.id = ComputeId(s) /\ v.id = ComputeId(v)
  BY <1>0 DEF IdsBind
<1>7. s.id = <<2 * k + 1, s.prop>>
  BY <1>5, <1>6 DEF ComputeId
<1>8. k + 1 \in Nat /\ k + 1 > 0 /\ 2 * (k + 1) - 1 = 2 * k + 1 /\ 2 * (k + 1) = 2 * k + 2 /\ (k + 1) - 1 = k
  OBVIOUS
<1>9. CommitFields(recs, r, k + 1)
  BY <1>1, <1>3, <1>4, <1>5, <1>6, <1>7, <1>8 DEF CommitFields
<1>10. CommitAt(recs, r, k + 1)
  BY <1>8, <1>9, FieldsMakeCommit
<1>11. \A j \in 1..(k + 1) : j \in 1..k \/ j = k + 1
  OBVIOUS
<1>12. Commits(recs, r, k + 1)
  BY <1>8, <1>10, <1>11 DEF Commits
<1> QED BY <1>1, <1>2, <1>12

LEMMA ReachedStep ==
  ASSUME NEW recs \in Seq(Record), Sequenced(recs), IdsBind(recs), NEW r \in Rules,
         NEW i \in 1..Len(recs), NEW a, NEW k \in Nat, Reached(recs, r, a, i - 1, k)
  PROVE  \E m \in Nat : Reached(recs, r, Step(recs, r, i, a), i, m)
<1> DEFINE b == Step(recs, r, i, a)
<1>1. recs[i].kind = "Subject" \/ recs[i].kind = "Verdict"
  BY KindCases
<1>2. CASE a.phase = "rejected"
  <2>1. b = a
    BY <1>2, StepRejected
  <2> HIDE DEF b
  <2>2. Reached(recs, r, b, i, k)
    BY <1>2, <2>1 DEF Reached
  <2> QED BY <2>2 DEF b
<1>3. CASE a.phase = "next" /\ recs[i].kind = "Subject"
  <2>1. b = At("owed", a.state, a.checked)
    BY <1>3, StepSubject
  <2>2. i = 2 * k + 1 /\ a.state = StateAfter(recs, k) /\ a.checked = 2 * k /\ Commits(recs, r, k)
    BY <1>3 DEF Reached
  <2> HIDE DEF b
  <2>3. b.phase = "owed" /\ b.state = a.state /\ b.checked = a.checked
    BY <2>1, AtFields
  <2>4. Reached(recs, r, b, i, k)
    BY <1>3, <2>2, <2>3 DEF Reached
  <2> QED BY <2>4 DEF b
<1>4. ASSUME b = At("rejected", a.state, a.checked) PROVE Reached(recs, r, b, i, k)
  <2> HIDE DEF b
  <2>1. b.phase = "rejected" /\ b.checked = a.checked
    BY <1>4, AtFields
  <2> QED BY <2>1 DEF Reached
<1>5. CASE a.phase = "owed" /\ recs[i].kind = "Subject"
  <2>1. b = At("rejected", a.state, a.checked)
    BY <1>5, StepSubject
  <2> QED BY <1>4, <2>1
<1>6. CASE a.phase = "next" /\ recs[i].kind = "Verdict"
  <2>1. i = 2 * k + 1 /\ Commits(recs, r, k)
    BY <1>6 DEF Reached
  <2>2. ~Through(recs, r, i, a)
    BY <2>1, NoLoneVerdict DEF Through
  <2>3. b = At("rejected", a.state, a.checked)
    BY <1>6, <2>2, StepVerdict
  <2> QED BY <1>4, <2>3
<1>7. CASE a.phase = "owed" /\ recs[i].kind = "Verdict"
  <2>1. /\ i = 2 * k + 2 /\ i - 1 = 2 * k + 1 /\ Commits(recs, r, k) /\ recs[2 * k + 1].kind = "Subject"
        /\ a.state = StateAfter(recs, k) /\ a.checked = 2 * k
    BY <1>7 DEF Reached
  <2>2. CASE Through(recs, r, i, a)
    <3>1. VerdictRecord(recs, 2 * k + 2) /\ Rederives(r, StateAfter(recs, k), recs[2 * k + 1], recs[2 * k + 2])
      BY <1>7, <2>1, <2>2 DEF Through
    <3>2. 2 * k + 2 <= Len(recs) /\ recs[2 * k + 2].kind = "Verdict"
      BY <1>7, <2>1
    <3>3. /\ Commits(recs, r, k + 1)
          /\ (CHOOSE j \in Found(recs, 2 * k + 2, recs[2 * k + 2].cause) : TRUE) = 2 * k + 1
      BY <2>1, <3>1, <3>2, RederivedIsCommit
    <3>4. recs[2 * k + 2].time = 2 * k + 2
      BY <2>1 DEF Sequenced
    <3>5. b = Behind(recs, 2 * k + 2, a)
      BY <1>7, <2>1, <2>2, StepVerdict
    <3>6. b = At("next", Apply(StateAfter(recs, k), recs[2 * k + 1], recs[2 * k + 2].result, 2 * k + 2),
                 2 * k + 2)
      <4> HIDE DEF b
      <4> QED BY <1>7, <2>1, <3>3, <3>4, <3>5 DEF Behind
    <3>7. b = At("next", StateAfter(recs, k + 1), 2 * k + 2)
      <4> HIDE DEF b
      <4> QED BY <3>6, StateAfterStep
    <3> HIDE DEF b
    <3>8. b.phase = "next" /\ b.state = StateAfter(recs, k + 1) /\ b.checked = 2 * k + 2
      BY <3>7, AtFields
    <3>9. k + 1 \in Nat /\ 2 * (k + 1) = 2 * k + 2
      OBVIOUS
    <3>10. Reached(recs, r, b, i, k + 1)
      BY <2>1, <3>3, <3>8, <3>9 DEF Reached
    <3> QED BY <3>9, <3>10 DEF b
  <2>3. CASE ~Through(recs, r, i, a)
    <3>1. b = At("rejected", a.state, a.checked)
      BY <1>7, <2>3, StepVerdict
    <3> QED BY <1>4, <3>1
  <2> QED BY <2>2, <2>3
<1>8. a.phase \in {"rejected", "next", "owed"}
  BY DEF Reached
<1> QED BY <1>1, <1>2, <1>3, <1>5, <1>6, <1>7, <1>8

-----------------------------------------------------------------------------
(* Replay from genesis *)

LEMMA ReplayReached ==
  ASSUME NEW recs \in Seq(Record), Sequenced(recs), IdsBind(recs), NEW r \in Rules
  PROVE  \A i \in 0..Len(recs) : \E k \in Nat : Reached(recs, r, Progress(recs, r, 0)[i], i, k)
<1> DEFINE at == Progress(recs, r, 0)
           T == {i \in 0..Len(recs) : \E k \in Nat : Reached(recs, r, at[i], i, k)}
<1>1. /\ at[0] = At("next", BuildState(SubSeq(recs, 1, 0)), 0)
      /\ \A i \in 1..Len(recs) : at[i] = Step(recs, r, i, at[i - 1])
  <2>1. 0 \in Nat /\ Len(recs) \in Nat /\ 0 <= Len(recs) /\ 0 + 1 = 1
    OBVIOUS
  <2> HIDE DEF at
  <2> QED BY <2>1, ProgressStep DEF at
<1> HIDE DEF at
<1>2. 0 \in T
  <2>1. Commits(recs, r, 0)
    BY DEF Commits
  <2>2. BuildState(SubSeq(recs, 1, 2 * 0)) = StateAfter(recs, 0)
    BY <2>1, BuildOfCommits
  <2>3. at[0].phase = "next" /\ at[0].state = StateAfter(recs, 0) /\ at[0].checked = 0
    BY <1>1, <2>2, AtFields
  <2>4. Reached(recs, r, at[0], 0, 0)
    BY <2>1, <2>3 DEF Reached
  <2> QED BY <2>4
<1>3. ASSUME NEW n \in 0..Len(recs), n < Len(recs), n \in T PROVE n + 1 \in T
  <2>1. PICK k \in Nat : Reached(recs, r, at[n], n, k)
    BY <1>3
  <2>2. n + 1 \in 1..Len(recs) /\ (n + 1) - 1 = n
    BY <1>3
  <2>3. at[n + 1] = Step(recs, r, n + 1, at[n])
    BY <1>1, <2>2
  <2>4. \E m \in Nat : Reached(recs, r, Step(recs, r, n + 1, at[n]), n + 1, m)
    <3> DEFINE a == at[n]
               i == n + 1
    <3>1. Reached(recs, r, a, i - 1, k) /\ i \in 1..Len(recs)
      BY <2>1, <2>2
    <3> HIDE DEF a, i
    <3>2. \E m \in Nat : Reached(recs, r, Step(recs, r, i, a), i, m)
      BY <3>1, ReachedStep
    <3> QED BY <3>2 DEF a, i
  <2> QED BY <2>2, <2>3, <2>4
<1>4. \A n \in 0..Len(recs) : n \in T
  <2>1. 0 \in Nat /\ Len(recs) \in Nat
    OBVIOUS
  <2> HIDE DEF T
  <2> QED BY <1>2, <1>3, <2>1, PlaceInduction
<1> QED BY <1>4 DEF at

\* A log of whole commits passes what is asked of all its records at once.
LEMMA CommitsBind ==
  ASSUME NEW recs \in Seq(Record), NEW r \in Rules, NEW k \in Nat, Commits(recs, r, k),
         Len(recs) = 2 * k
  PROVE  Sequenced(recs) /\ IdsBind(recs)
<1> SUFFICES ASSUME NEW i \in 1..Len(recs)
             PROVE  recs[i].time = i /\ recs[i].id = ComputeId(recs[i])
  BY DEF Sequenced, IdsBind
<1>1. i \in 1..(2 * k)
  OBVIOUS
<1>2. PICK j \in 1..k : /\ CommitFields(recs, r, j)
                        /\ \/ i = 2 * j - 1 /\ recs[i].kind = "Subject"
                           \/ i = 2 * j /\ recs[i].kind = "Verdict"
  BY <1>1, PlacesOfCommits
<1> QED BY <1>2 DEF CommitFields

\* The verdict of a commit gets through.
LEMMA CommitThrough ==
  ASSUME NEW recs \in Seq(Record), Sequenced(recs), IdsBind(recs), NEW r \in Rules, NEW k \in Nat,
         Commits(recs, r, k + 1)
  PROVE  /\ recs[2 * k + 1].kind = "Subject" /\ recs[2 * k + 2].kind = "Verdict"
         /\ VerdictRecord(recs, 2 * k + 2)
         /\ Rederives(r, StateAfter(recs, k), recs[2 * k + 1], recs[2 * k + 2])
<1> DEFINE s == recs[2 * k + 1]
           v == recs[2 * k + 2]
<1>0. /\ 2 * (k + 1) - 1 = 2 * k + 1 /\ 2 * (k + 1) = 2 * k + 2 /\ (k + 1) - 1 = k
      /\ k + 1 \in Nat /\ k + 1 \in 1..(k + 1) /\ (2 * k + 2) - 1 = 2 * k + 1
  OBVIOUS
<1>1. \A j \in 1..(k + 1) : CommitFields(recs, r, j)
  BY <1>0, CommitsFields
<1>2. /\ s.kind = "Subject" /\ v.kind = "Verdict" /\ v.cause = s.id /\ v.envelope = "ok"
      /\ v.thread = s.thread /\ v.result = Decide(r, StateAfter(recs, k), s.prop)
      /\ s.id = <<2 * k + 1, s.prop>>
  BY <1>0, <1>1 DEF CommitFields
<1>3. Rederives(r, StateAfter(recs, k), s, v)
  BY <1>2 DEF Rederives
<1>4. 2 * k + 1 \in 1..Len(recs) /\ 2 * k + 2 \in 1..Len(recs) /\ 2 * k + 1 < 2 * k + 2
  BY <1>0 DEF Commits
<1>5. Found(recs, 2 * k + 2, v.cause) = {2 * k + 1}
  BY <1>2, <1>4, FoundSubject
<1>6. ASSUME NEW i \in 1..(2 * k + 1), recs[i].kind = "Verdict" PROVE recs[i].cause # v.cause
  <2>1. i \in 1..(2 * (k + 1))
    BY <1>0
  <2>2. PICK j \in 1..(k + 1) : /\ CommitFields(recs, r, j)
                                /\ \/ i = 2 * j - 1 /\ recs[i].kind = "Subject"
                                   \/ i = 2 * j /\ recs[i].kind = "Verdict"
    <3> HIDE DEF s, v
    <3> QED BY <1>0, <2>1, PlacesOfCommits
  <2>3. i = 2 * j
    BY <1>6, <2>2
  <2>4. recs[i].cause = <<2 * j - 1, recs[2 * j - 1].prop>>
    BY <2>2, <2>3 DEF CommitFields
  <2>5. 2 * j - 1 # 2 * k + 1
    BY <1>6, <2>3
  <2> QED BY <1>2, <2>4, <2>5
<1>7. VerdictRecord(recs, 2 * k + 2)
  BY <1>0, <1>2, <1>5, <1>6 DEF VerdictRecord
<1> QED BY <1>2, <1>3, <1>7

LEMMA ReplayOfCommits ==
  ASSUME NEW recs \in Seq(Record), NEW r \in Rules, NEW n \in Nat, Commits(recs, r, n),
         Sequenced(recs), IdsBind(recs)
  PROVE  \A k \in 0..n : Progress(recs, r, 0)[2 * k] = At("next", StateAfter(recs, k), 2 * k)
<1> DEFINE at == Progress(recs, r, 0)
           T == {k \in 0..n : at[2 * k] = At("next", StateAfter(recs, k), 2 * k)}
<1>1. /\ at[0] = At("next", BuildState(SubSeq(recs, 1, 0)), 0)
      /\ \A i \in 1..Len(recs) : at[i] = Step(recs, r, i, at[i - 1])
  <2>1. 0 \in Nat /\ Len(recs) \in Nat /\ 0 <= Len(recs) /\ 0 + 1 = 1
    OBVIOUS
  <2> HIDE DEF at
  <2> QED BY <2>1, ProgressStep DEF at
<1> HIDE DEF at
<1>2. 0 \in T
  <2>1. Commits(recs, r, 0)
    BY DEF Commits
  <2>2. BuildState(SubSeq(recs, 1, 2 * 0)) = StateAfter(recs, 0)
    BY <2>1, BuildOfCommits
  <2> QED BY <1>1, <2>2
<1>3. ASSUME NEW k \in 0..n, k < n, k \in T PROVE k + 1 \in T
  <2>1. Commits(recs, r, k + 1)
    BY <1>3 DEF Commits
  <2>2. /\ recs[2 * k + 1].kind = "Subject" /\ recs[2 * k + 2].kind = "Verdict"
        /\ VerdictRecord(recs, 2 * k + 2)
        /\ Rederives(r, StateAfter(recs, k), recs[2 * k + 1], recs[2 * k + 2])
    BY <2>1, CommitThrough
  <2>3. /\ 2 * k + 1 \in 1..Len(recs) /\ 2 * k + 2 \in 1..Len(recs) /\ (2 * k + 1) - 1 = 2 * k
        /\ (2 * k + 2) - 1 = 2 * k + 1 /\ 2 * (k + 1) = 2 * k + 2 /\ 2 * k + 2 <= Len(recs)
    BY <2>1 DEF Commits
  <2>4. at[2 * k] = At("next", StateAfter(recs, k), 2 * k)
    BY <1>3
  <2>5. at[2 * k + 1] = At("owed", StateAfter(recs, k), 2 * k)
    <3>1. at[2 * k + 1] = Step(recs, r, 2 * k + 1, at[2 * k])
      BY <1>1, <2>3
    <3>2. at[2 * k].phase = "next" /\ at[2 * k].state = StateAfter(recs, k) /\ at[2 * k].checked = 2 * k
      BY <2>4, AtFields
    <3> QED BY <2>2, <3>1, <3>2, StepSubject
  <2>6. at[2 * k + 2] = At("next", StateAfter(recs, k + 1), 2 * k + 2)
    <3> DEFINE a == at[2 * k + 1]
               i == 2 * k + 2
    <3>1. at[2 * k + 2] = Step(recs, r, i, a)
      BY <1>1, <2>3
    <3>2. a.phase = "owed" /\ a.state = StateAfter(recs, k) /\ a.checked = 2 * k
      BY <2>5, AtFields
    <3>3. Through(recs, r, i, a)
      BY <2>2, <2>3, <3>2 DEF Through
    <3> HIDE DEF a
    <3>4. at[2 * k + 2] = Behind(recs, i, a)
      BY <2>2, <3>1, <3>2, <3>3, StepVerdict
    <3>5. recs[2 * k + 2].time = 2 * k + 2
      BY <2>3 DEF Sequenced
    <3> HIDE DEF i
    <3>6. Commits(recs, r, k) /\ k \in Nat
      BY <2>1 DEF Commits
    <3>7. (CHOOSE j \in Found(recs, 2 * k + 2, recs[2 * k + 2].cause) : TRUE) = 2 * k + 1
      BY <2>2, <2>3, <3>6, RederivedIsCommit
    <3>8. at[2 * k + 2] =
            At("next", Apply(StateAfter(recs, k), recs[2 * k + 1], recs[2 * k + 2].result, 2 * k + 2),
               2 * k + 2)
      BY <3>2, <3>4, <3>5, <3>7 DEF Behind, i
    <3> QED BY <3>8, StateAfterStep
  <2> QED BY <1>3, <2>3, <2>6
<1>4. \A k \in 0..n : k \in T
  <2> HIDE DEF T
  <2> QED BY <1>2, <1>3, PlaceInduction
<1> QED BY <1>4 DEF at

-----------------------------------------------------------------------------
(* What verify_log reports *)

\* The log gets past the checks before the loop.
Replayable(recs, r, t) ==
  (t = NoCheckpoint \/ Resumable(recs, r, t)) /\ Sequenced(recs) /\ IdsBind(recs)

EndOf(recs, r, t) == Progress(recs, r, t.checkpoint.log_length)[Len(recs)]

LEMMA VerifyCases ==
  ASSUME NEW recs, NEW r, NEW t
  PROVE  /\ VerifyLog(recs, r, t).result \in {"Accept", "Reject"}
         /\ Accepted(recs, r, t) <=> Replayable(recs, r, t) /\ EndOf(recs, r, t).phase = "next"
         /\ ~Replayable(recs, r, t) => VerifyLog(recs, r, t).checked_records = 0
         /\ Replayable(recs, r, t) =>
              VerifyLog(recs, r, t).checked_records = EndOf(recs, r, t).checked
         /\ Accepted(recs, r, t) => VerifyLog(recs, r, t).state = EndOf(recs, r, t).state
<1> DEFINE v == VerifyLog(recs, r, t)
           e == EndOf(recs, r, t)
<1>1. CASE ~Replayable(recs, r, t)
  <2>1. v = LogVerdict("Reject", 0, recs, NewState)
    BY <1>1 DEF VerifyLog, Replayable
  <2> HIDE DEF v
  <2>2. v.result = "Reject" /\ v.checked_records = 0
    BY <2>1 DEF LogVerdict
  <2> QED BY <1>1, <2>2 DEF Accepted, v
<1>2. CASE Replayable(recs, r, t) /\ e.phase = "next"
  <2>1. v = LogVerdict("Accept", e.checked, recs, e.state)
    BY <1>2 DEF VerifyLog, Replayable, EndOf
  <2> HIDE DEF v, e
  <2>2. v.result = "Accept" /\ v.checked_records = e.checked /\ v.state = e.state
    BY <2>1 DEF LogVerdict
  <2> QED BY <1>2, <2>2 DEF Accepted, v, e
<1>3. CASE Replayable(recs, r, t) /\ e.phase # "next"
  <2>1. v = LogVerdict("Reject", e.checked, recs, NewState)
    BY <1>3 DEF VerifyLog, Replayable, EndOf
  <2> HIDE DEF v, e
  <2>2. v.result = "Reject" /\ v.checked_records = e.checked
    BY <2>1 DEF LogVerdict
  <2> QED BY <1>3, <2>2 DEF Accepted, v, e
<1> QED BY <1>1, <1>2, <1>3

LEMMA NoCheckpointStart == NoCheckpoint.checkpoint.log_length = 0
  BY DEF NoCheckpoint

\* Full replay accepts the logs of whole commits.
LEMMA AcceptedIffCommits ==
  ASSUME NEW recs \in Seq(Record), NEW r \in Rules
  PROVE  Accepted(recs, r, NoCheckpoint) <=> \E k \in Nat : Len(recs) = 2 * k /\ Commits(recs, r, k)
<1> DEFINE e == EndOf(recs, r, NoCheckpoint)
<1>0. e = Progress(recs, r, 0)[Len(recs)]
  BY NoCheckpointStart DEF EndOf
<1>1. ASSUME Accepted(recs, r, NoCheckpoint)
      PROVE  \E k \in Nat : Len(recs) = 2 * k /\ Commits(recs, r, k)
  <2>1. Sequenced(recs) /\ IdsBind(recs) /\ e.phase = "next"
    BY <1>1, VerifyCases DEF Replayable
  <2>2. Len(recs) \in 0..Len(recs)
    OBVIOUS
  <2>3. PICK k \in Nat : Reached(recs, r, e, Len(recs), k)
    BY <1>0, <2>1, <2>2, ReplayReached
  <2> HIDE DEF e
  <2> QED BY <2>1, <2>3 DEF Reached
<1>2. ASSUME NEW k \in Nat, Len(recs) = 2 * k, Commits(recs, r, k)
      PROVE  Accepted(recs, r, NoCheckpoint)
  <2>1. Sequenced(recs) /\ IdsBind(recs)
    BY <1>2, CommitsBind
  <2>2. k \in 0..k
    OBVIOUS
  <2>3. e = At("next", StateAfter(recs, k), 2 * k)
    BY <1>0, <1>2, <2>1, <2>2, ReplayOfCommits
  <2> HIDE DEF e
  <2>4. e.phase = "next"
    BY <2>3, AtFields
  <2> QED BY <2>1, <2>4, VerifyCases DEF Replayable, e
<1> QED BY <1>1, <1>2

\* Logs that agree on their first records have the same commits there.
LEMMA CommitsAgree ==
  ASSUME NEW recs, NEW other, NEW r, NEW k \in Nat, Commits(recs, r, k),
         2 * k <= Len(other), \A i \in 1..(2 * k) : other[i] = recs[i]
  PROVE  Commits(other, r, k) /\ StateAfter(other, k) = StateAfter(recs, k)
<1>1. ASSUME NEW j \in 0..k PROVE StateAfter(other, j) = StateAfter(recs, j)
  <2>1. \A m \in 1..j : 2 * m - 1 \in 1..(2 * k) /\ 2 * m \in 1..(2 * k)
    OBVIOUS
  <2>2. \A m \in 1..j : other[2 * m - 1] = recs[2 * m - 1] /\ other[2 * m] = recs[2 * m]
    BY <2>1
  <2>3. \A id : id \in AcceptedPairs(other, j) <=>
                  \E m \in 1..j : other[2 * m].result = "Accept" /\ id = other[2 * m - 1].id
    BY DEF AcceptedPairs
  <2>4. \A id : id \in AcceptedPairs(recs, j) <=>
                  \E m \in 1..j : recs[2 * m].result = "Accept" /\ id = recs[2 * m - 1].id
    BY DEF AcceptedPairs
  <2>5. AcceptedPairs(other, j) = AcceptedPairs(recs, j)
    <3>1. \A id : id \in AcceptedPairs(other, j) <=> id \in AcceptedPairs(recs, j)
      <4>1. ASSUME NEW id, id \in AcceptedPairs(other, j) PROVE id \in AcceptedPairs(recs, j)
        <5>1. PICK m \in 1..j : other[2 * m].result = "Accept" /\ id = other[2 * m - 1].id
          BY <2>3, <4>1
        <5> QED BY <2>2, <2>4, <5>1
      <4>2. ASSUME NEW id, id \in AcceptedPairs(recs, j) PROVE id \in AcceptedPairs(other, j)
        <5>1. PICK m \in 1..j : recs[2 * m].result = "Accept" /\ id = recs[2 * m - 1].id
          BY <2>4, <4>2
        <5> QED BY <2>2, <2>3, <5>1
      <4> QED BY <4>1, <4>2
    <3> QED BY <3>1
  <2> QED BY <2>5 DEF StateAfter
<1>2. ASSUME NEW j \in 1..k PROVE CommitAt(other, r, j)
  <2>1. other[2 * j - 1] = recs[2 * j - 1] /\ other[2 * j] = recs[2 * j]
    <3>1. 2 * j - 1 \in 1..(2 * k) /\ 2 * j \in 1..(2 * k)
      OBVIOUS
    <3> QED BY <3>1
  <2>2. StateAfter(other, j - 1) = StateAfter(recs, j - 1)
    <3>1. j - 1 \in 0..k
      OBVIOUS
    <3> QED BY <1>1, <3>1
  <2>3. CommitAt(recs, r, j)
    BY DEF Commits
  <2> QED BY <2>1, <2>2, <2>3 DEF CommitAt
<1>3. k \in 0..k
  OBVIOUS
<1> QED BY <1>1, <1>2, <1>3 DEF Commits

\* The count of a replay from genesis is the length of a log that is accepted.
LEMMA CountIsClean ==
  ASSUME NEW recs \in Seq(Record), NEW r \in Rules
  PROVE  Accepted(SubSeq(recs, 1, VerifyLog(recs, r, NoCheckpoint).checked_records), r, NoCheckpoint)
<1> DEFINE n == VerifyLog(recs, r, NoCheckpoint).checked_records
           e == EndOf(recs, r, NoCheckpoint)
<1>0. e = Progress(recs, r, 0)[Len(recs)]
  BY NoCheckpointStart DEF EndOf
<1>1. \E k \in Nat : n = 2 * k /\ Commits(recs, r, k)
  <2>1. CASE ~Replayable(recs, r, NoCheckpoint)
    <3>1. n = 2 * 0
      BY <2>1, VerifyCases
    <3>2. Commits(recs, r, 0)
      BY DEF Commits
    <3> QED BY <3>1, <3>2
  <2>2. CASE Replayable(recs, r, NoCheckpoint)
    <3>1. n = e.checked
      BY <2>2, VerifyCases
    <3>2. Len(recs) \in 0..Len(recs)
      OBVIOUS
    <3>3. PICK k \in Nat : Reached(recs, r, e, Len(recs), k)
      BY <1>0, <2>2, <3>2, ReplayReached DEF Replayable
    <3> HIDE DEF n, e
    <3> QED BY <3>1, <3>3 DEF Reached
  <2> QED BY <2>1, <2>2
<1> HIDE DEF n
<1>2. PICK k \in Nat : n = 2 * k /\ Commits(recs, r, k)
  BY <1>1
<1> DEFINE pre == SubSeq(recs, 1, n)
<1>3. pre \in Seq(Record) /\ Len(pre) = 2 * k /\ \A i \in 1..(2 * k) : pre[i] = recs[i]
  <2>1. 2 * k \in Nat /\ 2 * k <= Len(recs) /\ Len(recs) \in Nat
    BY <1>2 DEF Commits
  <2> QED BY <1>2, <2>1
<1> HIDE DEF pre
<1>4. Commits(pre, r, k)
  BY <1>2, <1>3, CommitsAgree
<1>5. Accepted(pre, r, NoCheckpoint)
  BY <1>3, <1>4, AcceptedIffCommits
<1> QED BY <1>5 DEF pre, n

-----------------------------------------------------------------------------
(* The logs that commits write *)

FollowsLogs(f, r, n) ==
  f = [k \in 0..n |-> IF k = 0 THEN {<<>>} ELSE WithCommit(f[k - 1], r)]

LEMMA FollowsLogsExists ==
  ASSUME NEW r, NEW n \in Nat
  PROVE  \E f : FollowsLogs(f, r, n)
<1> DEFINE T == {m \in 0..n : \E f : FollowsLogs(f, r, m)}
<1>1. 0 \in T
  <2> DEFINE f == [k \in 0..0 |-> {<<>>}]
  <2>1. \A k \in 0..0 : k = 0
    OBVIOUS
  <2>2. f = [k \in 0..0 |-> IF k = 0 THEN {<<>>} ELSE WithCommit(f[k - 1], r)]
    BY <2>1
  <2>3. FollowsLogs(f, r, 0)
    BY <2>2 DEF FollowsLogs
  <2> QED BY <2>3
<1>2. ASSUME NEW m \in 0..n, m < n, m \in T PROVE m + 1 \in T
  <2>1. PICK f : FollowsLogs(f, r, m)
    BY <1>2
  <2>2. \A k \in 0..m : f[k] = IF k = 0 THEN {<<>>} ELSE WithCommit(f[k - 1], r)
    BY <2>1 DEF FollowsLogs
  <2> DEFINE g == [k \in 0..(m + 1) |-> IF k <= m THEN f[k] ELSE WithCommit(f[k - 1], r)]
  <2>3. ASSUME NEW k \in 0..(m + 1) PROVE g[k] = IF k = 0 THEN {<<>>} ELSE WithCommit(g[k - 1], r)
    <3>1. CASE k = 0
      BY <2>2, <3>1
    <3>2. CASE k # 0
      <4>1. k - 1 \in 0..m /\ k - 1 \in 0..(m + 1)
        BY <3>2
      <4>2. g[k - 1] = f[k - 1]
        BY <4>1
      <4>3. g[k] = WithCommit(f[k - 1], r)
        BY <2>2, <3>2
      <4> QED BY <3>2, <4>2, <4>3
    <3> QED BY <3>1, <3>2
  <2>4. g = [k \in 0..(m + 1) |-> IF k = 0 THEN {<<>>} ELSE WithCommit(g[k - 1], r)]
    <3>1. g = [k \in 0..(m + 1) |-> g[k]]
      OBVIOUS
    <3> HIDE DEF g
    <3> QED BY <2>3, <3>1
  <2>5. FollowsLogs(g, r, m + 1)
    BY <2>4 DEF FollowsLogs
  <2> QED BY <1>2, <2>5
<1>3. \A m \in 0..n : m \in T
  <2> HIDE DEF T
  <2> QED BY <1>1, <1>2, PlaceInduction
<1> QED BY <1>3

\* A commit behind k commits is the next one.
LEMMA CommittedCommits ==
  ASSUME NEW l \in Seq(Record), NEW r \in Rules, NEW k \in Nat, Len(l) = 2 * k, Commits(l, r, k),
         NEW p \in Proposals
  PROVE  LET m == Committed(l, r, p)
         IN  /\ m \in Seq(Record) /\ Len(m) = 2 * (k + 1) /\ Commits(m, r, k + 1)
<1> DEFINE s == Subject(LastTime(l) + 1, p)
           v == VerdictOf(s, Decide(r, BuildState(l), p))
           m == Committed(l, r, p)
<1>1. l = SubSeq(l, 1, 2 * k)
  OBVIOUS
<1>2. BuildState(l) = StateAfter(l, k) /\ StateAfter(l, k) \in States
  <2>1. BuildState(SubSeq(l, 1, 2 * k)) = StateAfter(l, k)
    BY BuildOfCommits
  <2>2. k \in 0..k
    OBVIOUS
  <2> QED BY <1>1, <2>1, <2>2, CommitsFields
<1>3. LastTime(l) = 2 * k
  <2>1. BuildState(l).applied_up_to = LastTime(l)
    BY DEF BuildState
  <2>2. StateAfter(l, k).applied_up_to = 2 * k
    BY DEF StateAfter
  <2> QED BY <1>2, <2>1, <2>2
<1>4. /\ s \in SubjectRecords
      /\ s = [kind |-> "Subject", id |-> <<2 * k + 1, p>>, time |-> 2 * k + 1, prop |-> p,
              thread |-> Thread[p]]
  <2>1. 2 * k + 1 \in Nat
    OBVIOUS
  <2>2. s = Subject(2 * k + 1, p)
    BY <1>3
  <2> QED BY <2>1, <2>2, SubjectType
<1>5. v \in VerdictRecords
  <2> DEFINE x == Decide(r, BuildState(l), p)
  <2>1. x \in Outcomes
    BY <1>2 DEF Outcomes
  <2>2. s.time + 1 \in Nat /\ s.id \in SubjectIds /\ s.thread \in Threads /\ "ok" \in Envelopes
    <3> HIDE DEF s
    <3> QED BY <1>4 DEF SubjectRecords, Envelopes
  <2>3. v = Verdict(s.time + 1, s.id, s.thread, x, "ok")
    BY DEF VerdictOf
  <2> HIDE DEF s, x, v
  <2> QED BY <2>1, <2>2, <2>3, VerdictType
<1>6. m = l \o <<s, v>>
  BY DEF Committed
<1>7. s \in Record /\ v \in Record
  BY <1>4, <1>5 DEF Record
<1> HIDE DEF m, s, v
<1>8. /\ m \in Seq(Record) /\ Len(m) = 2 * (k + 1) /\ \A i \in 1..(2 * k) : m[i] = l[i]
      /\ m[2 * k + 1] = s /\ m[2 * k + 2] = v
  <2> DEFINE c == <<s, v>>
             n == 2 * k
  <2>1. c \in Seq(Record) /\ Len(c) = 2 /\ c[1] = s /\ c[2] = v
    BY <1>7
  <2>2. n \in Nat /\ Len(l) = n /\ 2 * (k + 1) = n + 2
    OBVIOUS
  <2>3. m = l \o c
    BY <1>6
  <2> HIDE DEF c, n
  <2>4. m \in Seq(Record) /\ Len(m) = n + 2
    <3>1. l \o c \in Seq(Record) /\ Len(l \o c) = Len(l) + Len(c)
      BY ONLY <2>1, l \in Seq(Record), ConcatProperties
    <3> QED BY <2>1, <2>2, <2>3, <3>1
  <2>5. \A i \in 1..n : m[i] = l[i]
    BY <2>1, <2>2, <2>3
  <2>6. m[n + 1] = c[1] /\ m[n + 2] = c[2]
    <3>1. n + 1 \in 1..(Len(l) + Len(c)) /\ n + 1 > Len(l) /\ (n + 1) - Len(l) = 1
      BY <2>1, <2>2
    <3>2. n + 2 \in 1..(Len(l) + Len(c)) /\ n + 2 > Len(l) /\ (n + 2) - Len(l) = 2
      BY <2>1, <2>2
    <3> QED BY ONLY SMTT(60), <2>1, <2>2, <2>3, <3>1, <3>2, l \in Seq(Record), ConcatProperties
  <2> QED BY <2>1, <2>2, <2>4, <2>5, <2>6 DEF n
<1>9. Commits(m, r, k) /\ StateAfter(m, k) = StateAfter(l, k)
  BY SMTT(60), <1>8, CommitsAgree
<1>10. CommitAt(m, r, k + 1)
  <2>1. 2 * (k + 1) - 1 = 2 * k + 1 /\ 2 * (k + 1) = 2 * k + 2 /\ (k + 1) - 1 = k
    OBVIOUS
  <2>2. s.prop = p
    BY <1>4
  <2>3. s = Subject(2 * k + 1, p)
    BY <1>3 DEF s
  <2>4. v = VerdictOf(s, Decide(r, StateAfter(m, k), p))
    BY <1>2, <1>9 DEF v
  <2> QED BY <1>8, <2>1, <2>2, <2>3, <2>4 DEF CommitAt
<1>11. \A j \in 1..(k + 1) : j \in 1..k \/ j = k + 1
  OBVIOUS
<1>12. Commits(m, r, k + 1)
  BY <1>8, <1>9, <1>10, <1>11 DEF Commits
<1> QED BY <1>8, <1>12 DEF m

\* And the next commit of a log is what is committed behind the ones before.
LEMMA CommitsCommitted ==
  ASSUME NEW m \in Seq(Record), NEW r \in Rules, NEW k \in Nat, Len(m) = 2 * (k + 1),
         Commits(m, r, k + 1)
  PROVE  LET l == SubSeq(m, 1, 2 * k)
         IN  /\ l \in Seq(Record) /\ Len(l) = 2 * k /\ Commits(l, r, k)
             /\ m[2 * k + 1].prop \in Proposals
             /\ m = Committed(l, r, m[2 * k + 1].prop)
<1> DEFINE l == SubSeq(m, 1, 2 * k)
           p == m[2 * k + 1].prop
<1>0. 2 * (k + 1) - 1 = 2 * k + 1 /\ 2 * (k + 1) = 2 * k + 2 /\ (k + 1) - 1 = k /\ k + 1 \in 1..(k + 1)
  OBVIOUS
<1>1. l \in Seq(Record) /\ Len(l) = 2 * k /\ \A i \in 1..(2 * k) : l[i] = m[i]
  BY <1>0
<1> HIDE DEF l
<1>2. Commits(m, r, k)
  BY DEF Commits
<1>3. Commits(l, r, k) /\ StateAfter(l, k) = StateAfter(m, k)
  BY <1>1, <1>2, CommitsAgree
<1>4. l = SubSeq(l, 1, 2 * k)
  BY <1>1
<1>5. BuildState(l) = StateAfter(l, k)
  BY <1>1, <1>3, <1>4, BuildOfCommits
<1>6. LastTime(l) = 2 * k
  <2>1. BuildState(l).applied_up_to = LastTime(l)
    BY DEF BuildState
  <2>2. StateAfter(l, k).applied_up_to = 2 * k
    BY DEF StateAfter
  <2> QED BY <1>5, <2>1, <2>2
<1>7. CommitAt(m, r, k + 1)
  BY <1>0 DEF Commits
<1>8. /\ p \in Proposals /\ m[2 * k + 1] = Subject(2 * k + 1, p)
      /\ m[2 * k + 2] = VerdictOf(m[2 * k + 1], Decide(r, StateAfter(m, k), p))
  BY <1>0, <1>7 DEF CommitAt
<1> DEFINE s == Subject(LastTime(l) + 1, p)
           v == VerdictOf(s, Decide(r, BuildState(l), p))
<1>9. m[2 * k + 1] = s /\ m[2 * k + 2] = v
  BY <1>3, <1>5, <1>6, <1>8
<1>10. m = l \o <<s, v>>
  <2> HIDE DEF s, v
  <2>1. Len(l \o <<s, v>>) = 2 * k + 2 /\ DOMAIN (l \o <<s, v>>) = 1..(2 * k + 2) /\ DOMAIN m = 1..(2 * k + 2)
    BY <1>0, <1>1
  <2>2. \A i \in 1..(2 * k + 2) : m[i] = (l \o <<s, v>>)[i]
    BY <1>1, <1>9
  <2>3. l \o <<s, v>> \in Seq(Record)
    BY <1>0, <1>1, <1>9
  <2>4. Len(m) = Len(l \o <<s, v>>)
    BY <1>0, <2>1
  <2> DEFINE n == l \o <<s, v>>
  <2> HIDE DEF n
  <2>5. n \in Seq(Record) /\ Len(m) = Len(n) /\ \A i \in 1..Len(m) : m[i] = n[i]
    BY <1>0, <2>2, <2>3, <2>4 DEF n
  <2>6. m = n
    BY <2>5, SeqEqual
  <2> QED BY <2>6 DEF n
<1> QED BY <1>1, <1>3, <1>8, <1>10 DEF Committed, l

LEMMA CommitLogsAre ==
  ASSUME NEW r \in Rules, NEW n \in Nat
  PROVE  \A l : l \in CommitLogs(r, n) <=> l \in Seq(Record) /\ Len(l) = 2 * n /\ Commits(l, r, n)
<1> DEFINE Fits(f) == f = [k \in 0..n |-> IF k = 0 THEN {<<>>} ELSE WithCommit(f[k - 1], r)]
           logs == CHOOSE f : Fits(f)
<1>1. \E f : Fits(f)
  BY FollowsLogsExists DEF FollowsLogs
<1>2. Fits(logs)
  <2> HIDE DEF Fits
  <2> QED BY <1>1
<1>3. CommitLogs(r, n) = logs[n]
  BY DEF CommitLogs
<1> HIDE DEF logs
<1>4. /\ logs[0] = {<<>>}
      /\ \A k \in 0..n : k # 0 => logs[k] = WithCommit(logs[k - 1], r)
  <2>1. 0 \in 0..n
    OBVIOUS
  <2> QED BY <1>2, <2>1
<1> HIDE DEF Fits
<1> DEFINE Whole(l, k) == l \in Seq(Record) /\ Len(l) = 2 * k /\ Commits(l, r, k)
           T == {k \in 0..n : \A l : l \in logs[k] <=> Whole(l, k)}
<1>5. 0 \in T
  <2>1. ASSUME NEW l, Whole(l, 0) PROVE l = <<>>
    <3>1. l \in Seq(Record) /\ Len(l) = 0
      BY <2>1
    <3> QED BY ONLY <3>1
  <2>2. Whole(<<>>, 0)
    <3>1. <<>> \in Seq(Record) /\ Len(<<>>) = 0
      OBVIOUS
    <3>2. Commits(<<>>, r, 0)
      BY <3>1 DEF Commits
    <3> QED BY <3>1, <3>2
  <2> HIDE DEF Whole
  <2> QED BY <1>4, <2>1, <2>2
<1>6. ASSUME NEW k \in 0..n, k < n, k \in T PROVE k + 1 \in T
  <2>1. k + 1 \in 0..n /\ k + 1 # 0 /\ (k + 1) - 1 = k /\ k \in Nat
    BY <1>6
  <2>2. logs[k + 1] = WithCommit(logs[k], r)
    BY <1>4, <2>1
  <2>3. \A l : l \in logs[k] <=> Whole(l, k)
    BY <1>6
  <2>4. ASSUME NEW m, m \in logs[k + 1] PROVE Whole(m, k + 1)
    <3>1. PICK l \in logs[k], p \in Proposals : m = Committed(l, r, p)
      BY <2>2, <2>4 DEF WithCommit
    <3>2. Whole(l, k)
      BY <2>3, <3>1
    <3> QED BY <2>1, <3>1, <3>2, CommittedCommits
  <2>5. ASSUME NEW m, Whole(m, k + 1) PROVE m \in logs[k + 1]
    <3> DEFINE l == SubSeq(m, 1, 2 * k)
    <3>1. Whole(l, k) /\ m[2 * k + 1].prop \in Proposals /\ m = Committed(l, r, m[2 * k + 1].prop)
      <4> HIDE DEF l
      <4> QED BY <2>1, <2>5, CommitsCommitted DEF l
    <3>2. l \in logs[k]
      BY <2>3, <3>1
    <3> HIDE DEF l
    <3> QED BY <2>2, <3>1, <3>2 DEF WithCommit
  <2> HIDE DEF Whole
  <2> QED BY <2>1, <2>4, <2>5
<1>7. \A k \in 0..n : k \in T
  <2> HIDE DEF T
  <2> QED BY <1>5, <1>6, PlaceInduction
<1>8. n \in 0..n
  OBVIOUS
<1> QED BY <1>3, <1>7, <1>8

-----------------------------------------------------------------------------
(* Replay from any place *)

\* Place a of a replay, behind i records of which the first start were skipped.
Counted(a, start, i) ==
  /\ a.phase \in {"next", "owed", "rejected"}
  /\ a.checked \in Nat /\ a.checked <= i - start
  /\ a.phase = "next" => a.checked = i - start
  /\ a.phase = "owed" => i > start /\ a.checked = (i - start) - 1

LEMMA ProgressCounts ==
  ASSUME NEW recs \in Seq(Record), NEW r, NEW start \in Nat, start <= Len(recs)
  PROVE  \A i \in start..Len(recs) : Counted(Progress(recs, r, start)[i], start, i)
<1> DEFINE at == Progress(recs, r, start)
           T == {i \in start..Len(recs) : Counted(at[i], start, i)}
<1>1. /\ at[start] = At("next", BuildState(SubSeq(recs, 1, start)), 0)
      /\ \A i \in (start + 1)..Len(recs) : at[i] = Step(recs, r, i, at[i - 1])
  <2>1. Len(recs) \in Nat
    OBVIOUS
  <2> HIDE DEF at
  <2> QED BY <2>1, ProgressStep DEF at
<1> HIDE DEF at
<1>2. start \in T
  <2>1. at[start].phase = "next" /\ at[start].checked = 0
    BY <1>1, AtFields
  <2> QED BY <2>1 DEF Counted
<1>3. ASSUME NEW n \in start..Len(recs), n < Len(recs), n \in T PROVE n + 1 \in T
  <2> DEFINE a == at[n]
             i == n + 1
             b == Step(recs, r, i, a)
  <2>1. i \in (start + 1)..Len(recs) /\ i - 1 = n /\ i \in 1..Len(recs)
    BY <1>3
  <2>2. at[i] = b
    BY <1>1, <2>1
  <2>3. Counted(a, start, n)
    BY <1>3
  <2> HIDE DEF a
  <2>4. recs[i].kind = "Subject" \/ recs[i].kind = "Verdict"
    BY <2>1, KindCases
  <2> HIDE DEF i
  <2>5. Counted(b, start, i)
    <3>1. CASE a.phase = "rejected"
      <4>1. b = a
        BY <3>1, StepRejected
      <4> HIDE DEF b
      <4> QED BY <2>1, <2>3, <3>1, <4>1 DEF Counted
    <3>2. CASE a.phase # "rejected" /\ recs[i].kind = "Subject"
      <4>1. b = At(IF a.phase = "next" THEN "owed" ELSE "rejected", a.state, a.checked)
        BY <3>2, StepSubject
      <4> HIDE DEF b
      <4>2. b.phase = (IF a.phase = "next" THEN "owed" ELSE "rejected") /\ b.checked = a.checked
        BY <4>1, AtFields
      <4> QED BY <2>1, <2>3, <3>2, <4>2 DEF Counted
    <3>3. CASE a.phase # "rejected" /\ recs[i].kind = "Verdict"
      <4>1. b = Behind(recs, i, a) \/ b = At("rejected", a.state, a.checked)
        BY <3>3, StepVerdict
      <4> HIDE DEF b
      <4>2. CASE b = Behind(recs, i, a)
        <5>1. b.phase = "next" /\ b.checked = a.checked + (IF a.phase = "owed" THEN 2 ELSE 1)
          BY <4>2, AtFields DEF Behind
        <5> QED BY <2>1, <2>3, <3>3, <5>1 DEF Counted
      <4>3. CASE b = At("rejected", a.state, a.checked)
        <5>1. b.phase = "rejected" /\ b.checked = a.checked
          BY <4>3, AtFields
        <5> QED BY <2>1, <2>3, <5>1 DEF Counted
      <4> QED BY <4>1, <4>2, <4>3
    <3> QED BY <2>4, <3>1, <3>2, <3>3
  <2> HIDE DEF b
  <2> QED BY <2>1, <2>2, <2>5 DEF i
<1>4. \A n \in start..Len(recs) : n \in T
  <2>1. Len(recs) \in Nat
    OBVIOUS
  <2> HIDE DEF T
  <2> QED BY <1>2, <1>3, <2>1, PlaceInduction
<1> QED BY <1>4 DEF at

\* A replay that met a violation stays there, so one that gets through met none.
LEMMA NeverRejected ==
  ASSUME NEW recs \in Seq(Record), NEW r, NEW start \in Nat, start <= Len(recs),
         Progress(recs, r, start)[Len(recs)].phase = "next"
  PROVE  \A i \in start..Len(recs) : Progress(recs, r, start)[i].phase # "rejected"
<1> DEFINE at == Progress(recs, r, start)
<1> SUFFICES ASSUME NEW i \in start..Len(recs), at[i].phase = "rejected" PROVE FALSE
  OBVIOUS
<1> DEFINE T == {j \in i..Len(recs) : at[j].phase = "rejected"}
<1>1. \A j \in (start + 1)..Len(recs) : at[j] = Step(recs, r, j, at[j - 1])
  <2>1. Len(recs) \in Nat
    OBVIOUS
  <2> HIDE DEF at
  <2> QED BY <2>1, ProgressStep DEF at
<1>0. at[Len(recs)].phase = "next"
  OBVIOUS
<1> HIDE DEF at
<1>2. i \in T
  OBVIOUS
<1>3. ASSUME NEW n \in i..Len(recs), n < Len(recs), n \in T PROVE n + 1 \in T
  <2>1. n + 1 \in (start + 1)..Len(recs) /\ (n + 1) - 1 = n /\ n + 1 \in i..Len(recs)
    BY <1>3
  <2>2. at[n + 1] = Step(recs, r, n + 1, at[n])
    BY <1>1, <2>1
  <2>3. at[n].phase = "rejected"
    BY <1>3
  <2>4. at[n + 1] = at[n]
    BY <2>2, <2>3, StepRejected
  <2> QED BY <2>1, <2>3, <2>4
<1>4. \A n \in i..Len(recs) : n \in T
  <2>1. Len(recs) \in Nat /\ i \in Nat
    OBVIOUS
  <2> HIDE DEF T
  <2> QED BY <1>2, <1>3, <2>1, PlaceInduction
<1>5. Len(recs) \in i..Len(recs)
  OBVIOUS
<1> QED BY <1>0, <1>4, <1>5

\* A replay that gets through re-derived every subject that it did not skip.
LEMMA RederivesBehind ==
  ASSUME NEW recs \in Seq(Record), NEW r, NEW start \in Nat, start <= Len(recs),
         Progress(recs, r, start)[Len(recs)].phase = "next",
         NEW i \in (start + 1)..Len(recs), recs[i].kind = "Subject"
  PROVE  /\ i < Len(recs) /\ recs[i + 1].kind = "Verdict"
         /\ recs[i + 1].result = Decide(r, Progress(recs, r, start)[i - 1].state, recs[i].prop)
<1> DEFINE at == Progress(recs, r, start)
<1>1. \A j \in (start + 1)..Len(recs) : at[j] = Step(recs, r, j, at[j - 1])
  <2>1. Len(recs) \in Nat
    OBVIOUS
  <2> HIDE DEF at
  <2> QED BY <2>1, ProgressStep DEF at
<1>2. \A j \in start..Len(recs) : at[j].phase # "rejected"
  BY NeverRejected
<1>3. at[Len(recs)].phase = "next"
  OBVIOUS
<1> HIDE DEF at
<1>4. i - 1 \in start..Len(recs) /\ i \in start..Len(recs)
  OBVIOUS
<1>5. at[i] = At(IF at[i - 1].phase = "next" THEN "owed" ELSE "rejected", at[i - 1].state, at[i - 1].checked)
  <2>1. at[i] = Step(recs, r, i, at[i - 1])
    BY <1>1
  <2> QED BY <1>2, <1>4, <2>1, StepSubject
<1>6. at[i].phase = "owed" /\ at[i].state = at[i - 1].state
  BY <1>2, <1>4, <1>5, AtFields
<1>7. i < Len(recs)
  BY <1>3, <1>6
<1>8. i + 1 \in (start + 1)..Len(recs) /\ (i + 1) - 1 = i /\ i + 1 \in 1..Len(recs) /\ i + 1 \in start..Len(recs)
  BY <1>7
<1>9. at[i + 1] = Step(recs, r, i + 1, at[i])
  BY <1>1, <1>8
<1>10. recs[i + 1].kind # "Subject"
  <2> SUFFICES ASSUME recs[i + 1].kind = "Subject" PROVE FALSE
    OBVIOUS
  <2>1. at[i + 1] = At("rejected", at[i].state, at[i].checked)
    BY <1>6, <1>9, StepSubject
  <2> QED BY <1>2, <1>8, <2>1, AtFields
<1>11. recs[i + 1].kind = "Verdict"
  BY <1>8, <1>10, KindCases
<1>12. Through(recs, r, i + 1, at[i])
  <2> SUFFICES ASSUME ~Through(recs, r, i + 1, at[i]) PROVE FALSE
    OBVIOUS
  <2>1. at[i + 1] = At("rejected", at[i].state, at[i].checked)
    BY <1>6, <1>9, <1>11, StepVerdict
  <2> QED BY <1>2, <1>8, <2>1, AtFields
<1>13. recs[i + 1].result = Decide(r, at[i].state, recs[i].prop)
  BY <1>6, <1>8, <1>12 DEF Through, Rederives
<1> QED BY <1>6, <1>7, <1>11, <1>13 DEF at

\* Two replays that stand in the same phase and state go on alike.
Alike(a, b) == a.phase = b.phase /\ a.state = b.state /\ a.phase \in {"next", "owed", "rejected"}

LEMMA StepAlike ==
  ASSUME NEW recs \in Seq(Record), NEW r, NEW i \in 1..Len(recs), NEW a, NEW b, Alike(a, b)
  PROVE  Alike(Step(recs, r, i, a), Step(recs, r, i, b))
<1> DEFINE x == Step(recs, r, i, a)
           y == Step(recs, r, i, b)
<1>0. recs[i].kind = "Subject" \/ recs[i].kind = "Verdict"
  BY KindCases
<1>1. CASE a.phase = "rejected"
  <2>1. b.phase = "rejected"
    BY <1>1 DEF Alike
  <2>2. Step(recs, r, i, a) = a
    BY <1>1, StepRejected
  <2>3. Step(recs, r, i, b) = b
    BY <2>1, StepRejected
  <2> QED BY ONLY <2>2, <2>3, Alike(a, b)
<1>2. CASE a.phase # "rejected" /\ recs[i].kind = "Subject"
  <2>1. /\ x = At(IF a.phase = "next" THEN "owed" ELSE "rejected", a.state, a.checked)
        /\ y = At(IF a.phase = "next" THEN "owed" ELSE "rejected", a.state, b.checked)
    BY <1>2, StepSubject DEF Alike
  <2> HIDE DEF x, y
  <2>2. /\ x.phase = (IF a.phase = "next" THEN "owed" ELSE "rejected") /\ x.state = a.state
        /\ y.phase = (IF a.phase = "next" THEN "owed" ELSE "rejected") /\ y.state = a.state
    BY <2>1, AtFields
  <2>3. Alike(x, y)
    BY <2>2 DEF Alike
  <2> QED BY <2>3 DEF x, y
<1>3. CASE a.phase # "rejected" /\ recs[i].kind = "Verdict"
  <2>1. Through(recs, r, i, a) <=> Through(recs, r, i, b)
    BY DEF Through, Alike
  <2>2. CASE Through(recs, r, i, a)
    <3>1. x = Behind(recs, i, a) /\ y = Behind(recs, i, b)
      BY <1>3, <2>1, <2>2, StepVerdict DEF Alike
    <3> HIDE DEF x, y
    <3> DEFINE st == Apply(a.state, recs[CHOOSE j \in Found(recs, i, recs[i].cause) : TRUE],
                           recs[i].result, recs[i].time)
    <3>2. /\ x = At("next", st, a.checked + IF a.phase = "owed" THEN 2 ELSE 1)
          /\ y = At("next", st, b.checked + IF b.phase = "owed" THEN 2 ELSE 1)
      BY <3>1 DEF Behind, Alike
    <3> HIDE DEF st
    <3>3. x.phase = "next" /\ x.state = st /\ y.phase = "next" /\ y.state = st
      BY <3>2, AtFields
    <3>4. Alike(x, y)
      BY <3>3 DEF Alike
    <3> QED BY <3>4 DEF x, y
  <2>3. CASE ~Through(recs, r, i, a)
    <3>1. x = At("rejected", a.state, a.checked) /\ y = At("rejected", a.state, b.checked)
      BY <1>3, <2>1, <2>3, StepVerdict DEF Alike
    <3> HIDE DEF x, y
    <3>2. x.phase = "rejected" /\ x.state = a.state /\ y.phase = "rejected" /\ y.state = a.state
      BY <3>1, AtFields
    <3>3. Alike(x, y)
      BY <3>2 DEF Alike
    <3> QED BY <3>3 DEF x, y
  <2> QED BY <2>2, <2>3
<1> QED BY <1>0, <1>1, <1>2, <1>3

\* Two replays of a log that stand alike at some place end alike.
LEMMA ReplaysAlike ==
  ASSUME NEW recs \in Seq(Record), NEW r, NEW n \in Nat, n <= Len(recs),
         Alike(Progress(recs, r, 0)[n], Progress(recs, r, n)[n])
  PROVE  Alike(Progress(recs, r, 0)[Len(recs)], Progress(recs, r, n)[Len(recs)])
<1> DEFINE a == Progress(recs, r, 0)
           b == Progress(recs, r, n)
           T == {i \in n..Len(recs) : Alike(a[i], b[i])}
<1>0. Len(recs) \in Nat /\ 0 \in Nat /\ 0 <= Len(recs)
  OBVIOUS
<1>1. \A i \in 1..Len(recs) : a[i] = Step(recs, r, i, a[i - 1])
  <2>1. 0 + 1 = 1
    OBVIOUS
  <2> HIDE DEF a
  <2> QED BY <1>0, <2>1, ProgressStep DEF a
<1>2. \A i \in (n + 1)..Len(recs) : b[i] = Step(recs, r, i, b[i - 1])
  <2> HIDE DEF b
  <2> QED BY <1>0, ProgressStep DEF b
<1>3. Alike(a[n], b[n])
  OBVIOUS
<1> HIDE DEF a, b
<1>4. n \in T
  BY <1>0, <1>3
<1>5. ASSUME NEW i \in n..Len(recs), i < Len(recs), i \in T PROVE i + 1 \in T
  <2>1. /\ i + 1 \in 1..Len(recs) /\ i + 1 \in (n + 1)..Len(recs) /\ (i + 1) - 1 = i
        /\ i + 1 \in n..Len(recs)
    BY <1>5
  <2>2. a[i + 1] = Step(recs, r, i + 1, a[i]) /\ b[i + 1] = Step(recs, r, i + 1, b[i])
    BY <1>1, <1>2, <2>1
  <2>3. Alike(a[i], b[i])
    BY <1>5
  <2>4. Alike(Step(recs, r, i + 1, a[i]), Step(recs, r, i + 1, b[i]))
    BY <2>1, <2>3, StepAlike
  <2> QED BY <2>1, <2>2, <2>4
<1>6. \A i \in n..Len(recs) : i \in T
  <2> HIDE DEF T
  <2> QED BY <1>0, <1>4, <1>5, PlaceInduction
<1>7. Len(recs) \in n..Len(recs)
  BY <1>0
<1>8. Alike(a[Len(recs)], b[Len(recs)])
  BY <1>6, <1>7
<1> QED BY <1>8 DEF a, b

\* The checkpoint of a prefix that was trusted.
LEMMA TrustFields ==
  ASSUME NEW cov, NEW r
  PROVE  LET t == Trust(cov, r)
         IN  /\ t.rules_hash = r /\ t.covered = cov
             /\ t.checkpoint = CreateCheckpoint(cov, BuildState(cov))
             /\ t.checkpoint.log_length = Len(cov) /\ t.checkpoint.log_hash = Ids(cov)
             /\ t # NoCheckpoint
<1>1. /\ Trust(cov, r).rules_hash = r /\ Trust(cov, r).covered = cov
      /\ Trust(cov, r).checkpoint = CreateCheckpoint(cov, BuildState(cov))
  BY DEF Trust
<1>2. /\ CreateCheckpoint(cov, BuildState(cov)).log_length = Len(cov)
      /\ CreateCheckpoint(cov, BuildState(cov)).log_hash = Ids(cov)
  BY DEF CreateCheckpoint, LogHash
<1>3. "covered" \in DOMAIN Trust(cov, r) /\ "covered" \notin DOMAIN NoCheckpoint
  BY DEF Trust, NoCheckpoint
<1>4. Trust(cov, r) # NoCheckpoint
  BY ONLY <1>3
<1> QED BY <1>1, <1>2, <1>4

\* A prefix is what the log's first places hold.
LEMMA PrefixIs ==
  ASSUME NEW S, NEW cov \in Seq(S), NEW recs \in Seq(S)
  PROVE  IsPrefix(cov, recs) <=> Len(cov) <= Len(recs) /\ SubSeq(recs, 1, Len(cov)) = cov
<1>1. SubSeq(cov, 1, Len(cov)) = cov
  OBVIOUS
<1> QED BY <1>1 DEF IsPrefix

\* The hash of a checkpoint binds the prefix it was taken of, record by record.
LEMMA PrefixBound ==
  ASSUME NEW recs \in Seq(Record), IdsBind(recs), NEW cov \in Seq(Record), IdsBind(cov),
         NEW r, NEW q, Resumable(recs, r, Trust(cov, q))
  PROVE  q = r /\ IsPrefix(cov, recs)
<1> DEFINE t == Trust(cov, q)
           n == Len(cov)
           prefix == SubSeq(recs, 1, n)
<1>1. t.rules_hash = q /\ t.checkpoint.log_length = n /\ t.checkpoint.log_hash = Ids(cov)
  BY TrustFields
<1>2. /\ t.rules_hash = r /\ n <= Len(recs)
      /\ t.checkpoint = CreateCheckpoint(prefix, BuildState(prefix))
  BY <1>1 DEF Resumable, SameRules
<1>3. Ids(cov) = Ids(prefix)
  <2>1. CreateCheckpoint(prefix, BuildState(prefix)).log_hash = Ids(prefix)
    BY DEF CreateCheckpoint, LogHash
  <2> QED BY <1>1, <1>2, <2>1
<1>4. n \in Nat /\ Len(recs) \in Nat
  OBVIOUS
<1>5. /\ prefix \in Seq(Record) /\ Len(prefix) = n /\ \A i \in 1..n : prefix[i] = recs[i]
  BY <1>2, <1>4
<1>6. ASSUME NEW i \in 1..n PROVE prefix[i] = cov[i]
  <2>1. i \in DOMAIN cov /\ i \in DOMAIN prefix /\ i \in 1..Len(recs)
    BY <1>2, <1>4, <1>5
  <2>2. Ids(cov)[i] = cov[i].id /\ Ids(prefix)[i] = prefix[i].id
    BY <2>1 DEF Ids
  <2>3. cov[i].id = recs[i].id
    BY <1>3, <1>5, <2>2
  <2>4. cov[i].id = ComputeId(cov[i]) /\ recs[i].id = ComputeId(recs[i])
    BY <2>1 DEF IdsBind
  <2>5. cov[i] \in Record /\ recs[i] \in Record
    BY <2>1
  <2> QED BY <1>5, <2>3, <2>4, <2>5, IdsDetermine
<1>7. prefix = cov
  <2> HIDE DEF prefix
  <2> QED BY <1>5, <1>6, SeqEqual
<1> QED BY <1>1, <1>2, <1>7, PrefixIs

\* Behind a prefix of whole commits both replays stand alike, and end alike.
LEMMA ResumedAlike ==
  ASSUME NEW recs \in Seq(Record), Sequenced(recs), IdsBind(recs), NEW cov \in Seq(Record),
         NEW r \in Rules, NEW k \in Nat, Len(cov) = 2 * k, Commits(cov, r, k), IsPrefix(cov, recs)
  PROVE  Alike(Progress(recs, r, 0)[Len(recs)], Progress(recs, r, 2 * k)[Len(recs)])
<1>0. Len(cov) <= Len(recs) /\ SubSeq(recs, 1, Len(cov)) = cov
  BY ONLY recs \in Seq(Record), cov \in Seq(Record), IsPrefix(cov, recs), PrefixIs
<1>1. 2 * k <= Len(recs) /\ SubSeq(recs, 1, 2 * k) = cov /\ Len(recs) \in Nat /\ 2 * k \in Nat
  BY <1>0
<1>2. \A i \in 1..(2 * k) : recs[i] = cov[i]
  BY <1>1
<1>3. Commits(recs, r, k)
  BY <1>1, <1>2, CommitsAgree
<1>4. Progress(recs, r, 0)[2 * k] = At("next", StateAfter(recs, k), 2 * k)
  <2>1. k \in 0..k
    OBVIOUS
  <2> QED BY <1>3, <2>1, ReplayOfCommits
<1>5. BuildState(SubSeq(recs, 1, 2 * k)) = StateAfter(recs, k)
  BY <1>3, BuildOfCommits
<1>6. Progress(recs, r, 2 * k)[2 * k] = At("next", StateAfter(recs, k), 0)
  BY <1>1, <1>5, ProgressStep
<1>7. Alike(Progress(recs, r, 0)[2 * k], Progress(recs, r, 2 * k)[2 * k])
  BY <1>4, <1>6, AtFields DEF Alike
<1> QED BY <1>1, <1>7, ReplaysAlike

\* What a replay from a trusted prefix of whole commits accepts, and ends in.
LEMMA TrustAgrees ==
  ASSUME NEW recs \in Seq(Record), NEW cov \in Seq(Record), NEW q \in Rules, NEW r \in Rules,
         Accepted(cov, q, NoCheckpoint)
  PROVE  /\ Accepted(recs, r, Trust(cov, q)) <=>
              /\ Accepted(recs, r, NoCheckpoint) /\ q = r /\ IsPrefix(cov, recs)
         /\ Accepted(recs, r, Trust(cov, q)) =>
              VerifyLog(recs, r, Trust(cov, q)).state = VerifyLog(recs, r, NoCheckpoint).state
<1> DEFINE t == Trust(cov, q)
<1>1. PICK k \in Nat : Len(cov) = 2 * k /\ Commits(cov, q, k)
  BY AcceptedIffCommits
<1>2. IdsBind(cov)
  BY <1>1, CommitsBind
<1>3. t # NoCheckpoint /\ t.checkpoint.log_length = 2 * k /\ t.rules_hash = q
      /\ t.checkpoint = CreateCheckpoint(cov, BuildState(cov))
  BY <1>1, TrustFields
<1> HIDE DEF t
<1>4. EndOf(recs, r, t) = Progress(recs, r, 2 * k)[Len(recs)]
  BY <1>3 DEF EndOf
<1>5. EndOf(recs, r, NoCheckpoint) = Progress(recs, r, 0)[Len(recs)]
  BY NoCheckpointStart DEF EndOf
<1>6. ASSUME Accepted(recs, r, t)
      PROVE  /\ Accepted(recs, r, NoCheckpoint) /\ q = r /\ IsPrefix(cov, recs)
             /\ VerifyLog(recs, r, t).state = VerifyLog(recs, r, NoCheckpoint).state
  <2>1. Replayable(recs, r, t) /\ EndOf(recs, r, t).phase = "next"
    BY <1>6, VerifyCases
  <2>2. Resumable(recs, r, t) /\ Sequenced(recs) /\ IdsBind(recs)
    BY <1>3, <2>1 DEF Replayable
  <2>3. q = r /\ IsPrefix(cov, recs)
    BY <1>2, <2>2, PrefixBound DEF t
  <2>4. Alike(Progress(recs, r, 0)[Len(recs)], Progress(recs, r, 2 * k)[Len(recs)])
    BY <1>1, <2>2, <2>3, ResumedAlike
  <2>5. /\ EndOf(recs, r, NoCheckpoint).phase = "next"
        /\ EndOf(recs, r, NoCheckpoint).state = EndOf(recs, r, t).state
    BY <1>4, <1>5, <2>1, <2>4 DEF Alike
  <2>6. Replayable(recs, r, NoCheckpoint)
    BY <2>2 DEF Replayable
  <2>7. Accepted(recs, r, NoCheckpoint)
    BY <2>5, <2>6, VerifyCases
  <2>8. VerifyLog(recs, r, t).state = EndOf(recs, r, t).state
    BY <1>6, VerifyCases
  <2>9. VerifyLog(recs, r, NoCheckpoint).state = EndOf(recs, r, NoCheckpoint).state
    BY <2>7, VerifyCases
  <2> QED BY <2>3, <2>5, <2>7, <2>8, <2>9
<1>7. ASSUME Accepted(recs, r, NoCheckpoint), q = r, IsPrefix(cov, recs)
      PROVE  Accepted(recs, r, t)
  <2>1. Replayable(recs, r, NoCheckpoint) /\ EndOf(recs, r, NoCheckpoint).phase = "next"
    BY <1>7, VerifyCases
  <2>2. Sequenced(recs) /\ IdsBind(recs)
    BY <2>1 DEF Replayable
  <2>3. Commits(cov, r, k)
    BY <1>1, <1>7
  <2>4. Alike(Progress(recs, r, 0)[Len(recs)], Progress(recs, r, 2 * k)[Len(recs)])
    BY <1>1, <1>7, <2>2, <2>3, ResumedAlike
  <2>5. EndOf(recs, r, t).phase = "next"
    BY <1>4, <1>5, <2>1, <2>4 DEF Alike
  <2>6. Len(cov) <= Len(recs) /\ SubSeq(recs, 1, Len(cov)) = cov
    BY ONLY recs \in Seq(Record), cov \in Seq(Record), IsPrefix(cov, recs), <1>7, PrefixIs
  <2>7. PICK m \in Nat : Len(recs) = 2 * m /\ Commits(recs, r, m)
    BY <1>7, AcceptedIffCommits
  <2>8. ASSUME 2 * k < Len(recs) PROVE recs[2 * k + 1].kind # "Verdict"
    <3>1. k + 1 \in 1..m /\ 2 * (k + 1) - 1 = 2 * k + 1
      BY <2>7, <2>8
    <3>2. CommitFields(recs, r, k + 1)
      BY <2>7, <3>1, CommitsFields
    <3>3. recs[2 * k + 1].kind = "Subject"
      BY <3>1, <3>2 DEF CommitFields
    <3> QED BY <3>3
  <2>9. Resumable(recs, r, t)
    <3>1. 2 * k <= Len(recs) /\ SubSeq(recs, 1, 2 * k) = cov
      BY <1>1, <2>6
    <3> QED BY <1>3, <1>7, <2>8, <3>1 DEF Resumable, SameRules
  <2>10. Replayable(recs, r, t)
    BY <2>2, <2>9 DEF Replayable
  <2> QED BY <2>5, <2>10, VerifyCases
<1> QED BY <1>6, <1>7 DEF t

-----------------------------------------------------------------------------
(* Histories: what the stored log and the checkpoint can be *)

RInv ==
  /\ records \in Seq(Record) /\ Len(records) <= MaxRecords /\ edits \in 0..MaxEdits
  /\ \/ trusted = NoCheckpoint
     \/ \E cov \in Seq(Record), r \in Rules : trusted = Trust(cov, r)

LEMMA LastTimeType ==
  ASSUME NEW recs \in Seq(Record)
  PROVE  LastTime(recs) \in Nat
<1>1. CASE recs = <<>>
  BY <1>1 DEF LastTime
<1>2. CASE recs # <<>>
  <2>1. Len(recs) \in 1..Len(recs)
    BY <1>2
  <2>2. recs[Len(recs)] \in Record
    BY <2>1
  <2>3. recs[Len(recs)].time \in Nat
    BY <2>2 DEF Record, SubjectRecords, VerdictRecords
  <2> QED BY <1>2, <2>3 DEF LastTime
<1> QED BY <1>1, <1>2

LEMMA BuildStateType ==
  ASSUME NEW recs \in Seq(Record)
  PROVE  BuildState(recs) \in States
<1> DEFINE verdicts(id) == {i \in DOMAIN recs : recs[i].kind = "Verdict" /\ recs[i].cause = id}
           rulings(id) == {recs[i].result : i \in {j \in verdicts(id) : \A k \in verdicts(id) : k <= j}}
           subjects == {j \in DOMAIN recs : recs[j].kind = "Subject" /\ "Accept" \in rulings(recs[j].id)}
<1>1. BuildState(recs) = [accepted |-> {recs[i].id : i \in subjects}, applied_up_to |-> LastTime(recs)]
  BY DEF BuildState
<1>2. \A i \in subjects : i \in DOMAIN recs /\ recs[i].kind = "Subject"
  OBVIOUS
<1> HIDE DEF subjects
<1>3. \A i \in subjects : recs[i].id \in SubjectIds
  <2> TAKE i \in subjects
  <2>1. recs[i] \in Record /\ recs[i].kind = "Subject"
    BY <1>2
  <2> QED BY <2>1 DEF Record, SubjectRecords, VerdictRecords
<1>4. {recs[i].id : i \in subjects} \in SUBSET SubjectIds
  BY <1>3
<1> QED BY <1>1, <1>4, LastTimeType DEF States

LEMMA AlteredType ==
  ASSUME NEW rec \in Record, NEW x \in Altered(rec)
  PROVE  x \in Record /\ Stored(x) \in Record
<1>0. \A p \in Proposals : Thread[p] \in Threads
  BY DEF Threads
<1>1. CASE rec \in SubjectRecords
  <2>1. /\ rec = [kind |-> "Subject", id |-> rec.id, time |-> rec.time, prop |-> rec.prop,
                  thread |-> rec.thread]
        /\ rec.id \in SubjectIds /\ rec.time \in Nat /\ rec.prop \in Proposals
        /\ rec.thread = Thread[rec.prop] /\ rec.kind = "Subject"
    BY <1>1 DEF SubjectRecords
  <2>2. PICK t \in Nat, p \in Proposals :
          x = [kind |-> "Subject", id |-> rec.id, time |-> t, prop |-> p, thread |-> Thread[p]]
    <3> DEFINE like(t, p) == [kind |-> "Subject", id |-> rec.id, time |-> t, prop |-> p,
                              thread |-> Thread[p]]
    <3>1. \A p \in Proposals : [Subject(rec.time, p) EXCEPT !.id = rec.id] = like(rec.time, p)
      BY <2>1, SubjectType
    <3>2. [rec EXCEPT !.time = @ + 1] = like(rec.time + 1, rec.prop)
      BY <2>1
    <3>3. \/ \E p \in Proposals : x = [Subject(rec.time, p) EXCEPT !.id = rec.id]
          \/ x = [rec EXCEPT !.time = @ + 1]
      BY <2>1 DEF Altered
    <3>4. (\E p \in Proposals : x = like(rec.time, p)) \/ x = like(rec.time + 1, rec.prop)
      BY <3>1, <3>2, <3>3
    <3> HIDE DEF like
    <3>5. \E t \in Nat, p \in Proposals : x = like(t, p)
      BY <2>1, <3>4
    <3> QED BY <3>5 DEF like
  <2>3. x \in SubjectRecords
    BY <1>0, <2>1, <2>2 DEF SubjectRecords
  <2>4. Stored(x) = [kind |-> "Subject", id |-> <<t, p>>, time |-> t, prop |-> p, thread |-> Thread[p]]
    BY <2>2 DEF Stored, ComputeId
  <2>5. Stored(x) \in SubjectRecords
    BY <1>0, <2>4 DEF SubjectRecords, SubjectIds
  <2> QED BY <2>3, <2>5 DEF Record
<1>2. CASE rec \in VerdictRecords
  <2>1. /\ rec = [kind |-> "Verdict", id |-> rec.id, time |-> rec.time, cause |-> rec.cause,
                  thread |-> rec.thread, result |-> rec.result, envelope |-> rec.envelope]
        /\ rec.id \in VerdictIds /\ rec.time \in Nat /\ rec.cause \in SubjectIds
        /\ rec.thread \in Threads /\ rec.result \in Outcomes /\ rec.envelope \in Envelopes
        /\ rec.kind = "Verdict"
    BY <1>2 DEF VerdictRecords
  <2>2. PICK y \in Outcomes, e \in Envelopes :
          x = [kind |-> "Verdict", id |-> rec.id, time |-> rec.time, cause |-> rec.cause,
               thread |-> rec.thread, result |-> y, envelope |-> e]
    <3>1. CASE \E y \in Results : x = [rec EXCEPT !.result = y]
      <4>1. PICK y \in Results : x = [rec EXCEPT !.result = y]
        BY <3>1
      <4>2. x = [kind |-> "Verdict", id |-> rec.id, time |-> rec.time, cause |-> rec.cause,
                 thread |-> rec.thread, result |-> y, envelope |-> rec.envelope]
        BY <2>1, <4>1
      <4>3. y \in Outcomes
        BY DEF Outcomes
      <4> QED BY <2>1, <4>2, <4>3
    <3>2. CASE x = [rec EXCEPT !.envelope = "bad"]
      <4>1. x = [kind |-> "Verdict", id |-> rec.id, time |-> rec.time, cause |-> rec.cause,
                 thread |-> rec.thread, result |-> rec.result, envelope |-> "bad"]
        BY <2>1, <3>2
      <4>2. "bad" \in Envelopes
        BY DEF Envelopes
      <4> QED BY <2>1, <4>1, <4>2
    <3> QED BY <2>1, <3>1, <3>2 DEF Altered
  <2>3. x \in VerdictRecords
    BY <2>1, <2>2 DEF VerdictRecords
  <2>4. Stored(x) = [kind |-> "Verdict", id |-> <<rec.time, rec.cause, y, e, rec.thread>>,
                     time |-> rec.time, cause |-> rec.cause, thread |-> rec.thread, result |-> y,
                     envelope |-> e]
    BY <2>2 DEF Stored, ComputeId
  <2>5. Stored(x) \in VerdictRecords
    BY <2>1, <2>4 DEF VerdictRecords, VerdictIds
  <2> QED BY <2>3, <2>5 DEF Record
<1> QED BY <1>1, <1>2 DEF Record

LEMMA RemoveAtType ==
  ASSUME NEW S, NEW s \in Seq(S), NEW i \in 1..Len(s)
  PROVE  RemoveAt(s, i) \in Seq(S) /\ Len(RemoveAt(s, i)) = Len(s) - 1
<1>1. SubSeq(s, 1, i - 1) \in Seq(S) /\ Len(SubSeq(s, 1, i - 1)) = i - 1
  OBVIOUS
<1>2. SubSeq(s, i + 1, Len(s)) \in Seq(S) /\ Len(SubSeq(s, i + 1, Len(s))) = Len(s) - i
  OBVIOUS
<1>3. RemoveAt(s, i) = SubSeq(s, 1, i - 1) \o SubSeq(s, i + 1, Len(s))
  BY DEF RemoveAt
<1> QED BY <1>1, <1>2, <1>3, ConcatProperties

\* A log is made longer by records only.
LEMMA CommittedType ==
  ASSUME NEW recs \in Seq(Record), NEW r \in Rules, NEW p \in Proposals
  PROVE  Committed(recs, r, p) \in Seq(Record) /\ Len(Committed(recs, r, p)) = Len(recs) + 2
<1> DEFINE s == Subject(LastTime(recs) + 1, p)
           d == Decide(r, BuildState(recs), p)
           v == VerdictOf(s, d)
<1>1. LastTime(recs) \in Nat /\ LastTime(recs) + 1 \in Nat
  BY LastTimeType
<1>2. s \in SubjectRecords
  BY <1>1, SubjectType
<1>3. d \in Outcomes
  BY BuildStateType DEF Outcomes
<1>4. Committed(recs, r, p) = recs \o <<s, v>>
  BY DEF Committed
<1> HIDE DEF s, d
<1>5. s.time + 1 \in Nat /\ s.id \in SubjectIds /\ s.thread \in Threads
  BY <1>2 DEF SubjectRecords
<1>6. v \in VerdictRecords
  BY <1>3, <1>5, VerdictType DEF VerdictOf, Envelopes
<1> HIDE DEF v
<1>7. <<s, v>> \in Seq(Record) /\ Len(<<s, v>>) = 2
  BY <1>2, <1>6 DEF Record
<1> HIDE DEF Record
<1> QED BY <1>4, <1>7, ConcatProperties

LEMMA RInvInit == Init => RInv
  BY ReplayConstants DEF Init, RInv

LEMMA RInvStep == RInv /\ [Next]_vars => RInv'
<1> SUFFICES ASSUME RInv, [Next]_vars PROVE RInv'
  OBVIOUS
<1> DEFINE Held(t) == \/ t = NoCheckpoint
                      \/ \E cov \in Seq(Record), r \in Rules : t = Trust(cov, r)
<1>0. /\ records \in Seq(Record) /\ Len(records) <= MaxRecords /\ Len(records) \in Nat
      /\ edits \in 0..MaxEdits /\ MaxEdits \in Nat /\ MaxRecords \in Nat /\ Held(trusted)
  BY ReplayConstants DEF RInv
<1>a. SUFFICES /\ records' \in Seq(Record) /\ Len(records') <= MaxRecords /\ edits' \in 0..MaxEdits
               /\ Held(trusted')
  BY DEF RInv
<1> HIDE DEF Record, Held
<1>e. ASSUME NEW recs \in Seq(Record), Len(recs) <= MaxRecords, Edit(recs)
      PROVE  /\ records' \in Seq(Record) /\ Len(records') <= MaxRecords /\ edits' \in 0..MaxEdits
             /\ Held(trusted')
  BY <1>0, <1>e DEF Edit
<1>1. ASSUME NEW r \in Rules, NEW p \in Proposals, Commit(r, p) PROVE <1>a!1
  <2>1. Committed(records, r, p) \in Seq(Record) /\ Len(Committed(records, r, p)) = Len(records) + 2
    BY <1>0, CommittedType
  <2> QED BY <1>0, <1>1, <2>1 DEF Commit
<1>2. ASSUME NEW r \in Rules, FromVerifiedLog(r) PROVE <1>a!1
  <2>1. Held(Trust(records, r))
    BY <1>0 DEF Held
  <2> QED BY <1>0, <1>2, <2>1 DEF FromVerifiedLog
<1>3. ASSUME NEW r \in Rules, NEW n \in 0..Len(records), AssumeVerified(r, n) PROVE <1>a!1
  <2>1. SubSeq(records, 1, n) \in Seq(Record)
    BY <1>0
  <2>2. Held(Trust(SubSeq(records, 1, n), r))
    BY <2>1 DEF Held
  <2> QED BY <1>0, <1>3, <2>2 DEF AssumeVerified
<1>4. ASSUME NEW n \in 0..Len(records) - 1, Truncate(n) PROVE <1>a!1
  <2>1. SubSeq(records, 1, n) \in Seq(Record) /\ Len(SubSeq(records, 1, n)) <= MaxRecords
    BY <1>0
  <2> QED BY <1>e, <1>4, <2>1 DEF Truncate
<1>5. ASSUME NEW i \in DOMAIN records, Lose(i) PROVE <1>a!1
  <2>0. i \in 1..Len(records)
    BY <1>0
  <2>1. RemoveAt(records, i) \in Seq(Record) /\ Len(RemoveAt(records, i)) = Len(records) - 1
    BY <1>0, <2>0, RemoveAtType
  <2>2. Len(RemoveAt(records, i)) <= MaxRecords
    BY <1>0, <2>1
  <2> QED BY <1>e, <1>5, <2>1, <2>2 DEF Lose
<1>6. ASSUME NEW i \in DOMAIN records, Alter(i) \/ Rewrite(i) PROVE <1>a!1
  <2>1. PICK rec \in Altered(records[i]) :
          Edit([records EXCEPT ![i] = rec]) \/ Edit([records EXCEPT ![i] = Stored(rec)])
    BY <1>6 DEF Alter, Rewrite
  <2>2. records[i] \in Record
    BY <1>0
  <2>3. rec \in Record /\ Stored(rec) \in Record
    BY <2>2, AlteredType
  <2>4. ASSUME NEW x \in Record
        PROVE  [records EXCEPT ![i] = x] \in Seq(Record) /\ Len([records EXCEPT ![i] = x]) = Len(records)
    BY <1>0, <2>4
  <2>5. \A x \in Record : Len([records EXCEPT ![i] = x]) <= MaxRecords
    BY <1>0, <2>4
  <2> QED BY <1>e, <2>1, <2>3, <2>4, <2>5
<1>7. ASSUME NEW rec \in Record, Extend(rec) PROVE <1>a!1
  <2>1. Append(records, rec) \in Seq(Record) /\ Len(Append(records, rec)) = Len(records) + 1
    BY <1>0
  <2>2. Len(Append(records, rec)) <= MaxRecords
    BY <1>0, <1>7, <2>1 DEF Extend
  <2> QED BY <1>e, <1>7, <2>1, <2>2 DEF Extend
<1>8. ASSUME NEW p \in Proposals, Extend(Subject(LastTime(records) + 1, p)) PROVE <1>a!1
  <2>1. LastTime(records) + 1 \in Nat
    BY <1>0, LastTimeType
  <2>2. Subject(LastTime(records) + 1, p) \in Record
    BY <2>1, SubjectType DEF Record
  <2> QED BY <1>7, <1>8, <2>2
<1>9. ASSUME NEW i \in Subjects, NEW x \in Results,
             Extend(Verdict(LastTime(records) + 1, records[i].id, records[i].thread, x, "ok"))
      PROVE  <1>a!1
  <2>1. LastTime(records) + 1 \in Nat
    BY <1>0, LastTimeType
  <2>2. records[i] \in Record /\ records[i].kind = "Subject"
    BY <1>0 DEF Subjects
  <2>3. records[i].id \in SubjectIds /\ records[i].thread \in Threads
    BY <2>2 DEF Record, SubjectRecords, VerdictRecords
  <2>4. x \in Outcomes /\ "ok" \in Envelopes
    BY DEF Outcomes, Envelopes
  <2>5. Verdict(LastTime(records) + 1, records[i].id, records[i].thread, x, "ok") \in Record
    BY <2>1, <2>3, <2>4, VerdictType DEF Record
  <2> QED BY <1>7, <1>9, <2>5
<1>10. ASSUME UNCHANGED vars PROVE <1>a!1
  BY <1>0, <1>10 DEF vars
<1>11. CASE Next
  BY <1>1, <1>2, <1>3, <1>4, <1>5, <1>6, <1>8, <1>9, <1>11 DEF Next
<1> QED BY <1>10, <1>11

LEMMA RInvAlways == Spec => []RInv
  BY RInvInit, RInvStep, PTL DEF Spec

-----------------------------------------------------------------------------
(* The properties of the run, for all logs, rules, verifiers and edits *)

\* The checkpoints on offer: none, or one of a log under some rules.
LEMMA OfferedIs ==
  ASSUME RInv, NEW t \in Offered
  PROVE  t = NoCheckpoint \/ \E cov \in Seq(Record), r \in Rules : t = Trust(cov, r)
  BY DEF RInv, Offered

\* A checkpoint that a replay resumes from starts it within the log.
LEMMA StartWithin ==
  ASSUME RInv, NEW t \in Offered, NEW recs \in Seq(Record), NEW r, Replayable(recs, r, t)
  PROVE  t.checkpoint.log_length \in Nat /\ t.checkpoint.log_length <= Len(recs)
<1>1. CASE t = NoCheckpoint
  BY <1>1, NoCheckpointStart
<1>2. CASE \E cov \in Seq(Record), q \in Rules : t = Trust(cov, q)
  <2>1. PICK cov \in Seq(Record), q \in Rules : t = Trust(cov, q)
    BY <1>2
  <2>2. t # NoCheckpoint /\ t.checkpoint.log_length = Len(cov)
    BY <2>1, TrustFields
  <2>3. Resumable(recs, r, t)
    BY <2>2 DEF Replayable
  <2>4. t.checkpoint.log_length <= Len(recs)
    BY <2>3 DEF Resumable
  <2> QED BY <2>2, <2>4
<1> QED BY <1>1, <1>2, OfferedIs

\* Type correctness: for every log a history can store and every checkpoint a
\* host can hold, verify_log answers Accept or Reject, counts no more records than
\* there are, and an acceptance counts every record behind the checkpoint.
THEOREM ReplayTypes == Spec => []TypeOK
<1>1. RInv => TypeOK
  <2> SUFFICES ASSUME RInv PROVE TypeOK
    OBVIOUS
  <2>1. records \in Seq(Record) /\ Len(records) \in Nat
    BY DEF RInv
  <2>2. ASSUME NEW r \in Rules, NEW t \in Offered
        PROVE  /\ VerifyLog(records, r, t).result \in {"Accept", "Reject"}
               /\ VerifyLog(records, r, t).checked_records \in 0..Len(records)
               /\ VerifyLog(records, r, t).result = "Accept" =>
                    VerifyLog(records, r, t).checked_records = Len(records) - t.checkpoint.log_length
    <3>1. VerifyLog(records, r, t).result \in {"Accept", "Reject"}
      BY VerifyCases
    <3>2. CASE ~Replayable(records, r, t)
      <4>1. ~Accepted(records, r, t) /\ VerifyLog(records, r, t).checked_records = 0
        BY <3>2, VerifyCases
      <4> QED BY <2>1, <3>1, <4>1 DEF Accepted
    <3>3. CASE Replayable(records, r, t)
      <4> DEFINE start == t.checkpoint.log_length
                 end == EndOf(records, r, t)
      <4>1. start \in Nat /\ start <= Len(records)
        BY <2>1, <3>3, StartWithin
      <4>2. Len(records) \in start..Len(records)
        BY <2>1, <4>1
      <4>3. Counted(end, start, Len(records))
        BY <2>1, <4>1, <4>2, ProgressCounts DEF EndOf
      <4>4. /\ VerifyLog(records, r, t).checked_records = end.checked
            /\ VerifyLog(records, r, t).result = "Accept" => end.phase = "next"
        BY <3>3, VerifyCases DEF Accepted
      <4> HIDE DEF start, end
      <4>5. end.checked \in 0..Len(records) /\ (end.phase = "next" => end.checked = Len(records) - start)
        BY <2>1, <4>1, <4>3 DEF Counted
      <4> QED BY <3>1, <4>4, <4>5 DEF start
    <3> QED BY <3>2, <3>3
  <2> QED BY <2>2 DEF TypeOK, RInv
<1> QED BY <1>1, RInvAlways, PTL

\* Full replay accepts exactly the logs that commits under the same rules write,
\* whatever the verifier decides and however the log was cut, edited, rewritten or
\* extended; and the count of a rejection is the length of a log that it accepts.
THEOREM ReplayIsSound == Spec => []ReplaySound
<1>1. RInv => ReplaySound
  <2> SUFFICES ASSUME RInv PROVE ReplaySound
    OBVIOUS
  <2>1. records \in Seq(Record) /\ Len(records) \in Nat
    BY DEF RInv
  <2>2. ASSUME NEW r \in Rules
        PROVE  Accepted(records, r, NoCheckpoint) <=> records \in CommitLogs(r, Len(records) \div 2)
    <3> DEFINE n == Len(records) \div 2
    <3>1. n \in Nat
      BY <2>1
    <3>2. records \in CommitLogs(r, n) <=> Len(records) = 2 * n /\ Commits(records, r, n)
      <4> HIDE DEF n
      <4> QED BY <2>1, <3>1, CommitLogsAre
    <3>3. \A k \in Nat : Len(records) = 2 * k => k = n
      BY <2>1
    <3>4. (\E k \in Nat : Len(records) = 2 * k /\ Commits(records, r, k))
             <=> Len(records) = 2 * n /\ Commits(records, r, n)
      <4> HIDE DEF n
      <4> QED BY <3>1, <3>3
    <3> HIDE DEF n
    <3>5. Accepted(records, r, NoCheckpoint) <=> records \in CommitLogs(r, n)
      BY <2>1, <3>2, <3>4, AcceptedIffCommits
    <3> QED BY <3>5 DEF n
  <2>3. CleanPrefix
    BY <2>1, CountIsClean DEF CleanPrefix
  <2> QED BY <2>2, <2>3 DEF ReplaySound, AcceptsCommitsOnly
<1> QED BY <1>1, RInvAlways, PTL

\* Replay from a checkpoint whose prefix passes full replay is replay from
\* genesis, on the logs that still begin with that prefix and under the rules the
\* checkpoint names: the same verdict, and the same state.
THEOREM CheckpointsAgree == Spec => []CheckpointAgrees
<1>1. RInv => CheckpointAgrees
  <2> SUFFICES ASSUME RInv, trusted # NoCheckpoint, NEW r \in Rules,
                      Accepted(trusted.covered, trusted.rules_hash, NoCheckpoint)
               PROVE  /\ VerifyLog(records, r, trusted).result = "Accept" <=>
                           /\ VerifyLog(records, r, NoCheckpoint).result = "Accept"
                           /\ trusted.rules_hash = r
                           /\ IsPrefix(trusted.covered, records)
                      /\ VerifyLog(records, r, trusted).result = "Accept" =>
                           VerifyLog(records, r, trusted).state = VerifyLog(records, r, NoCheckpoint).state
    BY DEF CheckpointAgrees
  <2>1. records \in Seq(Record)
    BY DEF RInv
  <2>2. PICK cov \in Seq(Record), q \in Rules : trusted = Trust(cov, q)
    BY DEF RInv
  <2>3. trusted.covered = cov /\ trusted.rules_hash = q
    BY <2>2, TrustFields
  <2>4. Accepted(cov, q, NoCheckpoint)
    BY <2>3
  <2>5. /\ Accepted(records, r, trusted) <=>
             /\ Accepted(records, r, NoCheckpoint) /\ q = r /\ IsPrefix(cov, records)
        /\ Accepted(records, r, trusted) =>
             VerifyLog(records, r, trusted).state = VerifyLog(records, r, NoCheckpoint).state
    BY <2>1, <2>2, <2>4, TrustAgrees
  <2> QED BY <2>3, <2>5 DEF Accepted
<1> QED BY <1>1, RInvAlways, PTL

\* Whatever prefix a host asserts to be verified, a replay that skips it accepts
\* only logs that still begin with it, record by record, and re-derives the
\* verdict of every subject behind it.
THEOREM PrefixOnlyExempt == Spec => []ExemptsPrefixOnly
<1>1. RInv => ExemptsPrefixOnly
  <2> SUFFICES ASSUME RInv PROVE ExemptsPrefixOnly
    OBVIOUS
  <2>1. records \in Seq(Record) /\ Len(records) \in Nat
    BY DEF RInv
  <2>2. ASSUME trusted # NoCheckpoint, IdsBind(trusted.covered), NEW r \in Rules,
               Accepted(records, r, trusted)
        PROVE  IsPrefix(trusted.covered, records)
    <3>1. PICK cov \in Seq(Record), q \in Rules : trusted = Trust(cov, q)
      BY <2>2 DEF RInv
    <3>2. trusted.covered = cov
      BY <3>1, TrustFields
    <3>3. Resumable(records, r, trusted) /\ IdsBind(records)
      BY <2>2, VerifyCases DEF Replayable
    <3> QED BY <2>1, <2>2, <3>1, <3>2, <3>3, PrefixBound
  <2>3. ASSUME NEW r \in Rules, NEW t \in Offered, Accepted(records, r, t), NEW i \in Subjects,
               i > t.checkpoint.log_length
        PROVE  /\ i < Len(records) /\ records[i + 1].kind = "Verdict"
               /\ records[i + 1].result =
                    Decide(r, Progress(records, r, t.checkpoint.log_length)[i - 1].state, records[i].prop)
    <3> DEFINE start == t.checkpoint.log_length
    <3>1. Replayable(records, r, t) /\ EndOf(records, r, t).phase = "next"
      BY <2>3, VerifyCases
    <3>2. start \in Nat /\ start <= Len(records)
      BY <2>1, <3>1, StartWithin
    <3>3. i \in (start + 1)..Len(records) /\ records[i].kind = "Subject"
      BY <2>1, <2>3, <3>2 DEF Subjects
    <3>4. Progress(records, r, start)[Len(records)].phase = "next"
      BY <3>1 DEF EndOf
    <3> HIDE DEF start
    <3>5. /\ i < Len(records) /\ records[i + 1].kind = "Verdict"
          /\ records[i + 1].result = Decide(r, Progress(records, r, start)[i - 1].state, records[i].prop)
      BY <2>1, <3>2, <3>3, <3>4, RederivesBehind
    <3> QED BY <3>5 DEF start
  <2> QED BY <2>2, <2>3 DEF ExemptsPrefixOnly, CoveredUntouched, SuffixRederives
<1> QED BY <1>1, RInvAlways, PTL
=============================================================================
