------------------------------- MODULE Replay -------------------------------
(***************************************************************************)
(* verify_log (verify/verifier/replay.rs) with its checks of verdict records *)
(* (verdict.rs), the state it rebuilds (state/build.rs) and the checkpoints    *)
(* that let it skip a prefix (checkpoint.rs), over logs that were committed,   *)
(* interrupted, cut, edited and rewritten.                                     *)
(*                                                                          *)
(* A subject is a proposal in its thread at a time.  The id of a record is     *)
(* the tuple of what it is computed from, and a record carries the id it was   *)
(* stored under.  The envelope of a verdict (schema, author, no signature,     *)
(* space, evidence, canonical payload, one reference and a Cause) is "ok" or   *)
(* not; its result stands for result and reason.  The verifier is the          *)
(* parameter Decide.  A hash is what it is taken of.                           *)
(***************************************************************************)
EXTENDS Integers, Sequences, SequencesExt

CONSTANTS
  Proposals,
  Thread,            \* proposal |-> its thread
  Rules,
  Results,           \* what a verdict may say
  Decide(_, _, _),   \* Decide(rules, state, proposal): the verdict of check_record
  MaxRecords,        \* bound on the records of the log
  MaxEdits           \* bound on the edits of the stored log

ASSUME ReplayConstants ==
  /\ DOMAIN Thread = Proposals
  /\ "Accept" \in Results
  /\ MaxRecords \in Nat /\ MaxEdits \in Nat

VARIABLES
  records,  \* the log as it is stored
  trusted,  \* the TrustedCheckpoint a host holds, or NoCheckpoint
  edits

vars == <<records, trusted, edits>>

-----------------------------------------------------------------------------
(* Records *)

\* Record::compute_id.
ComputeId(rec) ==
  IF rec.kind = "Subject" THEN <<rec.time, rec.prop>>
                          ELSE <<rec.time, rec.cause, rec.result, rec.envelope, rec.thread>>

NoId == <<>>

\* Record::with_computed_id.
Stored(rec) == [rec EXCEPT !.id = ComputeId(rec)]

Subject(t, p) ==
  Stored([kind |-> "Subject", id |-> NoId, time |-> t, prop |-> p, thread |-> Thread[p]])

Verdict(t, cause, th, result, envelope) ==
  Stored([kind |-> "Verdict", id |-> NoId, time |-> t, cause |-> cause, thread |-> th,
          result |-> result, envelope |-> envelope])

VerdictOf(s, result) == Verdict(s.time + 1, s.id, s.thread, result, "ok")

LastTime(recs) == IF recs = <<>> THEN 0 ELSE recs[Len(recs)].time
LastId(recs) == IF recs = <<>> THEN NoId ELSE recs[Len(recs)].id
Ids(recs) == [i \in DOMAIN recs |-> recs[i].id]

-----------------------------------------------------------------------------
(* State *)

NewState == [accepted |-> {}, applied_up_to |-> 0]

\* apply_record, and the applied_up_to that its callers set.
Apply(st, s, result, t) ==
  [accepted |-> IF result = "Accept" THEN st.accepted \union {s.id} ELSE st.accepted,
   applied_up_to |-> t]

\* build_state_unchecked: subjects take effect by the last verdict that names
\* them, wherever it is; a subject without one has none.
BuildState(recs) ==
  LET verdicts(id) == {i \in DOMAIN recs : recs[i].kind = "Verdict" /\ recs[i].cause = id}
      rulings(id) == {recs[i].result : i \in {j \in verdicts(id) : \A k \in verdicts(id) : k <= j}}
  IN  [accepted |-> {recs[i].id : i \in {j \in DOMAIN recs : /\ recs[j].kind = "Subject"
                                                             /\ "Accept" \in rulings(recs[j].id)}},
       applied_up_to |-> LastTime(recs)]

-----------------------------------------------------------------------------
(* Checkpoints *)

\* Mutant of LogHash: only the last id is bound.
LogHashLast(recs) == LastId(recs)

LogHash(recs) == Ids(recs)

CreateCheckpoint(recs, st) ==
  [log_length |-> Len(recs), last_time |-> LastTime(recs), last_record_id |-> LastId(recs),
   state_hash |-> st, log_hash |-> LogHash(recs)]

NoCheckpoint == [checkpoint |-> [log_length |-> 0]]

\* TrustedCheckpoint::assume_verified of recs under rules r.  What it covered is
\* kept as history.
Trust(recs, r) ==
  [checkpoint |-> CreateCheckpoint(recs, BuildState(recs)), rules_hash |-> r, covered |-> recs]

\* Mutant of SameRules: a checkpoint serves under any rules.
SameRulesAny(t, r) == TRUE

SameRules(t, r) == t.rules_hash = r

\* What verify_log asks of a checkpoint before it resumes behind its prefix.
Resumable(recs, r, t) ==
  /\ SameRules(t, r)
  /\ t.checkpoint.log_length <= Len(recs)
  /\ LET n == t.checkpoint.log_length
         prefix == SubSeq(recs, 1, n)
     IN  /\ n < Len(recs) => recs[n + 1].kind # "Verdict"
         /\ t.checkpoint = CreateCheckpoint(prefix, BuildState(prefix))

-----------------------------------------------------------------------------
(* Replay *)

\* Mutant of Sequenced: only the gaps are looked at.
SequencedFromAny(recs) == \A i \in 2..Len(recs) : recs[i].time = recs[i - 1].time + 1

\* Logical time starts at 1 and has no gaps.
Sequenced(recs) == \A i \in 1..Len(recs) : recs[i].time = i

\* Every record, the attested ones too, has the id that its content gives.
IdsBind(recs) == \A i \in 1..Len(recs) : recs[i].id = ComputeId(recs[i])

\* The prior records with an id; find() takes the first.
Found(recs, i, id) == {j \in 1..(i - 1) : recs[j].id = id /\ \A k \in 1..(j - 1) : recs[k].id # id}

\* check_verdict_record of record i.
VerdictRecord(recs, i) ==
  LET v == recs[i]
  IN  /\ v.envelope = "ok"
      /\ \E j \in Found(recs, i, v.cause) : recs[j].kind = "Subject" /\ recs[j].thread = v.thread
      /\ \A k \in 1..(i - 1) : recs[k].kind = "Verdict" => recs[k].cause # v.cause

\* Mutant of Rederives: the stored verdict of a subject is believed.
RederivesAny(r, st, s, v) == v.cause = s.id

\* The verdict is about the record it follows, and says what the verifier says.
Rederives(r, st, s, v) == v.cause = s.id /\ v.result = Decide(r, st, s.prop)

\* A replay stands before a next pair, owes a verdict to the subject it has just
\* read, or has met a violation.
At(phase, st, checked) == [phase |-> phase, state |-> st, checked |-> checked]

\* Mutants of Step: a subject counts as soon as it is read; or twice.
StepEager(recs, r, i, at) ==
  LET rec == recs[i]
      subject == recs[CHOOSE j \in Found(recs, i, rec.cause) : TRUE]
  IN  CASE at.phase = "rejected" -> at
        [] at.phase # "rejected" /\ rec.kind = "Subject" ->
             At(IF at.phase = "next" THEN "owed" ELSE "rejected", at.state, at.checked + 1)
        [] at.phase # "rejected" /\ rec.kind = "Verdict" ->
             IF /\ VerdictRecord(recs, i)
                /\ at.phase = "owed" => Rederives(r, at.state, recs[i - 1], rec)
               THEN At("next", Apply(at.state, subject, rec.result, rec.time), at.checked + 1)
               ELSE At("rejected", at.state, at.checked)
StepTwice(recs, r, i, at) ==
  [StepEager(recs, r, i, at) EXCEPT !.checked = 2 * i]

\* One record of the loop of verify_log.  A subject and its verdict count when
\* both are through; a verdict on its own is applied as it is stored.
Step(recs, r, i, at) ==
  LET rec == recs[i]
      subject == recs[CHOOSE j \in Found(recs, i, rec.cause) : TRUE]
  IN  CASE at.phase = "rejected" -> at
        [] at.phase # "rejected" /\ rec.kind = "Subject" ->
             At(IF at.phase = "next" THEN "owed" ELSE "rejected", at.state, at.checked)
        [] at.phase # "rejected" /\ rec.kind = "Verdict" ->
             IF /\ VerdictRecord(recs, i)
                /\ at.phase = "owed" => Rederives(r, at.state, recs[i - 1], rec)
               THEN At("next", Apply(at.state, subject, rec.result, rec.time),
                       at.checked + IF at.phase = "owed" THEN 2 ELSE 1)
               ELSE At("rejected", at.state, at.checked)

\* Where the replay of recs stands after each record behind start.
Progress(recs, r, start) ==
  LET at[i \in start..Len(recs)] ==
        IF i = start THEN At("next", BuildState(SubSeq(recs, 1, start)), 0)
                     ELSE Step(recs, r, i, at[i - 1])
  IN  at

LogVerdict(result, checked, recs, st) ==
  [result |-> result, checked_records |-> checked, last_time |-> LastTime(recs), state |-> st]

\* verify_log.  The sets that a rejection reports are empty.
VerifyLog(recs, r, t) ==
  IF \/ t # NoCheckpoint /\ ~Resumable(recs, r, t)
     \/ ~Sequenced(recs)
     \/ ~IdsBind(recs)
    THEN LogVerdict("Reject", 0, recs, NewState)
    ELSE LET end == Progress(recs, r, t.checkpoint.log_length)[Len(recs)]
         IN  IF end.phase = "next" THEN LogVerdict("Accept", end.checked, recs, end.state)
                                   ELSE LogVerdict("Reject", end.checked, recs, NewState)

Accepted(recs, r, t) == VerifyLog(recs, r, t).result = "Accept"

-----------------------------------------------------------------------------
(* Histories *)

Init == records = <<>> /\ trusted = NoCheckpoint /\ edits = 0

\* A commit under rules r: the subject and the verdict of the state it meets.
Committed(recs, r, p) ==
  LET s == Subject(LastTime(recs) + 1, p)
  IN  recs \o <<s, VerdictOf(s, Decide(r, BuildState(recs), p))>>

Commit(r, p) ==
  /\ Len(records) + 2 <= MaxRecords
  /\ records' = Committed(records, r, p)
  /\ UNCHANGED <<trusted, edits>>

\* TrustedCheckpoint::from_verified_log: full replay first.
FromVerifiedLog(r) ==
  /\ Accepted(records, r, NoCheckpoint)
  /\ trusted' = Trust(records, r)
  /\ UNCHANGED <<records, edits>>

\* A host asserts trust in a prefix that it did not verify.
AssumeVerified(r, n) ==
  /\ trusted' = Trust(SubSeq(records, 1, n), r)
  /\ UNCHANGED <<records, edits>>

Edit(recs) ==
  /\ edits < MaxEdits
  /\ records' = recs
  /\ edits' = edits + 1
  /\ UNCHANGED trusted

\* What record rec could be turned into.
Altered(rec) ==
  IF rec.kind = "Subject"
    THEN {[Subject(rec.time, p) EXCEPT !.id = rec.id] : p \in Proposals}
           \union {[rec EXCEPT !.time = @ + 1]}
    ELSE {[rec EXCEPT !.result = x] : x \in Results} \union {[rec EXCEPT !.envelope = "bad"]}

\* The stored log is cut, loses a record, has one altered under its old id or
\* under a new one, or gets another one at its end.
Truncate(n) == Edit(SubSeq(records, 1, n))
Lose(i) == Edit(RemoveAt(records, i))
Alter(i) == \E rec \in Altered(records[i]) : rec # records[i] /\ Edit([records EXCEPT ![i] = rec])
Rewrite(i) ==
  \E rec \in Altered(records[i]) :
    rec # records[i] /\ Edit([records EXCEPT ![i] = Stored(rec)])
Extend(rec) == Len(records) < MaxRecords /\ Edit(Append(records, rec))

Subjects == {i \in DOMAIN records : records[i].kind = "Subject"}

Next ==
  \/ \E r \in Rules, p \in Proposals : Commit(r, p)
  \/ \E r \in Rules : FromVerifiedLog(r) \/ \E n \in 0..Len(records) : AssumeVerified(r, n)
  \/ \E n \in 0..Len(records) - 1 : Truncate(n)
  \/ \E i \in DOMAIN records : Lose(i) \/ Alter(i) \/ Rewrite(i)
  \/ \E p \in Proposals : Extend(Subject(LastTime(records) + 1, p))
  \/ \E i \in Subjects, x \in Results :
       Extend(Verdict(LastTime(records) + 1, records[i].id, records[i].thread, x, "ok"))

Spec == Init /\ [][Next]_vars

-----------------------------------------------------------------------------
(* Properties *)

\* The checkpoints a replay may be given.
Offered == {NoCheckpoint, trusted}

\* The type invariant: a verdict counts records of the log it was asked about,
\* none of them attested.
TypeOK ==
  /\ Len(records) <= MaxRecords /\ edits \in 0..MaxEdits
  /\ \A r \in Rules, t \in Offered :
       LET v == VerifyLog(records, r, t)
       IN  /\ v.result \in {"Accept", "Reject"}
           /\ v.checked_records \in 0..Len(records)
           /\ v.result = "Accept" => v.checked_records = Len(records) - t.checkpoint.log_length

\* The logs of n commits under rules r.
WithCommit(logs, r) == {Committed(l, r, p) : l \in logs, p \in Proposals}
CommitLogs(r, n) ==
  LET logs[k \in 0..n] == IF k = 0 THEN {<<>>} ELSE WithCommit(logs[k - 1], r)
  IN  logs[n]

\* Replay accepts exactly what the commit protocol writes under the same rules:
\* every log of whole commits, and no cut, edited, rewritten or unfinished one
\* unless the commits would have written that very log.
AcceptsCommitsOnly ==
  \A r \in Rules :
    Accepted(records, r, NoCheckpoint) <=> records \in CommitLogs(r, Len(records) \div 2)

\* Where the prefix of a checkpoint passes full replay under the rules it names,
\* replay from it is replay from genesis: it accepts the same logs among those
\* that still begin with that prefix, and ends in the same state; under other
\* rules it accepts nothing.
CheckpointAgrees ==
  trusted # NoCheckpoint =>
    \A r \in Rules :
      LET genesis == VerifyLog(records, r, NoCheckpoint)
          resumed == VerifyLog(records, r, trusted)
      IN  Accepted(trusted.covered, trusted.rules_hash, NoCheckpoint) =>
            /\ resumed.result = "Accept" <=>
                 /\ genesis.result = "Accept"
                 /\ trusted.rules_hash = r
                 /\ IsPrefix(trusted.covered, records)
            /\ resumed.result = "Accept" => resumed.state = genesis.state

\* Whatever a host asserted, no replay that skips a prefix accepts a log in
\* which a record of that prefix was deleted, edited or rewritten since (a prefix
\* whose own ids were wrong is accepted in no state but the one they name).
CoveredUntouched ==
  trusted # NoCheckpoint /\ IdsBind(trusted.covered) =>
    \A r \in Rules : Accepted(records, r, trusted) => IsPrefix(trusted.covered, records)

\* Whatever a host asserted, every subject behind the prefix is followed by its
\* verdict, and that verdict is the one the verifier gives in the state replayed
\* so far.  (A verdict that stands alone, on a subject of the prefix that has
\* none, is the exception: it is applied as stored.)
SuffixRederives ==
  \A r \in Rules, t \in Offered :
    Accepted(records, r, t) =>
      \A i \in Subjects : i > t.checkpoint.log_length =>
        /\ i < Len(records) /\ records[i + 1].kind = "Verdict"
        /\ records[i + 1].result =
             Decide(r, Progress(records, r, t.checkpoint.log_length)[i - 1].state, records[i].prop)

\* The count of a rejection is the length of a log that would have been
\* accepted: what stood before the violation is sound on its own.
CleanPrefix ==
  \A r \in Rules :
    Accepted(SubSeq(records, 1, VerifyLog(records, r, NoCheckpoint).checked_records), r,
             NoCheckpoint)

\* Full replay accepts what commits write, and counts up to the violation.
ReplaySound == AcceptsCommitsOnly /\ CleanPrefix

\* Trust that a host asserts exempts the prefix it is about, untouched, from
\* re-derivation, and exempts nothing behind it.
ExemptsPrefixOnly == CoveredUntouched /\ SuffixRederives
=============================================================================
