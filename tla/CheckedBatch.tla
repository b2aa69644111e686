---------------------------- MODULE CheckedBatch ----------------------------
(***************************************************************************)
(* The appender contract of src/src/log/writer/core.rs: batch_commit and     *)
(* the idempotent compare-and-append checked_batch_commit, with clients that *)
(* lose answers, retry, and race each other across crashes and reopens.      *)
(*                                                                          *)
(* A commit that is not interrupted is one step.  An interrupted one leaves   *)
(* nothing, its subject, or the whole pair; since a subject at the end of the *)
(* file gets its verdict, the same one, by the next open, its pair is in the  *)
(* log from then on (LogWriter!ImplementsLedger).  Which of the two frames    *)
(* are in the file and which are synced is kept.  Records are addressed by    *)
(* content and time, so a pair at place k holds the records 2k-1 and 2k.      *)
(***************************************************************************)
EXTENDS Integers, Sequences, FiniteSets, SequencesExt

CONSTANTS
  Clients,        \* appenders that use checked_batch_commit
  Hosts,          \* appenders that use batch_commit
  Batches,        \* the batches they send
  Rank,           \* proposal |-> its canonical hash, the batch order
  Decide(_, _),   \* Decide(log, proposal): the verdict
  MaxPairs,       \* max_file_bytes, in pairs
  MaxHostCalls,   \* bound on the calls of batch_commit
  MaxFaults,      \* bound on failed commits and crashes
  MaxLosses       \* bound on power losses

ASSUME BatchConstants ==
  /\ Clients \intersect Hosts = {}
  /\ \A b \in Batches : b \in Seq(DOMAIN Rank) /\ b # <<>>
  /\ \A p, q \in DOMAIN Rank : Rank[p] \in Nat /\ (Rank[p] = Rank[q] => p = q)
  /\ MaxPairs \in Nat /\ MaxHostCalls \in Nat /\ MaxFaults \in Nat /\ MaxLosses \in Nat

VARIABLES
  log,      \* the pairs of the log, each with the appender that wrote it
  durable,  \* how many leading records a sync_data has covered
  owed,     \* the verdict of the last pair is not in the file
  torn,     \* a part of a frame stands at the end of the file
  up,       \* the writer is open and does not require recovery
  call,     \* the batch call under way on the writer
  head,     \* of each client: the expected_head it built its batch on
  batch,    \* of each client: its batch
  answer,   \* of each client: what its last call returned
  first,    \* of each client: the first BatchAppend it was returned (history)
  hostCalls, faults, losses

file == <<log, durable, owed, torn>>
vars == <<file, up, call, head, batch, answer, first, hostCalls, faults, losses>>

-----------------------------------------------------------------------------

EMPTY_HEAD == <<0>>

NoHead == <<>>

NoCall == [by |-> "nobody"]

\* The id of the record at time t of pairs l: its time and content.
RecordId(l, t) ==
  LET e == l[(t + 1) \div 2]
  IN  <<t, e.prop, IF t % 2 = 0 THEN e.result ELSE "Subject">>

RecordIds(l) == {RecordId(l, t) : t \in 1..2 * Len(l)}

\* LogWriter::head.
Head_(l) == IF l = <<>> THEN EMPTY_HEAD ELSE RecordId(l, 2 * Len(l))

\* Mutant of SortBatch: the order of the caller is kept.
KeepOrder(b) == b

\* The place of the i-th proposal of b in the order: behind those of a smaller
\* hash.  Proposals of the same hash are equal, so their order shows nowhere.
Place(b, i) ==
  Cardinality({j \in DOMAIN b : Rank[b[j]] < Rank[b[i]] \/ (Rank[b[j]] = Rank[b[i]] /\ j <= i)})

\* sort_batch: by canonical hash, whatever the order of the caller.
SortBatch(b) == [k \in 1..Len(b) |-> b[CHOOSE i \in DOMAIN b : Place(b, i) = k]]

\* The times at which the expected head stands: its own, or none.
Positions(l, hd) ==
  IF hd = EMPTY_HEAD THEN {0} ELSE {t \in 1..2 * Len(l) : RecordId(l, t) = hd}

\* Mutant of LandedAt: any pair after the head counts as landed.
LandedUnread(l, t, b, n) == n > 0 => t % 2 = 0 /\ t \div 2 + n <= Len(l)

\* The first n proposals of b stand, with their verdicts, right after time t.
\* A proposal never matches a verdict record, so t is even unless n is zero.
LandedAt(l, t, b, n) ==
  n > 0 => /\ t % 2 = 0
           /\ \A j \in 1..n : t \div 2 + j <= Len(l) /\ l[t \div 2 + j].prop = b[j]

\* The longest prefix of b that already landed right after time t.
Landed(l, t, b) == Max({n \in 0..Len(b) : LandedAt(l, t, b, n)})

\* The verdicts of the n pairs after time t, read back from the log.
Results(l, t, n) == [j \in 1..n |-> l[t \div 2 + j].result]

\* Mutant of BatchAppend: a no-op answers with the current head.
BatchAppendTip(l, t, n) == [head |-> Head_(l), results |-> Results(l, t, n)]

\* struct BatchAppend: the head behind the n pairs after time t, their verdicts.
BatchAppend(l, t, n) ==
  [head |-> IF t + 2 * n = 0 THEN EMPTY_HEAD ELSE RecordId(l, t + 2 * n),
   results |-> Results(l, t, n)]

NoAnswer == [error |-> "none"]
HeadConflict == [error |-> "HeadConflict"]
Failed == [error |-> "Io"]

Ok(a) == "head" \in DOMAIN a

Pair(p, who) == [prop |-> p, result |-> Decide(log, p), by |-> who]

Init ==
  /\ log = <<>> /\ durable = 0 /\ owed = FALSE /\ torn = FALSE
  /\ up = TRUE /\ call = NoCall
  /\ head = [c \in Clients |-> NoHead]
  /\ batch = [c \in Clients |-> <<>>]
  /\ answer = [c \in Clients |-> NoAnswer]
  /\ first = [c \in Clients |-> NoAnswer]
  /\ hostCalls = 0 /\ faults = 0 /\ losses = 0

-----------------------------------------------------------------------------
(* Calls *)

\* A client builds a batch on a record it has seen: the head, an older one,
\* or (by mistake) a subject.
Build(c, b) ==
  /\ up /\ call = NoCall /\ head[c] = NoHead
  /\ \E t \in {EMPTY_HEAD} \union RecordIds(log) : head' = [head EXCEPT ![c] = t]
  /\ batch' = [batch EXCEPT ![c] = b]
  /\ UNCHANGED <<file, up, call, answer, first, hostCalls, faults, losses>>

\* What a call returns to client c.
Answer(c, a) ==
  /\ answer' = [answer EXCEPT ![c] = a]
  /\ first' = [first EXCEPT ![c] = IF Ok(a) /\ ~Ok(@) THEN a ELSE @]

\* checked_batch_commit without the commits: the position of the expected head,
\* the prefix that landed behind it, and one of the outcomes.
Positioned(c, b, Outcome(_, _, _)) ==
  LET positions == Positions(log, head[c])
      sorted == SortBatch(b)
  IN  /\ up /\ call = NoCall /\ head[c] # NoHead
      /\ IF positions = {}
           THEN Answer(c, HeadConflict) /\ UNCHANGED call
           ELSE \E t \in positions : Outcome(sorted, t, Landed(log, t, sorted))
      /\ UNCHANGED <<file, up, head, batch, hostCalls, faults, losses>>

\* Fully landed: a no-op that answers as the original append did.
NoOp(c, sorted, t, n) ==
  n = Len(sorted) /\ Answer(c, BatchAppend(log, t, n)) /\ UNCHANGED call

\* The rest of the batch would not begin at the end of the log.
Diverged(c, sorted, t, n) ==
  n < Len(sorted) /\ t + 2 * n # 2 * Len(log) /\ Answer(c, HeadConflict) /\ UNCHANGED call

\* The rest of the batch is committed from the end of the log on.
Resume(c, sorted, t, n) ==
  /\ n < Len(sorted)
  /\ call' = [by |-> c, props |-> sorted, start |-> t, next |-> n + 1]
  /\ UNCHANGED <<answer, first>>

\* Mutants of CheckedBatchCommit: the rest of the batch goes to the end of the
\* log wherever that is; a diverged log is reported as a failure to retry.
CheckedBatchCommitAnywhere(c, b) ==
  Positioned(c, b, LAMBDA sorted, t, n : NoOp(c, sorted, t, n) \/ Resume(c, sorted, t, n))
CheckedBatchCommitFails(c, b) ==
  Positioned(c, b, LAMBDA sorted, t, n :
    \/ NoOp(c, sorted, t, n)
    \/ n < Len(sorted) /\ t + 2 * n # 2 * Len(log) /\ Answer(c, Failed) /\ UNCHANGED call
    \/ t + 2 * n = 2 * Len(log) /\ Resume(c, sorted, t, n))

\* The entry of checked_batch_commit with the proposals of b, up to the first
\* commit.  A call may repeat one whose answer was lost.
CheckedBatchCommit(c, b) ==
  Positioned(c, b, LAMBDA sorted, t, n :
    \/ NoOp(c, sorted, t, n)
    \/ Diverged(c, sorted, t, n)
    \/ t + 2 * n = 2 * Len(log) /\ Resume(c, sorted, t, n))

\* batch_commit: the whole batch goes to the end of the log.
BatchCommit(w, b) ==
  /\ up /\ call = NoCall /\ hostCalls < MaxHostCalls
  /\ hostCalls' = hostCalls + 1
  /\ call' = [by |-> w, props |-> SortBatch(b), start |-> 2 * Len(log), next |-> 1]
  /\ UNCHANGED <<file, up, head, batch, answer, first, faults, losses>>

Current == call.props[call.next]
InCall == call # NoCall
Done == InCall /\ call.next > Len(call.props)

\* Mutant of CommitOne: no capacity check.
CommitOneAnyway ==
  /\ InCall /\ ~Done
  /\ log' = Append(log, Pair(Current, call.by))
  /\ durable' = 2 * Len(log) + 2
  /\ call' = [call EXCEPT !.next = @ + 1]
  /\ UNCHANGED <<owed, torn, up, head, batch, answer, first, hostCalls, faults, losses>>

\* The commit of the next proposal of the batch.
CommitOne ==
  /\ InCall /\ ~Done /\ Len(log) < MaxPairs
  /\ log' = Append(log, Pair(Current, call.by))
  /\ durable' = 2 * Len(log) + 2
  /\ call' = [call EXCEPT !.next = @ + 1]
  /\ UNCHANGED <<owed, torn, up, head, batch, answer, first, hostCalls, faults, losses>>

\* A client is told that its batch did not go through.
Fail == IF call.by \in Clients THEN Answer(call.by, Failed) ELSE UNCHANGED <<answer, first>>

\* A commit refused before its first write (the pair does not fit) ends the
\* call; the pairs before it stay, and the handle stays usable.
CommitRefused ==
  /\ InCall /\ ~Done /\ Len(log) >= MaxPairs
  /\ Fail
  /\ call' = NoCall
  /\ UNCHANGED <<file, up, head, batch, hostCalls, faults, losses>>

\* The end of either call.
Return ==
  /\ Done
  /\ IF call.by \in Clients
       THEN Answer(call.by, BatchAppend(log, call.start, Len(call.props)))
       ELSE UNCHANGED <<answer, first>>
  /\ call' = NoCall
  /\ UNCHANGED <<file, up, head, batch, hostCalls, faults, losses>>

-----------------------------------------------------------------------------
(* Faults *)

\* Nothing of the pair under way is in the file but, perhaps, a part of its
\* subject; an error before the intent was durable leaves the writer usable.
LeaveNothing ==
  /\ up' \in BOOLEAN /\ torn' \in BOOLEAN
  /\ torn' => ~up' /\ ~Done /\ Len(log) < MaxPairs
  /\ UNCHANGED <<log, durable, owed>>

\* The subject of the pair under way is in the file.  Its sync_data comes before
\* the first byte of the verdict: with the subject alone it may be missing, with
\* any part of the verdict only that of the verdict may.
LeaveSubject ==
  /\ ~Done /\ Len(log) < MaxPairs /\ up' = FALSE
  /\ log' = Append(log, Pair(Current, call.by))
  /\ \/ owed' = TRUE /\ torn' = FALSE /\ durable' = durable
     \/ owed' = TRUE /\ torn' \in BOOLEAN /\ durable' = 2 * Len(log) + 1
     \/ owed' = FALSE /\ torn' = FALSE /\ durable' \in 2 * Len(log) + 1..2 * Len(log) + 2

\* The call dies with an I/O error or with its process.
Interrupt ==
  /\ InCall /\ faults < MaxFaults
  /\ faults' = faults + 1
  /\ LeaveNothing \/ LeaveSubject
  /\ Fail
  /\ call' = NoCall
  /\ UNCHANGED <<head, batch, hostCalls, losses>>

\* The records in the file, of which the last may be an undecided subject.
Stored == 2 * Len(log) - IF owed THEN 1 ELSE 0

\* A torn tail is cut off and the file synced; otherwise nothing is.
SyncedByCut == IF torn THEN Stored ELSE durable

\* LogWriter::open: the tail is cut, and recovery appends the verdict that is
\* owed and syncs it.  Nothing is synced when the tail is whole.
Reopen ==
  /\ ~up /\ up' = TRUE
  /\ owed' = FALSE /\ torn' = FALSE
  /\ durable' = IF owed THEN 2 * Len(log) ELSE SyncedByCut
  /\ UNCHANGED <<log, call, head, batch, answer, first, hostCalls, faults, losses>>

\* An open that fails or dies: behind the cut, or while recovery appends the
\* verdict, of which nothing, a part or all is in the file, synced or not.
InterruptReopen ==
  /\ ~up /\ faults < MaxFaults
  /\ owed \/ torn
  /\ faults' = faults + 1
  /\ \/ torn' = FALSE /\ durable' \in {durable, SyncedByCut} /\ UNCHANGED owed
     \/ owed /\ torn' = TRUE /\ durable' = SyncedByCut /\ UNCHANGED owed
     \/ owed /\ torn' = FALSE /\ owed' = FALSE /\ durable' \in {SyncedByCut, 2 * Len(log)}
  /\ UNCHANGED <<log, up, call, head, batch, answer, first, hostCalls, losses>>

\* Any record that no sync covered may be gone, and those behind it with it; a
\* part of the first one may remain.  A loss in the middle of a commit is an
\* Interrupt before it.
PowerLoss ==
  /\ losses < MaxLosses
  /\ losses' = losses + 1
  /\ \E n \in durable..Stored :
       /\ log' = SubSeq(log, 1, (n + 1) \div 2)
       /\ owed' = (n % 2 = 1)
       /\ torn' \in BOOLEAN /\ (torn' => torn \/ n < Stored)
  /\ up' = FALSE /\ call' = NoCall
  /\ UNCHANGED <<durable, head, batch, answer, first, hostCalls, faults>>

-----------------------------------------------------------------------------

\* The orders in which a client may send a batch.
Reorderings(b) == {[i \in DOMAIN b |-> b[p[i]]] : p \in Bijection(DOMAIN b, DOMAIN b)}

Next ==
  \/ \E c \in Clients, b \in Batches : Build(c, b)
  \/ \E c \in Clients : \E b \in Reorderings(batch[c]) : CheckedBatchCommit(c, b)
  \/ \E w \in Hosts, b \in Batches : BatchCommit(w, b)
  \/ CommitOne \/ CommitRefused \/ Return
  \/ Interrupt \/ Reopen \/ InterruptReopen \/ PowerLoss

Spec == Init /\ [][Next]_vars

Retry(c) == ~Ok(answer[c]) /\ answer[c] # HeadConflict /\ CheckedBatchCommit(c, batch[c])

\* The writer's code runs on, a host reopens, and a client repeats its call
\* until it is told that the batch landed or conflicts.
FairSpec ==
  /\ Spec
  /\ WF_vars(CommitOne \/ CommitRefused \/ Return)
  /\ WF_vars(Reopen)
  /\ \A c \in Clients : SF_vars(Retry(c))

-----------------------------------------------------------------------------
(* Properties *)

Pairs == [prop : DOMAIN Rank, result : {"Accept", "Reject"}, by : Clients \union Hosts]

\* The durable part is a prefix of what is stored, and a usable writer has
\* nothing to recover.
FileOK ==
  /\ owed \in BOOLEAN /\ torn \in BOOLEAN /\ (owed => log # <<>>)
  /\ durable \in 0..Stored
  /\ up \in BOOLEAN /\ (up => ~owed /\ ~torn)

\* The type invariant: the log keeps to its limit of pairs, its file is in order,
\* and a call runs on a usable writer and stays within its batch.
TypeOK ==
  /\ log \in Seq(Pairs) /\ Len(log) <= MaxPairs
  /\ FileOK /\ (InCall => up)
  /\ call = NoCall \/ /\ call.by \in Clients \union Hosts
                      /\ call.next \in 1..Len(call.props) + 1
  /\ \A c \in Clients : batch[c] \in {<<>>} \union Batches
  /\ faults \in 0..MaxFaults /\ losses \in 0..MaxLosses /\ hostCalls \in 0..MaxHostCalls

\* The place in the log after which client c wants its batch.
Base(c) == head[c][1] \div 2

\* The first n proposals of client c's batch are in the log where it wants them.
InPlace(l, c, n) ==
  /\ Base(c) + n <= Len(l)
  /\ \A j \in 1..n : l[Base(c) + j].prop = SortBatch(batch[c])[j]

\* However often a client retries and whoever else appends, a proposal of its
\* batch is appended at most once, in its own place after the expected head,
\* behind the ones that precede it in the batch: never a duplicate append.
OwnPlace ==
  \A c \in Clients, i \in 1..Len(log) :
    log[i].by = c => /\ i - Base(c) \in 1..Len(batch[c])
                     /\ InPlace(log, c, i - Base(c))

\* Until a power loss, every retry that succeeds is answered as the first
\* success was.  A loss may take a pair that a no-op has answered for and never
\* synced; the ids of records do not bind what came before them, so the batch
\* may land again on the same head, over another past, with other verdicts.
SameAnswer ==
  losses = 0 => \A c \in Clients : Ok(answer[c]) => answer[c] = first[c]

\* A retry changes nothing that the first success did, in the log or in what
\* the client is told.
RetriesIdempotent == OwnPlace /\ SameAnswer

\* A success means that the whole batch stands in place, with the verdicts and
\* the head that the answer names.
AnswerTrue ==
  [][\A c \in Clients : Ok(answer'[c]) /\ answer'[c] # answer[c] =>
       /\ InPlace(log, c, Len(batch[c]))
       /\ answer'[c] = BatchAppend(log, 2 * Base(c), Len(batch[c]))]_vars

\* A client that built on a head is turned away only when somebody else
\* appended behind that head or a power loss took the head itself: its own
\* landed prefix, in whatever order it resends the batch, is no conflict.
ConflictHasCause ==
  [][\A c \in Clients : answer'[c] = HeadConflict /\ answer[c] # HeadConflict =>
       \/ head[c][1] % 2 = 1
       \/ Positions(log, head[c]) = {}
       \/ \E i \in Base(c) + 1..Len(log) : log[i].by # c]_vars

\* What a success reported stays: the batch is in place from then on.
AppendedStays ==
  \A c \in Clients : Ok(first[c]) => InPlace(log, c, Len(batch[c]))

\* A client that keeps retrying learns what became of its batch.
Settles ==
  \A c \in Clients : head[c] # NoHead ~> Ok(answer[c]) \/ answer[c] = HeadConflict
=============================================================================
