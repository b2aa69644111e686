------------------------------ MODULE LogWriter ------------------------------
(***************************************************************************)
(* The single-writer commit protocol of src/src/log: LogWriter, FileLog,    *)
(* CommitIntent and TimeSource.                                             *)
(*                                                                          *)
(* records.log is a sequence of complete frames (disk), perhaps followed by *)
(* a torn one.  Written frames are visible to every process at once (the    *)
(* page cache) but survive a power loss only once a sync_data covered them  *)
(* (synced).  A commit writes a subject record, then the Verdict record     *)
(* that decides it; each write, each sync, each replacement of the .intent  *)
(* file is a step of its own, and between any two of them the process may   *)
(* crash, the machine may lose power, or the call may return an I/O error.  *)
(*                                                                          *)
(* Every frame has size one, so a file limit counts frames.  The verifier   *)
(* is the parameter Accepts: the verdict is a function of the rules, the    *)
(* derived state of the prior log and the proposal, which is what           *)
(* verify_record promises.                                                  *)
(***************************************************************************)
EXTENDS Integers, Sequences, FiniteSets

CONSTANTS
  Handles,          \* host threads or processes that open the log directory
  NoHandle,         \* the lock file is not locked
  NoRules,          \* the rules of a handle that is not open
  Proposals,        \* contents a host may propose
  Foreign,          \* the proposals whose space is not the space of the rules
  VerdictKind,      \* the proposals whose kind is Verdict
  Rules,            \* rule sets a host may open the log under
  Limits,           \* the values of max_file_bytes, in frames
  MaxTime,          \* Time::MAX
  MaxFaults,        \* bound on crashes, power losses and I/O errors
  Accepts(_, _, _)  \* Accepts(rules, state, proposal): the kind-level checks

ASSUME WriterConstants ==
  /\ NoHandle \notin Handles
  /\ Foreign \subseteq Proposals
  /\ VerdictKind \subseteq Proposals
  /\ Limits \subseteq Nat
  /\ MaxTime \in Nat \ {0}
  /\ MaxFaults \in Nat

VARIABLES
  disk,     \* complete frames of records.log, in file order
  torn,     \* a partial frame follows them
  synced,   \* how many leading frames a sync_data has covered
  intent,   \* content of the .intent file
  lock,     \* the handle that holds .lock
  pc,       \* where each handle is in open_with_max_bytes or commit_inner
  records,  \* of each handle: the records it has in memory
  next,     \* its TimeSource: the time the next subject gets
  rules,    \* the rules it was opened under (rules_hash)
  limit,    \* its max_file_bytes
  recovery_required, \* its refusal to write until it is reopened
  state,    \* the State object each host keeps and passes to commit
  pair,     \* the materialized subject and verdict of the commit under way
  faults,   \* faults so far
  acked     \* records covered by commits that returned Ok (history)

files == <<disk, torn, synced, intent>>
writer == <<records, next, rules, limit, recovery_required>>  \* struct LogWriter
vars == <<files, lock, pc, writer, state, pair, faults, acked>>

-----------------------------------------------------------------------------
(* Records, derived state and replay *)

Results == {"Accept", "Reject"}

Record == [kind : {"Subject", "Verdict", "Garbage"}, prop : Proposals, time : Nat,
           cause : Nat, result : Results \union {"None"}]

\* A frame written behind a torn one: read back, its bytes are no record.
Garbage(rec) == [rec EXCEPT !.kind = "Garbage"]

\* read_all_records fails on a complete frame that does not deserialize.
Readable(log) == \A i \in 1..Len(log) : log[i].kind # "Garbage"

\* Records are content-addressed: their id is their content, time included.
Id(rec) == <<rec.time, rec.prop>>

Subject(p, t) ==
  [kind |-> IF p \in VerdictKind THEN "Verdict" ELSE "Subject",
   prop |-> p, time |-> t, cause |-> 0, result |-> "None"]

\* materialize_verdict: the verdict carries its subject's space and thread
\* (part of prop), the next time, and one Cause reference to the subject.
MaterializeVerdict(subject, res) ==
  [kind |-> "Verdict", prop |-> subject.prop, time |-> subject.time + 1,
   cause |-> subject.time, result |-> res]

\* The State of an empty log.
NewState == [accepted |-> {}, applied_up_to |-> 0]

\* build_state_unchecked of the first n records of log.
BuildState(log, n) ==
  [accepted |->
     {Id(log[i]) : i \in {j \in 1..n :
        /\ log[j].kind # "Verdict"
        /\ \E k \in 1..n : /\ log[k].kind = "Verdict"
                           /\ log[k].cause = log[j].time
                           /\ log[k].prop = log[j].prop
                           /\ log[k].result = "Accept"}},
   applied_up_to |-> n]

\* Mutant of ApplyRecord: the fold ignores the verdict.
ApplyRecordAlways(st, subject, res) ==
  [accepted |-> st.accepted \union {Id(subject)}, applied_up_to |-> subject.time + 1]

\* apply_record, then the assignment of applied_up_to by commit_inner.
ApplyRecord(st, subject, res) ==
  [accepted |-> IF res = "Accept" THEN st.accepted \union {Id(subject)} ELSE st.accepted,
   applied_up_to |-> subject.time + 1]

\* verify_record: a proposal of another space or of kind Verdict is rejected
\* before its payload is looked at.
VerifyRecord(st, p, r) ==
  IF p \notin Foreign \union VerdictKind /\ Accepts(r, st, p) THEN "Accept" ELSE "Reject"

\* verify_log over the first n records: times are gap-free from 1; every
\* non-verdict record is followed by the verdict that its prefix yields,
\* whose space must be the space of the rules; no verdict stands elsewhere.
VerifyLog(log, n, r) ==
  \A i \in 1..n :
    /\ log[i].time = i
    /\ log[i].kind # "Verdict" =>
         /\ i < n
         /\ log[i + 1] = MaterializeVerdict(log[i], VerifyRecord(BuildState(log, i - 1), log[i].prop, r))
         /\ log[i].prop \notin Foreign
    /\ log[i].kind = "Verdict" => i > 1 /\ log[i - 1].kind # "Verdict"

\* A trailing record that is not a Verdict: the signature of an interrupted
\* commit, and the only thing recovery looks at.
InterruptedTail(log) == Len(log) > 0 /\ log[Len(log)].kind # "Verdict"

CompletePrefixLen(log) == IF InterruptedTail(log) THEN Len(log) - 1 ELSE Len(log)

-----------------------------------------------------------------------------
(* Files and handles *)

NoIntent == [subject |-> <<>>, written |-> FALSE]

Intent(subject, w) == [subject |-> Id(subject), written |-> w]

\* The length of records.log as metadata() reports it, rounded up to frames.
FileLen == Len(disk) + (IF torn THEN 1 ELSE 0)

\* ensure_capacity_for n more frames.
Fits(h, n) == FileLen + n <= limit[h]

\* The two write_all calls of FileLog::append, at the end of the file.
PutFrame(rec) ==
  /\ disk' = Append(disk, IF torn THEN Garbage(rec) ELSE rec)
  /\ torn' = FALSE

NoPair == <<>>

Goto(h, from, to) == pc[h] = from /\ pc' = [pc EXCEPT ![h] = to]

\* The handle goes out of scope: its lock is released with its memory.
Drop(h) ==
  /\ lock' = NoHandle
  /\ pc' = [pc EXCEPT ![h] = "closed"]
  /\ records' = [records EXCEPT ![h] = <<>>]
  /\ next' = [next EXCEPT ![h] = 1]
  /\ rules' = [rules EXCEPT ![h] = NoRules]
  /\ limit' = [limit EXCEPT ![h] = 0]
  /\ recovery_required' = [recovery_required EXCEPT ![h] = FALSE]
  /\ pair' = [pair EXCEPT ![h] = NoPair]

\* Mutant of Exhausted: room for one time is taken for room for two.
ExhaustedLate(h) == next[h] > MaxTime

\* TimeSource::exhausted: two distinct times are no longer available.
Exhausted(h) == next[h] >= MaxTime - 1

Init ==
  /\ disk = <<>> /\ torn = FALSE /\ synced = 0 /\ intent = NoIntent
  /\ lock = NoHandle
  /\ pc = [h \in Handles |-> "closed"]
  /\ records = [h \in Handles |-> <<>>]
  /\ next = [h \in Handles |-> 1]
  /\ rules = [h \in Handles |-> NoRules]
  /\ limit = [h \in Handles |-> 0]
  /\ recovery_required = [h \in Handles |-> FALSE]
  /\ state = [h \in Handles |-> NewState]
  /\ pair = [h \in Handles |-> NoPair]
  /\ faults = 0 /\ acked = 0

-----------------------------------------------------------------------------
(* open_with_max_bytes *)

\* Mutant of OpenLock: the log is opened without the lock.
OpenUnlocked(h, r, l) ==
  /\ Goto(h, "closed", "reading")
  /\ lock' = h
  /\ rules' = [rules EXCEPT ![h] = r]
  /\ limit' = [limit EXCEPT ![h] = l]
  /\ UNCHANGED <<files, records, next, recovery_required, state, pair, faults, acked>>

\* try_lock on .lock; a held lock is AlreadyLocked, which changes nothing.
OpenLock(h, r, l) ==
  /\ lock = NoHandle
  /\ Goto(h, "closed", "reading")
  /\ lock' = h
  /\ rules' = [rules EXCEPT ![h] = r]
  /\ limit' = [limit EXCEPT ![h] = l]
  /\ UNCHANGED <<files, records, next, recovery_required, state, pair, faults, acked>>

\* What follows the read of a log that replays up to its tail.
AfterRead(h, to, log) ==
  IF VerifyLog(log, CompletePrefixLen(log), rules[h])
    THEN /\ Goto(h, "reading", to)
         /\ records' = [records EXCEPT ![h] = log]
         /\ UNCHANGED <<lock, next, rules, limit, recovery_required, pair>>
    ELSE pc[h] = "reading" /\ Drop(h)

\* Mutants of OpenRead: the length before the truncation is kept; the last
\* complete frame is truncated with the torn one; recovery waits for a marked
\* intent.
OpenReadStaleLength(h) ==
  /\ FileLen <= limit[h] /\ Readable(disk)
  /\ torn' = FALSE
  /\ synced' = IF torn THEN FileLen ELSE synced
  /\ AfterRead(h, IF InterruptedTail(disk) THEN "recovering" ELSE "clearing", disk)
  /\ UNCHANGED <<disk, intent, state, faults, acked>>
OpenReadTruncatesMore(h) ==
  LET kept == IF torn /\ disk # <<>> THEN SubSeq(disk, 1, Len(disk) - 1) ELSE disk
  IN  /\ FileLen <= limit[h] /\ Readable(disk)
      /\ disk' = kept /\ torn' = FALSE /\ synced' = Len(kept)
      /\ AfterRead(h, IF InterruptedTail(kept) THEN "recovering" ELSE "clearing", kept)
      /\ UNCHANGED <<intent, state, faults, acked>>
OpenReadOnIntent(h) ==
  /\ FileLen <= limit[h] /\ Readable(disk)
  /\ torn' = FALSE
  /\ synced' = IF torn THEN Len(disk) ELSE synced
  /\ AfterRead(h, IF InterruptedTail(disk) /\ intent.written THEN "recovering" ELSE "clearing", disk)
  /\ UNCHANGED <<disk, intent, state, faults, acked>>

\* FileLog::open: the size check, the read, the truncation of a torn tail.
\* Then every complete pair must replay under the rules.
OpenRead(h) ==
  /\ FileLen <= limit[h]
  /\ Readable(disk)
  /\ torn' = FALSE
  /\ synced' = IF torn THEN Len(disk) ELSE synced
  /\ AfterRead(h, IF InterruptedTail(disk) THEN "recovering" ELSE "clearing", disk)
  /\ UNCHANGED <<disk, intent, state, faults, acked>>

\* The file is larger than the limit of this open, or a frame is unreadable.
OpenRefused(h) ==
  /\ pc[h] = "reading"
  /\ FileLen > limit[h] \/ ~Readable(disk)
  /\ Drop(h)
  /\ UNCHANGED <<files, state, faults, acked>>

\* The append of a recovered verdict, up to the write.
AppendRecovered(h, subject, res) ==
  /\ IF Fits(h, 1)
       THEN /\ Goto(h, "recovering", "recoverSync")
            /\ PutFrame(MaterializeVerdict(subject, res))
            /\ UNCHANGED <<lock, writer, pair>>
       ELSE pc[h] = "recovering" /\ Drop(h) /\ UNCHANGED <<disk, torn>>
  /\ UNCHANGED <<synced, intent, state, faults, acked>>

\* Mutant of RecoverWrite: an interrupted commit is taken to be accepted.
RecoverAccepting(h) == AppendRecovered(h, records[h][Len(records[h])], "Accept")

\* recover, up to the write in append: the verdict of the trailing subject is
\* recomputed from the records before it.  The intent file is not consulted.
RecoverWrite(h) ==
  LET recs == records[h]
      subject == recs[Len(recs)]
  IN  AppendRecovered(h, subject, VerifyRecord(BuildState(recs, Len(recs) - 1), subject.prop, rules[h]))

\* The rest of that append: sync_data, then the in-memory push.
RecoverSync(h) ==
  /\ Goto(h, "recoverSync", "clearing")
  /\ synced' = Len(disk)
  /\ records' = [records EXCEPT ![h] = Append(@, disk[Len(disk)])]
  /\ UNCHANGED <<disk, torn, intent, lock, next, rules, limit, recovery_required,
                 state, pair, faults, acked>>

\* The end of recover and of open: the intent file goes, the whole log must
\* replay, and the clock continues from the last record.
OpenFinish(h) ==
  LET recs == records[h]
  IN  /\ intent' = NoIntent
      /\ IF VerifyLog(recs, Len(recs), rules[h])
           THEN /\ Goto(h, "clearing", "idle")
                /\ next' = [next EXCEPT ![h] = Len(recs) + 1]
                /\ UNCHANGED <<lock, records, rules, limit, recovery_required, pair>>
           ELSE pc[h] = "clearing" /\ Drop(h)
      /\ UNCHANGED <<disk, torn, synced, state, faults, acked>>

\* A host that reopened rebuilds its State from the log it now holds.
Rebuild(h) ==
  /\ pc[h] = "idle"
  /\ state' = [state EXCEPT ![h] = BuildState(records[h], Len(records[h]))]
  /\ UNCHANGED <<files, lock, pc, writer, pair, faults, acked>>

Close(h) ==
  /\ pc[h] = "idle"
  /\ Drop(h)
  /\ UNCHANGED <<files, state, faults, acked>>

-----------------------------------------------------------------------------
(* commit_inner *)

\* Mutant of Writable: the State of the caller is trusted.
WritableAnyState(h) == ~recovery_required[h]

\* ensure_writable and ensure_state_matches.  ensure_rules_match compares the
\* rules of the call with those of the handle: only a matching call goes on.
Writable(h) ==
  /\ ~recovery_required[h]
  /\ state[h] = BuildState(records[h], Len(records[h]))

\* Mutant of CommitPrepare: room is reserved for the subject alone.
PrepareOneFrame(h, p) ==
  LET subject == Subject(p, next[h])
      res == VerifyRecord(state[h], p, rules[h])
  IN  /\ Goto(h, "idle", "intentFalse")
      /\ Writable(h) /\ ~Exhausted(h) /\ Fits(h, 1)
      /\ pair' = [pair EXCEPT ![h] = <<subject, MaterializeVerdict(subject, res)>>]
      /\ UNCHANGED <<files, lock, writer, state, faults, acked>>

\* The preflight: everything that can refuse the proposal does so before the
\* first write, and both records are materialized and measured.
CommitPrepare(h, p) ==
  LET subject == Subject(p, next[h])
      res == VerifyRecord(state[h], p, rules[h])
  IN  /\ Goto(h, "idle", "intentFalse")
      /\ Writable(h)
      /\ ~Exhausted(h)
      /\ Fits(h, 2)
      /\ pair' = [pair EXCEPT ![h] = <<subject, MaterializeVerdict(subject, res)>>]
      /\ UNCHANGED <<files, lock, writer, state, faults, acked>>

\* Mutant of WriteIntentFalse: an error in the durable phase leaves the handle
\* writable.
IntentWithoutFlag(h) ==
  /\ Goto(h, "intentFalse", "writeSubject")
  /\ intent' = Intent(pair[h][1], FALSE)
  /\ UNCHANGED <<disk, torn, synced, lock, writer, state, pair, faults, acked>>

\* Step 3: the intent is durable; from here an error means reopen.
WriteIntentFalse(h) ==
  /\ Goto(h, "intentFalse", "writeSubject")
  /\ intent' = Intent(pair[h][1], FALSE)
  /\ recovery_required' = [recovery_required EXCEPT ![h] = TRUE]
  /\ UNCHANGED <<disk, torn, synced, lock, records, next, rules, limit, state, pair, faults, acked>>

\* FileLog::append up to sync_data: the capacity check, then the frame.
WriteFrame(h, rec, from, to) ==
  /\ IF Fits(h, 1)
       THEN Goto(h, from, to) /\ PutFrame(rec) /\ UNCHANGED pair
       ELSE /\ Goto(h, from, "idle")
            /\ pair' = [pair EXCEPT ![h] = NoPair]
            /\ UNCHANGED <<disk, torn>>
  /\ UNCHANGED <<synced, intent, lock, writer, state, faults, acked>>

\* Mutant of SyncFrame: append returns without sync_data.
PushFrame(h, rec, from, to) ==
  /\ Goto(h, from, to)
  /\ records' = [records EXCEPT ![h] = Append(@, rec)]
  /\ UNCHANGED <<files, lock, next, rules, limit, recovery_required, state, pair, faults, acked>>

\* FileLog::append from sync_data on: the frame is durable and in memory.
SyncFrame(h, rec, from, to) ==
  /\ Goto(h, from, to)
  /\ synced' = Len(disk)
  /\ records' = [records EXCEPT ![h] = Append(@, rec)]
  /\ UNCHANGED <<disk, torn, intent, lock, next, rules, limit, recovery_required,
                 state, pair, faults, acked>>

WriteSubject(h) == WriteFrame(h, pair[h][1], "writeSubject", "syncSubject")
SyncSubject(h)  == SyncFrame(h, pair[h][1], "syncSubject", "intentTrue")

WriteIntentTrue(h) ==
  /\ Goto(h, "intentTrue", "writeVerdict")
  /\ intent' = Intent(pair[h][1], TRUE)
  /\ UNCHANGED <<disk, torn, synced, lock, writer, state, pair, faults, acked>>

WriteVerdict(h) == WriteFrame(h, pair[h][2], "writeVerdict", "syncVerdict")
SyncVerdict(h)  == SyncFrame(h, pair[h][2], "syncVerdict", "clearIntent")

\* Step 6: the intent goes, the caller's State is folded, two times are
\* consumed, the handle is writable again, and commit returns Ok.
CommitFinish(h) ==
  /\ Goto(h, "clearIntent", "idle")
  /\ intent' = NoIntent
  /\ state' = [state EXCEPT ![h] = ApplyRecord(@, pair[h][1], pair[h][2].result)]
  /\ next' = [next EXCEPT ![h] = @ + 2]
  /\ recovery_required' = [recovery_required EXCEPT ![h] = FALSE]
  /\ pair' = [pair EXCEPT ![h] = NoPair]
  /\ acked' = Len(records[h])
  /\ UNCHANGED <<disk, torn, synced, lock, records, rules, limit, faults>>

-----------------------------------------------------------------------------
(* Faults *)

Opening == {"reading", "recovering", "recoverSync", "clearing"}
Writing == {"recovering", "writeSubject", "writeVerdict"}

Fault == faults < MaxFaults /\ faults' = faults + 1

\* What a step that fails half-way may leave of the tail of records.log: a
\* part of the frame it was writing, or the torn tail it was truncating gone.
TornAfter(h) ==
  CASE pc[h] \in Writing -> {torn, TRUE}
    [] pc[h] = "reading" /\ FileLen <= limit[h] -> {torn, FALSE}
    [] OTHER -> {torn}

\* What a step that fails half-way may leave of the .intent file: the old
\* content or the new one, never a part of it (rename, then directory sync).
IntentAfter(h) ==
  CASE pc[h] = "intentFalse" -> {intent, Intent(pair[h][1], FALSE)}
    [] pc[h] = "intentTrue" -> {intent, Intent(pair[h][1], TRUE)}
    [] pc[h] \in {"clearing", "clearIntent"} -> {intent, NoIntent}
    [] OTHER -> {intent}

\* The call a handle is in fails.  A write may have left a part of its frame.
\* open drops the handle; commit returns and leaves recovery_required as it is.
IoError(h) ==
  /\ Fault
  /\ pc[h] \notin {"closed", "idle"}
  /\ torn' \in TornAfter(h)
  /\ intent' \in IntentAfter(h)
  /\ IF pc[h] \in Opening
       THEN Drop(h)
       ELSE /\ pc' = [pc EXCEPT ![h] = "idle"]
            /\ pair' = [pair EXCEPT ![h] = NoPair]
            /\ UNCHANGED <<lock, writer>>
  /\ UNCHANGED <<disk, synced, state, acked>>

\* The process dies; the operating system keeps what it wrote and drops its
\* lock.
Crash(h) ==
  /\ Fault
  /\ pc[h] # "closed"
  /\ torn' \in TornAfter(h)
  /\ intent' \in IntentAfter(h)
  /\ Drop(h)
  /\ state' = [state EXCEPT ![h] = NewState]
  /\ UNCHANGED <<disk, synced, acked>>

\* The machine stops: every process dies and any part of what no sync_data
\* covered is gone.
PowerLoss ==
  /\ Fault
  /\ \E n \in synced..Len(disk) :
       /\ disk' = SubSeq(disk, 1, n)
       /\ torn' \in {FALSE, torn \/ n < Len(disk) \/ \E h \in Handles : pc[h] \in Writing}
  /\ intent' \in {intent} \union UNION {IntentAfter(h) : h \in Handles}
  /\ lock' = NoHandle
  /\ pc' = [h \in Handles |-> "closed"]
  /\ records' = [h \in Handles |-> <<>>]
  /\ next' = [h \in Handles |-> 1]
  /\ rules' = [h \in Handles |-> NoRules]
  /\ limit' = [h \in Handles |-> 0]
  /\ recovery_required' = [h \in Handles |-> FALSE]
  /\ state' = [h \in Handles |-> NewState]
  /\ pair' = [h \in Handles |-> NoPair]
  /\ UNCHANGED <<synced, acked>>

-----------------------------------------------------------------------------

OpenStep(h) == OpenRead(h) \/ OpenRefused(h) \/ RecoverWrite(h) \/ RecoverSync(h) \/ OpenFinish(h)

CommitStep(h) ==
  \/ WriteIntentFalse(h) \/ WriteSubject(h) \/ SyncSubject(h)
  \/ WriteIntentTrue(h) \/ WriteVerdict(h) \/ SyncVerdict(h) \/ CommitFinish(h)

Next ==
  \/ \E h \in Handles :
       \/ \E r \in Rules, l \in Limits : OpenLock(h, r, l)
       \/ OpenStep(h)
       \/ Rebuild(h)
       \/ \E p \in Proposals : CommitPrepare(h, p)
       \/ CommitStep(h)
       \/ Close(h)
       \/ IoError(h)
       \/ Crash(h)
  \/ PowerLoss

Spec == Init /\ [][Next]_vars

\* The code of a handle runs on; a host opens a log nobody holds, and drops a
\* handle that asks for recovery.
FairSpec ==
  /\ Spec
  /\ \A h \in Handles :
       /\ WF_vars(OpenStep(h))
       /\ WF_vars(CommitStep(h))
       /\ WF_vars(recovery_required[h] /\ Close(h))
  /\ WF_vars(\E h \in Handles, r \in Rules, l \in Limits : OpenLock(h, r, l))

-----------------------------------------------------------------------------
(* Properties *)

Committing == {"intentFalse", "writeSubject", "syncSubject", "intentTrue",
               "writeVerdict", "syncVerdict", "clearIntent"}
Steps == {"closed", "idle"} \union Opening \union Committing

States == [accepted : SUBSET (Nat \X Proposals), applied_up_to : Nat]

\* The type invariant: a sync covers only frames that are there, a truncation or
\* a power loss keeps the sync mark within the file, and so is what was acknowledged.
TypeOK ==
  /\ disk \in Seq(Record)
  /\ torn \in BOOLEAN
  /\ synced \in 0..Len(disk)
  /\ intent \in {NoIntent} \union [subject : Nat \X Proposals, written : BOOLEAN]
  /\ lock \in Handles \union {NoHandle}
  /\ pc \in [Handles -> Steps]
  /\ records \in [Handles -> Seq(Record)]
  /\ next \in [Handles -> Nat]
  /\ rules \in [Handles -> Rules \union {NoRules}]
  /\ limit \in [Handles -> Nat]
  /\ recovery_required \in [Handles -> BOOLEAN]
  /\ state \in [Handles -> States]
  /\ pair \in [Handles -> {NoPair} \union (Record \X Record)]
  /\ faults \in 0..MaxFaults
  /\ acked \in 0..Len(disk)

\* Only the holder of .lock is past open_with_max_bytes' try_lock.
SingleWriter == \A h \in Handles : pc[h] # "closed" => lock = h

\* Records stand at their time; each subject but a trailing one is followed by
\* its own verdict; a verdict stands nowhere else and no frame is garbage.
Paired(log) ==
  \A i \in 1..Len(log) :
    /\ log[i].time = i
    /\ log[i].kind = "Subject" /\ i < Len(log) =>
         log[i + 1] = MaterializeVerdict(log[i], log[i + 1].result)
    /\ log[i].kind # "Subject" =>
         log[i].kind = "Verdict" /\ i > 1 /\ log[i - 1].kind = "Subject"

\* Neither commits nor recoveries, whatever interrupts them, bury a torn frame,
\* orphan a subject that is not the last record, or leave a gap in time.
PairedLog == Paired(disk)

\* The log of a handle that accepts commits replays whole under its rules:
\* what commit returned Ok for, a later open accepts.
WholeLogReplays ==
  \A h \in Handles :
    pc[h] = "idle" /\ ~recovery_required[h] => VerifyLog(disk, Len(disk), rules[h])

\* A handle that accepts commits holds exactly the file, which a reopen under
\* its rules accepts whole, and a clock that continues it.
ReplayableHandle ==
  /\ \A h \in Handles :
       pc[h] = "idle" /\ ~recovery_required[h] =>
         /\ records[h] = disk
         /\ ~torn
         /\ next[h] = Len(disk) + 1
  /\ WholeLogReplays

\* What commit acknowledged is durable: no power loss can take it.
AckedDurable == acked <= synced

\* No step changes or removes an acknowledged record.
AckedStable ==
  [][\A i \in 1..acked : i <= Len(disk') /\ disk'[i] = disk[i]]_vars

\* Every State a host holds is the fold of a prefix of the log as it is now:
\* folding pair by pair agrees with rebuilding, and no lost write is in it.
StatesArePrefixes ==
  \A h \in Handles :
    /\ state[h].applied_up_to <= Len(disk)
    /\ state[h] = BuildState(disk, state[h].applied_up_to)

\* The clock never saturates: a commit is refused before it would need a time
\* that is not representable, and every record stands below Time::MAX.
ClockInRange ==
  /\ \A h \in Handles : next[h] <= MaxTime
  /\ \A i \in 1..Len(disk) : disk[i].time < MaxTime

\* What a handle and its host hold in memory agrees with the file: the records
\* and the clock of a usable handle, and every State, however stale.
HandleCoherent == ReplayableHandle /\ StatesArePrefixes /\ ClockInRange

\* The entries that a reader of the file finds decided.
DecidedEntries ==
  [k \in 1..(CompletePrefixLen(disk) \div 2) |->
     [prop |-> disk[2 * k - 1].prop, result |-> disk[2 * k].result]]

\* The verdict on p after the entries of a ledger.
DecideAfter(r, entries, p) ==
  VerifyRecord([accepted |-> {<<2 * k - 1, entries[k].prop>> :
                                k \in {j \in 1..Len(entries) : entries[j].result = "Accept"}},
                applied_up_to |-> 2 * Len(entries)], p, r)

Ledger == INSTANCE AtomicLedger WITH ledger <- DecidedEntries,
                                     acknowledged <- acked \div 2,
                                     Decide <- DecideAfter

\* Frames, syncs, intents, faults and recoveries together are an atomic
\* ledger: each commit, first attempt or completed by a recovery, takes effect
\* at one instant and on top of exactly what precedes it.
ImplementsLedger == Ledger!Spec

\* An interrupted commit is completed, whatever fault interrupted it; so where
\* every open uses one file limit, recovery always has room for the verdict.
Recovers == InterruptedTail(disk) ~> ~InterruptedTail(disk)
=============================================================================
