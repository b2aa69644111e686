--------------------------- MODULE LogWriterProofs ---------------------------
(***************************************************************************)
(* The commit protocol for any number of handles, proposals, rule sets, file *)
(* limits and faults, and any verifier: its safety, then that what a handle  *)
(* and its host hold in memory agrees with the file however commits were     *)
(* interrupted, then that frames, syncs, intents, faults and recoveries      *)
(* implement AtomicLedger.  Each part builds on the one before it.           *)
(***************************************************************************)
EXTENDS LogWriter, TLAPS, SequenceTheorems

\* The host proposes no record of kind Verdict: those are the verifier's own.
HostProposals == VerdictKind = {}

\* The handle's copy of the log is the file, and the file ends at a frame.
Mirrors(h) == records[h] = disk /\ ~torn

\* The file is one frame ahead of the handle's copy: written, not yet synced.
OneAhead(h, rec) == disk = Append(records[h], rec) /\ ~torn

\* The commit under way holds a subject for the next time and its verdict.
PairReady(h) ==
  /\ pair[h] \in Record \X Record
  /\ pair[h][1].kind = "Subject"
  /\ pair[h][1].time = next[h]
  /\ pair[h][2] = MaterializeVerdict(pair[h][1], pair[h][2].result)
  /\ pair[h][2].result \in Results

\* What a handle relies on at each point of open_with_max_bytes and of
\* commit_inner.
HandleInv(h) ==
  /\ pc[h] \in {"closed", "intentFalse"} \union Opening => ~recovery_required[h]
  /\ pc[h] \in Committing \ {"intentFalse"} => recovery_required[h]
  /\ pc[h] = "recovering" => Mirrors(h) /\ InterruptedTail(disk)
  /\ pc[h] = "recoverSync" =>
       OneAhead(h, disk[Len(disk)]) /\ disk # <<>> /\ ~InterruptedTail(disk)
  /\ pc[h] = "clearing" => Mirrors(h) /\ ~InterruptedTail(disk)
  /\ pc[h] = "idle" /\ ~recovery_required[h] =>
       Mirrors(h) /\ ~InterruptedTail(disk) /\ next[h] = Len(disk) + 1
  /\ pc[h] \in {"intentFalse", "writeSubject"} =>
       Mirrors(h) /\ ~InterruptedTail(disk) /\ next[h] = Len(disk) + 1 /\ PairReady(h)
  /\ pc[h] = "syncSubject" =>
       OneAhead(h, pair[h][1]) /\ next[h] = Len(disk) /\ PairReady(h)
  /\ pc[h] \in {"intentTrue", "writeVerdict"} =>
       /\ Mirrors(h) /\ next[h] = Len(disk) /\ PairReady(h)
       /\ disk # <<>> /\ disk[Len(disk)] = pair[h][1]
  /\ pc[h] = "syncVerdict" =>
       OneAhead(h, pair[h][2]) /\ next[h] = Len(disk) - 1 /\ PairReady(h)
  /\ pc[h] = "clearIntent" =>
       /\ Mirrors(h) /\ ~InterruptedTail(disk) /\ next[h] = Len(disk) - 1 /\ PairReady(h)
       /\ synced = Len(disk)

\* The inductive invariant.
IInv ==
  /\ TypeOK
  /\ SingleWriter
  /\ PairedLog
  /\ AckedDurable
  /\ \A h \in Handles : HandleInv(h)

-----------------------------------------------------------------------------
(* Facts about logs *)

LEMMA RecordTypes ==
  /\ \A s \in Record, res \in Results : MaterializeVerdict(s, res) \in Record
  /\ \A p \in Proposals, t \in Nat : Subject(p, t) \in Record
  /\ \A s \in Record : Id(s) \in Nat \X Proposals
BY DEF Record, MaterializeVerdict, Subject, Results, Id

\* A subject extends a log of complete pairs to one with an interrupted tail.
LEMMA AppendSubject ==
  ASSUME NEW log \in Seq(Record), Paired(log), ~InterruptedTail(log),
         NEW s \in Record, s.kind = "Subject", s.time = Len(log) + 1
  PROVE  Paired(Append(log, s)) /\ InterruptedTail(Append(log, s))
<1> DEFINE new == Append(log, s)
<1>1. /\ new \in Seq(Record) /\ Len(new) = Len(log) + 1 /\ new[Len(new)] = s
      /\ \A i \in 1..Len(log) : new[i] = log[i]
  OBVIOUS
<1>2. InterruptedTail(new)
  BY <1>1 DEF InterruptedTail
<1>3. ASSUME NEW i \in 1..Len(new) PROVE
        /\ new[i].time = i
        /\ new[i].kind = "Subject" /\ i < Len(new) =>
             new[i + 1] = MaterializeVerdict(new[i], new[i + 1].result)
        /\ new[i].kind # "Subject" =>
             new[i].kind = "Verdict" /\ i > 1 /\ new[i - 1].kind = "Subject"
  <2>1. CASE i = Len(new)
    BY <1>1, <2>1
  <2>2. CASE i < Len(log)
    BY <1>1, <2>2 DEF Paired
  <2>3. CASE i = Len(log)
    BY <1>1, <2>3 DEF Paired, InterruptedTail
  <2> QED BY <1>1, <2>1, <2>2, <2>3
<1> HIDE DEF new
<1>4. Paired(new)
  BY <1>3 DEF Paired
<1> QED BY <1>2, <1>4 DEF new

\* The verdict of a trailing subject completes the log.
LEMMA AppendVerdict ==
  ASSUME NEW log \in Seq(Record), Paired(log), InterruptedTail(log),
         NEW res \in Results
  PROVE  LET new == Append(log, MaterializeVerdict(log[Len(log)], res))
         IN  Paired(new) /\ ~InterruptedTail(new)
<1> DEFINE v == MaterializeVerdict(log[Len(log)], res)
           new == Append(log, v)
<1>1. log[Len(log)] \in Record /\ log[Len(log)].kind = "Subject" /\ log[Len(log)].time = Len(log)
  <2>1. Len(log) \in 1..Len(log)
    BY DEF InterruptedTail
  <2> QED BY <2>1 DEF Paired, InterruptedTail
<1>2. /\ v \in Record /\ v.kind = "Verdict" /\ v.time = Len(log) + 1
      /\ v = MaterializeVerdict(log[Len(log)], v.result)
  BY <1>1, RecordTypes DEF MaterializeVerdict
<1> HIDE DEF v
<1>3. /\ new \in Seq(Record) /\ Len(new) = Len(log) + 1 /\ new[Len(new)] = v
      /\ \A i \in 1..Len(log) : new[i] = log[i]
  BY <1>2
<1>4. ~InterruptedTail(new)
  BY <1>2, <1>3 DEF InterruptedTail
<1>5. ASSUME NEW i \in 1..Len(new) PROVE
        /\ new[i].time = i
        /\ new[i].kind = "Subject" /\ i < Len(new) =>
             new[i + 1] = MaterializeVerdict(new[i], new[i + 1].result)
        /\ new[i].kind # "Subject" =>
             new[i].kind = "Verdict" /\ i > 1 /\ new[i - 1].kind = "Subject"
  <2>1. CASE i = Len(new)
    BY <1>1, <1>2, <1>3, <2>1 DEF InterruptedTail
  <2>2. CASE i < Len(log)
    BY <1>3, <2>2 DEF Paired
  <2>3. CASE i = Len(log)
    BY <1>1, <1>2, <1>3, <2>3 DEF Paired
  <2> QED BY <1>3, <2>1, <2>2, <2>3
<1> HIDE DEF new
<1>6. Paired(new)
  BY <1>5 DEF Paired
<1> QED BY <1>4, <1>6 DEF new, v

\* What a power loss leaves of a paired log is paired.
LEMMA PrefixPaired ==
  ASSUME NEW log \in Seq(Record), Paired(log), NEW n \in 0..Len(log)
  PROVE  /\ SubSeq(log, 1, n) \in Seq(Record)
         /\ Len(SubSeq(log, 1, n)) = n
         /\ Paired(SubSeq(log, 1, n))
<1> DEFINE new == SubSeq(log, 1, n)
<1>1. new \in Seq(Record) /\ Len(new) = n /\ \A i \in 1..n : new[i] = log[i]
  OBVIOUS
<1> HIDE DEF new
<1>2. Paired(new)
  BY <1>1 DEF Paired
<1> QED BY <1>1, <1>2 DEF new
-----------------------------------------------------------------------------
(* The invariant holds initially, and every step preserves it *)

LEMMA InitInv == Init => IInv
<1> SUFFICES ASSUME Init PROVE IInv
  OBVIOUS
<1> USE DEF Init
<1>1. TypeOK
  <2>1. torn \in BOOLEAN
    OBVIOUS
  <2>2. disk \in Seq(Record) /\ synced \in 0..Len(disk) /\ acked \in 0..Len(disk)
    OBVIOUS
  <2>3. pc \in [Handles -> Steps]
    BY DEF Steps
  <2>4. state \in [Handles -> States]
    BY DEF NewState, States
  <2>5. faults \in 0..MaxFaults
    BY WriterConstants
  <2> QED BY <2>1, <2>2, <2>3, <2>4, <2>5 DEF TypeOK
<1>2. SingleWriter /\ PairedLog /\ AckedDurable
  BY DEF SingleWriter, PairedLog, Paired, AckedDurable
<1>3. \A h \in Handles : HandleInv(h)
  BY DEF HandleInv, Committing
<1> QED BY <1>1, <1>2, <1>3 DEF IInv

\* The handles other than the one that holds the lock are closed, and a closed
\* handle relies only on its fresh recovery_required.
LEMMA OthersInv ==
  ASSUME IInv, NEW h \in Handles, pc[h] # "closed" \/ lock = NoHandle,
         NEW x, pc' = [pc EXCEPT ![h] = x],
         \A g \in Handles \ {h} : recovery_required'[g] = recovery_required[g],
         HandleInv(h)'
  PROVE  /\ \A g \in Handles : HandleInv(g)'
         /\ \A g \in Handles \ {h} : pc'[g] = "closed"
<1>1. ASSUME NEW g \in Handles, g # h
      PROVE  pc[g] = "closed" /\ pc'[g] = "closed" /\ ~recovery_required[g]
  BY <1>1, WriterConstants DEF IInv, TypeOK, SingleWriter, HandleInv
<1>2. ASSUME NEW g \in Handles, g # h PROVE HandleInv(g)'
  <2>1. pc'[g] = "closed" /\ ~recovery_required'[g]
    BY <1>1, <1>2
  <2> QED BY <2>1 DEF HandleInv, Committing
<1> QED BY <1>1, <1>2

LEMMA OpenLockInv ==
  ASSUME IInv, NEW h \in Handles, NEW r \in Rules, NEW l \in Limits, OpenLock(h, r, l)
  PROVE  IInv'
<1> USE DEF OpenLock, Goto, files
<1>1. TypeOK'
  BY WriterConstants DEF IInv, TypeOK, Steps, Opening
<1>2. HandleInv(h)'
  BY DEF IInv, TypeOK, HandleInv, Committing
<1>3. \A g \in Handles : HandleInv(g)'
  BY <1>2, OthersInv
<1>4. SingleWriter'
  BY <1>2, OthersInv DEF IInv, TypeOK, SingleWriter
<1>5. PairedLog' /\ AckedDurable'
  BY DEF IInv, PairedLog, AckedDurable
<1> QED BY <1>1, <1>3, <1>4, <1>5 DEF IInv

\* A handle that is dropped leaves every other handle as it was.
LEMMA DropInv ==
  ASSUME IInv, NEW h \in Handles, pc[h] # "closed", Drop(h),
         disk' = disk, synced' \in acked..Len(disk), acked' = acked, torn' \in BOOLEAN,
         faults' \in 0..MaxFaults, state' \in [Handles -> States],
         intent' \in {NoIntent} \union [subject : Nat \X Proposals, written : BOOLEAN]
  PROVE  IInv'
<1> USE DEF Drop
<1>1. TypeOK'
  <2>1. pc' \in [Handles -> Steps] /\ pair' \in [Handles -> {NoPair} \union (Record \X Record)]
    BY DEF IInv, TypeOK, Steps
  <2>2. records' \in [Handles -> Seq(Record)] /\ next' \in [Handles -> Nat]
    BY DEF IInv, TypeOK
  <2>3. /\ rules' \in [Handles -> Rules \union {NoRules}] /\ limit' \in [Handles -> Nat]
        /\ recovery_required' \in [Handles -> BOOLEAN]
    BY DEF IInv, TypeOK
  <2>4. synced' \in 0..Len(disk)' /\ acked' \in 0..Len(disk)'
    BY DEF IInv, TypeOK
  <2> QED BY <2>1, <2>2, <2>3, <2>4 DEF IInv, TypeOK
<1>2. HandleInv(h)'
  BY DEF IInv, TypeOK, HandleInv, Committing
<1>3. \A g \in Handles : HandleInv(g)'
  BY <1>2, OthersInv DEF IInv, TypeOK
<1>4. SingleWriter'
  BY <1>2, OthersInv DEF IInv, TypeOK, SingleWriter
<1>5. PairedLog' /\ AckedDurable'
  BY DEF IInv, TypeOK, PairedLog, AckedDurable
<1> QED BY <1>1, <1>3, <1>4, <1>5 DEF IInv

LEMMA StateTypes ==
  /\ \A log \in Seq(Record) : \A n \in 0..Len(log) : BuildState(log, n) \in States
  /\ \A st \in States, s \in Record, res \in Results \union {"None"} : ApplyRecord(st, s, res) \in States
<1>1. ASSUME NEW log \in Seq(Record), NEW n \in 0..Len(log) PROVE BuildState(log, n) \in States
  <2>1. \A i \in 1..n : Id(log[i]) \in Nat \X Proposals
    BY RecordTypes
  <2> QED BY <2>1 DEF BuildState, States
<1>2. ASSUME NEW st \in States, NEW s \in Record, NEW res \in Results \union {"None"}
      PROVE  ApplyRecord(st, s, res) \in States
  <2>1. Id(s) \in Nat \X Proposals /\ s.time \in Nat
    BY RecordTypes DEF Record
  <2> QED BY <2>1 DEF ApplyRecord, States
<1> QED BY <1>1, <1>2

LEMMA IntentTypes ==
  /\ NoIntent \in {NoIntent} \union [subject : Nat \X Proposals, written : BOOLEAN]
  /\ \A s \in Record, w \in BOOLEAN :
       Intent(s, w) \in {NoIntent} \union [subject : Nat \X Proposals, written : BOOLEAN]
BY RecordTypes DEF Intent

LEMMA OpenReadInv ==
  ASSUME IInv, NEW h \in Handles, OpenRead(h)
  PROVE  IInv'
<1>0. pc[h] = "reading"
  BY DEF OpenRead, AfterRead, Goto
<1>1. CASE VerifyLog(disk, CompletePrefixLen(disk), rules[h])
  <2> USE <1>1 DEF OpenRead, AfterRead, Goto
  <2>1. TypeOK'
    <3>1. torn' \in BOOLEAN
      OBVIOUS
    <3>2. synced' \in 0..Len(disk)'
      BY DEF IInv, TypeOK
    <3>3. pc' \in [Handles -> Steps]
      BY ZenonT(60) DEF IInv, TypeOK, Steps, Opening
    <3> QED BY <3>1, <3>2, <3>3 DEF IInv, TypeOK
  <2>2. HandleInv(h)'
    <3>1. pc'[h] = IF InterruptedTail(disk) THEN "recovering" ELSE "clearing"
      BY <1>0 DEF IInv, TypeOK
    <3>2. Mirrors(h)' /\ ~recovery_required'[h]
      BY <1>0 DEF IInv, TypeOK, Mirrors, HandleInv, Opening
    <3> QED BY <3>1, <3>2 DEF HandleInv, Committing, InterruptedTail
  <2>3. \A g \in Handles : HandleInv(g)'
    BY <1>0, <2>2, OthersInv
  <2>4. SingleWriter'
    BY <1>0, <2>2, OthersInv DEF IInv, TypeOK, SingleWriter
  <2>5. PairedLog' /\ AckedDurable'
    BY DEF IInv, TypeOK, PairedLog, AckedDurable
  <2> QED BY <2>1, <2>3, <2>4, <2>5 DEF IInv
<1>2. CASE ~VerifyLog(disk, CompletePrefixLen(disk), rules[h])
  <2> USE <1>2 DEF OpenRead, AfterRead
  <2>1. Drop(h) /\ pc[h] # "closed"
    BY <1>0
  <2>2. torn' \in BOOLEAN
    OBVIOUS
  <2>3. synced' \in acked..Len(disk)
    BY DEF IInv, TypeOK, AckedDurable
  <2> QED BY <2>1, <2>2, <2>3, DropInv DEF IInv, TypeOK
<1> QED BY <1>1, <1>2

LEMMA OpenRefusedInv ==
  ASSUME IInv, NEW h \in Handles, OpenRefused(h) \/ Close(h)
  PROVE  IInv'
<1>1. Drop(h) /\ pc[h] # "closed" /\ UNCHANGED <<files, state, faults, acked>>
  BY DEF OpenRefused, Close
<1>2. torn' \in BOOLEAN
  BY <1>1 DEF IInv, TypeOK, files
<1>3. synced' \in acked..Len(disk)
  BY <1>1 DEF IInv, TypeOK, AckedDurable, files
<1> QED BY <1>1, <1>2, <1>3, DropInv DEF IInv, TypeOK, files

LEMMA RecoverWriteInv ==
  ASSUME IInv, NEW h \in Handles, RecoverWrite(h)
  PROVE  IInv'
<1>0. pc[h] = "recovering"
  BY DEF RecoverWrite, AppendRecovered, Goto
<1>1. records[h] = disk /\ ~torn /\ InterruptedTail(disk)
  BY <1>0 DEF IInv, HandleInv, Mirrors
<1>2. CASE Fits(h, 1)
  <2> USE <1>2 DEF RecoverWrite, AppendRecovered, Goto
  <2> DEFINE res == VerifyRecord(BuildState(disk, Len(disk) - 1), disk[Len(disk)].prop, rules[h])
             v == MaterializeVerdict(disk[Len(disk)], res)
  <2>1. /\ pc' = [pc EXCEPT ![h] = "recoverSync"] /\ disk' = Append(disk, v) /\ torn' = FALSE
        /\ UNCHANGED <<synced, intent, lock, writer, pair, state, faults, acked>>
    BY <1>1 DEF PutFrame
  <2>2. res \in Results
    BY DEF VerifyRecord, Results
  <2>3. disk[Len(disk)] \in Record
    <3>1. Len(disk) \in 1..Len(disk)
      BY <1>1 DEF IInv, TypeOK, InterruptedTail
    <3> QED BY <3>1 DEF IInv, TypeOK
  <2>4. v \in Record
    BY <2>2, <2>3, RecordTypes
  <2>5. PairedLog' /\ ~InterruptedTail(disk')
    BY <1>1, <2>1, <2>2, AppendVerdict DEF IInv, TypeOK, PairedLog
  <2> HIDE DEF v
  <2>6. /\ disk' \in Seq(Record) /\ Len(disk') = Len(disk) + 1 /\ disk'[Len(disk')] = v
    BY <2>1, <2>4 DEF IInv, TypeOK
  <2>7. TypeOK'
    <3>1. torn' \in BOOLEAN
      BY <2>1
    <3>2. synced' \in 0..Len(disk') /\ acked' \in 0..Len(disk')
      BY <2>1, <2>6 DEF IInv, TypeOK
    <3>3. pc' \in [Handles -> Steps]
      BY <2>1 DEF IInv, TypeOK, Steps, Opening
    <3> QED BY <2>1, <2>6, <3>1, <3>2, <3>3 DEF IInv, TypeOK, writer
  <2>8. HandleInv(h)'
    <3>1. pc'[h] = "recoverSync" /\ ~recovery_required'[h]
      BY <1>0, <2>1 DEF IInv, TypeOK, HandleInv, Opening, writer
    <3>2. OneAhead(h, disk[Len(disk)])'
      BY <1>1, <2>1, <2>6 DEF OneAhead, writer
    <3>3. disk' # <<>>
      BY <2>6 DEF IInv, TypeOK
    <3> QED BY <2>5, <3>1, <3>2, <3>3 DEF HandleInv, Committing
  <2>9. \A g \in Handles : HandleInv(g)'
    BY <1>0, <2>1, <2>8, OthersInv DEF writer
  <2>10. SingleWriter'
    BY <1>0, <2>1, <2>8, OthersInv DEF IInv, TypeOK, SingleWriter, writer
  <2>11. AckedDurable'
    BY <2>1 DEF IInv, AckedDurable
  <2> QED BY <2>5, <2>7, <2>9, <2>10, <2>11 DEF IInv
<1>3. CASE ~Fits(h, 1)
  <2>1. /\ Drop(h) /\ pc[h] # "closed"
        /\ UNCHANGED <<disk, torn, synced, intent, state, faults, acked>>
    BY <1>0, <1>3 DEF RecoverWrite, AppendRecovered
  <2>2. torn' \in BOOLEAN
    BY <2>1 DEF IInv, TypeOK
  <2>3. synced' \in acked..Len(disk)
    BY <2>1 DEF IInv, TypeOK, AckedDurable
  <2> QED BY <2>1, <2>2, <2>3, DropInv DEF IInv, TypeOK
<1> QED BY <1>2, <1>3

LEMMA RecoverSyncInv ==
  ASSUME IInv, NEW h \in Handles, RecoverSync(h)
  PROVE  IInv'
<1> USE DEF RecoverSync, Goto
<1>1. pc[h] = "recoverSync" /\ OneAhead(h, disk[Len(disk)]) /\ ~InterruptedTail(disk)
  BY DEF IInv, HandleInv
<1>2. records' = [records EXCEPT ![h] = disk]
  BY <1>1 DEF OneAhead
<1>3. TypeOK'
  <2>1. pc' \in [Handles -> Steps]
    BY DEF IInv, TypeOK, Steps, Opening
  <2>2. synced' \in 0..Len(disk')
    BY DEF IInv, TypeOK
  <2> QED BY <1>2, <2>1, <2>2 DEF IInv, TypeOK
<1>4. HandleInv(h)'
  <2>1. pc'[h] = "clearing" /\ ~recovery_required'[h]
    BY <1>1 DEF IInv, TypeOK, HandleInv, Opening
  <2>2. Mirrors(h)'
    BY <1>1, <1>2 DEF IInv, TypeOK, Mirrors, OneAhead
  <2> QED BY <1>1, <2>1, <2>2 DEF HandleInv, Committing, InterruptedTail
<1>5. \A g \in Handles : HandleInv(g)'
  BY <1>1, <1>4, OthersInv
<1>6. SingleWriter'
  BY <1>1, <1>4, OthersInv DEF IInv, TypeOK, SingleWriter
<1>7. PairedLog' /\ AckedDurable'
  BY DEF IInv, TypeOK, PairedLog, AckedDurable
<1> QED BY <1>3, <1>5, <1>6, <1>7 DEF IInv

LEMMA OpenFinishInv ==
  ASSUME IInv, NEW h \in Handles, OpenFinish(h)
  PROVE  IInv'
<1>0. pc[h] = "clearing" /\ Mirrors(h) /\ ~InterruptedTail(disk) /\ ~recovery_required[h]
  BY DEF OpenFinish, Goto, IInv, HandleInv, Opening
<1>1. CASE VerifyLog(records[h], Len(records[h]), rules[h])
  <2> USE <1>1 DEF OpenFinish, Goto
  <2>1. next' = [next EXCEPT ![h] = Len(disk) + 1]
    BY <1>0 DEF Mirrors
  <2>2. TypeOK'
    <3>1. pc' \in [Handles -> Steps]
      BY ZenonT(60) DEF IInv, TypeOK, Steps
    <3>2. next' \in [Handles -> Nat]
      BY <2>1 DEF IInv, TypeOK
    <3> QED BY <3>1, <3>2 DEF IInv, TypeOK
  <2>3. HandleInv(h)'
    <3>1. pc'[h] = "idle" /\ next'[h] = Len(disk') + 1
      BY <2>1 DEF IInv, TypeOK
    <3>2. Mirrors(h)'
      BY <1>0 DEF Mirrors
    <3> QED BY <1>0, <3>1, <3>2 DEF HandleInv, Committing, Opening, InterruptedTail
  <2>4. \A g \in Handles : HandleInv(g)'
    BY <1>0, <2>3, OthersInv
  <2>5. SingleWriter'
    BY <1>0, <2>3, OthersInv DEF IInv, TypeOK, SingleWriter
  <2>6. PairedLog' /\ AckedDurable'
    BY DEF IInv, PairedLog, AckedDurable
  <2> QED BY <2>2, <2>4, <2>5, <2>6 DEF IInv
<1>2. CASE ~VerifyLog(records[h], Len(records[h]), rules[h])
  <2>1. /\ Drop(h) /\ pc[h] # "closed" /\ intent' = NoIntent
        /\ UNCHANGED <<disk, torn, synced, state, faults, acked>>
    BY <1>0, <1>2 DEF OpenFinish
  <2>2. torn' \in BOOLEAN
    BY <2>1 DEF IInv, TypeOK
  <2>3. synced' \in acked..Len(disk)
    BY <2>1 DEF IInv, TypeOK, AckedDurable
  <2> QED BY <2>1, <2>2, <2>3, DropInv DEF IInv, TypeOK
<1> QED BY <1>1, <1>2

LEMMA RebuildInv ==
  ASSUME IInv, NEW h \in Handles, Rebuild(h)
  PROVE  IInv'
<1> USE DEF Rebuild, files, writer
<1>1. state' \in [Handles -> States]
  BY StateTypes DEF IInv, TypeOK
<1>2. TypeOK'
  BY <1>1 DEF IInv, TypeOK
<1>3. SingleWriter' /\ PairedLog' /\ AckedDurable'
  BY DEF IInv, SingleWriter, PairedLog, AckedDurable
<1>4. \A g \in Handles : HandleInv(g)'
  BY DEF IInv, HandleInv, Mirrors, OneAhead, PairReady, InterruptedTail
<1> QED BY <1>2, <1>3, <1>4 DEF IInv

LEMMA CommitPrepareInv ==
  ASSUME HostProposals, IInv, NEW h \in Handles, NEW p \in Proposals, CommitPrepare(h, p)
  PROVE  IInv'
<1> USE DEF CommitPrepare, Goto, files, writer
<1> DEFINE s == Subject(p, next[h])
           v == MaterializeVerdict(s, VerifyRecord(state[h], p, rules[h]))
<1>0. /\ pc[h] = "idle" /\ Mirrors(h) /\ ~InterruptedTail(disk)
      /\ next[h] = Len(disk) + 1 /\ ~recovery_required[h]
  BY DEF IInv, HandleInv, Writable
<1>1. s \in Record /\ s.kind = "Subject" /\ s.time = next[h]
  <2>1. s \in Record
    BY RecordTypes DEF IInv, TypeOK
  <2> QED BY <2>1 DEF Subject, HostProposals
<1>2. v \in Record /\ v = MaterializeVerdict(s, v.result) /\ v.result \in Results
  <2>1. VerifyRecord(state[h], p, rules[h]) \in Results
    BY DEF VerifyRecord, Results
  <2>2. v \in Record
    BY <1>1, <2>1, RecordTypes
  <2> QED BY <2>1, <2>2 DEF MaterializeVerdict
<1>3. pair' = [pair EXCEPT ![h] = <<s, v>>]
  OBVIOUS
<1> HIDE DEF s, v
<1>4. TypeOK'
  <2>1. pc' \in [Handles -> Steps]
    BY DEF IInv, TypeOK, Steps, Committing
  <2>2. pair' \in [Handles -> {NoPair} \union (Record \X Record)]
    BY <1>1, <1>2, <1>3 DEF IInv, TypeOK
  <2> QED BY <2>1, <2>2 DEF IInv, TypeOK
<1>5. HandleInv(h)'
  <2>1. pc'[h] = "intentFalse" /\ pair'[h] = <<s, v>>
    BY <1>3 DEF IInv, TypeOK
  <2>2. PairReady(h)'
    BY <1>1, <1>2, <2>1 DEF PairReady
  <2>3. Mirrors(h)' /\ ~InterruptedTail(disk')
    BY <1>0 DEF Mirrors
  <2> QED BY <1>0, <2>1, <2>2, <2>3 DEF HandleInv, Committing, Opening
<1>6. \A g \in Handles : HandleInv(g)'
  BY <1>0, <1>5, OthersInv
<1>7. SingleWriter'
  BY <1>0, <1>5, OthersInv DEF IInv, TypeOK, SingleWriter
<1>8. PairedLog' /\ AckedDurable'
  BY DEF IInv, PairedLog, AckedDurable
<1> QED BY <1>4, <1>6, <1>7, <1>8 DEF IInv

LEMMA WriteIntentInv ==
  ASSUME IInv, NEW h \in Handles, WriteIntentFalse(h) \/ WriteIntentTrue(h)
  PROVE  IInv'
<1>0. /\ pc[h] \in {"intentFalse", "intentTrue"} /\ PairReady(h)
      /\ UNCHANGED <<disk, torn, synced, lock, records, next, rules, limit, state, pair, faults, acked>>
      /\ pc' = [pc EXCEPT ![h] = IF pc[h] = "intentFalse" THEN "writeSubject" ELSE "writeVerdict"]
  BY DEF WriteIntentFalse, WriteIntentTrue, Goto, IInv, HandleInv, writer
<1>1. recovery_required' = [recovery_required EXCEPT ![h] = TRUE]
  <2>1. CASE WriteIntentFalse(h)
    BY <2>1 DEF WriteIntentFalse
  <2>2. CASE WriteIntentTrue(h)
    <3>1. recovery_required[h] = TRUE
      BY <2>2 DEF WriteIntentTrue, Goto, IInv, TypeOK, HandleInv, Committing
    <3> QED BY <2>2, <3>1 DEF WriteIntentTrue, writer, IInv, TypeOK
  <2> QED BY <2>1, <2>2
<1>2. intent' \in {NoIntent} \union [subject : Nat \X Proposals, written : BOOLEAN]
  <2>1. pair[h][1] \in Record
    BY <1>0 DEF PairReady
  <2> QED BY <2>1, IntentTypes DEF WriteIntentFalse, WriteIntentTrue
<1>3. TypeOK'
  <2>1. pc' \in [Handles -> Steps]
    BY <1>0 DEF IInv, TypeOK, Steps, Committing
  <2> QED BY <1>0, <1>1, <1>2, <2>1 DEF IInv, TypeOK
<1>4. HandleInv(h)'
  <2>1. /\ pc'[h] = IF pc[h] = "intentFalse" THEN "writeSubject" ELSE "writeVerdict"
        /\ recovery_required'[h]
    BY <1>0, <1>1 DEF IInv, TypeOK
  <2>2. PairReady(h)' /\ (Mirrors(h) => Mirrors(h)') /\ (InterruptedTail(disk') <=> InterruptedTail(disk))
    BY <1>0 DEF PairReady, Mirrors
  <2>3. CASE pc[h] = "intentFalse"
    BY <1>0, <2>1, <2>2, <2>3 DEF IInv, HandleInv, Committing, Opening
  <2>4. CASE pc[h] = "intentTrue"
    BY <1>0, <2>1, <2>2, <2>4 DEF IInv, HandleInv, Committing, Opening
  <2> QED BY <1>0, <2>3, <2>4
<1>5. \A g \in Handles : HandleInv(g)'
  BY <1>0, <1>1, <1>4, OthersInv DEF IInv, TypeOK
<1>6. SingleWriter'
  BY <1>0, <1>1, <1>4, OthersInv DEF IInv, TypeOK, SingleWriter
<1>7. PairedLog' /\ AckedDurable'
  BY <1>0 DEF IInv, PairedLog, AckedDurable
<1> QED BY <1>3, <1>5, <1>6, <1>7 DEF IInv

\* A commit that fails returns to an idle handle that stays unwritable, or
\* has not touched the log.
LEMMA AbortInv ==
  ASSUME IInv, NEW h \in Handles, pc[h] \in Committing,
         pc' = [pc EXCEPT ![h] = "idle"], pair' = [pair EXCEPT ![h] = NoPair],
         UNCHANGED <<disk, synced, lock, writer, state, acked>>,
         torn' \in BOOLEAN, pc[h] = "intentFalse" => torn' = torn,
         faults' \in 0..MaxFaults,
         intent' \in {NoIntent} \union [subject : Nat \X Proposals, written : BOOLEAN]
  PROVE  IInv'
<1> USE DEF writer
<1>1. TypeOK'
  <2>1. pc' \in [Handles -> Steps]
    BY DEF IInv, TypeOK, Steps
  <2>2. pair' \in [Handles -> {NoPair} \union (Record \X Record)]
    BY DEF IInv, TypeOK
  <2> QED BY <2>1, <2>2 DEF IInv, TypeOK
<1>2. HandleInv(h)'
  <2>1. pc'[h] = "idle"
    BY DEF IInv, TypeOK
  <2>2. CASE pc[h] = "intentFalse"
    <3>1. Mirrors(h) /\ ~InterruptedTail(disk) /\ next[h] = Len(disk) + 1
      BY <2>2 DEF IInv, HandleInv
    <3>2. Mirrors(h)' /\ ~InterruptedTail(disk')
      BY <2>2, <3>1 DEF Mirrors
    <3> QED BY <2>1, <3>1, <3>2 DEF HandleInv, Committing, Opening
  <2>3. CASE pc[h] # "intentFalse"
    <3>1. recovery_required'[h]
      BY <2>3 DEF IInv, HandleInv
    <3> QED BY <2>1, <3>1 DEF HandleInv, Committing, Opening
  <2> QED BY <2>2, <2>3
<1>3. pc[h] # "closed"
  BY DEF Committing
<1>4. \A g \in Handles : HandleInv(g)'
  BY <1>2, <1>3, OthersInv
<1>5. SingleWriter'
  BY <1>2, <1>3, OthersInv DEF IInv, TypeOK, SingleWriter
<1>6. PairedLog' /\ AckedDurable'
  BY DEF IInv, PairedLog, AckedDurable
<1> QED BY <1>1, <1>4, <1>5, <1>6 DEF IInv

\* A frame that does not fit returns from commit without writing.
LEMMA WriteFullInv ==
  ASSUME IInv, NEW h \in Handles, WriteSubject(h) \/ WriteVerdict(h), ~Fits(h, 1)
  PROVE  IInv'
<1>1. /\ pc[h] \in {"writeSubject", "writeVerdict"}
      /\ pc' = [pc EXCEPT ![h] = "idle"] /\ pair' = [pair EXCEPT ![h] = NoPair]
      /\ UNCHANGED <<disk, torn, synced, intent, lock, writer, state, faults, acked>>
  BY DEF WriteSubject, WriteVerdict, WriteFrame, Goto
<1>2. torn' \in BOOLEAN
  BY <1>1 DEF IInv, TypeOK
<1> QED BY <1>1, <1>2, AbortInv DEF IInv, TypeOK, Committing

LEMMA WriteSubjectInv ==
  ASSUME IInv, NEW h \in Handles, WriteSubject(h), Fits(h, 1)
  PROVE  IInv'
<1> DEFINE s == pair[h][1]
<1>0. /\ pc[h] = "writeSubject" /\ Mirrors(h) /\ ~InterruptedTail(disk)
      /\ next[h] = Len(disk) + 1 /\ PairReady(h) /\ recovery_required[h]
  BY DEF WriteSubject, WriteFrame, Goto, IInv, HandleInv, Committing
<1>1. /\ pc' = [pc EXCEPT ![h] = "syncSubject"] /\ disk' = Append(disk, s) /\ torn' = FALSE
      /\ UNCHANGED <<synced, intent, lock, writer, state, pair, faults, acked>>
  BY <1>0 DEF WriteSubject, WriteFrame, Goto, PutFrame, Mirrors
<1>2. s \in Record /\ s.kind = "Subject" /\ s.time = Len(disk) + 1
  BY <1>0 DEF PairReady
<1> HIDE DEF s
<1>3. PairedLog'
  BY <1>0, <1>1, <1>2, AppendSubject DEF IInv, TypeOK, PairedLog
<1>4. disk' \in Seq(Record) /\ Len(disk') = Len(disk) + 1
  BY <1>1, <1>2 DEF IInv, TypeOK
<1>5. TypeOK'
  <2>1. torn' \in BOOLEAN
    BY <1>1
  <2>2. synced' \in 0..Len(disk') /\ acked' \in 0..Len(disk')
    BY <1>1, <1>4 DEF IInv, TypeOK
  <2>3. pc' \in [Handles -> Steps]
    BY <1>1 DEF IInv, TypeOK, Steps, Committing
  <2> QED BY <1>1, <1>4, <2>1, <2>2, <2>3 DEF IInv, TypeOK, writer
<1>6. HandleInv(h)'
  <2>1. pc'[h] = "syncSubject" /\ recovery_required'[h] /\ next'[h] = Len(disk')
    BY <1>0, <1>1, <1>4 DEF IInv, TypeOK, writer
  <2>2. OneAhead(h, pair[h][1])'
    BY <1>0, <1>1 DEF OneAhead, Mirrors, writer, s
  <2>3. PairReady(h)'
    BY <1>0, <1>1 DEF PairReady, writer
  <2> QED BY <2>1, <2>2, <2>3 DEF HandleInv, Committing, Opening
<1>7. \A g \in Handles : HandleInv(g)'
  BY <1>0, <1>1, <1>6, OthersInv DEF writer
<1>8. SingleWriter'
  BY <1>0, <1>1, <1>6, OthersInv DEF IInv, TypeOK, SingleWriter, writer
<1>9. AckedDurable'
  BY <1>1 DEF IInv, AckedDurable
<1> QED BY <1>3, <1>5, <1>7, <1>8, <1>9 DEF IInv

LEMMA WriteVerdictInv ==
  ASSUME IInv, NEW h \in Handles, WriteVerdict(h), Fits(h, 1)
  PROVE  IInv'
<1> DEFINE v == pair[h][2]
<1>0. /\ pc[h] = "writeVerdict" /\ Mirrors(h) /\ disk # <<>> /\ disk[Len(disk)] = pair[h][1]
      /\ next[h] = Len(disk) /\ PairReady(h) /\ recovery_required[h]
  BY DEF WriteVerdict, WriteFrame, Goto, IInv, HandleInv, Committing
<1>1. /\ pc' = [pc EXCEPT ![h] = "syncVerdict"] /\ disk' = Append(disk, v) /\ torn' = FALSE
      /\ UNCHANGED <<synced, intent, lock, writer, state, pair, faults, acked>>
  BY <1>0 DEF WriteVerdict, WriteFrame, Goto, PutFrame, Mirrors
<1>2. v \in Record /\ v = MaterializeVerdict(disk[Len(disk)], v.result)
  BY <1>0 DEF PairReady
<1>3. InterruptedTail(disk)
  <2>1. Len(disk) > 0
    BY <1>0 DEF IInv, TypeOK
  <2> QED BY <1>0, <2>1 DEF InterruptedTail, PairReady
<1>4. PairedLog' /\ ~InterruptedTail(disk')
  <2>2. v.result \in Results
    BY <1>0 DEF PairReady
  <2> QED BY <1>1, <1>2, <1>3, <2>2, AppendVerdict DEF IInv, TypeOK, PairedLog
<1> HIDE DEF v
<1>5. disk' \in Seq(Record) /\ Len(disk') = Len(disk) + 1
  BY <1>1, <1>2 DEF IInv, TypeOK
<1>6. TypeOK'
  <2>1. torn' \in BOOLEAN
    BY <1>1
  <2>2. synced' \in 0..Len(disk') /\ acked' \in 0..Len(disk')
    BY <1>1, <1>5 DEF IInv, TypeOK
  <2>3. pc' \in [Handles -> Steps]
    BY <1>1 DEF IInv, TypeOK, Steps, Committing
  <2> QED BY <1>1, <1>5, <2>1, <2>2, <2>3 DEF IInv, TypeOK, writer
<1>7. HandleInv(h)'
  <2>1. pc'[h] = "syncVerdict" /\ recovery_required'[h] /\ next'[h] = Len(disk') - 1
    BY <1>0, <1>1, <1>5 DEF IInv, TypeOK, writer
  <2>2. OneAhead(h, pair[h][2])'
    BY <1>0, <1>1 DEF OneAhead, Mirrors, writer, v
  <2>3. PairReady(h)'
    BY <1>0, <1>1 DEF PairReady, writer
  <2> QED BY <1>4, <2>1, <2>2, <2>3 DEF HandleInv, Committing, Opening
<1>8. \A g \in Handles : HandleInv(g)'
  BY <1>0, <1>1, <1>7, OthersInv DEF writer
<1>9. SingleWriter'
  BY <1>0, <1>1, <1>7, OthersInv DEF IInv, TypeOK, SingleWriter, writer
<1>10. AckedDurable'
  BY <1>1 DEF IInv, AckedDurable
<1> QED BY <1>4, <1>6, <1>8, <1>9, <1>10 DEF IInv

LEMMA SyncFrameInv ==
  ASSUME IInv, NEW h \in Handles, SyncSubject(h) \/ SyncVerdict(h)
  PROVE  IInv'
<1> DEFINE rec == IF pc[h] = "syncSubject" THEN pair[h][1] ELSE pair[h][2]
<1>0. /\ pc[h] \in {"syncSubject", "syncVerdict"} /\ OneAhead(h, rec) /\ PairReady(h)
      /\ next[h] = IF pc[h] = "syncSubject" THEN Len(disk) ELSE Len(disk) - 1
      /\ recovery_required[h] /\ pc[h] # "closed"
  BY DEF SyncSubject, SyncVerdict, SyncFrame, Goto, IInv, HandleInv, Committing
<1>1. /\ pc' = [pc EXCEPT ![h] = IF pc[h] = "syncSubject" THEN "intentTrue" ELSE "clearIntent"]
      /\ records' = [records EXCEPT ![h] = Append(@, rec)] /\ synced' = Len(disk)
      /\ UNCHANGED <<disk, torn, intent, lock, next, rules, limit, recovery_required, state, pair, faults, acked>>
  BY DEF SyncSubject, SyncVerdict, SyncFrame, Goto
<1>2. records' = [records EXCEPT ![h] = disk] /\ ~torn
  BY <1>0, <1>1 DEF OneAhead
<1>3. TypeOK'
  <2>1. pc' \in [Handles -> Steps]
    BY <1>1 DEF IInv, TypeOK, Steps, Committing
  <2>2. synced' \in 0..Len(disk')
    BY <1>1 DEF IInv, TypeOK
  <2> QED BY <1>1, <1>2, <2>1, <2>2 DEF IInv, TypeOK
<1>4. HandleInv(h)'
  <2>1. pc'[h] = (IF pc[h] = "syncSubject" THEN "intentTrue" ELSE "clearIntent")
        /\ recovery_required'[h]
    BY <1>0, <1>1 DEF IInv, TypeOK
  <2>2. Mirrors(h)' /\ PairReady(h)'
    BY <1>0, <1>1, <1>2 DEF IInv, TypeOK, Mirrors, PairReady
  <2>3. rec \in Record /\ records[h] \in Seq(Record)
    BY <1>0 DEF PairReady, IInv, TypeOK
  <2>4. disk # <<>> /\ disk[Len(disk)] = rec
    BY <1>0, <2>3 DEF OneAhead
  <2>5. CASE pc[h] = "syncSubject"
    BY <1>0, <1>1, <2>1, <2>2, <2>4, <2>5 DEF HandleInv, Committing, Opening
  <2>6. CASE pc[h] = "syncVerdict"
    <3>1. rec.kind = "Verdict"
      BY <1>0, <2>6 DEF PairReady, MaterializeVerdict
    <3>2. ~InterruptedTail(disk')
      BY <1>1, <2>4, <3>1 DEF InterruptedTail
    <3> QED BY <1>0, <1>1, <2>1, <2>2, <2>6, <3>2 DEF HandleInv, Committing, Opening
  <2> QED BY <1>0, <2>5, <2>6
<1>5. \A g \in Handles : HandleInv(g)'
  BY <1>0, <1>1, <1>4, OthersInv
<1>6. SingleWriter'
  BY <1>0, <1>1, <1>4, OthersInv DEF IInv, TypeOK, SingleWriter
<1>7. PairedLog' /\ AckedDurable'
  BY <1>1 DEF IInv, TypeOK, PairedLog, AckedDurable
<1> QED BY <1>3, <1>5, <1>6, <1>7 DEF IInv

LEMMA CommitFinishInv ==
  ASSUME IInv, NEW h \in Handles, CommitFinish(h)
  PROVE  IInv'
<1> USE DEF CommitFinish, Goto
<1>0. /\ pc[h] = "clearIntent" /\ Mirrors(h) /\ ~InterruptedTail(disk)
      /\ next[h] = Len(disk) - 1 /\ PairReady(h) /\ synced = Len(disk)
  BY DEF IInv, HandleInv
<1>1. state' \in [Handles -> States]
  <2>1. pair[h][1] \in Record /\ pair[h][2].result \in Results \union {"None"}
    BY <1>0 DEF PairReady, Record
  <2> QED BY <2>1, StateTypes DEF IInv, TypeOK
<1>2. next' = [next EXCEPT ![h] = Len(disk) + 1]
  BY <1>0 DEF IInv, TypeOK
<1>3. acked' = Len(disk)
  BY <1>0 DEF Mirrors
<1>4. TypeOK'
  <2>1. pc' \in [Handles -> Steps]
    BY DEF IInv, TypeOK, Steps
  <2>2. next' \in [Handles -> Nat] /\ acked' \in 0..Len(disk')
    BY <1>2, <1>3 DEF IInv, TypeOK
  <2>3. pair' \in [Handles -> {NoPair} \union (Record \X Record)]
    BY DEF IInv, TypeOK
  <2>4. recovery_required' \in [Handles -> BOOLEAN]
    BY DEF IInv, TypeOK
  <2> QED BY <1>1, <2>1, <2>2, <2>3, <2>4 DEF IInv, TypeOK
<1>5. HandleInv(h)'
  <2>1. pc'[h] = "idle" /\ next'[h] = Len(disk') + 1
    BY <1>2 DEF IInv, TypeOK
  <2>2. Mirrors(h)' /\ ~InterruptedTail(disk')
    BY <1>0 DEF Mirrors
  <2> QED BY <2>1, <2>2 DEF HandleInv, Committing, Opening
<1>6. \A g \in Handles : HandleInv(g)'
  BY <1>0, <1>5, OthersInv DEF IInv, TypeOK
<1>7. SingleWriter'
  BY <1>0, <1>5, OthersInv DEF IInv, TypeOK, SingleWriter
<1>8. PairedLog' /\ AckedDurable'
  BY <1>0, <1>3 DEF IInv, TypeOK, PairedLog, AckedDurable
<1> QED BY <1>4, <1>6, <1>7, <1>8 DEF IInv

\* What a step that fails may leave of the intent file is an intent.
LEMMA IntentAfterTypes ==
  ASSUME IInv, NEW h \in Handles
  PROVE  IntentAfter(h) \subseteq {NoIntent} \union [subject : Nat \X Proposals, written : BOOLEAN]
<1>1. pc[h] \in {"intentFalse", "intentTrue"} => pair[h][1] \in Record
  BY DEF IInv, HandleInv, PairReady
<1>2. intent \in {NoIntent} \union [subject : Nat \X Proposals, written : BOOLEAN]
  BY DEF IInv, TypeOK
<1>3. CASE pc[h] = "intentFalse"
  BY <1>1, <1>2, <1>3, IntentTypes DEF IntentAfter
<1>4. CASE pc[h] = "intentTrue"
  BY ZenonT(60), <1>1, <1>2, <1>4, IntentTypes DEF IntentAfter
<1>5. CASE pc[h] \notin {"intentFalse", "intentTrue"}
  BY <1>2, <1>5, IntentTypes DEF IntentAfter
<1> QED BY <1>3, <1>4, <1>5

LEMMA TornAfterTypes ==
  ASSUME IInv, NEW h \in Handles, torn' \in TornAfter(h)
  PROVE  torn' \in BOOLEAN /\ (pc[h] = "intentFalse" => torn' = torn)
<1>1. torn \in BOOLEAN
  BY DEF IInv, TypeOK
<1>2. torn' = torn \/ torn' = TRUE \/ torn' = FALSE
  BY DEF TornAfter
<1>3. torn' \in BOOLEAN
  BY <1>1, <1>2
<1>4. pc[h] = "intentFalse" => torn' = torn
  BY DEF TornAfter, Writing
<1> QED BY <1>3, <1>4

LEMMA IoErrorInv ==
  ASSUME IInv, NEW h \in Handles, IoError(h)
  PROVE  IInv'
<1>1. torn' \in BOOLEAN /\ (pc[h] = "intentFalse" => torn' = torn)
  BY TornAfterTypes DEF IoError
<1>2. intent' \in {NoIntent} \union [subject : Nat \X Proposals, written : BOOLEAN]
  BY IntentAfterTypes DEF IoError
<1>3. faults' \in 0..MaxFaults
  BY WriterConstants DEF IoError, Fault, IInv, TypeOK
<1>4. synced \in acked..Len(disk)
  BY DEF IInv, TypeOK, AckedDurable
<1>5. CASE pc[h] \in Opening
  <2>1. Drop(h) /\ pc[h] # "closed" /\ UNCHANGED <<disk, synced, state, acked>>
    BY <1>5 DEF IoError
  <2> QED BY <1>1, <1>2, <1>3, <1>4, <2>1, DropInv DEF IInv, TypeOK
<1>6. CASE pc[h] \notin Opening
  <2>1. /\ pc' = [pc EXCEPT ![h] = "idle"] /\ pair' = [pair EXCEPT ![h] = NoPair]
        /\ UNCHANGED <<disk, synced, lock, writer, state, acked>>
    BY <1>6 DEF IoError
  <2>2. pc[h] \in Committing
    BY <1>6 DEF IoError, IInv, TypeOK, Steps
  <2> QED BY <1>1, <1>2, <1>3, <2>1, <2>2, AbortInv
<1> QED BY <1>5, <1>6

LEMMA CrashInv ==
  ASSUME IInv, NEW h \in Handles, Crash(h)
  PROVE  IInv'
<1>1. torn' \in BOOLEAN
  BY TornAfterTypes DEF Crash
<1>2. intent' \in {NoIntent} \union [subject : Nat \X Proposals, written : BOOLEAN]
  BY IntentAfterTypes DEF Crash
<1>3. faults' \in 0..MaxFaults
  BY WriterConstants DEF Crash, Fault, IInv, TypeOK
<1>4. synced \in acked..Len(disk)
  BY DEF IInv, TypeOK, AckedDurable
<1>5. state' \in [Handles -> States]
  BY DEF Crash, IInv, TypeOK, NewState, States
<1>6. Drop(h) /\ pc[h] # "closed" /\ UNCHANGED <<disk, synced, acked>>
  BY DEF Crash
<1> QED BY <1>1, <1>2, <1>3, <1>4, <1>5, <1>6, DropInv

LEMMA PowerLossInv ==
  ASSUME IInv, PowerLoss
  PROVE  IInv'
<1>1. PICK n \in synced..Len(disk) :
        /\ disk' = SubSeq(disk, 1, n)
        /\ torn' \in {FALSE, torn \/ n < Len(disk) \/ \E h \in Handles : pc[h] \in Writing}
  BY DEF PowerLoss
<1>2. torn' \in BOOLEAN
  BY <1>1
<1>3. n \in 0..Len(disk) /\ synced \in 0..n /\ acked \in 0..n
  BY DEF IInv, TypeOK, AckedDurable
<1>4. disk' \in Seq(Record) /\ Len(disk') = n /\ PairedLog'
  BY <1>1, <1>3, PrefixPaired DEF IInv, TypeOK, PairedLog
<1>5. intent' \in {NoIntent} \union [subject : Nat \X Proposals, written : BOOLEAN]
  BY IntentAfterTypes DEF PowerLoss, IInv, TypeOK
<1>6. TypeOK'
  <2>1. faults' \in 0..MaxFaults
    BY WriterConstants DEF PowerLoss, Fault, IInv, TypeOK
  <2>2. pc' \in [Handles -> Steps] /\ lock' = NoHandle
    BY DEF PowerLoss, Steps
  <2>3. /\ records' \in [Handles -> Seq(Record)] /\ next' \in [Handles -> Nat]
        /\ rules' \in [Handles -> Rules \union {NoRules}] /\ limit' \in [Handles -> Nat]
        /\ recovery_required' \in [Handles -> BOOLEAN]
    BY DEF PowerLoss
  <2>4. state' \in [Handles -> States]
    BY DEF PowerLoss, NewState, States
  <2>5. pair' \in [Handles -> {NoPair} \union (Record \X Record)]
    BY DEF PowerLoss
  <2>6. synced' \in 0..Len(disk') /\ acked' \in 0..Len(disk')
    BY <1>3, <1>4 DEF PowerLoss
  <2> QED BY <1>2, <1>4, <1>5, <2>1, <2>2, <2>3, <2>4, <2>5, <2>6 DEF TypeOK
<1>7. SingleWriter' /\ AckedDurable'
  BY DEF PowerLoss, IInv, SingleWriter, AckedDurable
<1>8. ASSUME NEW h \in Handles PROVE HandleInv(h)'
  <2>1. pc'[h] = "closed" /\ ~recovery_required'[h]
    BY DEF PowerLoss
  <2> QED BY <2>1 DEF HandleInv, Committing
<1> QED BY <1>4, <1>6, <1>7, <1>8 DEF IInv

LEMMA NextInv ==
  ASSUME HostProposals, IInv, [Next]_vars
  PROVE  IInv'
<1>1. CASE UNCHANGED vars
  <2> USE <1>1 DEF vars, files, writer
  <2>1. TypeOK' /\ SingleWriter' /\ PairedLog' /\ AckedDurable'
    BY DEF IInv, TypeOK, SingleWriter, PairedLog, AckedDurable
  <2>2. \A h \in Handles : HandleInv(h)'
    BY DEF IInv, HandleInv, Mirrors, OneAhead, PairReady
  <2> QED BY <2>1, <2>2 DEF IInv
<1>2. ASSUME NEW h \in Handles, NEW r \in Rules, NEW l \in Limits, OpenLock(h, r, l) PROVE IInv'
  BY <1>2, OpenLockInv
<1>3. ASSUME NEW h \in Handles, OpenStep(h) PROVE IInv'
  BY <1>3, OpenReadInv, OpenRefusedInv, RecoverWriteInv, RecoverSyncInv, OpenFinishInv DEF OpenStep
<1>4. ASSUME NEW h \in Handles, Rebuild(h) PROVE IInv'
  BY <1>4, RebuildInv
<1>5. ASSUME NEW h \in Handles, NEW p \in Proposals, CommitPrepare(h, p) PROVE IInv'
  BY <1>5, CommitPrepareInv
<1>6. ASSUME NEW h \in Handles, CommitStep(h) PROVE IInv'
  BY <1>6, WriteIntentInv, WriteFullInv, WriteSubjectInv, WriteVerdictInv, SyncFrameInv,
     CommitFinishInv DEF CommitStep
<1>7. ASSUME NEW h \in Handles, Close(h) PROVE IInv'
  BY <1>7, OpenRefusedInv
<1>8. ASSUME NEW h \in Handles, IoError(h) \/ Crash(h) PROVE IInv'
  BY <1>8, IoErrorInv, CrashInv
<1>9. CASE PowerLoss
  BY <1>9, PowerLossInv
<1> QED BY <1>1, <1>2, <1>3, <1>4, <1>5, <1>6, <1>7, <1>8, <1>9 DEF Next

-----------------------------------------------------------------------------
(* The theorems *)

LEMMA Invariance ==
  ASSUME HostProposals PROVE Spec => []IInv
<1>1. Init => IInv
  BY InitInv
<1>2. IInv /\ [Next]_vars => IInv'
  BY NextInv
<1> QED BY <1>1, <1>2, PTL DEF Spec

\* Every variable keeps its type through every commit, recovery and fault.
THEOREM TypeCorrect ==
  ASSUME HostProposals PROVE Spec => []TypeOK
<1>1. IInv => TypeOK
  BY DEF IInv
<1> QED BY <1>1, Invariance, PTL

\* At most one handle is past try_lock.
THEOREM MutualExclusion ==
  ASSUME HostProposals PROVE Spec => []SingleWriter
<1>1. IInv => SingleWriter
  BY DEF IInv
<1> QED BY <1>1, Invariance, PTL

\* However commits are interrupted, records.log holds subjects at odd places,
\* each followed by its own verdict, and at most one trailing subject.
THEOREM LogStaysPaired ==
  ASSUME HostProposals PROVE Spec => []PairedLog
<1>1. IInv => PairedLog
  BY DEF IInv
<1> QED BY <1>1, Invariance, PTL

\* A commit that returned Ok survives a power loss.
THEOREM AckedIsDurable ==
  ASSUME HostProposals PROVE Spec => []AckedDurable
<1>1. IInv => AckedDurable
  BY DEF IInv
<1> QED BY <1>1, Invariance, PTL

\* A step that appends to the file, or leaves it, keeps what was acknowledged.
LEMMA StepKeepsAcked ==
  ASSUME IInv, [Next]_vars
  PROVE  \A i \in 1..acked : i <= Len(disk') /\ disk'[i] = disk[i]
<1>1. disk \in Seq(Record) /\ acked \in Nat /\ synced \in 0..Len(disk) /\ acked <= synced
  BY DEF IInv, TypeOK, AckedDurable
<1>2. CASE disk' = disk
  BY <1>1, <1>2
<1>3. ASSUME NEW rec, disk' = Append(disk, rec)
      PROVE  \A i \in 1..acked : i <= Len(disk') /\ disk'[i] = disk[i]
  BY <1>1, <1>3
<1>4. ASSUME NEW n \in synced..Len(disk), disk' = SubSeq(disk, 1, n)
      PROVE  \A i \in 1..acked : i <= Len(disk') /\ disk'[i] = disk[i]
  BY <1>1, <1>4
<1>5. ASSUME NEW h \in Handles, OpenStep(h)
      PROVE  disk' = disk \/ \E rec : disk' = Append(disk, rec)
  BY <1>5 DEF OpenStep, OpenRead, AfterRead, OpenRefused, RecoverWrite, AppendRecovered, RecoverSync, OpenFinish, PutFrame, files
<1>6. ASSUME NEW h \in Handles, CommitStep(h)
      PROVE  disk' = disk \/ \E rec : disk' = Append(disk, rec)
  BY <1>6 DEF CommitStep, WriteIntentFalse, WriteSubject, WriteVerdict, WriteFrame, SyncSubject,
     SyncVerdict, SyncFrame, WriteIntentTrue, CommitFinish, PutFrame
<1>7. CASE PowerLoss
  BY <1>4, <1>7 DEF PowerLoss
<1>8. CASE UNCHANGED vars
  BY <1>2, <1>8 DEF vars, files
<1>9. ASSUME NEW h \in Handles,
             \/ \E r \in Rules, l \in Limits : OpenLock(h, r, l)
             \/ Rebuild(h) \/ Close(h) \/ IoError(h) \/ Crash(h)
             \/ \E p \in Proposals : CommitPrepare(h, p)
      PROVE  disk' = disk
  BY <1>9 DEF OpenLock, Rebuild, Close, IoError, Crash, CommitPrepare, files
<1> QED BY <1>2, <1>3, <1>5, <1>6, <1>7, <1>8, <1>9 DEF Next

\* No commit, recovery, truncation or power loss changes or removes a record
\* that a commit acknowledged.
THEOREM AckedIsStable ==
  ASSUME HostProposals PROVE Spec => AckedStable
<1>1. IInv /\ [Next]_vars => [\A i \in 1..acked : i <= Len(disk') /\ disk'[i] = disk[i]]_vars
  BY StepKeepsAcked
<1> QED BY <1>1, Invariance, PTL DEF Spec, AckedStable

-----------------------------------------------------------------------------
(***************************************************************************)
(* Coherence: the proof of HandleCoherent.                                  *)
(***************************************************************************)

\* The host proposes nothing for a space other than that of the rules.  A
\* record of another space would be committed with a Reject, and no replay
\* takes such a log (the run rejected_replay).
OwnSpace == Foreign = {}

\* Subjects stand at the odd places of a log, verdicts at the even ones.
Alternates(log) ==
  \A i \in 1..Len(log) : log[i].kind = IF i % 2 = 1 THEN "Subject" ELSE "Verdict"

\* There is a time for the verdict of a trailing subject, and one to spare.
TimesLeft ==
  /\ \A h \in Handles : next[h] <= MaxTime
  /\ Len(disk) < MaxTime
  /\ InterruptedTail(disk) => Len(disk) + 1 < MaxTime

\* The commit under way was decided on the first n records, which replay under
\* the rules of the handle and are what its host's State was folded from.
DecidedOn(h, n) ==
  /\ VerifyLog(disk, n, rules[h])
  /\ state[h] = BuildState(disk, n)
  /\ pair[h][2].result = VerifyRecord(state[h], pair[h][1].prop, rules[h])
  /\ next[h] + 2 <= MaxTime

\* The handle has read or written every record it holds.
HoldsPrefix(h) ==
  Len(records[h]) <= Len(disk) /\ \A i \in 1..Len(records[h]) : records[h][i] = disk[i]

\* What the handle knows of the content of the file, beside its length.
ContentInv(h) ==
  /\ HoldsPrefix(h)
  /\ pc[h] # "closed" => rules[h] \in Rules
  /\ pc[h] = "idle" /\ ~recovery_required[h] => VerifyLog(disk, Len(disk), rules[h])
  /\ pc[h] \in {"intentFalse", "writeSubject"} => DecidedOn(h, Len(disk))
  /\ pc[h] \in {"syncSubject", "intentTrue", "writeVerdict"} =>
       /\ DecidedOn(h, Len(disk) - 1)
       /\ Len(disk) > 0 /\ disk[Len(disk)] = pair[h][1]
  /\ pc[h] \in {"syncVerdict", "clearIntent"} =>
       /\ VerifyLog(disk, Len(disk), rules[h])
       /\ Len(disk) > 1 /\ disk[Len(disk) - 1] = pair[h][1] /\ disk[Len(disk)] = pair[h][2]
       /\ state[h] = BuildState(disk, Len(disk) - 2)

\* The inductive invariant, on top of IInv.
CInv ==
  /\ Alternates(disk)
  /\ TimesLeft
  /\ StatesArePrefixes
  /\ \A h \in Handles : ContentInv(h)

-----------------------------------------------------------------------------
(* Facts about logs and the states folded from them *)

\* A verdict decides the subject before it.
LEMMA VerdictDecides ==
  ASSUME NEW log \in Seq(Record), Paired(log), NEW k \in 1..Len(log), log[k].kind # "Subject"
  PROVE  /\ k > 1 /\ log[k - 1].kind = "Subject" /\ log[k].kind = "Verdict"
         /\ log[k].cause = k - 1 /\ log[k].prop = log[k - 1].prop
<1>1. k > 1 /\ log[k - 1].kind = "Subject" /\ log[k].kind = "Verdict"
  BY DEF Paired
<1>2. k - 1 \in 1..Len(log) /\ k - 1 < Len(log) /\ (k - 1) + 1 = k
  BY <1>1
<1>3. log[k] = MaterializeVerdict(log[k - 1], log[k].result) /\ log[k - 1].time = k - 1
  <2> DEFINE i == k - 1
  <2>1. log[i].time = i /\ log[i + 1] = MaterializeVerdict(log[i], log[i + 1].result)
    BY <1>1, <1>2 DEF Paired
  <2> QED BY <1>2, <2>1
<1> QED BY <1>1, <1>3 DEF MaterializeVerdict

\* A subject is accepted by the verdict behind it, and by nothing else.
AcceptedAt(log, n, j) == log[j].kind = "Subject" /\ j < n /\ log[j + 1].result = "Accept"

LEMMA AcceptedByNext ==
  ASSUME NEW log \in Seq(Record), Paired(log), NEW n \in 0..Len(log)
  PROVE  BuildState(log, n) =
           [accepted |-> {Id(log[i]) : i \in {j \in 1..n : AcceptedAt(log, n, j)}},
            applied_up_to |-> n]
<1>1. ASSUME NEW j \in 1..n, log[j].kind # "Verdict",
             NEW k \in 1..n, log[k].kind = "Verdict", log[k].cause = log[j].time,
             log[k].result = "Accept"
      PROVE  AcceptedAt(log, n, j)
  <2>1. log[j].time = j /\ log[j].kind = "Subject"
    BY <1>1 DEF Paired
  <2>2. k > 1 /\ log[k].cause = k - 1
    BY <1>1, VerdictDecides
  <2>3. k = j + 1
    BY <1>1, <2>1, <2>2
  <2> QED BY <1>1, <2>1, <2>3 DEF AcceptedAt
<1>2. ASSUME NEW j \in 1..n, AcceptedAt(log, n, j)
      PROVE  /\ log[j].kind # "Verdict"
             /\ \E k \in 1..n : /\ log[k].kind = "Verdict" /\ log[k].cause = log[j].time
                                /\ log[k].prop = log[j].prop /\ log[k].result = "Accept"
  <2>1. j \in 1..Len(log) /\ j < Len(log) /\ j + 1 \in 1..n
    BY <1>2 DEF AcceptedAt
  <2>2. log[j + 1] = MaterializeVerdict(log[j], log[j + 1].result)
    BY <1>2, <2>1 DEF Paired, AcceptedAt
  <2>3. /\ log[j + 1].kind = "Verdict" /\ log[j + 1].cause = log[j].time
        /\ log[j + 1].prop = log[j].prop /\ log[j + 1].result = "Accept"
    BY <1>2, <2>2 DEF MaterializeVerdict, AcceptedAt
  <2> QED BY <1>2, <2>1, <2>3 DEF AcceptedAt
<1>3. {j \in 1..n : AcceptedAt(log, n, j)} =
        {j \in 1..n :
           /\ log[j].kind # "Verdict"
           /\ \E k \in 1..n : /\ log[k].kind = "Verdict" /\ log[k].cause = log[j].time
                              /\ log[k].prop = log[j].prop /\ log[k].result = "Accept"}
  BY <1>1, <1>2
<1> QED BY <1>3 DEF BuildState

\* What is folded from n records depends on those n records only.
LEMMA FoldOfPrefix ==
  ASSUME NEW log \in Seq(Record), NEW n \in 0..Len(log), NEW new, \A i \in 1..n : new[i] = log[i]
  PROVE  BuildState(new, n) = BuildState(log, n)
<1> DEFINE S(l) == {j \in 1..n :
                      /\ l[j].kind # "Verdict"
                      /\ \E k \in 1..n : /\ l[k].kind = "Verdict"
                                         /\ l[k].cause = l[j].time
                                         /\ l[k].prop = l[j].prop
                                         /\ l[k].result = "Accept"}
           Ids(l) == {Id(l[i]) : i \in S(l)}
<1>1. S(new) = S(log) /\ S(log) \subseteq 1..n
  OBVIOUS
<1>2. Ids(new) = Ids(log)
  <2> HIDE DEF S
  <2> QED BY <1>1
<1>3. /\ BuildState(new, n) = [accepted |-> Ids(new), applied_up_to |-> n]
      /\ BuildState(log, n) = [accepted |-> Ids(log), applied_up_to |-> n]
  BY DEF BuildState
<1> HIDE DEF Ids
<1> QED BY <1>2, <1>3

\* And so does whether they replay.
LEMMA ReplayOfPrefix ==
  ASSUME NEW log \in Seq(Record), NEW n \in 0..Len(log), NEW new, \A i \in 1..n : new[i] = log[i],
         NEW r, VerifyLog(log, n, r)
  PROVE  VerifyLog(new, n, r)
<1> SUFFICES ASSUME NEW i \in 1..n
             PROVE  /\ new[i].time = i
                    /\ new[i].kind # "Verdict" =>
                         /\ i < n
                         /\ new[i + 1] = MaterializeVerdict(new[i], VerifyRecord(BuildState(new, i - 1), new[i].prop, r))
                         /\ new[i].prop \notin Foreign
                    /\ new[i].kind = "Verdict" => i > 1 /\ new[i - 1].kind # "Verdict"
  BY DEF VerifyLog
<1>1. BuildState(new, i - 1) = BuildState(log, i - 1)
  <2>1. i - 1 \in 0..Len(log) /\ \A j \in 1..(i - 1) : new[j] = log[j]
    OBVIOUS
  <2> QED BY <2>1, FoldOfPrefix
<1>2. new[i] = log[i] /\ (i < n => new[i + 1] = log[i + 1]) /\ (i > 1 => new[i - 1] = log[i - 1])
  OBVIOUS
<1> QED BY <1>1, <1>2 DEF VerifyLog

\* A subject and the verdict that its prefix yields extend a log that replays.
LEMMA ReplayOfPair ==
  ASSUME OwnSpace, NEW log \in Seq(Record), NEW n \in 0..Len(log), n + 2 <= Len(log),
         Paired(log), NEW r, VerifyLog(log, n, r), log[n + 1].kind = "Subject",
         log[n + 2] = MaterializeVerdict(log[n + 1], VerifyRecord(BuildState(log, n), log[n + 1].prop, r))
  PROVE  VerifyLog(log, n + 2, r)
<1> SUFFICES ASSUME NEW i \in 1..(n + 2)
             PROVE  /\ log[i].time = i
                    /\ log[i].kind # "Verdict" =>
                         /\ i < n + 2
                         /\ log[i + 1] = MaterializeVerdict(log[i], VerifyRecord(BuildState(log, i - 1), log[i].prop, r))
                         /\ log[i].prop \notin Foreign
                    /\ log[i].kind = "Verdict" => i > 1 /\ log[i - 1].kind # "Verdict"
  BY DEF VerifyLog
<1>1. CASE i \in 1..n
  BY <1>1 DEF VerifyLog
<1>2. CASE i = n + 1
  <2>1. log[i].time = i
    BY <1>2 DEF Paired
  <2>2. i + 1 = n + 2 /\ i - 1 = n
    BY <1>2
  <2> QED BY <1>2, <2>1, <2>2 DEF OwnSpace
<1>3. CASE i = n + 2
  <2>1. log[i].time = i /\ i > 1 /\ log[i - 1].kind = "Subject"
    BY <1>3 DEF Paired
  <2>2. log[i].kind = "Verdict"
    BY <1>3 DEF MaterializeVerdict
  <2> QED BY <2>1, <2>2
<1> QED BY <1>1, <1>2, <1>3

\* Folding the pair into the State gives the State of the longer log.
LEMMA FoldOfPair ==
  ASSUME NEW log \in Seq(Record), Paired(log), NEW n \in 0..Len(log), n + 2 <= Len(log),
         log[n + 1].kind = "Subject"
  PROVE  ApplyRecord(BuildState(log, n), log[n + 1], log[n + 2].result) = BuildState(log, n + 2)
<1> DEFINE A(m) == {j \in 1..m : AcceptedAt(log, m, j)}
<1>1. \A j \in 1..n : AcceptedAt(log, n + 2, j) <=> AcceptedAt(log, n, j)
  <2>1. ASSUME n \in 1..n PROVE log[n].kind # "Subject"
    <3>1. n \in 1..Len(log) /\ n < Len(log)
      BY <2>1
    <3>2. log[n].kind = "Subject" => log[n + 1] = MaterializeVerdict(log[n], log[n + 1].result)
      BY <3>1 DEF Paired
    <3> QED BY <3>2 DEF MaterializeVerdict
  <2> QED BY <2>1 DEF AcceptedAt
<1>2. ~AcceptedAt(log, n + 2, n + 2)
  BY DEF AcceptedAt
<1>3. AcceptedAt(log, n + 2, n + 1) <=> log[n + 2].result = "Accept"
  BY DEF AcceptedAt
<1>4. A(n + 2) = A(n) \union (IF log[n + 2].result = "Accept" THEN {n + 1} ELSE {})
  <2>1. 1..(n + 2) = 1..n \union {n + 1, n + 2}
    OBVIOUS
  <2> HIDE DEF AcceptedAt
  <2> QED BY <1>1, <1>2, <1>3, <2>1
<1>5. log[n + 1].time + 1 = n + 2
  BY DEF Paired
<1> DEFINE Ids(m) == {Id(log[i]) : i \in A(m)}
<1>6. n + 2 \in 0..Len(log)
  OBVIOUS
<1>7. /\ BuildState(log, n) = [accepted |-> Ids(n), applied_up_to |-> n]
      /\ BuildState(log, n + 2) = [accepted |-> Ids(n + 2), applied_up_to |-> n + 2]
  BY <1>6, AcceptedByNext
<1>8. Ids(n + 2) = Ids(n) \union (IF log[n + 2].result = "Accept" THEN {Id(log[n + 1])} ELSE {})
  <2> HIDE DEF A
  <2>1. CASE log[n + 2].result = "Accept"
    BY <1>4, <2>1
  <2>2. CASE log[n + 2].result # "Accept"
    BY <1>4, <2>2
  <2> QED BY <2>1, <2>2
<1> HIDE DEF Ids
<1>9. CASE log[n + 2].result = "Accept"
  <2>1. Ids(n + 2) = BuildState(log, n).accepted \union {Id(log[n + 1])}
    BY <1>7, <1>8, <1>9
  <2> QED BY <1>5, <1>7, <1>9, <2>1 DEF ApplyRecord
<1>10. CASE log[n + 2].result # "Accept"
  <2>0. Ids(n + 2) = Ids(n)
    BY <1>8, <1>10
  <2>1. Ids(n + 2) = BuildState(log, n).accepted
    BY <1>7, <2>0
  <2> QED BY <1>5, <1>7, <1>10, <2>1 DEF ApplyRecord
<1> QED BY <1>9, <1>10

\* A log that stays paired keeps alternating.
LEMMA AppendAlternates ==
  ASSUME NEW log \in Seq(Record), Alternates(log), NEW rec \in Record, Paired(Append(log, rec))
  PROVE  Alternates(Append(log, rec))
<1> DEFINE new == Append(log, rec)
<1>1. /\ new \in Seq(Record) /\ Len(new) = Len(log) + 1 /\ Len(log) \in Nat
      /\ \A i \in 1..Len(log) : new[i] = log[i]
  OBVIOUS
<1>2. Paired(new)
  OBVIOUS
<1> HIDE DEF new
<1> SUFFICES ASSUME NEW i \in 1..Len(new)
             PROVE  new[i].kind = IF i % 2 = 1 THEN "Subject" ELSE "Verdict"
  BY DEF Alternates, new
<1>3. CASE i \in 1..Len(log)
  BY <1>1, <1>3 DEF Alternates
<1>4. CASE i = Len(log) + 1 /\ Len(log) = 0
  BY <1>1, <1>2, <1>4 DEF Paired
<1>5. CASE i = Len(log) + 1 /\ Len(log) # 0
  <2>1. i - 1 \in 1..Len(log) /\ i - 1 \in 1..Len(new) /\ i - 1 < Len(new) /\ (i - 1) + 1 = i
    BY <1>1, <1>5
  <2>2. new[i - 1].kind = IF (i - 1) % 2 = 1 THEN "Subject" ELSE "Verdict"
    BY <1>1, <2>1 DEF Alternates
  <2>3. new[i - 1].kind = "Subject" => new[i].kind = "Verdict"
    <3>1. new[i - 1].kind = "Subject" => new[(i - 1) + 1] = MaterializeVerdict(new[i - 1], new[(i - 1) + 1].result)
      BY <1>2, <2>1 DEF Paired
    <3> QED BY <2>1, <3>1 DEF MaterializeVerdict
  <2>4. new[i].kind # "Subject" => new[i - 1].kind = "Subject"
    BY <1>2 DEF Paired
  <2>5. (i - 1) % 2 = 1 <=> i % 2 # 1
    BY <2>1
  <2> QED BY <2>2, <2>3, <2>4, <2>5
<1> QED BY <1>1, <1>3, <1>4, <1>5

-----------------------------------------------------------------------------
(* Every step preserves the invariant *)

\* A step of one handle leaves the others closed: it keeps the invariant if it
\* keeps its own part, the clock in range and the State of its host a fold.
LEMMA StepOf ==
  ASSUME IInv, IInv', CInv, NEW h \in Handles, pc[h] # "closed" \/ lock = NoHandle,
         NEW x, pc' = [pc EXCEPT ![h] = x],
         disk' = disk \/ \E rec \in Record : disk' = Append(disk, rec),
         \A g \in Handles \ {h} : records'[g] = records[g] /\ next'[g] = next[g] /\ state'[g] = state[g],
         ContentInv(h)', next'[h] <= MaxTime, Len(disk') < MaxTime,
         InterruptedTail(disk') => Len(disk') + 1 < MaxTime,
         \/ state'[h] = state[h]
         \/ \E n \in 0..Len(disk') : state'[h] = BuildState(disk', n)
  PROVE  CInv'
<1> DEFINE log == disk
           new == disk'
<1>1. log \in Seq(Record) /\ new \in Seq(Record) /\ Paired(new)
  BY DEF IInv, TypeOK, PairedLog
<1>2. Len(log) <= Len(new) /\ \A i \in 1..Len(log) : new[i] = log[i]
  BY <1>1
<1>3. Alternates(new)
  BY <1>1, AppendAlternates DEF CInv
<1>4. TimesLeft'
  BY DEF TimesLeft, CInv
<1>5. ASSUME NEW g \in Handles, state'[g] = state[g]
      PROVE  state'[g].applied_up_to <= Len(new) /\ state'[g] = BuildState(new, state'[g].applied_up_to)
  <2>1. /\ state[g].applied_up_to \in 0..Len(log)
        /\ state[g] = BuildState(log, state[g].applied_up_to)
    BY SMTT(60) DEF CInv, StatesArePrefixes, IInv, TypeOK, States
  <2>2. BuildState(new, state[g].applied_up_to) = BuildState(log, state[g].applied_up_to)
    BY <1>1, <1>2, <2>1, FoldOfPrefix
  <2> QED BY <1>1, <1>2, <1>5, <2>1, <2>2
<1>6. ASSUME NEW n \in 0..Len(new), state'[h] = BuildState(new, n)
      PROVE  state'[h].applied_up_to <= Len(new) /\ state'[h] = BuildState(new, state'[h].applied_up_to)
  BY <1>1, <1>6 DEF BuildState
<1>7. StatesArePrefixes'
  BY <1>5, <1>6 DEF StatesArePrefixes
<1>8. ASSUME NEW g \in Handles, g # h PROVE ContentInv(g)'
  <2>1. pc'[g] = "closed"
    BY <1>8, WriterConstants DEF IInv, TypeOK, SingleWriter
  <2>2. HoldsPrefix(g)'
    <3>1. HoldsPrefix(g) /\ records'[g] = records[g] /\ records[g] \in Seq(Record)
      BY <1>8 DEF CInv, ContentInv, IInv, TypeOK
    <3> QED BY <1>1, <1>2, <3>1 DEF HoldsPrefix
  <2> QED BY <2>1, <2>2 DEF ContentInv
<1> QED BY <1>3, <1>4, <1>7, <1>8 DEF CInv

\* An empty log folds to the State of a host that starts.
LEMMA FoldOfNothing == \A log : BuildState(log, 0) = NewState
<1>1. \A log : {j \in 1..0 :
                  /\ log[j].kind # "Verdict"
                  /\ \E k \in 1..0 : /\ log[k].kind = "Verdict" /\ log[k].cause = log[j].time
                                     /\ log[k].prop = log[j].prop /\ log[k].result = "Accept"} = {}
  OBVIOUS
<1> QED BY <1>1 DEF BuildState, NewState

LEMMA InitCoherent == Init => CInv
<1> SUFFICES ASSUME Init PROVE CInv
  OBVIOUS
<1> USE DEF Init
<1>1. Alternates(disk) /\ ~InterruptedTail(disk) /\ Len(disk) = 0
  BY DEF Alternates, InterruptedTail
<1>2. TimesLeft
  BY <1>1, WriterConstants DEF TimesLeft
<1>3. BuildState(disk, 0) = NewState
  BY FoldOfNothing
<1>4. StatesArePrefixes
  <2>1. \A h \in Handles : state[h] = NewState /\ state[h].applied_up_to = 0
    BY DEF NewState
  <2> QED BY <1>1, <1>3, <2>1 DEF StatesArePrefixes
<1>5. \A h \in Handles : ContentInv(h)
  BY DEF ContentInv, HoldsPrefix
<1> QED BY <1>1, <1>2, <1>4, <1>5 DEF CInv

\* A handle that goes leaves nothing behind.
LEMMA DropCoherent ==
  ASSUME IInv, IInv', CInv, NEW h \in Handles, pc[h] # "closed", Drop(h), disk' = disk,
         \/ state' = state
         \/ state' = [state EXCEPT ![h] = NewState]
  PROVE  CInv'
<1> USE DEF Drop
<1>1. pc'[h] = "closed" /\ records'[h] = <<>> /\ next'[h] = 1
  BY DEF IInv, TypeOK
<1>2. ContentInv(h)'
  <2>1. HoldsPrefix(h)'
    BY <1>1 DEF HoldsPrefix, IInv, TypeOK
  <2> QED BY <1>1, <2>1 DEF ContentInv
<1>3. next'[h] <= MaxTime
  BY <1>1, WriterConstants
<1>4. \/ state'[h] = state[h]
      \/ \E n \in 0..Len(disk') : state'[h] = BuildState(disk', n)
  <2>1. CASE state' = [state EXCEPT ![h] = NewState]
    <3>1. state'[h] = BuildState(disk', 0) /\ 0 \in 0..Len(disk')
      BY <2>1, FoldOfNothing DEF IInv, TypeOK
    <3> QED BY <3>1
  <2> QED BY <2>1
<1>5. \A g \in Handles \ {h} : records'[g] = records[g] /\ next'[g] = next[g] /\ state'[g] = state[g]
  BY DEF IInv, TypeOK
<1>6. Len(disk') < MaxTime /\ (InterruptedTail(disk') => Len(disk') + 1 < MaxTime)
  BY DEF CInv, TimesLeft
<1> QED BY <1>2, <1>3, <1>4, <1>5, <1>6, StepOf

\* A step that leaves file, clock and State alone.
LEMMA QuietStep ==
  ASSUME IInv, IInv', CInv, NEW h \in Handles, pc[h] # "closed" \/ lock = NoHandle,
         NEW x, pc' = [pc EXCEPT ![h] = x], disk' = disk, next' = next, state' = state,
         \A g \in Handles \ {h} : records'[g] = records[g], ContentInv(h)'
  PROVE  CInv'
<1>1. next'[h] <= MaxTime /\ Len(disk') < MaxTime /\ (InterruptedTail(disk') => Len(disk') + 1 < MaxTime)
  BY DEF CInv, TimesLeft
<1> QED BY <1>1, StepOf

LEMMA OpenCoherent ==
  ASSUME IInv, IInv', CInv, NEW h \in Handles,
         \/ \E r \in Rules, l \in Limits : OpenLock(h, r, l)
         \/ OpenRead(h) \/ OpenRefused(h) \/ RecoverSync(h) \/ Close(h)
  PROVE  CInv'
<1>1. CASE \E r \in Rules, l \in Limits : OpenLock(h, r, l)
  <2>1. PICK r \in Rules, l \in Limits : OpenLock(h, r, l)
    BY <1>1
  <2> USE <2>1 DEF OpenLock, Goto, files
  <2>2. ContentInv(h)'
    <3>1. pc'[h] = "reading" /\ rules'[h] = r
      BY DEF IInv, TypeOK
    <3>2. HoldsPrefix(h)'
      BY DEF CInv, ContentInv, HoldsPrefix
    <3> QED BY <3>1, <3>2 DEF ContentInv
  <2> QED BY <2>2, QuietStep
<1>2. CASE OpenRead(h) /\ VerifyLog(disk, CompletePrefixLen(disk), rules[h])
  <2> USE <1>2 DEF OpenRead, AfterRead, Goto
  <2> DEFINE x == IF InterruptedTail(disk) THEN "recovering" ELSE "clearing"
  <2>1. pc[h] = "reading" /\ pc' = [pc EXCEPT ![h] = x] /\ pc'[h] \in {"recovering", "clearing"}
    BY DEF IInv, TypeOK
  <2>2. ContentInv(h)'
    <3>1. HoldsPrefix(h)'
      BY DEF HoldsPrefix, IInv, TypeOK
    <3>2. rules'[h] \in Rules
      BY <2>1 DEF CInv, ContentInv
    <3> QED BY <2>1, <3>1, <3>2 DEF ContentInv
  <2>3. \A g \in Handles \ {h} : records'[g] = records[g]
    BY DEF IInv, TypeOK
  <2> QED BY <2>1, <2>2, <2>3, QuietStep
<1>3. CASE OpenRead(h) /\ ~VerifyLog(disk, CompletePrefixLen(disk), rules[h])
  <2>1. pc[h] = "reading" /\ Drop(h) /\ disk' = disk /\ state' = state
    BY <1>3 DEF OpenRead, AfterRead
  <2> QED BY <2>1, DropCoherent
<1>4. CASE OpenRefused(h) \/ Close(h)
  <2>1. pc[h] # "closed" /\ Drop(h) /\ disk' = disk /\ state' = state
    BY <1>4 DEF OpenRefused, Close, files
  <2> QED BY <2>1, DropCoherent
<1>5. CASE RecoverSync(h)
  <2> USE <1>5 DEF RecoverSync, Goto
  <2>1. pc[h] = "recoverSync" /\ disk = Append(records[h], disk[Len(disk)])
    BY DEF IInv, HandleInv, OneAhead
  <2>2. pc'[h] = "clearing" /\ records'[h] = disk
    BY <2>1 DEF IInv, TypeOK
  <2>3. ContentInv(h)'
    <3>1. HoldsPrefix(h)'
      BY SMTT(60), <2>2 DEF HoldsPrefix, IInv, TypeOK
    <3>2. rules'[h] \in Rules
      BY <2>1 DEF CInv, ContentInv
    <3> QED BY <2>2, <3>1, <3>2 DEF ContentInv
  <2>4. \A g \in Handles \ {h} : records'[g] = records[g]
    BY DEF IInv, TypeOK
  <2> QED BY <2>1, <2>3, <2>4, QuietStep
<1> QED BY <1>1, <1>2, <1>3, <1>4, <1>5

LEMMA RecoverWriteCoherent ==
  ASSUME IInv, IInv', CInv, NEW h \in Handles, RecoverWrite(h)
  PROVE  CInv'
<1>0. pc[h] = "recovering" /\ records[h] = disk /\ ~torn /\ InterruptedTail(disk)
  BY DEF RecoverWrite, AppendRecovered, Goto, IInv, HandleInv, Mirrors
<1>1. CASE ~Fits(h, 1)
  <2>1. Drop(h) /\ disk' = disk /\ state' = state
    BY <1>1 DEF RecoverWrite, AppendRecovered
  <2> QED BY <1>0, <2>1, DropCoherent
<1>2. CASE Fits(h, 1)
  <2> USE <1>2 DEF RecoverWrite, AppendRecovered, Goto
  <2>1. PICK v : disk' = Append(disk, v)
    BY <1>0 DEF PutFrame
  <2>2. disk \in Seq(Record) /\ disk' \in Seq(Record)
    BY DEF IInv, TypeOK
  <2>3. Len(disk') = Len(disk) + 1 /\ v \in Record /\ \A i \in 1..Len(disk) : disk'[i] = disk[i]
    <3>1. Len(disk') = Len(disk) + 1 /\ disk'[Len(disk) + 1] = v
      BY <2>1, <2>2
    <3> QED BY <2>1, <2>2, <3>1
  <2>4. /\ pc' = [pc EXCEPT ![h] = "recoverSync"] /\ pc'[h] = "recoverSync"
        /\ UNCHANGED <<records, next, rules, state>>
    BY DEF IInv, TypeOK, writer
  <2>5. ~InterruptedTail(disk')
    BY <2>4 DEF IInv, HandleInv
  <2>6. ContentInv(h)'
    <3>1. HoldsPrefix(h)'
      BY <1>0, <2>2, <2>3, <2>4 DEF HoldsPrefix
    <3>2. rules'[h] \in Rules
      BY <1>0, <2>4 DEF CInv, ContentInv
    <3> QED BY <2>4, <3>1, <3>2 DEF ContentInv
  <2>7. Len(disk') < MaxTime /\ next'[h] <= MaxTime
    BY <1>0, <2>3, <2>4 DEF CInv, TimesLeft
  <2> QED BY <1>0, <2>1, <2>3, <2>4, <2>5, <2>6, <2>7, StepOf
<1> QED BY <1>1, <1>2

LEMMA OpenFinishCoherent ==
  ASSUME IInv, IInv', CInv, NEW h \in Handles, OpenFinish(h)
  PROVE  CInv'
<1>0. pc[h] = "clearing" /\ records[h] = disk /\ disk' = disk /\ state' = state
  BY DEF OpenFinish, Goto, IInv, HandleInv, Mirrors
<1>1. CASE ~VerifyLog(records[h], Len(records[h]), rules[h])
  <2>1. Drop(h)
    BY <1>1 DEF OpenFinish
  <2> QED BY <1>0, <2>1, DropCoherent
<1>2. CASE VerifyLog(records[h], Len(records[h]), rules[h])
  <2> USE <1>2 DEF OpenFinish, Goto
  <2>1. /\ pc' = [pc EXCEPT ![h] = "idle"] /\ pc'[h] = "idle" /\ next'[h] = Len(disk) + 1
        /\ UNCHANGED <<records, rules>>
    BY <1>0 DEF IInv, TypeOK
  <2>2. ContentInv(h)'
    <3>1. HoldsPrefix(h)'
      BY <1>0, <2>1 DEF CInv, ContentInv, HoldsPrefix
    <3>2. rules'[h] \in Rules
      BY <1>0, <2>1 DEF CInv, ContentInv
    <3>3. VerifyLog(disk, Len(disk), rules[h])'
      <4>1. VerifyLog(disk, Len(disk), rules[h])
        BY <1>0
      <4> QED BY <1>0, <2>1, <4>1
    <3> QED BY <2>1, <3>1, <3>2, <3>3 DEF ContentInv
  <2>3. /\ next'[h] <= MaxTime /\ Len(disk') < MaxTime
        /\ InterruptedTail(disk') => Len(disk') + 1 < MaxTime
    BY <1>0, <2>1, WriterConstants DEF CInv, TimesLeft, IInv, TypeOK
  <2>4. \A g \in Handles \ {h} : records'[g] = records[g] /\ next'[g] = next[g] /\ state'[g] = state[g]
    BY <1>0 DEF IInv, TypeOK
  <2> QED BY <1>0, <2>1, <2>2, <2>3, <2>4, StepOf
<1> QED BY <1>1, <1>2

LEMMA RebuildCoherent ==
  ASSUME IInv, IInv', CInv, NEW h \in Handles, Rebuild(h)
  PROVE  CInv'
<1> USE DEF Rebuild, files, writer
<1>1. disk \in Seq(Record) /\ records[h] \in Seq(Record) /\ HoldsPrefix(h)
  BY DEF IInv, TypeOK, CInv, ContentInv
<1>2. Len(records[h]) \in 0..Len(disk) /\ \A i \in 1..Len(records[h]) : disk[i] = records[h][i]
  BY <1>1 DEF HoldsPrefix
<1>3. BuildState(disk, Len(records[h])) = BuildState(records[h], Len(records[h]))
  BY <1>1, <1>2, FoldOfPrefix
<1>4. state'[h] = BuildState(disk', Len(records[h])) /\ Len(records[h]) \in 0..Len(disk')
  BY <1>2, <1>3 DEF IInv, TypeOK
<1>5. pc' = [pc EXCEPT ![h] = "idle"] /\ pc[h] = "idle" /\ pc'[h] = "idle"
  BY DEF IInv, TypeOK
<1>6. ContentInv(h)'
  <2>1. HoldsPrefix(h)'
    BY <1>1 DEF HoldsPrefix
  <2> QED BY <1>5, <2>1 DEF CInv, ContentInv
<1>7. /\ next'[h] <= MaxTime /\ Len(disk') < MaxTime
      /\ InterruptedTail(disk') => Len(disk') + 1 < MaxTime
  BY DEF CInv, TimesLeft
<1>8. \A g \in Handles \ {h} : records'[g] = records[g] /\ next'[g] = next[g] /\ state'[g] = state[g]
  BY DEF IInv, TypeOK
<1> QED BY <1>4, <1>5, <1>6, <1>7, <1>8, StepOf

LEMMA CommitPrepareCoherent ==
  ASSUME IInv, IInv', CInv, NEW h \in Handles, NEW p \in Proposals, CommitPrepare(h, p)
  PROVE  CInv'
<1> USE DEF CommitPrepare, Goto, files, writer
<1> DEFINE s == Subject(p, next[h])
           res == VerifyRecord(state[h], p, rules[h])
<1>0. pc[h] = "idle" /\ ~recovery_required[h] /\ records[h] = disk /\ next[h] \in Nat
  BY DEF IInv, TypeOK, HandleInv, Mirrors, Writable
<1>1. VerifyLog(disk, Len(disk), rules[h]) /\ rules[h] \in Rules /\ HoldsPrefix(h)
  BY <1>0 DEF CInv, ContentInv
<1>2. state[h] = BuildState(disk, Len(disk))
  BY <1>0 DEF Writable
<1>3. next[h] + 2 <= MaxTime
  BY <1>0, WriterConstants DEF Exhausted
<1>4. pc' = [pc EXCEPT ![h] = "intentFalse"] /\ pc'[h] = "intentFalse"
  BY DEF IInv, TypeOK
<1>5. pair'[h] = <<s, MaterializeVerdict(s, res)>>
  BY DEF IInv, TypeOK
<1>6. pair'[h][1].prop = p /\ pair'[h][2].result = res
  BY <1>5 DEF Subject, MaterializeVerdict
<1>7. DecidedOn(h, Len(disk))'
  BY <1>1, <1>2, <1>3, <1>6 DEF DecidedOn
<1>8. HoldsPrefix(h)'
  BY <1>1 DEF HoldsPrefix
<1>9. ContentInv(h)'
  BY <1>1, <1>4, <1>7, <1>8 DEF ContentInv
<1> QED BY <1>0, <1>4, <1>9, QuietStep

LEMMA WriteIntentCoherent ==
  ASSUME IInv, IInv', CInv, NEW h \in Handles, WriteIntentFalse(h) \/ WriteIntentTrue(h)
  PROVE  CInv'
<1>1. /\ pc[h] \in {"intentFalse", "intentTrue"}
      /\ UNCHANGED <<disk, records, next, rules, state, pair>>
      /\ pc' = [pc EXCEPT ![h] = IF pc[h] = "intentFalse" THEN "writeSubject" ELSE "writeVerdict"]
  BY DEF WriteIntentFalse, WriteIntentTrue, Goto, writer
<1>2. pc'[h] = IF pc[h] = "intentFalse" THEN "writeSubject" ELSE "writeVerdict"
  BY <1>1 DEF IInv, TypeOK
<1>3. HoldsPrefix(h)' /\ rules'[h] \in Rules
  BY <1>1 DEF CInv, ContentInv, HoldsPrefix
<1>5. ContentInv(h)'
  <2>1. CASE pc[h] = "intentFalse"
    <3>1. DecidedOn(h, Len(disk))
      BY <2>1 DEF CInv, ContentInv
    <3>2. DecidedOn(h, Len(disk))'
      BY <1>1, <3>1 DEF DecidedOn
    <3> QED BY <1>2, <1>3, <2>1, <3>2 DEF ContentInv
  <2>2. CASE pc[h] = "intentTrue"
    <3>1. DecidedOn(h, Len(disk) - 1) /\ Len(disk) > 0 /\ disk[Len(disk)] = pair[h][1]
      BY <2>2 DEF CInv, ContentInv
    <3>2. DecidedOn(h, Len(disk) - 1)'
      BY <1>1, <3>1 DEF DecidedOn
    <3>3. (Len(disk) > 0 /\ disk[Len(disk)] = pair[h][1])'
      BY <1>1, <3>1
    <3> QED BY <1>2, <1>3, <2>2, <3>2, <3>3 DEF ContentInv
  <2> QED BY <1>1, <2>1, <2>2
<1> QED BY <1>1, <1>5, QuietStep

\* A commit that returns early leaves a log that replays, or a handle that
\* refuses to write.
LEMMA AbortCoherent ==
  ASSUME IInv, IInv', CInv, NEW h \in Handles, pc[h] \in Committing,
         pc' = [pc EXCEPT ![h] = "idle"], UNCHANGED <<disk, writer, state>>
  PROVE  CInv'
<1> USE DEF writer
<1>1. pc'[h] = "idle" /\ pc[h] # "closed"
  BY DEF IInv, TypeOK, Committing
<1>2. HoldsPrefix(h)' /\ rules'[h] \in Rules
  BY <1>1 DEF CInv, ContentInv, HoldsPrefix
<1>3. ASSUME ~recovery_required'[h] PROVE VerifyLog(disk, Len(disk), rules[h])'
  <2>1. pc[h] = "intentFalse"
    BY <1>3 DEF IInv, HandleInv
  <2>2. VerifyLog(disk, Len(disk), rules[h])
    BY <2>1 DEF CInv, ContentInv, DecidedOn
  <2> QED BY <2>2
<1>4. ContentInv(h)'
  BY <1>1, <1>2, <1>3 DEF ContentInv
<1> QED BY <1>1, <1>4, QuietStep

LEMMA WriteSubjectCoherent ==
  ASSUME IInv, IInv', CInv, NEW h \in Handles, WriteSubject(h)
  PROVE  CInv'
<1> USE DEF WriteSubject, WriteFrame, Goto
<1>0. /\ pc[h] = "writeSubject" /\ Mirrors(h) /\ PairReady(h) /\ next[h] = Len(disk) + 1
      /\ DecidedOn(h, Len(disk)) /\ rules[h] \in Rules
  BY DEF IInv, HandleInv, CInv, ContentInv
<1>1. CASE ~Fits(h, 1)
  <2>1. pc' = [pc EXCEPT ![h] = "idle"] /\ UNCHANGED <<disk, writer, state>>
    BY <1>1
  <2> QED BY <1>0, <2>1, AbortCoherent DEF Committing
<1>2. CASE Fits(h, 1)
  <2> DEFINE s == pair[h][1]
  <2>1. /\ pc' = [pc EXCEPT ![h] = "syncSubject"] /\ disk' = Append(disk, s)
        /\ UNCHANGED <<records, next, rules, state, pair>>
    BY <1>0, <1>2 DEF PutFrame, Mirrors, writer
  <2>2. s \in Record /\ disk \in Seq(Record) /\ disk' \in Seq(Record) /\ next[h] \in Nat
    BY <1>0 DEF PairReady, IInv, TypeOK
  <2> HIDE DEF s
  <2>3. /\ Len(disk') = Len(disk) + 1 /\ disk'[Len(disk')] = s
        /\ \A i \in 1..Len(disk) : disk'[i] = disk[i]
    BY <2>1, <2>2
  <2>4. VerifyLog(disk', Len(disk), rules[h])
    <3>1. VerifyLog(disk, Len(disk), rules[h]) /\ Len(disk) \in 0..Len(disk)
      BY <1>0, <2>2 DEF DecidedOn
    <3> QED BY <2>2, <2>3, <3>1, ReplayOfPrefix
  <2>5. state[h] = BuildState(disk', Len(disk))
    BY <1>0, <2>2, <2>3, FoldOfPrefix DEF DecidedOn
  <2>6. DecidedOn(h, Len(disk) - 1)'
    <3>1. Len(disk') - 1 = Len(disk)
      BY <2>2, <2>3
    <3> QED BY <1>0, <2>1, <2>4, <2>5, <3>1 DEF DecidedOn
  <2>7. ContentInv(h)'
    <3>1. pc'[h] = "syncSubject"
      BY <2>1 DEF IInv, TypeOK
    <3>2. HoldsPrefix(h)'
      BY <1>0, <2>1, <2>2, <2>3 DEF HoldsPrefix, Mirrors
    <3>3. Len(disk') > 0 /\ disk'[Len(disk')] = pair'[h][1]
      BY <2>1, <2>2, <2>3 DEF s
    <3> QED BY <1>0, <2>1, <2>6, <3>1, <3>2, <3>3 DEF ContentInv
  <2>8. Len(disk') + 1 < MaxTime /\ Len(disk') < MaxTime /\ next'[h] <= MaxTime
    BY <1>0, <2>1, <2>2, <2>3, WriterConstants DEF DecidedOn
  <2> QED BY <1>0, <2>1, <2>2, <2>7, <2>8, StepOf
<1> QED BY <1>1, <1>2

LEMMA WriteVerdictCoherent ==
  ASSUME OwnSpace, IInv, IInv', CInv, NEW h \in Handles, WriteVerdict(h)
  PROVE  CInv'
<1> USE DEF WriteVerdict, WriteFrame, Goto
<1>0. /\ pc[h] = "writeVerdict" /\ Mirrors(h) /\ PairReady(h) /\ next[h] = Len(disk)
      /\ DecidedOn(h, Len(disk) - 1) /\ rules[h] \in Rules
      /\ Len(disk) > 0 /\ disk[Len(disk)] = pair[h][1]
  BY DEF IInv, HandleInv, CInv, ContentInv
<1>1. CASE ~Fits(h, 1)
  <2>1. pc' = [pc EXCEPT ![h] = "idle"] /\ UNCHANGED <<disk, writer, state>>
    BY <1>1
  <2> QED BY <1>0, <2>1, AbortCoherent DEF Committing
<1>2. CASE Fits(h, 1)
  <2> DEFINE v == pair[h][2]
             n == Len(disk) - 1
  <2>1. /\ pc' = [pc EXCEPT ![h] = "syncVerdict"] /\ disk' = Append(disk, v)
        /\ UNCHANGED <<records, next, rules, state, pair>>
    BY <1>0, <1>2 DEF PutFrame, Mirrors, writer
  <2>2. v \in Record /\ disk \in Seq(Record) /\ disk' \in Seq(Record) /\ Paired(disk')
    BY <1>0 DEF PairReady, IInv, TypeOK, PairedLog
  <2>3. n \in 0..Len(disk) /\ n + 1 = Len(disk) /\ next[h] = n + 1
    BY <1>0, <2>2
  <2>4. v = MaterializeVerdict(pair[h][1], VerifyRecord(state[h], pair[h][1].prop, rules[h]))
    BY <1>0 DEF PairReady, DecidedOn
  <2> HIDE DEF v, n
  <2>5. /\ Len(disk') = n + 2 /\ disk'[n + 2] = v /\ disk'[n + 1] = pair[h][1]
        /\ \A i \in 1..Len(disk) : disk'[i] = disk[i]
    <3>1. /\ Len(disk') = Len(disk) + 1 /\ disk'[Len(disk) + 1] = v
          /\ \A i \in 1..Len(disk) : disk'[i] = disk[i]
      BY <2>1, <2>2
    <3>2. Len(disk) + 1 = n + 2 /\ Len(disk) \in 1..Len(disk)
      BY <1>0, <2>2, <2>3
    <3> QED BY <1>0, <2>3, <3>1, <3>2
  <2>6. \A i \in 1..n : disk'[i] = disk[i]
    BY <2>3, <2>5
  <2>7. VerifyLog(disk', n, rules[h])
    BY <1>0, <2>2, <2>3, <2>6, ReplayOfPrefix DEF DecidedOn, n
  <2>8. state[h] = BuildState(disk', n)
    BY <1>0, <2>2, <2>3, <2>6, FoldOfPrefix DEF DecidedOn, n
  <2>9. VerifyLog(disk', n + 2, rules[h])
    <3>1. pair[h][1].kind = "Subject"
      BY <1>0 DEF PairReady
    <3>2. n \in 0..Len(disk') /\ n + 2 <= Len(disk')
      BY <2>3, <2>5
    <3> QED BY <2>2, <2>4, <2>5, <2>7, <2>8, <3>1, <3>2, ReplayOfPair
  <2>10. ContentInv(h)'
    <3>1. pc'[h] = "syncVerdict"
      BY <2>1 DEF IInv, TypeOK
    <3>2. HoldsPrefix(h)'
      BY <1>0, <2>1, <2>2, <2>3, <2>5 DEF HoldsPrefix, Mirrors
    <3>3. Len(disk') > 1 /\ Len(disk') - 1 = n + 1 /\ Len(disk') - 2 = n
      BY <2>3, <2>5
    <3>4. /\ VerifyLog(disk, Len(disk), rules[h])' /\ (state[h] = BuildState(disk, Len(disk) - 2))'
          /\ (disk[Len(disk) - 1] = pair[h][1] /\ disk[Len(disk)] = pair[h][2])'
      BY <2>1, <2>5, <2>8, <2>9, <3>3 DEF v
    <3> QED BY <1>0, <2>1, <3>1, <3>2, <3>3, <3>4 DEF ContentInv
  <2>11. Len(disk') < MaxTime /\ next'[h] <= MaxTime /\ ~InterruptedTail(disk')
    <3>1. v.kind = "Verdict"
      BY <2>4 DEF MaterializeVerdict
    <3> QED BY <1>0, <2>1, <2>3, <2>5, <3>1, WriterConstants DEF DecidedOn, InterruptedTail
  <2> QED BY <1>0, <2>1, <2>2, <2>10, <2>11, StepOf
<1> QED BY <1>1, <1>2

LEMMA SyncFrameCoherent ==
  ASSUME IInv, IInv', CInv, NEW h \in Handles, SyncSubject(h) \/ SyncVerdict(h)
  PROVE  CInv'
<1>1. /\ pc[h] \in {"syncSubject", "syncVerdict"}
      /\ pc' = [pc EXCEPT ![h] = IF pc[h] = "syncSubject" THEN "intentTrue" ELSE "clearIntent"]
      /\ UNCHANGED <<disk, next, rules, state, pair>>
  BY DEF SyncSubject, SyncVerdict, SyncFrame, Goto
<1>2. pc'[h] = IF pc[h] = "syncSubject" THEN "intentTrue" ELSE "clearIntent"
  BY <1>1 DEF IInv, TypeOK
<1>3. records'[h] = disk'
  <2>1. Mirrors(h)'
    BY <1>1, <1>2 DEF IInv, HandleInv
  <2> QED BY <2>1 DEF Mirrors
<1>4. HoldsPrefix(h)' /\ rules'[h] \in Rules
  BY <1>1, <1>3 DEF CInv, ContentInv, HoldsPrefix, IInv, TypeOK
<1>5. ContentInv(h)'
  <2>1. CASE pc[h] = "syncSubject"
    <3>1. DecidedOn(h, Len(disk) - 1) /\ Len(disk) > 0 /\ disk[Len(disk)] = pair[h][1]
      BY <2>1 DEF CInv, ContentInv
    <3>2. DecidedOn(h, Len(disk) - 1)'
      BY <1>1, <3>1 DEF DecidedOn
    <3>3. (Len(disk) > 0 /\ disk[Len(disk)] = pair[h][1])'
      BY <1>1, <3>1
    <3> QED BY <1>2, <1>4, <2>1, <3>2, <3>3 DEF ContentInv
  <2>2. CASE pc[h] = "syncVerdict"
    <3>1. /\ VerifyLog(disk, Len(disk), rules[h])
          /\ Len(disk) > 1 /\ disk[Len(disk) - 1] = pair[h][1] /\ disk[Len(disk)] = pair[h][2]
          /\ state[h] = BuildState(disk, Len(disk) - 2)
      BY <2>2 DEF CInv, ContentInv
    <3>2. (/\ VerifyLog(disk, Len(disk), rules[h])
           /\ Len(disk) > 1 /\ disk[Len(disk) - 1] = pair[h][1] /\ disk[Len(disk)] = pair[h][2]
           /\ state[h] = BuildState(disk, Len(disk) - 2))'
      BY <1>1, <3>1
    <3> QED BY <1>2, <1>4, <2>2, <3>2 DEF ContentInv
  <2> QED BY <1>1, <2>1, <2>2
<1>6. \A g \in Handles \ {h} : records'[g] = records[g]
  BY DEF SyncSubject, SyncVerdict, SyncFrame, IInv, TypeOK
<1> QED BY <1>1, <1>5, <1>6, QuietStep

LEMMA CommitFinishCoherent ==
  ASSUME IInv, IInv', CInv, NEW h \in Handles, CommitFinish(h)
  PROVE  CInv'
<1> USE DEF CommitFinish, Goto
<1>0. /\ pc[h] = "clearIntent" /\ PairReady(h) /\ next[h] = Len(disk) - 1
      /\ VerifyLog(disk, Len(disk), rules[h]) /\ rules[h] \in Rules /\ HoldsPrefix(h)
      /\ Len(disk) > 1 /\ disk[Len(disk) - 1] = pair[h][1] /\ disk[Len(disk)] = pair[h][2]
      /\ state[h] = BuildState(disk, Len(disk) - 2)
  BY DEF IInv, HandleInv, CInv, ContentInv
<1> DEFINE n == Len(disk) - 2
<1>1. disk \in Seq(Record) /\ Paired(disk) /\ disk' = disk
  BY DEF IInv, TypeOK, PairedLog
<1>2. n \in 0..Len(disk) /\ n + 2 = Len(disk) /\ n + 1 = Len(disk) - 1
  BY <1>0, <1>1
<1>3. disk[n + 1].kind = "Subject"
  BY <1>0, <1>2 DEF PairReady
<1>4. ApplyRecord(BuildState(disk, n), disk[n + 1], disk[n + 2].result) = BuildState(disk, n + 2)
  <2> HIDE DEF n
  <2> QED BY SMTT(60), <1>1, <1>2, <1>3, FoldOfPair
<1>5. state'[h] = BuildState(disk', Len(disk)) /\ Len(disk) \in 0..Len(disk')
  BY <1>0, <1>1, <1>2, <1>4 DEF IInv, TypeOK
<1>6. pc'[h] = "idle" /\ next'[h] = Len(disk) + 1
  BY <1>0, <1>2 DEF IInv, TypeOK
<1>7. ContentInv(h)'
  <2>1. HoldsPrefix(h)'
    BY <1>0 DEF HoldsPrefix
  <2>2. VerifyLog(disk, Len(disk), rules[h])'
    BY <1>0
  <2> QED BY <1>0, <1>6, <2>1, <2>2 DEF ContentInv
<1>8. /\ next'[h] <= MaxTime /\ Len(disk') < MaxTime
      /\ InterruptedTail(disk') => Len(disk') + 1 < MaxTime
  BY <1>1, <1>6, WriterConstants DEF CInv, TimesLeft
<1>9. \A g \in Handles \ {h} : records'[g] = records[g] /\ next'[g] = next[g] /\ state'[g] = state[g]
  BY DEF IInv, TypeOK
<1> HIDE DEF n
<1> QED BY <1>0, <1>5, <1>7, <1>8, <1>9, StepOf

LEMMA FaultCoherent ==
  ASSUME IInv, IInv', CInv, NEW h \in Handles, IoError(h) \/ Crash(h)
  PROVE  CInv'
<1>1. CASE IoError(h) /\ pc[h] \in Opening
  <2>1. pc[h] # "closed" /\ Drop(h) /\ disk' = disk /\ state' = state
    BY <1>1 DEF IoError
  <2> QED BY <2>1, DropCoherent
<1>2. CASE IoError(h) /\ pc[h] \notin Opening
  <2>1. pc' = [pc EXCEPT ![h] = "idle"] /\ UNCHANGED <<disk, writer, state>>
    BY <1>2 DEF IoError
  <2>2. pc[h] \in Committing
    BY <1>2 DEF IoError, IInv, TypeOK, Steps
  <2> QED BY <2>1, <2>2, AbortCoherent
<1>3. CASE Crash(h)
  <2>1. /\ pc[h] # "closed" /\ Drop(h) /\ disk' = disk
        /\ state' = [state EXCEPT ![h] = NewState]
    BY <1>3 DEF Crash
  <2> QED BY <2>1, DropCoherent
<1> QED BY <1>1, <1>2, <1>3

LEMMA PowerLossCoherent ==
  ASSUME IInv, IInv', CInv, PowerLoss
  PROVE  CInv'
<1> DEFINE log == disk
           new == disk'
<1>1. PICK n \in synced..Len(log) : new = SubSeq(log, 1, n)
  BY DEF PowerLoss
<1>2. log \in Seq(Record) /\ new \in Seq(Record) /\ n \in 0..Len(log)
  BY DEF IInv, TypeOK
<1>3. Len(new) = n /\ \A i \in 1..n : new[i] = log[i]
  BY <1>1, <1>2
<1>4. Alternates(new)
  BY <1>2, <1>3 DEF CInv, Alternates
<1>5. TimesLeft'
  <2>1. \A h \in Handles : next'[h] <= MaxTime
    BY WriterConstants DEF PowerLoss
  <2>2. Len(new) < MaxTime
    BY <1>2, <1>3, WriterConstants DEF CInv, TimesLeft
  <2>3. InterruptedTail(new) => Len(new) + 1 < MaxTime
    <3>1. CASE n = Len(log)
      BY <1>2, <1>3, <3>1, WriterConstants DEF CInv, TimesLeft, InterruptedTail
    <3>2. CASE n < Len(log)
      BY <1>2, <1>3, <3>2, WriterConstants DEF CInv, TimesLeft
    <3> QED BY <1>2, <3>1, <3>2
  <2> QED BY <2>1, <2>2, <2>3 DEF TimesLeft
<1>6. StatesArePrefixes'
  <2>1. \A h \in Handles : state'[h] = NewState /\ state'[h].applied_up_to = 0
    BY DEF PowerLoss, NewState
  <2>2. BuildState(new, 0) = NewState
    BY FoldOfNothing
  <2> QED BY <1>2, <1>3, <2>1, <2>2 DEF StatesArePrefixes
<1>7. \A h \in Handles : ContentInv(h)'
  <2>1. \A h \in Handles : pc'[h] = "closed" /\ records'[h] = <<>>
    BY DEF PowerLoss
  <2> QED BY <1>2, <1>3, <2>1 DEF ContentInv, HoldsPrefix
<1> QED BY <1>4, <1>5, <1>6, <1>7 DEF CInv

LEMMA NextCoherent ==
  ASSUME OwnSpace, IInv, IInv', CInv, [Next]_vars
  PROVE  CInv'
<1>1. CASE UNCHANGED vars
  <2> USE <1>1 DEF vars, files, writer
  <2>1. Alternates(disk)' /\ TimesLeft' /\ StatesArePrefixes'
    BY DEF CInv, TimesLeft, StatesArePrefixes
  <2>2. \A h \in Handles : ContentInv(h)'
    <3> SUFFICES ASSUME NEW h \in Handles PROVE ContentInv(h)'
      OBVIOUS
    <3>1. ContentInv(h)
      BY DEF CInv
    <3> QED BY <3>1 DEF ContentInv, HoldsPrefix, DecidedOn
  <2> QED BY <2>1, <2>2 DEF CInv
<1>2. ASSUME NEW h \in Handles,
             OpenStep(h) \/ Close(h) \/ \E r \in Rules, l \in Limits : OpenLock(h, r, l)
      PROVE  CInv'
  BY <1>2, OpenCoherent, RecoverWriteCoherent, OpenFinishCoherent DEF OpenStep
<1>3. ASSUME NEW h \in Handles, Rebuild(h) PROVE CInv'
  BY <1>3, RebuildCoherent
<1>4. ASSUME NEW h \in Handles, NEW p \in Proposals, CommitPrepare(h, p) PROVE CInv'
  BY <1>4, CommitPrepareCoherent
<1>5. ASSUME NEW h \in Handles, CommitStep(h) PROVE CInv'
  BY <1>5, WriteIntentCoherent, WriteSubjectCoherent, WriteVerdictCoherent, SyncFrameCoherent,
     CommitFinishCoherent DEF CommitStep
<1>6. ASSUME NEW h \in Handles, IoError(h) \/ Crash(h) PROVE CInv'
  BY <1>6, FaultCoherent
<1>7. CASE PowerLoss
  BY <1>7, PowerLossCoherent
<1> QED BY <1>1, <1>2, <1>3, <1>4, <1>5, <1>6, <1>7 DEF Next

-----------------------------------------------------------------------------
(* The theorems *)

LEMMA Coherence ==
  ASSUME HostProposals, OwnSpace PROVE Spec => [](IInv /\ CInv)
<1>1. Init => CInv
  BY InitCoherent
<1>2. IInv /\ IInv' /\ CInv /\ [Next]_vars => CInv'
  BY NextCoherent
<1> QED BY <1>1, <1>2, Invariance, PTL DEF Spec

\* A handle that accepts commits holds exactly the file, which replays whole
\* under its rules, and a clock that continues it; every State a host holds,
\* however stale, is the fold of a prefix of the file; no time saturates.
THEOREM HandlesStayCoherent ==
  ASSUME HostProposals, OwnSpace PROVE Spec => []HandleCoherent
<1>1. IInv /\ CInv => HandleCoherent
  <2> SUFFICES ASSUME IInv, CInv PROVE HandleCoherent
    OBVIOUS
  <2>1. ReplayableHandle
    BY DEF IInv, HandleInv, Mirrors, CInv, ContentInv, ReplayableHandle, WholeLogReplays
  <2>2. ClockInRange
    BY SMTT(60), WriterConstants DEF ClockInRange, CInv, TimesLeft, IInv, TypeOK, PairedLog, Paired
  <2> QED BY <2>1, <2>2 DEF HandleCoherent, CInv
<1> QED BY <1>1, Coherence, PTL

-----------------------------------------------------------------------------
(***************************************************************************)
(* Refinement: the proof of ImplementsLedger.  A verdict frame is the instant *)
(* at which a commit takes effect, whether commit_inner or a recovery writes  *)
(* it; every other write is a stuttering step.                                *)
(***************************************************************************)

\* The decided entries of a log in which subjects and verdicts alternate.
Entries(log) ==
  [k \in 1..(Len(log) \div 2) |-> [prop |-> log[2 * k - 1].prop, result |-> log[2 * k].result]]

-----------------------------------------------------------------------------
(* Facts about entries *)

LEMMA Halves ==
  /\ \A n \in Nat : n \div 2 \in Nat /\ 2 * (n \div 2) <= n /\ n <= 2 * (n \div 2) + 1
  /\ \A n \in Nat : n % 2 = 1 <=> n = 2 * (n \div 2) + 1
  /\ \A n \in Nat, k \in Nat : 2 * k <= n /\ n <= 2 * k + 1 => n \div 2 = k
OBVIOUS

\* An alternating log is interrupted if its length is odd.
LEMMA InterruptedIsOdd ==
  ASSUME NEW log \in Seq(Record), Alternates(log)
  PROVE  /\ InterruptedTail(log) <=> Len(log) % 2 = 1
         /\ CompletePrefixLen(log) = 2 * (Len(log) \div 2)
<1>1. InterruptedTail(log) <=> Len(log) % 2 = 1
  <2>1. CASE Len(log) = 0
    BY <2>1 DEF InterruptedTail
  <2>2. CASE Len(log) # 0
    <3>1. Len(log) \in 1..Len(log)
      BY <2>2
    <3> QED BY <3>1 DEF Alternates, InterruptedTail
  <2> QED BY <2>1, <2>2
<1>2. CompletePrefixLen(log) = 2 * (Len(log) \div 2)
  <2>1. Len(log) \in Nat
    OBVIOUS
  <2> QED BY <1>1, <2>1, Halves DEF CompletePrefixLen
<1> QED BY <1>1, <1>2

\* What a reader finds decided are the entries of the file, at every moment.
LEMMA DecidedAreEntries ==
  /\ disk \in Seq(Record) /\ Alternates(disk) => DecidedEntries = Entries(disk)
  /\ disk' \in Seq(Record) /\ Alternates(disk') => DecidedEntries' = Entries(disk')
<1>1. ASSUME NEW log \in Seq(Record), Alternates(log)
      PROVE  CompletePrefixLen(log) \div 2 = Len(log) \div 2
  <2>1. Len(log) \in Nat
    OBVIOUS
  <2>2. CompletePrefixLen(log) = 2 * (Len(log) \div 2)
    BY <1>1, InterruptedIsOdd
  <2> QED BY <2>1, <2>2, Halves
<1> QED BY <1>1 DEF DecidedEntries, Entries

LEMMA EntryTypes ==
  ASSUME NEW log \in Seq(Record)
  PROVE  /\ Entries(log) \in Seq([prop : Proposals, result : Results \union {"None"}])
         /\ Len(Entries(log)) = Len(log) \div 2
         /\ \A k \in 1..(Len(log) \div 2) :
              Entries(log)[k] = [prop |-> log[2 * k - 1].prop, result |-> log[2 * k].result]
<1>1. Len(log) \div 2 \in Nat
  BY Halves
<1>2. \A k \in 1..(Len(log) \div 2) : log[2 * k - 1] \in Record /\ log[2 * k] \in Record
  <2> SUFFICES ASSUME NEW k \in 1..(Len(log) \div 2)
               PROVE  2 * k - 1 \in 1..Len(log) /\ 2 * k \in 1..Len(log)
    OBVIOUS
  <2> QED BY Halves
<1> QED BY <1>1, <1>2 DEF Entries, Record

\* A subject behind complete pairs decides nothing yet.
LEMMA EntriesOfSubject ==
  ASSUME NEW log \in Seq(Record), Len(log) % 2 # 1, NEW rec \in Record
  PROVE  Entries(Append(log, rec)) = Entries(log)
<1> DEFINE new == Append(log, rec)
           m == Len(log) \div 2
<1>1. /\ new \in Seq(Record) /\ Len(new) = Len(log) + 1 /\ Len(log) \in Nat
      /\ \A i \in 1..Len(log) : new[i] = log[i]
  OBVIOUS
<1>2. m \in Nat /\ Len(new) \div 2 = m /\ 2 * m <= Len(log)
  BY <1>1, Halves
<1> HIDE DEF new, m
<1>3. ASSUME NEW k \in 1..m PROVE new[2 * k - 1] = log[2 * k - 1] /\ new[2 * k] = log[2 * k]
  <2>1. k \in Nat /\ 1 <= k /\ 2 * k <= Len(log)
    BY <1>2
  <2>2. 2 * k - 1 \in 1..Len(log) /\ 2 * k \in 1..Len(log)
    BY <1>1, <2>1
  <2> QED BY <1>1, <2>2
<1> QED BY <1>2, <1>3 DEF Entries, new, m

\* The verdict of a trailing subject decides one more entry.
LEMMA EntriesOfVerdict ==
  ASSUME NEW log \in Seq(Record), Len(log) % 2 = 1, NEW rec \in Record
  PROVE  Entries(Append(log, rec)) =
           Append(Entries(log), [prop |-> log[Len(log)].prop, result |-> rec.result])
<1> DEFINE new == Append(log, rec)
           m == Len(log) \div 2
           e == [prop |-> log[Len(log)].prop, result |-> rec.result]
<1>1. /\ new \in Seq(Record) /\ Len(new) = Len(log) + 1 /\ Len(log) \in Nat
      /\ new[Len(log) + 1] = rec /\ \A i \in 1..Len(log) : new[i] = log[i]
  OBVIOUS
<1>2. m \in Nat /\ Len(log) = 2 * m + 1 /\ Len(new) \div 2 = m + 1
  BY <1>1, Halves
<1> HIDE DEF new, m, e
<1>3. \A k \in 1..m : new[2 * k - 1] = log[2 * k - 1] /\ new[2 * k] = log[2 * k]
  BY <1>1, <1>2
<1>4. new[2 * (m + 1) - 1] = log[Len(log)] /\ new[2 * (m + 1)] = rec
  BY <1>1, <1>2
<1>5. /\ Entries(log) \in Seq([prop : Proposals, result : Results \union {"None"}])
      /\ Len(Entries(log)) = m
      /\ \A k \in 1..m : Entries(log)[k] = [prop |-> log[2 * k - 1].prop, result |-> log[2 * k].result]
  BY EntryTypes DEF m
<1>6. /\ Entries(new) \in Seq([prop : Proposals, result : Results \union {"None"}])
      /\ Len(Entries(new)) = m + 1
      /\ \A k \in 1..(m + 1) : Entries(new)[k] = [prop |-> new[2 * k - 1].prop, result |-> new[2 * k].result]
  BY <1>1, <1>2, EntryTypes
<1>7. Entries(new)[m + 1] = e /\ \A k \in 1..m : Entries(new)[k] = Entries(log)[k]
  <2>1. m + 1 \in 1..(m + 1) /\ 1..m \subseteq 1..(m + 1)
    BY <1>2
  <2>2. Entries(new)[m + 1] = e
    BY <1>4, <1>6, <2>1 DEF e
  <2> QED BY ZenonT(60), <1>3, <1>5, <1>6, <2>1, <2>2
<1>8. Entries(new) = Append(Entries(log), e)
  <2>1. e \in [prop : Proposals, result : Results \union {"None"}]
    <3>1. m + 1 \in 1..Len(Entries(new))
      BY <1>2, <1>6
    <3> QED BY <1>6, <1>7, <3>1
  <2> DEFINE f == Append(Entries(log), e)
  <2>2. /\ f \in Seq([prop : Proposals, result : Results \union {"None"}]) /\ Len(f) = m + 1
        /\ f[m + 1] = e /\ \A k \in 1..m : f[k] = Entries(log)[k]
    BY <1>2, <1>5, <2>1
  <2>3. \A k \in 1..(m + 1) : f[k] = Entries(new)[k]
    BY <1>2, <1>7, <2>2
  <2> HIDE DEF f
  <2> QED BY <1>6, <2>2, <2>3, SeqEqual DEF f
<1> QED BY <1>8 DEF new, e

\* A prefix of the log decides a prefix of its entries.
LEMMA EntriesOfPrefix ==
  ASSUME NEW log \in Seq(Record), NEW n \in 0..Len(log)
  PROVE  /\ n \div 2 \in 0..Len(Entries(log))
         /\ Entries(SubSeq(log, 1, n)) = SubSeq(Entries(log), 1, n \div 2)
<1> DEFINE new == SubSeq(log, 1, n)
           E == [prop : Proposals, result : Results \union {"None"}]
<1>1. new \in Seq(Record) /\ Len(new) = n /\ \A i \in 1..n : new[i] = log[i]
  OBVIOUS
<1>2. n \in Nat /\ Len(log) \in Nat
  OBVIOUS
<1>3. n \div 2 \in 0..(Len(log) \div 2) /\ 2 * (n \div 2) <= n
  BY <1>2, Halves
<1> HIDE DEF new, E
<1>4. /\ Entries(log) \in Seq(E) /\ Len(Entries(log)) = Len(log) \div 2
      /\ \A k \in 1..(Len(log) \div 2) :
           Entries(log)[k] = [prop |-> log[2 * k - 1].prop, result |-> log[2 * k].result]
  BY EntryTypes DEF E
<1>5. /\ Entries(new) \in Seq(E) /\ Len(Entries(new)) = n \div 2
      /\ \A k \in 1..(n \div 2) :
           Entries(new)[k] = [prop |-> new[2 * k - 1].prop, result |-> new[2 * k].result]
  BY <1>1, EntryTypes DEF E
<1>6. \A k \in 1..(n \div 2) : new[2 * k - 1] = log[2 * k - 1] /\ new[2 * k] = log[2 * k]
  BY <1>1, <1>2, <1>3
<1>7. \A k \in 1..(n \div 2) : Entries(new)[k] = Entries(log)[k]
  <2> SUFFICES ASSUME NEW k \in 1..(n \div 2) PROVE Entries(new)[k] = Entries(log)[k]
    OBVIOUS
  <2>1. k \in 1..(Len(log) \div 2)
    BY <1>2, <1>3, Halves
  <2> QED BY <1>4, <1>5, <1>6, <2>1
<1> DEFINE f == SubSeq(Entries(log), 1, n \div 2)
<1>8. f \in Seq(E) /\ Len(f) = n \div 2 /\ \A k \in 1..(n \div 2) : f[k] = Entries(log)[k]
  BY <1>3, <1>4
<1> HIDE DEF f
<1>9. Entries(new) = f
  BY <1>5, <1>7, <1>8, SeqEqual
<1> QED BY <1>3, <1>4, <1>9 DEF new, f

\* The ledger decides what the verifier decides on the State of the pairs.
LEMMA LedgerDecides ==
  ASSUME NEW log \in Seq(Record), Paired(log), Alternates(log), NEW r, NEW p
  PROVE  DecideAfter(r, Entries(log), p) =
           VerifyRecord(BuildState(log, 2 * (Len(log) \div 2)), p, r)
<1> DEFINE m == Len(log) \div 2
           es == Entries(log)
           L == {<<2 * k - 1, es[k].prop>> : k \in {j \in 1..Len(es) : es[j].result = "Accept"}}
           B == {Id(log[i]) : i \in {j \in 1..(2 * m) : AcceptedAt(log, 2 * m, j)}}
<1>1. m \in Nat /\ 2 * m <= Len(log) /\ Len(log) <= 2 * m + 1 /\ Len(es) = m
  BY EntryTypes, Halves
<1>2. ASSUME NEW k \in 1..m
      PROVE  es[k].prop = log[2 * k - 1].prop /\ es[k].result = log[2 * k].result
  <2>1. es[k] = [prop |-> log[2 * k - 1].prop, result |-> log[2 * k].result]
    BY EntryTypes
  <2> QED BY <2>1
<1> HIDE DEF m, es
<1>3. ASSUME NEW k \in 1..m, es[k].result = "Accept"
      PROVE  <<2 * k - 1, es[k].prop>> \in B
  <2>1. 2 * k - 1 \in 1..(2 * m) /\ 2 * k - 1 \in 1..Len(log) /\ (2 * k - 1) % 2 = 1
    BY <1>1
  <2>2. log[2 * k - 1].kind = "Subject" /\ log[2 * k - 1].time = 2 * k - 1
    BY <2>1 DEF Alternates, Paired
  <2>3. (2 * k - 1) + 1 = 2 * k /\ 2 * k - 1 < 2 * m
    BY <1>1
  <2>4. AcceptedAt(log, 2 * m, 2 * k - 1)
    BY <1>2, <1>3, <2>2, <2>3 DEF AcceptedAt
  <2>5. Id(log[2 * k - 1]) = <<2 * k - 1, es[k].prop>>
    BY <1>2, <2>2 DEF Id
  <2> QED BY <2>1, <2>4, <2>5
<1>4. ASSUME NEW i \in 1..(2 * m), AcceptedAt(log, 2 * m, i)
      PROVE  Id(log[i]) \in L
  <2>1. i \in 1..Len(log) /\ i < 2 * m /\ log[i + 1].result = "Accept" /\ log[i].kind = "Subject"
    BY <1>1, <1>4 DEF AcceptedAt
  <2>2. i % 2 = 1 /\ log[i].time = i
    BY <2>1 DEF Alternates, Paired
  <2> DEFINE k == (i \div 2) + 1
  <2>3. k \in Nat /\ i = 2 * k - 1
    BY <2>2, Halves
  <2>4. k \in 1..m /\ 2 * k = i + 1
    BY <1>1, <2>1, <2>3
  <2> HIDE DEF k
  <2>5. es[k].result = "Accept" /\ Id(log[i]) = <<2 * k - 1, es[k].prop>>
    BY <1>2, <2>1, <2>2, <2>3, <2>4 DEF Id
  <2> QED BY <1>1, <2>4, <2>5
<1>5. L = B
  BY <1>1, <1>3, <1>4
<1>6. BuildState(log, 2 * m) = [accepted |-> B, applied_up_to |-> 2 * m]
  <2>1. 2 * m \in 0..Len(log)
    BY <1>1
  <2> QED BY <2>1, AcceptedByNext
<1>7. DecideAfter(r, es, p) = VerifyRecord([accepted |-> L, applied_up_to |-> 2 * m], p, r)
  BY <1>1 DEF DecideAfter
<1> HIDE DEF L, B
<1> QED BY <1>5, <1>6, <1>7 DEF m, es

-----------------------------------------------------------------------------
(* Steps *)

LEMMA InitLedger == Init => Ledger!Init
<1> SUFFICES ASSUME Init PROVE Ledger!Init
  OBVIOUS
<1>1. disk = <<>> /\ acked = 0
  BY DEF Init
<1>2. DecidedEntries = <<>>
  BY <1>1 DEF DecidedEntries, CompletePrefixLen, InterruptedTail
<1> QED BY <1>1, <1>2 DEF Ledger!Init

\* A step that leaves the file and the acknowledgements alone.
LEMMA StutterLedger ==
  ASSUME disk' = disk, acked' = acked
  PROVE  UNCHANGED <<DecidedEntries, acked \div 2>>
BY DEF DecidedEntries

LEMMA SubjectLedger ==
  ASSUME IInv, IInv', CInv, CInv', NEW h \in Handles, WriteSubject(h)
  PROVE  UNCHANGED <<DecidedEntries, acked \div 2>>
<1> USE DEF WriteSubject, WriteFrame, Goto
<1>1. CASE ~Fits(h, 1)
  BY <1>1, StutterLedger
<1>2. CASE Fits(h, 1)
  <2>1. ~torn /\ ~InterruptedTail(disk) /\ pair[h][1] \in Record
    BY DEF IInv, HandleInv, Mirrors, PairReady
  <2>2. disk' = Append(disk, pair[h][1]) /\ acked' = acked
    BY <1>2, <2>1 DEF PutFrame
  <2>3. disk \in Seq(Record) /\ disk' \in Seq(Record) /\ Alternates(disk) /\ Alternates(disk')
    BY DEF IInv, TypeOK, CInv
  <2>4. Len(disk) % 2 # 1
    BY <2>1, <2>3, InterruptedIsOdd
  <2>5. Entries(disk') = Entries(disk)
    BY <2>1, <2>2, <2>3, <2>4, EntriesOfSubject
  <2> QED BY <2>2, <2>3, <2>5, DecidedAreEntries
<1> QED BY <1>1, <1>2

\* The verdict of a trailing subject, decided on the State of the pairs before
\* it, is the abstract Commit.
LEMMA VerdictLedger ==
  ASSUME IInv, IInv', CInv, CInv', InterruptedTail(disk), NEW r \in Rules,
         disk' = Append(disk, MaterializeVerdict(disk[Len(disk)],
                   VerifyRecord(BuildState(disk, Len(disk) - 1), disk[Len(disk)].prop, r))),
         acked' = acked
  PROVE  \E p \in Proposals : Ledger!Commit(r, p)
<1> DEFINE n == Len(disk) - 1
           s == disk[Len(disk)]
           res == VerifyRecord(BuildState(disk, n), s.prop, r)
           v == MaterializeVerdict(s, res)
<1>1. /\ disk \in Seq(Record) /\ disk' \in Seq(Record) /\ Alternates(disk) /\ Alternates(disk')
      /\ Paired(disk)
  BY DEF IInv, TypeOK, CInv, PairedLog
<1>2. Len(disk) % 2 = 1 /\ Len(disk) \in Nat
  BY <1>1, InterruptedIsOdd
<1>3. Len(disk) \in 1..Len(disk) /\ 2 * (Len(disk) \div 2) = n
  BY <1>2, Halves
<1>4. s \in Record /\ s.prop \in Proposals
  <2>1. s \in Record
    BY <1>1, <1>3
  <2> QED BY <2>1 DEF Record
<1>5. v \in Record /\ v.result = res
  <2>1. res \in Results
    BY DEF VerifyRecord, Results
  <2> QED BY <1>4, <2>1, RecordTypes DEF MaterializeVerdict
<1>6. disk' = Append(disk, v)
  OBVIOUS
<1>7. DecideAfter(r, Entries(disk), s.prop) = res
  BY <1>1, <1>3, LedgerDecides
<1> HIDE DEF v, res, n
<1>8. Entries(disk') = Append(Entries(disk), [prop |-> s.prop, result |-> v.result])
  BY <1>1, <1>2, <1>5, <1>6, EntriesOfVerdict
<1>9. DecidedEntries = Entries(disk) /\ DecidedEntries' = Entries(disk')
  BY <1>1, DecidedAreEntries
<1>10. DecidedEntries' = Append(DecidedEntries, [prop |-> s.prop, result |-> DecideAfter(r, DecidedEntries, s.prop)])
  BY <1>5, <1>7, <1>8, <1>9
<1>11. Ledger!Commit(r, s.prop)
  BY <1>10 DEF Ledger!Commit
<1> QED BY <1>4, <1>11

LEMMA WriteVerdictLedger ==
  ASSUME IInv, IInv', CInv, CInv', NEW h \in Handles, WriteVerdict(h) \/ RecoverWrite(h)
  PROVE  \/ UNCHANGED <<DecidedEntries, acked \div 2>>
         \/ \E r \in Rules, p \in Proposals : Ledger!Commit(r, p)
<1>1. CASE ~Fits(h, 1)
  <2>1. disk' = disk /\ acked' = acked
    BY <1>1 DEF WriteVerdict, WriteFrame, RecoverWrite, AppendRecovered
  <2> QED BY <2>1, StutterLedger
<1>2. CASE WriteVerdict(h) /\ Fits(h, 1)
  <2> USE <1>2 DEF WriteVerdict, WriteFrame, Goto
  <2>1. /\ ~torn /\ PairReady(h) /\ DecidedOn(h, Len(disk) - 1) /\ rules[h] \in Rules
        /\ Len(disk) > 0 /\ disk[Len(disk)] = pair[h][1]
    BY DEF IInv, HandleInv, Mirrors, CInv, ContentInv
  <2>2. InterruptedTail(disk)
    BY <2>1 DEF InterruptedTail, PairReady
  <2>3. disk' = Append(disk, pair[h][2]) /\ acked' = acked
    BY <2>1 DEF PutFrame
  <2>4. pair[h][2] = MaterializeVerdict(disk[Len(disk)],
                       VerifyRecord(BuildState(disk, Len(disk) - 1), disk[Len(disk)].prop, rules[h]))
    BY <2>1 DEF PairReady, DecidedOn
  <2> QED BY <2>1, <2>2, <2>3, <2>4, VerdictLedger
<1>3. CASE RecoverWrite(h) /\ Fits(h, 1)
  <2> USE <1>3 DEF RecoverWrite, AppendRecovered, Goto
  <2>1. ~torn /\ records[h] = disk /\ InterruptedTail(disk) /\ rules[h] \in Rules
    BY DEF IInv, HandleInv, Mirrors, CInv, ContentInv
  <2>2. /\ disk' = Append(disk, MaterializeVerdict(disk[Len(disk)],
                     VerifyRecord(BuildState(disk, Len(disk) - 1), disk[Len(disk)].prop, rules[h])))
        /\ acked' = acked
    BY <2>1 DEF PutFrame
  <2> QED BY <2>1, <2>2, VerdictLedger
<1> QED BY <1>1, <1>2, <1>3

LEMMA FinishLedger ==
  ASSUME IInv, CInv, NEW h \in Handles, CommitFinish(h)
  PROVE  Ledger!Acknowledge
<1> USE DEF CommitFinish, Goto
<1>1. records[h] = disk /\ disk \in Seq(Record) /\ Alternates(disk)
  BY DEF IInv, TypeOK, HandleInv, Mirrors, CInv
<1>2. acked' = Len(disk) /\ disk' = disk
  BY <1>1
<1>3. DecidedEntries' = DecidedEntries
  BY <1>2 DEF DecidedEntries
<1>4. Len(DecidedEntries) = Len(disk) \div 2
  BY <1>1, DecidedAreEntries, EntryTypes
<1> QED BY <1>2, <1>3, <1>4 DEF Ledger!Acknowledge

\* A power loss takes whole entries, none of them acknowledged.
LEMMA PowerLossLedger ==
  ASSUME IInv, IInv', CInv, CInv', PowerLoss
  PROVE  Ledger!Lose
<1>1. PICK n \in synced..Len(disk) : disk' = SubSeq(disk, 1, n)
  BY DEF PowerLoss
<1>2. /\ disk \in Seq(Record) /\ disk' \in Seq(Record) /\ Alternates(disk) /\ Alternates(disk')
      /\ n \in 0..Len(disk) /\ acked \in Nat /\ acked <= n /\ acked' = acked
  BY DEF IInv, TypeOK, AckedDurable, CInv, PowerLoss
<1>3. DecidedEntries = Entries(disk) /\ DecidedEntries' = Entries(disk')
  BY <1>2, DecidedAreEntries
<1>4. /\ n \div 2 \in 0..Len(DecidedEntries)
      /\ DecidedEntries' = SubSeq(DecidedEntries, 1, n \div 2)
  BY <1>1, <1>2, <1>3, EntriesOfPrefix
<1>5. acked \div 2 <= n \div 2 /\ acked \div 2 \in Nat
  BY <1>2, Halves
<1>6. n \div 2 \in (acked \div 2)..Len(DecidedEntries)
  BY <1>4, <1>5
<1> QED BY <1>2, <1>4, <1>6 DEF Ledger!Lose

LEMMA NextLedger ==
  ASSUME IInv, IInv', CInv, CInv', [Next]_vars
  PROVE  [Ledger!Next]_<<DecidedEntries, acked \div 2>>
<1>1. CASE UNCHANGED vars
  BY <1>1, StutterLedger DEF vars, files
<1>2. ASSUME NEW h \in Handles,
             \/ \E r \in Rules, l \in Limits : OpenLock(h, r, l)
             \/ OpenRead(h) \/ OpenRefused(h) \/ RecoverSync(h) \/ OpenFinish(h)
             \/ Rebuild(h) \/ Close(h) \/ IoError(h) \/ Crash(h)
             \/ \E p \in Proposals : CommitPrepare(h, p)
             \/ WriteIntentFalse(h) \/ SyncSubject(h) \/ WriteIntentTrue(h) \/ SyncVerdict(h)
      PROVE  UNCHANGED <<DecidedEntries, acked \div 2>>
  <2>1. disk' = disk /\ acked' = acked
    BY <1>2 DEF OpenLock, OpenRead, OpenRefused, RecoverSync, OpenFinish, Rebuild, Close, IoError,
       Crash, CommitPrepare, WriteIntentFalse, SyncSubject, WriteIntentTrue, SyncVerdict, SyncFrame, files
  <2> QED BY <2>1, StutterLedger
<1>3. ASSUME NEW h \in Handles, WriteSubject(h)
      PROVE  UNCHANGED <<DecidedEntries, acked \div 2>>
  BY <1>3, SubjectLedger
<1>4. ASSUME NEW h \in Handles, WriteVerdict(h) \/ RecoverWrite(h)
      PROVE  [Ledger!Next]_<<DecidedEntries, acked \div 2>>
  BY <1>4, WriteVerdictLedger DEF Ledger!Next
<1>5. ASSUME NEW h \in Handles, CommitFinish(h)
      PROVE  Ledger!Next
  BY <1>5, FinishLedger DEF Ledger!Next
<1>6. ASSUME PowerLoss PROVE Ledger!Next
  BY <1>6, PowerLossLedger DEF Ledger!Next
<1> QED BY <1>1, <1>2, <1>3, <1>4, <1>5, <1>6 DEF Next, OpenStep, CommitStep

\* However its commits are interrupted, recovered, retried or cut short, the
\* log behaves as one atomic ledger: a proposal and its verdict appear together,
\* decided on exactly the entries before them, and no acknowledged entry goes.
THEOREM LogImplementsLedger ==
  ASSUME HostProposals, OwnSpace PROVE Spec => ImplementsLedger
<1>1. Init => Ledger!Init
  BY InitLedger
<1>2. (IInv /\ CInv) /\ (IInv /\ CInv)' /\ [Next]_vars => [Ledger!Next]_<<DecidedEntries, acked \div 2>>
  BY NextLedger
<1> QED BY <1>1, <1>2, Coherence, PTL DEF Spec, ImplementsLedger, Ledger!Spec
=============================================================================
