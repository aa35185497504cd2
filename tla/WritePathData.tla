--------------------------- MODULE WritePathData ----------------------------
(***************************************************************************)
(* Proofs about WritePath: where the entries and their records are.  They  *)
(* rest on the invariant of WritePathProofs, which every step may assume   *)
(* before and after.                                                       *)
(***************************************************************************)
EXTENDS WritePathProofs

USE DEF queueVars, memoryVars, diskVars, treeVars, bgVars, callerVars

\* The parts of DataInv that a step disturbs together.
MemoryInv == NumbersOK /\ MemoryLogged /\ PublishedIsHeld /\ AckedIsDurable
CommitInv == ProgressOK /\ ShareOK /\ RecordsHeld
BackgroundInv == FlushOK /\ PickFindsWork

\* The records of the logs have their types.
LEMMA WalTypes ==
    ASSUME TypeOK
    PROVE  /\ Len(wal) \in Nat /\ wal \in Seq([log : Nat, first : Nat, count : Nat])
           /\ \A i \in 1..Len(wal) : /\ wal[i] \in [log : Nat, first : Nat, count : Nat]
                                     /\ wal[i].log \in Nat /\ wal[i].first \in Nat /\ wal[i].count \in Nat
<1>1. wal \in Seq([log : Nat, first : Nat, count : Nat]) /\ Len(wal) \in Nat
  BY LenOfSeq DEF TypeOK, DiskTypes
<1>2. \A i \in 1..Len(wal) : wal[i] \in [log : Nat, first : Nat, count : Nat]
  BY <1>1, MemberOfSeq, Zenon
<1> QED BY <1>1, <1>2

\* A step that neither moves entries nor records, and takes a file number at most.
LEMMA MemoryFrame ==
    ASSUME MemoryInv, next_file' = next_file \/ next_file' = next_file + 1, log \in Nat, next_file \in Nat,
           UNCHANGED <<log, mem, imm, last_sequence, wal, durable, tables, log_number, acked>>
    PROVE  MemoryInv'
<1>1. NumbersOK'
  BY DEF MemoryInv, NumbersOK
<1>2. MemoryLogged' /\ PublishedIsHeld' /\ AckedIsDurable'
  BY Zenon DEF MemoryInv, MemoryLogged, PublishedIsHeld, AckedIsDurable, Interval, Held
<1> QED BY <1>1, <1>2, Zenon DEF MemoryInv

\* Callers that commit are left alone, and so are the memtables.
LEMMA CommitKept ==
    ASSUME CommitInv, sticky_error => sticky_error',
           \A v \in Writer : pc'[v] \in Committing <=> pc[v] \in Committing,
           \A v \in Writer : pc[v] \in Committing => pc'[v] = pc[v] /\ op'[v] = op[v],
           \A v \in Writer : pc[v] \in Committing => \A i \in 1..commit.n : writers'[i] = writers[i],
           UNCHANGED <<commit, share, log, mem, imm, wal, durable, tables>>
    PROVE  CommitInv'
<1>1. \A v \in Writer : \A S \in SUBSET Committing : pc'[v] \in S <=> pc[v] \in S
  BY Zenon
<1>2. Record' = Record
  BY Zenon DEF Record
<1>3. ProgressOK'
  <2> SUFFICES ASSUME NEW v \in Writer
               PROVE  /\ pc'[v] \in {"group", "append", "sync"} => commit'.inserted = 0
                      /\ pc'[v] \in {"sync", "insert"} => Len(wal') >= 1 /\ wal'[Len(wal')] = Record'
                      /\ pc'[v] = "insert" =>
                            /\ commit'.inserted <= commit'.count
                            /\ commit'.first..(commit'.first + commit'.inserted - 1) \subseteq mem'
                            /\ op'[v].batch.sync => Len(wal') \in durable'
    BY Zenon DEF ProgressOK
  <2>1. CASE pc'[v] \in Committing
    <3>1. pc[v] \in Committing /\ pc'[v] = pc[v] /\ op'[v] = op[v]
      BY <2>1
    <3> QED BY <1>2, <3>1, Zenon DEF CommitInv, ProgressOK
  <2>2. CASE pc'[v] \notin Committing
    BY <2>2, Zenon DEF Committing
  <2> QED BY <2>1, <2>2
<1>4. ShareOK'
  BY Zenon DEF CommitInv, ShareOK
<1>5. RecordsHeld'
  <2>1. \A i : Unfinished(i) => Unfinished(i)'
    BY <1>2, Zenon DEF Unfinished, Committing
  <2> QED BY <2>1, Zenon DEF CommitInv, RecordsHeld, Interval
<1> QED BY <1>3, <1>4, <1>5, Zenon DEF CommitInv

\* Nobody has a record in the making, before the step and after it.
LEMMA CommitQuiet ==
    ASSUME RecordsHeld, sticky_error => sticky_error',
           \A v \in Writer : pc'[v] \notin Committing,
           \A v \in Writer : pc[v] \notin {"sync", "insert", "failed", "threw"},
           UNCHANGED <<log, mem, imm, wal, tables>>
    PROVE  CommitInv'
<1>1. ProgressOK' /\ ShareOK'
  BY Zenon DEF ProgressOK, ShareOK, Committing
<1>2. RecordsHeld'
  BY Zenon DEF RecordsHeld, Unfinished, Interval
<1> QED BY <1>1, <1>2, Zenon DEF CommitInv

\* What MaybeScheduleBackgroundWork does to the background task.
LEMMA ScheduleTask ==
    ASSUME NEW scheduled \in BOOLEAN, NEW sticky \in BOOLEAN, NEW im, NEW l0, NEW deep, NEW sleepers,
           MaybeSchedule(scheduled, sticky, im, l0, deep, sleepers)
    PROVE  /\ bg' \in {"none", "scheduled"} \/ (scheduled /\ bg' = bg)
           /\ bg' = "scheduled" =>
                 (scheduled /\ bg = "scheduled") \/ im # NoImm \/ NeedsCompaction(l0, deep)
           /\ sticky => sticky_error'
<1>1. CASE WantsSchedule(scheduled, sticky, im, l0, deep)
  BY <1>1, Zenon DEF MaybeSchedule, WantsSchedule
<1>2. CASE ~WantsSchedule(scheduled, sticky, im, l0, deep)
  BY <1>2, Zenon DEF MaybeSchedule
<1> QED BY <1>1, <1>2, Zenon

\* The background task, the readers and the destructor.
LEMMA BackgroundData ==
    ASSUME IInv, DataInv, BackgroundStep \/ ChargeSeek \/ Close \/ CloseReturns
    PROVE  DataInv'
<1>0. /\ MemoryInv /\ CommitInv /\ BackgroundInv /\ FlushCallOK
      /\ log \in Nat /\ next_file \in Nat /\ flush_log \in Nat /\ log_number \in Nat
      /\ sticky_error \in BOOLEAN /\ background_scheduled \in BOOLEAN
  BY Zenon DEF DataInv, MemoryInv, CommitInv, BackgroundInv, IInv, TypeOK, MemoryTypes, DiskTypes,
                BackgroundTypes
<1> DEFINE Rest == /\ next_file' = next_file \/ next_file' = next_file + 1
                   /\ sticky_error => sticky_error'
                   /\ UNCHANGED <<callerVars, log, mem, imm, last_sequence, diskVars>>
\* What is left to show of a step that installs no flush is about the task itself.
<1>1. ASSUME Rest, BackgroundInv' PROVE DataInv'
  <2>1. MemoryInv'
    BY <1>0, <1>1, MemoryFrame, Zenon
  <2>2. CommitInv'
    <3>1. UNCHANGED <<pc, op, writers, commit, share, log, mem, imm, wal, durable, tables>>
      BY <1>1, Zenon
    <3> QED BY <1>0, <1>1, <3>1, CommitKept, Zenon
  <2>3. FlushCallOK'
    BY <1>0, <1>1, Zenon DEF FlushCallOK
  <2> QED BY <1>1, <2>1, <2>2, <2>3, Zenon DEF DataInv, MemoryInv, CommitInv, BackgroundInv
<1>2. ASSUME NEW sticky \in BOOLEAN, sticky_error => sticky,
             BackgroundEnd(sticky, imm', level0', deeper')
      PROVE  BackgroundInv' /\ (sticky_error => sticky_error')
  <2>1. /\ bg' \in {"none", "scheduled"} /\ (sticky => sticky_error')
        /\ bg' = "scheduled" => imm' # NoImm \/ NeedsCompaction(level0', deeper')
    BY <1>2, ScheduleTask, Zenon DEF BackgroundEnd
  <2> QED BY <1>2, <2>1, Zenon DEF BackgroundInv, FlushOK, PickFindsWork, NeedsCompaction
<1>3. ASSUME FlushEndsInError(imm', level0'), deeper' = deeper
      PROVE  BackgroundInv' /\ sticky_error'
  <2>1. CASE compaction = "none"
    <3>1. BackgroundEnd(TRUE, imm', level0', deeper')
      BY <1>3, <2>1, Zenon DEF FlushEndsInError
    <3>2. MaybeSchedule(FALSE, TRUE, imm', level0', deeper', NotifyAll)
      BY <3>1, Zenon DEF BackgroundEnd
    <3> QED BY <1>2, <3>1, <3>2, ScheduleTask, Zenon
  <2>2. CASE compaction # "none"
    BY <1>3, <2>2, Zenon DEF FlushEndsInError, BackgroundInv, FlushOK, PickFindsWork
  <2> QED BY <2>1, <2>2, Zenon
<1>4. CASE BackgroundSkips
  <2>1. Rest /\ BackgroundEnd(sticky_error, imm', level0', deeper')
    BY <1>0, <1>4, <1>2, Zenon DEF BackgroundSkips
  <2> QED BY <1>0, <1>1, <1>2, <2>1, Zenon
<1>5. CASE FlushBegins
  <2>1. /\ Rest /\ imm # NoImm /\ bg' = "flush" /\ flush_log' = log
    BY <1>5, Zenon DEF FlushBegins
  <2>2. BackgroundInv'
    BY <2>1, Zenon DEF BackgroundInv, FlushOK, PickFindsWork
  <2> QED BY <1>1, <2>1, <2>2, Zenon
<1>6. CASE FlushBuilt
  <2>1. /\ next_file' = next_file /\ imm' = imm /\ level0' = level0 /\ deeper' = deeper
        /\ UNCHANGED <<callerVars, log, mem, imm, last_sequence, diskVars, flush_log>>
        /\ bg = "flush"
    BY <1>6, Zenon DEF FlushBuilt
  <2>2. CASE bg' = "flushlog" /\ sticky_error' = sticky_error
    <3>1. BackgroundInv'
      BY <1>0, <2>1, <2>2, Zenon DEF BackgroundInv, FlushOK, PickFindsWork
    <3> QED BY <1>1, <2>1, <2>2, <3>1, Zenon
  <2>3. CASE FlushEndsInError(imm, level0)
    <3>1. FlushEndsInError(imm', level0')
      BY <2>1, <2>3, Zenon
    <3> QED BY <1>1, <1>3, <2>1, <3>1, Zenon
  <2> QED BY <1>6, <2>2, <2>3, Zenon DEF FlushBuilt
<1>7. CASE FlushLogged
  <2>1. /\ UNCHANGED <<callerVars, log, mem, last_sequence, next_file, wal, durable, deeper>>
        /\ LockFree /\ bg = "flushlog" /\ deeper' = deeper
    BY <1>7, Zenon DEF FlushLogged
  <2>2. CASE InstallFlush(flush_log) /\ imm' = NoImm /\ FlushInstalled
    <3>1. imm # NoImm /\ flush_log = log
      BY <1>0, <2>1, Zenon DEF BackgroundInv, FlushOK
    <3>2. tables' = tables \cup imm.entries /\ log_number' = log /\ imm' = NoImm
      BY <2>2, <3>1, Zenon DEF InstallFlush
    <3>3. BackgroundInv' /\ (sticky_error => sticky_error')
      <4>1. CASE sticky_error
        BY <1>3, <2>1, <2>2, <4>1, Zenon DEF FlushInstalled
      <4>2. CASE ~sticky_error
        BY <2>2, <4>2, Zenon DEF FlushInstalled, BackgroundInv, FlushOK, PickFindsWork
      <4> QED BY <4>1, <4>2, Zenon
    <3>4. NumbersOK'
      BY <1>0, <2>1, <3>2 DEF MemoryInv, NumbersOK, NoImm
    <3>5. MemoryLogged' /\ PublishedIsHeld' /\ AckedIsDurable'
      BY <1>0, <2>1, <3>2 DEF MemoryInv, MemoryLogged, PublishedIsHeld, AckedIsDurable, Held, Interval,
                              NoImm
    <3>6. ProgressOK' /\ ShareOK'
      BY <1>0, <2>1, Zenon DEF CommitInv, ProgressOK, ShareOK, Record
    <3>7. RecordsHeld'
      <4>1. \A i : Unfinished(i)' <=> Unfinished(i)
        BY <2>1, Zenon DEF Unfinished, Record
      <4> QED BY <1>0, <2>1, <3>2, <3>3, <4>1, Zenon DEF CommitInv, RecordsHeld, Interval
    <3>8. FlushCallOK'
      BY <1>0, <2>1, <3>2, Zenon DEF FlushCallOK, LockFree
    <3> QED BY <3>3, <3>4, <3>5, <3>6, <3>7, <3>8, Zenon DEF DataInv, BackgroundInv
  <2>3. CASE FlushEndsInError(imm, level0) /\ UNCHANGED <<tables, imm, log_number, level0>>
    <3>1. FlushEndsInError(imm', level0')
      BY <2>3, Zenon
    <3> QED BY <1>1, <1>3, <2>1, <2>3, <3>1, Zenon
  <2> QED BY <1>7, <2>2, <2>3, Zenon DEF FlushLogged
<1>8. CASE CleanedUp
  <2>1. /\ next_file' = next_file
        /\ UNCHANGED <<callerVars, log, mem, imm, last_sequence, diskVars, level0, deeper>>
    BY <1>8, Zenon DEF CleanedUp
  <2>2. CASE compaction \in {"level0", "deeper"}
    <3>1. bg' \in {"compactfailed", "compact"} /\ sticky_error' = sticky_error
      BY <1>8, <2>2, Zenon DEF CleanedUp
    <3>2. BackgroundInv'
      BY <3>1, Zenon DEF BackgroundInv, FlushOK, PickFindsWork
    <3> QED BY <1>1, <2>1, <3>1, <3>2, Zenon
  <2>3. CASE compaction \notin {"level0", "deeper"}
    <3>1. BackgroundEnd(sticky_error, imm', level0', deeper')
      BY <1>8, <2>1, <2>3, Zenon DEF CleanedUp
    <3> QED BY <1>0, <1>1, <1>2, <2>1, <3>1, Zenon
  <2> QED BY <2>2, <2>3, Zenon
<1>9. CASE CompactionBegins
  <2>1. Rest /\ bg' \in {"compactlog", "compact"}
    BY <1>9, Zenon DEF CompactionBegins
  <2>2. BackgroundInv'
    BY <2>1, Zenon DEF BackgroundInv, FlushOK, PickFindsWork
  <2> QED BY <1>1, <2>1, <2>2, Zenon
<1>10. CASE CompactionRan
  <2>1. /\ next_file' = next_file
        /\ UNCHANGED <<callerVars, log, mem, imm, last_sequence, diskVars, level0, deeper>>
    BY <1>10, Zenon DEF CompactionRan
  <2>2. CASE bg' = "compactlog" /\ sticky_error' = sticky_error
    <3>1. BackgroundInv'
      BY <2>2, Zenon DEF BackgroundInv, FlushOK, PickFindsWork
    <3> QED BY <1>1, <2>1, <2>2, <3>1, Zenon
  <2>3. CASE BackgroundEnd(TRUE, imm, level0, deeper)
    <3>1. BackgroundEnd(TRUE, imm', level0', deeper')
      BY <2>1, <2>3, Zenon
    <3> QED BY <1>1, <1>2, <2>1, <3>1, Zenon
  <2> QED BY <1>10, <2>2, <2>3, Zenon DEF CompactionRan
<1>11. CASE CompactionLogged
  <2>1. /\ next_file' = next_file
        /\ UNCHANGED <<callerVars, log, mem, imm, last_sequence, diskVars>>
    BY <1>11, Zenon DEF CompactionLogged
  <2>2. CASE bg' = "cleanup" /\ sticky_error' = sticky_error
    <3>1. BackgroundInv'
      BY <2>2, Zenon DEF BackgroundInv, FlushOK, PickFindsWork
    <3> QED BY <1>1, <2>1, <2>2, <3>1, Zenon
  <2>3. ASSUME NEW sticky \in BOOLEAN, sticky_error => sticky, BackgroundEnd(sticky, imm, level0', deeper')
        PROVE  DataInv'
    <3>1. BackgroundEnd(sticky, imm', level0', deeper')
      BY <2>1, <2>3, Zenon
    <3> QED BY <1>1, <1>2, <2>1, <2>3, <3>1, Zenon
  <2>4. \/ bg' = "cleanup" /\ sticky_error' = sticky_error
        \/ BackgroundEnd(sticky_error, imm, level0', deeper')
        \/ BackgroundEnd(TRUE, imm, level0', deeper')
        \/ BackgroundEnd(TRUE, imm, level0, deeper) /\ UNCHANGED <<level0, deeper>>
    BY <1>11, Zenon DEF CompactionLogged
  <2> QED BY <1>0, <2>2, <2>3, <2>4, Zenon
<1>12. CASE ChargeSeek
  <2>1. /\ MaybeSchedule(background_scheduled, sticky_error, imm, level0, deeper', asleep)
        /\ deeper' = 1 /\ flush_log' = flush_log
        /\ UNCHANGED <<callerVars, log, mem, imm, last_sequence, next_file, diskVars>>
    BY <1>12, Zenon DEF ChargeSeek
  <2>2. bg' \in {"none", "scheduled", bg} /\ (sticky_error => sticky_error')
    BY <1>0, <2>1, ScheduleTask, Zenon
  <2>3. NeedsCompaction(level0', deeper')
    BY <2>1 DEF NeedsCompaction
  <2>4. BackgroundInv'
    BY <1>0, <2>1, <2>2, <2>3, Zenon DEF BackgroundInv, FlushOK, PickFindsWork
  <2> QED BY <1>1, <2>1, <2>2, <2>4, Zenon
<1>13. CASE Close \/ CloseReturns
  <2>1. /\ UNCHANGED <<callerVars, log, mem, imm, last_sequence, next_file, diskVars, level0, deeper>>
        /\ UNCHANGED <<sticky_error, bg, flush_log>>
        /\ engine' \in {engine, "closing", "closed"}
    BY <1>13, Zenon DEF Close, CloseReturns
  <2>2. BackgroundInv'
    BY <1>0, <2>1, Zenon DEF BackgroundInv, FlushOK, PickFindsWork, NeedsCompaction
  <2> QED BY <1>1, <2>1, <2>2, Zenon
<1> QED
  BY <1>4, <1>5, <1>6, <1>7, <1>8, <1>9, <1>10, <1>11, <1>12, <1>13, Zenon DEF BackgroundStep

\* Calls that start, take their turn or return.
LEMMA CallsData ==
    ASSUME IInv, DataInv, NEW w \in Writer,
           \/ \E call \in QueuedCalls : StartWrite(w, call)
           \/ StartWait(w) \/ Turn(w) \/ FlushReturns(w) \/ WaitReturns(w)
    PROVE  DataInv'
<1>0. /\ MemoryInv /\ CommitInv /\ BackgroundInv /\ FlushCallOK
      /\ LeaderIsFront /\ CommitOK
      /\ log \in Nat /\ next_file \in Nat /\ pc \in [Writer -> PCs]
      /\ op \in [Writer -> [kind : {"write", "flush", "wait"}, batch : Batches \cup {NoBatch}]]
      /\ writers \in Seq(Writer)
  BY Zenon DEF DataInv, MemoryInv, CommitInv, BackgroundInv, IInv, TypeOK, MemoryTypes, CallerTypes,
               QueueTypes
<1> DEFINE Rest == UNCHANGED <<commit, share, memoryVars, diskVars, treeVars, sticky_error, bgVars,
                               engine, acked>>
\* What is left to show is about the calls of FlushMemTable.
<1>1. ASSUME NEW q \in PCs \ Committing, pc' = [pc EXCEPT ![w] = q], pc[w] \notin Committing,
             \A v \in Writer \ {w} : op'[v] = op[v],
             \A i \in 1..Len(writers) : writers'[i] = writers[i],
             Rest, FlushCallOK'
      PROVE  DataInv'
  <2>1. MemoryInv'
    BY <1>0, <1>1, MemoryFrame, Zenon
  <2>2. CommitInv'
    <3>1. \A v \in Writer : pc'[v] \in Committing <=> pc[v] \in Committing
      BY <1>0, <1>1, Zenon
    <3>2. \A v \in Writer : pc[v] \in Committing => pc'[v] = pc[v] /\ op'[v] = op[v]
      BY <1>0, <1>1, Zenon
    <3>3. \A v \in Writer : pc[v] \in Committing => \A i \in 1..commit.n : i \in 1..Len(writers)
      BY <1>0 DEF CommitOK
    <3>4. sticky_error' = sticky_error /\ UNCHANGED <<commit, share, log, mem, imm, wal, durable, tables>>
      BY <1>1, Zenon
    <3>5. \A v \in Writer : pc[v] \in Committing => \A i \in 1..commit.n : writers'[i] = writers[i]
      BY <1>1, <3>3, Zenon
    <3> QED BY <1>0, <3>1, <3>2, <3>4, <3>5, CommitKept, Zenon
  <2>3. BackgroundInv'
    BY <1>0, <1>1, Zenon DEF BackgroundInv, FlushOK, PickFindsWork, NeedsCompaction
  <2> QED BY <1>1, <2>1, <2>2, <2>3, Zenon DEF DataInv, MemoryInv, CommitInv, BackgroundInv
<1>2. "idle" \in PCs \ Committing /\ "turn" \in PCs \ Committing /\ "prepare" \in PCs \ Committing
      /\ "bgwait" \in PCs \ Committing /\ "flushwait" \in PCs \ Committing
  BY DEF PCs, Committing
<1>3. CASE \E call \in QueuedCalls : StartWrite(w, call)
  <2>1. PICK call \in QueuedCalls : StartWrite(w, call)
    BY <1>3
  <2>2. /\ pc[w] = "idle" /\ op' = [op EXCEPT ![w] = call] /\ writers' = Append(writers, w) /\ Rest
        /\ flushing' = flushing
        /\ \/ /\ writers = << >> /\ pc' = [pc EXCEPT ![w] = "prepare"]
              /\ room' = [force |-> call.kind = "flush", allow_delay |-> call.kind = "write"]
           \/ pc' = [pc EXCEPT ![w] = "turn"] /\ room' = room
    BY <1>0, <2>1, Zenon DEF StartWrite, MayStart, StartRoom
  <2>3. \A i \in 1..Len(writers) : writers'[i] = writers[i]
    BY <1>0, <2>2
  <2>4. \A v \in Writer \ {w} : op'[v] = op[v] /\ pc'[v] = pc[v]
    BY <1>0, <2>2, Zenon
  <2>5. FlushCallOK'
    <3>1. CASE pc' = [pc EXCEPT ![w] = "turn"] /\ room' = room
      BY <1>0, <2>2, <2>4, <3>1, Zenon DEF FlushCallOK
    <3>2. CASE /\ writers = << >> /\ pc' = [pc EXCEPT ![w] = "prepare"]
               /\ room' = [force |-> call.kind = "flush", allow_delay |-> call.kind = "write"]
      <4>1. \A v \in Writer : pc[v] \notin {"prepare", "sleep", "stall"}
        BY <1>0, <3>2, Zenon DEF LeaderIsFront, Leading
      <4>2. op'[w] = call /\ pc'[w] = "prepare"
        BY <1>0, <2>2, <3>2, Zenon
      <4>3. op'[w].kind = "flush" => ~room'.allow_delay /\ room'.force
        BY <3>2, <4>2, Zenon
      <4> QED BY <1>0, <2>2, <2>4, <4>1, <4>2, <4>3, Zenon DEF FlushCallOK
    <3> QED BY <2>2, <3>1, <3>2, Zenon
  <2> QED BY <1>1, <1>2, <2>2, <2>3, <2>4, <2>5, Zenon
<1>4. CASE StartWait(w)
  <2>1. /\ pc[w] = "idle" /\ op' = [op EXCEPT ![w] = [kind |-> "wait", batch |-> NoBatch]]
        /\ Rest /\ UNCHANGED <<writers, room, flushing>>
        /\ pc' = [pc EXCEPT ![w] = "bgwait"] \/ pc' = [pc EXCEPT ![w] = "idle"]
    BY <1>0, <1>4, Zenon DEF StartWait, MayStart
  <2>2. \A v \in Writer \ {w} : op'[v] = op[v] /\ pc'[v] = pc[v]
    BY <1>0, <2>1, Zenon
  <2>3. FlushCallOK'
    BY <1>0, <2>1, <2>2, Zenon DEF FlushCallOK
  <2> QED BY <1>1, <1>2, <2>1, <2>2, <2>3, Zenon
<1>5. CASE Turn(w)
  <2>1. /\ pc[w] = "turn" /\ Rest /\ UNCHANGED <<op, writers, flushing>>
        /\ \/ pc' = [pc EXCEPT ![w] = "idle"] /\ room' = room
           \/ pc' = [pc EXCEPT ![w] = "turn"] /\ room' = room
           \/ /\ pc' = [pc EXCEPT ![w] = "prepare"] /\ writers[1] = w
              /\ room' = [force |-> op[w].kind = "flush", allow_delay |-> op[w].kind = "write"]
    BY <1>0, <1>5, Zenon DEF Turn
  <2>2. \A v \in Writer \ {w} : pc'[v] = pc[v]
    BY <1>0, <2>1, Zenon
  <2>3. FlushCallOK'
    <3>1. CASE room' = room /\ (pc' = [pc EXCEPT ![w] = "idle"] \/ pc' = [pc EXCEPT ![w] = "turn"])
      BY <1>0, <2>1, <2>2, <3>1, Zenon DEF FlushCallOK
    <3>2. CASE /\ pc' = [pc EXCEPT ![w] = "prepare"] /\ writers[1] = w
               /\ room' = [force |-> op[w].kind = "flush", allow_delay |-> op[w].kind = "write"]
      <4>1. \A v \in Writer : pc[v] \notin {"prepare", "sleep", "stall"}
        BY <1>0, <2>1, <3>2, Zenon DEF LeaderIsFront, Leading
      <4>2. op'[w] = op[w] /\ pc'[w] = "prepare"
        BY <1>0, <2>1, <3>2, Zenon
      <4>3. op'[w].kind = "flush" => ~room'.allow_delay /\ room'.force
        BY <3>2, <4>2, Zenon
      <4> QED BY <1>0, <2>1, <2>2, <4>1, <4>2, <4>3, Zenon DEF FlushCallOK
    <3> QED BY <2>1, <3>1, <3>2, Zenon
  <2> QED BY <1>1, <1>2, <2>1, <2>3, Zenon DEF Committing
<1>6. CASE FlushReturns(w) \/ WaitReturns(w)
  <2>1. /\ pc[w] \in {"flushwait", "bgwait"} /\ Rest /\ UNCHANGED <<op, writers, room, flushing>>
        /\ pc' = [pc EXCEPT ![w] = "idle"] \/ pc' = [pc EXCEPT ![w] = pc[w]]
    BY <1>0, <1>6, Zenon DEF FlushReturns, WaitReturns
  <2>2. FlushCallOK'
    BY <1>0, <2>1, Zenon DEF FlushCallOK
  <2> QED BY <1>1, <1>2, <2>1, <2>2, Zenon
<1> QED BY <1>3, <1>4, <1>5, <1>6, Zenon

\* SwitchMemTable: the memtable becomes the immutable one, under the log it had.
LEMMA SwitchData ==
    ASSUME IInv, DataInv, NEW w \in Writer, Switch(w)
    PROVE  DataInv'
<1>0. /\ MemoryInv /\ CommitInv /\ BackgroundInv /\ FlushCallOK /\ LeaderIsFront
      /\ log \in Nat /\ next_file \in Nat /\ log_number \in Nat /\ Len(wal) \in Nat
      /\ background_scheduled \in BOOLEAN /\ flushing \in [Writer -> Nat]
      /\ \A i \in 1..Len(wal) : wal[i].log \in Nat
  BY WalTypes, Zenon DEF DataInv, MemoryInv, CommitInv, BackgroundInv, IInv, TypeOK, MemoryTypes, DiskTypes,
                  BackgroundTypes, CallerTypes
<1>1. /\ pc[w] = "prepare" /\ ~sticky_error /\ imm = NoImm
      /\ next_file' = next_file + 1 /\ log' = next_file /\ mem' = {}
      /\ imm' = [log |-> log, entries |-> mem] /\ room' = [room EXCEPT !.force = FALSE]
      /\ UNCHANGED <<pc, op, flushing, last_sequence, wal, durable, tables, log_number, acked, flush_log>>
  BY Zenon DEF Switch, MustSwitch, Stalls
<1>2. /\ 1 <= log_number /\ log_number <= log /\ log < next_file /\ imm.entries = {}
      /\ \A i \in 1..Len(wal) : 1 <= wal[i].log /\ wal[i].log <= log
  BY <1>0, <1>1, Zenon DEF MemoryInv, NumbersOK
<1>3. imm' # NoImm /\ imm'.log = log /\ imm'.entries = mem
  BY <1>0, <1>1, <1>2 DEF NoImm
<1>4. \A v \in Writer : pc[v] \notin Committing /\ (pc[v] \in {"prepare", "sleep", "stall"} => v = w)
  BY <1>0, <1>1, LeaderUnique, Zenon DEF Leading, Committing
<1>5. NumbersOK'
  <2>1. durable' \subseteq 1..Len(wal')
    BY <1>0, <1>1, Zenon DEF MemoryInv, NumbersOK
  <2>2. \A i \in 1..Len(wal') : 1 <= wal'[i].log /\ wal'[i].log <= log'
    BY <1>0, <1>1, <1>2
  <2> QED BY <1>0, <1>1, <1>2, <1>3, <2>1, <2>2 DEF NumbersOK
<1>6. MemoryLogged' /\ PublishedIsHeld' /\ AckedIsDurable'
  <2>1. MemoryLogged'
    BY <1>0, <1>1, <1>3, Zenon DEF MemoryInv, MemoryLogged, Interval
  <2>2. PublishedIsHeld'
    BY <1>0, <1>1, <1>2, <1>3, Zenon DEF MemoryInv, PublishedIsHeld, Held
  <2>3. AckedIsDurable'
    BY <1>0, <1>1, Zenon DEF MemoryInv, AckedIsDurable, Interval
  <2> QED BY <2>1, <2>2, <2>3, Zenon
<1>7. ProgressOK' /\ ShareOK'
  BY <1>1, <1>4, Zenon DEF ProgressOK, ShareOK, Committing
<1>8. RecordsHeld'
  BY <1>0, <1>1, <1>3, <1>4, Zenon DEF CommitInv, RecordsHeld, Unfinished, Committing, Interval
<1>9. FlushCallOK'
  <2>1. op[w].kind = "flush" => ~room'.allow_delay
    <3>1. room'.allow_delay = room.allow_delay
      BY <1>1 DEF IInv, TypeOK, QueueTypes
    <3> QED BY <1>0, <1>1, <3>1, Zenon DEF FlushCallOK
  <2>2. ASSUME NEW v \in Writer, pc[v] = "flushwait"
        PROVE  flushing[v] < log' /\ imm'.log >= flushing[v]
    <3>1. flushing[v] < log /\ flushing[v] \in Nat
      BY <1>0, <2>2, Zenon DEF FlushCallOK
    <3> QED BY <1>0, <1>1, <1>2, <1>3, <3>1
  <2> QED BY <1>1, <1>3, <1>4, <2>1, <2>2, Zenon DEF FlushCallOK
<1>10. BackgroundInv'
  <2>1. bg' \in {"none", "scheduled", bg}
    BY <1>0, ScheduleTask, Zenon DEF Switch
  <2>2. bg \notin {"flush", "flushlog"}
    BY <1>0, <1>1, Zenon DEF BackgroundInv, FlushOK
  <2> QED BY <1>3, <2>1, <2>2, Zenon DEF BackgroundInv, FlushOK, PickFindsWork
<1> QED BY <1>5, <1>6, <1>7, <1>8, <1>9, <1>10, Zenon DEF DataInv, BackgroundInv

\* BuildGroup, and the failure of it.
LEMMA GroupData ==
    ASSUME IInv, DataInv, NEW w \in Writer,
           BeginGroup(w) \/ TakeOn(w) \/ BuildThrows(w) \/ BeginCommit(w)
    PROVE  DataInv'
<1>0. /\ MemoryInv /\ CommitInv /\ BackgroundInv /\ FlushCallOK /\ LeaderIsFront /\ CommitOK /\ QueueOK
      /\ log \in Nat /\ next_file \in Nat /\ pc \in [Writer -> PCs] /\ last_sequence \in Nat
      /\ share \in [Writer -> [first : Nat, count : Nat, sync : BOOLEAN]]
      /\ commit \in [n : Nat, first : Nat, count : Nat, size : Nat, log : Nat, inserted : Nat]
      /\ writers \in Seq(Writer)
  BY Zenon DEF DataInv, MemoryInv, CommitInv, BackgroundInv, IInv, TypeOK, MemoryTypes, CallerTypes,
               QueueTypes
<1>1. pc[w] \in {"prepare", "group"}
  BY Zenon DEF BeginGroup, TakeOn, BuildThrows, BeginCommit
<1>2. /\ \A v \in Writer \ {w} : pc[v] \notin Leading
      /\ \A v \in Writer : pc[v] \notin {"sync", "insert", "failed", "threw"}
      /\ writers[1] = w
  BY <1>0, <1>1, LeaderUnique, Zenon DEF Leading, LeaderIsFront
<1>3. /\ UNCHANGED <<op, room, flushing, memoryVars, diskVars, treeVars, sticky_error, bgVars, engine, acked>>
      /\ \/ pc' = [pc EXCEPT ![w] = "group"] \/ pc' = [pc EXCEPT ![w] = "append"]
         \/ pc' = [pc EXCEPT ![w] = "idle"] \/ (pc' = pc /\ pc[w] = "group")
  BY <1>0, Zenon DEF BeginGroup, TakeOn, BuildThrows, BeginCommit, ReturnAlone
<1>4. /\ \A v \in Writer \ {w} : pc'[v] = pc[v] /\ pc'[v] \notin Committing
      /\ pc'[w] \in {"group", "append", "idle"}
  BY <1>0, <1>2, <1>3, Zenon DEF Leading, Committing
<1>5. MemoryInv' /\ BackgroundInv' /\ FlushCallOK'
  <2>1. MemoryInv'
    BY <1>0, <1>3, MemoryFrame, Zenon
  <2>2. BackgroundInv'
    BY <1>0, <1>3, Zenon DEF BackgroundInv, FlushOK, PickFindsWork, NeedsCompaction
  <2>3. FlushCallOK'
    BY <1>0, <1>3, <1>4, Zenon DEF FlushCallOK
  <2> QED BY <2>1, <2>2, <2>3, Zenon
<1>6. RecordsHeld'
  <2>1. UNCHANGED <<log, mem, imm, wal, tables, sticky_error>>
    BY <1>3, Zenon
  <2> QED BY <1>0, <1>2, <2>1, Zenon DEF CommitInv, RecordsHeld, Unfinished, Interval
<1>7. ASSUME pc'[w] # "idle" => commit'.inserted = 0 PROVE ProgressOK'
  BY <1>4, <1>7, Zenon DEF ProgressOK, Committing
<1>8. ASSUME pc'[w] # "idle" => \A i \in 1..commit'.n :
                /\ commit'.first <= share'[writers'[i]].first
                /\ share'[writers'[i]].first + share'[writers'[i]].count <= commit'.first + commit'.count
                /\ share'[writers'[i]].sync => op'[w].batch.sync
      PROVE ShareOK'
  BY <1>4, <1>8, Zenon DEF ShareOK, Committing
<1>9. CASE BeginGroup(w)
  <2> DEFINE own == [first |-> last_sequence + 1, count |-> op[w].batch.count, sync |-> op[w].batch.sync]
  <2>1. /\ commit' = [n |-> 1, first |-> last_sequence + 1, count |-> op[w].batch.count,
                      size |-> op[w].batch.size, log |-> log, inserted |-> 0]
        /\ share' = [share EXCEPT ![w] = own] /\ writers' = writers /\ op' = op
    BY <1>9, Zenon DEF BeginGroup
  <2>2. /\ commit'.n = 1 /\ commit'.first = last_sequence + 1 /\ commit'.count = op[w].batch.count
        /\ commit'.inserted = 0
    BY <2>1
  <2>3. share'[w] = own
    BY <1>0, <2>1, Zenon
  <2>4. own.first = last_sequence + 1 /\ own.count = op[w].batch.count /\ own.sync = op[w].batch.sync
    OBVIOUS
  <2> HIDE DEF own
  <2>5. op[w].batch.count \in Nat
    BY BatchTypes DEF IInv, TypeOK
  <2>6. \A i \in 1..commit'.n : writers'[i] = w
    BY <1>2, <2>1, <2>2
  <2>7. /\ commit'.first <= share'[w].first
        /\ share'[w].first + share'[w].count <= commit'.first + commit'.count
        /\ share'[w].sync => op'[w].batch.sync
    BY <1>0, <2>1, <2>2, <2>3, <2>4, <2>5
  <2>8. ProgressOK' /\ ShareOK'
    BY <1>7, <1>8, <2>2, <2>6, <2>7, Zenon
  <2> QED BY <1>5, <1>6, <2>8, Zenon DEF DataInv, MemoryInv, BackgroundInv
<1>10. CASE TakeOn(w)
  <2> DEFINE f == writers[commit.n + 1]
             part == [first |-> commit.first + commit.count, count |-> op[f].batch.count,
                      sync |-> op[f].batch.sync]
  <2>1. /\ pc[w] = "group" /\ commit.n < Len(writers) /\ CompatibleFollower(writers[1], f)
        /\ commit' = [commit EXCEPT !.n = @ + 1, !.count = @ + op[f].batch.count,
                                    !.size = @ + op[f].batch.size]
        /\ share' = [share EXCEPT ![f] = part] /\ writers' = writers /\ op' = op
    BY <1>10, Zenon DEF TakeOn, CanTakeOn
  <2>2. commit.n \in Nat /\ commit.first \in Nat /\ commit.count \in Nat /\ Len(writers) \in Nat
    BY <1>0, LenOfSeq
  <2>3. commit.n + 1 \in 1..Len(writers) /\ f \in Writer
    <3>1. commit.n < Len(writers)
      BY <2>1, Zenon
    <3>2. commit.n + 1 \in 1..Len(writers)
      BY <2>2, <3>1
    <3> QED BY <1>0, <3>2, MemberOfSeq, Zenon
  <2>4. op[f].batch.count \in Nat
    BY <2>3, BatchTypes DEF IInv, TypeOK
  <2>5. /\ commit'.n = commit.n + 1 /\ commit'.first = commit.first
        /\ commit'.count = commit.count + op[f].batch.count /\ commit'.inserted = commit.inserted
    BY <1>0, <2>1
  <2>6. part.first = commit.first + commit.count /\ part.count = op[f].batch.count
        /\ part.sync = op[f].batch.sync
    OBVIOUS
  <2>7. op[f].batch.sync => op[w].batch.sync
    BY <1>2, <2>1, Zenon DEF CompatibleFollower
  <2>8. share'[f] = part
    BY <1>0, <2>1, <2>3, Zenon
  <2>81. writers[commit.n + 1] = f
    OBVIOUS
  <2> HIDE DEF part, f
  <2>9. ASSUME NEW i \in 1..commit'.n
        PROVE  /\ commit'.first <= share'[writers[i]].first
               /\ share'[writers[i]].first + share'[writers[i]].count <= commit'.first + commit'.count
               /\ share'[writers[i]].sync => op[w].batch.sync
    <3>1. CASE i = commit.n + 1
      <4>1. share'[writers[i]] = part
        BY <2>8, <2>81, <3>1, Zenon
      <4>2. share'[writers[i]].sync => op[w].batch.sync
        BY <2>6, <2>7, <4>1, Zenon
      <4>3. part.first = commit.first + commit.count /\ part.count \in Nat
            /\ commit'.first + commit'.count = part.first + part.count
        BY <2>2, <2>4, <2>5, <2>6
      <4> QED BY <2>2, <2>5, <4>1, <4>2, <4>3
    <3>2. CASE i # commit.n + 1
      <4>1. i \in 1..commit.n /\ i \in 1..Len(writers)
        <5>1. commit.n < Len(writers)
          BY <2>1, Zenon
        <5> QED BY <2>2, <2>5, <3>2, <5>1
      <4>2. writers[i] # f /\ writers[i] \in Writer
        BY <1>0, <2>3, <2>81, <3>2, <4>1, MemberOfSeq, Zenon DEF QueueOK
      <4>3. share'[writers[i]] = share[writers[i]]
        BY <1>0, <2>1, <4>2, Zenon
      <4>4. /\ commit.first <= share[writers[i]].first
            /\ share[writers[i]].first + share[writers[i]].count <= commit.first + commit.count
            /\ share[writers[i]].sync => op[w].batch.sync
        BY <1>0, <2>1, <4>1, Zenon DEF CommitInv, ShareOK, Committing
      <4>5. share[writers[i]].first \in Nat /\ share[writers[i]].count \in Nat
        BY <1>0, <4>2
      <4>6. share'[writers[i]].first + share'[writers[i]].count <= commit'.first + commit'.count
        <5>1. share[writers[i]].first + share[writers[i]].count <= commit.first + commit.count
          BY <4>4, Zenon
        <5>2. \A a, b, c, d, e \in Nat : a + b <= c + d => a + b <= c + (d + e)
          OBVIOUS
        <5>3. share[writers[i]].first + share[writers[i]].count
                <= commit.first + (commit.count + op[f].batch.count)
          BY <2>2, <2>4, <4>5, <5>1, <5>2, Zenon
        <5> QED BY <2>5, <4>3, <5>3, Zenon
      <4> QED BY <2>5, <4>3, <4>4, <4>6, Zenon
    <3> QED BY <3>1, <3>2
  <2>10. commit.inserted = 0
    BY <1>0, <2>1, Zenon DEF CommitInv, ProgressOK
  <2>11. ProgressOK' /\ ShareOK'
    BY <1>7, <1>8, <2>1, <2>5, <2>9, <2>10, Zenon
  <2> QED BY <1>5, <1>6, <2>11, Zenon DEF DataInv, MemoryInv, BackgroundInv
<1>11. CASE BuildThrows(w)
  <2>1. pc'[w] = "idle"
    BY <1>0, <1>11, Zenon DEF BuildThrows, ReturnAlone
  <2> QED BY <1>5, <1>6, <1>7, <1>8, <2>1, Zenon DEF DataInv, MemoryInv, BackgroundInv
<1>12. CASE BeginCommit(w)
  <2>1. pc[w] = "group" /\ UNCHANGED <<commit, share, writers, op>>
    BY <1>12, Zenon DEF BeginCommit
  <2>2. /\ commit.inserted = 0
        /\ \A i \in 1..commit.n :
             /\ commit.first <= share[writers[i]].first
             /\ share[writers[i]].first + share[writers[i]].count <= commit.first + commit.count
             /\ share[writers[i]].sync => op[w].batch.sync
    BY <1>0, <2>1, Zenon DEF CommitInv, ProgressOK, ShareOK, Committing
  <2>3. ProgressOK' /\ ShareOK'
    BY <1>7, <1>8, <2>1, <2>2, Zenon
  <2> QED BY <1>5, <1>6, <2>3, Zenon DEF DataInv, MemoryInv, BackgroundInv
<1> QED BY <1>9, <1>10, <1>11, <1>12, Zenon

\* CommitWrite without the mutex, until it publishes or fails.
LEMMA CommitData ==
    ASSUME IInv, DataInv, NEW w \in Writer,
           AppendRecord(w) \/ SyncLog(w) \/ InsertEntry(w) \/ Publish(w) \/ CommitFails(w)
    PROVE  DataInv'
<1>0. /\ MemoryInv /\ CommitInv /\ BackgroundInv /\ FlushCallOK /\ LeaderIsFront /\ CommitOK
      /\ log \in Nat /\ next_file \in Nat /\ pc \in [Writer -> PCs] /\ last_sequence \in Nat
      /\ writers \in Seq(Writer) /\ wal \in Seq([log : Nat, first : Nat, count : Nat])
      /\ share \in [Writer -> [first : Nat, count : Nat, sync : BOOLEAN]]
      /\ commit \in [n : Nat, first : Nat, count : Nat, size : Nat, log : Nat, inserted : Nat]
  BY Zenon DEF DataInv, MemoryInv, CommitInv, BackgroundInv, IInv, TypeOK, MemoryTypes, CallerTypes,
               QueueTypes, DiskTypes
<1>1. /\ commit.n \in Nat /\ commit.first \in Nat /\ commit.count \in Nat /\ commit.log \in Nat
      /\ commit.inserted \in Nat
  BY <1>0
<1>2. /\ Len(wal) \in Nat
      /\ \A i \in 1..Len(wal) : wal[i].log \in Nat /\ wal[i].first \in Nat /\ wal[i].count \in Nat
  BY WalTypes, Zenon DEF IInv
<1>3. /\ pc[w] \in {"append", "sync", "insert", "failed", "threw"} /\ pc[w] \in Committing
      /\ \A v \in Writer \ {w} : pc[v] \notin Leading
      /\ commit.log = log /\ commit.first = last_sequence + 1 /\ commit.n \in 1..Len(writers)
  <2>1. pc[w] \in {"append", "sync", "insert", "failed", "threw"}
    BY Zenon DEF AppendRecord, SyncLog, InsertEntry, Publish, CommitFails
  <2> QED BY <1>0, <2>1, LeaderUnique, Zenon DEF Leading, Committing, CommitOK
<1>4. Record.log = log /\ Record.first = commit.first /\ Record.count = commit.count
      /\ Record \in [log : Nat, first : Nat, count : Nat]
  BY <1>1, <1>3 DEF Record
<1>5. /\ UNCHANGED <<op, room, flushing, log, next_file, tables, log_number, treeVars, bgVars, engine>>
      /\ imm' = imm /\ (sticky_error => sticky_error')
      /\ \/ pc' = pc \/ pc' = [pc EXCEPT ![w] = "sync"] \/ pc' = [pc EXCEPT ![w] = "insert"]
         \/ pc' = [pc EXCEPT ![w] = "failed"] \/ pc' = [pc EXCEPT ![w] = "threw"]
         \/ pc' = [pc EXCEPT ![w] = "idle"]
  <2>1. CASE AppendRecord(w)
    BY <1>3, <2>1, Zenon DEF AppendRecord
  <2>2. CASE SyncLog(w)
    BY <1>3, <2>2, Zenon DEF SyncLog
  <2>3. CASE InsertEntry(w)
    BY <1>3, <2>3, Zenon DEF InsertEntry
  <2>4. CASE Publish(w)
    BY <1>3, <2>4, Zenon DEF Publish
  <2>5. CASE CommitFails(w)
    BY <1>3, <2>5, Zenon DEF CommitFails
  <2> QED BY <2>1, <2>2, <2>3, <2>4, <2>5, Zenon
<1>6. \A v \in Writer \ {w} : pc'[v] = pc[v] /\ pc'[v] \notin Committing
  BY <1>0, <1>3, <1>5, Zenon DEF Leading, Committing
<1>7. BackgroundInv' /\ FlushCallOK'
  <2>1. BackgroundInv'
    BY <1>0, <1>5, Zenon DEF BackgroundInv, FlushOK, PickFindsWork, NeedsCompaction
  <2>2. pc'[w] \notin {"prepare", "sleep", "stall", "flushwait"}
    BY <1>0, <1>3, <1>5, Zenon
  <2>3. \A v \in Writer \ {w} : pc'[v] \notin {"prepare", "sleep", "stall"}
    BY <1>3, <1>6, Zenon DEF Leading
  <2>4. FlushCallOK'
    BY <1>0, <1>5, <1>6, <2>2, <2>3, Zenon DEF FlushCallOK
  <2> QED BY <2>1, <2>4, Zenon
\* What is left to show, of the commit alone.
<1>8. ASSUME /\ pc'[w] \in {"sync", "insert"} => Len(wal') >= 1 /\ wal'[Len(wal')] = Record'
             /\ pc'[w] = "sync" => commit'.inserted = 0
             /\ pc'[w] = "insert" =>
                  /\ commit'.inserted <= commit'.count
                  /\ commit'.first..(commit'.first + commit'.inserted - 1) \subseteq mem'
                  /\ op[w].batch.sync => Len(wal') \in durable',
             pc'[w] \notin {"group", "append"}
      PROVE  ProgressOK'
  BY <1>5, <1>6, <1>8, Zenon DEF ProgressOK, Committing
<1>9. ASSUME \/ pc'[w] \notin Committing
             \/ /\ UNCHANGED <<share, writers>>
                /\ commit'.n = commit.n /\ commit'.first = commit.first /\ commit'.count = commit.count
      PROVE  ShareOK'
  BY <1>0, <1>3, <1>5, <1>6, <1>9, Zenon DEF CommitInv, ShareOK
<1>10. CASE AppendRecord(w)
  <2>1. /\ pc[w] = "append" /\ (wal' = wal \/ wal' = Append(wal, Record))
        /\ UNCHANGED <<commit, share, writers, mem, last_sequence, durable, acked, sticky_error>>
        /\ \/ /\ wal' = Append(wal, Record)
              /\ pc' = [pc EXCEPT ![w] = IF op[w].batch.sync THEN "sync" ELSE "insert"]
           \/ pc' = [pc EXCEPT ![w] = "failed"] \/ pc' = [pc EXCEPT ![w] = "threw"]
    BY <1>10, Zenon DEF AppendRecord
  <2>2. /\ Len(wal') \in Nat /\ Len(wal) <= Len(wal')
        /\ \A i \in 1..Len(wal) : i \in 1..Len(wal') /\ wal'[i] = wal[i]
        /\ \A i \in 1..Len(wal') : i \in 1..Len(wal)
                                   \/ (i = Len(wal') /\ wal'[i] = Record /\ wal' = Append(wal, Record))
    <3>1. CASE wal' = wal
      BY <1>2, <3>1
    <3>2. CASE wal' = Append(wal, Record)
      <4>1. /\ Len(wal') = Len(wal) + 1 /\ wal'[Len(wal) + 1] = Record
            /\ \A i \in 1..Len(wal) : wal'[i] = wal[i]
        BY <1>0, <1>4, <3>2, Appended
      <4> QED BY <1>2, <3>2, <4>1
    <3> QED BY <2>1, <3>1, <3>2
  <2>3. wal' = Append(wal, Record) => Len(wal') = Len(wal) + 1 /\ wal'[Len(wal')] = Record
    BY <1>0, <1>4, Appended
  <2>4. NumbersOK'
    <3>1. \A i \in 1..Len(wal') : 1 <= wal'[i].log /\ wal'[i].log <= log
      <4>1. 1 <= log /\ \A i \in 1..Len(wal) : 1 <= wal[i].log /\ wal[i].log <= log
        <5>1. 1 <= log_number /\ log_number <= log /\ log_number \in Nat
          BY <1>0, Zenon DEF MemoryInv, NumbersOK, IInv, TypeOK, DiskTypes
        <5>2. 1 <= log
          BY <1>0, <5>1
        <5> QED BY <1>0, <5>2, Zenon DEF MemoryInv, NumbersOK
      <4>2. log <= log
        BY <1>0
      <4> QED BY <1>4, <2>2, <4>1, <4>2, Zenon
    <3>2. durable \subseteq 1..Len(wal')
      BY <1>0, <2>2, Zenon DEF MemoryInv, NumbersOK
    <3> QED BY <1>0, <1>5, <2>1, <3>1, <3>2, Zenon DEF MemoryInv, NumbersOK
  <2>5. MemoryLogged' /\ PublishedIsHeld' /\ AckedIsDurable'
    <3>1. MemoryLogged'
      BY <1>0, <1>5, <2>1, <2>2, Zenon DEF MemoryInv, MemoryLogged, Interval
    <3>2. PublishedIsHeld'
      BY <1>0, <1>5, <2>1, Zenon DEF MemoryInv, PublishedIsHeld, Held
    <3>3. \A i \in durable : wal'[i] = wal[i]
      BY <1>0, <2>2, Zenon DEF MemoryInv, NumbersOK
    <3>4. AckedIsDurable'
      BY <1>0, <1>5, <2>1, <3>3, Zenon DEF MemoryInv, AckedIsDurable, Interval
    <3> QED BY <3>1, <3>2, <3>4, Zenon
  <2>6. Record' = Record /\ commit.inserted = 0
    BY <1>0, <2>1, Zenon DEF Record, CommitInv, ProgressOK
  <2>7. pc'[w] \in {"sync", "insert", "failed", "threw"}
        /\ (pc'[w] = "insert" => ~op[w].batch.sync)
        /\ (pc'[w] \in {"sync", "insert"} => wal' = Append(wal, Record))
    <3>1. CASE op[w].batch.sync
      BY <1>0, <2>1, <3>1, Zenon
    <3>2. CASE ~op[w].batch.sync
      BY <1>0, <2>1, <3>2, Zenon
    <3> QED BY <3>1, <3>2, Zenon
  <2>8. ProgressOK'
    <3>1. commit'.inserted = 0 /\ commit'.inserted <= commit'.count
          /\ commit'.first..(commit'.first + commit'.inserted - 1) = {}
      BY <1>1, <2>1, <2>6
    <3>2. wal' = Append(wal, Record) => Len(wal') >= 1 /\ wal'[Len(wal')] = Record'
      BY <1>2, <2>3, <2>6
    <3> QED BY <1>8, <2>7, <3>1, <3>2, Zenon
  <2>9. ShareOK'
    BY <1>9, <2>1, Zenon
  <2>10. RecordsHeld'
    <3>1. \A i : ~Unfinished(i)
      BY <1>3, <2>1, Zenon DEF Unfinished, Leading
    <3>2. \A i \in 1..Len(wal') : i \in 1..Len(wal) \/ Unfinished(i)'
      BY <2>2, <2>6, <2>7, Zenon DEF Unfinished
    <3>3. UNCHANGED <<log, mem, imm, tables, sticky_error>>
      BY <1>5, <2>1, Zenon
    <3> QED BY <1>0, <2>2, <3>1, <3>2, <3>3, Zenon DEF CommitInv, RecordsHeld, Interval
  <2> QED BY <1>7, <2>4, <2>5, <2>8, <2>9, <2>10, Zenon DEF DataInv, BackgroundInv
<1>11. CASE SyncLog(w)
  <2>1. /\ pc[w] = "sync"
        /\ UNCHANGED <<wal, commit, share, writers, mem, last_sequence, acked, sticky_error>>
        /\ durable \subseteq durable'
        /\ durable' \subseteq durable \cup {i \in DOMAIN wal : wal[i].log = commit.log}
        /\ \/ /\ durable' = durable \cup {i \in DOMAIN wal : wal[i].log = commit.log}
              /\ pc' = [pc EXCEPT ![w] = "insert"]
           \/ pc' = [pc EXCEPT ![w] = "failed"]
    BY <1>11, Zenon DEF SyncLog
  <2>2. DOMAIN wal = 1..Len(wal)
    BY <1>0, LenOfSeq
  <2>3. NumbersOK' /\ MemoryLogged' /\ PublishedIsHeld' /\ AckedIsDurable'
    <3>1. NumbersOK'
      BY <1>0, <1>5, <2>1, <2>2, Zenon DEF MemoryInv, NumbersOK
    <3>2. MemoryLogged'
      BY <1>0, <1>5, <2>1, Zenon DEF MemoryInv, MemoryLogged, Interval
    <3>3. PublishedIsHeld'
      BY <1>0, <1>5, <2>1, Zenon DEF MemoryInv, PublishedIsHeld, Held
    <3>4. AckedIsDurable'
      BY <1>0, <1>5, <2>1, Zenon DEF MemoryInv, AckedIsDurable, Interval
    <3> QED BY <3>1, <3>2, <3>3, <3>4, Zenon
  <2>4. Record' = Record /\ commit.inserted = 0 /\ Len(wal) >= 1 /\ wal[Len(wal)] = Record
    BY <1>0, <2>1, Zenon DEF Record, CommitInv, ProgressOK
  <2>5. pc'[w] \in {"insert", "failed"}
        /\ (pc'[w] = "insert" => durable' = durable \cup {i \in DOMAIN wal : wal[i].log = commit.log})
    BY <1>0, <2>1, Zenon
  <2>6. Len(wal) \in {i \in DOMAIN wal : wal[i].log = commit.log}
    <3>1. Len(wal) \in 1..Len(wal)
      BY <1>2, <2>4
    <3> QED BY <1>3, <1>4, <2>2, <2>4, <3>1, Zenon
  <2>7. ProgressOK'
    <3>1. commit'.inserted <= commit'.count
          /\ commit'.first..(commit'.first + commit'.inserted - 1) = {}
      BY <1>1, <2>1, <2>4
    <3>2. Len(wal') = Len(wal) /\ wal'[Len(wal')] = Record'
      BY <2>1, <2>4, Zenon
    <3> QED BY <1>8, <2>4, <2>5, <2>6, <3>1, <3>2, Zenon
  <2>8. ShareOK'
    BY <1>9, <2>1, Zenon
  <2>9. RecordsHeld'
    <3>1. \A i : Unfinished(i) => Unfinished(i)'
      BY <2>1, <2>4, <2>5, Zenon DEF Unfinished
    <3>2. UNCHANGED <<log, mem, imm, tables, sticky_error, wal>>
      BY <1>5, <2>1, Zenon
    <3> QED BY <1>0, <3>1, <3>2, Zenon DEF CommitInv, RecordsHeld, Interval
  <2> QED BY <1>7, <2>3, <2>7, <2>8, <2>9, Zenon DEF DataInv, BackgroundInv
<1>12. CASE InsertEntry(w)
  <2>1. /\ pc[w] = "insert" /\ commit.inserted < commit.count
        /\ UNCHANGED <<wal, durable, share, writers, last_sequence, acked, sticky_error>>
        /\ \/ /\ mem' = mem \cup {commit.first + commit.inserted} /\ pc' = pc
              /\ commit' = [commit EXCEPT !.inserted = @ + 1]
           \/ mem' = mem /\ commit' = commit /\ pc' = [pc EXCEPT ![w] = "threw"]
    BY <1>3, <1>12, Zenon DEF InsertEntry
  <2>2. /\ commit'.n = commit.n /\ commit'.first = commit.first /\ commit'.count = commit.count
        /\ commit'.log = commit.log
    BY <1>0, <2>1, Zenon
  <2>3. Record' = Record /\ Len(wal) >= 1 /\ wal[Len(wal)] = Record
    BY <1>0, <2>1, <2>2, Zenon DEF Record, CommitInv, ProgressOK
  <2>4. /\ commit.first..(commit.first + commit.inserted - 1) \subseteq mem
        /\ op[w].batch.sync => Len(wal) \in durable
    BY <1>0, <2>1, Zenon DEF CommitInv, ProgressOK
  <2>5. mem \subseteq mem' /\ mem' \subseteq mem \cup {commit.first + commit.inserted}
    BY <2>1, Zenon
  <2>6. commit.first + commit.inserted \in Interval(wal[Len(wal)]) /\ Len(wal) \in 1..Len(wal)
        /\ wal[Len(wal)].log = log
    <3>1. commit.first + commit.inserted \in commit.first..(commit.first + commit.count - 1)
      BY <1>1, <2>1
    <3>2. Len(wal) \in 1..Len(wal)
      BY <1>2, <2>3
    <3> QED BY <1>4, <2>3, <3>1, <3>2, Zenon DEF Interval
  <2>7. NumbersOK' /\ MemoryLogged' /\ PublishedIsHeld' /\ AckedIsDurable'
    <3>1. NumbersOK'
      BY <1>0, <1>5, <2>1, Zenon DEF MemoryInv, NumbersOK
    <3>2. MemoryLogged'
      BY <1>0, <1>5, <2>1, <2>5, <2>6, Zenon DEF MemoryInv, MemoryLogged, Interval
    <3>3. PublishedIsHeld'
      BY <1>0, <1>5, <2>1, <2>5, Zenon DEF MemoryInv, PublishedIsHeld, Held
    <3>4. AckedIsDurable'
      BY <1>0, <1>5, <2>1, Zenon DEF MemoryInv, AckedIsDurable, Interval
    <3> QED BY <3>1, <3>2, <3>3, <3>4, Zenon
  <2>8. ProgressOK'
    <3>1. CASE pc'[w] = "threw"
      BY <1>8, <3>1, Zenon
    <3>2. CASE pc'[w] # "threw"
      <4>1. /\ mem' = mem \cup {commit.first + commit.inserted} /\ pc' = pc
            /\ commit' = [commit EXCEPT !.inserted = @ + 1]
        BY <1>0, <2>1, <3>2, Zenon
      <4>2. commit'.inserted = commit.inserted + 1
        BY <1>0, <4>1, Zenon
      <4>3. commit'.inserted <= commit'.count
        BY <1>1, <2>1, <2>2, <4>2
      <4>4. commit'.first..(commit'.first + commit'.inserted - 1) \subseteq
              (commit.first..(commit.first + commit.inserted - 1)) \cup {commit.first + commit.inserted}
        BY <1>1, <2>2, <4>2
      <4>5. commit'.first..(commit'.first + commit'.inserted - 1) \subseteq mem'
        BY <2>4, <4>1, <4>4, Zenon
      <4>6. pc'[w] = "insert" /\ Len(wal') = Len(wal) /\ wal'[Len(wal')] = Record' /\ durable' = durable
        BY <2>1, <2>3, <4>1, Zenon
      <4> QED BY <1>8, <2>3, <2>4, <4>3, <4>5, <4>6, Zenon
    <3> QED BY <3>1, <3>2, Zenon
  <2>9. ShareOK'
    BY <1>9, <2>1, <2>2, Zenon
  <2>10. RecordsHeld'
    <3>1. pc'[w] \in {"insert", "threw"}
      BY <1>0, <2>1, Zenon
    <3>2. \A i : Unfinished(i) => Unfinished(i)'
      BY <2>1, <2>3, <3>1, Zenon DEF Unfinished
    <3>3. UNCHANGED <<log, imm, tables, sticky_error, wal>>
      BY <1>5, <2>1, Zenon
    <3> QED BY <1>0, <2>5, <3>2, <3>3, Zenon DEF CommitInv, RecordsHeld, Interval
  <2> QED BY <1>7, <2>7, <2>8, <2>9, <2>10, Zenon DEF DataInv, BackgroundInv
<1>13. CASE Publish(w)
  <2>1. /\ pc[w] = "insert" /\ commit.inserted = commit.count
        /\ last_sequence' = commit.first + commit.count - 1
        /\ acked' = acked \cup {share[writers[i]] : i \in 1..commit.n}
        /\ pc' = [pc EXCEPT ![w] = "idle"]
        /\ UNCHANGED <<wal, durable, mem, sticky_error>>
    BY <1>13, Zenon DEF Publish
  <2>2. pc'[w] = "idle"
    BY <1>0, <2>1, Zenon
  <2>3. /\ commit.first..(commit.first + commit.count - 1) \subseteq mem
        /\ op[w].batch.sync => Len(wal) \in durable
        /\ wal[Len(wal)] = Record
    BY <1>0, <2>1, Zenon DEF CommitInv, ProgressOK
  <2>4. Interval(wal[Len(wal)]) = commit.first..(commit.first + commit.count - 1)
    BY <1>4, <2>3, Zenon DEF Interval
  <2>5. 1..last_sequence' = (1..last_sequence) \cup (commit.first..(commit.first + commit.count - 1))
    <3>1. \A a, c \in Nat : 1..((a + 1) + c - 1) = (1..a) \cup ((a + 1)..((a + 1) + c - 1))
      OBVIOUS
    <3> QED BY <1>0, <1>1, <1>3, <2>1, <3>1, Zenon
  <2>6. NumbersOK' /\ MemoryLogged' /\ PublishedIsHeld'
    <3>1. NumbersOK'
      BY <1>0, <1>5, <2>1, Zenon DEF MemoryInv, NumbersOK
    <3>2. MemoryLogged'
      BY <1>0, <1>5, <2>1, Zenon DEF MemoryInv, MemoryLogged, Interval
    <3>3. Held' = Held /\ 1..last_sequence \subseteq Held /\ mem \subseteq Held
      BY <1>0, <1>5, <2>1, Zenon DEF MemoryInv, PublishedIsHeld, Held
    <3>4. PublishedIsHeld'
      BY <2>3, <2>5, <3>3, Zenon DEF PublishedIsHeld
    <3> QED BY <3>1, <3>2, <3>4, Zenon
  <2>7. ASSUME NEW i \in 1..commit.n
        PROVE  /\ Interval(share[writers[i]]) \subseteq commit.first..(commit.first + commit.count - 1)
               /\ share[writers[i]].sync => Len(wal) \in durable
    <3>1. writers[i] \in Writer
      <4>1. i \in 1..Len(writers)
        BY <1>0, <1>1, <1>3, LenOfSeq
      <4> QED BY <1>0, <4>1, MemberOfSeq, Zenon
    <3>2. share[writers[i]].first \in Nat /\ share[writers[i]].count \in Nat
      BY <1>0, <3>1, Zenon
    <3>3. /\ commit.first <= share[writers[i]].first
          /\ share[writers[i]].first + share[writers[i]].count <= commit.first + commit.count
          /\ share[writers[i]].sync => op[w].batch.sync
      BY <1>0, <1>3, Zenon DEF CommitInv, ShareOK
    <3>4. \A a, b, c, d \in Nat : a <= b /\ b + d <= a + c => b..(b + d - 1) \subseteq a..(a + c - 1)
      OBVIOUS
    <3>5. share[writers[i]].first..(share[writers[i]].first + share[writers[i]].count - 1)
            \subseteq commit.first..(commit.first + commit.count - 1)
      <4>1. /\ commit.first <= share[writers[i]].first
            /\ share[writers[i]].first + share[writers[i]].count <= commit.first + commit.count
        BY <3>3, Zenon
      <4>2. commit.first \in Nat /\ commit.count \in Nat
        BY <1>1, Zenon
      <4> QED BY <3>2, <3>4, <4>1, <4>2
    <3> QED BY <2>3, <3>3, <3>5, Zenon DEF Interval
  <2>8. AckedIsDurable'
    <3> SUFFICES ASSUME NEW a \in acked'
                 PROVE  /\ Interval(a) \subseteq 1..last_sequence'
                        /\ a.sync => \A s \in Interval(a) :
                              s \in tables \/ \E i \in durable : s \in Interval(wal[i])
      BY <1>5, <2>1, Zenon DEF AckedIsDurable, Interval
    <3>1. CASE a \in acked
      BY <1>0, <2>5, <3>1, Zenon DEF MemoryInv, AckedIsDurable
    <3>2. CASE \E i \in 1..commit.n : a = share[writers[i]]
      BY <2>4, <2>5, <2>7, <3>2, Zenon
    <3> QED BY <2>1, <3>1, <3>2, Zenon
  <2>9. ProgressOK' /\ ShareOK'
    BY <1>8, <1>9, <2>2, Zenon DEF Committing
  <2>10. RecordsHeld'
    <3>1. \A i : Unfinished(i) => wal[i].log = log /\ Interval(wal[i]) \subseteq mem
      BY <1>4, <2>3, <2>4, Zenon DEF Unfinished
    <3>2. UNCHANGED <<log, imm, tables, mem, sticky_error, wal>>
      BY <1>5, <2>1, Zenon
    <3> QED BY <1>0, <3>1, <3>2, Zenon DEF CommitInv, RecordsHeld, Interval
  <2> QED BY <1>7, <2>6, <2>8, <2>9, <2>10, Zenon DEF DataInv, BackgroundInv
<1>14. CASE CommitFails(w)
  <2>1. /\ sticky_error' = TRUE /\ pc' = [pc EXCEPT ![w] = "idle"]
        /\ UNCHANGED <<wal, durable, mem, last_sequence, acked>>
    BY <1>14, Zenon DEF CommitFails
  <2>2. pc'[w] = "idle"
    BY <1>0, <2>1, Zenon
  <2>3. ProgressOK' /\ ShareOK' /\ RecordsHeld'
    BY <1>8, <1>9, <2>1, <2>2, Zenon DEF Committing, RecordsHeld
  <2>4. MemoryInv'
    BY <1>0, <1>5, <2>1, MemoryFrame, Zenon
  <2> QED BY <1>7, <2>3, <2>4, Zenon DEF DataInv, MemoryInv, BackgroundInv
<1> QED
  BY <1>10, <1>11, <1>12, <1>13, <1>14, Zenon

=============================================================================
