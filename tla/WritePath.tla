------------------------------ MODULE WritePath ------------------------------
(***************************************************************************)
(* The write path of the engine: the write queue with its group commit      *)
(* (engine/write_path), MakeRoomForWrite with its delays, stalls and log     *)
(* rotations (engine/database_write.cc), and the background flush and        *)
(* compaction they wait for (engine/database_background.cc).                 *)
(*                                                                          *)
(* One database mutex protects all of it.  An action is one critical         *)
(* section, or one unlocked step of file I/O or memtable insertion.  The     *)
(* only critical sections that span several actions are the loops of         *)
(* MakeRoomForWrite and BuildGroup: a writer at pc "prepare" or "group"      *)
(* holds the mutex.                                                          *)
(*                                                                          *)
(* A batch is its number of entries, its encoded size and its sync flag; an  *)
(* entry is its sequence number; a log or a memtable is the set or sequence  *)
(* of what it holds.  The LSM tree is its number of level-0 files and the    *)
(* number of compactions that the deeper levels still need.                  *)
(***************************************************************************)
EXTENDS Integers, Sequences, FiniteSets

CONSTANTS
    Writer,         \* threads that call Write, FlushMemTable or WaitForBackgroundWork
    Closer,         \* the thread that destroys the engine
    Batches,        \* the batches a write may carry
    SmallGrowth,    \* SmallBatchGrowth, in units of encoded size
    MaximumGroup,   \* MaximumGroupSize, in the same unit
    Threshold,      \* memtable_size_threshold, in entries
    Trigger,        \* Level0CompactionTrigger
    DelayFiles,     \* WriteDelayLevel0FileCountThreshold
    StallFiles,     \* WriteStallLevel0FileCountThreshold
    Faults,         \* the steps that may fail or throw
    MaxCalls,       \* bound: calls started
    MaxLevel0,      \* bound: level-0 files an opened database may have
    MaxSeeks,       \* bound: seek charges that ask for a compaction
    MaxSpurious     \* bound: wakeups that nobody sent

FaultKinds == {"open", "close", "closethrow", "throw", "schedule", "append",
               "sync", "insert", "flush", "manifest", "compact"}

ASSUME WriterAssumption == Closer \notin Writer
ASSUME BatchAssumption ==
    Batches \subseteq [count : Nat, size : Nat, sync : BOOLEAN]
ASSUME BoundAssumption ==
    /\ SmallGrowth \in Nat /\ MaximumGroup \in Nat /\ Threshold \in Nat
    /\ Trigger \in Nat \ {0} /\ DelayFiles \in Nat /\ StallFiles \in Nat
    /\ MaxCalls \in Nat /\ MaxLevel0 \in Nat /\ MaxSeeks \in Nat
    /\ MaxSpurious \in Nat
    /\ Faults \subseteq FaultKinds

VARIABLES
    pc,             \* where each caller is
    op,             \* the call each caller is making
    result,         \* the last result each caller got; "pending" until it has one
    writers,        \* writers_: the queue of the write queue
    room,           \* the locals force and allow_delay of the front writer
    commit,         \* the group that the front writer is building or committing
    share,          \* history: what each writer's batch became in its group
    flushing,       \* FlushMemTable's local: the log of the memtable it waits for
    asleep,         \* threads blocked on a condition variable and not notified
    log,            \* write_buffers_.log_number(), which also names the memtable
    mem,            \* entries of the mutable memtable
    imm,            \* the immutable memtable; log 0 when there is none
    wal,            \* records of all logs, in the order they were appended
    durable,        \* positions in wal that a Sync has covered
    tables,         \* entries held by the tables of the current version
    log_number,     \* versions_->log_number(): logs below it are obsolete
    last_sequence, next_file, level0, deeper, sticky_error,
    background_scheduled, bg, compaction, engine,
    flush_log,      \* FlushImmutable's local: the log number its edit will carry
    acked,          \* history: what was reported committed, and how
    started, seeks, spurious  \* history: counters for the bounds

queueVars == <<writers, room, commit, share, flushing>>
memoryVars == <<log, mem, imm, last_sequence, next_file>>
diskVars == <<wal, durable, tables, log_number>>
treeVars == <<level0, deeper>>
bgVars == <<background_scheduled, bg, compaction, flush_log>>
vars == <<pc, op, result, queueVars, asleep, memoryVars, diskVars, treeVars,
          sticky_error, bgVars, engine, acked, started, seeks, spurious>>

NoImm == [log |-> 0, entries |-> {}]
NoCommit == [n |-> 0, first |-> 0, count |-> 0, size |-> 0, log |-> 0, inserted |-> 0]
NoBatch == [count |-> 0, size |-> 0, sync |-> FALSE]
QueuedCalls == [kind : {"write"}, batch : Batches] \cup {[kind |-> "flush", batch |-> NoBatch]}

-----------------------------------------------------------------------------
(* The mutex, the condition variables and the sticky error.                 *)

LockFree == \A w \in Writer : pc[w] \notin {"prepare", "group"}

\* The threads blocked on background_finished_.
OnBackground == {w \in Writer : pc[w] \in {"stall", "flushwait", "bgwait"}} \cup {Closer}

\* RecordStickyError and RecordException: the first error stays, all waiters wake.
NotifyAll == asleep \ OnBackground

-----------------------------------------------------------------------------
(* MaybeScheduleBackgroundWork.                                              *)

NeedsCompaction(l0, deep) == l0 >= Trigger \/ deep > 0

\* FAULT: work is scheduled while the engine is being destroyed.
FaultScheduleClosing(scheduled, sticky, im, l0, deep) ==
    /\ ~scheduled /\ ~sticky
    /\ im # NoImm \/ NeedsCompaction(l0, deep)

WantsSchedule(scheduled, sticky, im, l0, deep) ==
    /\ ~scheduled /\ engine = "open" /\ ~sticky
    /\ im # NoImm \/ NeedsCompaction(l0, deep)

\* Runs after the other assignments of a critical section: `sleepers` are the
\* threads still asleep, `sticky` the error so far.  A task that cannot be
\* scheduled is an error.
MaybeSchedule(scheduled, sticky, im, l0, deep, sleepers) ==
    IF ~WantsSchedule(scheduled, sticky, im, l0, deep)
    THEN /\ background_scheduled' = scheduled
         /\ bg' = IF scheduled THEN bg ELSE "none"
         /\ sticky_error' = sticky
         /\ asleep' = sleepers
    ELSE \/ /\ background_scheduled' = TRUE
            /\ bg' = "scheduled"
            /\ sticky_error' = sticky
            /\ asleep' = sleepers
         \/ /\ "schedule" \in Faults
            /\ background_scheduled' = FALSE
            /\ bg' = "none"
            /\ sticky_error' = TRUE
            /\ asleep' = sleepers \ OnBackground

-----------------------------------------------------------------------------
(* The write queue.                                                          *)

GroupSizeLimit(size) ==
    IF size <= SmallGrowth THEN size + SmallGrowth ELSE MaximumGroup

\* FAULT: a follower joins whatever it asks for.
FaultIgnoreSync(leader, follower) == op[follower].kind = "write"

CompatibleFollower(leader, follower) ==
    /\ op[follower].kind = "write"
    /\ ~op[follower].batch.sync \/ op[leader].batch.sync

\* FAULT: Complete does not wake the next writer.
FaultNoHandOver(n, sleepers) == sleepers \ {writers[i] : i \in 2..n}

\* The threads still asleep once Complete has published the followers' results
\* and woken the writer that is now at the front.
Woken(n, sleepers) ==
    sleepers \ {writers[i] : i \in 2..(IF n < Len(writers) THEN n + 1 ELSE n)}

\* Complete: removes the first n writers, gives the followers their result.
Complete(n, leaderResult, followerResult) ==
    /\ writers' = SubSeq(writers, n + 1, Len(writers))
    /\ result' = [w \in Writer |->
                    IF w = writers[1] THEN leaderResult
                    ELSE IF \E i \in 2..n : writers[i] = w THEN followerResult
                    ELSE result[w]]

-----------------------------------------------------------------------------
(* Calls.                                                                    *)

MayStart(w) == engine = "open" /\ pc[w] = "idle" /\ LockFree /\ started < MaxCalls

StartRoom(w) == [force |-> op'[w].kind = "flush", allow_delay |-> op'[w].kind = "write"]

\* FAULT: a flush that does not wait for its turn in the queue.
FaultFlushBarges(w, call) ==
    /\ MayStart(w)
    /\ op' = [op EXCEPT ![w] = call]
    /\ result' = [result EXCEPT ![w] = "pending"]
    /\ writers' = IF call.kind = "flush" THEN <<w>> \o writers ELSE Append(writers, w)
    /\ started' = started + 1
    /\ IF writers = << >> \/ call.kind = "flush"
       THEN pc' = [pc EXCEPT ![w] = "prepare"] /\ room' = StartRoom(w) /\ UNCHANGED asleep
       ELSE pc' = [pc EXCEPT ![w] = "turn"] /\ asleep' = asleep \cup {w} /\ UNCHANGED room
    /\ UNCHANGED <<commit, share, flushing, memoryVars, diskVars, treeVars, sticky_error,
                   bgVars, engine, acked, seeks, spurious>>

\* Write and FlushMemTable up to the wait in WaitForTurn; a writer that finds
\* itself at the front goes on without waiting.
StartWrite(w, call) ==
    /\ MayStart(w)
    /\ op' = [op EXCEPT ![w] = call]
    /\ result' = [result EXCEPT ![w] = "pending"]
    /\ writers' = Append(writers, w)
    /\ started' = started + 1
    /\ IF writers = << >>
       THEN pc' = [pc EXCEPT ![w] = "prepare"] /\ room' = StartRoom(w) /\ UNCHANGED asleep
       ELSE pc' = [pc EXCEPT ![w] = "turn"] /\ asleep' = asleep \cup {w} /\ UNCHANGED room
    /\ UNCHANGED <<commit, share, flushing, memoryVars, diskVars, treeVars, sticky_error,
                   bgVars, engine, acked, seeks, spurious>>

BackgroundResult == IF sticky_error THEN "sticky" ELSE "ok"

\* WaitForBackgroundWork: the predicate is tested before the first wait.
StartWait(w) ==
    /\ MayStart(w)
    /\ op' = [op EXCEPT ![w] = [kind |-> "wait", batch |-> NoBatch]]
    /\ started' = started + 1
    /\ IF background_scheduled
       THEN /\ pc' = [pc EXCEPT ![w] = "bgwait"]
            /\ asleep' = asleep \cup {w}
            /\ result' = [result EXCEPT ![w] = "pending"]
       ELSE /\ result' = [result EXCEPT ![w] = BackgroundResult]
            /\ UNCHANGED <<pc, asleep>>
    /\ UNCHANGED <<queueVars, memoryVars, diskVars, treeVars, sticky_error,
                   bgVars, engine, acked, seeks, spurious>>

\* WaitForTurn returns: the writer's group was committed for it, or it leads.
Turn(w) ==
    /\ pc[w] = "turn" /\ w \notin asleep /\ LockFree
    /\ \/ /\ result[w] # "pending"
          /\ pc' = [pc EXCEPT ![w] = "idle"]
          /\ UNCHANGED <<room, asleep>>
       \/ /\ result[w] = "pending" /\ writers[1] = w
          /\ pc' = [pc EXCEPT ![w] = "prepare"]
          /\ room' = [force |-> op[w].kind = "flush", allow_delay |-> op[w].kind = "write"]
          /\ UNCHANGED asleep
       \/ /\ result[w] = "pending" /\ writers[1] # w
          /\ asleep' = asleep \cup {w}
          /\ UNCHANGED <<pc, room>>
    /\ UNCHANGED <<op, result, writers, commit, share, flushing, memoryVars, diskVars, treeVars,
                   sticky_error, bgVars, engine, acked, started, seeks, spurious>>

\* A condition variable may wake a waiter that nobody notified.
SpuriousWakeup(w) ==
    /\ w \in asleep /\ spurious < MaxSpurious
    /\ asleep' = asleep \ {w}
    /\ spurious' = spurious + 1
    /\ UNCHANGED <<pc, op, result, queueVars, memoryVars, diskVars, treeVars, sticky_error,
                   bgVars, engine, acked, started, seeks>>

-----------------------------------------------------------------------------
(* MakeRoomForWrite, one iteration of its loop per action.                   *)

Delays == room.allow_delay /\ level0 >= DelayFiles
HasRoom == ~room.force /\ Cardinality(mem) <= Threshold
Stalls == imm # NoImm \/ level0 >= StallFiles

\* The front writer returns without a commit: it leaves the queue alone.
ReturnAlone(w, r, sleepers) ==
    /\ Complete(1, r, r)
    /\ asleep' = Woken(1, sleepers)
    /\ pc' = [pc EXCEPT ![w] = "idle"]

RoomSticky(w) ==
    /\ pc[w] = "prepare" /\ sticky_error
    /\ ReturnAlone(w, "sticky", asleep)
    /\ UNCHANGED <<op, room, commit, share, flushing, memoryVars, diskVars, treeVars, sticky_error,
                   bgVars, engine, acked, started, seeks, spurious>>

\* Near the stall a write gives up the mutex for a millisecond, once.
RoomDelay(w) ==
    /\ pc[w] = "prepare" /\ ~sticky_error /\ Delays
    /\ pc' = [pc EXCEPT ![w] = "sleep"]
    /\ UNCHANGED <<op, result, queueVars, asleep, memoryVars, diskVars, treeVars, sticky_error,
                   bgVars, engine, acked, started, seeks, spurious>>

RoomDelayed(w) ==
    /\ pc[w] = "sleep" /\ LockFree
    /\ pc' = [pc EXCEPT ![w] = "prepare"]
    /\ room' = [room EXCEPT !.allow_delay = FALSE]
    /\ UNCHANGED <<op, result, writers, commit, share, flushing, asleep, memoryVars, diskVars, treeVars,
                   sticky_error, bgVars, engine, acked, started, seeks, spurious>>

RoomStall(w) ==
    /\ pc[w] = "prepare" /\ ~sticky_error /\ ~Delays /\ ~HasRoom /\ Stalls
    /\ pc' = [pc EXCEPT ![w] = "stall"]
    /\ asleep' = asleep \cup {w}
    /\ UNCHANGED <<op, result, queueVars, memoryVars, diskVars, treeVars, sticky_error,
                   bgVars, engine, acked, started, seeks, spurious>>

RoomStalled(w) ==
    /\ pc[w] = "stall" /\ w \notin asleep /\ LockFree
    /\ pc' = [pc EXCEPT ![w] = "prepare"]
    /\ UNCHANGED <<op, result, queueVars, asleep, memoryVars, diskVars, treeVars, sticky_error,
                   bgVars, engine, acked, started, seeks, spurious>>

MustSwitch(w) ==
    pc[w] = "prepare" /\ ~sticky_error /\ ~Delays /\ ~HasRoom /\ ~Stalls

\* SwitchMemTable: PrepareRotation reserved a file number and perhaps a file,
\* then failed or threw; the error is the caller's alone.
SwitchFails(w) ==
    /\ MustSwitch(w)
    /\ next_file' = next_file + 1
    /\ \/ "open" \in Faults /\ ReturnAlone(w, "error", asleep)
       \/ "throw" \in Faults /\ ReturnAlone(w, "thrown", asleep)
    /\ UNCHANGED <<op, room, commit, share, flushing, log, mem, imm, last_sequence, diskVars, treeVars,
                   sticky_error, bgVars, engine, acked, started, seeks, spurious>>

\* CloseOldLogForRotation threw: nothing is installed, the error is sticky.
SwitchCloseThrows(w) ==
    /\ MustSwitch(w) /\ "closethrow" \in Faults
    /\ next_file' = next_file + 1
    /\ sticky_error' = TRUE
    /\ ReturnAlone(w, "thrown", NotifyAll)
    /\ UNCHANGED <<op, room, commit, share, flushing, log, mem, imm, last_sequence, diskVars, treeVars,
                   bgVars, engine, acked, started, seeks, spurious>>

\* The rotation is installed, even if closing the old log returned an error.
Switch(w) ==
    /\ MustSwitch(w)
    /\ next_file' = next_file + 1
    /\ log' = next_file
    /\ imm' = [log |-> log, entries |-> mem]
    /\ mem' = {}
    /\ room' = [room EXCEPT !.force = FALSE]
    /\ \/ MaybeSchedule(background_scheduled, FALSE, imm', level0, deeper, asleep)
       \/ "close" \in Faults /\ MaybeSchedule(background_scheduled, TRUE, imm', level0, deeper, NotifyAll)
    /\ UNCHANGED <<pc, op, result, writers, commit, share, flushing, last_sequence, diskVars, treeVars,
                   compaction, flush_log, engine, acked, started, seeks, spurious>>

\* The forced writer has its room: it completes alone, and FlushMemTable waits
\* for the memtable it switched out without giving up the mutex in between.
FlushForced(w) ==
    /\ pc[w] = "prepare" /\ ~sticky_error /\ ~Delays /\ HasRoom /\ op[w].kind = "flush"
    /\ Complete(1, "pending", "pending")
    /\ asleep' = Woken(1, asleep) \cup {w}
    /\ pc' = [pc EXCEPT ![w] = "flushwait"]
    /\ flushing' = [flushing EXCEPT ![w] = imm.log]
    /\ UNCHANGED <<op, room, commit, share, memoryVars, diskVars, treeVars, sticky_error,
                   bgVars, engine, acked, started, seeks, spurious>>

\* BuildGroup starts with the front writer alone.
BeginGroup(w) ==
    /\ pc[w] = "prepare" /\ ~sticky_error /\ ~Delays /\ HasRoom /\ op[w].kind = "write"
    /\ commit' = [n |-> 1, first |-> last_sequence + 1, count |-> op[w].batch.count,
                  size |-> op[w].batch.size, log |-> log, inserted |-> 0]
    /\ share' = [share EXCEPT ![w] =
                    [first |-> last_sequence + 1, count |-> op[w].batch.count, sync |-> op[w].batch.sync]]
    /\ pc' = [pc EXCEPT ![w] = "group"]
    /\ UNCHANGED <<op, result, writers, room, flushing, asleep, memoryVars, diskVars, treeVars,
                   sticky_error, bgVars, engine, acked, started, seeks, spurious>>

\* The next writer of the queue fits into the group of the front one.
CanTakeOn ==
    /\ commit.n < Len(writers)
    /\ CompatibleFollower(writers[1], writers[commit.n + 1])
    /\ commit.size + op[writers[commit.n + 1]].batch.size
         <= GroupSizeLimit(op[writers[1]].batch.size)

TakeOn(w) ==
    /\ pc[w] = "group" /\ CanTakeOn
    /\ LET f == writers[commit.n + 1]
       IN /\ commit' = [commit EXCEPT !.n = @ + 1, !.count = @ + op[f].batch.count,
                                      !.size = @ + op[f].batch.size]
          /\ share' = [share EXCEPT ![f] = [first |-> commit.first + commit.count,
                                            count |-> op[f].batch.count, sync |-> op[f].batch.sync]]
    /\ UNCHANGED <<pc, op, result, writers, room, flushing, asleep, memoryVars, diskVars, treeVars,
                   sticky_error, bgVars, engine, acked, started, seeks, spurious>>

\* Appending a follower's batch, or allocating the shared result, threw: only
\* the front writer fails, since the guard has taken nobody on yet.
BuildThrows(w) ==
    /\ pc[w] = "group" /\ "throw" \in Faults /\ (commit.n > 1 \/ CanTakeOn)
    /\ ReturnAlone(w, "thrown", asleep)
    /\ commit' = NoCommit
    /\ UNCHANGED <<op, room, share, flushing, memoryVars, diskVars, treeVars, sticky_error,
                   bgVars, engine, acked, started, seeks, spurious>>

\* The group is complete; CommitWrite gives up the mutex.
BeginCommit(w) ==
    /\ pc[w] = "group" /\ ~CanTakeOn
    /\ pc' = [pc EXCEPT ![w] = "append"]
    /\ UNCHANGED <<op, result, queueVars, asleep, memoryVars, diskVars, treeVars,
                   sticky_error, bgVars, engine, acked, started, seeks, spurious>>

-----------------------------------------------------------------------------
(* CommitWrite and CommitGroup without the mutex.                            *)

Record == [log |-> commit.log, first |-> commit.first, count |-> commit.count]

\* AddRecord.  A failed append may still have left the whole record in the file.
AppendRecord(w) ==
    /\ pc[w] = "append"
    /\ \/ /\ wal' = Append(wal, Record)
          /\ pc' = [pc EXCEPT ![w] = IF op[w].batch.sync THEN "sync" ELSE "insert"]
       \/ /\ "append" \in Faults
          /\ wal' \in {wal, Append(wal, Record)}
          /\ pc' = [pc EXCEPT ![w] = "failed"]
       \/ /\ "append" \in Faults /\ "throw" \in Faults
          /\ wal' \in {wal, Append(wal, Record)}
          /\ pc' = [pc EXCEPT ![w] = "threw"]
    /\ UNCHANGED <<op, result, queueVars, asleep, memoryVars, durable, tables, log_number,
                   treeVars, sticky_error, bgVars, engine, acked, started, seeks, spurious>>

\* Sync covers every record of that log.  A failed sync may have reached the disk.
SyncLog(w) ==
    LET covered == durable \cup {i \in DOMAIN wal : wal[i].log = commit.log}
    IN /\ pc[w] = "sync"
       /\ \/ /\ durable' = covered
             /\ pc' = [pc EXCEPT ![w] = "insert"]
          \/ /\ "sync" \in Faults
             /\ durable' \in {durable, covered}
             /\ pc' = [pc EXCEPT ![w] = "failed"]
       /\ UNCHANGED <<op, result, queueVars, asleep, memoryVars, wal, tables, log_number,
                      treeVars, sticky_error, bgVars, engine, acked, started, seeks, spurious>>

\* InsertBatch adds one entry to the memtable captured before the unlock.
InsertEntry(w) ==
    /\ pc[w] = "insert" /\ commit.inserted < commit.count
    /\ \/ /\ IF commit.log = log
             THEN mem' = mem \cup {commit.first + commit.inserted} /\ UNCHANGED imm
             ELSE imm' = [imm EXCEPT !.entries = @ \cup {commit.first + commit.inserted}]
                  /\ UNCHANGED mem
          /\ commit' = [commit EXCEPT !.inserted = @ + 1]
          /\ UNCHANGED pc
       \/ /\ "insert" \in Faults
          /\ pc' = [pc EXCEPT ![w] = "threw"]
          /\ UNCHANGED <<mem, imm, commit>>
    /\ UNCHANGED <<op, result, writers, room, share, flushing, asleep, log, last_sequence, next_file,
                   diskVars, treeVars, sticky_error, bgVars, engine, acked, started, seeks, spurious>>

\* CommitWrite publishes the sequence only once the whole group is inserted.
Publish(w) ==
    /\ pc[w] = "insert" /\ commit.inserted = commit.count /\ LockFree
    /\ last_sequence' = commit.first + commit.count - 1
    /\ Complete(commit.n, "ok", "ok")
    /\ asleep' = Woken(commit.n, asleep)
    /\ pc' = [pc EXCEPT ![w] = "idle"]
    /\ acked' = acked \cup {share[writers[i]] : i \in 1..commit.n}
    /\ commit' = NoCommit
    /\ UNCHANGED <<op, room, share, flushing, log, mem, imm, next_file, diskVars, treeVars,
                   sticky_error, bgVars, engine, started, seeks, spurious>>

\* FAULT: a failed commit is reported, and forgotten.
FaultFailureNotSticky(w) ==
    /\ pc[w] \in {"failed", "threw"} /\ LockFree
    /\ UNCHANGED sticky_error
    /\ IF pc[w] = "failed" THEN Complete(commit.n, "error", "error")
                           ELSE Complete(commit.n, "thrown", "aborted")
    /\ asleep' = Woken(commit.n, asleep)
    /\ pc' = [pc EXCEPT ![w] = "idle"]
    /\ commit' = NoCommit
    /\ UNCHANGED <<op, room, share, flushing, memoryVars, diskVars, treeVars, bgVars, engine, acked,
                   started, seeks, spurious>>

\* A commit failed or threw: the error is sticky, the whole group gets it.
CommitFails(w) ==
    /\ pc[w] \in {"failed", "threw"} /\ LockFree
    /\ sticky_error' = TRUE
    /\ IF pc[w] = "failed" THEN Complete(commit.n, "error", "error")
                           ELSE Complete(commit.n, "thrown", "aborted")
    /\ asleep' = Woken(commit.n, NotifyAll)
    /\ pc' = [pc EXCEPT ![w] = "idle"]
    /\ commit' = NoCommit
    /\ UNCHANGED <<op, room, share, flushing, memoryVars, diskVars, treeVars, bgVars, engine, acked,
                   started, seeks, spurious>>

\* FAULT: FlushMemTable takes any wakeup for the end of its flush.
FaultFlushNoPredicate(w) ==
    /\ pc[w] = "flushwait" /\ w \notin asleep /\ LockFree
    /\ pc' = [pc EXCEPT ![w] = "idle"]
    /\ result' = [result EXCEPT ![w] = BackgroundResult]
    /\ UNCHANGED asleep
    /\ UNCHANGED <<op, queueVars, memoryVars, diskVars, treeVars, sticky_error, bgVars,
                   engine, acked, started, seeks, spurious>>

\* FlushMemTable and WaitForBackgroundWork test their predicates and return.
FlushReturns(w) ==
    /\ pc[w] = "flushwait" /\ w \notin asleep /\ LockFree
    /\ IF imm.log # flushing[w] \/ sticky_error
       THEN /\ pc' = [pc EXCEPT ![w] = "idle"]
            /\ result' = [result EXCEPT ![w] = BackgroundResult]
            /\ UNCHANGED asleep
       ELSE asleep' = asleep \cup {w} /\ UNCHANGED <<pc, result>>
    /\ UNCHANGED <<op, queueVars, memoryVars, diskVars, treeVars, sticky_error, bgVars,
                   engine, acked, started, seeks, spurious>>

WaitReturns(w) ==
    /\ pc[w] = "bgwait" /\ w \notin asleep /\ LockFree
    /\ IF ~background_scheduled
       THEN /\ pc' = [pc EXCEPT ![w] = "idle"]
            /\ result' = [result EXCEPT ![w] = BackgroundResult]
            /\ UNCHANGED asleep
       ELSE asleep' = asleep \cup {w} /\ UNCHANGED <<pc, result>>
    /\ UNCHANGED <<op, queueVars, memoryVars, diskVars, treeVars, sticky_error, bgVars,
                   engine, acked, started, seeks, spurious>>

-----------------------------------------------------------------------------
(* Background work.  compaction is "none", or the compaction in progress.    *)

callerVars == <<pc, op, result, queueVars, acked, started>>

\* The end of BackgroundCall, in the critical section that set sticky, im, l0, deep.
BackgroundEnd(sticky, im, l0, deep) ==
    /\ compaction' = "none"
    /\ MaybeSchedule(FALSE, sticky, im, l0, deep, NotifyAll)

BackgroundSkips ==
    /\ bg = "scheduled" /\ LockFree
    /\ engine # "open" \/ sticky_error
    /\ BackgroundEnd(sticky_error, imm, level0, deeper)
    /\ UNCHANGED <<callerVars, memoryVars, diskVars, treeVars, flush_log, engine, seeks, spurious>>

\* FAULT: the edit of a flush carries the number of the table it writes.
FaultLogNumber ==
    /\ LockFree /\ imm # NoImm
    /\ \/ bg = "scheduled" /\ engine = "open" /\ ~sticky_error
       \/ bg = "compact"
    /\ bg' = "flush"
    /\ next_file' = next_file + 1
    /\ flush_log' = next_file
    /\ UNCHANGED <<callerVars, log, mem, imm, last_sequence, diskVars, treeVars, sticky_error,
                   background_scheduled, compaction, asleep, engine, seeks, spurious>>

\* FlushImmutable until it gives up the mutex, from BackgroundCall or, inside a
\* compaction, from BeforeCompactionEntry, which reads has_immutable_ relaxed and
\* so may also overlook the memtable and go on.
FlushBegins ==
    /\ LockFree /\ imm # NoImm
    /\ \/ bg = "scheduled" /\ engine = "open" /\ ~sticky_error
       \/ bg = "compact"
    /\ bg' = "flush"
    /\ next_file' = next_file + 1
    /\ flush_log' = log
    /\ UNCHANGED <<callerVars, log, mem, imm, last_sequence, diskVars, treeVars, sticky_error,
                   background_scheduled, compaction, asleep, engine, seeks, spurious>>

\* After a failed flush, or one that found the error on its way out: the
\* background call ends, or the compaction learns of it from BeforeCompactionEntry.
FlushEndsInError(im, l0) ==
    IF compaction = "none"
    THEN BackgroundEnd(TRUE, im, l0, deeper)
    ELSE /\ sticky_error' = TRUE
         /\ asleep' = NotifyAll
         /\ bg' = "compactfailed"
         /\ UNCHANGED <<background_scheduled, compaction>>

\* The table is built; with the mutex again, LogAndApply prepares the edit.
FlushBuilt ==
    /\ bg = "flush" /\ LockFree
    /\ \/ /\ engine = "open"
          /\ bg' = "flushlog"
          /\ UNCHANGED <<background_scheduled, compaction, sticky_error, asleep>>
       \/ /\ engine # "open" \/ "flush" \in Faults
          /\ FlushEndsInError(imm, level0)
    /\ UNCHANGED <<callerVars, memoryVars, diskVars, treeVars, flush_log, engine, seeks, spurious>>

\* What the edit of a flush installs, and the number it moves the log to.  The
\* table may go below level 0, and an empty memtable makes none.
InstallFlush(number) ==
    /\ tables' = tables \cup imm.entries
    /\ log_number' = number
    /\ level0' \in {level0} \cup (IF imm.entries = {} THEN {} ELSE {level0 + 1})

\* After the flush is installed the memtable goes; RemoveObsoleteFiles starts
\* unless an error was recorded meanwhile.
FlushInstalled ==
    IF sticky_error
    THEN FlushEndsInError(NoImm, level0')
    ELSE /\ bg' = "cleanup"
         /\ asleep' = NotifyAll
         /\ UNCHANGED <<background_scheduled, compaction, sticky_error>>

FlushLogged ==
    /\ bg = "flushlog" /\ LockFree
    /\ \/ /\ InstallFlush(flush_log)
          /\ imm' = NoImm
          /\ FlushInstalled
       \/ /\ "manifest" \in Faults
          /\ FlushEndsInError(imm, level0)
          /\ UNCHANGED <<tables, imm, log_number, level0>>
    /\ UNCHANGED <<callerVars, log, mem, last_sequence, next_file, wal, durable, deeper,
                   flush_log, engine, seeks, spurious>>

\* RemoveObsoleteFiles deletes files without the mutex, then takes it again.
CleanedUp ==
    /\ bg = "cleanup" /\ LockFree
    /\ IF compaction \in {"level0", "deeper"}
       THEN /\ bg' = IF sticky_error THEN "compactfailed" ELSE "compact"
            /\ UNCHANGED <<background_scheduled, compaction, sticky_error, asleep>>
       ELSE BackgroundEnd(sticky_error, imm, level0, deeper)
    /\ UNCHANGED <<callerVars, memoryVars, diskVars, treeVars, flush_log, engine, seeks, spurious>>

\* Compact picks a level that needs it; a trivial move is only an edit.
CompactionBegins ==
    /\ bg = "scheduled" /\ LockFree /\ engine = "open" /\ ~sticky_error /\ imm = NoImm
    /\ \/ level0 >= Trigger /\ compaction' \in {"level0", "move0"}
       \/ deeper > 0 /\ compaction' \in {"deeper", "move"}
    /\ bg' = IF compaction' \in {"move0", "move"} THEN "compactlog" ELSE "compact"
    /\ UNCHANGED <<callerVars, memoryVars, diskVars, treeVars, sticky_error, asleep,
                   background_scheduled, flush_log, engine, seeks, spurious>>

\* RunCompaction returns: its outputs are complete, or it failed or saw closing_.
CompactionRan ==
    /\ LockFree
    /\ \/ /\ bg = "compact" /\ engine = "open"
          /\ bg' = "compactlog"
          /\ UNCHANGED <<background_scheduled, compaction, sticky_error, asleep>>
       \/ /\ bg = "compact" /\ (engine # "open" \/ "compact" \in Faults)
          /\ BackgroundEnd(TRUE, imm, level0, deeper)
       \/ /\ bg = "compactfailed"
          /\ BackgroundEnd(TRUE, imm, level0, deeper)
    /\ UNCHANGED <<callerVars, memoryVars, diskVars, treeVars, flush_log, engine, seeks, spurious>>

\* The compaction's edit is in the MANIFEST.  A level-0 compaction removes some
\* level-0 files and may leave level 1 in need of one; a deeper one is one less.
CompactionLogged ==
    /\ bg = "compactlog" /\ LockFree
    /\ \/ /\ \/ /\ compaction \in {"level0", "move0"}
                /\ level0' \in (IF compaction = "move0" THEN {level0 - 1} ELSE 0..(level0 - 1))
                /\ deeper' \in {deeper, deeper + 1}
             \/ /\ compaction \in {"deeper", "move"}
                /\ deeper' = deeper - 1
                /\ UNCHANGED level0
          /\ IF compaction \in {"move0", "move"}
             THEN BackgroundEnd(sticky_error, imm, level0', deeper')
             ELSE IF sticky_error THEN BackgroundEnd(TRUE, imm, level0', deeper')
             ELSE /\ bg' = "cleanup" /\ compaction' = "none"
                  /\ UNCHANGED <<background_scheduled, sticky_error, asleep>>
       \/ /\ "manifest" \in Faults
          /\ BackgroundEnd(TRUE, imm, level0, deeper)
          /\ UNCHANGED treeVars
    /\ UNCHANGED <<callerVars, memoryVars, diskVars, flush_log, engine, seeks, spurious>>

\* Get and RecordReadSample: the last allowed seek of a file asks for its compaction.
ChargeSeek ==
    /\ LockFree /\ engine = "open" /\ deeper = 0 /\ seeks < MaxSeeks
    /\ seeks' = seeks + 1
    /\ deeper' = 1
    /\ MaybeSchedule(background_scheduled, sticky_error, imm, level0, deeper', asleep)
    /\ UNCHANGED <<callerVars, memoryVars, diskVars, level0, compaction, flush_log, engine, spurious>>

-----------------------------------------------------------------------------
(* Destruction: no call is in progress.  It waits for the background task.   *)

Close ==
    /\ engine = "open" /\ \A w \in Writer : pc[w] = "idle"
    /\ engine' = IF background_scheduled THEN "closing" ELSE "closed"
    /\ asleep' = IF background_scheduled THEN asleep \cup {Closer} ELSE asleep
    /\ UNCHANGED <<callerVars, memoryVars, diskVars, treeVars, sticky_error, bgVars, seeks, spurious>>

CloseReturns ==
    /\ engine = "closing" /\ Closer \notin asleep /\ LockFree
    /\ IF background_scheduled
       THEN asleep' = asleep \cup {Closer} /\ UNCHANGED engine
       ELSE engine' = "closed" /\ UNCHANGED asleep
    /\ UNCHANGED <<callerVars, memoryVars, diskVars, treeVars, sticky_error, bgVars, seeks, spurious>>

Closed == engine = "closed" /\ UNCHANGED vars

-----------------------------------------------------------------------------

\* The engine right after Recover, which has scheduled the work it found.
Init ==
    /\ pc = [w \in Writer |-> "idle"]
    /\ op = [w \in Writer |-> [kind |-> "wait", batch |-> NoBatch]]
    /\ result = [w \in Writer |-> "ok"]
    /\ writers = << >>
    /\ room = [force |-> FALSE, allow_delay |-> FALSE]
    /\ commit = NoCommit
    /\ share = [w \in Writer |-> [first |-> 0, count |-> 0, sync |-> FALSE]]
    /\ flushing = [w \in Writer |-> 0]
    /\ asleep = {}
    /\ log = 1 /\ mem = {} /\ imm = NoImm /\ last_sequence = 0 /\ next_file = 2
    /\ wal = << >> /\ durable = {} /\ tables = {} /\ log_number = 1
    /\ level0 \in 0..MaxLevel0 /\ deeper = 0
    /\ sticky_error = FALSE
    /\ background_scheduled = NeedsCompaction(level0, deeper)
    /\ bg = IF NeedsCompaction(level0, deeper) THEN "scheduled" ELSE "none"
    /\ compaction = "none" /\ flush_log = 0
    /\ engine = "open" /\ acked = {} /\ started = 0 /\ seeks = 0 /\ spurious = 0

WriterStep(w) ==
    \/ Turn(w)
    \/ RoomSticky(w) \/ RoomDelay(w) \/ RoomDelayed(w) \/ RoomStall(w) \/ RoomStalled(w)
    \/ SwitchFails(w) \/ SwitchCloseThrows(w) \/ Switch(w)
    \/ FlushForced(w) \/ BeginGroup(w) \/ TakeOn(w) \/ BuildThrows(w) \/ BeginCommit(w)
    \/ AppendRecord(w) \/ SyncLog(w) \/ InsertEntry(w) \/ Publish(w) \/ CommitFails(w)
    \/ FlushReturns(w) \/ WaitReturns(w)

BackgroundStep ==
    \/ BackgroundSkips \/ FlushBegins \/ FlushBuilt \/ FlushLogged \/ CleanedUp
    \/ CompactionBegins \/ CompactionRan \/ CompactionLogged

Next ==
    \/ \E w \in Writer : (\E call \in QueuedCalls : StartWrite(w, call)) \/ StartWait(w)
    \/ \E w \in Writer : WriterStep(w)
    \/ \E w \in Writer \cup {Closer} : SpuriousWakeup(w)
    \/ BackgroundStep
    \/ ChargeSeek
    \/ Close \/ CloseReturns \/ Closed

Spec == Init /\ [][Next]_vars

\* Threads that can run do run, file-system calls return, the clock moves on.
FairSpec ==
    /\ Spec
    /\ \A w \in Writer : WF_vars(WriterStep(w))
    /\ WF_vars(BackgroundStep)
    /\ WF_vars(CloseReturns)

-----------------------------------------------------------------------------
(* Properties.                                                               *)

PCs == {"idle", "turn", "prepare", "group", "sleep", "stall", "append", "sync", "insert",
        "failed", "threw", "flushwait", "bgwait"}
Results == {"pending", "ok", "sticky", "error", "thrown", "aborted"}
Leading == {"prepare", "group", "sleep", "stall", "append", "sync", "insert", "failed", "threw"}
Committing == {"group", "append", "sync", "insert", "failed", "threw"}

CallerTypes ==
    /\ pc \in [Writer -> PCs]
    /\ op \in [Writer -> [kind : {"write", "flush", "wait"}, batch : Batches \cup {NoBatch}]]
    /\ result \in [Writer -> Results]
    /\ flushing \in [Writer -> Nat]
    /\ asleep \subseteq Writer \cup {Closer}
QueueTypes ==
    /\ writers \in Seq(Writer)
    /\ room \in [force : BOOLEAN, allow_delay : BOOLEAN]
    /\ commit \in [n : Nat, first : Nat, count : Nat, size : Nat, log : Nat, inserted : Nat]
    /\ share \in [Writer -> [first : Nat, count : Nat, sync : BOOLEAN]]
    /\ acked \subseteq [first : Nat, count : Nat, sync : BOOLEAN]
MemoryTypes ==
    /\ log \in Nat /\ mem \subseteq Nat /\ imm \in [log : Nat, entries : SUBSET Nat]
    /\ last_sequence \in Nat /\ next_file \in Nat
DiskTypes ==
    /\ wal \in Seq([log : Nat, first : Nat, count : Nat])
    /\ durable \subseteq Nat /\ tables \subseteq Nat /\ log_number \in Nat
    /\ level0 \in Nat /\ deeper \in Nat
BackgroundTypes ==
    /\ sticky_error \in BOOLEAN /\ background_scheduled \in BOOLEAN
    /\ bg \in {"none", "scheduled", "flush", "flushlog", "cleanup", "compact", "compactlog",
               "compactfailed"}
    /\ compaction \in {"none", "level0", "move0", "deeper", "move"}
    /\ flush_log \in Nat
    /\ engine \in {"open", "closing", "closed"}
    /\ started \in Nat /\ seeks \in Nat /\ spurious \in Nat

\* Every variable has its type.
TypeOK == CallerTypes /\ QueueTypes /\ MemoryTypes /\ DiskTypes /\ BackgroundTypes

Interval(r) == r.first..(r.first + r.count - 1)
Held == mem \cup imm.entries \cup tables

\* Whoever prepares or commits is the front of the queue, so that two leaders
\* never prepare or commit at once (write_path.h:45, "its writer is at the front").
LeaderIsFront ==
    \A w \in Writer : pc[w] \in Leading => writers # << >> /\ writers[1] = w

\* "Only the front writer switches the log and the memtable, so they stay"
\* (database_write.cc:111): the log and the memtable captured before the unlock
\* are still the current ones during the whole commit.
CommitKeepsItsLog ==
    (\E w \in Writer : pc[w] \in Committing) => commit.log = log

\* Two records of the logs never carry the same sequence number, failed and
\* half-written groups included: after a failed commit nothing may be appended.
NoSequenceReuse ==
    \A i, j \in DOMAIN wal : i # j => Interval(wal[i]) \cap Interval(wal[j]) = {}

\* Readers at last_sequence see every group whole: everything up to it is held by
\* a memtable or a table (database_write.cc:129).
PublishedIsHeld == 1..last_sequence \subseteq Held

\* A write reported committed is published; one that asked for a sync is in a
\* synced record of a log, or in a table, even if another writer led its group.
AckedIsDurable ==
    \A a \in acked :
        /\ Interval(a) \subseteq 1..last_sequence
        /\ a.sync => \A s \in Interval(a) :
              \/ s \in tables
              \/ \E i \in durable : s \in Interval(wal[i])

\* The log number in the MANIFEST never passes over an entry that is in no table:
\* recovery replays the logs from log_number on, cleanup deletes the others.
LogNumberCoversMemory ==
    \A s \in 1..last_sequence : s \in tables \/
        \E i \in DOMAIN wal : s \in Interval(wal[i]) /\ wal[i].log >= log_number

\* The task that finds no immutable memtable always finds a compaction to pick:
\* Compact dereferences the picked compaction unchecked (database_background.cc:156).
PickFindsWork ==
    (bg = "scheduled" /\ engine = "open" /\ ~sticky_error /\ imm = NoImm)
        => NeedsCompaction(level0, deeper)

\* What others rely on between two holds of the mutex: readers find everything up to
\* last_sequence, recovery finds the logs of what is only in memory, and the background
\* task finds the work it was scheduled for.
EngineSound == PublishedIsHeld /\ LogNumberCoversMemory /\ PickFindsWork

\* FlushMemTable waits for the memtable that it switched out, and that memtable
\* exists (database_write.cc:145); when it returns without an error, everything
\* published before it is in tables.
FlushMeansFlushed ==
    [][\A w \in Writer :
         /\ FlushForced(w) => imm # NoImm
         /\ (pc[w] = "flushwait" /\ pc'[w] = "idle" /\ result'[w] = "ok")
              => \A i \in DOMAIN wal : wal[i].log <= flushing[w] => Interval(wal[i]) \subseteq tables]_vars

-----------------------------------------------------------------------------
(* The inductive invariant behind the safety properties.                     *)

\* The queue holds each caller at most once, exactly the callers that lead or
\* wait for their turn without a result.
QueueOK ==
    /\ \A i, j \in 1..Len(writers) : writers[i] = writers[j] => i = j
    /\ \A w \in Writer :
          (\E i \in 1..Len(writers) : writers[i] = w)
              <=> (pc[w] \in Leading \/ (pc[w] = "turn" /\ result[w] = "pending"))

\* A compaction in progress has something to compact.
CompactionOK ==
    /\ compaction \in {"level0", "move0"} => level0 >= 1
    /\ compaction \in {"deeper", "move"} => deeper >= 1

LastOf(r) == r.first + r.count - 1

\* The commit in progress starts right after the published sequence, and every
\* record before its own lies below.
CommitOK ==
    \A w \in Writer : pc[w] \in Committing =>
        /\ commit.n \in 1..Len(writers)
        /\ commit.log = log
        /\ commit.first = last_sequence + 1
        /\ \A i \in 1..Len(wal) :
              \/ LastOf(wal[i]) <= last_sequence
              \/ pc[w] \notin {"group", "append"} /\ i = Len(wal) /\ wal[i] = Record

\* Only a sticky error leaves records above the published sequence behind.
WalOK ==
    (~sticky_error /\ \A w \in Writer : pc[w] \notin Committing)
        => \A i \in 1..Len(wal) : LastOf(wal[i]) <= last_sequence

IInv == TypeOK /\ CompactionOK /\ QueueOK /\ LeaderIsFront /\ CommitOK /\ WalOK /\ NoSequenceReuse

\* What follows is kept by a step on top of IInv: where the entries and their records are.

\* Logs are numbered in the order they were opened, and the memtables with them.
NumbersOK ==
    /\ 1 <= log_number /\ log_number <= log /\ log < next_file
    /\ imm # NoImm => log_number <= imm.log /\ imm.log < log
    /\ imm = NoImm => imm.log = 0 /\ imm.entries = {}
    /\ \A i \in 1..Len(wal) : 1 <= wal[i].log /\ wal[i].log <= log
    /\ durable \subseteq 1..Len(wal)

\* A flush in progress has its memtable, and its edit carries the log in use now: nobody
\* switches memtables while there is an immutable one.
FlushOK == bg \in {"flush", "flushlog"} => imm # NoImm /\ flush_log = log

\* What the commit in progress has done: its record is the last one, synced if the leader
\* asked for that, and the entries inserted so far are in the memtable.
ProgressOK ==
    \A w \in Writer :
        /\ pc[w] \in {"group", "append", "sync"} => commit.inserted = 0
        /\ pc[w] \in {"sync", "insert"} => Len(wal) >= 1 /\ wal[Len(wal)] = Record
        /\ pc[w] = "insert" =>
              /\ commit.inserted <= commit.count
              /\ commit.first..(commit.first + commit.inserted - 1) \subseteq mem
              /\ op[w].batch.sync => Len(wal) \in durable

\* Each member of the group has its part of the group's sequence numbers, and no member
\* asks for a sync that its leader does not.
ShareOK ==
    \A w \in Writer : pc[w] \in Committing =>
        \A i \in 1..commit.n :
            /\ commit.first <= share[writers[i]].first
            /\ share[writers[i]].first + share[writers[i]].count <= commit.first + commit.count
            /\ share[writers[i]].sync => op[w].batch.sync

\* An entry of a memtable is in a record of the memtable's log.
MemoryLogged ==
    /\ \A s \in mem : \E i \in 1..Len(wal) : s \in Interval(wal[i]) /\ wal[i].log = log
    /\ \A s \in imm.entries :
          \E i \in 1..Len(wal) : s \in Interval(wal[i]) /\ wal[i].log = imm.log

\* The record of the commit in progress.
Unfinished(i) ==
    /\ i = Len(wal) /\ wal[i] = Record
    /\ \E w \in Writer : pc[w] \in {"sync", "insert", "failed", "threw"}

\* Unless a commit failed, a record is in the memtable of its log, or in tables.
RecordsHeld ==
    ~sticky_error => \A i \in 1..Len(wal) :
        \/ Unfinished(i)
        \/ Interval(wal[i]) \subseteq tables
        \/ wal[i].log = log /\ Interval(wal[i]) \subseteq mem
        \/ imm # NoImm /\ wal[i].log = imm.log /\ Interval(wal[i]) \subseteq imm.entries

\* A flush asks for a rotation until it got one, and then has a memtable to wait for;
\* the one it waits for is the immutable one, or gone.
FlushCallOK ==
    \A w \in Writer :
        /\ (pc[w] \in {"prepare", "sleep", "stall"} /\ op[w].kind = "flush") =>
              /\ ~room.allow_delay
              /\ room.force \/ (pc[w] = "prepare" /\ imm # NoImm /\ mem = {})
        /\ pc[w] = "flushwait" =>
              /\ flushing[w] < log
              /\ imm = NoImm \/ imm.log >= flushing[w]

DataInv ==
    /\ NumbersOK /\ FlushOK /\ ProgressOK /\ ShareOK /\ MemoryLogged /\ RecordsHeld
    /\ FlushCallOK /\ PublishedIsHeld /\ AckedIsDurable /\ PickFindsWork

-----------------------------------------------------------------------------
(* Liveness.                                                                 *)

\* No call waits for ever: neither in the queue, nor in a stall, nor for a flush
\* or the background work (lost wakeups, a leader that leaves without handing over).
CallsReturn == \A w \in Writer : (pc[w] # "idle") ~> (pc[w] = "idle")

\* Destruction ends: the background task that it waits for always finishes.
CloseEnds == (engine = "closing") ~> (engine = "closed")

=============================================================================
