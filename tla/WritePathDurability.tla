------------------------ MODULE WritePathDurability -------------------------
(***************************************************************************)
(* Proofs about WritePath: MakeRoomForWrite keeps DataInv (WritePathData   *)
(* has the other steps), and what follows from it.                         *)
(***************************************************************************)
EXTENDS WritePathData, FiniteSetTheorems

USE DEF queueVars, memoryVars, diskVars, treeVars, bgVars, callerVars

\* MakeRoomForWrite: it delays, stalls or fails, or the forced writer has its room.
LEMMA RoomData ==
    ASSUME IInv, DataInv, NEW w \in Writer,
           \/ RoomSticky(w) \/ RoomDelay(w) \/ RoomDelayed(w) \/ RoomStall(w) \/ RoomStalled(w)
           \/ SwitchFails(w) \/ SwitchCloseThrows(w) \/ FlushForced(w)
    PROVE  DataInv'
<1>0. /\ MemoryInv /\ CommitInv /\ BackgroundInv /\ FlushCallOK /\ LeaderIsFront
      /\ log \in Nat /\ next_file \in Nat /\ pc \in [Writer -> PCs] /\ room.force \in BOOLEAN
      /\ sticky_error \in BOOLEAN /\ flushing \in [Writer -> Nat] /\ imm.log \in Nat
  BY DEF DataInv, MemoryInv, CommitInv, BackgroundInv, IInv, TypeOK, MemoryTypes, CallerTypes,
         QueueTypes, BackgroundTypes
<1>1. pc[w] \in {"prepare", "sleep", "stall"}
  BY Zenon DEF RoomSticky, RoomDelay, RoomDelayed, RoomStall, RoomStalled, SwitchFails,
               SwitchCloseThrows, FlushForced, MustSwitch
<1>2. \A v \in Writer : pc[v] \notin Committing /\ (pc[v] \in {"prepare", "sleep", "stall"} => v = w)
  BY <1>0, <1>1, LeaderUnique, Zenon DEF Leading, Committing
\* What is left to show is about the call of FlushMemTable, if it is one.
<1>3. ASSUME NEW q \in PCs \ Committing, pc' = [pc EXCEPT ![w] = q],
             next_file' = next_file \/ next_file' = next_file + 1,
             sticky_error => sticky_error', FlushCallOK',
             UNCHANGED <<log, mem, imm, last_sequence, diskVars, treeVars, bgVars, engine, acked>>
      PROVE  DataInv'
  <2>1. MemoryInv'
    BY <1>0, <1>3, MemoryFrame, Zenon
  <2>2. CommitInv'
    <3>1. \A v \in Writer : pc'[v] \notin Committing
      BY <1>0, <1>2, <1>3, Zenon
    <3>2. \A v \in Writer : pc[v] \notin {"sync", "insert", "failed", "threw"}
      BY <1>2, Zenon DEF Committing
    <3>3. UNCHANGED <<log, mem, imm, wal, tables>>
      BY <1>3, Zenon
    <3> QED BY <1>0, <1>3, <3>1, <3>2, <3>3, CommitQuiet, Zenon DEF CommitInv
  <2>3. BackgroundInv'
    BY <1>0, <1>3, Zenon DEF BackgroundInv, FlushOK, PickFindsWork, NeedsCompaction
  <2> QED BY <1>3, <2>1, <2>2, <2>3, Zenon DEF DataInv, MemoryInv, CommitInv, BackgroundInv
<1>4. {"idle", "prepare", "sleep", "stall", "flushwait"} \subseteq PCs \ Committing
  BY DEF PCs, Committing
\* The leader leaves the queue without a commit.
<1>5. ASSUME pc' = [pc EXCEPT ![w] = "idle"], UNCHANGED <<op, room, flushing, log, mem, imm>>
      PROVE  FlushCallOK'
  BY <1>0, <1>5, Zenon DEF FlushCallOK
<1>6. CASE RoomSticky(w)
  BY <1>3, <1>4, <1>5, <1>6, Zenon DEF RoomSticky, ReturnAlone
<1>7. CASE SwitchFails(w)
  BY <1>3, <1>4, <1>5, <1>7, Zenon DEF SwitchFails, ReturnAlone
<1>8. CASE SwitchCloseThrows(w)
  BY <1>0, <1>3, <1>4, <1>5, <1>8, Zenon DEF SwitchCloseThrows, ReturnAlone
\* A flush without its rotation never delays, and one with it has room.
<1>9. ASSUME op[w].kind = "flush"
      PROVE  ~room.allow_delay /\ (room.force \/ (pc[w] = "prepare" /\ imm # NoImm /\ mem = {}))
  BY <1>0, <1>1, <1>9, Zenon DEF FlushCallOK
<1>10. CASE RoomDelay(w)
  <2>1. room.allow_delay /\ pc' = [pc EXCEPT ![w] = "sleep"] /\ UNCHANGED <<op, room, flushing>>
        /\ UNCHANGED <<log, mem, imm>>
    BY <1>10, Zenon DEF RoomDelay, Delays
  <2>2. FlushCallOK'
    BY <1>0, <1>9, <2>1, Zenon DEF FlushCallOK
  <2> QED BY <1>3, <1>4, <1>10, <2>2, Zenon DEF RoomDelay
<1>11. CASE RoomDelayed(w)
  <2>1. /\ pc[w] = "sleep" /\ pc' = [pc EXCEPT ![w] = "prepare"] /\ UNCHANGED <<op, flushing, log, mem, imm>>
        /\ room' = [room EXCEPT !.allow_delay = FALSE]
    BY <1>11, Zenon DEF RoomDelayed
  <2>2. ~room'.allow_delay /\ room'.force = room.force
    BY <2>1 DEF IInv, TypeOK, QueueTypes
  <2>3. FlushCallOK'
    BY <1>0, <1>2, <2>1, <2>2, Zenon DEF FlushCallOK
  <2> QED BY <1>3, <1>4, <1>11, <2>3, Zenon DEF RoomDelayed
<1>12. CASE RoomStall(w)
  <2>1. /\ pc[w] = "prepare" /\ ~HasRoom /\ pc' = [pc EXCEPT ![w] = "stall"]
        /\ UNCHANGED <<op, room, flushing, log, mem, imm>>
    BY <1>12, Zenon DEF RoomStall
  <2>2. op[w].kind = "flush" => room.force
    <3>1. mem = {} /\ ~room.force => HasRoom
      BY FS_EmptySet, BoundAssumption DEF HasRoom
    <3> QED BY <1>9, <2>1, <3>1, Zenon
  <2>3. FlushCallOK'
    BY <1>0, <1>2, <2>1, <2>2, Zenon DEF FlushCallOK
  <2> QED BY <1>3, <1>4, <1>12, <2>3, Zenon DEF RoomStall
<1>13. CASE RoomStalled(w)
  <2>1. /\ pc[w] = "stall" /\ pc' = [pc EXCEPT ![w] = "prepare"]
        /\ UNCHANGED <<op, room, flushing, log, mem, imm>>
    BY <1>13, Zenon DEF RoomStalled
  <2>2. FlushCallOK'
    BY <1>0, <2>1, Zenon DEF FlushCallOK
  <2> QED BY <1>3, <1>4, <1>13, <2>2, Zenon DEF RoomStalled
<1>14. CASE FlushForced(w)
  <2>1. /\ pc[w] = "prepare" /\ ~room.force /\ op[w].kind = "flush"
        /\ pc' = [pc EXCEPT ![w] = "flushwait"] /\ flushing' = [flushing EXCEPT ![w] = imm.log]
        /\ UNCHANGED <<op, room, log, mem, imm>>
    BY <1>14, Zenon DEF FlushForced, HasRoom
  <2>2. imm # NoImm /\ imm.log < log
    BY <1>0, <1>9, <2>1, Zenon DEF MemoryInv, NumbersOK
  <2>3. /\ pc'[w] = "flushwait" /\ flushing'[w] = imm.log
        /\ \A v \in Writer \ {w} : pc'[v] = pc[v] /\ flushing'[v] = flushing[v]
    BY <1>0, <2>1, Zenon
  <2>4. imm.log >= imm.log
    BY <1>0
  <2>5. FlushCallOK'
    BY <1>0, <2>1, <2>2, <2>3, <2>4, Zenon DEF FlushCallOK
  <2> QED BY <1>3, <1>4, <1>14, <2>5, Zenon DEF FlushForced
<1> QED BY <1>6, <1>7, <1>8, <1>10, <1>11, <1>12, <1>13, <1>14, Zenon

-----------------------------------------------------------------------------

LEMMA InitData == Init => DataInv
<1> SUFFICES ASSUME Init PROVE DataInv
  OBVIOUS
<1>1. /\ \A w \in Writer : pc[w] = "idle"
      /\ wal = << >> /\ Len(wal) = 0 /\ mem = {} /\ imm = NoImm /\ imm.log = 0 /\ imm.entries = {}
      /\ durable = {} /\ log = 1 /\ log_number = 1 /\ next_file = 2 /\ last_sequence = 0 /\ acked = {}
  BY DEF Init, NoImm
<1>2. NumbersOK
  BY <1>1 DEF NumbersOK
<1>3. FlushOK /\ PickFindsWork
  BY DEF Init, FlushOK, PickFindsWork
<1>4. ProgressOK /\ ShareOK /\ FlushCallOK
  BY <1>1, Zenon DEF ProgressOK, ShareOK, FlushCallOK, Committing
<1>5. 1..Len(wal) = {} /\ 1..last_sequence = {}
  BY <1>1
<1>6. MemoryLogged /\ RecordsHeld /\ PublishedIsHeld /\ AckedIsDurable
  BY <1>1, <1>5, Zenon DEF MemoryLogged, RecordsHeld, PublishedIsHeld, AckedIsDurable
<1> QED BY <1>2, <1>3, <1>4, <1>6, Zenon DEF DataInv

\* A step that moves nothing the invariant speaks of.
LEMMA DataFrame ==
    ASSUME IInv, DataInv,
           UNCHANGED <<pc, op, writers, room, commit, share, flushing, memoryVars, diskVars, treeVars,
                       sticky_error, bgVars, engine, acked>>
    PROVE  DataInv'
<1>0. /\ MemoryInv /\ CommitInv /\ BackgroundInv /\ FlushCallOK /\ log \in Nat /\ next_file \in Nat
  BY Zenon DEF DataInv, MemoryInv, CommitInv, BackgroundInv, IInv, TypeOK, MemoryTypes
<1>1. MemoryInv'
  BY <1>0, MemoryFrame, Zenon
<1>2. CommitInv'
  BY <1>0, CommitKept, Zenon
<1>3. BackgroundInv'
  BY <1>0, Zenon DEF BackgroundInv, FlushOK, PickFindsWork, NeedsCompaction
<1>4. FlushCallOK'
  BY <1>0, Zenon DEF FlushCallOK
<1> QED BY <1>1, <1>2, <1>3, <1>4, Zenon DEF DataInv, MemoryInv, CommitInv, BackgroundInv

LEMMA DataKeeps == IInv /\ DataInv /\ [Next]_vars => DataInv'
<1> SUFFICES ASSUME IInv, DataInv, [Next]_vars PROVE DataInv'
  OBVIOUS
<1>1. CASE UNCHANGED vars
  BY <1>1, DataFrame, Zenon DEF vars
<1>2. ASSUME NEW w \in Writer, (\E call \in QueuedCalls : StartWrite(w, call)) \/ StartWait(w)
      PROVE  DataInv'
  BY <1>2, CallsData, Zenon
<1>3. ASSUME NEW w \in Writer, WriterStep(w)
      PROVE  DataInv'
  BY <1>3, CallsData, RoomData, SwitchData, GroupData, CommitData, Zenon DEF WriterStep
<1>4. ASSUME NEW w \in Writer \cup {Closer}, SpuriousWakeup(w)
      PROVE  DataInv'
  BY <1>4, DataFrame, Zenon DEF SpuriousWakeup
<1>5. CASE BackgroundStep \/ ChargeSeek \/ Close \/ CloseReturns
  BY <1>5, BackgroundData, Zenon
<1>6. CASE Closed
  BY <1>6, DataFrame, Zenon DEF Closed, vars
<1> QED
  BY <1>1, <1>2, <1>3, <1>4, <1>5, <1>6, Zenon DEF Next

-----------------------------------------------------------------------------
(* The theorems.                                                             *)

\* What WritePath.DataInv says of the memtables, the logs, the tables and the calls.
THEOREM DataInvariance == Spec => []DataInv
<1>1. Init => DataInv
  BY InitData
<1>2. IInv /\ DataInv /\ [Next]_vars => DataInv'
  BY DataKeeps
<1> QED
  BY <1>1, <1>2, Invariance, PTL DEF Spec

\* A write that CommitWrite reports committed is published; when it asked for a sync, it is
\* in a synced record or in a table, whoever led its group (database_write.cc:120).
THEOREM DurableWrites == Spec => []AckedIsDurable
<1>1. DataInv => AckedIsDurable
  BY Zenon DEF DataInv
<1> QED
  BY <1>1, DataInvariance, PTL

\* Readers find everything up to last_sequence, the MANIFEST's log number passes over no
\* entry that is only in memory, and a background task finds the work it was scheduled for.
THEOREM EngineIsSound == Spec => []EngineSound
<1>1. IInv /\ DataInv => EngineSound
  <2> SUFFICES ASSUME IInv, DataInv PROVE EngineSound
    OBVIOUS
  <2>1. /\ PublishedIsHeld /\ PickFindsWork /\ MemoryLogged
        /\ log_number \in Nat /\ log \in Nat /\ log_number <= log
        /\ imm # NoImm => log_number <= imm.log
        /\ imm = NoImm => imm.entries = {}
    BY Zenon DEF DataInv, NumbersOK, IInv, TypeOK, MemoryTypes, DiskTypes
  <2>2. /\ DOMAIN wal = 1..Len(wal)
        /\ \A i \in 1..Len(wal) : wal[i].log \in Nat
    BY WalTypes, LenOfSeq DEF IInv
  <2>3. \A a, b \in Nat : a <= b => b >= a
    OBVIOUS
  <2>4. LogNumberCoversMemory
    <3> SUFFICES ASSUME NEW s \in 1..last_sequence, s \notin tables
                 PROVE  \E i \in 1..Len(wal) : s \in Interval(wal[i]) /\ wal[i].log >= log_number
      BY <2>2, Zenon DEF LogNumberCoversMemory
    <3>1. CASE s \in mem
      BY <2>1, <2>2, <2>3, <3>1, Zenon DEF MemoryLogged
    <3>2. CASE s \in imm.entries
      <4>1. PICK i \in 1..Len(wal) : s \in Interval(wal[i]) /\ wal[i].log = imm.log
        BY <2>1, <3>2, Zenon DEF MemoryLogged
      <4>2. log_number <= wal[i].log
        BY <2>1, <3>2, <4>1, Zenon
      <4> QED BY <2>1, <2>2, <2>3, <4>1, <4>2, Zenon
    <3> QED BY <2>1, <3>1, <3>2, Zenon DEF PublishedIsHeld, Held
  <2> QED BY <2>1, <2>4, Zenon DEF EngineSound
<1> QED
  BY <1>1, Invariance, DataInvariance, PTL

\* FlushMemTable has a memtable to wait for, and when it returns without an error the
\* records of that memtable's log, and of the logs before it, are in tables
\* (database_write.cc:145-160).
THEOREM FlushComplete == Spec => FlushMeansFlushed
<1>1. ASSUME IInv, DataInv, Next
      PROVE  \A w \in Writer :
                /\ FlushForced(w) => imm # NoImm
                /\ (pc[w] = "flushwait" /\ pc'[w] = "idle" /\ result'[w] = "ok")
                     => \A i \in DOMAIN wal :
                            wal[i].log <= flushing[w] => Interval(wal[i]) \subseteq tables
  <2> SUFFICES ASSUME NEW w \in Writer
               PROVE  /\ FlushForced(w) => imm # NoImm
                      /\ (pc[w] = "flushwait" /\ pc'[w] = "idle" /\ result'[w] = "ok")
                           => \A i \in DOMAIN wal :
                                wal[i].log <= flushing[w] => Interval(wal[i]) \subseteq tables
    OBVIOUS
  <2>0. /\ FlushCallOK /\ RecordsHeld /\ pc \in [Writer -> PCs] /\ CommitOK
        /\ log \in Nat /\ flushing \in [Writer -> Nat] /\ result \in [Writer -> Results]
        /\ imm \in [log : Nat, entries : SUBSET Nat] /\ TypeOK
    BY <1>1, Zenon DEF DataInv, IInv, TypeOK, CallerTypes, MemoryTypes
  <2>00. imm.log \in Nat
    BY <2>0
  <2>1. FlushForced(w) => imm # NoImm
    BY <2>0, Zenon DEF FlushForced, FlushCallOK, HasRoom
  <2>2. ASSUME pc[w] = "flushwait", pc'[w] = "idle", result'[w] = "ok"
        PROVE  \A i \in DOMAIN wal : wal[i].log <= flushing[w] => Interval(wal[i]) \subseteq tables
    <3>1. FlushReturns(w)
      <4>1. ASSUME NEW v \in Writer, (\E call \in QueuedCalls : StartWrite(v, call)) \/ StartWait(v)
            PROVE  pc'[w] = pc[w]
        BY <2>0, <2>2, <4>1, Zenon DEF StartWrite, StartWait, MayStart
      <4>2. ASSUME NEW v \in Writer, WriterStep(v), v # w
            PROVE  pc'[w] = pc[w]
        BY <2>0, <4>2, Zenon DEF WriterStep, Turn, RoomSticky, RoomDelay, RoomDelayed, RoomStall,
             RoomStalled, SwitchFails, SwitchCloseThrows, Switch, FlushForced, BeginGroup, TakeOn,
             BuildThrows, BeginCommit, AppendRecord, SyncLog, InsertEntry, Publish, CommitFails,
             FlushReturns, WaitReturns, ReturnAlone
      <4>3. WriterStep(w) => FlushReturns(w)
        BY <2>2, Zenon DEF WriterStep, Turn, RoomSticky, RoomDelay, RoomDelayed, RoomStall,
             RoomStalled, SwitchFails, SwitchCloseThrows, Switch, FlushForced, BeginGroup, TakeOn, MustSwitch,
             BuildThrows, BeginCommit, AppendRecord, SyncLog, InsertEntry, Publish, CommitFails,
             WaitReturns
      <4>4. ASSUME BackgroundStep \/ ChargeSeek \/ Close \/ CloseReturns \/ Closed
                   \/ \E v \in Writer \cup {Closer} : SpuriousWakeup(v)
            PROVE  pc' = pc
        BY <4>4, Zenon DEF BackgroundStep, BackgroundSkips, FlushBegins, FlushBuilt, FlushLogged,
             CleanedUp, CompactionBegins, CompactionRan, CompactionLogged, ChargeSeek, Close, CloseReturns,
             Closed, SpuriousWakeup, vars
      <4> QED BY <1>1, <2>2, <4>1, <4>2, <4>3, <4>4, Zenon DEF Next
    <3>2. (imm.log # flushing[w] \/ sticky_error) /\ ~sticky_error
      <4>1. imm.log # flushing[w] \/ sticky_error
        BY <2>2, <3>1, Zenon DEF FlushReturns
      <4>2. result' = [result EXCEPT ![w] = BackgroundResult]
        BY <3>1, <4>1, Zenon DEF FlushReturns
      <4> QED BY <2>0, <2>2, <4>1, <4>2, Zenon DEF BackgroundResult
    <3>3. flushing[w] \in Nat /\ flushing[w] < log /\ (imm = NoImm \/ imm.log > flushing[w])
      <4>1. flushing[w] \in Nat /\ flushing[w] < log /\ (imm = NoImm \/ imm.log >= flushing[w])
        BY <2>0, <2>2, Zenon DEF FlushCallOK
      <4>2. \A a, b \in Nat : a >= b /\ a # b => a > b
        OBVIOUS
      <4> QED BY <2>00, <3>2, <4>1, <4>2, Zenon
    <3>4. \A a, b, c \in Nat : a <= b /\ b < c => a # c
      OBVIOUS
    <3>5. \A a, b, c \in Nat : a <= b /\ c > b => a # c
      OBVIOUS
    <3>6. /\ DOMAIN wal = 1..Len(wal)
          /\ \A i \in 1..Len(wal) : wal[i].log \in Nat
      BY <2>0, WalTypes, LenOfSeq
    <3>7. \A i : Unfinished(i) => wal[i].log = log
      <4>1. Record.log = commit.log
        BY DEF Record
      <4> QED BY <2>0, <4>1, Zenon DEF Unfinished, CommitOK, Committing
    <3> QED
      BY <2>0, <2>00, <3>2, <3>3, <3>4, <3>5, <3>6, <3>7, Zenon DEF RecordsHeld
  <2> QED BY <2>1, <2>2, Zenon
<1>2. IInv /\ DataInv /\ [Next]_vars
        => [\A w \in Writer :
              /\ FlushForced(w) => imm # NoImm
              /\ (pc[w] = "flushwait" /\ pc'[w] = "idle" /\ result'[w] = "ok")
                   => \A i \in DOMAIN wal :
                          wal[i].log <= flushing[w] => Interval(wal[i]) \subseteq tables]_vars
  BY <1>1, Zenon
<1> QED
  BY <1>2, Invariance, DataInvariance, PTL DEF FlushMeansFlushed, Spec

=============================================================================
