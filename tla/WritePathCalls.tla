-------------------------- MODULE WritePathCalls ----------------------------
(***************************************************************************)
(* What the proofs about WritePath share, and that the background task, the*)
(* calls and MakeRoomForWrite keep its invariant.                          *)
(***************************************************************************)
EXTENDS WritePath, TLAPS

USE DEF queueVars, memoryVars, diskVars, treeVars, bgVars, callerVars

(* Sequences.                                                                *)

LEMMA LenOfSeq ==
    ASSUME NEW S, NEW q \in Seq(S)
    PROVE  Len(q) \in Nat /\ q \in [1..Len(q) -> S] /\ DOMAIN q = 1..Len(q)
  OBVIOUS

LEMMA MemberOfSeq ==
    ASSUME NEW S, NEW q \in Seq(S), NEW n \in 1..Len(q)
    PROVE  q[n] \in S
  OBVIOUS

LEMMA NoLength ==
    ASSUME NEW S
    PROVE  << >> \in Seq(S) /\ \A q \in Seq(S) : (q = << >>) <=> (Len(q) = 0)
  OBVIOUS

LEMMA Appended ==
    ASSUME NEW S, NEW q \in Seq(S), NEW e \in S
    PROVE  /\ Append(q, e) \in Seq(S) /\ Append(q, e) # << >>
           /\ Len(Append(q, e)) = Len(q) + 1 /\ Append(q, e)[Len(q) + 1] = e
           /\ \A i \in 1..Len(q) : Append(q, e)[i] = q[i]
  OBVIOUS

LEMMA Slice ==
    ASSUME NEW S, NEW q, NEW m \in Int, NEW n \in Int, \A i \in m..n : q[i] \in S
    PROVE  /\ SubSeq(q, m, n) \in Seq(S)
           /\ Len(SubSeq(q, m, n)) = IF m <= n THEN n - m + 1 ELSE 0
           /\ \A i \in 1..(n - m + 1) : SubSeq(q, m, n)[i] = q[m + i - 1]
  OBVIOUS

\* What one more writer makes of the queue.
LEMMA Joined ==
    ASSUME NEW q \in Seq(Writer), NEW r \in Seq(Writer), Len(r) = Len(q) + 1
    PROVE  /\ \A k \in 1..Len(r) : k \in 1..Len(q) \/ k = Len(q) + 1
           /\ 1..Len(q) \subseteq 1..Len(r) /\ Len(q) + 1 \in 1..Len(r)
           /\ r # << >> /\ (Len(q) = 0 => Len(q) + 1 = 1)
  OBVIOUS

\* What dropping the first n writers leaves of the queue.
LEMMA Dropped ==
    ASSUME NEW q \in Seq(Writer), NEW n \in Nat, n <= Len(q)
    PROVE  /\ SubSeq(q, n + 1, Len(q)) \in Seq(Writer)
           /\ Len(SubSeq(q, n + 1, Len(q))) = Len(q) - n
           /\ \A i \in 1..(Len(q) - n) : SubSeq(q, n + 1, Len(q))[i] = q[n + i]
<1>1. Len(q) \in Nat /\ \A i \in (n + 1)..Len(q) : q[i] \in Writer
  BY LenOfSeq, MemberOfSeq
<1>2. QED
  BY <1>1, Slice

\* The positions of a sequence are numbers.
LEMMA SeqDomain ==
    ASSUME NEW S, NEW q \in Seq(S)
    PROVE  DOMAIN q \subseteq Nat
<1>1. Len(q) \in Nat /\ DOMAIN q = 1..Len(q)
  BY LenOfSeq
<1> QED BY <1>1

\* A caller that runs MakeRoomForWrite or commits is a member of the queue.
LEMMA FrontExists ==
    ASSUME TypeOK, LeaderIsFront, NEW w \in Writer, pc[w] \in Leading
    PROVE  /\ Len(writers) \in Nat \ {0}
           /\ writers[1] = w
           /\ 1 \in 1..Len(writers)
  BY NoLength DEF TypeOK, QueueTypes, LeaderIsFront

\* Every invariant about the queue and the log.
QueueInv == QueueOK /\ LeaderIsFront /\ CommitOK /\ WalOK /\ NoSequenceReuse

\* A step that moves no caller and no record keeps them, as long as the sticky
\* error stays recorded.
LEMMA QueueFrame ==
    ASSUME QueueInv, sticky_error => sticky_error',
           UNCHANGED <<pc, result, writers, commit, log, last_sequence, wal>>
    PROVE  QueueInv'
  BY DEF QueueInv, QueueOK, LeaderIsFront, CommitOK, WalOK, NoSequenceReuse, LastOf, Record, Interval

\* What MaybeScheduleBackgroundWork may change.
LEMMA ScheduleEffect ==
    ASSUME NEW scheduled \in BOOLEAN, NEW sticky \in BOOLEAN, NEW im, NEW l0, NEW deep,
           NEW sleepers \in SUBSET (Writer \cup {Closer}), BackgroundTypes,
           MaybeSchedule(scheduled, sticky, im, l0, deep, sleepers)
    PROVE  /\ background_scheduled' \in BOOLEAN /\ sticky_error' \in BOOLEAN
           /\ bg' \in {"none", "scheduled", "flush", "flushlog", "cleanup", "compact",
                       "compactlog", "compactfailed"}
           /\ sticky => sticky_error'
           /\ asleep' \in SUBSET (Writer \cup {Closer})
<1>1. CASE WantsSchedule(scheduled, sticky, im, l0, deep)
  BY <1>1, Zenon DEF MaybeSchedule, OnBackground
<1>2. CASE ~WantsSchedule(scheduled, sticky, im, l0, deep)
  BY <1>2 DEF MaybeSchedule, BackgroundTypes
<1> QED BY <1>1, <1>2

\* At most one caller leads the queue at a time.
LEMMA LeaderUnique ==
    ASSUME LeaderIsFront, NEW v \in Writer, NEW w \in Writer,
           pc[v] \in Leading, pc[w] \in Leading
    PROVE  v = w
  BY DEF LeaderIsFront

\* The fields of a caller's batch have their types.
LEMMA BatchTypes ==
    ASSUME CallerTypes, NEW w \in Writer
    PROVE  op[w].batch.count \in Nat /\ op[w].batch.size \in Nat /\ op[w].batch.sync \in BOOLEAN
<1>1. op[w].batch \in Batches \cup {NoBatch}
  BY DEF CallerTypes
<1>2. CASE op[w].batch \in Batches
  BY <1>2, BatchAssumption
<1>3. CASE op[w].batch = NoBatch
  BY <1>3 DEF NoBatch
<1> QED BY <1>1, <1>2, <1>3

\* The leader goes on: the queue stays as it is.
LEMMA LeaderStays ==
    ASSUME TypeOK, QueueOK, LeaderIsFront, NEW w \in Writer, NEW q \in Leading,
           pc[w] \in Leading, pc' = [pc EXCEPT ![w] = q], UNCHANGED <<writers, result>>
    PROVE  QueueOK' /\ LeaderIsFront'
<1>1. pc \in [Writer -> PCs]
  BY DEF TypeOK, CallerTypes
<1>2. \A v \in Writer : pc'[v] \in Leading <=> pc[v] \in Leading
  BY <1>1
<1>3. \A v \in Writer : pc'[v] = "turn" <=> pc[v] = "turn"
  BY <1>1 DEF Leading
<1> QED
  BY <1>2, <1>3 DEF QueueOK, LeaderIsFront

\* The first n writers leave the queue, the leader with them.
LEMMA FrontLeaves ==
    ASSUME TypeOK, QueueOK, LeaderIsFront, NEW w \in Writer, pc[w] \in Leading,
           NEW n \in 1..Len(writers), NEW r \in Results, NEW f \in Results,
           n = 1 \/ f # "pending", Complete(n, r, f),
           NEW q \in PCs \ (Leading \cup {"turn"}), pc' = [pc EXCEPT ![w] = q]
    PROVE  /\ QueueOK' /\ LeaderIsFront'
           /\ writers' \in Seq(Writer) /\ result' \in [Writer -> Results]
           /\ pc' \in [Writer -> PCs]
<1>1. /\ pc \in [Writer -> PCs] /\ result \in [Writer -> Results] /\ writers \in Seq(Writer)
      /\ n \in Nat /\ n >= 1 /\ n <= Len(writers) /\ Len(writers) \in Nat /\ writers[1] = w
  <2>1. Len(writers) \in Nat /\ writers[1] = w
    BY FrontExists
  <2>2. n \in Nat /\ n >= 1 /\ n <= Len(writers)
    BY <2>1
  <2>3. pc \in [Writer -> PCs] /\ result \in [Writer -> Results] /\ writers \in Seq(Writer)
    BY SMTT(30) DEF TypeOK, CallerTypes, QueueTypes
  <2> QED BY <2>1, <2>2, <2>3
<1>2. /\ writers' \in Seq(Writer) /\ Len(writers') = Len(writers) - n
      /\ \A i \in 1..(Len(writers) - n) : writers'[i] = writers[n + i]
  BY <1>1, Dropped DEF Complete
<1>3. result' \in [Writer -> Results] /\ pc' \in [Writer -> PCs]
  <2>1. \A v \in Writer : result'[v] \in Results
    BY <1>1 DEF Complete
  <2>2. result' \in [Writer -> Results]
    BY <2>1 DEF Complete
  <2> QED BY <1>1, <2>2
<1>4. \A i, j \in 1..Len(writers) : writers[i] = writers[j] => i = j
  BY DEF QueueOK
<1>5. \A i, j \in 1..Len(writers') : writers'[i] = writers'[j] => i = j
  <2> TAKE i, j \in 1..Len(writers')
  <2>1. n + i \in 1..Len(writers) /\ n + j \in 1..Len(writers)
    BY <1>1, <1>2
  <2>2. writers'[i] = writers[n + i] /\ writers'[j] = writers[n + j]
    BY <1>2, SMTT(30)
  <2>3. writers'[i] = writers'[j] => n + i = n + j
    BY <1>4, <2>1, <2>2, Zenon
  <2>4. i \in Nat /\ j \in Nat /\ n \in Nat
    BY <1>1, <1>2
  <2> QED BY <2>3, <2>4
<1>6. ASSUME NEW v \in Writer, NEW i \in 1..Len(writers'), writers'[i] = v
      PROVE  pc'[v] = "turn" /\ result'[v] = "pending"
  <2>1. n + i \in 1..Len(writers) /\ writers[n + i] = v /\ v # w
    BY <1>1, <1>2, <1>4, <1>6
  <2>2. pc[v] = "turn" /\ result[v] = "pending"
    BY <2>1, LeaderUnique DEF QueueOK
  <2>3. ~ \E k \in 2..n : writers[k] = v
    BY <1>1, <1>2, <1>4, <2>1
  <2> QED
    BY <1>1, <2>1, <2>2, <2>3 DEF Complete
<1>7. ASSUME NEW v \in Writer, pc'[v] \in Leading
      PROVE  FALSE
  BY <1>1, <1>7, LeaderUnique DEF Leading
<1>8. ASSUME NEW v \in Writer, pc'[v] = "turn", result'[v] = "pending"
      PROVE  \E i \in 1..Len(writers') : writers'[i] = v
  <2>1. v # w /\ pc[v] = "turn"
    BY <1>1, <1>8
  <2>2. ~ \E k \in 2..n : writers[k] = v
    BY <1>1, <1>8, <2>1 DEF Complete
  <2>3. result[v] = "pending"
    BY <1>1, <1>8, <2>1, <2>2 DEF Complete
  <2>4. PICK k \in 1..Len(writers) : writers[k] = v
    BY <2>1, <2>3 DEF QueueOK
  <2>5. k - n \in 1..Len(writers') /\ n + (k - n) = k
    BY <1>1, <1>2, <2>1, <2>2, <2>4
  <2>6. writers'[k - n] = v
    BY <1>2, <2>4, <2>5
  <2> QED
    BY <2>5, <2>6
<1>9. QueueOK'
  BY <1>5, <1>6, <1>7, <1>8 DEF QueueOK
<1>10. LeaderIsFront'
  BY <1>7 DEF LeaderIsFront
<1> QED
  BY <1>2, <1>3, <1>9, <1>10

\* A caller that commits neither before nor after its step leaves the commit of
\* another one alone.
LEMMA CommitFrame ==
    ASSUME TypeOK, CommitOK, WalOK, NoSequenceReuse, NEW w \in Writer, NEW q,
           pc[w] \notin Committing, q \notin Committing, pc' = [pc EXCEPT ![w] = q],
           sticky_error => sticky_error', UNCHANGED <<commit, log, last_sequence, wal>>,
           \A v \in Writer : pc[v] \in Committing => 1..Len(writers) \subseteq 1..Len(writers')
    PROVE  CommitOK' /\ WalOK' /\ NoSequenceReuse'
<1>1. \A v \in Writer : /\ pc'[v] \in Committing <=> pc[v] \in Committing
                        /\ pc[v] \in Committing => pc'[v] = pc[v]
  BY DEF TypeOK, CallerTypes
<1>2. CommitOK'
  BY <1>1 DEF CommitOK, LastOf, Record
<1>3. WalOK' /\ NoSequenceReuse'
  BY <1>1 DEF WalOK, NoSequenceReuse, LastOf, Interval
<1> QED BY <1>2, <1>3

\* The locals with which MakeRoomForWrite starts have their type.
LEMMA RoomType ==
    ASSUME NEW kind
    PROVE  [force |-> kind = "flush", allow_delay |-> kind = "write"]
             \in [force : BOOLEAN, allow_delay : BOOLEAN]
<1> DEFINE force == kind = "flush"
           delay == kind = "write"
<1>1. force \in BOOLEAN /\ delay \in BOOLEAN
  BY Zenon
<1> HIDE DEF force, delay
<1>2. [force |-> force, allow_delay |-> delay] \in [force : BOOLEAN, allow_delay : BOOLEAN]
  BY <1>1
<1> QED
  BY <1>2 DEF force, delay

-----------------------------------------------------------------------------
(* The background task, the calls and MakeRoomForWrite.                      *)

\* The background thread, the readers and the destructor keep the invariant.
LEMMA BackgroundKeeps ==
    ASSUME IInv, BackgroundStep \/ ChargeSeek \/ Close \/ CloseReturns
    PROVE  IInv'
<1> USE DEF IInv, TypeOK
<1>0. /\ NotifyAll \in SUBSET (Writer \cup {Closer}) /\ asleep \in SUBSET (Writer \cup {Closer})
      /\ TRUE \in BOOLEAN /\ FALSE \in BOOLEAN /\ sticky_error \in BOOLEAN
      /\ background_scheduled \in BOOLEAN
  BY DEF CallerTypes, BackgroundTypes, NotifyAll
<1>1. ASSUME NEW sticky \in BOOLEAN, NEW im, NEW l0, NEW deep, sticky_error => sticky,
             BackgroundEnd(sticky, im, l0, deep)
      PROVE  /\ background_scheduled' \in BOOLEAN /\ sticky_error' \in BOOLEAN
             /\ bg' \in {"none", "scheduled", "flush", "flushlog", "cleanup", "compact",
                         "compactlog", "compactfailed"}
             /\ compaction' = "none"
             /\ sticky_error => sticky_error'
             /\ asleep' \in SUBSET (Writer \cup {Closer})
  <2>1. MaybeSchedule(FALSE, sticky, im, l0, deep, NotifyAll) /\ compaction' = "none"
    BY <1>1, Zenon DEF BackgroundEnd
  <2> QED BY <1>0, <1>1, <2>1, ScheduleEffect, Zenon
<1> DEFINE Effect ==
      /\ background_scheduled' \in BOOLEAN /\ sticky_error' \in BOOLEAN
      /\ bg' \in {"none", "scheduled", "flush", "flushlog", "cleanup", "compact",
                  "compactlog", "compactfailed"}
      /\ compaction' \in {"none", "level0", "move0", "deeper", "move"}
      /\ sticky_error => sticky_error'
      /\ asleep' \in SUBSET (Writer \cup {Closer})
      /\ flush_log' \in Nat /\ seeks' \in Nat /\ UNCHANGED <<started, spurious>>
      /\ engine' \in {"open", "closing", "closed"}
      /\ CompactionOK'
      /\ MemoryTypes' /\ DiskTypes'
      /\ UNCHANGED <<pc, op, result, writers, room, commit, share, flushing, acked, log,
                     last_sequence, wal>>
<1>2. ASSUME Effect PROVE IInv'
  <2>1. QueueInv'
    BY <1>2, QueueFrame DEF QueueInv
  <2>2. CallerTypes' /\ QueueTypes' /\ BackgroundTypes'
    BY <1>2 DEF CallerTypes, QueueTypes, BackgroundTypes
  <2> QED BY <1>2, <2>1, <2>2 DEF QueueInv
<1>3. CASE BackgroundSkips
  BY <1>3, <1>0, <1>1, <1>2 DEF BackgroundSkips, BackgroundTypes, MemoryTypes, DiskTypes, CompactionOK
<1>4. CASE FlushBegins
  BY <1>4, <1>0, <1>2 DEF FlushBegins, BackgroundTypes, MemoryTypes, DiskTypes, CompactionOK
<1>5. ASSUME NEW im, NEW l0, FlushEndsInError(im, l0)
      PROVE  /\ background_scheduled' \in BOOLEAN /\ sticky_error' = TRUE
             /\ bg' \in {"none", "scheduled", "flush", "flushlog", "cleanup", "compact",
                         "compactlog", "compactfailed"}
             /\ compaction' \in {"none", compaction}
             /\ asleep' \in SUBSET (Writer \cup {Closer})
  <2>1. CASE compaction = "none"
    <3>1. BackgroundEnd(TRUE, im, l0, deeper)
      BY <1>5, <2>1, Zenon DEF FlushEndsInError
    <3>2. sticky_error' \in BOOLEAN /\ sticky_error'
      BY <1>0, <3>1, ScheduleEffect, Zenon DEF BackgroundEnd
    <3> QED BY <1>0, <1>1, <3>1, <3>2, Zenon
  <2>2. CASE compaction # "none"
    BY <1>5, <2>2, <1>0 DEF FlushEndsInError
  <2> QED BY <2>1, <2>2, Zenon
<1>6. CASE FlushBuilt
  <2>1. CASE FlushEndsInError(imm, level0)
    BY <1>6, <2>1, <1>5, <1>2, Zenon
       DEF FlushBuilt, BackgroundTypes, MemoryTypes, DiskTypes, CompactionOK
  <2>2. CASE ~FlushEndsInError(imm, level0)
    BY <1>6, <2>2, <1>0, <1>2
       DEF FlushBuilt, BackgroundTypes, MemoryTypes, DiskTypes, CompactionOK
  <2> QED BY <2>1, <2>2
<1>7. CASE FlushLogged
  <2>1. CASE InstallFlush(flush_log) /\ imm' = NoImm /\ FlushInstalled
    <3>1. MemoryTypes' /\ DiskTypes' /\ level0' >= level0
      <4>1. level0' \in {level0, level0 + 1} /\ tables' = tables \cup imm.entries
        BY <2>1 DEF InstallFlush
      <4>2. tables' \subseteq Nat /\ log_number' \in Nat
        BY <2>1, <4>1, Zenon DEF InstallFlush, DiskTypes, MemoryTypes, BackgroundTypes
      <4>3. level0' \in Nat /\ level0' >= level0
        BY <4>1 DEF DiskTypes
      <4> QED
        BY <1>7, <2>1, <4>2, <4>3 DEF FlushLogged, MemoryTypes, DiskTypes, NoImm
    <3>2. CASE sticky_error
      <4>1. FlushEndsInError(NoImm, level0')
        BY <2>1, <3>2 DEF FlushInstalled
      <4>2. UNCHANGED <<callerVars, log, last_sequence, next_file, wal, deeper, flush_log, engine,
                        seeks, spurious>>
        BY <1>7 DEF FlushLogged
      <4>3. compaction' \in {"none", compaction} /\ sticky_error' = TRUE
        BY <4>1, <1>5, Zenon
      <4>4. CompactionOK'
        BY <4>2, <4>3, <3>1 DEF CompactionOK, DiskTypes
      <4> QED
        BY <4>1, <4>2, <4>3, <4>4, <3>1, <1>5, <1>2 DEF BackgroundTypes
    <3>3. CASE ~sticky_error
      BY <1>7, <2>1, <3>1, <3>3, <1>0, <1>2
         DEF FlushLogged, FlushInstalled, BackgroundTypes, CompactionOK, DiskTypes
    <3> QED BY <3>2, <3>3
  <2>2. CASE FlushEndsInError(imm, level0) /\ UNCHANGED <<tables, imm, log_number, level0>>
    BY <1>7, <2>2, <1>5, <1>2, Zenon
       DEF FlushLogged, BackgroundTypes, MemoryTypes, DiskTypes, CompactionOK
  <2> QED BY <1>7, <2>1, <2>2 DEF FlushLogged
<1>8. CASE CleanedUp
  <2>1. CASE compaction \in {"level0", "deeper"}
    BY <1>8, <2>1, <1>0, <1>2 DEF CleanedUp, BackgroundTypes, MemoryTypes, DiskTypes, CompactionOK
  <2>2. CASE compaction \notin {"level0", "deeper"}
    BY <1>8, <2>2, <1>0, <1>1, <1>2
       DEF CleanedUp, BackgroundTypes, MemoryTypes, DiskTypes, CompactionOK
  <2> QED BY <2>1, <2>2
<1>9. CASE CompactionBegins
  <2>1. CompactionOK'
    BY <1>9, BoundAssumption DEF CompactionBegins, CompactionOK, DiskTypes
  <2> QED
    BY <1>9, <2>1, <1>0, <1>2 DEF CompactionBegins, BackgroundTypes, MemoryTypes, DiskTypes
<1>10. CASE CompactionRan
  <2>1. CASE BackgroundEnd(TRUE, imm, level0, deeper)
    BY <1>10, <2>1, <1>0, <1>1, <1>2, Zenon
       DEF CompactionRan, BackgroundTypes, MemoryTypes, DiskTypes, CompactionOK
  <2>2. CASE bg' = "compactlog" /\ UNCHANGED <<background_scheduled, compaction, sticky_error, asleep>>
    BY <1>10, <2>2, <1>0, <1>2
       DEF CompactionRan, BackgroundTypes, MemoryTypes, DiskTypes, CompactionOK
  <2> QED BY <1>10, <2>1, <2>2, Zenon DEF CompactionRan
<1>11. CASE CompactionLogged
  <2>1. DiskTypes' /\ MemoryTypes'
    <3>1. level0' \in Nat /\ deeper' \in Nat
      <4>1. \/ /\ compaction \in {"level0", "move0"} /\ deeper' \in {deeper, deeper + 1}
               /\ level0' \in 0..(level0 - 1) \/ level0' = level0 - 1
            \/ compaction \in {"deeper", "move"} /\ deeper' = deeper - 1 /\ level0' = level0
            \/ level0' = level0 /\ deeper' = deeper
        BY <1>11, Zenon DEF CompactionLogged
      <4> QED BY <4>1 DEF CompactionOK, DiskTypes
    <3> QED BY <1>11, <3>1 DEF CompactionLogged, DiskTypes, MemoryTypes
  <2>2. CASE BackgroundEnd(sticky_error, imm, level0', deeper')
    BY <1>11, <2>1, <2>2, <1>0, <1>1, <1>2 DEF CompactionLogged, BackgroundTypes, CompactionOK
  <2>3. CASE BackgroundEnd(TRUE, imm, level0', deeper')
    BY <1>11, <2>1, <2>3, <1>0, <1>1, <1>2, Zenon DEF CompactionLogged, BackgroundTypes, CompactionOK
  <2>4. CASE BackgroundEnd(TRUE, imm, level0, deeper)
    BY <1>11, <2>1, <2>4, <1>0, <1>1, <1>2, Zenon DEF CompactionLogged, BackgroundTypes, CompactionOK
  <2>5. CASE bg' = "cleanup" /\ compaction' = "none"
             /\ UNCHANGED <<background_scheduled, sticky_error, asleep>>
    BY <1>11, <2>1, <2>5, <1>0, <1>2 DEF CompactionLogged, BackgroundTypes, CompactionOK
  <2> QED BY <1>11, <2>2, <2>3, <2>4, <2>5, Zenon DEF CompactionLogged
<1>12. CASE ChargeSeek
  <2>1. MaybeSchedule(background_scheduled, sticky_error, imm, level0, deeper', asleep)
    BY <1>12 DEF ChargeSeek
  <2>2. DiskTypes' /\ MemoryTypes' /\ CompactionOK'
    BY <1>12 DEF ChargeSeek, DiskTypes, MemoryTypes, CompactionOK
  <2>3. QED
    BY <1>12, <2>1, <2>2, <1>0, <1>2, ScheduleEffect DEF ChargeSeek, BackgroundTypes
<1>13. CASE Close \/ CloseReturns
  <2>1. /\ asleep' \in {asleep, asleep \cup {Closer}} /\ engine' \in {engine, "closing", "closed"}
        /\ UNCHANGED <<callerVars, memoryVars, diskVars, treeVars, sticky_error, bgVars, seeks,
                       spurious>>
    BY <1>13 DEF Close, CloseReturns
  <2>2. MemoryTypes' /\ DiskTypes' /\ CompactionOK'
    BY <2>1 DEF MemoryTypes, DiskTypes, CompactionOK
  <2>3. /\ asleep' \in SUBSET (Writer \cup {Closer})
        /\ engine' \in {"open", "closing", "closed"}
    BY <2>1, <1>0 DEF BackgroundTypes
  <2> QED BY <1>0, <1>2, <2>1, <2>2, <2>3 DEF BackgroundTypes
<1> QED
  BY <1>3, <1>4, <1>6, <1>7, <1>8, <1>9, <1>10, <1>11, <1>12, <1>13 DEF BackgroundStep

\* Calls that start, take their turn or return.
LEMMA CallsKeep ==
    ASSUME IInv, NEW w \in Writer,
           \/ \E call \in QueuedCalls : StartWrite(w, call)
           \/ StartWait(w) \/ Turn(w) \/ FlushReturns(w) \/ WaitReturns(w)
    PROVE  IInv'
<1> USE DEF IInv, TypeOK
<1>0. MemoryTypes' /\ DiskTypes' /\ BackgroundTypes' /\ CompactionOK'
  <2>1. /\ started' \in Nat
        /\ UNCHANGED <<memoryVars, diskVars, treeVars, sticky_error, bgVars, engine, seeks, spurious>>
    <3>1. started \in Nat /\ started + 1 \in Nat
      BY DEF BackgroundTypes
    <3>2. CASE \E call \in QueuedCalls : StartWrite(w, call)
      BY <3>1, <3>2 DEF StartWrite
    <3>3. CASE StartWait(w)
      BY <3>1, <3>3, Zenon DEF StartWait
    <3>4. CASE Turn(w)
      BY <3>1, <3>4, Zenon DEF Turn
    <3>5. CASE FlushReturns(w) \/ WaitReturns(w)
      BY <3>1, <3>5, Zenon DEF FlushReturns, WaitReturns
    <3> QED BY <3>2, <3>3, <3>4, <3>5
  <2> QED BY <2>1 DEF MemoryTypes, DiskTypes, BackgroundTypes, CompactionOK
<1>1. CASE \E call \in QueuedCalls : StartWrite(w, call)
  <2>1. PICK call \in QueuedCalls : StartWrite(w, call)
    BY <1>1
  <2>2. /\ writers \in Seq(Writer) /\ Len(writers) \in Nat /\ pc \in [Writer -> PCs]
        /\ result \in [Writer -> Results]
    BY DEF QueueTypes, CallerTypes
  <2>3. /\ writers' \in Seq(Writer) /\ Len(writers') = Len(writers) + 1
        /\ writers'[Len(writers) + 1] = w
        /\ \A i \in 1..Len(writers) : writers'[i] = writers[i]
    BY <2>1, <2>2 DEF StartWrite
  <2>31. /\ \A k \in 1..Len(writers') : k \in 1..Len(writers) \/ k = Len(writers) + 1
         /\ 1..Len(writers) \subseteq 1..Len(writers') /\ Len(writers) + 1 \in 1..Len(writers')
         /\ writers' # << >> /\ (Len(writers) = 0 => Len(writers) + 1 = 1)
    BY <2>2, <2>3, Joined, Zenon
  <2>4. /\ pc[w] = "idle" /\ result' = [result EXCEPT ![w] = "pending"]
        /\ \/ writers = << >> /\ pc' = [pc EXCEPT ![w] = "prepare"]
           \/ writers # << >> /\ pc' = [pc EXCEPT ![w] = "turn"]
    BY <2>1 DEF StartWrite, MayStart
  <2>5. CallerTypes' /\ QueueTypes'
    <3>1. pc' \in [Writer -> PCs] /\ result' \in [Writer -> Results]
      BY <2>2, <2>4 DEF PCs, Results
    <3>2. call \in [kind : {"write", "flush", "wait"}, batch : Batches \cup {NoBatch}]
      BY DEF QueuedCalls
    <3>3. op' \in [Writer -> [kind : {"write", "flush", "wait"}, batch : Batches \cup {NoBatch}]]
      <4>1. op' = [op EXCEPT ![w] = call]
        BY <2>1 DEF StartWrite
      <4>2. op \in [Writer -> [kind : {"write", "flush", "wait"}, batch : Batches \cup {NoBatch}]]
        BY DEF CallerTypes
      <4> QED BY <3>2, <4>1, <4>2
    <3>4. CallerTypes'
      <4>1. asleep' \in {asleep, asleep \cup {w}} /\ UNCHANGED <<flushing, acked>>
        BY <2>1 DEF StartWrite
      <4> QED BY <3>1, <3>3, <4>1 DEF CallerTypes
    <3>5. room' \in [force : BOOLEAN, allow_delay : BOOLEAN]
      <4>1. room' = StartRoom(w) \/ room' = room
        BY <2>1, SMTT(30) DEF StartWrite
      <4>2. StartRoom(w) \in [force : BOOLEAN, allow_delay : BOOLEAN]
        BY RoomType, Zenon DEF StartRoom
      <4> QED BY <4>1, <4>2 DEF QueueTypes
    <3> QED BY <2>1, <2>3, <3>4, <3>5 DEF StartWrite, QueueTypes
  <2>6. \A i \in 1..Len(writers) : writers[i] # w
    BY <2>4, Zenon DEF QueueOK, Leading
  <2>7. \A v \in Writer \ {w} : pc'[v] = pc[v] /\ result'[v] = result[v]
    BY <2>2, <2>4, Zenon
  <2>8. /\ pc'[w] = "prepare" \/ (pc'[w] = "turn" /\ result'[w] = "pending")
        /\ pc'[w] = "prepare" => Len(writers) = 0
    BY <2>2, <2>4, NoLength, Zenon
  <2>9. QueueOK'
    <3>1. \A i, j \in 1..Len(writers') : writers'[i] = writers'[j] => i = j
      <4>1. \A i, j \in 1..Len(writers) : writers[i] = writers[j] => i = j
        BY Zenon DEF QueueOK
      <4>2. ASSUME NEW i \in 1..Len(writers'), NEW j \in 1..Len(writers'), writers'[i] = writers'[j]
            PROVE  i = j
        <5>1. i \in 1..Len(writers) \/ i = Len(writers) + 1
          BY <2>31, Zenon
        <5>2. j \in 1..Len(writers) \/ j = Len(writers) + 1
          BY <2>31, Zenon
        <5>3. CASE i \in 1..Len(writers) /\ j \in 1..Len(writers)
          BY <2>3, <4>1, <4>2, <5>3, Zenon
        <5>4. CASE i = Len(writers) + 1 \/ j = Len(writers) + 1
          BY <2>3, <2>6, <4>2, <5>1, <5>2, <5>4, Zenon
        <5> QED BY <5>1, <5>2, <5>3, <5>4, Zenon
      <4> QED BY <4>2, Zenon
    <3>2. \A v \in Writer \ {w} : (\E i \in 1..Len(writers') : writers'[i] = v)
                                    <=> \E i \in 1..Len(writers) : writers[i] = v
      BY <2>3, <2>31, Zenon
    <3>3. \E i \in 1..Len(writers') : writers'[i] = w
      BY <2>3, <2>31, Zenon
    <3>4. pc'[w] \in Leading \/ (pc'[w] = "turn" /\ result'[w] = "pending")
      BY <2>8, Zenon DEF Leading
    <3>5. \A v \in Writer \ {w} : (\E i \in 1..Len(writers) : writers[i] = v)
                                    <=> (pc'[v] \in Leading \/ (pc'[v] = "turn" /\ result'[v] = "pending"))
      BY <2>7, Zenon DEF QueueOK
    <3>6. \A v \in Writer : (\E i \in 1..Len(writers') : writers'[i] = v)
                              <=> (pc'[v] \in Leading \/ (pc'[v] = "turn" /\ result'[v] = "pending"))
      <4>1. SUFFICES ASSUME NEW v \in Writer
                     PROVE  (\E i \in 1..Len(writers') : writers'[i] = v)
                              <=> (pc'[v] \in Leading \/ (pc'[v] = "turn" /\ result'[v] = "pending"))
        BY Zenon
      <4>2. CASE v = w
        BY <3>3, <3>4, <4>2, Zenon
      <4>3. CASE v # w
        BY <3>2, <3>5, <4>3, Zenon
      <4> QED BY <4>2, <4>3, Zenon
    <3> QED BY <3>1, <3>6, Zenon DEF QueueOK
  <2>10. LeaderIsFront'
    <3>1. ASSUME NEW v \in Writer, pc'[v] \in Leading
          PROVE  writers' # << >> /\ writers'[1] = v
      <4>1. CASE v = w
        BY <2>3, <2>31, <2>8, <3>1, <4>1, Zenon DEF Leading
      <4>2. CASE v # w
        <5>1. pc[v] \in Leading
          BY <2>7, <3>1, <4>2, Zenon
        <5>2. 1 \in 1..Len(writers) /\ writers[1] = v
          BY <5>1, FrontExists, Zenon
        <5> QED BY <2>3, <2>31, <5>2, Zenon
      <4> QED BY <4>1, <4>2, Zenon
    <3> QED BY <3>1, Zenon DEF LeaderIsFront
  <2>11. CommitOK' /\ WalOK' /\ NoSequenceReuse'
    <3>1. 1..Len(writers) \subseteq 1..Len(writers')
      BY <2>31, Zenon
    <3>2. UNCHANGED <<commit, log, last_sequence, wal, sticky_error>>
      BY <2>1, Zenon DEF StartWrite
    <3>3. CASE pc' = [pc EXCEPT ![w] = "prepare"]
      BY <2>4, <3>1, <3>2, <3>3, CommitFrame, Zenon DEF Committing
    <3>4. CASE pc' = [pc EXCEPT ![w] = "turn"]
      BY <2>4, <3>1, <3>2, <3>4, CommitFrame, Zenon DEF Committing
    <3> QED BY <2>4, <3>3, <3>4, Zenon
  <2> QED BY <1>0, <2>5, <2>9, <2>10, <2>11, Zenon
\* The other calls leave the queue alone.
<1>2. ASSUME NEW q \in {"idle", "bgwait", "turn", "flushwait"}, NEW r \in Results,
             pc[w] \in {"idle", "turn", "flushwait", "bgwait"},
             pc' = [pc EXCEPT ![w] = q], result' = [result EXCEPT ![w] = r],
             (pc[w] = "turn" /\ result[w] = "pending") <=> (q = "turn" /\ r = "pending"),
             UNCHANGED <<writers, commit, log, last_sequence, wal, sticky_error>>
      PROVE  QueueInv' /\ pc' \in [Writer -> PCs] /\ result' \in [Writer -> Results]
  <2>1. pc \in [Writer -> PCs] /\ result \in [Writer -> Results]
    BY DEF CallerTypes
  <2>2. \A v \in Writer : pc'[v] \in Leading <=> pc[v] \in Leading
    BY <1>2, <2>1 DEF Leading
  <2>3. \A v \in Writer : (pc'[v] = "turn" /\ result'[v] = "pending")
                             <=> (pc[v] = "turn" /\ result[v] = "pending")
    BY <1>2, <2>1
  <2>4. QueueOK' /\ LeaderIsFront'
    BY <1>2, <2>2, <2>3 DEF QueueOK, LeaderIsFront
  <2>5. CommitOK' /\ WalOK' /\ NoSequenceReuse'
    BY <1>2, CommitFrame, Zenon DEF Committing
  <2>6. pc' \in [Writer -> PCs] /\ result' \in [Writer -> Results]
    BY <1>2, <2>1 DEF PCs
  <2> QED BY <2>4, <2>5, <2>6 DEF QueueInv
<1>3. CASE StartWait(w)
  <2>1. /\ pc[w] = "idle" /\ BackgroundResult \in Results /\ "pending" \in Results
        /\ pc = [pc EXCEPT ![w] = "idle"]
    BY <1>3 DEF StartWait, MayStart, BackgroundResult, Results, CallerTypes
  <2>2. QueueInv' /\ pc' \in [Writer -> PCs] /\ result' \in [Writer -> Results]
    <3>1. CASE background_scheduled
      BY <1>2, <1>3, <2>1, <3>1, SMTT(30) DEF StartWait
    <3>2. CASE ~background_scheduled
      BY <1>2, <1>3, <2>1, <3>2 DEF StartWait
    <3> QED BY <3>1, <3>2
  <2>3. op' \in [Writer -> [kind : {"write", "flush", "wait"}, batch : Batches \cup {NoBatch}]]
    BY <1>3 DEF StartWait, CallerTypes
  <2>4. CallerTypes' /\ QueueTypes'
    BY <1>3, <2>2, <2>3, SMTT(30) DEF StartWait, CallerTypes, QueueTypes
  <2> QED BY <1>0, <2>2, <2>4 DEF QueueInv
<1>4. CASE Turn(w)
  <2>1. /\ pc[w] = "turn" /\ pc = [pc EXCEPT ![w] = "turn"] /\ result[w] \in Results
        /\ result = [result EXCEPT ![w] = result[w]]
    BY <1>4, Zenon DEF Turn, CallerTypes
  <2>2. CASE result[w] = "pending" /\ writers[1] = w
    <3>1. /\ pc' = [pc EXCEPT ![w] = "prepare"]
          /\ room' = [force |-> op[w].kind = "flush", allow_delay |-> op[w].kind = "write"]
          /\ UNCHANGED <<op, result, asleep, writers, commit, share, flushing, log, last_sequence,
                         wal, sticky_error, acked>>
      BY <1>4, <2>2, Zenon DEF Turn
    <3>2. pc \in [Writer -> PCs]
      BY DEF CallerTypes
    <3>3. \E i \in 1..Len(writers) : writers[i] = w
      BY <2>1, <2>2, Zenon DEF QueueOK
    <3>4. \A v \in Writer : pc[v] \notin Leading
      BY <2>1, <2>2, Zenon DEF LeaderIsFront, Leading
    <3>5. QueueOK' /\ LeaderIsFront'
      <4>1. writers # << >>
        BY <3>3, NoLength, SMTT(30)
      <4>2. \A v \in Writer \ {w} : pc'[v] = pc[v]
        BY <3>1, <3>2, Zenon
      <4>3. pc'[w] \in Leading
        BY <3>1, <3>2, Zenon DEF Leading
      <4>4. LeaderIsFront'
        BY <2>2, <3>1, <3>4, <4>1, <4>2, Zenon DEF LeaderIsFront
      <4>5. ASSUME NEW v \in Writer \ {w}
            PROVE  (\E i \in 1..Len(writers') : writers'[i] = v)
                     <=> (pc'[v] \in Leading \/ (pc'[v] = "turn" /\ result'[v] = "pending"))
        BY <3>1, <4>2, <4>5, Zenon DEF QueueOK
      <4>6. \A i, j \in 1..Len(writers') : writers'[i] = writers'[j] => i = j
        BY <3>1, Zenon DEF QueueOK
      <4>7. QueueOK'
        <5>1. \E i \in 1..Len(writers') : writers'[i] = w
          BY <3>1, <3>3, Zenon
        <5> QED BY <4>3, <4>5, <4>6, <5>1, Zenon DEF QueueOK
      <4> QED BY <4>4, <4>7
    <3>6. CommitOK' /\ WalOK' /\ NoSequenceReuse'
      BY <2>1, <3>1, CommitFrame, Zenon DEF Committing
    <3>7. CallerTypes' /\ QueueTypes'
      BY <3>1, <3>2, RoomType, Zenon DEF CallerTypes, QueueTypes, PCs
    <3> QED BY <1>0, <3>5, <3>6, <3>7, Zenon
  <2>3. CASE ~(result[w] = "pending" /\ writers[1] = w)
    <3>1. /\ \/ result[w] # "pending" /\ pc' = [pc EXCEPT ![w] = "idle"] /\ UNCHANGED asleep
             \/ result[w] = "pending" /\ pc' = pc /\ asleep' = asleep \cup {w}
          /\ UNCHANGED <<op, result, room, writers, commit, share, flushing, log, last_sequence,
                         wal, sticky_error, acked>>
      BY <1>4, <2>3, Zenon DEF Turn
    <3>2. QueueInv' /\ pc' \in [Writer -> PCs] /\ result' \in [Writer -> Results]
      BY <1>2, <2>1, <3>1, SMTT(30)
    <3>3. CallerTypes' /\ QueueTypes'
      BY <3>1, <3>2, Zenon DEF CallerTypes, QueueTypes
    <3> QED BY <1>0, <3>2, <3>3, Zenon DEF QueueInv
  <2> QED BY <2>2, <2>3, Zenon
<1>5. CASE FlushReturns(w) \/ WaitReturns(w)
  <2>1. pc[w] \in {"flushwait", "bgwait"} /\ BackgroundResult \in Results /\ result[w] \in Results
        /\ pc = [pc EXCEPT ![w] = pc[w]] /\ result = [result EXCEPT ![w] = result[w]]
    BY <1>5, SMTT(30) DEF FlushReturns, WaitReturns, CallerTypes, BackgroundResult, Results
  <2>2. /\ \/ /\ pc' = [pc EXCEPT ![w] = "idle"] /\ UNCHANGED asleep
              /\ result' = [result EXCEPT ![w] = BackgroundResult]
           \/ UNCHANGED <<pc, result>> /\ asleep' = asleep \cup {w}
        /\ UNCHANGED <<op, room, writers, commit, share, flushing, log, last_sequence, wal,
                       sticky_error, acked>>
    BY <1>5, Zenon DEF FlushReturns, WaitReturns
  <2>3. QueueInv' /\ pc' \in [Writer -> PCs] /\ result' \in [Writer -> Results]
    BY <1>2, <2>1, <2>2
  <2>4. CallerTypes' /\ QueueTypes'
    BY <2>2, <2>3, SMTT(30) DEF CallerTypes, QueueTypes
  <2> QED BY <1>0, <2>3, <2>4, SMTT(30) DEF QueueInv
<1> QED BY <1>1, <1>3, <1>4, <1>5

\* The leader in MakeRoomForWrite.
RoomStep(w) ==
    \/ RoomSticky(w) \/ RoomDelay(w) \/ RoomDelayed(w) \/ RoomStall(w) \/ RoomStalled(w)
    \/ SwitchFails(w) \/ SwitchCloseThrows(w) \/ Switch(w) \/ FlushForced(w)

\* Every step of MakeRoomForWrite keeps the invariant: its waits, its rotations and
\* their failures.
LEMMA RoomKeeps ==
    ASSUME IInv, NEW w \in Writer, RoomStep(w)
    PROVE  IInv'
<1> USE DEF IInv, TypeOK
<1>0. /\ pc[w] \in {"prepare", "sleep", "stall"} /\ pc[w] \in Leading /\ pc[w] \notin Committing
      /\ pc \in [Writer -> PCs] /\ result \in [Writer -> Results]
  BY Zenon DEF RoomStep, RoomSticky, RoomDelay, RoomDelayed, RoomStall, RoomStalled, SwitchFails,
         SwitchCloseThrows, Switch, FlushForced, MustSwitch, Leading, Committing, CallerTypes
<1>1. \A v \in Writer : pc[v] \notin Committing
  BY <1>0, LeaderUnique DEF Leading, Committing
<1>2. 1 \in 1..Len(writers) /\ Len(writers) \in Nat
  BY <1>0, FrontExists
<1>3. NotifyAll \subseteq asleep
  BY DEF NotifyAll
\* The leader goes on.
<1>4. ASSUME NEW q \in {"prepare", "sleep", "stall"}, pc' = [pc EXCEPT ![w] = q],
             asleep' \in {asleep, asleep \cup {w}},
             room' \in [force : BOOLEAN, allow_delay : BOOLEAN],
             UNCHANGED <<op, result, writers, commit, share, flushing, memoryVars, diskVars,
                         treeVars, sticky_error, bgVars, engine, acked, started, seeks, spurious>>
      PROVE  IInv'
  <2>1. QueueOK' /\ LeaderIsFront'
    BY <1>0, <1>4, LeaderStays, Zenon DEF Leading
  <2>2. CommitOK' /\ WalOK' /\ NoSequenceReuse'
    BY <1>0, <1>4, CommitFrame, Zenon DEF Committing
  <2>3. CallerTypes' /\ QueueTypes'
    BY <1>4, SMTT(30) DEF CallerTypes, QueueTypes, PCs
  <2>4. MemoryTypes' /\ DiskTypes' /\ BackgroundTypes' /\ CompactionOK'
    BY <1>4 DEF MemoryTypes, DiskTypes, BackgroundTypes, CompactionOK
  <2> QED BY <2>1, <2>2, <2>3, <2>4
<1>5. CASE RoomDelay(w)
  BY <1>4, <1>5 DEF RoomDelay, QueueTypes
<1>6. CASE RoomDelayed(w)
  <2>1. room' \in [force : BOOLEAN, allow_delay : BOOLEAN]
    BY <1>6, Zenon DEF RoomDelayed, QueueTypes
  <2> QED BY <1>4, <1>6, <2>1 DEF RoomDelayed
<1>7. CASE RoomStall(w) \/ RoomStalled(w)
  BY <1>4, <1>7 DEF RoomStall, RoomStalled, QueueTypes
\* The leader leaves alone.
<1>8. ASSUME NEW r \in Results, NEW q \in {"idle", "flushwait"}, Complete(1, r, r),
             pc' = [pc EXCEPT ![w] = q],
             asleep' \subseteq asleep \cup {w}, next_file' \in Nat,
             sticky_error' \in BOOLEAN, sticky_error => sticky_error',
             flushing' \in [Writer -> Nat],
             UNCHANGED <<op, room, commit, share, log, mem, imm, last_sequence, diskVars, treeVars,
                         bgVars, engine, acked, started, seeks, spurious>>
      PROVE  IInv'
  <2>1. /\ QueueOK' /\ LeaderIsFront' /\ writers' \in Seq(Writer)
        /\ result' \in [Writer -> Results] /\ pc' \in [Writer -> PCs]
    <3>1. q \in PCs \ (Leading \cup {"turn"})
      BY DEF PCs, Leading
    <3> QED BY <1>0, <1>2, <1>8, <3>1, FrontLeaves, Zenon
  <2>2. CommitOK' /\ WalOK' /\ NoSequenceReuse'
    BY <1>0, <1>1, <1>8, CommitFrame, Zenon DEF Committing
  <2>3. CallerTypes' /\ QueueTypes'
    BY <1>8, <2>1, Zenon DEF CallerTypes, QueueTypes
  <2>4. MemoryTypes' /\ DiskTypes' /\ BackgroundTypes' /\ CompactionOK'
    BY <1>8 DEF MemoryTypes, DiskTypes, BackgroundTypes, CompactionOK
  <2> QED BY <2>1, <2>2, <2>3, <2>4
<1>9. /\ \A S : Woken(1, S) \subseteq S
      /\ {"sticky", "error", "thrown", "pending"} \subseteq Results
      /\ next_file \in Nat /\ next_file + 1 \in Nat /\ sticky_error \in BOOLEAN
      /\ flushing \in [Writer -> Nat] /\ imm.log \in Nat
  <2>1. \A S : Woken(1, S) \subseteq S
    BY Zenon DEF Woken
  <2>2. {"sticky", "error", "thrown", "pending"} \subseteq Results
    BY DEF Results
  <2>3. next_file \in Nat /\ next_file + 1 \in Nat /\ imm.log \in Nat
    BY DEF MemoryTypes
  <2>4. sticky_error \in BOOLEAN /\ flushing \in [Writer -> Nat]
    BY SMTT(30) DEF BackgroundTypes, CallerTypes
  <2> QED BY <2>1, <2>2, <2>3, <2>4
<1>10. CASE RoomSticky(w)
  BY <1>8, <1>9, <1>10, Zenon DEF RoomSticky, ReturnAlone
<1>11. CASE SwitchFails(w)
  BY <1>8, <1>9, <1>11, Zenon DEF SwitchFails, ReturnAlone
<1>12. CASE SwitchCloseThrows(w)
  BY <1>3, <1>8, <1>9, <1>12, SMTT(30) DEF SwitchCloseThrows, ReturnAlone
<1>13. CASE FlushForced(w)
  <2>1. flushing' \in [Writer -> Nat] /\ asleep' \subseteq asleep \cup {w}
    BY <1>9, <1>13, Zenon DEF FlushForced
  <2>2. /\ Complete(1, "pending", "pending") /\ pc' = [pc EXCEPT ![w] = "flushwait"]
        /\ sticky_error' = sticky_error /\ next_file' = next_file
        /\ UNCHANGED <<op, room, commit, share, log, mem, imm, last_sequence, diskVars, treeVars,
                       bgVars, engine, acked, started, seeks, spurious>>
    BY <1>13, Zenon DEF FlushForced
  <2> QED BY <1>8, <1>9, <2>1, <2>2, Zenon
<1>14. CASE Switch(w)
  <2>1. PICK s \in BOOLEAN, sleepers \in SUBSET (Writer \cup {Closer}) :
            MaybeSchedule(background_scheduled, s, imm', level0, deeper, sleepers)
    BY <1>3, <1>14, Zenon DEF Switch, CallerTypes
  <2>2. /\ background_scheduled' \in BOOLEAN /\ sticky_error' \in BOOLEAN
        /\ bg' \in {"none", "scheduled", "flush", "flushlog", "cleanup", "compact",
                    "compactlog", "compactfailed"}
        /\ asleep' \in SUBSET (Writer \cup {Closer})
    BY <2>1, ScheduleEffect DEF BackgroundTypes
  <2>3. /\ UNCHANGED <<pc, op, result, writers, commit, share, flushing, last_sequence, diskVars,
                       treeVars, compaction, flush_log, engine, acked, started, seeks, spurious>>
        /\ ~sticky_error /\ log' = next_file /\ next_file' = next_file + 1 /\ mem' = {}
        /\ imm' = [log |-> log, entries |-> mem] /\ room' = [room EXCEPT !.force = FALSE]
    BY <1>14 DEF Switch, MustSwitch
  <2>4. QueueOK' /\ LeaderIsFront'
    BY <2>3, Zenon DEF QueueOK, LeaderIsFront
  <2>5. CommitOK' /\ WalOK' /\ NoSequenceReuse'
    BY <1>1, <2>3, SMTT(30) DEF CommitOK, WalOK, NoSequenceReuse, LastOf, Interval
  <2>6. CallerTypes' /\ QueueTypes'
    BY <2>2, <2>3, Zenon DEF CallerTypes, QueueTypes
  <2>7. MemoryTypes' /\ DiskTypes' /\ BackgroundTypes' /\ CompactionOK'
    BY <2>2, <2>3 DEF MemoryTypes, DiskTypes, BackgroundTypes, CompactionOK
  <2> QED BY <2>4, <2>5, <2>6, <2>7
<1> QED
  BY <1>5, <1>6, <1>7, <1>10, <1>11, <1>12, <1>13, <1>14 DEF RoomStep

=============================================================================
