-------------------------- MODULE WritePathProofs ---------------------------
(***************************************************************************)
(* Proofs about WritePath, for any number of callers, any batches, any     *)
(* thresholds and any set of faults: the queue, its leader and its commits.*)
(***************************************************************************)
EXTENDS WritePathCalls

USE DEF queueVars, memoryVars, diskVars, treeVars, bgVars, callerVars

(* BuildGroup and CommitWrite keep the invariant, their failures too.        *)

\* Growing a group, and counting an inserted entry, keep the type of the commit.
LEMMA CommitGrows ==
    ASSUME NEW c \in [n : Nat, first : Nat, count : Nat, size : Nat, log : Nat, inserted : Nat],
           NEW k \in Nat, NEW z \in Nat
    PROVE  /\ [c EXCEPT !.n = @ + 1, !.count = @ + k, !.size = @ + z]
                = [n |-> c.n + 1, first |-> c.first, count |-> c.count + k, size |-> c.size + z,
                   log |-> c.log, inserted |-> c.inserted]
           /\ [c EXCEPT !.inserted = @ + 1]
                = [n |-> c.n, first |-> c.first, count |-> c.count, size |-> c.size,
                   log |-> c.log, inserted |-> c.inserted + 1]
           /\ c.n \in Nat /\ c.first \in Nat /\ c.count \in Nat /\ c.size \in Nat /\ c.log \in Nat
           /\ c.inserted \in Nat
<1>1. /\ c.n \in Nat /\ c.first \in Nat /\ c.count \in Nat /\ c.size \in Nat /\ c.log \in Nat
      /\ c.inserted \in Nat
  OBVIOUS
<1>2. c = [n |-> c.n, first |-> c.first, count |-> c.count, size |-> c.size, log |-> c.log,
           inserted |-> c.inserted]
  OBVIOUS
<1>3. [c EXCEPT !.n = @ + 1, !.count = @ + k, !.size = @ + z]
        = [n |-> c.n + 1, first |-> c.first, count |-> c.count + k, size |-> c.size + z,
           log |-> c.log, inserted |-> c.inserted]
  <2> DEFINE d == [c EXCEPT !.n = @ + 1]
             e == [d EXCEPT !.count = @ + k]
  <2>1. d = [n |-> c.n + 1, first |-> c.first, count |-> c.count, size |-> c.size,
             log |-> c.log, inserted |-> c.inserted]
    BY <1>2
  <2>2. [c EXCEPT !.n = @ + 1, !.count = @ + k, !.size = @ + z] = [e EXCEPT !.size = @ + z]
    BY Zenon
  <2> HIDE DEF d
  <2>3. e = [n |-> c.n + 1, first |-> c.first, count |-> c.count + k, size |-> c.size,
             log |-> c.log, inserted |-> c.inserted]
    BY <2>1
  <2> HIDE DEF e
  <2> QED BY <2>2, <2>3
<1>4. [c EXCEPT !.inserted = @ + 1]
        = [n |-> c.n, first |-> c.first, count |-> c.count, size |-> c.size,
           log |-> c.log, inserted |-> c.inserted + 1]
  BY <1>2
<1> QED
  BY <1>1, <1>3, <1>4

\* The leader builds its group and commits it.
GroupStep(w) ==
    \/ BeginGroup(w) \/ TakeOn(w) \/ BuildThrows(w) \/ BeginCommit(w)
    \/ AppendRecord(w) \/ SyncLog(w) \/ InsertEntry(w) \/ Publish(w) \/ CommitFails(w)

\* Every step of BuildGroup and CommitWrite keeps the invariant, the failures too.
LEMMA GroupKeeps ==
    ASSUME IInv, NEW w \in Writer, GroupStep(w)
    PROVE  IInv'
<1> USE DEF IInv, TypeOK
<1>0. /\ pc[w] \in Leading /\ pc[w] \in Committing \cup {"prepare"}
      /\ pc \in [Writer -> PCs] /\ result \in [Writer -> Results]
  BY DEF GroupStep, BeginGroup, TakeOn, BuildThrows, BeginCommit, AppendRecord, SyncLog,
         InsertEntry, Publish, CommitFails, Leading, Committing, CallerTypes
<1>1. \A v \in Writer \ {w} : pc[v] \notin Leading /\ pc[v] \notin Committing
  BY <1>0, LeaderUnique DEF Leading, Committing
<1>2. /\ 1 \in 1..Len(writers) /\ Len(writers) \in Nat /\ writers[1] = w
      /\ writers \in Seq(Writer)
  BY <1>0, FrontExists DEF QueueTypes
<1>3. /\ Len(wal) \in Nat /\ wal \in Seq([log : Nat, first : Nat, count : Nat])
      /\ last_sequence \in Nat /\ log \in Nat
      /\ commit \in [n : Nat, first : Nat, count : Nat, size : Nat, log : Nat, inserted : Nat]
      /\ Record \in [log : Nat, first : Nat, count : Nat]
  BY DEF DiskTypes, MemoryTypes, QueueTypes, Record
<1>31. /\ commit.n \in Nat /\ commit.first \in Nat /\ commit.count \in Nat /\ commit.size \in Nat
       /\ commit.log \in Nat /\ commit.inserted \in Nat
  BY <1>3
<1>32. Record.first = commit.first /\ Record.count = commit.count
  BY DEF Record
<1>33. \A i \in 1..Len(wal) : wal[i].first \in Nat /\ wal[i].count \in Nat
  <2>1. \A i \in 1..Len(wal) : wal[i] \in [log : Nat, first : Nat, count : Nat]
    BY <1>3, MemberOfSeq, Zenon
  <2> QED BY <2>1
<1>34. Len(wal) \in Nat /\ last_sequence \in Nat
  BY <1>3
<1>4. pc[w] \in Committing =>
        /\ commit.n \in 1..Len(writers) /\ commit.log = log /\ commit.first = last_sequence + 1
        /\ \A i \in 1..Len(wal) :
              \/ LastOf(wal[i]) <= last_sequence
              \/ pc[w] \notin {"group", "append"} /\ i = Len(wal) /\ wal[i] = Record
  BY DEF CommitOK
\* The leader goes on: what is left to show is about the commit and the log.
<1>5. ASSUME NEW q \in Committing, pc' = [pc EXCEPT ![w] = q],
             UNCHANGED <<op, result, writers, room, flushing, asleep, log, last_sequence, next_file,
                         tables, log_number, treeVars, sticky_error, bgVars, engine, acked, started,
                         seeks, spurious>>,
             commit' \in [n : Nat, first : Nat, count : Nat, size : Nat, log : Nat, inserted : Nat],
             share' \in [Writer -> [first : Nat, count : Nat, sync : BOOLEAN]],
             mem' \subseteq Nat, imm' \in [log : Nat, entries : SUBSET Nat],
             wal' \in Seq([log : Nat, first : Nat, count : Nat]), durable' \subseteq Nat,
             commit'.n \in 1..Len(writers), commit'.log = log, commit'.first = last_sequence + 1,
             \A i \in 1..Len(wal') :
                \/ LastOf(wal'[i]) <= last_sequence
                \/ q \notin {"group", "append"} /\ i = Len(wal') /\ wal'[i] = Record',
             NoSequenceReuse'
      PROVE  IInv'
  <2>1. QueueOK' /\ LeaderIsFront'
    BY <1>0, <1>5, LeaderStays, Zenon DEF Leading, Committing
  <2>2. pc'[w] = q /\ \A v \in Writer \ {w} : pc'[v] \notin Committing
    BY <1>0, <1>1, <1>5
  <2>3. CommitOK'
    BY <1>5, <2>2, SMTT(30) DEF CommitOK, LastOf
  <2>4. WalOK'
    BY <2>2 DEF WalOK
  <2>5. CallerTypes' /\ QueueTypes'
    BY <1>5, Zenon DEF CallerTypes, QueueTypes, PCs, Committing
  <2>6. MemoryTypes' /\ DiskTypes' /\ BackgroundTypes' /\ CompactionOK'
    BY <1>5 DEF MemoryTypes, DiskTypes, BackgroundTypes, CompactionOK
  <2> QED BY <1>5, <2>1, <2>3, <2>4, <2>5, <2>6
<1>6. UNCHANGED wal => NoSequenceReuse'
  BY DEF NoSequenceReuse, Interval
<1>7. /\ share \in [Writer -> [first : Nat, count : Nat, sync : BOOLEAN]]
      /\ mem \subseteq Nat /\ imm \in [log : Nat, entries : SUBSET Nat] /\ durable \subseteq Nat
      /\ {"group", "append", "sync", "insert", "failed", "threw"} = Committing
  BY DEF QueueTypes, MemoryTypes, DiskTypes, Committing
<1>8. CASE BeginGroup(w)
  <2>1. op[w].batch.count \in Nat /\ op[w].batch.size \in Nat /\ op[w].batch.sync \in BOOLEAN
    BY BatchTypes
  <2>2. /\ commit' = [n |-> 1, first |-> last_sequence + 1, count |-> op[w].batch.count,
                      size |-> op[w].batch.size, log |-> log, inserted |-> 0]
        /\ pc' = [pc EXCEPT ![w] = "group"] /\ pc[w] = "prepare" /\ ~sticky_error
        /\ UNCHANGED <<op, result, writers, room, flushing, asleep, memoryVars, diskVars, treeVars,
                       sticky_error, bgVars, engine, acked, started, seeks, spurious>>
    BY <1>8 DEF BeginGroup
  <2>3. share' \in [Writer -> [first : Nat, count : Nat, sync : BOOLEAN]]
    <3>1. [first |-> last_sequence + 1, count |-> op[w].batch.count, sync |-> op[w].batch.sync]
            \in [first : Nat, count : Nat, sync : BOOLEAN]
      BY <1>34, <2>1
    <3>2. share' = [share EXCEPT ![w] = [first |-> last_sequence + 1,
                      count |-> op[w].batch.count, sync |-> op[w].batch.sync]]
      BY <1>8 DEF BeginGroup
    <3> DEFINE own == [first |-> last_sequence + 1, count |-> op[w].batch.count,
                       sync |-> op[w].batch.sync]
    <3>3. own \in [first : Nat, count : Nat, sync : BOOLEAN] /\ share' = [share EXCEPT ![w] = own]
      BY <3>1, <3>2, SMTT(30)
    <3> HIDE DEF own
    <3> QED BY <1>7, <3>3
  <2>4. \A i \in 1..Len(wal) : LastOf(wal[i]) <= last_sequence
    BY <1>1, <2>2, Zenon DEF WalOK, Committing
  <2>5. /\ commit' \in [n : Nat, first : Nat, count : Nat, size : Nat, log : Nat, inserted : Nat]
        /\ commit'.n = 1 /\ commit'.log = log /\ commit'.first = last_sequence + 1
    <3>1. last_sequence + 1 \in Nat /\ log \in Nat
      BY <1>3, SMTT(30)
    <3> QED BY <2>1, <2>2, <3>1
  <2> QED BY <1>2, <1>3, <1>5, <1>6, <1>7, <2>2, <2>3, <2>4, <2>5, Zenon
<1>9. CASE TakeOn(w)
  <2> DEFINE f == writers[commit.n + 1]
  <2>1. pc[w] = "group" /\ commit.n + 1 \in 1..Len(writers)
    <3>1. pc[w] = "group" /\ commit.n < Len(writers)
      BY <1>9 DEF TakeOn, CanTakeOn
    <3>2. commit.n \in Nat
      BY <1>3
    <3> QED BY <1>2, <3>1, <3>2
  <2>2. f \in Writer
    BY <1>2, <2>1, MemberOfSeq
  <2>3. op[f].batch.count \in Nat /\ op[f].batch.size \in Nat /\ op[f].batch.sync \in BOOLEAN
    BY <2>2, BatchTypes
  <2>4. /\ commit' = [commit EXCEPT !.n = @ + 1, !.count = @ + op[f].batch.count,
                                    !.size = @ + op[f].batch.size]
        /\ share' = [share EXCEPT ![f] = [first |-> commit.first + commit.count,
                                          count |-> op[f].batch.count, sync |-> op[f].batch.sync]]
        /\ UNCHANGED <<pc, op, result, writers, room, flushing, asleep, memoryVars, diskVars,
                       treeVars, sticky_error, bgVars, engine, acked, started, seeks, spurious>>
    BY <1>9 DEF TakeOn
  <2>5. pc' = [pc EXCEPT ![w] = "group"]
    BY <1>0, <2>1, <2>4, SMTT(30)
  <2>6. share' \in [Writer -> [first : Nat, count : Nat, sync : BOOLEAN]]
    <3>1. [first |-> commit.first + commit.count, count |-> op[f].batch.count,
           sync |-> op[f].batch.sync] \in [first : Nat, count : Nat, sync : BOOLEAN]
      BY <1>3, <2>3
    <3> QED BY <1>7, <2>4, <3>1, Zenon
  <2>7. /\ commit' \in [n : Nat, first : Nat, count : Nat, size : Nat, log : Nat, inserted : Nat]
        /\ commit'.n = commit.n + 1 /\ commit'.log = commit.log /\ commit'.first = commit.first
    <3> DEFINE c == op[f].batch.count
               z == op[f].batch.size
    <3>1. c \in Nat /\ z \in Nat
      BY <2>3
    <3>2. commit' = [commit EXCEPT !.n = @ + 1, !.count = @ + c, !.size = @ + z]
      BY <2>4, SMTT(30)
    <3> HIDE DEF c, z
    <3>3. commit' = [n |-> commit.n + 1, first |-> commit.first, count |-> commit.count + c,
                     size |-> commit.size + z, log |-> commit.log, inserted |-> commit.inserted]
      BY <1>3, <3>1, <3>2, CommitGrows, Zenon
    <3> QED BY <3>1, <3>3, <1>31
  <2>8. /\ commit.log = log /\ commit.first = last_sequence + 1
        /\ \A i \in 1..Len(wal) : LastOf(wal[i]) <= last_sequence
    BY <1>4, <2>1 DEF Committing
  <2> QED BY <1>3, <1>5, <1>6, <1>7, <2>1, <2>4, <2>5, <2>6, <2>7, <2>8, Zenon
<1>10. CASE BeginCommit(w)
  <2>1. /\ pc[w] = "group" /\ pc' = [pc EXCEPT ![w] = "append"]
        /\ UNCHANGED <<op, result, queueVars, asleep, memoryVars, diskVars, treeVars,
                       sticky_error, bgVars, engine, acked, started, seeks, spurious>>
    BY <1>10 DEF BeginCommit
  <2> QED BY <1>3, <1>4, <1>5, <1>6, <1>7, <2>1, Zenon DEF Committing
<1>11. CASE AppendRecord(w)
  <2>1. /\ pc[w] = "append" /\ wal' \in {wal, Append(wal, Record)}
        /\ \E q \in {"sync", "insert", "failed", "threw"} : pc' = [pc EXCEPT ![w] = q]
        /\ UNCHANGED <<op, result, queueVars, asleep, memoryVars, durable, tables, log_number,
                       treeVars, sticky_error, bgVars, engine, acked, started, seeks, spurious>>
    BY <1>11 DEF AppendRecord
  <2>2. PICK q \in {"sync", "insert", "failed", "threw"} : pc' = [pc EXCEPT ![w] = q]
    BY <2>1, Zenon
  <2>3. /\ commit.n \in 1..Len(writers) /\ commit.log = log /\ commit.first = last_sequence + 1
        /\ \A i \in 1..Len(wal) : LastOf(wal[i]) <= last_sequence
    BY <1>4, <2>1 DEF Committing
  <2>4. Record' = Record
    BY <2>1 DEF Record
  <2>5. CASE wal' = wal
    BY <1>3, <1>5, <1>6, <1>7, <2>1, <2>2, <2>3, <2>5, Zenon
  <2>6. CASE wal' = Append(wal, Record)
    <3>1. /\ wal' \in Seq([log : Nat, first : Nat, count : Nat]) /\ Len(wal') = Len(wal) + 1
          /\ wal'[Len(wal) + 1] = Record /\ \A i \in 1..Len(wal) : wal'[i] = wal[i]
          /\ DOMAIN wal' = 1..(Len(wal) + 1) /\ DOMAIN wal = 1..Len(wal)
      BY <1>3, <2>6
    <3>2. Record.first = last_sequence + 1
      BY <2>3 DEF Record
    <3>3. \A i \in 1..Len(wal) : Interval(wal[i]) \cap Interval(Record) = {}
      <4> TAKE i \in 1..Len(wal)
      <4>1. wal[i].first \in Nat /\ wal[i].count \in Nat /\ Record.count \in Nat
        BY <1>31, <1>32, <1>33
      <4>2. wal[i].first + wal[i].count - 1 <= last_sequence
        BY <2>3 DEF LastOf
      <4> QED BY <1>34, <3>2, <4>1, <4>2 DEF Interval
    <3>4. NoSequenceReuse'
      <4> SUFFICES ASSUME NEW i \in 1..(Len(wal) + 1), NEW j \in 1..(Len(wal) + 1), i # j
                   PROVE  Interval(wal'[i]) \cap Interval(wal'[j]) = {}
        BY <3>1, Zenon DEF NoSequenceReuse, Interval
      <4>1. CASE i \in 1..Len(wal) /\ j \in 1..Len(wal)
        BY <3>1, <4>1, Zenon DEF NoSequenceReuse, Interval
      <4>2. CASE i = Len(wal) + 1
        <5>1. j \in 1..Len(wal)
          BY <1>3, <4>2
        <5> QED BY <3>1, <3>3, <4>2, <5>1
      <4>3. CASE j = Len(wal) + 1
        <5>1. i \in 1..Len(wal)
          BY <1>3, <4>3
        <5> QED BY <3>1, <3>3, <4>3, <5>1
      <4> QED BY <1>34, <4>1, <4>2, <4>3
    <3>5. \A i \in 1..Len(wal') :
             \/ LastOf(wal'[i]) <= last_sequence
             \/ q \notin {"group", "append"} /\ i = Len(wal') /\ wal'[i] = Record'
      <4> TAKE i \in 1..Len(wal')
      <4>1. CASE i \in 1..Len(wal)
        BY <2>3, <3>1, <4>1
      <4>2. CASE i = Len(wal')
        BY <2>4, <3>1, <4>2, SMTT(30)
      <4> QED BY <1>34, <3>1, <4>1, <4>2
    <3> QED BY <1>3, <1>5, <1>7, <2>1, <2>2, <2>3, <3>1, <3>4, <3>5, Zenon
  <2> QED BY <2>1, <2>5, <2>6
<1>12. CASE SyncLog(w)
  <2>1. /\ pc[w] = "sync" /\ durable' \subseteq durable \cup DOMAIN wal
        /\ \E q \in {"insert", "failed"} : pc' = [pc EXCEPT ![w] = q]
        /\ UNCHANGED <<op, result, queueVars, asleep, memoryVars, wal, tables, log_number,
                       treeVars, sticky_error, bgVars, engine, acked, started, seeks, spurious>>
    BY <1>12, Zenon DEF SyncLog
  <2>2. PICK q \in {"insert", "failed"} : pc' = [pc EXCEPT ![w] = q]
    BY <2>1, Zenon
  <2>3. durable' \subseteq Nat
    <3>1. DOMAIN wal \subseteq Nat
      BY <1>3, SeqDomain, Zenon
    <3> QED BY <1>7, <2>1, <3>1
  <2>4. Record' = Record
    BY <2>1 DEF Record
  <2> QED BY <1>3, <1>4, <1>5, <1>6, <1>7, <2>1, <2>2, <2>3, <2>4, Zenon
<1>13. CASE InsertEntry(w)
  <2>1. /\ pc[w] = "insert" /\ (pc' = pc \/ pc' = [pc EXCEPT ![w] = "threw"])
        /\ commit' = commit \/ commit' = [commit EXCEPT !.inserted = @ + 1]
        /\ UNCHANGED <<op, result, writers, room, share, flushing, asleep, log, last_sequence,
                       next_file, diskVars, treeVars, sticky_error, bgVars, engine, acked, started,
                       seeks, spurious>>
    BY <1>13 DEF InsertEntry
  <2>2. PICK q \in {"insert", "threw"} : pc' = [pc EXCEPT ![w] = q]
    BY <1>0, <2>1
  <2>3. /\ commit' \in [n : Nat, first : Nat, count : Nat, size : Nat, log : Nat, inserted : Nat]
        /\ commit'.n = commit.n /\ commit'.first = commit.first /\ commit'.count = commit.count
        /\ commit'.log = commit.log
    <3>1. CASE commit' = commit
      BY <1>3, <3>1
    <3>2. CASE commit' = [commit EXCEPT !.inserted = @ + 1]
      <4>1. commit' = [n |-> commit.n, first |-> commit.first, count |-> commit.count,
                       size |-> commit.size, log |-> commit.log, inserted |-> commit.inserted + 1]
        BY <1>3, <3>2, CommitGrows, Zenon
      <4> QED BY <1>31, <4>1, SMTT(30)
    <3> QED BY <2>1, <3>1, <3>2
  <2>4. Record' = Record
    BY <2>3 DEF Record
  <2>5. mem' \subseteq Nat /\ imm' \in [log : Nat, entries : SUBSET Nat]
    <3>1. commit.first + commit.inserted \in Nat
      BY <1>3
    <3>2. \/ mem' = mem /\ imm' = imm
          \/ mem' = mem \cup {commit.first + commit.inserted} /\ imm' = imm
          \/ mem' = mem /\ imm' = [imm EXCEPT !.entries = @ \cup {commit.first + commit.inserted}]
      BY <1>13 DEF InsertEntry
    <3> QED BY <1>7, <3>1, <3>2
  <2> QED BY <1>3, <1>4, <1>5, <1>6, <1>7, <2>1, <2>2, <2>3, <2>4, <2>5, Zenon
\* The group leaves the queue.
<1>14. ASSUME NEW n \in 1..Len(writers), NEW r \in Results, NEW f \in Results, f # "pending",
              Complete(n, r, f), pc' = [pc EXCEPT ![w] = "idle"], commit' = NoCommit,
              asleep' \subseteq asleep, last_sequence' \in Nat, sticky_error' \in BOOLEAN,
              acked' \subseteq [first : Nat, count : Nat, sync : BOOLEAN],
              ~sticky_error' => \A i \in 1..Len(wal) : LastOf(wal[i]) <= last_sequence',
              UNCHANGED <<op, room, share, flushing, log, mem, imm, next_file, diskVars, treeVars,
                          bgVars, engine, started, seeks, spurious>>
       PROVE  IInv'
  <2>1. /\ QueueOK' /\ LeaderIsFront' /\ writers' \in Seq(Writer)
        /\ result' \in [Writer -> Results] /\ pc' \in [Writer -> PCs]
    <3>1. "idle" \in PCs \ (Leading \cup {"turn"})
      BY DEF PCs, Leading
    <3> QED BY <1>0, <1>14, <3>1, FrontLeaves, Zenon
  <2>2. \A v \in Writer : pc'[v] \notin Committing
    BY <1>0, <1>1, <1>14 DEF Committing
  <2>3. CommitOK' /\ WalOK' /\ NoSequenceReuse'
    BY <1>6, <1>14, <2>2 DEF CommitOK, WalOK, LastOf
  <2>4. CallerTypes' /\ QueueTypes'
    BY <1>14, <2>1, Zenon DEF CallerTypes, QueueTypes, NoCommit
  <2>5. MemoryTypes' /\ DiskTypes' /\ BackgroundTypes' /\ CompactionOK'
    BY <1>14 DEF MemoryTypes, DiskTypes, BackgroundTypes, CompactionOK
  <2> QED BY <2>1, <2>3, <2>4, <2>5
<1>15. /\ \A n, S : Woken(n, S) \subseteq S
       /\ NotifyAll \subseteq asleep
       /\ {"ok", "error", "thrown", "aborted"} \subseteq Results
       /\ sticky_error \in BOOLEAN /\ acked \subseteq [first : Nat, count : Nat, sync : BOOLEAN]
  BY DEF Woken, NotifyAll, Results, BackgroundTypes, QueueTypes
<1>16. CASE BuildThrows(w)
  <2>1. \A i \in 1..Len(wal) : LastOf(wal[i]) <= last_sequence
    BY <1>4, <1>16 DEF BuildThrows, Committing
  <2> QED BY <1>2, <1>3, <1>14, <1>15, <1>16, <2>1 DEF BuildThrows, ReturnAlone
<1>17. CASE Publish(w)
  <2>1. /\ pc[w] = "insert" /\ last_sequence' = commit.first + commit.count - 1
        /\ Complete(commit.n, "ok", "ok") /\ asleep' = Woken(commit.n, asleep)
        /\ pc' = [pc EXCEPT ![w] = "idle"] /\ commit' = NoCommit
        /\ acked' = acked \cup {share[writers[i]] : i \in 1..commit.n}
        /\ UNCHANGED <<op, room, share, flushing, log, mem, imm, next_file, diskVars, treeVars,
                       sticky_error, bgVars, engine, started, seeks, spurious>>
    BY <1>17, SMTT(30) DEF Publish
  <2>2. /\ commit.n \in 1..Len(writers) /\ commit.first = last_sequence + 1
        /\ \A i \in 1..Len(wal) : LastOf(wal[i]) <= last_sequence \/ wal[i] = Record
    BY <1>4, <2>1 DEF Committing
  <2>3. commit.count \in Nat /\ last_sequence' = last_sequence + commit.count
        /\ LastOf(Record) = last_sequence'
    <3>1. last_sequence' = commit.first + commit.count - 1 /\ commit.first = last_sequence + 1
      BY <2>1, <2>2, Zenon
    <3> QED BY <1>31, <1>32, <1>34, <3>1, SMTT(30) DEF LastOf
  <2>4. \A i \in 1..Len(wal) : LastOf(wal[i]) <= last_sequence'
    <3> TAKE i \in 1..Len(wal)
    <3>1. wal[i].first \in Nat /\ wal[i].count \in Nat
      BY <1>33
    <3>2. LastOf(wal[i]) <= last_sequence \/ wal[i] = Record
      BY <2>2
    <3>3. CASE LastOf(wal[i]) <= last_sequence
      BY <1>34, <2>3, <3>1, <3>3, SMTT(30) DEF LastOf
    <3>4. CASE wal[i] = Record
      BY <1>34, <2>3, <3>4
    <3> QED BY <3>2, <3>3, <3>4
  <2>5. acked' \subseteq [first : Nat, count : Nat, sync : BOOLEAN]
    <3>1. \A i \in 1..commit.n : writers[i] \in Writer
      BY <1>2, <2>2, MemberOfSeq
    <3> QED BY <1>7, <1>15, <2>1, <3>1
  <2>6. last_sequence' \in Nat
    BY <1>34, <2>3
  <2> QED BY <1>14, <1>15, <2>1, <2>2, <2>4, <2>5, <2>6, SMTT(30)
<1>18. CASE CommitFails(w)
  <2>1. /\ pc[w] \in {"failed", "threw"} /\ sticky_error' = TRUE
        /\ Complete(commit.n, "error", "error") \/ Complete(commit.n, "thrown", "aborted")
        /\ asleep' = Woken(commit.n, NotifyAll) /\ pc' = [pc EXCEPT ![w] = "idle"]
        /\ commit' = NoCommit
        /\ UNCHANGED <<op, room, share, flushing, memoryVars, diskVars, treeVars, bgVars, engine,
                       acked, started, seeks, spurious>>
    BY <1>18 DEF CommitFails
  <2>2. commit.n \in 1..Len(writers)
    BY <1>4, <2>1 DEF Committing
  <2> QED BY <1>3, <1>14, <1>15, <2>1, <2>2, SMTT(30)
<1> QED
  BY <1>8, <1>9, <1>10, <1>11, <1>12, <1>13, <1>16, <1>17, <1>18, SMTT(30) DEF GroupStep

-----------------------------------------------------------------------------
(* The invariant, and what follows from it.                                  *)

\* The engine that Recover leaves has the invariant.
LEMMA InitIInv == Init => IInv
<1> SUFFICES ASSUME Init PROVE IInv
  OBVIOUS
<1>1. CallerTypes
  BY DEF Init, CallerTypes, NoBatch, PCs, Results
<1>2. QueueTypes
  BY DEF Init, QueueTypes, NoCommit
<1>3. MemoryTypes /\ DiskTypes
  BY BoundAssumption DEF Init, MemoryTypes, DiskTypes, NoImm
<1>4. BackgroundTypes
  <2>1. NeedsCompaction(level0, deeper) \in BOOLEAN
    BY Zenon DEF NeedsCompaction
  <2>2. background_scheduled \in BOOLEAN /\ bg \in {"none", "scheduled"}
    BY <2>1, Zenon DEF Init
  <2> QED
    BY <2>2, Zenon DEF Init, BackgroundTypes
<1>5. CompactionOK /\ QueueOK /\ LeaderIsFront /\ CommitOK /\ WalOK /\ NoSequenceReuse
  BY DEF Init, CompactionOK, QueueOK, LeaderIsFront, CommitOK, WalOK, NoSequenceReuse, Leading,
         Committing
<1> QED
  BY <1>1, <1>2, <1>3, <1>4, <1>5 DEF IInv, TypeOK

\* Every step of the write path keeps the invariant.
LEMMA NextKeeps == IInv /\ [Next]_vars => IInv'
<1> SUFFICES ASSUME IInv, [Next]_vars PROVE IInv'
  OBVIOUS
<1>1. CASE UNCHANGED vars
  <2>1. QueueInv'
    BY <1>1, QueueFrame DEF vars, IInv, QueueInv
  <2>2. CallerTypes' /\ QueueTypes' /\ MemoryTypes' /\ DiskTypes'
    BY <1>1, Zenon DEF vars, IInv, TypeOK, CallerTypes, QueueTypes, MemoryTypes, DiskTypes
  <2>3. BackgroundTypes' /\ CompactionOK'
    BY <1>1 DEF vars, IInv, TypeOK, BackgroundTypes, CompactionOK
  <2> QED BY <2>1, <2>2, <2>3 DEF IInv, TypeOK, QueueInv
<1>2. ASSUME NEW w \in Writer \cup {Closer}, SpuriousWakeup(w) PROVE IInv'
  <2>1. QueueInv'
    BY <1>2, QueueFrame DEF SpuriousWakeup, IInv, QueueInv
  <2>2. CallerTypes' /\ QueueTypes' /\ MemoryTypes' /\ DiskTypes'
    BY <1>2, SMTT(30) DEF SpuriousWakeup, IInv, TypeOK, CallerTypes, QueueTypes, MemoryTypes, DiskTypes
  <2>3. BackgroundTypes' /\ CompactionOK'
    BY <1>2 DEF SpuriousWakeup, IInv, TypeOK, BackgroundTypes, CompactionOK
  <2> QED BY <2>1, <2>2, <2>3 DEF IInv, TypeOK, QueueInv
<1>3. ASSUME NEW w \in Writer, (\E call \in QueuedCalls : StartWrite(w, call)) \/ StartWait(w)
      PROVE  IInv'
  BY <1>3, CallsKeep
<1>4. ASSUME NEW w \in Writer, WriterStep(w) PROVE IInv'
  BY <1>4, CallsKeep, RoomKeeps, GroupKeeps DEF WriterStep, RoomStep, GroupStep
<1>5. CASE BackgroundStep \/ ChargeSeek \/ Close \/ CloseReturns
  BY <1>5, BackgroundKeeps
<1> QED
  BY <1>1, <1>2, <1>3, <1>4, <1>5 DEF Next, Closed

\* The invariant holds whatever the callers, the background task and the disk do.
THEOREM Invariance == Spec => []IInv
<1>1. Init => IInv
  BY InitIInv
<1>2. IInv /\ [Next]_vars => IInv'
  BY NextKeeps
<1> QED
  BY <1>1, <1>2, PTL DEF Spec

\* Every variable keeps its type whatever the callers, the readers, the background
\* task and the file system do.
THEOREM TypeCorrect == Spec => []TypeOK
<1>1. IInv => TypeOK
  BY DEF IInv
<1> QED
  BY <1>1, Invariance, PTL

\* Only the front of the queue runs MakeRoomForWrite and commits (write_path.h:45).
THEOREM OneLeader == Spec => []LeaderIsFront
<1>1. IInv => LeaderIsFront
  BY DEF IInv
<1> QED
  BY <1>1, Invariance, PTL

\* The log and the memtable captured before CommitWrite gives up the mutex stay the
\* current ones until it has it again (database_write.cc:111).
THEOREM CommitLog == Spec => []CommitKeepsItsLog
<1>1. IInv => CommitKeepsItsLog
  BY DEF IInv, CommitOK, CommitKeepsItsLog
<1> QED
  BY <1>1, Invariance, PTL

\* No two records of the logs share a sequence number, whatever fails: a failed
\* commit leaves the sequence where it was, but nothing is appended after it.
THEOREM SequencesUnique == Spec => []NoSequenceReuse
<1>1. IInv => NoSequenceReuse
  BY DEF IInv
<1> QED
  BY <1>1, Invariance, PTL

=============================================================================
