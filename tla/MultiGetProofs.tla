--------------------------- MODULE MultiGetProofs ---------------------------
(* A batch is whole for any keys, any size and any number of workers: the    *)
(* proof of MultiGet.BatchWhole.                                             *)
EXTENDS MultiGet, TLAPS

\* ReadBatch returns at once for no keys, and starts at least the caller.
Sizes == Size \in Nat /\ Concurrency \in Nat \ {0}

TypeOK ==
  /\ writes \in Seq(Key) /\ floor \in Nat /\ snapshot \in Nat
  /\ keys \in [Index -> Key]
  /\ started \in 0 .. Concurrency - 1
  /\ work \in [Worker -> [at : {"none", "check", "read", "done"}, index : Nat \ {0}]]
  /\ results = [i \in Index |-> results[i]]
  /\ outcome \in {"begin", "running", "returned", "thrown"}

\* What the snapshot sees has not been dropped while the batch runs.
SnapshotHeld ==
  /\ snapshot <= Len(writes)
  /\ outcome = "begin" => floor <= Len(writes) /\ ~registered
  /\ outcome = "running" => floor <= snapshot /\ registered

Exact(i) == results[i] = [found |-> TRUE, value |-> ValueAt(keys[i], snapshot)]

\* The keys that worker w still has before it.
Ahead(w, i) == \E n \in Nat : i = work[w].index + n * Concurrency

\* Every key is read, or before some worker.
NothingSkipped ==
  \A i \in Index : (outcome # "begin" /\ Exact(i)) \/ \E w \in Worker : Ahead(w, i)

\* Workers stop early only when they are told to, and only a failure tells them.
Finishes(w) ==
  /\ work[w].at = "done" => stopped \/ work[w].index > Size
  /\ work[w].at = "read" => work[w].index <= Size
  /\ work[w].at \in {"check", "read"} => outcome = "running"
  /\ w > started => work[w].at = "none"
  /\ w = 0 /\ work[w].at # "none" => started = Concurrency - 1

WorkersFinish == \A w \in Worker : Finishes(w)

StoppedByFailure == stopped <=> startup \/ exceptions # {}

CallerStays == startup => work[0].at = "none"

IInv ==
  /\ TypeOK /\ SnapshotHeld /\ NothingSkipped /\ WorkersFinish
  /\ StoppedByFailure /\ CallerStays /\ BatchWhole

\* Writes behind a sequence do not change what it sees.
LEMMA ValueStays ==
  ASSUME NEW k, NEW x \in Key, writes \in Seq(Key), NEW s \in Nat, s <= Len(writes),
         writes' = Append(writes, x)
  PROVE  ValueAt(k, s)' = ValueAt(k, s)
<1>1. {i \in 1 .. s : writes'[i] = k} = {i \in 1 .. s : writes[i] = k}
  OBVIOUS
<1> QED
  BY <1>1, Zenon DEF ValueAt

\* Every key is before one of the workers in the beginning.
LEMMA Partition ==
  ASSUME Sizes, NEW i \in Index
  PROVE  \E w \in Worker : \E n \in Nat : i = w + 1 + n * Concurrency
<1> DEFINE w == (i - 1) % Concurrency
           n == (i - 1) \div Concurrency
<1>1. w \in Worker /\ n \in Nat /\ i - 1 = n * Concurrency + w
  BY DEF Sizes, Index, Worker
<1>2. i = w + 1 + n * Concurrency
  BY <1>1 DEF Sizes, Index, Worker
<1> HIDE DEF w, n
<1> QED
  BY <1>1, <1>2

\* A key behind the next one of a worker is still before it when it has read that one.
LEMMA NextAhead ==
  ASSUME Sizes, NEW j \in Nat, NEW n \in Nat, NEW i \in Nat,
         i = j + n * Concurrency, i # j
  PROVE  \E m \in Nat : i = (j + Concurrency) + m * Concurrency
<1>1. n # 0
  BY DEF Sizes
<1>2. n - 1 \in Nat /\ n * Concurrency = (n - 1) * Concurrency + Concurrency
  BY <1>1 DEF Sizes
<1>3. i = (j + Concurrency) + (n - 1) * Concurrency
  BY <1>2 DEF Sizes
<1> QED
  BY <1>2, <1>3

\* Nothing ahead of a worker that is past the end is a key of the batch.
LEMMA PastTheEnd ==
  ASSUME Sizes, NEW j \in Nat, j > Size, NEW n \in Nat
  PROVE  j + n * Concurrency \notin Index
<1>1. n * Concurrency >= 0
  BY DEF Sizes
<1> QED
  BY <1>1 DEF Sizes, Index

\* A step that reads nothing skips nothing.
LEMMA StillAhead ==
  ASSUME NothingSkipped, UNCHANGED <<writes, keys, snapshot, results, outcome>>,
         \A w \in Worker : work'[w].index = work[w].index
  PROVE  NothingSkipped'
<1> SUFFICES ASSUME NEW i \in Index
             PROVE  (outcome' # "begin" /\ Exact(i)') \/ \E w \in Worker : Ahead(w, i)'
  BY Zenon DEF NothingSkipped, Index, Worker
<1>1. Exact(i)' <=> Exact(i)
  BY Zenon DEF Exact, ValueAt
<1>2. ASSUME NEW w \in Worker, Ahead(w, i) PROVE Ahead(w, i)'
  BY <1>2, Zenon DEF Ahead
<1> QED
  BY <1>1, <1>2, Zenon DEF NothingSkipped

-----------------------------------------------------------------------------
\* All keys are ahead of some worker in the beginning.
LEMMA InitHolds == Sizes /\ Init => IInv
<1> SUFFICES ASSUME Sizes, Init PROVE IInv
  OBVIOUS
<1> USE DEF Sizes
<1>1. TypeOK
  BY DEF Init, TypeOK, Worker, Index
<1>2. SnapshotHeld
  BY DEF Init, SnapshotHeld
<1>3. NothingSkipped
  <2> SUFFICES ASSUME NEW i \in Index PROVE \E w \in Worker : Ahead(w, i)
    BY DEF NothingSkipped
  <2>1. PICK w \in Worker : \E n \in Nat : i = w + 1 + n * Concurrency
    BY Partition
  <2>2. work[w].index = w + 1
    BY DEF Init
  <2> QED
    BY <2>1, <2>2 DEF Ahead
<1>4. WorkersFinish /\ CallerStays
  BY DEF Init, WorkersFinish, Finishes, CallerStays, Worker
<1>5. StoppedByFailure
  BY Zenon DEF Init, StoppedByFailure
<1>6. BatchWhole
  BY DEF Init, BatchWhole, BatchExact, FailuresSurface, JoinedBeforeEnd
<1> QED
  BY <1>1, <1>2, <1>3, <1>4, <1>5, <1>6 DEF IInv

\* The snapshot is taken and registered in one step.
LEMMA BeginKeeps == Sizes /\ IInv /\ BeginBatch => IInv'
<1> SUFFICES ASSUME Sizes, IInv, BeginBatch PROVE IInv'
  OBVIOUS
<1> USE DEF Sizes, IInv
<1>0. /\ outcome = "begin" /\ outcome' = "running" /\ snapshot' = Len(writes) /\ registered'
      /\ UNCHANGED <<writes, floor, keys, started, work, results, stopped, exceptions, startup>>
  BY Zenon DEF BeginBatch, Registers, engine
<1>1. TypeOK'
  BY <1>0 DEF TypeOK, Worker, Index
<1>2. SnapshotHeld'
  BY <1>0 DEF TypeOK, SnapshotHeld
<1>3. NothingSkipped'
  BY <1>0 DEF NothingSkipped, Ahead, Index, Worker
<1>4. WorkersFinish' /\ CallerStays'
  BY <1>0 DEF WorkersFinish, Finishes, CallerStays, Worker
<1>5. StoppedByFailure'
  BY <1>0, Zenon DEF StoppedByFailure
<1>6. BatchWhole'
  BY <1>0 DEF BatchWhole, BatchExact, FailuresSurface, JoinedBeforeEnd
<1> QED
  BY <1>1, <1>2, <1>3, <1>4, <1>5, <1>6

\* Workers are started one after the other, and the caller comes last.
LEMMA StartKeeps == Sizes /\ IInv /\ (StartWorker \/ RunCaller) => IInv'
<1> SUFFICES ASSUME Sizes, IInv, StartWorker \/ RunCaller PROVE IInv'
  OBVIOUS
<1> USE DEF Sizes, IInv
<1>0. /\ outcome = "running" /\ ~startup
      /\ UNCHANGED <<writes, floor, keys, snapshot, registered, results, stopped, exceptions,
                     startup, outcome>>
  BY Zenon DEF StartWorker, RunCaller, engine
<1>1. PICK u \in Worker :
        /\ work' = [work EXCEPT ![u].at = "check"]
        /\ \/ u = started + 1 /\ started' = started + 1 /\ started' <= Concurrency - 1
           \/ u = 0 /\ started' = started /\ started = Concurrency - 1
  <2>1. CASE StartWorker
    <3>1. started + 1 \in Worker /\ started + 1 <= Concurrency - 1
      BY <2>1 DEF StartWorker, TypeOK, Worker
    <3>2. started' = started + 1 /\ work' = [work EXCEPT ![started + 1].at = "check"]
      BY <2>1 DEF StartWorker
    <3> QED
      BY <3>1, <3>2, Zenon
  <2>2. CASE RunCaller
    <3>1. 0 \in Worker
      BY DEF Worker
    <3>2. /\ started' = started /\ started = Concurrency - 1
          /\ work' = [work EXCEPT ![0].at = "check"]
      BY <2>2, Zenon DEF RunCaller
    <3> QED
      BY <3>1, <3>2, Zenon
  <2> QED
    BY <2>1, <2>2
<1>2. /\ work' \in [Worker -> [at : {"none", "check", "read", "done"}, index : Nat \ {0}]]
      /\ \A w \in Worker : work'[w].index = work[w].index
      /\ \A w \in Worker : w # u => work'[w] = work[w]
      /\ work'[u].at = "check"
  BY <1>1 DEF TypeOK
<1>3. TypeOK'
  BY <1>0, <1>1, <1>2 DEF TypeOK, Worker, Index
<1>4. SnapshotHeld'
  BY <1>0 DEF TypeOK, SnapshotHeld
<1>5. NothingSkipped'
  BY <1>0, <1>2, StillAhead, Zenon
<1>6. WorkersFinish'
  <2>1. ASSUME NEW w \in Worker, w # u PROVE Finishes(w)'
    <3>1. Finishes(w) /\ w \in Nat /\ started \in Nat /\ started <= started'
      BY <1>1 DEF WorkersFinish, TypeOK, Worker
    <3>2. w > started' => w > started
      BY <1>1, <3>1
    <3> QED
      BY <1>0, <1>1, <1>2, <2>1, <3>1, <3>2 DEF Finishes, TypeOK
  <2>2. Finishes(u)'
    BY <1>0, <1>1, <1>2 DEF Finishes, Worker, TypeOK
  <2> QED
    BY <2>1, <2>2, Zenon DEF WorkersFinish, Worker
<1>7. StoppedByFailure' /\ CallerStays'
  BY <1>0, Zenon DEF StoppedByFailure, CallerStays
<1>8. BatchWhole'
  BY <1>0 DEF BatchWhole, BatchExact, FailuresSurface, JoinedBeforeEnd
<1> QED
  BY <1>3, <1>4, <1>5, <1>6, <1>7, <1>8

\* A worker that cannot be started stops the others, before the caller reads.
LEMMA StartFailsKeeps == Sizes /\ IInv /\ StartFails => IInv'
<1> SUFFICES ASSUME Sizes, IInv, StartFails PROVE IInv'
  OBVIOUS
<1> USE DEF Sizes, IInv
<1>0. /\ outcome = "running" /\ startup' /\ stopped' /\ started < Concurrency - 1
      /\ UNCHANGED <<writes, floor, keys, snapshot, registered, started, work, results,
                     exceptions, outcome>>
  BY Zenon DEF StartFails, engine
<1>1. TypeOK' /\ SnapshotHeld'
  BY <1>0 DEF TypeOK, SnapshotHeld, Worker, Index
<1>2. NothingSkipped'
  BY <1>0, StillAhead, Zenon
<1>3. WorkersFinish'
  BY <1>0 DEF WorkersFinish, Finishes, Worker, TypeOK
<1>4. work[0].at = "none"
  BY <1>0 DEF WorkersFinish, Finishes, Worker, TypeOK
<1>5. StoppedByFailure' /\ CallerStays'
  BY <1>0, <1>4, Zenon DEF StoppedByFailure, CallerStays
<1>6. BatchWhole'
  BY <1>0 DEF BatchWhole, BatchExact, FailuresSurface, JoinedBeforeEnd
<1> QED
  BY <1>1, <1>2, <1>3, <1>5, <1>6

\* A worker looks whether it is to go on.
LEMMA CheckKeeps ==
  ASSUME Sizes, IInv, NEW u \in Worker, CheckStopped(u)
  PROVE  IInv'
<1> USE DEF Sizes, IInv
<1>0. /\ work[u].at = "check"
      /\ UNCHANGED <<writes, floor, keys, snapshot, registered, started, results, stopped,
                     exceptions, startup, outcome>>
  BY Zenon DEF CheckStopped, engine
<1>1. /\ work' \in [Worker -> [at : {"none", "check", "read", "done"}, index : Nat \ {0}]]
      /\ \A w \in Worker : work'[w].index = work[w].index
      /\ \A w \in Worker : w # u => work'[w] = work[w]
      /\ work'[u].at \in {"done", "read"}
  BY DEF CheckStopped, TypeOK
<1>2. /\ work'[u].at = "done" => stopped \/ work[u].index > Size
      /\ work'[u].at = "read" => ~(work[u].index > Size)
  BY DEF CheckStopped, TypeOK
<1>3. TypeOK' /\ SnapshotHeld'
  BY <1>0, <1>1 DEF TypeOK, SnapshotHeld, Worker, Index
<1>4. NothingSkipped'
  BY <1>0, <1>1, StillAhead, Zenon
<1>5. WorkersFinish'
  <2>1. ASSUME NEW w \in Worker, w # u PROVE Finishes(w)'
    BY <1>0, <1>1, <2>1, Zenon DEF WorkersFinish, Finishes
  <2>2. Finishes(u)
    BY Zenon DEF WorkersFinish
  <2>3. Finishes(u)'
    BY <1>0, <1>1, <1>2, <2>2 DEF Finishes, Worker, TypeOK
  <2> QED
    BY <2>1, <2>3, Zenon DEF WorkersFinish, Worker
<1>6. work[0].at = "none" => work'[0].at = "none"
  <2>1. 0 \in Worker
    BY DEF Worker
  <2>2. work[0].at = "none" => 0 # u
    BY <1>0
  <2> QED
    BY <1>1, <2>1, <2>2, Zenon
<1>7. StoppedByFailure' /\ CallerStays'
  BY <1>0, <1>6, Zenon DEF StoppedByFailure, CallerStays
<1>8. outcome = "running"
  BY <1>0 DEF WorkersFinish, Finishes
<1>9. BatchWhole'
  BY <1>0, <1>8 DEF BatchWhole, BatchExact, FailuresSurface, JoinedBeforeEnd
<1> QED
  BY <1>3, <1>4, <1>5, <1>7, <1>9

\* A read puts the value of the snapshot in its place; the worker moves by a stride.
LEMMA ReadKeeps ==
  ASSUME Sizes, IInv, NEW u \in Worker, ReadKey(u)
  PROVE  IInv'
<1> USE DEF Sizes, IInv
<1> DEFINE j == work[u].index
<1>0. /\ work[u].at = "read"
      /\ results' = [results EXCEPT ![j] = ReadAt(keys[j], snapshot)]
      /\ work' = [work EXCEPT ![u] = [at |-> "check", index |-> @.index + Concurrency]]
      /\ UNCHANGED <<writes, floor, keys, snapshot, registered, started, stopped,
                     exceptions, startup, outcome>>
  BY Zenon DEF ReadKey, engine, Stride
<1>1. j \in Index /\ outcome = "running"
  BY <1>0 DEF WorkersFinish, Finishes, TypeOK, Index
<1>2. /\ work' \in [Worker -> [at : {"none", "check", "read", "done"}, index : Nat \ {0}]]
      /\ \A w \in Worker : w # u => work'[w] = work[w]
      /\ work'[u].at = "check" /\ work'[u].index = j + Concurrency
  BY <1>0 DEF TypeOK
<1>3. /\ results' = [i \in Index |-> results'[i]]
      /\ \A i \in Index : i # j => results'[i] = results[i]
      /\ results'[j] = ReadAt(keys[j], snapshot)
  BY <1>0, <1>1 DEF TypeOK
<1>4. ReadAt(keys[j], snapshot) = [found |-> TRUE, value |-> ValueAt(keys[j], snapshot)]
  BY <1>1 DEF ReadAt, SnapshotHeld, TypeOK
<1>5. TypeOK' /\ SnapshotHeld'
  BY <1>0, <1>2, <1>3 DEF TypeOK, SnapshotHeld, Worker, Index
<1>6. NothingSkipped'
  <2> SUFFICES ASSUME NEW i \in Index
               PROVE  (outcome' # "begin" /\ Exact(i)') \/ \E w \in Worker : Ahead(w, i)'
    BY Zenon DEF NothingSkipped, Index, Worker
  <2>0. outcome' # "begin"
    BY <1>0, <1>1
  <2>1. CASE i = j
    BY <1>0, <1>3, <1>4, <2>0, <2>1, Zenon DEF Exact, ValueAt
  <2>2. CASE i # j /\ Exact(i)
    <3>1. Exact(i)'
      BY <1>0, <1>3, <2>2, Zenon DEF Exact, ValueAt
    <3> QED
      BY <2>0, <3>1, Zenon
  <2>3. CASE i # j /\ \E w \in Worker : Ahead(w, i)
    <3>1. PICK w \in Worker, n \in Nat : i = work[w].index + n * Concurrency
      BY <2>3 DEF Ahead
    <3>2. CASE w # u
      <4>1. Ahead(w, i)'
        BY <1>2, <3>1, <3>2, Zenon DEF Ahead
      <4> QED
        BY <4>1, Zenon
    <3>3. CASE w = u
      <4>1. i \in Nat /\ j \in Nat
        BY <1>1 DEF Index
      <4>2. i = j + n * Concurrency
        BY <3>1, <3>3
      <4>3. \E m \in Nat : i = (j + Concurrency) + m * Concurrency
        BY <2>3, <4>1, <4>2, NextAhead
      <4>4. Ahead(u, i)'
        BY <1>2, <4>3, Zenon DEF Ahead
      <4> QED
        BY <4>4, Zenon
    <3> QED
      BY <3>2, <3>3
  <2> QED
    BY <2>1, <2>2, <2>3, Zenon DEF NothingSkipped
<1>7. WorkersFinish'
  <2>1. ASSUME NEW w \in Worker, w # u PROVE Finishes(w)'
    BY <1>0, <1>2, <2>1, Zenon DEF WorkersFinish, Finishes
  <2>2. Finishes(u)
    BY Zenon DEF WorkersFinish
  <2>3. Finishes(u)'
    BY <1>0, <1>1, <1>2, <2>2 DEF Finishes, Worker, TypeOK
  <2> QED
    BY <2>1, <2>3, Zenon DEF WorkersFinish, Worker
<1>8. StoppedByFailure' /\ CallerStays'
  <2>1. 0 \in Worker
    BY DEF Worker
  <2>2. work[0].at = "none" => 0 # u
    BY <1>0
  <2>3. work[0].at = "none" => work'[0].at = "none"
    BY <1>2, <2>1, <2>2, Zenon
  <2> QED
    BY <1>0, <2>3, Zenon DEF StoppedByFailure, CallerStays
<1>9. BatchWhole'
  BY <1>0, <1>1 DEF BatchWhole, BatchExact, FailuresSurface, JoinedBeforeEnd
<1> QED
  BY <1>5, <1>6, <1>7, <1>8, <1>9

\* A read that throws is kept, and stops the others.
LEMMA ThrowKeeps ==
  ASSUME Sizes, IInv, NEW u \in Worker, ReadThrows(u)
  PROVE  IInv'
<1> USE DEF Sizes, IInv
<1>0. /\ work[u].at = "read" /\ exceptions' = exceptions \union {u} /\ stopped'
      /\ work' = [work EXCEPT ![u].at = "done"]
      /\ UNCHANGED <<writes, floor, keys, snapshot, registered, started, results, startup,
                     outcome>>
  BY Zenon DEF ReadThrows, Keeps, engine
<1>1. /\ work' \in [Worker -> [at : {"none", "check", "read", "done"}, index : Nat \ {0}]]
      /\ \A w \in Worker : work'[w].index = work[w].index
      /\ \A w \in Worker : w # u => work'[w] = work[w]
      /\ work'[u].at = "done"
  BY <1>0 DEF TypeOK
<1>2. outcome = "running"
  BY <1>0 DEF WorkersFinish, Finishes
<1>3. TypeOK' /\ SnapshotHeld'
  BY <1>0, <1>1 DEF TypeOK, SnapshotHeld, Worker, Index
<1>4. NothingSkipped'
  BY <1>0, <1>1, StillAhead, Zenon
<1>5. WorkersFinish'
  <2>1. ASSUME NEW w \in Worker, w # u PROVE Finishes(w)'
    BY <1>0, <1>1, <2>1, Zenon DEF WorkersFinish, Finishes
  <2>2. Finishes(u)
    BY Zenon DEF WorkersFinish
  <2>3. Finishes(u)'
    BY <1>0, <1>1, <2>2 DEF Finishes, Worker, TypeOK
  <2> QED
    BY <2>1, <2>3, Zenon DEF WorkersFinish, Worker
<1>6. work[0].at = "none" => work'[0].at = "none"
  <2>1. 0 \in Worker
    BY DEF Worker
  <2>2. work[0].at = "none" => 0 # u
    BY <1>0
  <2> QED
    BY <1>1, <2>1, <2>2, Zenon
<1>7. StoppedByFailure' /\ CallerStays'
  <2>1. exceptions' # {}
    BY <1>0
  <2> QED
    BY <1>0, <1>6, <2>1, Zenon DEF StoppedByFailure, CallerStays
<1>8. BatchWhole'
  BY <1>0, <1>2 DEF BatchWhole, BatchExact, FailuresSurface, JoinedBeforeEnd
<1> QED
  BY <1>3, <1>4, <1>5, <1>7, <1>8

\* The call ends when all have ended; without a failure every key has been read.
LEMMA EndKeeps == Sizes /\ IInv /\ EndBatch => IInv'
<1> SUFFICES ASSUME Sizes, IInv, EndBatch PROVE IInv'
  OBVIOUS
<1> USE DEF Sizes, IInv
<1>0. /\ outcome = "running" /\ Joined /\ outcome' \in {"thrown", "returned"}
      /\ outcome' = "thrown" <=> stopped
      /\ UNCHANGED <<writes, floor, keys, snapshot, started, work, results, stopped,
                     exceptions, startup>>
  BY Zenon DEF EndBatch, StoppedByFailure, engine
<1>1. TypeOK' /\ SnapshotHeld'
  BY <1>0 DEF TypeOK, SnapshotHeld, Worker, Index
<1>2. ASSUME NEW w \in Worker PROVE work[w].at \in {"none", "done"}
  <2>1. CASE w = 0
    <3>1. work[0].at \in {"none", "done"}
      BY <1>0, Zenon DEF Joined, CallerStays
    <3> QED
      BY <2>1, <3>1
  <2>2. CASE w # 0
    <3>1. started \in Nat /\ w \in Nat
      BY DEF TypeOK, Worker
    <3>2. w > started \/ w \in 1 .. started
      BY <2>2, <3>1
    <3>3. w > started => work[w].at = "none"
      BY Zenon DEF WorkersFinish, Finishes
    <3>4. w \in 1 .. started => work[w].at = "done"
      BY <1>0, Zenon DEF Joined
    <3> QED
      BY <3>2, <3>3, <3>4
  <2> QED
    BY <2>1, <2>2
<1>3. WorkersFinish'
  BY <1>0, <1>2 DEF WorkersFinish, Finishes, Worker
<1>4. StoppedByFailure' /\ CallerStays'
  BY <1>0, Zenon DEF StoppedByFailure, CallerStays
<1>5. ASSUME ~stopped, NEW i \in Index PROVE Exact(i)
  <2>1. ~startup /\ work[0].at = "done"
    BY <1>0, <1>5, Zenon DEF StoppedByFailure, Joined
  <2>2. started = Concurrency - 1
    BY <2>1 DEF WorkersFinish, Finishes, Worker
  <2>3. ASSUME NEW w \in Worker PROVE work[w].index > Size
    <3>1. work[w].at = "done"
      BY <1>0, <2>1, <2>2 DEF Joined, Worker
    <3> QED
      BY <1>5, <3>1, Zenon DEF WorkersFinish, Finishes
  <2>4. ASSUME NEW w \in Worker PROVE ~Ahead(w, i)
    <3>1. work[w].index \in Nat
      BY DEF TypeOK
    <3> QED
      BY <2>3, <3>1, PastTheEnd DEF Ahead
  <2> QED
    BY <2>4, Zenon DEF NothingSkipped
<1>6. NothingSkipped'
  <2> SUFFICES ASSUME NEW i \in Index
               PROVE  (outcome' # "begin" /\ Exact(i)') \/ \E w \in Worker : Ahead(w, i)'
    BY Zenon DEF NothingSkipped, Index, Worker
  <2>1. outcome' # "begin"
    BY <1>0
  <2> QED
    BY <1>0, <2>1, Zenon DEF NothingSkipped, Exact, Ahead, ValueAt
<1>7. BatchExact'
  <2>1. ASSUME outcome' = "returned", NEW i \in Index PROVE Exact(i)'
    <3>1. ~stopped
      BY <1>0, <2>1
    <3>2. Exact(i)
      BY <1>5, <3>1
    <3> QED
      BY <1>0, <3>2, Zenon DEF Exact, ValueAt
  <2> QED
    BY <2>1, Zenon DEF BatchExact, Exact, Index
<1>8. FailuresSurface' /\ JoinedBeforeEnd'
  <2>1. outcome' = "returned" => outcome' # "thrown"
    OBVIOUS
  <2> QED
    BY <1>0, <1>2, <2>1, Zenon DEF FailuresSurface, JoinedBeforeEnd, Worker
<1> QED
  BY <1>1, <1>3, <1>4, <1>6, <1>7, <1>8 DEF BatchWhole

\* Writes and compactions beside the batch change nothing that its snapshot sees.
LEMMA EngineKeeps ==
  ASSUME Sizes, IInv, Compact \/ \E k \in Key : Write(k)
  PROVE  IInv'
<1> USE DEF Sizes, IInv
<1>0. UNCHANGED <<keys, snapshot, registered, started, work, results, stopped, exceptions,
                  startup, outcome>>
  BY Zenon DEF Compact, Write
<1>1. /\ writes' \in Seq(Key) /\ floor' \in Nat /\ Len(writes) <= Len(writes')
      /\ outcome = "begin" => floor' <= Len(writes')
      /\ outcome = "running" => floor' <= snapshot
      /\ \A i \in Index : ValueAt(keys[i], snapshot)' = ValueAt(keys[i], snapshot)
  <2>1. CASE Compact
    <3>1. writes' = writes /\ floor' = IF registered THEN snapshot ELSE Len(writes)
      BY <2>1, Zenon DEF Compact
    <3>2. \A i \in Index : ValueAt(keys[i], snapshot)' = ValueAt(keys[i], snapshot)
      BY <1>0, <3>1, Zenon DEF ValueAt
    <3> QED
      BY <3>1, <3>2 DEF TypeOK, SnapshotHeld
  <2>2. CASE \E k \in Key : Write(k)
    <3>1. PICK k \in Key : writes' = Append(writes, k) /\ floor' = floor
      BY <2>2 DEF Write
    <3>2. ASSUME NEW i \in Index
          PROVE  ValueAt(keys[i], snapshot)' = ValueAt(keys[i], snapshot)
      <4>0. PICK x \in Key : x = keys[i]
        BY DEF TypeOK
      <4>1. PICK s \in Nat : s = snapshot /\ s <= Len(writes)
        BY DEF TypeOK, SnapshotHeld
      <4>2. ValueAt(x, s)' = ValueAt(x, s)
        BY <3>1, <4>1, ValueStays DEF TypeOK
      <4> QED
        BY <1>0, <4>0, <4>1, <4>2, Zenon DEF ValueAt
    <3> QED
      BY <3>1, <3>2 DEF TypeOK, SnapshotHeld
  <2> QED
    BY <2>1, <2>2
<1>2. TypeOK' /\ SnapshotHeld'
  BY <1>0, <1>1 DEF TypeOK, SnapshotHeld, Worker, Index
<1>3. \A i \in Index : Exact(i)' <=> Exact(i)
  BY <1>0, <1>1, Zenon DEF Exact
<1>4. NothingSkipped'
  BY <1>0, <1>3, Zenon DEF NothingSkipped, Ahead, Index, Worker
<1>5. WorkersFinish' /\ CallerStays' /\ StoppedByFailure'
  BY <1>0, Zenon DEF WorkersFinish, Finishes, CallerStays, StoppedByFailure, Worker
<1>6. BatchWhole'
  BY <1>0, <1>3, Zenon DEF BatchWhole, BatchExact, FailuresSurface, JoinedBeforeEnd, Exact,
                           Index, Worker
<1> QED
  BY <1>2, <1>4, <1>5, <1>6

\* Every step of the caller, of a worker and of the engine keeps the invariant.
LEMMA StepKeeps == Sizes /\ IInv /\ [Next]_vars => IInv'
<1> SUFFICES ASSUME Sizes, IInv, [Next]_vars PROVE IInv'
  OBVIOUS
<1>1. CASE Caller
  BY <1>1, BeginKeeps, StartKeeps, StartFailsKeeps, EndKeeps, Zenon DEF Caller
<1>2. CASE \E w \in Worker : Working(w)
  BY <1>2, CheckKeeps, ReadKeeps, ThrowKeeps, Zenon DEF Working
<1>3. CASE Compact \/ \E k \in Key : Write(k)
  BY <1>3, EngineKeeps, Zenon
<1>4. CASE UNCHANGED vars
  <2>1. NothingSkipped'
    BY <1>4, StillAhead, Zenon DEF vars, IInv
  <2>2. TypeOK' /\ SnapshotHeld'
    BY <1>4 DEF vars, IInv, TypeOK, SnapshotHeld, Worker, Index
  <2>3. WorkersFinish' /\ CallerStays' /\ StoppedByFailure'
    BY <1>4, Zenon DEF vars, IInv, WorkersFinish, Finishes, CallerStays, StoppedByFailure, Worker
  <2>4. BatchWhole'
    BY <1>4, Zenon DEF vars, IInv, BatchWhole, BatchExact, FailuresSurface, JoinedBeforeEnd,
                       ValueAt, Index, Worker
  <2> QED
    BY <2>1, <2>2, <2>3, <2>4 DEF IInv
<1> QED
  BY <1>1, <1>2, <1>3, <1>4, Zenon DEF Next

\* A batch returns all of its keys at one snapshot or throws, and its workers have ended
\* before it does either, for any keys, sizes and numbers of workers.
THEOREM BatchesAreWhole == ASSUME Sizes PROVE Spec => []BatchWhole
<1>1. Init => IInv
  BY InitHolds
<1>2. IInv /\ [Next]_vars => IInv'
  BY StepKeeps
<1>3. IInv => BatchWhole
  BY DEF IInv
<1> QED
  BY <1>1, <1>2, <1>3, PTL DEF Spec
=============================================================================
