--------------------------- MODULE FileLockProofs ---------------------------
(* The lock files are safe for any processes, threads and files: proofs of   *)
(* the properties of FileLock.                                               *)
EXTENDS FileLock, TLAPS

\* The registry keeps the threads of one process apart and the kernel the
\* processes, so the inductive invariant gives mutual exclusion.
LEMMA ExclusiveFollows == IInv => Exclusive
  BY FileLockAssumption DEF IInv, TypeOK, OneEach, HolderOwns, Exclusive, Busy

\* Nothing is reserved and nothing is locked in the beginning.
LEMMA InitHolds == Init => IInv
  BY FileLockAssumption
  DEF Init, IInv, TypeOK, Stages, OneEach, Reserved, HolderOwns, NothingLeaked, Busy

\* Every step of a thread and every crash keeps the inductive invariant.
LEMMA StepKeeps == IInv /\ [Next]_vars => IInv'
<1> SUFFICES ASSUME IInv, [Next]_vars PROVE IInv'
  OBVIOUS
<1> USE FileLockAssumption
<1>1. ASSUME NEW t \in Thread, NEW f \in File, Reserve(t, f) PROVE IInv'
  <2> USE <1>1 DEF Reserve, Goto, IInv, TypeOK, Stages
  <2>1. TypeOK'
    OBVIOUS
  <2>2. OneEach'
    BY DEF OneEach, Reserved, Busy
  <2>3. Reserved'
    BY DEF Reserved, Busy
  <2>4. HolderOwns'
    BY DEF HolderOwns
  <2>5. NothingLeaked'
    BY DEF NothingLeaked
  <2> QED
    BY <2>1, <2>2, <2>3, <2>4, <2>5
<1>2. ASSUME NEW t \in Thread, Open(t) PROVE IInv'
  BY <1>2 DEF Open, Goto, IInv, TypeOK, Stages, OneEach, Reserved, HolderOwns,
              NothingLeaked, Busy
<1>3. ASSUME NEW t \in Thread, OpenFails(t) \/ Release(t) PROVE IInv'
  <2> USE <1>3 DEF OpenFails, Release, Forget, Goto, IInv, TypeOK, Stages
  <2>1. TypeOK'
    OBVIOUS
  <2>2. OneEach'
    BY DEF OneEach, Busy
  <2>3. Reserved'
    BY DEF OneEach, Reserved, Busy
  <2>4. HolderOwns'
    BY DEF HolderOwns
  <2>5. NothingLeaked'
    BY DEF NothingLeaked
  <2> QED
    BY <2>1, <2>2, <2>3, <2>4, <2>5
<1>4. ASSUME NEW t \in Thread, SetLock(t) PROVE IInv'
  <2> USE <1>4 DEF SetLock, Goto, IInv, TypeOK, Stages
  <2>1. TypeOK'
    OBVIOUS
  <2>2. OneEach' /\ Reserved'
    BY DEF OneEach, Reserved, Busy
  <2>3. HolderOwns'
    BY DEF HolderOwns
  <2>4. NothingLeaked'
    BY DEF NothingLeaked
  <2> QED
    BY <2>1, <2>2, <2>3, <2>4
<1>5. ASSUME NEW t \in Thread, SetLockFails(t) \/ Unlock(t) \/ Close(t) PROVE IInv'
  <2> USE <1>5 DEF SetLockFails, Unlock, Close, Drop, Goto, IInv, TypeOK, Stages
  <2>1. TypeOK'
    OBVIOUS
  <2>2. OneEach' /\ Reserved'
    BY DEF OneEach, Reserved, Busy
  <2>3. HolderOwns'
    BY DEF OneEach, HolderOwns, Busy
  <2>4. NothingLeaked'
    BY DEF NothingLeaked
  <2> QED
    BY <2>1, <2>2, <2>3, <2>4
<1>6. ASSUME NEW p \in Process, Crash(p) PROVE IInv'
  <2> USE <1>6 DEF Crash, IInv, TypeOK, Stages
  <2>1. TypeOK'
    OBVIOUS
  <2>2. OneEach' /\ Reserved'
    BY DEF OneEach, Reserved, Busy
  <2>3. HolderOwns'
    BY DEF HolderOwns
  <2>4. NothingLeaked'
    BY DEF NothingLeaked
  <2> QED
    BY <2>1, <2>2, <2>3, <2>4
<1>7. CASE UNCHANGED vars
  BY <1>7 DEF vars, IInv, TypeOK, OneEach, Reserved, HolderOwns, NothingLeaked, Busy
<1> QED
  BY <1>1, <1>2, <1>3, <1>4, <1>5, <1>6, <1>7 DEF Next, Step

\* The inductive invariant holds in every reachable state, for any number of
\* processes, threads and files.
THEOREM LocksInvariant == Spec => []IInv
  BY InitHolds, StepKeeps, PTL DEF Spec

\* No two threads hold one lock file (PosixFileSystem::LockFile).
THEOREM LocksExclusive == Spec => []Exclusive
  BY LocksInvariant, ExclusiveFollows, PTL

\* A holder's lock is never given up in the kernel by another thread's close.
THEOREM LocksOwned == Spec => []HolderOwns
<1>1. IInv => HolderOwns
  BY DEF IInv
<1> QED
  BY <1>1, LocksInvariant, PTL

\* No reservation and no kernel lock outlives the thread it was made for.
THEOREM LocksNotLeaked == Spec => []NothingLeaked
<1>1. IInv => NothingLeaked
  BY DEF IInv
<1> QED
  BY <1>1, LocksInvariant, PTL
\* Together: one holder per lock file, that really holds it in the kernel, and nothing
\* reserved or locked for nobody, whatever fails, unlocks, closes or crashes when.
THEOREM LocksSafe == Spec => []LockSafe
  BY LocksExclusive, LocksOwned, LocksNotLeaked, PTL DEF LockSafe
=============================================================================
