------------------------------ MODULE FileLock ------------------------------
(* PosixFileSystem::LockFile and the destructor of PosixFileLock             *)
(* (platform/posix_file_system.cc): threads of several processes lock files, *)
(* as every open database locks the LOCK file of its directory.              *)
(*                                                                           *)
(* The kernel's record locks belong to a process, not to a descriptor: a     *)
(* second lock by the same process is granted, and closing any descriptor    *)
(* of the file gives the lock up.  ProcessLockRegistry, a set of names under *)
(* a mutex, is there to keep the threads of a process apart.  A file stands  *)
(* for its canonical path; two canonical paths of one file (hard links) are  *)
(* outside the model.  A process may crash at any time.                      *)
CONSTANTS
    Process,     \* the processes
    Thread,      \* the threads that lock files
    ProcessOf,   \* the process of each thread
    File,        \* the lock files
    None         \* no process

ASSUME FileLockAssumption ==
    ProcessOf \in [Thread -> Process] /\ None \notin Process

VARIABLES
    pc,          \* where a thread stands between LockFile and the destructor
    want,        \* the file it locks
    registry,    \* identities_ of each process
    kernel       \* the process the kernel granted each file to, or None

vars == <<pc, want, registry, kernel>>

Stages == {"idle", "reserved", "opened", "held", "unlocked", "closed"}

TypeOK ==
    /\ pc \in [Thread -> Stages]
    /\ want \in [Thread -> File]
    /\ registry \in [Process -> SUBSET File]
    /\ kernel \in [File -> Process \cup {None}]

Init ==
    /\ pc = [t \in Thread |-> "idle"]
    /\ want \in [Thread -> File]
    /\ registry = [p \in Process |-> {}]
    /\ kernel = [f \in File |-> None]

Goto(t, stage) == pc' = [pc EXCEPT ![t] = stage]
Forget(t) == registry' = [registry EXCEPT ![ProcessOf[t]] = @ \ {want[t]}]

\* Both unlocking and closing take the file from the thread's process.
Drop(t) == kernel' = [kernel EXCEPT ![want[t]] = IF @ = ProcessOf[t] THEN None ELSE @]

\* FAULT: a name that is already in the registry is reserved again.
FaultReserve(t, f) ==
    /\ pc[t] = "idle"
    /\ Goto(t, "reserved")
    /\ want' = [want EXCEPT ![t] = f]
    /\ registry' = [registry EXCEPT ![ProcessOf[t]] = @ \cup {f}]
    /\ UNCHANGED kernel

\* LockFile takes the name, or returns Busy and changes nothing.
Reserve(t, f) ==
    /\ pc[t] = "idle"
    /\ f \notin registry[ProcessOf[t]]
    /\ Goto(t, "reserved")
    /\ want' = [want EXCEPT ![t] = f]
    /\ registry' = [registry EXCEPT ![ProcessOf[t]] = @ \cup {f}]
    /\ UNCHANGED kernel

Open(t) ==
    /\ pc[t] = "reserved"
    /\ Goto(t, "opened")
    /\ UNCHANGED <<want, registry, kernel>>

\* The file cannot be opened: ~LockReservation gives the name back.
OpenFails(t) ==
    /\ pc[t] = "reserved"
    /\ Goto(t, "idle")
    /\ Forget(t)
    /\ UNCHANGED <<want, kernel>>

\* F_SETLK succeeds unless another process has the file.
SetLock(t) ==
    /\ pc[t] = "opened"
    /\ kernel[want[t]] \in {None, ProcessOf[t]}
    /\ Goto(t, "held")
    /\ kernel' = [kernel EXCEPT ![want[t]] = ProcessOf[t]]
    /\ UNCHANGED <<want, registry>>

\* F_SETLK fails, because another process has the file or for another reason:
\* the descriptor is closed, and only then is the name given back.
SetLockFails(t) ==
    /\ pc[t] = "opened"
    /\ Goto(t, "closed")
    /\ Drop(t)
    /\ UNCHANGED <<want, registry>>

\* ~PosixFileLock: unlock, close, and then give the name back.
Unlock(t) ==
    /\ pc[t] = "held"
    /\ Goto(t, "unlocked")
    /\ Drop(t)
    /\ UNCHANGED <<want, registry>>

Close(t) ==
    /\ pc[t] = "unlocked"
    /\ Goto(t, "closed")
    /\ Drop(t)
    /\ UNCHANGED <<want, registry>>

Release(t) ==
    /\ pc[t] = "closed"
    /\ Goto(t, "idle")
    /\ Forget(t)
    /\ UNCHANGED <<want, kernel>>

\* A process dies: its descriptors are closed and its memory is gone.
Crash(p) ==
    /\ pc' = [t \in Thread |-> IF ProcessOf[t] = p THEN "idle" ELSE pc[t]]
    /\ registry' = [registry EXCEPT ![p] = {}]
    /\ kernel' = [f \in File |-> IF kernel[f] = p THEN None ELSE kernel[f]]
    /\ UNCHANGED want

Step(t) ==
    \/ \E f \in File : Reserve(t, f)
    \/ Open(t) \/ OpenFails(t) \/ SetLock(t) \/ SetLockFails(t)
    \/ Unlock(t) \/ Close(t) \/ Release(t)

Next == (\E t \in Thread : Step(t)) \/ (\E p \in Process : Crash(p))

Spec == Init /\ [][Next]_vars

-----------------------------------------------------------------------------
(* Properties.                                                               *)

\* No two threads, of one process or of two, hold a lock on one file.
Exclusive ==
    \A t, u \in Thread : pc[t] = "held" /\ pc[u] = "held" /\ want[t] = want[u] => t = u

\* A thread that holds a lock has it in the kernel too: no other thread's open
\* and close of the file has given it up.
HolderOwns == \A t \in Thread : pc[t] = "held" => kernel[want[t]] = ProcessOf[t]

\* What nobody uses can be locked again: a name is reserved only for a thread at
\* work on it, and the kernel's lock belongs to a process with a holder.
NothingLeaked ==
    /\ \A p \in Process : \A f \in registry[p] :
         \E t \in Thread : ProcessOf[t] = p /\ want[t] = f /\ pc[t] # "idle"
    /\ \A f \in File : kernel[f] # None =>
         \E t \in Thread : ProcessOf[t] = kernel[f] /\ want[t] = f /\ pc[t] = "held"

\* LockFile excludes, across threads and processes, exactly as long as it should.
LockSafe == Exclusive /\ HolderOwns /\ NothingLeaked

-----------------------------------------------------------------------------
(* The inductive invariant: the threads of a process at work are at work on  *)
(* different files, and those are the reserved names.                        *)

Busy(t) == pc[t] # "idle"

OneEach ==
    \A t, u \in Thread :
       Busy(t) /\ Busy(u) /\ ProcessOf[t] = ProcessOf[u] /\ want[t] = want[u] => t = u

Reserved == \A t \in Thread : Busy(t) => want[t] \in registry[ProcessOf[t]]

IInv == TypeOK /\ OneEach /\ Reserved /\ HolderOwns /\ NothingLeaked
=============================================================================
