------------------------------ MODULE MultiGet ------------------------------
(***************************************************************************)
(* ReadBatch: the keys of one batch are read at one snapshot, by the caller  *)
(* and by workers it starts, while others write and compactions drop what no *)
(* snapshot needs.  Starting a worker may fail and a read may throw.         *)
(***************************************************************************)
EXTENDS Naturals, Sequences, FiniteSets, FiniteSetsExt

CONSTANTS Key,
          Size,          \* the number of keys in the batch
          Concurrency,   \* the smaller of Size and max_concurrency
          MaxWrites      \* bound: writes beside the batch

VARIABLES writes,        \* the key of each write, by sequence
          floor,         \* what a sequence below it sees may have been dropped
          keys, snapshot,
          registered,    \* whether the snapshot is registered
          started,       \* how many workers run beside the caller
          work,          \* where each worker is: its index, and what it does
          results,
          stopped, exceptions,
          startup,       \* whether starting a worker failed
          outcome        \* "begin", "running", "returned", "thrown"

vars == <<writes, floor, keys, snapshot, registered, started, work, results, stopped,
          exceptions, startup, outcome>>
engine == <<writes, floor>>

Worker == 0 .. Concurrency - 1
Index == 1 .. Size
Unread == [found |-> FALSE]

\* The last write of the key at or before the sequence; 0 is none.
ValueAt(k, s) == Max({i \in 1 .. s : writes[i] = k} \union {0})

\* runtime.read: Get at the snapshot, whose versions must still be there.
ReadAt(k, s) == IF s >= floor THEN [found |-> TRUE, value |-> ValueAt(k, s)]
                ELSE [found |-> TRUE, value |-> ValueAt(k, Len(writes)), dropped |-> TRUE]

-----------------------------------------------------------------------------
\* FAULT: the sequence is read, and no snapshot registered.
FaultRegisters == FALSE

\* std::make_shared<SnapshotRegistration>.
Registers == TRUE

Init == /\ writes = << >> /\ floor = 0
        /\ keys \in [Index -> Key] /\ snapshot = 0 /\ registered = FALSE
        /\ started = 0
        /\ work = [w \in Worker |-> [at |-> "none", index |-> w + 1]]
        /\ results = [i \in Index |-> Unread]
        /\ stopped = FALSE /\ exceptions = {} /\ startup = FALSE /\ outcome = "begin"

BeginBatch ==
    /\ outcome = "begin"
    /\ snapshot' = Len(writes) /\ registered' = Registers
    /\ outcome' = "running"
    /\ UNCHANGED <<engine, keys, started, work, results, stopped, exceptions, startup>>

\* runtime.start, for workers 1, 2, ...
StartWorker ==
    /\ outcome = "running" /\ ~startup /\ started < Concurrency - 1
    /\ started' = started + 1
    /\ work' = [work EXCEPT ![started + 1].at = "check"]
    /\ UNCHANGED <<engine, keys, snapshot, registered, results, stopped, exceptions, startup, outcome>>

StartFails ==
    /\ outcome = "running" /\ ~startup /\ started < Concurrency - 1
    /\ startup' = TRUE /\ stopped' = TRUE
    /\ UNCHANGED <<engine, keys, snapshot, registered, started, work, results, exceptions, outcome>>

\* The caller joins in as worker 0, once all the others have been started.
RunCaller ==
    /\ outcome = "running" /\ ~startup /\ started = Concurrency - 1 /\ work[0].at = "none"
    /\ work' = [work EXCEPT ![0].at = "check"]
    /\ UNCHANGED <<engine, keys, snapshot, registered, started, results, stopped, exceptions, startup, outcome>>

Stride == Concurrency

\* BatchWork::Run: the load of stopped, and the read.
CheckStopped(w) ==
    /\ work[w].at = "check"
    /\ work' = [work EXCEPT ![w].at = IF work[w].index > Size \/ stopped THEN "done" ELSE "read"]
    /\ UNCHANGED <<engine, keys, snapshot, registered, started, results, stopped, exceptions, startup, outcome>>

ReadKey(w) ==
    /\ work[w].at = "read"
    /\ results' = [results EXCEPT ![work[w].index] = ReadAt(keys[work[w].index], snapshot)]
    /\ work' = [work EXCEPT ![w] = [at |-> "check", index |-> @.index + Stride]]
    /\ UNCHANGED <<engine, keys, snapshot, registered, started, stopped, exceptions, startup, outcome>>

Keeps(w) == exceptions \union {w}

\* The exception is stored before the others are stopped; nobody reads it until the join.
ReadThrows(w) ==
    /\ work[w].at = "read"
    /\ exceptions' = Keeps(w) /\ stopped' = TRUE
    /\ work' = [work EXCEPT ![w].at = "done"]
    /\ UNCHANGED <<engine, keys, snapshot, registered, started, results, startup, outcome>>

\* join.Wait.
Joined == /\ startup \/ work[0].at = "done"
          /\ \A w \in 1 .. started : work[w].at = "done"

\* The end of the batch; the registration goes with the call.
EndBatch ==
    /\ outcome = "running" /\ Joined
    /\ outcome' = IF startup \/ exceptions # {} THEN "thrown" ELSE "returned"
    /\ registered' = FALSE
    /\ UNCHANGED <<engine, keys, snapshot, started, work, results, stopped, exceptions, startup>>

-----------------------------------------------------------------------------
(* The engine, beside the batch.                                             *)

Write(k) ==
    /\ Len(writes) < MaxWrites
    /\ writes' = Append(writes, k)
    /\ UNCHANGED <<floor, keys, snapshot, registered, started, work, results, stopped,
                   exceptions, startup, outcome>>

\* A compaction keeps what the smallest snapshot sees, or the last sequence.
Compact ==
    /\ floor < (IF registered THEN snapshot ELSE Len(writes))
    /\ floor' = IF registered THEN snapshot ELSE Len(writes)
    /\ UNCHANGED <<writes, keys, snapshot, registered, started, work, results, stopped,
                   exceptions, startup, outcome>>

Caller == BeginBatch \/ StartWorker \/ StartFails \/ RunCaller \/ EndBatch
Working(w) == CheckStopped(w) \/ ReadKey(w) \/ ReadThrows(w)

Next == \/ Caller
        \/ \E w \in Worker : Working(w)
        \/ \E k \in Key : Write(k)
        \/ Compact

Fairness == WF_vars(Caller) /\ \A w \in Worker : WF_vars(Working(w))

Spec == Init /\ [][Next]_vars /\ Fairness

-----------------------------------------------------------------------------
(* Properties.                                                               *)

\* A batch that returns has read every key, each at the one snapshot, whatever was
\* written and compacted meanwhile; "normal completion must not cancel partitions that
\* have not finished yet".
BatchExact ==
    outcome = "returned" =>
      \A i \in Index : results[i] = [found |-> TRUE, value |-> ValueAt(keys[i], snapshot)]

\* A batch throws when a worker could not be started or a read threw, and only then: a
\* partial result is never returned.
FailuresSurface ==
    /\ outcome = "returned" => ~stopped
    /\ outcome = "thrown" => stopped

\* No worker touches the results, the exceptions or the keys once the call has ended.
JoinedBeforeEnd ==
    outcome \in {"returned", "thrown"} => \A w \in Worker : work[w].at \in {"none", "done"}

\* A batch is all of its keys at one moment, or a failure, and nobody works on it after.
BatchWhole == BatchExact /\ FailuresSurface /\ JoinedBeforeEnd

\* The call ends; a failure in one worker does not leave another one waiting.
BatchEnds == <>(outcome \in {"returned", "thrown"})
=============================================================================
