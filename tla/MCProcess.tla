----------------------------- MODULE MCProcess -----------------------------
(***************************************************************************)
(* FileLock, Executor, MultiGet and ConcurrentStress for TLC: what threads *)
(* and processes do to one another outside the engine.  They share no      *)
(* state, so a behaviour moves one of them and the others rest.            *)
(***************************************************************************)
EXTENDS FileLock, Naturals

CONSTANTS p1, p2, t1, t2, t3, t4

VARIABLES
    subject,                                                     \* the one that moves
    tasks_, accepting_tasks_, stop, worker, running, done, canceled, offered, accepted,
    notifying, destructor,
    writes, floor, keys, snapshot, registered, started, work, results, stopped, exceptions,
    startup, outcome,
    main, spawned, gate, place, errors, round, plans, tick, history, state, hot,
    issued, completed, completed_writers, halt, partition, generation, view, pair

execVars == <<tasks_, accepting_tasks_, stop, worker, running, done, canceled, offered, accepted,
              notifying, destructor>>
getVars == <<writes, floor, keys, snapshot, registered, started, work, results, stopped,
             exceptions, startup, outcome>>
testVars == <<main, spawned, gate, place, errors, round, plans, tick, history, state, hot,
              issued, completed, completed_writers, halt, partition, generation, view, pair>>

\* One process has three threads and one has a single one.
MCProcessOf == [t \in Thread |-> IF t = t4 THEN p2 ELSE p1]

Exec == INSTANCE Executor WITH Client <- {"c1", "c2"}, MaxTasks <- 4
Batch == INSTANCE MultiGet WITH Key <- {"a", "b"}, Size <- 4, Concurrency <- 3, MaxWrites <- 2

\* The two modes of the concurrent stress test.
CheckedTest == INSTANCE ConcurrentStress
    WITH Threads <- 2, Rounds <- 2, Checked <- TRUE, pc <- place, stop <- halt
FanoutTest == INSTANCE ConcurrentStress
    WITH Threads <- 4, Rounds <- 1, Checked <- FALSE, pc <- place, stop <- halt

LocksRest == \A t \in Thread : want[t] = CHOOSE f \in File : TRUE
ExecRests ==
    /\ tasks_ = 0 /\ accepting_tasks_ = 0 /\ stop = 0 /\ worker = 0 /\ running = 0
    /\ done = <<>> /\ canceled = <<>> /\ offered = 0 /\ accepted = <<>>
    /\ notifying = 0 /\ destructor = "none"
BatchRests ==
    /\ writes = 0 /\ floor = 0 /\ keys = 0 /\ snapshot = 0 /\ registered = 0 /\ started = 0
    /\ work = 0 /\ results = 0 /\ stopped = 0 /\ exceptions = 0 /\ startup = 0 /\ outcome = "begin"
TestRests ==
    /\ main = "passed" /\ spawned = 0 /\ gate = 0 /\ place = 0 /\ errors = 0 /\ round = 0
    /\ plans = 0 /\ tick = 0 /\ history = 0 /\ state = 0 /\ hot = 0 /\ issued = 0
    /\ completed = 0 /\ completed_writers = 0 /\ halt = 0 /\ partition = 0 /\ generation = 0
    /\ view = 0 /\ pair = 0

\* The lock files rest in one of their initial states.
MCInit ==
    /\ Init
    /\ \/ subject = "lock" /\ ExecRests /\ BatchRests /\ TestRests
       \/ subject = "executor" /\ LocksRest /\ Exec!Init /\ BatchRests /\ TestRests
       \/ subject = "batch" /\ LocksRest /\ Batch!Init /\ ExecRests /\ TestRests
       \/ subject = "checked" /\ LocksRest /\ CheckedTest!Init /\ ExecRests /\ BatchRests
       \/ subject = "fanout" /\ LocksRest /\ FanoutTest!Init /\ ExecRests /\ BatchRests
MCNext ==
    \/ subject = "lock" /\ Next /\ UNCHANGED <<subject, execVars, getVars, testVars>>
    \/ subject = "executor" /\ Exec!Next /\ UNCHANGED <<subject, vars, getVars, testVars>>
    \/ subject = "batch" /\ Batch!Next /\ UNCHANGED <<subject, vars, execVars, testVars>>
    \/ subject = "checked" /\ CheckedTest!Next /\ UNCHANGED <<subject, vars, execVars, getVars>>
    \/ subject = "fanout" /\ FanoutTest!Next /\ UNCHANGED <<subject, vars, execVars, getVars>>

\* The fairness of Executor, MultiGet and ConcurrentStress.
MCFairness ==
    /\ WF_execVars(subject = "executor" /\ Exec!WorkerStep)
    /\ WF_execVars(subject = "executor" /\ Exec!DestructorStep)
    /\ \A c \in {"c1", "c2", "task"} : WF_execVars(subject = "executor" /\ Exec!NotifyOne(c))
    /\ WF_getVars(subject = "batch" /\ Batch!Caller)
    /\ \A w \in 0 .. 2 : WF_getVars(subject = "batch" /\ Batch!Working(w))
    /\ WF_testVars(subject = "checked" /\ CheckedTest!Main)
    /\ \A t \in 1 .. 2 : WF_testVars(subject = "checked" /\ CheckedTest!ThreadStep(t))
    /\ WF_testVars(subject = "fanout" /\ FanoutTest!Main)
    /\ \A t \in 1 .. 4 : WF_testVars(subject = "fanout" /\ FanoutTest!ThreadStep(t))

MCSpec == MCInit /\ [][MCNext]_<<subject, vars, execVars, getVars, testVars>> /\ MCFairness

\* Every accepted task runs once and in order, or is one of the last, which the destructor
\* of the executor cancels (Executor.AcceptedOnce).
TasksOnce == subject = "executor" => Exec!AcceptedOnce

\* MultiGet returns all the keys at one snapshot or throws, and its workers are joined
\* before it does either (MultiGet.BatchWhole).
BatchesWhole == subject = "batch" => Batch!BatchWhole

\* A correct database passes the concurrent stress test unless one of its calls fails,
\* and no thread of the test survives it (ConcurrentStress.TestFair).
TestsFair ==
    /\ subject = "checked" => CheckedTest!TestFair
    /\ subject = "fanout" => FanoutTest!TestFair

\* Accepted tasks are run or canceled; the executor's destructor, every batch and the
\* concurrent stress test end (Executor.AcceptedSettles and DestructorEnds,
\* MultiGet.BatchEnds, ConcurrentStress.TestEnds).
WorkSettles ==
    /\ subject = "executor" => Exec!AcceptedSettles /\ Exec!DestructorEnds
    /\ subject = "batch" => Batch!BatchEnds
    /\ subject \in {"checked", "fanout"} => CheckedTest!TestEnds
=============================================================================
