------------------------------ MODULE Executor ------------------------------
(***************************************************************************)
(* SerialExecutor: clients and the running task schedule tasks, one worker   *)
(* runs them in order, and the destructor stops it.  The mutex makes each    *)
(* critical section a step; notifications are steps of their own, and a      *)
(* notification that finds nobody asleep is lost.                            *)
(***************************************************************************)
EXTENDS Naturals, Sequences

CONSTANTS Client,
          MaxTasks      \* bound: tasks offered

VARIABLES tasks_, accepting_tasks_,
          stop,         \* stop_requested()
          worker,       \* "wait", "asleep", "run", "exited"
          running,      \* the task being run, a sequence of at most one
          done,         \* the tasks that have been run
          canceled,     \* the tasks the destructor took, and then destroyed
          offered,      \* how many calls of Schedule there were
          accepted,     \* the tasks whose Schedule succeeded, in order
          notifying,    \* who is about to notify_one: clients, and the worker's task
          destructor    \* "none", "detached", "stopped", "notified", "joined"

vars == <<tasks_, accepting_tasks_, stop, worker, running, done, canceled, offered, accepted,
          notifying, destructor>>

Task == "task"

Init == /\ tasks_ = << >> /\ accepting_tasks_ = TRUE /\ stop = FALSE
        /\ worker = "wait" /\ running = << >> /\ done = << >> /\ canceled = << >>
        /\ offered = 0 /\ accepted = << >> /\ notifying = {} /\ destructor = "none"

-----------------------------------------------------------------------------
\* Enqueue, under the mutex.  The owner calls nothing on an executor that it destroys;
\* the running task still may.
Enqueue(c) ==
    /\ c \notin notifying /\ offered < MaxTasks
    /\ IF c = Task THEN worker = "run" ELSE destructor = "none"
    /\ offered' = offered + 1
    /\ IF accepting_tasks_
       THEN /\ tasks_' = Append(tasks_, offered') /\ accepted' = Append(accepted, offered')
            /\ notifying' = notifying \union {c}
       ELSE UNCHANGED <<tasks_, accepted, notifying>>
    /\ UNCHANGED <<accepting_tasks_, stop, worker, running, done, canceled, destructor>>

Woken == IF worker = "asleep" THEN "wait" ELSE worker

NotifyOne(c) ==
    /\ c \in notifying
    /\ notifying' = notifying \ {c}
    /\ worker' = Woken
    /\ UNCHANGED <<tasks_, accepting_tasks_, stop, running, done, canceled, offered, accepted, destructor>>

\* WaitForTask: the worker has the mutex and looks at the queue.
WaitForTask ==
    /\ worker = "wait"
    /\ \/ /\ stop
          /\ worker' = "exited"
          /\ UNCHANGED <<tasks_, running>>
       \/ /\ ~stop /\ tasks_ = << >>
          /\ worker' = "asleep"
          /\ UNCHANGED <<tasks_, running>>
       \/ /\ ~stop /\ tasks_ # << >>
          /\ worker' = "run"
          /\ running' = <<Head(tasks_)>> /\ tasks_' = Tail(tasks_)
    /\ UNCHANGED <<accepting_tasks_, stop, done, canceled, offered, accepted, notifying, destructor>>

\* Run: the task returns, after its own calls have.
FinishTask ==
    /\ worker = "run" /\ Task \notin notifying
    /\ worker' = "wait"
    /\ done' = done \o running /\ running' = << >>
    /\ UNCHANGED <<tasks_, accepting_tasks_, stop, canceled, offered, accepted, notifying, destructor>>

-----------------------------------------------------------------------------
(* ~SerialExecutor, when the calls of its clients have returned.             *)

\* FAULT: tasks are still accepted.
FaultAcceptsAfterStop == accepting_tasks_

AcceptsAfterStop == FALSE

StopAcceptingAndDetachTasks ==
    /\ destructor = "none" /\ notifying \subseteq {Task}
    /\ accepting_tasks_' = AcceptsAfterStop
    /\ canceled' = tasks_ /\ tasks_' = << >>
    /\ destructor' = "detached"
    /\ UNCHANGED <<stop, worker, running, done, offered, accepted, notifying>>

Stopped == TRUE

\* request_stop, which also wakes a wait that was given the token.
RequestStop ==
    /\ destructor = "detached"
    /\ stop' = Stopped
    /\ worker' = Woken
    /\ destructor' = "stopped"
    /\ UNCHANGED <<tasks_, accepting_tasks_, running, done, canceled, offered, accepted, notifying>>

NotifyAll ==
    /\ destructor = "stopped"
    /\ worker' = Woken
    /\ destructor' = "notified"
    /\ UNCHANGED <<tasks_, accepting_tasks_, stop, running, done, canceled, offered, accepted, notifying>>

Join ==
    /\ destructor = "notified" /\ worker = "exited"
    /\ destructor' = "joined"
    /\ UNCHANGED <<tasks_, accepting_tasks_, stop, worker, running, done, canceled, offered, accepted, notifying>>

WorkerStep == WaitForTask \/ FinishTask
DestructorStep == RequestStop \/ NotifyAll \/ Join

Next == \/ \E c \in Client \union {Task} : Enqueue(c) \/ NotifyOne(c)
        \/ WorkerStep
        \/ StopAcceptingAndDetachTasks
        \/ DestructorStep

Fairness == /\ WF_vars(WorkerStep) /\ WF_vars(DestructorStep)
            /\ \A c \in Client \union {Task} : WF_vars(NotifyOne(c))

Spec == Init /\ [][Next]_vars /\ Fairness

-----------------------------------------------------------------------------
(* Properties.                                                               *)

\* Every accepted task is run once, in the order of acceptance, or is
\* one of the last ones, which the destructor cancels; nothing is left to a joined worker.
AcceptedOnce ==
    /\ accepted = done \o running \o canceled \o tasks_
    /\ destructor = "joined" => tasks_ = << >> /\ running = << >>

\* An accepted task is run or canceled; it is never left in the queue with the worker
\* asleep.
AcceptedSettles ==
    \A t \in 1 .. MaxTasks :
      (\E i \in DOMAIN accepted : accepted[i] = t) ~>
      (\E i \in DOMAIN (done \o canceled) : (done \o canceled)[i] = t)

\* "Destruction stops/joins the worker", whatever the worker and its task are doing.
DestructorEnds == (destructor # "none") ~> (destructor = "joined")
=============================================================================
