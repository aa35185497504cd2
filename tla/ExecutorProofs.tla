--------------------------- MODULE ExecutorProofs ---------------------------
(* The executor loses no task and runs none twice, for any clients and any   *)
(* number of tasks: the proof of Executor.AcceptedOnce.                      *)
EXTENDS Executor, SequenceTheorems, TLAPS

TypeOK ==
  /\ tasks_ \in Seq(Nat) /\ running \in Seq(Nat) /\ done \in Seq(Nat)
  /\ canceled \in Seq(Nat) /\ accepted \in Seq(Nat) /\ offered \in Nat
  /\ worker \in {"wait", "asleep", "run", "exited"}
  /\ destructor \in {"none", "detached", "stopped", "notified", "joined"}
  /\ accepting_tasks_ \in BOOLEAN

\* Tasks are canceled once, and after that none is queued: without it, a task that
\* was accepted later could run before one that was canceled.
DetachedOnce ==
  /\ destructor = "none" => canceled = << >>
  /\ destructor # "none" => ~accepting_tasks_ /\ tasks_ = << >>

\* There is a task at work only while the worker runs it.
WorkerOwns ==
  /\ worker # "run" => running = << >>
  /\ destructor = "joined" => worker = "exited"

IInv ==
  /\ TypeOK /\ DetachedOnce /\ WorkerOwns
  /\ accepted = done \o running \o canceled \o tasks_

\* What is appended to the second of two sequences is appended to both.
LEMMA AppendLast ==
  \A a, b \in Seq(Nat), x \in Nat : Append(a \o b, x) = a \o Append(b, x)
<1> TAKE a, b \in Seq(Nat), x \in Nat
<1>1. Append(a \o b, x) = (a \o b) \o <<x>> /\ Append(b, x) = b \o <<x>>
  BY AppendIsConcat, ConcatProperties
<1> QED
  BY <1>1, ConcatAssociative

\* The first of a sequence may be counted to the sequence before it.
LEMMA FirstMoves ==
  ASSUME NEW a \in Seq(Nat), NEW s \in Seq(Nat), s # << >>
  PROVE  /\ <<Head(s)>> \in Seq(Nat) /\ Tail(s) \in Seq(Nat)
         /\ a \o s = (a \o <<Head(s)>>) \o Tail(s)
<1>1. Head(s) \in Nat /\ Tail(s) \in Seq(Nat)
  BY HeadTailProperties
<1>2. <<Head(s)>> \in Seq(Nat)
  BY <1>1
<1>3. PICK b \in Seq(Nat) : b = <<Head(s)>>
  BY <1>2, Zenon
<1>4. s = b \o Tail(s)
  BY <1>1, <1>3
<1>5. (a \o b) \o Tail(s) = a \o (b \o Tail(s))
  BY <1>1, <1>3, ConcatAssociative
<1> QED
  BY <1>1, <1>3, <1>4, <1>5

\* Nothing is accepted in the beginning.
LEMMA InitHolds == Init => IInv
<1> SUFFICES ASSUME Init PROVE IInv
  OBVIOUS
<1>1. << >> \o << >> = << >>
  BY ConcatEmptySeq, EmptySeq
<1> QED
  BY <1>1 DEF Init, IInv, TypeOK, DetachedOnce, WorkerOwns

\* Every step of a client, of the worker and of the destructor keeps the order.
LEMMA StepKeeps == IInv /\ [Next]_vars => IInv'
<1> SUFFICES ASSUME IInv, [Next]_vars PROVE IInv'
  OBVIOUS
<1> USE DEF IInv, TypeOK, DetachedOnce, WorkerOwns
<1>0. /\ done \o running \in Seq(Nat) /\ done \o running \o canceled \in Seq(Nat)
      /\ << >> \in Seq(Nat) /\ tasks_ \in Seq(Nat)
  BY ConcatProperties, EmptySeq
<1>1. ASSUME NEW c \in Client \union {Task}, Enqueue(c) PROVE IInv'
  <2>1. CASE accepting_tasks_
    <3>1. /\ tasks_' = Append(tasks_, offered') /\ accepted' = Append(accepted, offered')
          /\ offered' = offered + 1
          /\ UNCHANGED <<accepting_tasks_, worker, running, done, canceled, destructor>>
      BY <1>1, <2>1, Zenon DEF Enqueue
    <3>2. offered' \in Nat
      BY <3>1
    <3>3. accepted' = done \o running \o canceled \o tasks_'
      <4> HIDE DEF IInv, TypeOK, DetachedOnce, WorkerOwns
      <4>1. Append((done \o running \o canceled) \o tasks_, offered')
              = (done \o running \o canceled) \o Append(tasks_, offered')
        BY <3>2, <1>0, AppendLast, Zenon
      <4>2. accepted = (done \o running \o canceled) \o tasks_
        BY Zenon DEF IInv
      <4> QED
        BY <3>1, <4>1, <4>2, Zenon
    <3>4. tasks_' \in Seq(Nat) /\ accepted' \in Seq(Nat)
      BY <3>2, <3>1, AppendProperties
    <3>5. destructor = "none"
      BY <2>1, Zenon
    <3> QED
      BY <3>2, <3>1, <3>3, <3>4, <3>5
  <2>2. CASE ~accepting_tasks_
    <3>1. /\ offered' = offered + 1
          /\ UNCHANGED <<accepting_tasks_, tasks_, accepted, worker, running, done, canceled,
                         destructor>>
      BY <1>1, <2>2, Zenon DEF Enqueue
    <3> QED
      BY <3>1
  <2> QED
    BY <2>1, <2>2
<1>2. ASSUME NEW c \in Client \union {Task}, NotifyOne(c) PROVE IInv'
  BY <1>2 DEF NotifyOne, Woken
<1>3. CASE WaitForTask
  <2>1. CASE tasks_' = tasks_ /\ running' = running
    BY <1>3, <2>1 DEF WaitForTask
  <2>2. CASE ~stop /\ tasks_ # << >>
    <3>1. /\ running' = <<Head(tasks_)>> /\ tasks_' = Tail(tasks_) /\ worker' = "run"
          /\ running = << >> /\ canceled = << >>
      BY <1>3, <2>2, Zenon DEF WaitForTask
    <3>2. /\ <<Head(tasks_)>> \in Seq(Nat) /\ Tail(tasks_) \in Seq(Nat)
          /\ done \o tasks_ = (done \o <<Head(tasks_)>>) \o Tail(tasks_)
      BY <2>2, FirstMoves
    <3>3. done \o running \o canceled = done
      BY <3>1, ConcatEmptySeq
    <3>4. done \o running' \o canceled = done \o running'
      BY <3>1, <3>2, ConcatEmptySeq, ConcatProperties
    <3>5. accepted = done \o running' \o canceled \o tasks_'
      BY <3>1, <3>2, <3>3, <3>4, Zenon
    <3> QED
      BY <1>3, <2>2, <3>1, <3>2, <3>5 DEF WaitForTask
  <2> QED
    BY <1>3, <2>1, <2>2 DEF WaitForTask
<1>4. CASE FinishTask
  <2>1. done' \o running' = done \o running
    BY <1>0, <1>4, ConcatEmptySeq DEF FinishTask
  <2> QED
    BY <1>0, <1>4, <2>1 DEF FinishTask
<1>5. CASE StopAcceptingAndDetachTasks
  <2>1. canceled = << >> /\ canceled' = tasks_ /\ tasks_' = << >>
    BY <1>5 DEF StopAcceptingAndDetachTasks
  <2>2. accepted = (done \o running) \o tasks_
    BY <1>0, <2>1, ConcatEmptySeq
  <2>3. (done \o running) \o tasks_ \o << >> = (done \o running) \o tasks_
    BY <1>0, ConcatProperties, ConcatEmptySeq
  <2>4. /\ ~accepting_tasks_' /\ accepting_tasks_' \in BOOLEAN
        /\ destructor' = "detached" /\ destructor = "none"
        /\ UNCHANGED <<worker, running, done, offered, accepted>>
    BY <1>5, Zenon DEF StopAcceptingAndDetachTasks, AcceptsAfterStop
  <2>5. accepted' = done' \o running' \o canceled' \o tasks_'
    BY <2>1, <2>2, <2>3, <2>4, Zenon
  <2> QED
    BY <1>0, <2>1, <2>4, <2>5
<1>6. CASE DestructorStep
  <2>1. /\ UNCHANGED <<tasks_, accepting_tasks_, running, done, canceled, offered, accepted>>
        /\ destructor # "none" /\ destructor' \in {"stopped", "notified", "joined"}
        /\ destructor' = "joined" => worker' = "exited"
        /\ worker' = worker \/ (worker = "asleep" /\ worker' = "wait")
    BY <1>6, Zenon DEF DestructorStep, RequestStop, NotifyAll, Join, Woken
  <2> QED
    BY <2>1
<1>7. CASE UNCHANGED vars
  BY <1>7 DEF vars
<1> QED
  BY <1>1, <1>2, <1>3, <1>4, <1>5, <1>6, <1>7 DEF Next, WorkerStep

\* The inductive invariant holds in every state of the executor.
THEOREM ExecutorInvariant == Spec => []IInv
<1> QED
  BY InitHolds, StepKeeps, PTL DEF Spec

\* Every accepted task is run once, in order, or canceled by the destructor, and a
\* worker that was joined leaves nothing behind.
THEOREM TasksAccounted == Spec => []AcceptedOnce
<1>1. IInv => AcceptedOnce
  BY DEF IInv, AcceptedOnce, DetachedOnce, WorkerOwns
<1> QED
  BY <1>1, ExecutorInvariant, PTL
=============================================================================
