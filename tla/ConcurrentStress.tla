-------------------------- MODULE ConcurrentStress --------------------------
(***************************************************************************)
(* The concurrent stress test (src/stress/concurrent_stress.cc): rounds of *)
(* single operations on one key, whose recorded history must be that of a  *)
(* register, and then writers of batches against readers of snapshots.     *)
(*                                                                         *)
(* The database under it is what the rest of the project shows it to be:   *)
(* a call takes effect at one step between its start and its return, a     *)
(* batch is applied whole, a snapshot does not change, and what was        *)
(* acknowledged is there after a reopen.  A call may also fail.  The       *)
(* question is whether the test is fair to such a database and ends.       *)
(***************************************************************************)
EXTENDS Integers, Sequences

CONSTANTS
    Threads,
    Rounds,
    Checked    \* ConcurrentStressMode::Checked, or Fanout

ThreadId == 1 .. Threads
WriterCount == IF Threads < 2 THEN 1 ELSE Threads \div 2
Writer == 1 .. WriterCount
Absent == 0

PlannedKind == {"Store", "Delete", "Read", "Batch"}

VARIABLES
    main,        \* where the test is
    spawned,     \* the threads that were created in this round or phase
    gate,        \* StartGate: "closed", "open" or "cancelled"
    pc,          \* where each thread is
    errors,      \* the threads that ended with an exception
    round, plans, tick, history,
    state,       \* what the histories so far leave in the hot key
    hot,         \* what the database has there
    issued, completed, completed_writers, stop,
    partition,   \* the generation the database has of each writer's pair of keys
    generation,  \* where each writer is
    view,        \* the snapshot of each reader
    pair         \* the pair of keys each reader validates next

roundVars == <<round, plans, tick, history, state, hot>>
phaseVars == <<issued, completed, completed_writers, stop, partition, generation, view, pair>>
threadVars == <<spawned, gate, pc, errors>>
vars == <<main, threadVars, roundVars, phaseVars>>

NoOperation == [kind |-> "Read", value |-> Absent, invoke |-> 0, complete |-> 0]

\* Every value is written once.
HotValue(r, worker) == r * Threads + worker

Init ==
    /\ main = IF Checked THEN "plan" ELSE "spawn readers"
    /\ spawned = 0 /\ gate = "closed" /\ errors = {}
    /\ pc = [t \in ThreadId |-> "none"]
    /\ round = 0 /\ plans = <<>> /\ tick = 1 /\ history = <<>>
    /\ state = Absent /\ hot = Absent
    /\ issued = [w \in Writer |-> 0] /\ completed = [w \in Writer |-> 0]
    /\ completed_writers = 0 /\ stop = FALSE
    /\ partition = [w \in Writer |-> 0] /\ generation = [w \in Writer |-> 1]
    /\ view = [t \in ThreadId \ Writer |-> partition] /\ pair = [t \in ThreadId \ Writer |-> 1]

-----------------------------------------------------------------------------
\* The threads of a round or of the snapshot phase are created one by one and wait at
\* the gate until there are all of them; when one cannot be created, those that wait are
\* sent home, and joined before the exception goes on.
Spawn(spawning, joining) ==
    /\ main = spawning
    /\ spawned < Threads
    /\ \/ /\ spawned' = spawned + 1
          /\ pc' = [pc EXCEPT ![spawned'] = "wait"]
          /\ UNCHANGED <<main, gate, stop>>
       \/ /\ gate' = "cancelled"
          /\ stop' = (stop \/ spawning = "spawn readers")
          /\ main' = joining
          /\ UNCHANGED <<spawned, pc>>
    /\ UNCHANGED <<errors, roundVars, issued, completed, completed_writers, partition,
                   generation, view, pair>>

OpenGate(spawning, joining) ==
    /\ main = spawning
    /\ spawned = Threads
    /\ gate' = "open"
    /\ main' = joining
    /\ UNCHANGED <<spawned, pc, errors, roundVars, phaseVars>>

Wait(t) ==
    /\ pc[t] = "wait"
    /\ gate # "closed"
    /\ pc' = [pc EXCEPT ![t] = IF gate = "cancelled" THEN "ended"
                               ELSE IF main = "join round" THEN "invoke"
                               ELSE IF t \in Writer THEN "generate" ELSE "snapshot"]
    /\ UNCHANGED <<main, spawned, gate, errors, roundVars, phaseVars>>

Joined == \A t \in ThreadId : pc[t] \in {"none", "ended"}

\* The threads are gone; the next ones find a new gate.
Joins(joining) ==
    /\ main = joining
    /\ Joined
    /\ spawned' = 0 /\ gate' = "closed" /\ pc' = [t \in ThreadId |-> "none"]

Fails(t) ==
    /\ errors' = errors \cup {t}
    /\ pc' = [pc EXCEPT ![t] = "ended"]

-----------------------------------------------------------------------------
PlanRound ==
    /\ main = "plan"
    /\ plans' \in [ThreadId -> PlannedKind]
    /\ history' = [t \in ThreadId |-> NoOperation]
    /\ main' = "spawn round"
    /\ UNCHANGED <<threadVars, round, tick, state, hot, phaseVars>>

Recorded(t) ==
    [kind |-> IF plans[t] = "Batch" THEN "Store" ELSE plans[t],
     value |-> IF plans[t] \in {"Store", "Batch"} THEN HotValue(round, t) ELSE Absent]

\* ExecutePlanned: a tick, the call, and a tick.
Invoke(t) ==
    /\ pc[t] = "invoke"
    /\ history' = [history EXCEPT ![t] = [kind |-> Recorded(t).kind, value |-> Recorded(t).value,
                                          invoke |-> tick, complete |-> 0]]
    /\ tick' = tick + 1
    /\ pc' = [pc EXCEPT ![t] = "call"]
    /\ UNCHANGED <<main, spawned, gate, errors, round, plans, state, hot, phaseVars>>

Call(t) ==
    /\ pc[t] = "call"
    /\ \/ /\ IF plans[t] = "Read"
             THEN history' = [history EXCEPT ![t].value = hot] /\ UNCHANGED hot
             ELSE hot' = history[t].value /\ UNCHANGED history
          /\ pc' = [pc EXCEPT ![t] = "complete"]
          /\ UNCHANGED errors
       \/ Fails(t) /\ UNCHANGED <<history, hot>>
    /\ UNCHANGED <<main, spawned, gate, round, plans, tick, state, phaseVars>>

Complete(t) ==
    /\ pc[t] = "complete"
    /\ history' = [history EXCEPT ![t].complete = tick]
    /\ tick' = tick + 1
    /\ pc' = [pc EXCEPT ![t] = "ended"]
    /\ UNCHANGED <<main, spawned, gate, errors, round, plans, state, hot, phaseVars>>

\* After the workers, one more read, by the main thread alone.
FinalRead ==
    /\ Joins("join round")
    /\ LET read == [kind |-> "Read", value |-> hot, invoke |-> tick, complete |-> tick + 1]
       IN  \/ /\ errors = {} /\ gate = "open"
              /\ history' = Append(history, read)
              /\ tick' = tick + 2
              /\ main' = "check"
           \/ main' = "failed" /\ UNCHANGED <<history, tick>>
    /\ UNCHANGED <<errors, round, plans, state, hot, phaseVars>>

\* FindRegisterLinearization is a search that finds an order exactly when there is one.
Register == INSTANCE Linearizability
    WITH Value <- 1 .. HotValue(Rounds, Threads), Operations <- Threads + 1, initial <- state,
         op <- history, order <- <<>>, states <- <<>>, index <- 1, result <- "searching"

\* The value the witness ends with is where the next round begins.
CheckRound ==
    /\ main = "check"
    /\ IF Register!Linearizable
       THEN LET witness == CHOOSE p \in [Register!Index -> Register!Index] :
                               /\ \A m, n \in Register!Index : p[m] = p[n] => m = n
                               /\ Register!IsLinearization(p)
            IN  /\ state' = Register!LastWrite(witness, Threads + 2)
                /\ main' = IF round + 1 = Rounds THEN "spawn readers" ELSE "plan"
       ELSE main' = "alarm" /\ UNCHANGED state
    /\ round' = round + 1
    /\ plans' = <<>> /\ history' = <<>>
    /\ UNCHANGED <<threadVars, tick, hot, phaseVars>>

-----------------------------------------------------------------------------
\* FAULT: the generation is not announced before it is written.
FaultGenerate(w) ==
    /\ pc[w] = "generate"
    /\ pc' = [pc EXCEPT ![w] = IF generation[w] <= Rounds /\ ~stop THEN "write" ELSE "ended"]
    /\ completed_writers' = completed_writers + (IF pc'[w] = "ended" THEN 1 ELSE 0)
    /\ UNCHANGED <<main, spawned, gate, errors, roundVars, completed, stop, issued, partition,
                   generation, view, pair>>

\* A writer: every generation is announced, written as a batch of two keys, and noted.
Generate(w) ==
    /\ pc[w] = "generate"
    /\ IF generation[w] <= Rounds /\ ~stop
       THEN /\ issued' = [issued EXCEPT ![w] = generation[w]]
            /\ pc' = [pc EXCEPT ![w] = "write"]
            /\ UNCHANGED completed_writers
       ELSE /\ completed_writers' = completed_writers + 1
            /\ pc' = [pc EXCEPT ![w] = "ended"]
            /\ UNCHANGED issued
    /\ UNCHANGED <<main, spawned, gate, errors, roundVars, completed, stop, partition,
                   generation, view, pair>>

Write(w) ==
    /\ pc[w] = "write"
    /\ \/ /\ partition' = [partition EXCEPT ![w] = generation[w]]
          /\ pc' = [pc EXCEPT ![w] = "note"]
          /\ UNCHANGED <<errors, stop>>
       \/ /\ Fails(w)
          /\ stop' = TRUE
          /\ UNCHANGED partition
    /\ UNCHANGED <<main, spawned, gate, roundVars, issued, completed, completed_writers,
                   generation, view, pair>>

Note(w) ==
    /\ pc[w] = "note"
    /\ completed' = [completed EXCEPT ![w] = generation[w]]
    /\ generation' = [generation EXCEPT ![w] = @ + 1]
    /\ pc' = [pc EXCEPT ![w] = "generate"]
    /\ UNCHANGED <<main, spawned, gate, errors, roundVars, issued, completed_writers, stop,
                   partition, view, pair>>

\* A reader: a snapshot, the pairs of all writers by Get and then by an iterator that
\* outlives the snapshot, and the end when every writer has ended.
TakeSnapshot(r) ==
    /\ pc[r] = "snapshot"
    /\ view' = [view EXCEPT ![r] = partition]
    /\ pair' = [pair EXCEPT ![r] = 1]
    /\ pc' = [pc EXCEPT ![r] = "validate"]
    /\ UNCHANGED <<main, spawned, gate, errors, roundVars, issued, completed,
                   completed_writers, stop, partition, generation>>

ReadFails(r) ==
    /\ pc[r] \in {"snapshot", "validate"}
    /\ Fails(r)
    /\ stop' = TRUE
    /\ UNCHANGED <<main, spawned, gate, roundVars, issued, completed, completed_writers,
                   partition, generation, view, pair>>

PairWriter(r) == ((pair[r] - 1) % WriterCount) + 1

\* Both keys of a pair are at the generation of the snapshot.  The announcement is
\* loaded after the pair is read.
ValidPartitionPair(r) == view[r][PairWriter(r)] \in 0 .. issued[PairWriter(r)]

ValidatePair(r) ==
    /\ pc[r] = "validate"
    /\ IF ValidPartitionPair(r)
       THEN /\ pair' = [pair EXCEPT ![r] = @ + 1]
            /\ pc' = [pc EXCEPT ![r] = IF pair[r] = 2 * WriterCount THEN "repeat" ELSE "validate"]
            /\ UNCHANGED <<main, errors, stop>>
       ELSE /\ Fails(r)
            /\ stop' = TRUE
            /\ main' = "alarm"
            /\ UNCHANGED pair
    /\ UNCHANGED <<spawned, gate, roundVars, issued, completed, completed_writers, partition,
                   generation, view>>

\* FAULT: a reader waits for the writers whether or not another thread has failed.
FaultRepeat(r) ==
    /\ pc[r] = "repeat"
    /\ pc' = [pc EXCEPT ![r] = IF completed_writers # WriterCount THEN "snapshot" ELSE "ended"]
    /\ UNCHANGED <<main, spawned, gate, errors, roundVars, phaseVars>>

Repeat(r) ==
    /\ pc[r] = "repeat"
    /\ pc' = [pc EXCEPT ![r] = IF ~stop /\ completed_writers # WriterCount THEN "snapshot"
                               ELSE "ended"]
    /\ UNCHANGED <<main, spawned, gate, errors, roundVars, phaseVars>>

EndPhase ==
    /\ Joins("join readers")
    /\ main' = IF errors # {} \/ gate = "cancelled" THEN "failed"
               ELSE IF \E w \in Writer : completed[w] # Rounds THEN "alarm" ELSE "verify"
    /\ UNCHANGED <<errors, roundVars, phaseVars>>

\* ExpectedFinalState against what an iterator finds after the database is destroyed,
\* and against what a scan finds after it is opened again.
Expected(found, pairs) == found = state /\ \A w \in Writer : pairs[w] = Rounds

Verify ==
    /\ main = "verify"
    /\ main' \in {IF Expected(hot, partition) THEN "passed" ELSE "alarm", "failed"}
    /\ UNCHANGED <<threadVars, roundVars, phaseVars>>

-----------------------------------------------------------------------------
Main ==
    \/ PlanRound \/ FinalRead \/ CheckRound \/ EndPhase \/ Verify
    \/ Spawn("spawn round", "join round") \/ OpenGate("spawn round", "join round")
    \/ Spawn("spawn readers", "join readers") \/ OpenGate("spawn readers", "join readers")

WriterStep(w) == Generate(w) \/ Write(w) \/ Note(w)
ReaderStep(r) == TakeSnapshot(r) \/ ReadFails(r) \/ ValidatePair(r) \/ Repeat(r)

ThreadStep(t) ==
    \/ Wait(t) \/ Invoke(t) \/ Call(t) \/ Complete(t)
    \/ t \in Writer /\ WriterStep(t)
    \/ t \notin Writer /\ ReaderStep(t)

Next == Main \/ \E t \in ThreadId : ThreadStep(t)

Fairness == WF_vars(Main) /\ \A t \in ThreadId : WF_vars(ThreadStep(t))

Spec == Init /\ [][Next]_vars /\ Fairness

-----------------------------------------------------------------------------
\* The test is fair: a database whose calls are atomic, whose snapshots are fixed and
\* which loses nothing never makes a check of the test throw, whatever the threads do
\* and whichever calls fail.  The threads are all gone when it ends, and it passes
\* only when every generation was written and no thread had an exception.
TestFair ==
    /\ main # "alarm"
    /\ main \in {"passed", "failed"} => Joined
    /\ main = "passed" => errors = {} /\ \A w \in Writer : completed[w] = Rounds

\* The test ends, with every outcome of its calls: no reader waits for writers that
\* have failed, and no thread stays at the gate.
TestEnds == <>(main \in {"passed", "failed", "alarm"})
=============================================================================
