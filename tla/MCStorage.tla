----------------------------- MODULE MCStorage -----------------------------
(***************************************************************************)
(* Storage for TLC.  A behaviour follows one of several plans, which say   *)
(* what may go wrong, how much work there is and whether the directory is  *)
(* synced when a log is created; all of them are checked together.         *)
(***************************************************************************)
EXTENDS Storage, TLC

CONSTANT r1

OneReader == {r1}

Plan(s, r, f, writing, o, c, k) ==
    [sync |-> s, readers |-> r, faults |-> f, writes |-> writing, opens |-> o, crashes |-> c,
     work |-> k]

\* Crashes of the machine and reopenings, with many writes, much work or many crashes;
\* failing steps and a crash; a reader, failing rotations and removals while work goes
\* on; crashes when the names of new logs are not synced.
Plans == {Plan(TRUE, {}, {}, 2, 3, 2, 1),
          Plan(TRUE, {}, {}, 2, 2, 1, 2),
          Plan(TRUE, {}, {}, 1, 3, 2, 2),
          Plan(TRUE, {}, {"log", "table", "manifest", "remove"}, 1, 2, 1, 2),
          Plan(TRUE, OneReader, {"rotate", "remove"}, 2, 1, 0, 3),
          Plan(FALSE, {}, {}, 1, 3, 2, 1),
          Plan(FALSE, {}, {}, 2, 2, 2, 1)}

VARIABLE plan

Case(p) == INSTANCE Storage
    WITH SyncCreation <- p.sync, Reader <- p.readers, Faults <- p.faults, MaxWrites <- p.writes,
         MaxOpens <- p.opens, MaxCrashes <- p.crashes, MaxWork <- p.work

MCInit == plan \in Plans /\ \E p \in Plans : plan = p /\ Case(p)!Init
MCNext == \E p \in Plans : plan = p /\ Case(p)!Next /\ UNCHANGED plan
MCSpec == MCInit /\ [][MCNext]_<<vars, plan>>

\* AckedSurvive, in the plans in which creating a log makes its name durable: with
\* Options::sync_wal_creation off the log of a synced write may itself be lost.
AckedFound == plan.sync => AckedSurvive
=============================================================================
