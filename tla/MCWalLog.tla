------------------------------ MODULE MCWalLog ------------------------------
(***************************************************************************)
(* WalLog for TLC.  A behaviour follows one of three plans: a crash that   *)
(* cuts the file anywhere, with a writer that goes on behind it; damage to *)
(* one cell anywhere; or both, with a record less.                         *)
(***************************************************************************)
EXTENDS WalLog

VARIABLE plan

Plans == {[recs |-> 3, crashes |-> 1, damage |-> 0],
          [recs |-> 3, crashes |-> 0, damage |-> 1],
          [recs |-> 2, crashes |-> 1, damage |-> 1]}

Case(p) == INSTANCE WalLog
    WITH MaxRecords <- p.recs, MaxCrashes <- p.crashes, MaxDamage <- p.damage

MCInit == plan \in Plans /\ Init
MCNext == \E p \in Plans : plan = p /\ Case(p)!Next /\ UNCHANGED plan
MCSpec == MCInit /\ [][MCNext]_<<vars, plan>> /\ WF_vars(Read)
=============================================================================
