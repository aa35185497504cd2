----------------------------- MODULE MCLsmTree -----------------------------
(***************************************************************************)
(* LsmTree for TLC.  A behaviour follows one of several plans: four for    *)
(* the shape of the tree, and two for what reads return.                   *)
(***************************************************************************)
EXTENDS LsmTree

CONSTANT s1

VARIABLE plan

Plan(k, h, deepest, target, w, c) ==
  [kinds |-> k, handles |-> h, deepest |-> deepest, target |-> target, writes |-> w, charges |-> c]

\* Every flush goes to level 0: compactions of versions that a snapshot keeps, and of
\* more writes and tombstones; flushes go as deep as nothing overlaps; reads charge
\* seeks while versions change under them.
Plans == {Plan({"value"}, {s1}, 0, 1, 4, 0), Plan(Kind, {}, 0, 1, 5, 0),
          Plan(Kind, {}, 1, 2, 4, 0), Plan(Kind, {s1}, 0, 1, 3, 1)}

Case(p) == INSTANCE LsmTree
  WITH Kind <- p.kinds, Handle <- p.handles, MaxMemTableOutputLevel <- p.deepest,
       TargetFileSize <- p.target, MaxWrites <- p.writes, MaxCharges <- p.charges

MCInit == plan \in Plans /\ Init
MCNext == \E p \in Plans : plan = p /\ Case(p)!Next /\ UNCHANGED plan
MCSpec == MCInit /\ [][MCNext]_<<vars, plan>>

\* Reads at every sequence, with a snapshot; and beside reads that charge seeks.
ReadPlans == {Plan(Kind, {s1}, 2, 1, 4, 0), Plan(Kind, {s1}, 2, 1, 3, 1)}

ReadInit == plan \in ReadPlans /\ Init
ReadNext == \E p \in ReadPlans : plan = p /\ Case(p)!Next /\ UNCHANGED plan
ReadSpec == ReadInit /\ [][ReadNext]_<<vars, plan>>
=============================================================================
