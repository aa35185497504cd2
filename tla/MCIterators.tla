---------------------------- MODULE MCIterators ----------------------------
(***************************************************************************)
(* Iterators for TLC.  A behaviour follows one of three plans: every       *)
(* placement of three entries; two entries, a write and a move that fails; *)
(* two entries and two writes.  An entry that is written is above the      *)
(* iterator's sequence, so its kind is not looked at: two writes are of    *)
(* values.                                                                 *)
(***************************************************************************)
EXTENDS Iterators

VARIABLE plan

Plans == {[entries |-> 3, writes |-> 0, written |-> {}, fails |-> 0],
          [entries |-> 2, writes |-> 1, written |-> Kind, fails |-> 1],
          [entries |-> 2, writes |-> 2, written |-> {"Value"}, fails |-> 0]}

Case(p) == INSTANCE Iterators
    WITH Entries <- p.entries, MaxWrites <- p.writes, Written <- p.written, MaxFailures <- p.fails

MCInit == plan \in Plans /\ \E p \in Plans : plan = p /\ Case(p)!Init
MCNext == \E p \in Plans : plan = p /\ Case(p)!Next /\ UNCHANGED plan
Goes == /\ pc # "idle"
        /\ \E p \in Plans : plan = p /\ (Case(p)!Walk \/ Case(p)!Ends) /\ UNCHANGED plan
MCSpec == MCInit /\ [][MCNext]_<<vars, plan>> /\ WF_<<vars, plan>>(Goes)

\* CursorExact and NoChildAhead, in every plan: what a call of DbIterator shows is exact,
\* and the merging iterator under it has passed over nothing.
WalksExact == \A p \in Plans : plan = p => Case(p)!CursorExact /\ Case(p)!NoChildAhead
=============================================================================
