------------------------------ MODULE KvStore ------------------------------
(***************************************************************************)
(* What the database promises its callers: a map that each write changes   *)
(* at once, and snapshots that keep the map as it was when they were       *)
(* taken.  Levels, memory tables, compactions and seek statistics do not   *)
(* appear: they may not be seen through reads (engine/database.h).         *)
(***************************************************************************)
EXTENDS Naturals

CONSTANTS Key,      \* the user keys
          Value,    \* what a key can be bound to: the number of a write
          Absent,   \* what reading an unbound key returns
          Handle    \* the snapshots a caller can hold

VARIABLES writes,   \* how many writes there have been
          now,      \* the current map
          kept      \* for every held snapshot, the map it keeps

vars == <<writes, now, kept>>

Init == /\ writes = 0
        /\ now = [k \in Key |-> Absent]
        /\ kept = [h \in {} |-> now]

\* DatabaseEngine::Write of one record: bind a key to the value written, which is the
\* number of the write, or to none.
Write(k, value) == /\ writes' = writes + 1
                   /\ now' = [now EXCEPT ![k] = value]
                   /\ UNCHANGED kept
Put(k) == writes + 1 \in Value /\ Write(k, writes + 1)
Delete(k) == Write(k, Absent)

GetSnapshot(h) ==
  /\ h \notin DOMAIN kept
  /\ kept' = [g \in DOMAIN kept \union {h} |-> IF g = h THEN now ELSE kept[g]]
  /\ UNCHANGED <<writes, now>>

ReleaseSnapshot(h) ==
  /\ h \in DOMAIN kept
  /\ kept' = [g \in DOMAIN kept \ {h} |-> kept[g]]
  /\ UNCHANGED <<writes, now>>

Next == \/ \E k \in Key : Put(k) \/ Delete(k)
        \/ \E h \in Handle : GetSnapshot(h) \/ ReleaseSnapshot(h)

Spec == Init /\ [][Next]_vars
=============================================================================
