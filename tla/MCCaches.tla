------------------------------ MODULE MCCaches ------------------------------
(***************************************************************************)
(* LruCache and TableCache for TLC.  They share no state, so a behaviour   *)
(* moves one of them and the other rests; the table cache moves by one of  *)
(* three plans.                                                            *)
(***************************************************************************)
EXTENDS TableCache, TLC

CONSTANTS r1, r2, e1, e2, k1, k2, k3

VARIABLES entries, buckets, elements, lru, in_use, usage, pins, retired, deleted, alive,
          plan

lruVars == <<entries, buckets, elements, lru, in_use, usage, pins, retired, deleted, alive>>

\* Two keys that collide in every table, and one that parts from them as it grows.
Hashes == [k \in {k1, k2, k3} |-> IF k = k3 THEN 1 ELSE 0]

Lru == INSTANCE LruCache
    WITH Key <- {k1, k2, k3}, Hash <- Hashes, Charges <- {1, 3}, Capacity <- 3, SizeMax <- 5,
         InitialLength <- 1, MaxInserts <- 4, MaxPins <- 2

Hint(readers, evictors, caches, room, opening, evicting) ==
    [part |-> "hints", readers |-> readers, evictors |-> evictors, caches |-> caches,
     room |-> room, opens |-> opening, evicts |-> evicting]

\* Two readers against two evictions; one reader against three, which reach the last
\* generation; two caches and two files in one slot, with room for one table.
HintPlans == {Hint({r1, r2}, {e1, e2}, {1}, 2, 2, 2),
              Hint({r1}, {e1, e2}, {1}, 2, 3, 3),
              Hint({r1, r2}, {e1}, {1, 2}, 1, 3, 0)}
LruPlan == [part |-> "lru"]

Case(p) == INSTANCE TableCache
    WITH Reader <- p.readers, Evictor <- p.evictors, Cache <- p.caches, File <- p.caches,
         SlotOf <- [cf \in p.caches \X p.caches |-> 1], Capacity <- p.room,
         MaxOpens <- p.opens, MaxEvicts <- p.evicts

OneSlot == [cf \in Cache \X File |-> 1]

MCInit ==
    /\ Lru!Init
    /\ \/ plan = LruPlan /\ Init
       \/ \E p \in HintPlans : plan = p /\ Case(p)!Init
MCNext ==
    \/ plan.part = "lru" /\ Lru!Next /\ UNCHANGED <<vars, plan>>
    \/ /\ plan.part = "hints"
       /\ \E p \in HintPlans : plan = p /\ Case(p)!Next
       /\ UNCHANGED <<lruVars, plan>>
MCSpec == MCInit /\ [][MCNext]_<<vars, lruVars, plan>>

Alike == Permutations({k1, k2}) \union Permutations({r1, r2}) \union Permutations({e1, e2})

\* Cached and pinned entries, lists, hash table and usage always agree (LruCache.ShardExact).
LruExact == Lru!ShardExact

\* An insertion evicts the least recently used unpinned entries and no more of them than
\* it must (LruCache.EvictsOldestFirst).
LruEvictsOldest == Lru!EvictsOldestFirst

\* A read through a weak hint is as good as a lookup (TableCache.HintsSound).
HintedReads == \A p \in HintPlans : plan = p => Case(p)!HintsSound
=============================================================================
