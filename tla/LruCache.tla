------------------------------ MODULE LruCache ------------------------------
(***************************************************************************)
(* One shard of the sharded LRU cache: the chained hash table, the list of   *)
(* evictable entries, the list of entries in use, and the references that    *)
(* the cache and its pins have on an entry.  Each operation is one critical  *)
(* section; what it retires is deleted after the unlock, while other threads *)
(* go on.                                                                    *)
(***************************************************************************)
EXTENDS Naturals, Sequences, FiniteSets, SequencesExt, FiniteSetsExt

CONSTANTS Key,
          Hash,            \* the hash of each key
          Charges,         \* the charges of entries
          Capacity,        \* of the shard
          SizeMax,         \* the largest std::size_t
          InitialLength,   \* of the hash table, 4 in the code
          MaxInserts,      \* bound: entries created
          MaxPins          \* bound: pins of an entry

VARIABLES entries,     \* every entry created: key, charge, refs, in_cache
          buckets,     \* the chains of the hash table
          elements,    \* HandleTable::elements_
          lru, in_use, \* the two lists, oldest first
          usage,
          pins,        \* how many pins each entry has
          retired,     \* taken out of the cache, to be deleted
          deleted,
          alive        \* until ~ShardedLruCacheCore

vars == <<entries, buckets, elements, lru, in_use, usage, pins, retired, deleted, alive>>

Length == Cardinality(DOMAIN buckets)
None == 0

-----------------------------------------------------------------------------
(* HandleTable.                                                              *)

ChainOf(k) == Hash[k] % Length

\* Lookup and FindPointer: the first entry of the chain with the key.
Find(k) == LET hits == {i \in DOMAIN buckets[ChainOf(k)] : entries[buckets[ChainOf(k)][i]].key = k}
           IN IF hits = {} THEN None ELSE buckets[ChainOf(k)][Min(hits)]

\* LinkEntry: in the place of the entry it replaces, or at the end of its chain.
Linked(k, e, existing) ==
    [buckets EXCEPT ![ChainOf(k)] =
       IF existing = None THEN Append(@, e) ELSE ReplaceAll(@, existing, e)]

\* RehashInto: each chain in turn, each entry to the front of its new chain.
RehashInto(table, keyOf) ==
    LET length == Cardinality(DOMAIN table)
        all == FoldLeft(LAMBDA acc, b : acc \o table[b], << >>, [i \in 1 .. length |-> i - 1])
    IN [b \in 0 .. 2 * length - 1 |->
          Reverse(SelectSeq(all, LAMBDA e : Hash[keyOf[e]] % (2 * length) = b))]

\* HandleTable::Remove of an entry that is there.
Unlinked(table, k, e) ==
    LET b == Hash[k] % Cardinality(DOMAIN table) IN [table EXCEPT ![b] = SelectSeq(@, LAMBDA x : x # e)]

-----------------------------------------------------------------------------
(* What the operations do to the state of the shard, as one record.          *)

Shard == [entries |-> entries, buckets |-> buckets, elements |-> elements,
          lru |-> lru, in_use |-> in_use, usage |-> usage, retired |-> retired]

Becomes(s) == /\ entries' = s.entries /\ buckets' = s.buckets /\ elements' = s.elements
              /\ lru' = s.lru /\ in_use' = s.in_use /\ usage' = s.usage /\ retired' = s.retired

Without(list, e) == SelectSeq(list, LAMBDA x : x # e)

\* FAULT: an entry goes to the list of the evictable when it has been erased, too.
FaultUnrefErased(s, e) ==
    LET left == s.entries[e].refs - 1
        lower == [s EXCEPT !.entries[e].refs = left]
    IN IF left = 0 THEN [lower EXCEPT !.retired = @ \union {e}]
       ELSE IF left = 1
       THEN [lower EXCEPT !.in_use = Without(@, e), !.lru = Append(@, e)]
       ELSE lower

\* Unref: without references the entry is retired; with the cache's alone it becomes
\* evictable, as the most recently used.
Unref(s, e) ==
    LET left == s.entries[e].refs - 1
        lower == [s EXCEPT !.entries[e].refs = left]
    IN IF left = 0 THEN [lower EXCEPT !.retired = @ \union {e}]
       ELSE IF s.entries[e].in_cache /\ left = 1
       THEN [lower EXCEPT !.in_use = Without(@, e), !.lru = Append(@, e)]
       ELSE lower

\* FinishErase of an entry that the table no longer has.
FinishErase(s, e) ==
    IF e = None THEN s
    ELSE Unref([s EXCEPT !.lru = Without(@, e), !.in_use = Without(@, e),
                         !.entries[e].in_cache = FALSE, !.usage = @ - s.entries[e].charge], e)

EraseMapping(s, e) ==
    FinishErase([s EXCEPT !.buckets = Unlinked(@, s.entries[e].key, e), !.elements = @ - 1], e)

\* FAULT: the most recently used entries go first.
FaultEvictNewest(s) ==
    FoldLeft(LAMBDA acc, e : IF acc.usage > Capacity THEN EraseMapping(acc, e) ELSE acc,
             s, Reverse(s.lru))

\* Evict: from the oldest on, until the usage fits or nothing is evictable.
Evict(s) ==
    FoldLeft(LAMBDA acc, e : IF acc.usage > Capacity THEN EraseMapping(acc, e) ELSE acc, s, s.lru)

-----------------------------------------------------------------------------
Init == /\ entries = << >>
        /\ buckets = [b \in 0 .. InitialLength - 1 |-> << >>] /\ elements = 0
        /\ lru = << >> /\ in_use = << >> /\ usage = 0
        /\ pins = << >> /\ retired = {} /\ deleted = {} /\ alive = TRUE

\* CommitAdmission: the entry is linked and in use before the one it replaces goes.
CommitAdmission(e, k, c) ==
    LET existing == Find(k)
        linked == Linked(k, e, existing)
        keyOf == [i \in 1 .. e |-> IF i = e THEN k ELSE entries[i].key]
        grows == existing = None /\ elements = Length
        made == [key |-> k, charge |-> c, refs |-> 2, in_cache |-> TRUE]
        admitted == [Shard EXCEPT
                       !.entries = Append(@, made),
                       !.buckets = IF grows THEN RehashInto(linked, keyOf) ELSE linked,
                       !.elements = IF existing = None THEN @ + 1 ELSE @,
                       !.in_use = Append(@, e)]
        replaced == FinishErase(admitted, existing)
    IN Evict([replaced EXCEPT !.usage = @ + c])

\* CanAdmit: the sum of the charges must not overflow.
CanAdmit(k, c) ==
    /\ Capacity # 0
    /\ c <= SizeMax - (usage - (IF Find(k) = None THEN 0 ELSE entries[Find(k)].charge))

\* Insert; an entry that is not admitted belongs to its pin alone.
Insert(k, c) ==
    /\ alive
    /\ Len(entries) < MaxInserts
    /\ LET e == Len(entries) + 1
       IN Becomes(IF CanAdmit(k, c) THEN CommitAdmission(e, k, c)
                  ELSE [Shard EXCEPT !.entries = Append(@, [key |-> k, charge |-> c, refs |-> 1,
                                                            in_cache |-> FALSE])])
    /\ pins' = Append(pins, 1)
    /\ UNCHANGED <<deleted, alive>>

\* Ref: the first pin takes the entry out of the evictable ones.
Ref(s, e) ==
    LET more == [s EXCEPT !.entries[e].refs = @ + 1]
    IN IF s.entries[e].refs = 1
       THEN [more EXCEPT !.lru = Without(@, e), !.in_use = Append(@, e)] ELSE more

\* Lookup of a key that is there.
LookupAndRef(k) ==
    /\ Find(k) # None
    /\ pins[Find(k)] < MaxPins
    /\ Becomes(Ref(Shard, Find(k)))
    /\ pins' = [pins EXCEPT ![Find(k)] = @ + 1]
    /\ UNCHANGED <<deleted, alive>>

Erase(k) ==
    /\ Find(k) # None
    /\ Becomes(EraseMapping(Shard, Find(k)))
    /\ UNCHANGED <<pins, deleted, alive>>

Release(e) ==
    /\ pins[e] > 0
    /\ Becomes(Unref(Shard, e))
    /\ pins' = [pins EXCEPT ![e] = @ - 1]
    /\ UNCHANGED <<deleted, alive>>

\* DeleteRetired, after the unlock.
DeleteEntry(e) ==
    /\ e \in retired
    /\ retired' = retired \ {e} /\ deleted' = deleted \union {e}
    /\ UNCHANGED <<entries, buckets, elements, lru, in_use, usage, pins, alive>>

\* ~ShardedLruCacheCore, when every pin has been released: DestroyShard unrefs what is
\* evictable, which is then all there is.
Destroy ==
    /\ alive /\ \A e \in DOMAIN pins : pins[e] = 0
    /\ LET unref(s, e) == Unref([s EXCEPT !.entries[e].in_cache = FALSE], e)
       IN Becomes([FoldLeft(unref, Shard, lru) EXCEPT
                     !.usage = 0, !.lru = << >>, !.elements = 0,
                     !.buckets = [b \in DOMAIN buckets |-> << >>]])
    /\ alive' = FALSE
    /\ UNCHANGED <<pins, deleted>>

Next == \/ Destroy
        \/ \E k \in Key : \/ \E c \in Charges : Insert(k, c)
                          \/ LookupAndRef(k)
                          \/ Erase(k)
        \/ \E e \in DOMAIN entries : Release(e) \/ DeleteEntry(e)

Spec == Init /\ [][Next]_vars

-----------------------------------------------------------------------------
(* Properties.                                                               *)

Cached == {e \in DOMAIN entries : entries[e].in_cache}

\* The references are the pins and the cache's own; an entry without any is retired or
\* deleted, once, and no other one is: nothing that a pin or the table can reach is
\* deleted, and nothing is lost, by the end of the cache neither.
RefsExact ==
    \A e \in DOMAIN entries :
      /\ entries[e].refs = pins[e] + (IF entries[e].in_cache THEN 1 ELSE 0)
      /\ (e \in retired \union deleted) <=> entries[e].refs = 0
      /\ ~(e \in retired /\ e \in deleted)
      /\ ~alive => entries[e].refs = 0

\* "Indexed entries with only the cache reference are evictable in lru.  Indexed
\* entries with pins sit in in_use; erased pins sit in neither list."
ListsExact ==
    /\ IsInjective(lru) /\ IsInjective(in_use)
    /\ ToSet(lru) = {e \in Cached : entries[e].refs = 1}
    /\ ToSet(in_use) = {e \in Cached : entries[e].refs > 1}

\* The table has exactly the cached entries, each where Lookup finds it, and so one
\* for a key at most, through replacement, eviction and growth.
TableExact ==
    /\ elements = Cardinality(Cached)
    /\ \A e \in Cached : Find(entries[e].key) = e
    /\ \A b \in DOMAIN buckets : ToSet(buckets[b]) \subseteq Cached

\* The usage is the charge of the cached entries; pinned ones may exceed the capacity.
UsageExact == usage = MapThenSumSet(LAMBDA e : entries[e].charge, Cached)

\* References, lists, table and usage agree with one another after every operation.
ShardExact == RefsExact /\ ListsExact /\ TableExact /\ UsageExact

\* An insertion evicts only entries without pins, the least recently used ones first
\* and no more of them than it must; it stops when the rest fits or is pinned.
EvictsOldestFirst ==
    [][Len(entries') > Len(entries) /\ Last(entries').in_cache =>
         LET rest == SelectSeq(lru, LAMBDA e : entries[e].key # Last(entries').key)
             evicted == Len(rest) - Len(lru')
         IN /\ IsSuffix(lru', rest)
            /\ usage' <= Capacity \/ lru' = << >>
            /\ evicted > 0 => usage' + entries[rest[evicted]].charge > Capacity]_vars
=============================================================================
