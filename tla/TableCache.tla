----------------------------- MODULE TableCache -----------------------------
(***************************************************************************)
(* The table cache in its shared mode: point reads that reuse a table        *)
(* through a weak, thread-local hint, beside openings, replacements and      *)
(* evictions in one shard.  Every atomic operation is a step of its own.     *)
(***************************************************************************)
EXTENDS Naturals, FiniteSets, FiniteSetsExt

CONSTANTS Reader, Evictor, Cache, File,
          Slots, SlotOf,   \* the hint slot of each cache and file
          Capacity,        \* of the shard
          Terminal,        \* the largest generation
          MaxOpens,        \* bound: tables opened
          MaxEvicts        \* bound: evictions begun

ASSUME TableCacheAssumption ==
    /\ {Capacity, MaxOpens, MaxEvicts} \subseteq Nat /\ Terminal \in Nat \ {0}
    /\ SlotOf \in [Cache \X File -> Slots]

VARIABLES opens, generation,  \* ReuseShard of each cache
          mapped,             \* the table that a cache has for a file
          tables,             \* every table opened: its cache and its file
          inserted,           \* the tables that were in a mapping
          dead,               \* the tables that were destroyed
          hints,              \* ReaderHints of each reader
          get,                \* the call of each reader
          evict,              \* the call of each evictor
          evicts,             \* how many evictions have begun
          evicted,            \* history: in a mapping before an Evict that has returned
          victims             \* history: the caches that closed a table for capacity

vars == <<opens, generation, mapped, tables, inserted, dead, hints, get, evict, evicts,
          evicted, victims>>
shards == <<opens, generation>>
history == <<evicts, evicted, victims>>

None == 0
Opened == DOMAIN tables
NoHint == [cache |-> None, file |-> None, generation |-> 0, table |-> None]

\* A reader's call: which steps are left, the file, whether a hint may be published
\* and at which generation, the table, whether a handle or a locked hint holds it,
\* and the tables that had been evicted when the call began.
IdleGet == [pc |-> "idle", cache |-> None, file |-> None, hinted |-> FALSE, generation |-> 0,
            table |-> None, pinned |-> FALSE, count |-> 0, old |-> {}]
IdleEvict == [pc |-> "idle", cache |-> None, observed |-> 0, old |-> {}]

Held(t) == \E r \in Reader : get[r].table = t
Pinned(t) == \E r \in Reader : get[r].table = t /\ get[r].pinned

-----------------------------------------------------------------------------
Init == /\ opens = [c \in Cache |-> 0] /\ generation = [c \in Cache |-> 0]
        /\ mapped = [c \in Cache |-> [f \in File |-> None]]
        /\ tables = << >> /\ inserted = {} /\ dead = {}
        /\ hints = [r \in Reader |-> [s \in Slots |-> NoHint]]
        /\ get = [r \in Reader |-> IdleGet]
        /\ evict = [e \in Evictor |-> IdleEvict]
        /\ evicts = 0 /\ evicted = {} /\ victims = {}

\* ReuseShard::enabled.
Enabled(c) == Capacity # 0 /\ opens[c] <= Capacity

-----------------------------------------------------------------------------
(* GetShared.                                                                *)

BeginGet(r, c, f) ==
    /\ get[r].pc = "idle"
    /\ get' = [get EXCEPT ![r] = [IdleGet EXCEPT !.cache = c, !.file = f, !.old = evicted,
                                    !.pc = IF Enabled(c) THEN "generation" ELSE "find",
                                    !.hinted = Enabled(c)]]
    /\ UNCHANGED <<shards, mapped, tables, inserted, dead, hints, evict, history>>

Matches(h, c, f, g) == h.file = f /\ h.generation = g /\ h.cache = c

Slot(r) == SlotOf[<<get[r].cache, get[r].file>>]

LoadGeneration(r) ==
    /\ get[r].pc = "generation"
    /\ LET g == generation[get[r].cache]
           matches == Matches(hints[r][Slot(r)], get[r].cache, get[r].file, g)
       IN get' = [get EXCEPT ![r].generation = g, ![r].pc = IF matches THEN "lock" ELSE "find"]
    /\ UNCHANGED <<shards, mapped, tables, inserted, dead, hints, evict, history>>

\* weak_ptr::lock.
Locks(t) == t \notin dead

\* The weak pointer of the hint: the table is read without a handle.
LockHint(r) ==
    /\ get[r].pc = "lock"
    /\ LET t == hints[r][Slot(r)].table
       IN get' = [get EXCEPT ![r] = IF Locks(t) THEN [@ EXCEPT !.pc = "read", !.table = t]
                                    ELSE [@ EXCEPT !.pc = "find"]]
    /\ UNCHANGED <<shards, mapped, tables, inserted, dead, hints, evict, history>>

\* Find: the lookup, under the mutex of the LRU shard.
LookupTable(r) ==
    /\ get[r].pc = "find"
    /\ LET t == mapped[get[r].cache][get[r].file]
       IN get' = [get EXCEPT ![r] = IF t = None THEN [@ EXCEPT !.pc = "open"]
                                    ELSE [@ EXCEPT !.pc = "recheck", !.table = t, !.pinned = TRUE]]
    /\ UNCHANGED <<shards, mapped, tables, inserted, dead, hints, evict, history>>

OpenTable(r) ==
    /\ get[r].pc = "open" /\ Cardinality(Opened) < MaxOpens
    /\ LET t == Cardinality(Opened) + 1
       IN /\ tables' = [u \in 1 .. t |-> IF u = t THEN [cache |-> get[r].cache, file |-> get[r].file]
                                        ELSE tables[u]]
          /\ get' = [get EXCEPT ![r].pc = "record", ![r].table = t]
    /\ UNCHANGED <<shards, mapped, inserted, dead, hints, evict, history>>

OpenFails(r) ==
    /\ get[r].pc = "open"
    /\ get' = [get EXCEPT ![r] = IdleGet]
    /\ UNCHANGED <<shards, mapped, tables, inserted, dead, hints, evict, history>>

\* The condition of RecordOpen's loop.
Counts(count) == count <= Capacity

\* RecordOpen: the load, and the exchange, which a change of the count makes fail.
RecordOpen(r) ==
    /\ get[r].pc = "record"
    /\ LET count == opens[get[r].cache]
       IN get' = [get EXCEPT ![r].count = count,
                             ![r].pc = IF Counts(count) THEN "exchange" ELSE "insert"]
    /\ UNCHANGED <<shards, mapped, tables, inserted, dead, hints, evict, history>>

ExchangeOpens(r) ==
    /\ get[r].pc = "exchange"
    /\ LET now == opens[get[r].cache]
       IN IF now = get[r].count
          THEN /\ opens' = [opens EXCEPT ![get[r].cache] = @ + 1]
               /\ get' = [get EXCEPT ![r].pc = "insert"]
          ELSE /\ get' = [get EXCEPT ![r].count = now,
                                     ![r].pc = IF Counts(now) THEN "exchange" ELSE "insert"]
               /\ UNCHANGED opens
    /\ UNCHANGED <<generation, mapped, tables, inserted, dead, hints, evict, history>>

\* Insert: the table replaces the one of its file, and others that no handle holds go
\* while the shard is above its capacity.
InsertTable(r) ==
    /\ get[r].pc = "insert"
    /\ get' = [get EXCEPT ![r].pc = "recheck", ![r].pinned = TRUE]
    /\ LET c == get[r].cache
           with == [mapped[c] EXCEPT ![get[r].file] = get[r].table]
           there == {f \in File : with[f] # None}
           evictable == {f \in there \ {get[r].file} : ~Pinned(with[f])}
           excess == IF Cardinality(there) > Capacity THEN Cardinality(there) - Capacity ELSE 0
           most == IF Cardinality(evictable) < excess THEN Cardinality(evictable) ELSE excess
       IN IF Capacity = 0 THEN UNCHANGED <<mapped, inserted, victims>>
          ELSE \E gone \in kSubset(most, evictable) :
                 /\ mapped' = [mapped EXCEPT ![c] = [f \in File |-> IF f \in gone THEN None ELSE with[f]]]
                 /\ inserted' = inserted \union {get[r].table}
                 /\ victims' = IF gone = {} THEN victims ELSE victims \union {c}
    /\ UNCHANGED <<shards, tables, dead, hints, evict, evicts, evicted>>

\* The two loads before a hint is published.
Recheck(r) ==
    /\ get[r].pc = "recheck"
    /\ get' = [get EXCEPT ![r].pc = IF get[r].hinted /\ Enabled(get[r].cache) THEN "publish" ELSE "read"]
    /\ UNCHANGED <<shards, mapped, tables, inserted, dead, hints, evict, history>>

\* FAULT: the hint has the generation of its publication.
FaultPublishes(r, g) == hints' = [hints EXCEPT ![r][Slot(r)] =
    [cache |-> get[r].cache, file |-> get[r].file, generation |-> g, table |-> get[r].table]]

Publishes(r, g) ==
    IF g = get[r].generation
    THEN hints' = [hints EXCEPT ![r][Slot(r)] = [cache |-> get[r].cache, file |-> get[r].file,
                                                generation |-> g, table |-> get[r].table]]
    ELSE UNCHANGED hints

PublishHint(r) ==
    /\ get[r].pc = "publish"
    /\ Publishes(r, generation[get[r].cache])
    /\ get' = [get EXCEPT ![r].pc = "read"]
    /\ UNCHANGED <<shards, mapped, tables, inserted, dead, evict, history>>

\* Table::Get, and the release of the handle or of the locked hint.
EndGet(r) ==
    /\ get[r].pc = "read"
    /\ get' = [get EXCEPT ![r] = IdleGet]
    /\ UNCHANGED <<shards, mapped, tables, inserted, dead, hints, evict, history>>

\* The last owner of a table closes it.
Destroy(t) ==
    /\ t \notin dead /\ ~Held(t)
    /\ \A c \in Cache, f \in File : mapped[c][f] # t
    /\ dead' = dead \union {t}
    /\ UNCHANGED <<shards, mapped, tables, inserted, hints, get, evict, history>>

-----------------------------------------------------------------------------
(* Evict.                                                                    *)

EraseTable(e, c, f) ==
    /\ evict[e].pc = "idle" /\ evicts < MaxEvicts
    /\ evict' = [evict EXCEPT ![e] = [pc |-> "begin", cache |-> c, observed |-> 0,
                                      old |-> {t \in inserted : tables[t] = [cache |-> c, file |-> f]}]]
    /\ mapped' = [mapped EXCEPT ![c][f] = None]
    /\ evicts' = evicts + 1
    /\ UNCHANGED <<shards, tables, inserted, dead, hints, get, evicted, victims>>

BeginInvalidation(e) ==
    /\ evict[e].pc = "begin"
    /\ LET g == generation[evict[e].cache]
       IN evict' = [evict EXCEPT ![e].observed = g,
                                 ![e].pc = IF g + 1 >= Terminal THEN "close" ELSE "complete"]
    /\ UNCHANGED <<shards, mapped, tables, inserted, dead, hints, get, history>>

Closed(c) == [opens EXCEPT ![c] = Capacity + 1]

CloseGate(e) ==
    /\ evict[e].pc = "close"
    /\ opens' = Closed(evict[e].cache)
    /\ evict' = [evict EXCEPT ![e].pc = "complete"]
    /\ UNCHANGED <<generation, mapped, tables, inserted, dead, hints, get, history>>

EndEvict(e) ==
    /\ evict' = [evict EXCEPT ![e] = IdleEvict]
    /\ evicted' = evicted \union evict[e].old

\* CompleteInvalidation: one turn of its loop.
CompleteInvalidation(e) ==
    /\ evict[e].pc = "complete"
    /\ LET c == evict[e].cache
       IN IF evict[e].observed = Terminal THEN EndEvict(e) /\ UNCHANGED generation
          ELSE IF generation[c] = evict[e].observed
          THEN generation' = [generation EXCEPT ![c] = @ + 1] /\ EndEvict(e)
          ELSE evict' = [evict EXCEPT ![e].pc = "begin"] /\ UNCHANGED <<generation, evicted>>
    /\ UNCHANGED <<opens, mapped, tables, inserted, dead, hints, get, evicts, victims>>

-----------------------------------------------------------------------------
GetStep(r) == \/ LoadGeneration(r) \/ LockHint(r) \/ LookupTable(r) \/ OpenTable(r) \/ OpenFails(r)
              \/ RecordOpen(r) \/ ExchangeOpens(r) \/ InsertTable(r)
              \/ Recheck(r) \/ PublishHint(r) \/ EndGet(r)

EvictStep(e) == BeginInvalidation(e) \/ CloseGate(e) \/ CompleteInvalidation(e)

Next == \/ \E r \in Reader : GetStep(r) \/ \E c \in Cache, f \in File : BeginGet(r, c, f)
        \/ \E e \in Evictor : EvictStep(e) \/ \E c \in Cache, f \in File : EraseTable(e, c, f)
        \/ \E t \in Opened : Destroy(t)

Spec == Init /\ [][Next]_vars

-----------------------------------------------------------------------------
(* Properties.                                                               *)

\* "A later operation after Evict completes must not reuse an old hint": a read that
\* began after an Evict had returned never reads, through a hint, a table that the
\* cache had before that Evict.
NoStaleHint ==
    \A r \in Reader : get[r].pc = "read" /\ ~get[r].pinned => get[r].table \notin get[r].old

\* A read gets the table of its own file in its own cache, although hints are shared
\* by all the caches of a thread and by the files of a slot.
OwnTable ==
    \A r \in Reader : get[r].pc = "read" =>
      tables[get[r].table] = [cache |-> get[r].cache, file |-> get[r].file]

\* "Terminal generations are published only after closure": with concurrent evictions
\* and openings, too, the gate is closed for good before the last generation shows.
GateClosesFirst == \A c \in Cache : generation[c] = Terminal => ~Enabled(c)

\* While hints may be used, no table has been closed for capacity: a use through a hint,
\* which the LRU order does not see, cost no table its place.
NoVictimWhileOpen == \A c \in victims : ~Enabled(c)

\* A hint is as good as a lookup: the reader's own table, not one from before an eviction,
\* and nobody loses a place by it.
HintsSound == NoStaleHint /\ OwnTable /\ GateClosesFirst /\ NoVictimWhileOpen
=============================================================================
