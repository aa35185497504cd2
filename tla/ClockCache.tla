----------------------------- MODULE ClockCache -----------------------------
(***************************************************************************)
(* One shard of the clock block cache.  Lookups take no lock: they load a    *)
(* bucket, pin the slot it names by a compare-and-swap on the slot's word,   *)
(* and only then compare the key.  Insert, Erase and the reclamation of an   *)
(* erased slot by its last lease run under the shard's mutex, but every      *)
(* atomic access of theirs that a lookup can see is a step of its own.       *)
(*                                                                           *)
(* A word is a state, the visited bit and the number of pins.  An entry is   *)
(* the block that one Insert brought.  A bucket, a slot and an entry cost    *)
(* one unit of the metadata allowance each.                                  *)
(***************************************************************************)
EXTENDS Integers, Sequences, FiniteSets, FiniteSetsExt, SequencesExt

CONSTANTS Thread, Key,
          Hash,             \* the hash of each key
          Charge,           \* the charges that blocks may have
          Capacity,         \* of the shard
          Allowance,        \* of the shard's metadata
          InitialBuckets,   \* 8 in the code
          SegmentSlots,     \* 8 in the code
          PinAttempts,      \* 8 in the code
          MaxInserts        \* bound: insertions in a behaviour

NoKey == "nokey"
Null == 0
Tombstone == -1
Nobody == "nobody"

ASSUME CacheAssumption ==
    /\ {Capacity, Allowance, MaxInserts} \subseteq Nat
    /\ {InitialBuckets, SegmentSlots, PinAttempts} \subseteq Nat \ {0}
    /\ Charge \subseteq Nat \ {0} /\ Hash \in [Key -> Nat]
    /\ NoKey \notin Key /\ Nobody \notin Thread

VARIABLES slots,     \* the pool: word, key, entry, charge and bucket of each slot
          roots,     \* every index there was; the last one is current
          free,      \* the list of free slots, as a stack
          hand,      \* clock_hand
          usage, live_entries, tombstones,
          mutex,     \* the thread that has it
          alive,     \* the entries that are not deleted
          keys,      \* the key of each entry
          pc, me     \* of each thread

sharedVars == <<slots, roots, free, hand, usage, live_entries, tombstones>>
vars == <<sharedVars, mutex, alive, keys, pc, me>>

Current == Last(roots)
EmptySlot == [state |-> "Empty", visited |-> FALSE, pins |-> 0,
              key |-> NoKey, entry |-> Null, charge |-> 0, bucket |-> 0]
Word(s) == [state |-> slots[s].state, visited |-> slots[s].visited, pins |-> slots[s].pins]

\* A thread: what it looks up or inserts, where it is in its probe, the slot and the
\* word that it observed, what it holds, and what an insertion has still to do.
Idle == [key |-> NoKey, root |-> 0, probe |-> 0, slot |-> Null, tries |-> 0,
         word |-> [state |-> "Empty", visited |-> FALSE, pins |-> 0],
         entry |-> Null, charge |-> 0, then |-> "idle",
         got |-> Null, scan_budget |-> 0, retired |-> {}]

Init == /\ slots = << >> /\ roots = << >> /\ free = << >>
        /\ hand = 1 /\ usage = 0 /\ live_entries = 0 /\ tombstones = 0
        /\ mutex = Nobody
        /\ alive = {} /\ keys = << >>
        /\ pc = [t \in Thread |-> "idle"]
        /\ me = [t \in Thread |-> Idle]

Goto(t, label) == pc' = [pc EXCEPT ![t] = label]
Set(t, local) == me' = [me EXCEPT ![t] = local]

-----------------------------------------------------------------------------
(* Lookups.                                                                  *)

\* AcquireLookupRoot; without an index there is nothing to find.
Lookup(t, k) ==
    /\ pc[t] = "idle" /\ roots # << >>
    /\ Set(t, [Idle EXCEPT !.key = k, !.root = Len(roots)])
    /\ Goto(t, "probe")
    /\ UNCHANGED <<sharedVars, mutex, alive, keys>>

NextBucket(t) == Set(t, [Idle EXCEPT !.key = me[t].key, !.root = me[t].root,
                                     !.probe = me[t].probe + 1])
Misses(t) == Goto(t, "idle") /\ Set(t, Idle)

\* One bucket of LookupFromPosition.
Probe(t) ==
    /\ pc[t] = "probe"
    /\ LET index == roots[me[t].root]
           slot == index.buckets[(Hash[me[t].key] + me[t].probe) % index.count]
       IN IF me[t].probe = index.count \/ slot = Null THEN Misses(t)
          ELSE IF slot = Tombstone THEN NextBucket(t) /\ UNCHANGED pc
          ELSE Goto(t, "observe") /\ Set(t, [me[t] EXCEPT !.slot = slot])
    /\ UNCHANGED <<sharedVars, mutex, alive, keys>>

\* TryPin loads the word; only a Live one is worth an attempt.
Observe(t) ==
    /\ pc[t] = "observe"
    /\ IF slots[me[t].slot].state = "Live"
       THEN Goto(t, "pin") /\ Set(t, [me[t] EXCEPT !.word = Word(me[t].slot), !.tries = PinAttempts])
       ELSE Goto(t, "probe") /\ NextBucket(t)
    /\ UNCHANGED <<sharedVars, mutex, alive, keys>>

\* PinOnce, and the loop of PinFromObservation around it.
PinOnce(t) ==
    /\ pc[t] = "pin"
    /\ LET s == me[t].slot
       IN IF Word(s) = me[t].word
          THEN /\ slots' = [slots EXCEPT ![s].pins = @ + 1, ![s].visited = TRUE]
               /\ Goto(t, "match") /\ UNCHANGED me
          ELSE /\ UNCHANGED slots
               /\ IF me[t].tries = 1 \/ Word(s).state # "Live"
                  THEN Goto(t, "probe") /\ NextBucket(t)
                  ELSE Set(t, [me[t] EXCEPT !.word = Word(s), !.tries = @ - 1]) /\ UNCHANGED pc
    /\ UNCHANGED <<roots, free, hand, usage, live_entries, tombstones, mutex, alive, keys>>

\* FAULT: the word after the release is tested for one pin, not the one before it.
FaultDropPinAfter(t, then) ==
    LET s == me[t].slot
    IN /\ slots' = [slots EXCEPT ![s].pins = @ - 1]
       /\ IF slots[s].state = "Erased" /\ slots[s].pins = 2
          THEN Goto(t, "finish") /\ Set(t, [me[t] EXCEPT !.then = then])
          ELSE IF then = "idle" THEN Misses(t) ELSE Goto(t, "probe") /\ NextBucket(t)

\* DropPin of a pooled slot: the last pin of an erased one leaves its reclamation.
DropPin(t, then) ==
    LET s == me[t].slot
    IN /\ slots' = [slots EXCEPT ![s].pins = @ - 1]
       /\ IF slots[s].state = "Erased" /\ slots[s].pins = 1
          THEN Goto(t, "finish") /\ Set(t, [me[t] EXCEPT !.then = then])
          ELSE IF then = "idle" THEN Misses(t) ELSE Goto(t, "probe") /\ NextBucket(t)

\* FAULT: the key is not compared again once the slot is pinned.
FaultNoMatch(t) ==
    /\ pc[t] = "match"
    /\ Goto(t, "hold") /\ Set(t, [me[t] EXCEPT !.entry = slots[me[t].slot].entry])
    /\ UNCHANGED <<sharedVars, mutex, alive, keys>>

\* MatchesPinned: a handle, or the pin is dropped and the probe goes on.
MatchesPinned(t) ==
    /\ pc[t] = "match"
    /\ IF slots[me[t].slot].key = me[t].key
       THEN /\ Goto(t, "hold")
            /\ Set(t, [me[t] EXCEPT !.entry = slots[me[t].slot].entry])
            /\ UNCHANGED slots
       ELSE DropPin(t, "probe")
    /\ UNCHANGED <<roots, free, hand, usage, live_entries, tombstones, mutex, alive, keys>>

\* Handle::Reset; a standalone slot goes with its entry.
Release(t) ==
    /\ pc[t] = "hold"
    /\ IF me[t].slot = Null
       THEN alive' = alive \ {me[t].entry} /\ Misses(t) /\ UNCHANGED slots
       ELSE DropPin(t, "idle") /\ UNCHANGED alive
    /\ UNCHANGED <<roots, free, hand, usage, live_entries, tombstones, mutex, keys>>

-----------------------------------------------------------------------------
(* The writer's helpers.                                                     *)

\* Rehash: the live slots, in the order of their positions, from their hashes on.
Rehash(count, pool) ==
    LET place(buckets, s) ==
          IF pool[s].state # "Live" THEN buckets
          ELSE LET n == Min({i \in 0 .. count - 1 :
                               buckets[(Hash[pool[s].key] + i) % count] = Null})
               IN [buckets EXCEPT ![(Hash[pool[s].key] + n) % count] = s]
    IN FoldLeft(place, [b \in 0 .. count - 1 |-> Null], [s \in DOMAIN pool |-> s])

BucketOf(buckets, s) == CHOOSE b \in DOMAIN buckets : buckets[b] = s
Rebucketed(pool, buckets) ==
    [s \in DOMAIN pool |-> IF pool[s].state = "Live"
                           THEN [pool[s] EXCEPT !.bucket = BucketOf(buckets, s)] ELSE pool[s]]

\* Find, under the mutex: the slot of the key, or Null.
Find(k) ==
    LET hits == {n \in 0 .. Current.count - 1 :
                   LET slot == Current.buckets[(Hash[k] + n) % Current.count]
                   IN slot \notin {Null, Tombstone} /\ slots[slot].key = k}
        ends == {n \in 0 .. Current.count - 1 :
                   Current.buckets[(Hash[k] + n) % Current.count] = Null}
    IN IF roots = << >> \/ hits = {} THEN Null
       ELSE IF \E n \in ends : n < Min(hits) THEN Null
       ELSE Current.buckets[(Hash[k] + Min(hits)) % Current.count]

\* RemoveIndex: the bucket becomes a tombstone, the charge is given back.
RemoveIndex(s) ==
    /\ roots' = [roots EXCEPT ![Len(roots)].buckets[slots[s].bucket] = Tombstone]
    /\ tombstones' = tombstones + 1
    /\ usage' = usage - slots[s].charge
    /\ live_entries' = live_entries - 1

StorageUnits(count, pooled) ==
    FoldLeft(LAMBDA sum, root : sum + root.count, pooled + count, roots)

Fits(count, pooled, resident) ==
    /\ StorageUnits(count, pooled) <= Allowance
    /\ resident <= Allowance - StorageUnits(count, pooled)

-----------------------------------------------------------------------------
(* Insert.                                                                   *)

\* The buckets that Prepare wants for the resident entries.
BucketsFor(resident) ==
    IF roots = << >> THEN InitialBuckets
    ELSE IF resident > Current.count \div 2 THEN 2 * Current.count ELSE Current.count

\* Up to the erasure of the previous mapping: Find, Prepare and Publish.
InsertBegins(t, k, c) ==
    /\ pc[t] = "idle" /\ mutex = Nobody /\ Len(keys) < MaxInserts
    /\ mutex' = t
    /\ keys' = Append(keys, k)
    /\ alive' = alive \union {Len(keys')}
    /\ LET previous == Find(k)
           without == usage - (IF previous = Null THEN 0 ELSE slots[previous].charge)
           will_free == previous # Null /\ slots[previous].pins = 0
           segment == IF free = << >> /\ ~will_free /\ without <= Capacity - c
                      THEN SegmentSlots ELSE 0
           resident == live_entries + (IF previous = Null THEN 1 ELSE 0)
           count == BucketsFor(resident)
           grows == roots = << >> \/ count # Current.count
           retain == /\ Capacity # 0 /\ c <= Capacity
                     /\ Fits(IF grows THEN count ELSE 0, Len(slots) + segment, resident)
           pool == slots \o [i \in 1 .. segment |-> EmptySlot]
           buckets == Rehash(count, pool)
       IN /\ IF retain
             THEN /\ free' = [i \in 1 .. segment |-> Len(slots) + segment + 1 - i] \o free
                  /\ IF grows
                     THEN /\ roots' = Append(roots, [count |-> count, buckets |-> buckets])
                          /\ slots' = Rebucketed(pool, buckets)
                          /\ tombstones' = 0
                     ELSE slots' = pool /\ UNCHANGED <<roots, tombstones>>
             ELSE UNCHANGED <<slots, roots, free, tombstones>>
          /\ Set(t, [Idle EXCEPT !.key = k, !.charge = c, !.entry = Len(keys'),
                                 !.slot = previous,
                                 !.then = IF retain THEN "reserve" ELSE "reject"])
          /\ Goto(t, IF previous # Null THEN "erase" ELSE IF retain THEN "reserve" ELSE "reject")
    /\ UNCHANGED <<hand, usage, live_entries>>

\* Erase of a key that is there.
EraseBegins(t, k) ==
    /\ pc[t] = "idle" /\ mutex = Nobody
    /\ Find(k) # Null
    /\ mutex' = t
    /\ Set(t, [Idle EXCEPT !.key = k, !.slot = Find(k), !.then = "idle"])
    /\ Goto(t, "erase")
    /\ UNCHANGED <<sharedVars, alive, keys>>

\* Shard::Erase marks the slot, whatever pins come and go.
EraseMarks(t) ==
    /\ pc[t] = "erase"
    /\ slots' = [slots EXCEPT ![me[t].slot].state = "Erased"]
    /\ Set(t, [me[t] EXCEPT !.word = Word(me[t].slot)])
    /\ Goto(t, "unindex")
    /\ UNCHANGED <<roots, free, hand, usage, live_entries, tombstones, mutex, alive, keys>>

Unlock(t, retired) == mutex' = Nobody /\ alive' = alive \ retired

\* The rest of Shard::Erase: unpinned when marked, the slot is free at once.
EraseUnindexes(t) ==
    /\ pc[t] = "unindex"
    /\ RemoveIndex(me[t].slot)
    /\ LET s == me[t].slot
           retired == IF me[t].word.pins = 0 THEN {slots[s].entry} ELSE {}
       IN /\ IF me[t].word.pins = 0
             THEN slots' = [slots EXCEPT ![s] = EmptySlot] /\ free' = <<s>> \o free
             ELSE UNCHANGED <<slots, free>>
          /\ IF me[t].then = "idle" THEN Unlock(t, retired) /\ Misses(t)
             ELSE /\ Set(t, [me[t] EXCEPT !.retired = retired]) /\ Goto(t, me[t].then)
                  /\ UNCHANGED <<mutex, alive>>
    /\ UNCHANGED <<hand, keys>>

\* With a slot in hand: another victim, or on to its publication.
MakesRoom(t, local) ==
    /\ Set(t, local)
    /\ Goto(t, IF usage' > Capacity - me[t].charge THEN "scan" ELSE "refresh")

\* Reserve takes a free slot, or the clock has to find one.
Reserve(t) ==
    /\ pc[t] = "reserve"
    /\ LET local == [me[t] EXCEPT !.scan_budget = 3 * Len(slots)]
       IN IF free # << >>
          THEN /\ slots' = [slots EXCEPT ![Head(free)].state = "Writing"]
               /\ free' = Tail(free)
               /\ UNCHANGED usage
               /\ MakesRoom(t, [local EXCEPT !.got = Head(free)])
          ELSE Set(t, local) /\ Goto(t, "scan") /\ UNCHANGED <<slots, free, usage>>
    /\ UNCHANGED <<roots, hand, live_entries, tombstones, mutex, alive, keys>>

\* FAULT: the scan goes on until there is a victim.
FaultScanForever(t) ==
    /\ pc[t] = "scan"
    /\ Set(t, [me[t] EXCEPT !.slot = hand, !.word = Word(hand)])
    /\ hand' = IF hand = Len(slots) THEN 1 ELSE hand + 1
    /\ Goto(t, "claim")
    /\ UNCHANGED <<slots, free, roots, usage, live_entries, tombstones, mutex, alive, keys>>

\* ReserveVictim observes the word under the hand, or gives up.
Scan(t) ==
    /\ pc[t] = "scan"
    /\ IF me[t].scan_budget = 0
       THEN /\ Set(t, [me[t] EXCEPT !.got = Null]) /\ Goto(t, "reject")
            /\ IF me[t].got = Null THEN UNCHANGED <<slots, free>>
               ELSE /\ slots' = [slots EXCEPT ![me[t].got] = EmptySlot]
                    /\ free' = <<me[t].got>> \o free
            /\ UNCHANGED hand
       ELSE /\ Set(t, [me[t] EXCEPT !.scan_budget = @ - 1, !.slot = hand, !.word = Word(hand)])
            /\ hand' = IF hand = Len(slots) THEN 1 ELSE hand + 1
            /\ Goto(t, "claim")
            /\ UNCHANGED <<slots, free>>
    /\ UNCHANGED <<roots, usage, live_entries, tombstones, mutex, alive, keys>>

\* The claimed slot becomes the one to publish, or a free one when there is one.
Claimed(t) ==
    LET s == me[t].slot
        local == [me[t] EXCEPT !.retired = @ \union {slots[s].entry}]
    IN IF me[t].got = Null
       THEN /\ slots' = [slots EXCEPT ![s] = [EmptySlot EXCEPT !.state = "Writing"]]
            /\ UNCHANGED free
            /\ MakesRoom(t, [local EXCEPT !.got = s])
       ELSE /\ slots' = [slots EXCEPT ![s] = EmptySlot]
            /\ free' = <<s>> \o free
            /\ MakesRoom(t, local)

Skipped(t) == Goto(t, "scan") /\ UNCHANGED <<free, me>>

\* ClaimObservedPosition of an erased slot whose last pin is gone.
ClaimErased(t) ==
    /\ pc[t] = "claim" /\ me[t].word.state = "Erased" /\ me[t].word.pins = 0
    /\ UNCHANGED <<roots, usage, live_entries, tombstones>>
    /\ Claimed(t)
    /\ UNCHANGED <<hand, mutex, alive, keys>>

\* ClaimObservedPosition of any other slot: claimed if it is as observed, live,
\* unpinned and not visited; a visited one gets its second chance.
ClaimLive(t) ==
    /\ pc[t] = "claim" /\ ~(me[t].word.state = "Erased" /\ me[t].word.pins = 0)
    /\ LET s == me[t].slot
           open == me[t].word.state = "Live" /\ me[t].word.pins = 0 /\ Word(s) = me[t].word
       IN IF open /\ ~me[t].word.visited
          THEN RemoveIndex(s) /\ Claimed(t)
          ELSE /\ slots' = IF open THEN [slots EXCEPT ![s].visited = FALSE] ELSE slots
               /\ Skipped(t)
               /\ UNCHANGED <<roots, usage, live_entries, tombstones>>
    /\ UNCHANGED <<hand, mutex, alive, keys>>

NeedsRefresh == tombstones > Current.count \div 4

\* Refresh rebuilds the current index in place: lookups may miss meanwhile.
RefreshClears(t) ==
    /\ pc[t] = "refresh" /\ NeedsRefresh
    /\ roots' = [roots EXCEPT ![Len(roots)].buckets = [b \in DOMAIN @ |-> Null]]
    /\ Goto(t, "refill")
    /\ UNCHANGED <<slots, free, hand, usage, live_entries, tombstones, mutex, alive, keys, me>>

RefreshFills(t) ==
    /\ pc[t] = "refill"
    /\ LET buckets == Rehash(Current.count, slots)
       IN /\ roots' = [roots EXCEPT ![Len(roots)].buckets = buckets]
          /\ slots' = Rebucketed(slots, buckets)
    /\ tombstones' = 0
    /\ Goto(t, "publish")
    /\ UNCHANGED <<free, hand, usage, live_entries, mutex, alive, keys, me>>

\* The slot gets the block and becomes Live with the caller's pin.
Publishes(t) ==
    /\ pc[t] = "publish" \/ (pc[t] = "refresh" /\ ~NeedsRefresh)
    /\ slots' = [slots EXCEPT ![me[t].got] =
                   [EmptySlot EXCEPT !.state = "Live", !.visited = TRUE, !.pins = 1,
                      !.key = me[t].key, !.entry = me[t].entry, !.charge = me[t].charge]]
    /\ Goto(t, "index")
    /\ UNCHANGED <<roots, free, hand, usage, live_entries, tombstones, mutex, alive, keys, me>>

\* IndexSlot, the accounts, and the end of the critical section.
IndexSlot(t) ==
    /\ pc[t] = "index"
    /\ LET h == Hash[me[t].key]
           open == {n \in 0 .. Current.count - 1 :
                      Current.buckets[(h + n) % Current.count] \in {Null, Tombstone}}
           b == (h + Min(open)) % Current.count
       IN /\ tombstones' = IF Current.buckets[b] = Tombstone THEN tombstones - 1 ELSE tombstones
          /\ roots' = [roots EXCEPT ![Len(roots)].buckets[b] = me[t].got]
          /\ slots' = [slots EXCEPT ![me[t].got].bucket = b]
    /\ usage' = usage + me[t].charge
    /\ live_entries' = live_entries + 1
    /\ Unlock(t, me[t].retired)
    /\ Goto(t, "hold")
    /\ Set(t, [Idle EXCEPT !.key = me[t].key, !.slot = me[t].got, !.entry = me[t].entry])
    /\ UNCHANGED <<free, hand, keys>>

\* The block is not retained: its own standalone slot is the lease.
Rejects(t) ==
    /\ pc[t] = "reject"
    /\ Unlock(t, me[t].retired)
    /\ Goto(t, "hold")
    /\ Set(t, [Idle EXCEPT !.key = me[t].key, !.entry = me[t].entry])
    /\ UNCHANGED <<sharedVars, keys>>

-----------------------------------------------------------------------------
(* The end of an erased slot's last lease.                                   *)

Resumes(t) == IF me[t].then = "idle" THEN Misses(t) ELSE Goto(t, "probe") /\ NextBucket(t)

\* FinishRelease looks again once it has the mutex: another writer may have been
\* faster, and the slot may even hold another block by now.
FinishChecks(t) ==
    /\ pc[t] = "finish" /\ mutex = Nobody
    /\ LET s == slots[me[t].slot]
       IN IF s.state = "Erased" /\ s.pins = 0
          THEN mutex' = t /\ Goto(t, "reclaim") /\ UNCHANGED me
          ELSE Resumes(t) /\ UNCHANGED mutex
    /\ UNCHANGED <<sharedVars, alive, keys>>

FinishReclaims(t) ==
    /\ pc[t] = "reclaim"
    /\ slots' = [slots EXCEPT ![me[t].slot] = EmptySlot]
    /\ free' = <<me[t].slot>> \o free
    /\ Unlock(t, {slots[me[t].slot].entry})
    /\ Resumes(t)
    /\ UNCHANGED <<roots, hand, usage, live_entries, tombstones, keys>>

-----------------------------------------------------------------------------
Reads(t) == \/ Probe(t) \/ Observe(t) \/ PinOnce(t) \/ MatchesPinned(t)
Writes(t) == \/ EraseMarks(t) \/ EraseUnindexes(t)
             \/ Reserve(t) \/ Scan(t) \/ ClaimErased(t) \/ ClaimLive(t)
             \/ RefreshClears(t) \/ RefreshFills(t) \/ Publishes(t) \/ IndexSlot(t) \/ Rejects(t)
             \/ FinishChecks(t) \/ FinishReclaims(t)

Next == \E t \in Thread :
          \/ \E k \in Key : Lookup(t, k) \/ EraseBegins(t, k) \/ \E c \in Charge : InsertBegins(t, k, c)
          \/ Reads(t) \/ Release(t) \/ Writes(t)

\* A thread that has begun goes on; when a handle is dropped is the caller's affair.
Spec == Init /\ [][Next]_vars /\ \A t \in Thread : WF_vars(Reads(t) \/ Writes(t))
-----------------------------------------------------------------------------
(* Properties.                                                               *)

\* The slots that a thread has pinned: by a lookup, by a handle, or as the inserter.
Pinned(t) == CASE pc[t] \in {"match", "hold"} -> {me[t].slot} \ {Null}
               [] pc[t] = "index" -> {me[t].got}
               [] OTHER -> {}

\* A handle keeps its block: while Lookup's or Insert's caller has it, the block is
\* not deleted, the slot still holds that very block, and it is the block of the key
\* asked for, whatever is erased, evicted, replaced or reindexed meanwhile.
HandlesKeepBlocks ==
    \A t \in Thread : pc[t] = "hold" =>
       /\ me[t].entry \in alive
       /\ keys[me[t].entry] = me[t].key
       /\ me[t].slot # Null => slots[me[t].slot].entry = me[t].entry

\* The word counts exactly the pins there are, so that "no pins" in Shard::Erase,
\* FinishRelease and the clock means that nobody reads the slot.
PinsCounted ==
    \A s \in DOMAIN slots : slots[s].pins = Cardinality({t \in Thread : s \in Pinned(t)})

Inserting == {"erase", "unindex", "reserve", "scan", "claim", "refresh", "refill", "publish", "reject"}

\* Every block has one owner, so that it is deleted once and never lost: its slot, the
\* insertion that brought it, a standalone lease, or the list of an insertion's retired.
OneOwner ==
    \A e \in DOMAIN keys :
       LET owners == Cardinality({s \in DOMAIN slots : slots[s].entry = e})
                   + Cardinality({t \in Thread : pc[t] \in Inserting /\ me[t].entry = e})
                   + Cardinality({t \in Thread : pc[t] = "hold" /\ me[t].slot = Null /\ me[t].entry = e})
                   + Cardinality({t \in Thread : e \in me[t].retired})
       IN owners = IF e \in alive THEN 1 ELSE 0

\* Nothing is read after it was deleted, deleted twice or forgotten, and what decides it
\* is the pins that the slots' words count.
BlocksOwned == HandlesKeepBlocks /\ PinsCounted /\ OneOwner

\* An erased slot without pins is somebody's to reclaim: the race of DropPin with
\* Shard::Erase leaves it to exactly those that FinishRelease or the eraser covers.
ErasedIsReclaimed ==
    \A s \in DOMAIN slots :
       slots[s].state = "Erased" /\ slots[s].pins = 0 =>
          \E t \in Thread : me[t].slot = s /\ pc[t] \in {"unindex", "finish", "reclaim"}

\* Outside the critical sections the index finds each live slot from its hash, no key
\* is there twice, the counters are exact, the charge is within the capacity, and the
\* free list holds each empty slot once.
IndexSound ==
    mutex = Nobody /\ roots # << >> =>
       LET live == {s \in DOMAIN slots : slots[s].state = "Live"}
       IN /\ \A s \in live : Find(slots[s].key) = s
          /\ live_entries = Cardinality(live)
          /\ usage = MapThenSumSet(LAMBDA s : slots[s].charge, live)
          /\ usage <= Capacity
          /\ tombstones = Cardinality({b \in DOMAIN Current.buckets : Current.buckets[b] = Tombstone})
          /\ IsInjective(free)
          /\ ToSet(free) = {s \in DOMAIN slots : slots[s].state = "Empty"}

\* live + tombstones <= 3B/4, as Shard::Find relies on: a probe of the writer always
\* meets a null bucket.
ProbesEnd ==
    roots # << >> => \E b \in DOMAIN Current.buckets : Current.buckets[b] = Null

\* What the index says is what the slots hold, through every race of readers, erasures
\* and the clock.
IndexExact == ErasedIsReclaimed /\ IndexSound /\ ProbesEnd

\* The shard's mutex is given back: the clock's budget bounds the scan even when every
\* slot is pinned by a handle that is never dropped.
CriticalSectionsEnd == (mutex # Nobody) ~> (mutex = Nobody)
=============================================================================
