------------------------------ MODULE MemTable ------------------------------
(***************************************************************************)
(* The memtable: a skip list with one writer and concurrent readers, down to *)
(* its loads and stores.  There being one writer, its stores have one order, *)
(* the stamps.  A reader that loads what a release store wrote knows all the *)
(* stores up to it; of any location it may load the last store it knows or   *)
(* any later one.  A node is named by the sequence of its entry.             *)
(***************************************************************************)
EXTENDS Naturals, Sequences, FiniteSets, FiniteSetsExt

CONSTANTS Reader, UserKey,
          MaxHeight,
          MaxEntries     \* bound: entries added

VARIABLES key,           \* the user key of each entry, by sequence
          links,         \* the stores to each link of each node, oldest first
          max_height_,   \* the stores to it
          stamp,         \* the number of stores so far
          insertion,     \* the insertion under way
          published,     \* the last sequence that readers are told, and its stamp
          reader

vars == <<key, links, max_height_, stamp, insertion, published, reader>>

HeadNode == 0
Null == MaxEntries + 1
Garbage == MaxEntries + 2   \* memory that is not initialized, as its reader knows it
Levels == 0 .. MaxHeight - 1
Entries == 1 .. Len(key)

\* InternalKeyComparator: by user key, and the newest version first.
PairBefore(k, s, k2, s2) == k < k2 \/ (k = k2 /\ s > s2)
Before(a, k, s) == PairBefore(key[a], a, k, s)

Store(value, at, release) == [value |-> value, stamp |-> at, release |-> release]
Latest(stores) == stores[Len(stores)].value

-----------------------------------------------------------------------------
NoInsertion == [at |-> "none", node |-> 0, height |-> 0, level |-> 0,
                preds |-> [l \in Levels |-> HeadNode]]
Idle == [at |-> "idle", op |-> "none", key |-> 0, seq |-> 0, bounded |-> FALSE, known |-> 0,
         view |-> 0, node |-> HeadNode, level |-> 0, lastNotLess |-> Null, result |-> Null]

Init == /\ key = << >>
        /\ links = [n \in 0 .. MaxEntries, l \in Levels |->
                      IF n = HeadNode THEN <<Store(Null, 0, FALSE)>> ELSE <<Store(Garbage, 0, FALSE)>>]
        /\ max_height_ = <<Store(1, 0, FALSE)>>
        /\ stamp = 0 /\ insertion = NoInsertion
        /\ published = [seq |-> 0, stamp |-> 0]
        /\ reader = [r \in Reader |-> Idle]

-----------------------------------------------------------------------------
(* The writer.                                                               *)

\* FindGreaterOrEqual by the writer, which sees its own stores: the last node before
\* the entry on each level that is in use, and the head above.
Predecessors(n, k) ==
    [l \in Levels |->
       LET on == {m \in 1 .. n - 1 : PairBefore(key[m], m, k, n)
                                     /\ Latest(links[m, l]) \in 1 .. MaxEntries \union {Null}}
       IN IF on = {} THEN HeadNode
          ELSE CHOOSE m \in on : \A o \in on : o = m \/ PairBefore(key[o], o, key[m], m)]

\* NewNode, with the height that RandomHeight draws: null links, and nobody knows it yet.
Add(k, height) ==
    /\ insertion.at = "none" /\ Len(key) < MaxEntries
    /\ LET n == Len(key) + 1
       IN /\ key' = Append(key, k)
          /\ links' = [m \in 0 .. MaxEntries, l \in Levels |->
                         IF m = n /\ l < height THEN Append(links[m, l], Store(Null, stamp + 1, FALSE))
                         ELSE links[m, l]]
          /\ insertion' = [at |-> "height", node |-> n, height |-> height, level |-> 0,
                           preds |-> Predecessors(n, k)]
    /\ stamp' = stamp + 1
    /\ UNCHANGED <<max_height_, published, reader>>

PublishHeightIfNeeded ==
    /\ insertion.at = "height"
    /\ IF insertion.height > Latest(max_height_)
       THEN /\ max_height_' = Append(max_height_, Store(insertion.height, stamp + 1, FALSE))
            /\ stamp' = stamp + 1
       ELSE UNCHANGED <<max_height_, stamp>>
    /\ insertion' = [insertion EXCEPT !.at = "out"]
    /\ UNCHANGED <<key, links, published, reader>>

\* FAULT: the levels are linked from the top down.
FaultLinkedLevel(i) == i.height - 1 - i.level

\* The loop goes from the bottom up.
LinkedLevel(i) == i.level

\* LinkNodeAtLevel: the node's own link, and then the one that makes it reachable.
SetNodeLink ==
    /\ insertion.at = "out"
    /\ LET l == LinkedLevel(insertion)
           next == Latest(links[insertion.preds[l], l])
       IN links' = [links EXCEPT ![insertion.node, l] = Append(@, Store(next, stamp + 1, FALSE))]
    /\ stamp' = stamp + 1
    /\ insertion' = [insertion EXCEPT !.at = "in"]
    /\ UNCHANGED <<key, max_height_, published, reader>>

\* SetNext's memory order.
Releases == TRUE

SetPredecessorLink ==
    /\ insertion.at = "in"
    /\ LET l == LinkedLevel(insertion)
       IN links' = [links EXCEPT ![insertion.preds[l], l] =
                      Append(@, Store(insertion.node, stamp + 1, Releases))]
    /\ stamp' = stamp + 1
    /\ insertion' = IF insertion.level + 1 = insertion.height THEN NoInsertion
                    ELSE [insertion EXCEPT !.at = "out", !.level = @ + 1]
    /\ UNCHANGED <<key, max_height_, published, reader>>

\* The write path publishes the sequence of its group under the mutex.
Publish ==
    /\ insertion.at = "none" /\ published.seq < Len(key)
    /\ published' = [seq |-> Len(key), stamp |-> stamp]
    /\ UNCHANGED <<key, links, max_height_, stamp, insertion, reader>>

-----------------------------------------------------------------------------
(* The readers.                                                              *)

\* The stores that a load may return to a reader with this view.
Loadable(stores, view) ==
    LET known == {i \in DOMAIN stores : stores[i].stamp <= view}
    IN {stores[i] : i \in Max(known) .. Len(stores)}

Acquired(view, s) == IF s.release /\ s.stamp > view THEN s.stamp ELSE view

\* A read begins, at a sequence that was published under the mutex.
Begin(r, op, k, s, bounded) ==
    /\ reader[r].at = "idle"
    /\ reader' = [reader EXCEPT ![r] = [Idle EXCEPT
                    !.at = "height", !.op = op, !.key = k, !.seq = s, !.bounded = bounded,
                    !.known = published.seq, !.view = published.stamp]]
    /\ UNCHANGED <<key, links, max_height_, stamp, insertion, published>>

\* Lookup, and Seek of an iterator at a published sequence.
Lookup(r) == \E k \in UserKey, s \in 0 .. published.seq : Begin(r, "seek", k, s, TRUE)

\* SeekToLast, and Prev from an entry that is known.
SeekToLast(r) == Begin(r, "before", 0, 0, FALSE)
Prev(r) == \E e \in 1 .. published.seq : Begin(r, "before", key[e], e, TRUE)

CurrentHeight(r) ==
    /\ reader[r].at = "height"
    /\ \E s \in Loadable(max_height_, reader[r].view) :
         reader' = [reader EXCEPT ![r].at = "walk", ![r].level = s.value - 1]
    /\ UNCHANGED <<key, links, max_height_, stamp, insertion, published>>

\* The comparison of a turn: the walk goes down, not on.
Descends(r, next) ==
    IF reader[r].op = "seek"
    THEN ~(next # Null /\ next # reader[r].lastNotLess /\ Before(next, reader[r].key, reader[r].seq))
    ELSE next = Null \/ (reader[r].bounded /\ ~Before(next, reader[r].key, reader[r].seq))

\* One turn of FindGreaterOrEqual or FindLastBefore.
Walk(r) ==
    /\ reader[r].at = "walk"
    /\ \E s \in Loadable(links[reader[r].node, reader[r].level], reader[r].view) :
         LET v == Acquired(reader[r].view, s)
             result == IF reader[r].op = "seek" THEN s.value
                       ELSE IF reader[r].node = HeadNode THEN Null ELSE reader[r].node
         IN reader' = [reader EXCEPT ![r] =
              IF s.value = Garbage THEN [@ EXCEPT !.at = "done", !.result = Garbage]
              ELSE IF ~Descends(r, s.value) THEN [@ EXCEPT !.node = s.value, !.view = v]
              ELSE IF @.level = 0 THEN [@ EXCEPT !.at = "done", !.result = result, !.view = v]
              ELSE [@ EXCEPT !.level = @ - 1, !.lastNotLess = s.value, !.view = v]]
    /\ UNCHANGED <<key, links, max_height_, stamp, insertion, published>>

\* Next of an iterator, from the node that it has found.
StepNext(r) ==
    /\ reader[r].at = "done" /\ reader[r].result \in Entries
    /\ LET n == reader[r].result
       IN \E s \in Loadable(links[n, 0], reader[r].view) :
            reader' = [reader EXCEPT ![r].op = "next", ![r].key = key[n], ![r].seq = n,
                                     ![r].result = s.value, ![r].view = Acquired(@, s)]
    /\ UNCHANGED <<key, links, max_height_, stamp, insertion, published>>

End(r) ==
    /\ reader[r].at = "done"
    /\ reader' = [reader EXCEPT ![r] = Idle]
    /\ UNCHANGED <<key, links, max_height_, stamp, insertion, published>>

Next == \/ \E k \in UserKey, h \in 1 .. MaxHeight : Add(k, h)
        \/ PublishHeightIfNeeded \/ SetNodeLink \/ SetPredecessorLink \/ Publish
        \/ \E r \in Reader : \/ Lookup(r) \/ SeekToLast(r) \/ Prev(r)
                             \/ CurrentHeight(r) \/ Walk(r) \/ StepNext(r) \/ End(r)

Spec == Init /\ [][Next]_vars

-----------------------------------------------------------------------------
(* Properties.                                                               *)

\* "The key and outgoing link are initialized before the node becomes reachable", and
\* no link above a node's height is read: a reader meets no uninitialized memory.
NoGarbage ==
    \A r \in Reader : /\ reader[r].result # Garbage
                      /\ reader[r].node # HeadNode => reader[r].view >= links[reader[r].node, 0][2].stamp

Found(r) == reader[r].result \in Entries
Done(r, op) == reader[r].at = "done" /\ reader[r].op = op

\* A lookup at a published sequence finds exactly the newest version up to it, or that
\* there is none, whatever is being inserted meanwhile and however late the reader sees
\* heights and links.
LookupExact ==
    \A r \in Reader : Done(r, "seek") =>
      LET versions == {e \in 1 .. reader[r].seq : key[e] = reader[r].key}
          match == Found(r) /\ key[reader[r].result] = reader[r].key
      IN IF versions = {} THEN ~match ELSE match /\ reader[r].result = Max(versions)

\* Next, Prev and SeekToLast skip no entry that was published when the read began, and
\* move in the order of the keys.
MovesSkipNothing ==
    \A r \in Reader :
      LET k == reader[r].key
          s == reader[r].seq
          n == reader[r].result
      IN /\ Done(r, "next") =>
              /\ Found(r) => PairBefore(k, s, key[n], n)
              /\ \A e \in 1 .. reader[r].known :
                   PairBefore(k, s, key[e], e) => Found(r) /\ ~Before(e, key[n], n)
         /\ Done(r, "before") =>
              /\ Found(r) /\ reader[r].bounded => Before(n, k, s)
              /\ \A e \in 1 .. reader[r].known :
                   (reader[r].bounded => Before(e, k, s)) => Found(r) /\ ~Before(n, key[e], e)

\* What readers without a lock see of the list is right while the writer links nodes.
MemTableReads == NoGarbage /\ LookupExact /\ MovesSkipNothing
=============================================================================
