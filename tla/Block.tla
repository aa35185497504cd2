------------------------------- MODULE Block -------------------------------
(***************************************************************************)
(* A table block: the builder's prefix compression and restart points, the   *)
(* validation of a block, and the moves of its iterator with the cache that  *)
(* serves a walk backwards.  Offsets count entries: entry i begins at i - 1. *)
(* The words of the restart array follow the entries, one place each, and    *)
(* the count of them is the last word.                                       *)
(***************************************************************************)
EXTENDS Naturals, Sequences, FiniteSets, SequencesExt, FiniteSetsExt

CONSTANTS Letter,           \* a set of numbers; keys are sequences of letters
          MaxLength,        \* bound: letters of a key
          MinLength,        \* the least size of a key, InternalKeyTrailerSize
          RestartInterval,
          MaxEntries,       \* bound: entries of a block
          EntryCost, Budget \* of the reverse cache: an entry, and all of it

VARIABLES phase,      \* "build", then "read", or "refused" by Block::Create
          keys,       \* history: the keys added
          buffer,     \* the entries: shared, delta, value, and whether they are malformed
          restarts, last_key, entries_since_restart,
          it,         \* the iterator
          cursor      \* history: the entry that the moves should have led to

vars == <<phase, keys, buffer, restarts, last_key, entries_since_restart, it, cursor>>

Keys == UNION {[1 .. n -> Letter] : n \in 0 .. MaxLength}
Stored == {k \in Keys : Len(k) >= MinLength}

\* The comparator: bytewise order.
Less(a, b) ==
    LET m == IF Len(a) < Len(b) THEN Len(a) ELSE Len(b)
        differ == {i \in 1 .. m : a[i] # b[i]}
    IN IF differ = {} THEN Len(a) < Len(b) ELSE a[Min(differ)] < b[Min(differ)]

Prefix(k, n) == SubSeq(k, 1, Min({n, Len(k)}))
End == Len(buffer)             \* entries_end
Count == Len(restarts)         \* restart_count, with the first one
RestartPoint(i) == restarts[i + 1]
Empty == Count = 0 \/ End = 0 \/ RestartPoint(0) >= End

-----------------------------------------------------------------------------
(* BlockBuilder.                                                             *)

SharedPrefixLength(a, b) ==
    Max({n \in 0 .. Len(a) : n <= Len(b) /\ Prefix(a, n) = Prefix(b, n)})

SharedLength(restart, k) == IF restart THEN 0 ELSE SharedPrefixLength(last_key, k)

Idle == [current |-> 0, next |-> 0, restart |-> 1, own |-> << >>,
         borrowed |-> [from |-> "none", key |-> << >>, at |-> 0], value |-> 0,
         corrupted |-> FALSE, active |-> FALSE, cache |-> << >>, position |-> 0, ok |-> TRUE]

Init == /\ phase = "build" /\ keys = << >> /\ buffer = << >>
        /\ restarts = <<0>> /\ last_key = << >> /\ entries_since_restart = 0
        /\ it = Idle /\ cursor = 0

Add(k) ==
    /\ phase = "build" /\ Len(buffer) < MaxEntries
    /\ keys # << >> => Less(Last(keys), k)
    /\ LET restart == entries_since_restart = RestartInterval
           shared == SharedLength(restart, k)
       IN /\ restarts' = IF restart THEN Append(restarts, Len(buffer)) ELSE restarts
          /\ buffer' = Append(buffer, [shared |-> shared, delta |-> SubSeq(k, shared + 1, Len(k)),
                                       value |-> Len(buffer) + 1, bad |-> FALSE])
          /\ last_key' = Prefix(last_key, shared) \o SubSeq(k, shared + 1, Len(k))
          /\ entries_since_restart' = IF restart THEN 1 ELSE entries_since_restart + 1
    /\ keys' = Append(keys, k)
    /\ UNCHANGED <<phase, it, cursor>>

\* BlockBuilder::Reset, for the next block.
Reset == /\ phase = "build" /\ buffer # << >>
         /\ keys' = << >> /\ buffer' = << >> /\ restarts' = <<0>>
         /\ last_key' = << >> /\ entries_since_restart' = 0
         /\ UNCHANGED <<phase, it, cursor>>

\* Block::Create of what is now in the buffer, and an iterator on the block.
Opens == /\ phase' = "read"
         /\ it' = [Idle EXCEPT !.current = End', !.next = End', !.restart = Count']
         /\ cursor' = End'
         /\ UNCHANGED <<keys, last_key, entries_since_restart>>

Finish == /\ phase = "build" /\ UNCHANGED <<buffer, restarts>> /\ Opens

\* The block is read back with one entry or one restart point damaged.
FinishDamagedEntry(i, shared, bad) ==
    /\ phase = "build"
    /\ buffer' = [buffer EXCEPT ![i].shared = shared, ![i].bad = bad]
    /\ UNCHANGED restarts
    /\ Opens

FinishDamagedRestart(j, offset) ==
    /\ phase = "build"
    /\ restarts' = [restarts EXCEPT ![j] = offset]
    /\ UNCHANGED buffer
    /\ Opens

\* ReadRestartCount: a block of so many words has room for its count, and for the
\* restart array before it.
HasRestartArray(words, count) == words >= 1 /\ count <= words - 1

\* The block is read back cut to so many words, or whole with another count in its last
\* word.  Restart points taken for entries are malformed or empty keys, and entries
\* taken for restart points any offset.
FinishDamagedCount(words, count, bad, offset) ==
    LET end == words - 1 - count
    IN /\ phase = "build"
       /\ IF HasRestartArray(words, count)
          THEN /\ buffer' = [i \in 1 .. end |-> IF i <= End THEN buffer[i]
                             ELSE [shared |-> 0, delta |-> << >>, value |-> 0, bad |-> bad]]
               /\ restarts' = [j \in 1 .. count |-> IF end + j > End THEN restarts[end + j - End]
                               ELSE offset]
               /\ Opens
          ELSE /\ phase' = "refused"
               /\ UNCHANGED <<keys, buffer, restarts, last_key, entries_since_restart, it, cursor>>

-----------------------------------------------------------------------------
(* Validation.                                                               *)

\* ReconstructKey, entry after entry.
DecodedKeys ==
    FoldLeft(LAMBDA acc, e : Append(acc, (IF acc = << >> THEN << >> ELSE Prefix(Last(acc), e.shared)) \o e.delta),
             << >>, buffer)

\* ValidateRestartEntry.
ValidRestart(e, offset, index) ==
    index < Count => /\ RestartPoint(index) >= offset
                     /\ RestartPoint(index) = offset => e.shared = 0

\* ValidateEntries: there are restart points, every entry decodes, and the restart points
\* are met one by one.
ValidateEntries ==
    LET step(acc, e) ==
          LET offset == acc.offset
              bad == e.bad \/ e.shared > acc.size \/ ~ValidRestart(e, offset, acc.index)
          IN IF ~acc.ok \/ bad THEN [acc EXCEPT !.ok = FALSE]
             ELSE [ok |-> TRUE, offset |-> offset + 1, size |-> e.shared + Len(e.delta),
                   index |-> IF acc.index < Count /\ RestartPoint(acc.index) = offset
                             THEN acc.index + 1 ELSE acc.index]
        end == FoldLeft(step, [ok |-> TRUE, offset |-> 0, size |-> 0, index |-> 0], buffer)
    IN Count # 0 /\ RestartPoint(0) = 0 /\ end.ok /\ (IF End = 0 THEN 1 ELSE end.index) = Count

-----------------------------------------------------------------------------
(* Block::Iterator.  Each operator takes the iterator and gives it back; ok  *)
(* is what the function returns.                                             *)

\* What the bytes of a reset cache may hold: no letters.
Garbage == <<0>>

\* key(): its own bytes, bytes of the block, or bytes of the reverse cache.
KeyOf(s) == CASE s.borrowed.from = "none" -> s.own
              [] s.borrowed.from = "block" -> s.borrowed.key
              [] s.borrowed.from = "cache" ->
                   IF s.borrowed.at \in DOMAIN s.cache THEN s.cache[s.borrowed.at].key ELSE Garbage

Valid(s) == s.current < End
NoKey == [from |-> "none", key |-> << >>, at |-> 0]

Invalidate(s) == [s EXCEPT !.current = End, !.next = End, !.restart = Count, !.own = << >>,
                           !.borrowed = NoKey, !.value = 0, !.active = FALSE, !.ok = FALSE]
Corruption(s) == [Invalidate(s) EXCEPT !.corrupted = TRUE]
AcceptsKeySize(n) == n >= MinLength
BeginPositioning(s) == [s EXCEPT !.corrupted = FALSE, !.active = FALSE]

SeekToRestartPoint(s, i) ==
    IF RestartPoint(i) > End THEN Corruption(s)
    ELSE [s EXCEPT !.current = End, !.restart = i, !.next = RestartPoint(i), !.own = << >>,
                   !.borrowed = NoKey, !.value = 0, !.ok = TRUE]

\* RestartKey: the key at a restart point, if the entry there can be one.
RestartKeyGood(i) == /\ RestartPoint(i) < End
                     /\ LET e == buffer[RestartPoint(i) + 1]
                        IN ~e.bad /\ e.shared = 0 /\ AcceptsKeySize(Len(e.delta))
RestartKey(i) == buffer[RestartPoint(i) + 1].delta

RECURSIVE AdvanceRestartIndex(_)
AdvanceRestartIndex(s) ==
    IF s.restart + 1 >= Count THEN [s EXCEPT !.ok = TRUE]
    ELSE IF RestartPoint(s.restart + 1) > End THEN Corruption(s)
    ELSE IF RestartPoint(s.restart + 1) >= s.current THEN [s EXCEPT !.ok = TRUE]
    ELSE AdvanceRestartIndex([s EXCEPT !.restart = @ + 1])

CommitEntry(s, e) ==
    LET keyed == IF e.shared = 0
                 THEN [s EXCEPT !.borrowed = [from |-> "block", key |-> e.delta, at |-> 0]]
                 ELSE [s EXCEPT !.own = Prefix(KeyOf(s), e.shared) \o e.delta, !.borrowed = NoKey]
    IN AdvanceRestartIndex([keyed EXCEPT !.current = s.next, !.value = e.value, !.next = @ + 1])

ParseNextEntry(s) ==
    IF s.next >= End THEN Invalidate(s)
    ELSE LET e == buffer[s.next + 1]
         IN IF e.bad \/ e.shared > Len(KeyOf(s)) \/ ~AcceptsKeySize(e.shared + Len(e.delta))
            THEN Corruption(s) ELSE CommitEntry(s, e)

RECURSIVE ScanToLastEntry(_)
ScanToLastEntry(s) == LET p == ParseNextEntry(s)
                      IN IF p.ok /\ p.next < End THEN ScanToLastEntry(p) ELSE p

RECURSIVE ScanToLowerBound(_, _)
ScanToLowerBound(s, target) ==
    LET p == ParseNextEntry(s)
    IN IF p.ok /\ Less(KeyOf(p), target) THEN ScanToLowerBound(p, target) ELSE p

\* FindRestart: the last restart point before the target, or Count for a corruption.
RECURSIVE FindRestart(_, _, _)
FindRestart(target, left, right) ==
    IF left >= right THEN left
    ELSE LET middle == left + (right - left + 1) \div 2
         IN IF ~RestartKeyGood(middle) THEN Count
            ELSE IF Less(RestartKey(middle), target) THEN FindRestart(target, middle, right)
            ELSE FindRestart(target, left, middle - 1)

\* FAULT: the position is kept when the target lies before it.
FaultRestoreCheckpoint(s, i, before) ==
    IF i = s.restart THEN [s EXCEPT !.ok = TRUE] ELSE SeekToRestartPoint(s, i)

\* RestoreCheckpoint: scanning goes on from here when the target lies ahead.
RestoreCheckpoint(s, i, before) ==
    IF i = s.restart /\ before THEN [s EXCEPT !.ok = TRUE] ELSE SeekToRestartPoint(s, i)

RECURSIVE FindPreviousRestart(_, _)
FindPreviousRestart(s, original) ==
    IF RestartPoint(s.restart) > End THEN Corruption(s)
    ELSE IF RestartPoint(s.restart) < original THEN [s EXCEPT !.ok = TRUE]
    ELSE IF s.restart = 0 THEN Invalidate(s)
    ELSE FindPreviousRestart([s EXCEPT !.restart = @ - 1], original)

-----------------------------------------------------------------------------
(* ReverseCache.                                                             *)

Charge(c) == FoldLeft(LAMBDA n, e : n + EntryCost + (IF e.copied THEN Len(e.key) ELSE 0), 0, c)
ResetCache(s) == [s EXCEPT !.cache = << >>, !.position = 0]

Cached(s) == [current |-> s.current, next |-> s.next, restart |-> s.restart, key |-> KeyOf(s),
              copied |-> s.borrowed.from = "none", value |-> s.value]

Restore(s, p) ==
    LET e == s.cache[p + 1]
    IN [s EXCEPT !.position = p, !.current = e.current, !.next = e.next, !.restart = e.restart,
                 !.value = e.value, !.ok = TRUE,
                 !.borrowed = IF e.copied THEN [from |-> "cache", key |-> << >>, at |-> p + 1]
                              ELSE [from |-> "block", key |-> e.key, at |-> 0]]

SelectLast(s) == [Restore(s, Len(s.cache) - 1) EXCEPT !.active = TRUE]

RECURSIVE ScanBefore(_, _)
ScanBefore(s, original) ==
    IF s.next < original /\ s.ok THEN ScanBefore(ParseNextEntry(s), original) ELSE s

\* The replay: every entry before the original one goes into the cache, or none when
\* the budget does not allow it.
RECURSIVE Replay(_, _)
Replay(s, original) ==
    LET more == Append(s.cache, Cached(s))
    IN IF Charge(more) > Budget THEN ScanBefore(ResetCache(s), original)
       ELSE LET kept == [s EXCEPT !.cache = more]
            IN IF s.next >= original THEN SelectLast(kept)
               ELSE LET p == ParseNextEntry(kept) IN IF p.ok THEN Replay(p, original) ELSE p

ScanToPreviousEntry(s, original) ==
    LET p == ParseNextEntry(s)
    IN IF ~p.ok \/ p.next >= original THEN p ELSE Replay(ResetCache(p), original)

-----------------------------------------------------------------------------
(* The moves.                                                                *)

Moves(s, to) == /\ phase = "read"
                /\ it' = s /\ cursor' = to
                /\ UNCHANGED <<phase, keys, buffer, restarts, last_key, entries_since_restart>>

First(s) ==
    LET from == SeekToRestartPoint(s, 0)
    IN IF Count = 0 THEN Invalidate(s) ELSE IF from.ok THEN ParseNextEntry(from) ELSE from

SeekToFirst == Moves(First(BeginPositioning(it)), 0)

SeekToLast ==
    LET s == BeginPositioning(it)
        from == SeekToRestartPoint(s, Count - 1)
    IN Moves(IF Count = 0 THEN Invalidate(s)
             ELSE IF from.ok THEN ScanToLastEntry(from) ELSE from, IF End = 0 THEN 0 ELSE End - 1)

\* The first entry at or after the target, in a block that is in order.
LowerBound(target) == Cardinality({i \in 1 .. End : Less(DecodedKeys[i], target)})

Seek(target) ==
    LET s == BeginPositioning(it)
        k == KeyOf(s)
        before == Valid(s) /\ Less(k, target)
        after == Valid(s) /\ Less(target, k)
        i == FindRestart(target, IF before THEN s.restart ELSE 0, IF after THEN s.restart ELSE Count - 1)
        from == RestoreCheckpoint(s, i, before)
    IN IF ~AcceptsKeySize(Len(target)) THEN Moves(Corruption(s), End)
       ELSE Moves(IF Count = 0 THEN Invalidate(s)
                  ELSE IF Valid(s) /\ k = target THEN s
                  ELSE IF i = Count THEN Corruption(s)
                  ELSE IF ~from.ok THEN from
                  ELSE ScanToLowerBound(from, target), LowerBound(target))

LeavesCache(s) == [s EXCEPT !.active = FALSE]

Next_ == /\ Valid(it)
         /\ Moves(ParseNextEntry(LeavesCache(it)), cursor + 1)

Prev ==
    /\ Valid(it)
    /\ LET found == FindPreviousRestart([it EXCEPT !.active = FALSE], it.current)
       IN Moves(IF it.active /\ it.position # 0 THEN Restore(it, it.position - 1)
                ELSE IF ~found.ok THEN found
                ELSE ScanToPreviousEntry(SeekToRestartPoint(found, found.restart), it.current),
                IF cursor = 0 THEN End ELSE cursor - 1)

Next == \/ \E k \in Stored : Add(k)
        \/ Reset \/ Finish
        \/ \E i \in DOMAIN buffer, n \in 0 .. MaxLength, b \in BOOLEAN : FinishDamagedEntry(i, n, b)
        \/ \E j \in DOMAIN restarts, o \in 0 .. End + 1 : FinishDamagedRestart(j, o)
        \/ \E words \in 0 .. End + Count + 1, count \in 0 .. Count + 1, b \in BOOLEAN, o \in {0, End} :
             FinishDamagedCount(words, count, b, o)
        \/ SeekToFirst \/ SeekToLast \/ Next_ \/ Prev
        \/ \E k \in Keys : Seek(k)

Spec == Init /\ [][Next]_vars

-----------------------------------------------------------------------------
(* Properties.                                                               *)

\* The iterator keeps inside the block, shows nothing once it has met a corruption, and
\* never shows bytes of a reverse cache that has been reset.
CursorSane ==
    phase = "read" =>
      /\ it.current \in 0 .. End /\ it.next \in 0 .. End /\ it.restart \in 0 .. Count
      /\ it.corrupted => ~Valid(it)
      /\ Valid(it) => ToSet(KeyOf(it)) \subseteq Letter /\ it.restart < Count /\ AcceptsKeySize(Len(KeyOf(it)))

\* What the builder writes is valid and decodes to the keys that were added.
BuiltIsValid == phase = "build" => ValidateEntries /\ DecodedKeys = keys

InOrder == \A i, j \in 1 .. End : i < j => Less(DecodedKeys[i], DecodedKeys[j])

\* In a block that ValidateEntries accepts, with keys in order, every sequence of moves
\* leads to the entry that a sorted array would show, through restart points, prefix
\* compression and the reverse cache; no damage that passes the validation misleads it.
EntryExact ==
    phase = "read" /\ ValidateEntries /\ InOrder /\ (\A i \in 1 .. End : AcceptsKeySize(Len(DecodedKeys[i]))) =>
      IF cursor < End THEN Valid(it) /\ KeyOf(it) = DecodedKeys[cursor + 1] /\ it.value = buffer[cursor + 1].value
      ELSE ~Valid(it)

\* A block that empty() passes, as Table::ReadDataBlock asks it to, leads to a first entry
\* or to a corruption, whatever its entries, restart points and their count say: it is
\* never taken for a block without entries.
EmptyExact ==
    phase = "read" => LET first == First(BeginPositioning(it))
                      IN IF Empty THEN ~Valid(first) ELSE Valid(first) \/ first.corrupted

\* Building and reading a block agree, and damage never takes the reader outside it.
BlockReads == CursorSane /\ BuiltIsValid /\ EntryExact /\ EmptyExact
=============================================================================
