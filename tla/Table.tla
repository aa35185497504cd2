------------------------------- MODULE Table -------------------------------
(* One sorted table file: TableBuilder (table/table_builder.cc) writes it,   *)
(* Table and Table::Iterator (table/table.cc) read it, with the short index  *)
(* keys of InternalKeyComparator and the Bloom filters of filter_block.cc    *)
(* and full_filter.cc.                                                       *)
(*                                                                           *)
(* A user key is a short sequence of letters 0 .. MaxByte; an internal key   *)
(* is a user key with a trailer, which packs 2 * sequence + kind and sorts   *)
(* in descending order.  A data block is its list of keys: its encoding is   *)
(* the subject of Block.tla.  How many bytes a stored block takes depends on *)
(* its values and on compression, so the flush and the size are choices.  An *)
(* append, a sync or a read may fail, and the index may be damaged.          *)
EXTENDS Integers, Sequences, SequencesExt, FiniteSets, FiniteSetsExt

CONSTANTS
    MaxByte,     \* the largest letter, 0xff in the code
    Inputs,      \* the internal keys that callers add
    MaxEntries,  \* bound: keys added to the table
    Sizes,       \* the sizes a stored block may have
    FilterRange,       \* the bytes one legacy filter covers, 2^11 in the code
    CacheCapacity,     \* blocks of the table that fit into the block cache; 0 without one
    MaxTrailer,  \* the trailer of MaxSequenceNumber and SeekValueKind
    Probes       \* the internal keys that lookups and seeks ask for

ASSUME TableAssumption ==
    /\ {MaxByte, MaxEntries, MaxTrailer, CacheCapacity} \subseteq Nat
    /\ FilterRange \in Nat \ {0} /\ Sizes \subseteq Nat \ {0}
    /\ \A k \in Inputs \cup Probes : k.trailer \in 0 .. MaxTrailer

VARIABLES
    layout,      \* the filter the builder writes: "none", "legacy" or "full"
    blocks,      \* the data blocks in the file: their offset and their keys
    size,        \* file_size_
    data,        \* data_block_, the keys of the block being built
    last,        \* last_key_, <<>> before the first one
    index,       \* index_block_: a key and the block it leads to
    pending,     \* pending_index_entry_
    ranges,      \* the finished filters, each as the keys it was made from
    fresh,       \* keys_, the user keys of the filter being built
    error,       \* first_error_ is set
    phase,       \* "building", "finished" or "damaged", "open" after Table::Open
    torn,        \* history: some append or sync failed
    accepted,    \* history: the keys Add accepted, in order
    reads,       \* the filter the opened table consults
    cached,      \* the data blocks in the block cache under the table's cache_id_
    it,          \* Table::Iterator: index position, loaded block, position in it
    failed,      \* Open, or the last move of the iterator, returned an error
    expect       \* history: where a cursor over accepted would stand, 0 if nowhere

builder == <<layout, blocks, size, data, last, index, pending, ranges, fresh,
             error, torn, accepted>>
cursor == <<it, failed, expect>>
vars == <<builder, phase, reads, cached, cursor>>

Nowhere == [at |-> 0, block |-> 0, pos |-> 0]

----------------------------------------------------------------------------
(* Order of the keys, and the short keys that stand between two of them.     *)

SharedPrefixLength(a, b) ==
    Max({n \in 0 .. Min({Len(a), Len(b)}) : SubSeq(a, 1, n) = SubSeq(b, 1, n)})

UserLess(a, b) ==
    LET d == SharedPrefixLength(a, b) + 1
    IN  IF d > Min({Len(a), Len(b)}) THEN Len(a) < Len(b) ELSE a[d] < b[d]

KeyLess(a, b) ==
    UserLess(a.user, b.user) \/ (a.user = b.user /\ a.trailer > b.trailer)

\* BytewiseComparator::FindShortestSeparator on user keys.
UserSeparator(start, limit) ==
    LET d == SharedPrefixLength(start, limit) + 1
    IN  IF /\ d <= Min({Len(start), Len(limit)})
           /\ start[d] < MaxByte /\ start[d] + 1 < limit[d]
        THEN Append(SubSeq(start, 1, d - 1), start[d] + 1)
        ELSE start

\* BytewiseComparator::FindShortSuccessor on user keys.
UserSuccessor(key) ==
    LET lower == {i \in DOMAIN key : key[i] < MaxByte}
    IN  IF lower = {} THEN key
        ELSE Append(SubSeq(key, 1, Min(lower) - 1), key[Min(lower)] + 1)

Shortens(original, candidate) ==
    Len(candidate) < Len(original) /\ UserLess(original, candidate)

\* InternalKeyComparator::FindShortestSeparator.
FindShortestSeparator(start, limit) ==
    LET short == [user |-> UserSeparator(start.user, limit.user), trailer |-> MaxTrailer]
    IN  IF Shortens(start.user, short.user) /\ KeyLess(short, limit) THEN short ELSE start

\* InternalKeyComparator::FindShortSuccessor.
FindShortSuccessor(key) ==
    LET short == [user |-> UserSuccessor(key.user), trailer |-> MaxTrailer]
    IN  IF Shortens(key.user, short.user) THEN short ELSE key

\* Block::Iterator::Seek over sorted keys: the first one not before the target.
SeekIn(keys, target) ==
    LET from == {i \in DOMAIN keys : ~KeyLess(keys[i], target)}
    IN  IF from = {} THEN 0 ELSE Min(from)

----------------------------------------------------------------------------
(* TableBuilder.                                                             *)

Init ==
    /\ layout \in {"none", "legacy", "full"}
    /\ blocks = <<>> /\ size = 0 /\ data = <<>> /\ last = <<>>
    /\ index = <<>> /\ pending = FALSE /\ ranges = <<>> /\ fresh = {}
    /\ error = FALSE /\ phase = "building" /\ torn = FALSE /\ accepted = <<>>
    /\ reads = "none" /\ cached = {} /\ it = Nowhere /\ failed = FALSE /\ expect = 0

\* FAULT: the separator looks at the last key alone and forgets the limit.
FaultIndexKey(next) == FindShortSuccessor(last)

\* FinishPendingIndexEntry chooses the key of the block just written.
IndexKey(next) == FindShortestSeparator(last, next)

Entry(key, block) == [key |-> key, block |-> block]

\* FilterBlockBuilder::StartBlock: a filter for every range before the offset,
\* the first of them from the pending keys, the others empty.
StartBlock(offset, done, keys) ==
    LET missing == (offset \div FilterRange) - Len(done)
    IN  IF missing = 0 THEN [done |-> done, keys |-> keys]
        ELSE [done |-> done \o <<keys>> \o [i \in 1 .. missing - 1 |-> {}], keys |-> {}]

\* WriteDataBlock: the block, of the given stored size, goes to the file.  A
\* failing append leaves the offset where it was and the error set.
WriteDataBlock(keys, filterKeys, bytes, fails) ==
    LET end == IF fails THEN size ELSE size + bytes
        filter == IF layout = "legacy" THEN StartBlock(end, ranges, filterKeys)
                  ELSE [done |-> ranges, keys |-> filterKeys]
    IN  /\ blocks' = IF fails THEN blocks
                     ELSE Append(blocks, [offset |-> size, keys |-> keys])
        /\ size' = end
        /\ data' = <<>>
        /\ pending' = TRUE
        /\ ranges' = filter.done
        /\ fresh' = filter.keys

\* Add accepts a key: its filter, the index entry of the block before it, the
\* data block, and the flush of a block that became large enough.
Add(key) ==
    /\ phase = "building" /\ ~error
    /\ Len(accepted) < MaxEntries
    /\ accepted # <<>> => KeyLess(last, key)
    /\ accepted' = Append(accepted, key)
    /\ last' = key
    /\ index' = IF pending THEN Append(index, Entry(IndexKey(key), Len(blocks))) ELSE index
    /\ LET keys == Append(data, key)
           filterKeys == IF layout = "none" THEN {} ELSE fresh \cup {key.user}
       IN  \/ /\ data' = keys
              /\ fresh' = filterKeys
              /\ pending' = FALSE
              /\ UNCHANGED <<blocks, size, ranges, error, torn>>
           \/ \E bytes \in Sizes, fails \in BOOLEAN :
                  /\ WriteDataBlock(keys, filterKeys, bytes, fails)
                  /\ error' = fails
                  /\ torn' = fails
    /\ UNCHANGED <<layout, phase, reads, cached, cursor>>

\* A key that does not follow the last one, and a filter over its size limit,
\* are errors that the builder keeps.
AddRefused(key) ==
    /\ phase = "building" /\ ~error
    /\ Len(accepted) < MaxEntries
    /\ \/ accepted # <<>> /\ ~KeyLess(last, key)
       \/ layout # "none"
    /\ error' = TRUE
    /\ UNCHANGED <<layout, blocks, size, data, last, index, pending, ranges, fresh,
                   torn, accepted, phase, reads, cached, cursor>>

TailBlock(bytes, fails) ==
    \/ /\ data # <<>>
       /\ WriteDataBlock(data, fresh, bytes, fails)
    \/ /\ data = <<>> /\ ~fails
       /\ UNCHANGED <<blocks, size, data, pending, ranges, fresh>>

\* Finish after a good build: the last block, the filter, the metaindex, the
\* index with its final entry, the footer, the sync and the close.  Every one
\* of them may fail; nothing reaches the file after a failure.
Finish ==
    /\ phase = "building" /\ ~error
    /\ phase' = "finished"
    /\ \E bytes \in Sizes, fails \in {"nothing", "block", "tail"} :
         /\ TailBlock(bytes, fails = "block")
         /\ error' = (fails # "nothing")
         /\ torn' = (fails # "nothing")
    /\ index' = IF pending'
                THEN Append(index, Entry(FindShortSuccessor(last), Len(blocks'))) ELSE index
    /\ UNCHANGED <<layout, last, accepted, reads, cached, cursor>>

\* Finish after an error closes the file and returns that error.
FinishFailed ==
    /\ phase = "building" /\ error
    /\ phase' = "finished"
    /\ UNCHANGED <<builder, reads, cached, cursor>>

----------------------------------------------------------------------------
(* Table: opening a file and looking up a key.                               *)

\* The key or the handle of an index entry does not decode, or the handle does not lie
\* before the footer.
NoBlock == 0

\* The index of the file is damaged: an entry leads to another block, or to none.
DamageIndex(i, block) ==
    /\ phase = "finished" /\ ~error
    /\ phase' = "damaged"
    /\ index[i].block # block
    /\ index' = [index EXCEPT ![i].block = block]
    /\ UNCHANGED <<layout, blocks, size, data, last, pending, ranges, fresh, error, torn,
                   accepted, reads, cached, cursor>>

KeysOf(b) == blocks[b].keys
BlockEnd(b) == IF b = Len(blocks) THEN size ELSE blocks[b + 1].offset

\* Every entry has an internal key and the handle of a block before the footer, and the
\* blocks follow one another without overlapping.
ValidateIndex ==
    \A i \in DOMAIN index :
        /\ index[i].block # NoBlock
        /\ i > 1 => blocks[index[i].block].offset >= BlockEnd(index[i - 1].block)

\* The parts of the file besides the data blocks.
Parts == {"footer", "index", "metaindex", "filter"}

ReadValidatedIndex(bad) == "index" \notin bad /\ ValidateIndex

\* Of the metaindex' entries, the full filter before the legacy one of the reader's
\* policy; a file without either has no filter.
SelectFilter ==
    LET named == {layout} \ {"none"}
    IN  IF "full" \in named THEN "full" ELSE IF "legacy" \in named THEN "legacy" ELSE "none"

\* The filter, or an error when the metaindex or the filter it names cannot be read.
ReadFilters(bad) ==
    [ok |-> /\ "metaindex" \notin bad
            /\ SelectFilter # "none" => "filter" \notin bad,
     filter |-> SelectFilter]

\* Table::Open reads the footer, the index and, when the reader has a filter policy, the
\* filter.  A part that cannot be read leaves no table.
Open(policy, bad) ==
    LET filters == IF policy THEN ReadFilters(bad) ELSE [ok |-> TRUE, filter |-> "none"]
        opens == "footer" \notin bad /\ ReadValidatedIndex(bad) /\ filters.ok
    IN  /\ phase \in {"finished", "damaged"} /\ ~error
        /\ failed' = ~opens
        /\ phase' = IF opens THEN "open" ELSE phase
        /\ reads' = IF opens THEN filters.filter ELSE reads
        /\ UNCHANGED <<builder, cached, it, expect>>

\* The position of the index iterator after a seek, 0 if it is not valid.
IndexSeek(target) == SeekIn([i \in DOMAIN index |-> index[i].key], target)

\* ReadDataBlock, as whether it returns the block: a block that is in the cache, under
\* its offset, is not read; bad are those that cannot be read or have no entries.
ReadDataBlock(b, bad) == b \in cached \/ b \notin bad

\* With fill_cache the blocks read are inserted, and others may have to go.
Insert(read) ==
    \/ cached' = cached
    \/ \E c \in SUBSET (cached \cup read) :
         /\ ~(c \subseteq cached) /\ Cardinality(c) <= CacheCapacity
         /\ cached' = c

\* FilterBlockBuilder::Finish adds the filter of the keys still pending.
FilterBlock == IF fresh = {} THEN ranges ELSE Append(ranges, fresh)

\* BloomFilterPolicy: a filter always answers for the keys it was made from; for
\* another key it may do so too, unless it was made from none.
BloomMayMatch(user, keys, lucky) == user \in keys \/ (lucky /\ keys # {})

\* FilterBlockReader::KeyMayMatch; a block behind the last filter may match.
LegacyMayMatch(b, user, lucky) ==
    LET i == blocks[b].offset \div FilterRange + 1
    IN  i > Len(FilterBlock) \/ BloomMayMatch(user, FilterBlock[i], lucky)

FullMayMatch(user, lucky) == user \in fresh \/ lucky

Missing == [kind |-> "missing", trailer |-> 0]
Found(key) == [kind |-> IF key.trailer % 2 = 0 THEN "deletion" ELSE "value",
               trailer |-> key.trailer]

LookupDataBlock(b, key) ==
    LET p == SeekIn(KeysOf(b), key)
    IN  IF p = 0 THEN Missing
        ELSE IF KeysOf(b)[p].user # key.user THEN Missing ELSE Found(KeysOf(b)[p])

\* The block that the filters and the index leave for a lookup, 0 if there is none;
\* lucky says whether filters answer for foreign keys.
BlockFor(key, lucky) ==
    LET i == IndexSeek(key)
    IN  IF reads = "full" /\ ~FullMayMatch(key.user, lucky) THEN 0
        ELSE IF i = 0 THEN 0
        ELSE IF reads = "legacy" /\ ~LegacyMayMatch(index[i].block, key.user, lucky) THEN 0
        ELSE index[i].block

\* What Table::Get returns.
Get(key, lucky, bad) ==
    LET b == BlockFor(key, lucky)
    IN  IF b = 0 THEN Missing
        ELSE IF ~ReadDataBlock(b, bad) THEN [kind |-> "error", trailer |-> 0]
        ELSE LookupDataBlock(b, key)

\* What it leaves in the cache, when there is one and the block is not in it.
GetFills(key, lucky) ==
    /\ phase = "open" /\ CacheCapacity > 0
    /\ BlockFor(key, lucky) \notin {0} \cup cached
    /\ Insert({BlockFor(key, lucky)})
    /\ UNCHANGED <<builder, phase, reads, cursor>>

----------------------------------------------------------------------------
(* Table::Iterator: an index position, and at most one loaded block.         *)

\* Fail drops the loaded block; the index stays where it is.
Fail(c) == [it |-> [c EXCEPT !.block = 0, !.pos = 0], failed |-> TRUE, read |-> {}]
Done(c) == [it |-> c, failed |-> FALSE, read |-> {}]

\* LoadBlock keeps a block that is already loaded, and leaves none when the
\* index has run out.
LoadBlock(c, bad) ==
    IF c.at = 0 THEN Done([c EXCEPT !.block = 0, !.pos = 0])
    ELSE IF c.block = index[c.at].block THEN Done(c)
    ELSE IF ~ReadDataBlock(index[c.at].block, bad) THEN Fail(c)
    ELSE [Done([c EXCEPT !.block = index[c.at].block, !.pos = 0])
             EXCEPT !.read = {index[c.at].block}]

EnterBlock(c, edge, bad) ==
    LET loaded == LoadBlock(c, bad)
        b == loaded.it.block
    IN  IF loaded.failed \/ b = 0 THEN loaded
        ELSE [loaded EXCEPT !.it.pos = IF edge = "first" THEN 1 ELSE Len(KeysOf(b))]

IndexNext(c) == [c EXCEPT !.at = IF @ = Len(index) THEN 0 ELSE @ + 1]
IndexPrev(c) == [c EXCEPT !.at = @ - 1]

MoveFirst(c, bad) ==
    EnterBlock([c EXCEPT !.at = IF index = <<>> THEN 0 ELSE 1], "first", bad)

MoveLast(c, bad) == EnterBlock([c EXCEPT !.at = Len(index)], "last", bad)

MoveSeek(c, target, bad) ==
    LET loaded == LoadBlock([c EXCEPT !.at = IndexSeek(target)], bad)
        p == SeekIn(KeysOf(loaded.it.block), target)
        entered == EnterBlock(IndexNext(loaded.it), "first", bad)
    IN  IF loaded.failed \/ loaded.it.block = 0 THEN loaded
        ELSE IF p # 0 THEN [loaded EXCEPT !.it.pos = p]
        ELSE [entered EXCEPT !.read = @ \cup loaded.read]

MoveNext(c, bad) ==
    IF c.pos < Len(KeysOf(c.block)) THEN Done([c EXCEPT !.pos = @ + 1])
    ELSE EnterBlock(IndexNext(c), "first", bad)

MovePrev(c, bad) ==
    IF c.pos > 1 THEN Done([c EXCEPT !.pos = @ - 1])
    ELSE EnterBlock(IndexPrev(c), "last", bad)

\* A move of the iterator, beside the place a cursor over the accepted keys
\* would take.  An error leaves the iterator invalid.
Moves(outcome, place) ==
    /\ phase = "open"
    /\ it' = outcome.it
    /\ failed' = outcome.failed
    /\ expect' = IF outcome.failed THEN 0 ELSE place
    /\ Insert(outcome.read)
    /\ UNCHANGED <<builder, phase, reads>>

SeekToFirst(bad) == Moves(MoveFirst(it, bad), IF accepted = <<>> THEN 0 ELSE 1)
SeekToLast(bad) == Moves(MoveLast(it, bad), Len(accepted))
Seek(target, bad) == Moves(MoveSeek(it, target, bad), SeekIn(accepted, target))
Advance(bad) ==
    /\ it.block # 0
    /\ Moves(MoveNext(it, bad), IF expect = Len(accepted) THEN 0 ELSE expect + 1)
Retreat(bad) ==
    /\ it.block # 0
    /\ Moves(MovePrev(it, bad), expect - 1)

\* A move reads at most two blocks; either or both reads may fail.
Unreadable == {{}, DOMAIN blocks} \cup {{b} : b \in DOMAIN blocks}

Next ==
    \/ \E key \in Inputs : Add(key) \/ AddRefused(key)
    \/ Finish \/ FinishFailed
    \/ \E i \in DOMAIN index, b \in {NoBlock} \cup DOMAIN blocks : DamageIndex(i, b)
    \/ \E policy \in BOOLEAN, bad \in {{}} \cup {{part} : part \in Parts} : Open(policy, bad)
    \/ \E key \in Probes, lucky \in BOOLEAN : GetFills(key, lucky)
    \/ \E bad \in Unreadable :
         \/ SeekToFirst(bad) \/ SeekToLast(bad) \/ Advance(bad) \/ Retreat(bad)
         \/ \E target \in Probes : Seek(target, bad)

Spec == Init /\ [][Next]_vars

----------------------------------------------------------------------------
(* Properties.                                                               *)

\* While the build is good, every index key is at or after the last key of its
\* block and before the first key of the next one, however it was shortened
\* (FindShortestSeparator, FindShortSuccessor); and so it is in a table that Open
\* returned, although the index may have been damaged (ValidateIndex).
IndexSeparates ==
    ~error /\ phase # "damaged" =>
      \A i \in DOMAIN index :
         LET here == KeysOf(i)
             after == IF i < Len(blocks) THEN KeysOf(i + 1) ELSE data
         IN  /\ index[i].block = i
             /\ ~KeyLess(index[i].key, Last(here))
             /\ after # <<>> => KeyLess(index[i].key, after[1])

\* A Finish that returns success left a whole file: no write failed, and the
\* indexed blocks hold exactly the keys Add accepted, in order.
FinishedIsWhole ==
    phase # "building" /\ ~error =>
      /\ ~torn
      /\ FlattenSeq([b \in DOMAIN blocks |-> KeysOf(b)]) = accepted
      /\ Len(index) = Len(blocks)

\* Table::Get returns the newest entry of the user key that the lookup may see,
\* or an error if its block cannot be read and is not in the cache, whichever filter
\* is consulted and whatever that filter says about keys it does not hold.  No iterator
\* has a part in it, so tables with an idle one are enough.
GetExact ==
    phase = "open" /\ it = Nowhere =>
      \A key \in Probes, lucky \in BOOLEAN, bad \in Unreadable :
         LET seen == SelectSeq(accepted, LAMBDA k : k.user = key.user /\ k.trailer <= key.trailer)
             newest == IF seen = <<>> THEN Missing ELSE Found(seen[1])
             got == Get(key, lucky, bad)
         IN  got = newest \/ (got.kind = "error" /\ ~(bad \subseteq cached))

\* Table::Iterator::valid is whether a block is loaded, so a loaded block comes
\* with a position inside it, and with the index standing at that block.
CursorSane ==
    it.block # 0 => /\ it.at \in DOMAIN index /\ index[it.at].block = it.block
                    /\ it.pos \in DOMAIN KeysOf(it.block)

\* The iterator's place among all the keys of the table.
Place == IF it.block = 0 THEN 0
         ELSE it.pos + Len(FlattenSeq([b \in 1 .. it.block - 1 |-> KeysOf(b)]))

\* After any moves, failed ones among them, the iterator stands at the key that
\* a cursor over the sorted keys of the table would show, and is invalid where
\* that cursor is or where the move returned an error.
CursorExact == phase = "open" => Place = expect

\* A table that was built is whole, and lookups and cursors over it are those of a sorted
\* sequence of its keys.
TableReads == IndexSeparates /\ FinishedIsWhole /\ GetExact /\ CursorSane /\ CursorExact
=============================================================================
