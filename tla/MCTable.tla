------------------------------ MODULE MCTable ------------------------------
(***************************************************************************)
(* Table, Block, BlockFormat and MemTable for TLC.  They share no state,   *)
(* so a behaviour moves one of them and the others rest.                   *)
(***************************************************************************)
EXTENDS Table

VARIABLES
    subject,                                                     \* the one that moves
    buildPhase, keys, buffer, restarts, last_key, entries_since_restart, blockIt, blockCursor,
    file, written, stage, result,
    key, links, max_height_, stamp, insertion, published, reader

blockVars == <<buildPhase, keys, buffer, restarts, last_key, entries_since_restart, blockIt,
               blockCursor>>
formatVars == <<file, written, stage, result>>
memVars == <<key, links, max_height_, stamp, insertion, published, reader>>

\* The keys of a table are chosen so that separators are possible, impossible (adjacent
\* letters, prefixes, two versions of one user key) and end at the largest letter.
K(user, seq, kind) == [user |-> user, trailer |-> 2 * seq + kind]

MCInputs ==
    {K(<<0, 3>>, 1, 1), K(<<1, 1>>, 2, 1), K(<<1, 1>>, 1, 0), K(<<1, 3, 0>>, 1, 1),
     K(<<3>>, 2, 1), K(<<3, 3>>, 1, 1)}

MCProbes ==
    {K(<<1, 1>>, seq, 1) : seq \in 0 .. 2} \cup
    {K(user, 3, 1) : user \in {<<0, 3>>, <<1, 3, 0>>, <<2>>, <<3, 3>>}} \cup
    {K(<<3>>, seq, 1) : seq \in 1 .. 2}

\* Tables of four keys read without a block cache, and of three of fewer keys with one.
TablePlans ==
    {[subject |-> "table", inputs |-> Inputs, entries |-> MaxEntries, cache |-> 0],
     [subject |-> "cached", inputs |-> {k \in Inputs : k.user[1] < 2 /\ Len(k.user) = 2} \cup {K(<<3>>, 2, 1)},
      entries |-> MaxEntries - 1, cache |-> CacheCapacity]}

Case(p) == INSTANCE Table
    WITH Inputs <- p.inputs, MaxEntries <- p.entries, CacheCapacity <- p.cache

Block == INSTANCE Block
    WITH Letter <- {1, 2}, MaxLength <- 2, MinLength <- 1, RestartInterval <- 3,
         MaxEntries <- 5, EntryCost <- 2, Budget <- 7,
         phase <- buildPhase, it <- blockIt, cursor <- blockCursor

\* Sizes at the limits of a varint and of the file, in bytes of three bits of payload.
Format == INSTANCE BlockFormat
    WITH PayloadBits <- 3, Size32 <- 1, Size64 <- 2,
         Contents <- {<<>>, <<7>>, <<9, 9, 9, 9>>, <<2, 0>>},
         Handles <- [offset : {0, 3, 250, 255}, size : {0, 1, 5, 255}],
         Cells <- {0, 1, 2, 9}, MaxBlocks <- 2, blocks <- written

Mem == INSTANCE MemTable
    WITH Reader <- {"r"}, UserKey <- {1, 2}, MaxHeight <- 2, MaxEntries <- 4

TableRests ==
    /\ layout = 0 /\ blocks = 0 /\ size = 0 /\ data = 0 /\ last = 0 /\ index = 0 /\ pending = 0
    /\ ranges = 0 /\ fresh = 0 /\ error = 0 /\ phase = 0 /\ torn = 0 /\ accepted = 0
    /\ reads = 0 /\ cached = 0 /\ it = 0 /\ failed = 0 /\ expect = 0
BlockRests ==
    /\ buildPhase = 0 /\ keys = 0 /\ buffer = 0 /\ restarts = 0 /\ last_key = 0
    /\ entries_since_restart = 0 /\ blockIt = 0 /\ blockCursor = 0
FormatRests == file = 0 /\ written = 0 /\ stage = 0 /\ result = 0
MemRests ==
    /\ key = 0 /\ links = 0 /\ max_height_ = 0 /\ stamp = 0 /\ insertion = 0 /\ published = 0
    /\ reader = 0

MCInit ==
    \/ subject \in {"table", "cached"} /\ Init /\ BlockRests /\ FormatRests /\ MemRests
    \/ subject = "block" /\ Block!Init /\ TableRests /\ FormatRests /\ MemRests
    \/ subject = "format" /\ Format!Init /\ TableRests /\ BlockRests /\ MemRests
    \/ subject = "memtable" /\ Mem!Init /\ TableRests /\ BlockRests /\ FormatRests
MCNext ==
    \/ \E p \in TablePlans : subject = p.subject /\ Case(p)!Next
                           /\ UNCHANGED <<subject, blockVars, formatVars, memVars>>
    \/ subject = "block" /\ Block!Next /\ UNCHANGED <<subject, vars, formatVars, memVars>>
    \/ subject = "format" /\ Format!Next /\ UNCHANGED <<subject, vars, blockVars, memVars>>
    \/ subject = "memtable" /\ Mem!Next /\ UNCHANGED <<subject, vars, blockVars, formatVars>>
MCSpec == MCInit /\ [][MCNext]_<<subject, vars, blockVars, formatVars, memVars>>

\* A table is whole once Finish returned success, and Get and the iterators over it are
\* those of a sorted sequence, whatever its filter is, whichever read fails and whatever is
\* in the block cache; an index that was damaged leaves no table
\* (Table.TableReads).
TablesExact == subject \in {"table", "cached"} => TableReads

\* A block reads back as it was built, in any sequence of moves; damage that passes the
\* validation never misleads a cursor (Block.BlockReads).
BlocksExact == subject = "block" => Block!BlockReads

\* What is read back from a stored block is what was written, or an error, and no handle
\* leads outside the blocks' part of the file (BlockFormat.BlocksRead).
StoredBlocksExact == subject = "format" => Format!BlocksRead

\* Readers without a lock find the newest published version of a key, and their moves skip
\* nothing, while the writer links nodes (MemTable.MemTableReads).
MemTableExact == subject = "memtable" => Mem!MemTableReads
=============================================================================
