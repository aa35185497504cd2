# Models of modern-level-db

TLA+ models of the storage engine under `src/`, their TLC configurations, and TLAPS proofs.
`PROJECT.json` maps every definition to the lines that it models, and lists the parts of the
system, the runs, a mutant for each property that shows how it can fail, and the hazards.

## The system

A database is one `DatabaseEngine` behind the public API. Everything it does goes through one
mutex, which is released around file I/O, memtable insertion and sleeping.

| Part | Source | Module |
|---|---|---|
| Write queue, group commit, rotation, stalls, scheduling, destruction | `engine/write_path`, `engine/database_write.cc`, `engine/database_background.cc` | `WritePath` |
| Logs, tables, MANIFEST, CURRENT, recovery, cleanup | `metadata/version_set.cc`, `engine/recovery.cc`, `engine/flush.cc`, `engine/build_table.cc`, `engine/database_background.cc` | `Storage` |
| Levels, compaction picking and merging, lookups, seek statistics, snapshots | `engine/compaction*.cc`, `engine/lookup.cc`, `metadata/version.cc` | `LsmTree`, against `KvStore` |
| Iterators | `engine/iterators.cc`, `engine/db_iterator.cc` | `Iterators` |
| Log framing | `wal/`, `format/wal_format.cc` | `WalLog` |
| Memtable and skip list | `memory/skiplist.h`, `memory/memtable.cc` | `MemTable` |
| Blocks | `table/block.cc`, `table/block_builder.cc` | `Block` |
| Stored blocks, handles, footer, compression | `table/block_format.cc`, `table/compression.cc` | `BlockFormat` |
| Tables, filters, short index keys | `table/table*.cc`, `table/*filter*.cc`, `base/comparator.cc` | `Table` |
| Clock block cache | `table/clock_block_cache.cc` | `ClockCache` |
| LRU cache, table cache | `cache/`, `engine/table_cache.cc` | `LruCache`, `TableCache` |
| Executor, MultiGet | `platform/serial_executor.cc`, `api/multi_get.cc` | `Executor`, `MultiGet` |
| POSIX files and locks | `platform/posix_file_system.cc`, `platform/mapped_read_limiter.h` | `FileLock`, `WritableFile`, `MappedReads` |
| Integer codings, internal keys, write batches, version edits | `base/coding*`, `format/internal_key.*`, `format/write_batch.*`, `metadata/version_edit.*` | `Coding`, `InternalKey`, `WriteBatch`, `VersionEdit` |
| File names and the contents of CURRENT | `metadata/filenames.cc` | `FileNames` |
| Handles of the public API | `api/api_internal.h`, `api/*.cc` | `Handles` |
| Linearizability checker, concurrent stress test | `stress/linearizability.cc`, `stress/concurrent_stress.cc` | `Linearizability`, `ConcurrentStress` |

How they interact: a write becomes a record of the current log, then entries of the mutable
memtable, then visible by the last sequence. A full memtable is switched out together with its
log. A background task turns it into a table and installs a version by a MANIFEST record; another
merges tables. The cleanup that follows removes the files that no version in use, no unfinished
output and no recovery needs. `Open` reads CURRENT, replays the MANIFEST and the logs, and starts
a new log and a new MANIFEST.

## How the runs are built

There are twelve runs. Two forms of MC module keep related questions in one run:

* A *plan* is a choice of constants, made in the initial state. The variable `plan` holds it, and
  `Case(p)` is the component instantiated with it. Each plan enlarges one dimension (crashes,
  faults, readers, writes) and keeps the others small. `MCStorage`, `MCLsmTree`, `MCWalLog`,
  `MCIterators` and `MCCaches` have plans.
* A *suite* holds components that share no state. The variable `subject` says which of them moves;
  the variables of the others rest at a constant. Its properties say, for each subject, what the
  component's own module states. `MCTable`, `MCProcess`, `MCEdges` and, for its two caches,
  `MCCaches` are suites.

| Run | Modules | Properties |
|---|---|---|
| `write_path_safety` | `WritePath` | `CommitKeepsItsLog`, `NoSequenceReuse`, `AckedIsDurable`, `EngineSound`, `FlushMeansFlushed` |
| `write_path_liveness` | `WritePath` | `CallsReturn`, `CloseEnds` |
| `storage` | `Storage` | `Recoverable`, `AckedFound`, `SequencesSound`, `UsedTablesExist` |
| `lsm_levels` | `LsmTree` | `TreeOrdered`, `BackgroundSound`, `CompactionsDescend` |
| `lsm_reads` | `LsmTree`, `KvStore` | `ReadsAreAMap` |
| `wal` | `WalLog` | `ReplayExact`, `ReplayEnds` |
| `clock` | `ClockCache` | `BlocksOwned`, `IndexExact`, `CriticalSectionsEnd` |
| `iterators` | `Iterators` | `WalksExact`, `CallsEnd` |
| `caches` | `LruCache`, `TableCache` | `LruExact`, `HintedReads`, `LruEvictsOldest` |
| `tables` | `Table`, `Block`, `BlockFormat`, `MemTable` | `TablesExact`, `BlocksExact`, `StoredBlocksExact`, `MemTableExact` |
| `process` | `FileLock`, `Executor`, `MultiGet`, `ConcurrentStress` | `LockSafe`, `TasksOnce`, `BatchesWhole`, `TestsFair`, `WorkSettles` |
| `edges` | `MappedReads`, `WritableFile`, `WriteBatch`, `VersionEdit`, `InternalKey`, `FileNames`, `Handles`, `Linearizability` | `LimiterSafe`, `FilesSound`, `RecordsRead`, `NamesExact`, `HandlesKeep`, `VerdictsExact` |

All of them hold. Deadlock is checked in `write_path_safety`, `clock` and `iterators`. Elsewhere the
bounds, a caller that goes away or a subject that has finished end a behaviour.

## WritePath

State: the queue `writers`, where each caller is (`pc`), the group being committed (`commit`), the
memtables with their logs (`log`, `mem`, `imm`), what is in the logs (`wal`, `durable`) and in
tables, the background task (`bg`, `compaction`) and the sticky error. One action is one critical
section or one unlocked step. The loops of `MakeRoomForWrite` and `BuildGroup` are several actions
during which the caller holds the mutex (`LockFree`). The LSM tree is a number of level-0 files and
a number of compactions that deeper levels need. Every I/O step, and every step at which the code
handles an exception, may fail (`Faults`).

`EngineSound` joins what readers and recovery need of the engine: all that is published is held in
a memtable or a table, recovery finds the logs of what is only in memory, and the background task
finds the work it was scheduled for.

* `write_path_safety`: three callers that write, flush or wait, with all faults. Bounds: three
  calls, batches of one or two entries, one spurious wakeup. This is enough for a leader with a
  follower while a third caller forces a rotation, for a failed commit followed by another write,
  and for a stall.
* `write_path_liveness`: two callers and the destructor. Weak fairness of each caller's, the
  background's and the destructor's steps: threads that can run do run, and I/O returns. Steps
  that only faults or callers start have no fairness.

### What is proved

`WritePathProofs` (with the lemmas of `WritePathCalls`) proves for every set of writers, every batch
size, every limit and every set of faults that `TypeOK`, `LeaderIsFront`, `CommitKeepsItsLog` and
`NoSequenceReuse` always hold. The invariant `IInv` joins to them:

* `QueueOK`: the queue holds exactly the callers that lead or wait, each once. Without it, leaving
  the queue could leave a second leader behind.
* `CommitOK`: the commit in progress starts right after the published sequence, and only its own
  record may lie above that sequence.
* `WalOK`: without a commit in progress and without a sticky error, no record lies above the
  published sequence. A failed commit breaks this, and the sticky error is what keeps others from
  appending.
* `CompactionOK`: a running compaction has something to compact, so the counters stay natural.

One lemma per group of actions (`BackgroundKeeps`, `CallsKeep`, `RoomKeeps`, `GroupKeeps`) shows
that the invariant is kept.

`WritePathDurability` (with the lemmas of `WritePathData`) goes on from `IInv` to where the entries
and their records are, and proves `AckedIsDurable`, `EngineSound` and the action property
`FlushMeansFlushed`. Its invariant `DataInv` joins to the first two:

* `NumbersOK`: the log number, the log of the immutable memtable, the log in use and the next file
  number are ordered, and every record is in one of the logs so far.
* `FlushOK`: a flush in progress has its memtable, and the log number its edit carries is still the
  log in use.
* `ProgressOK`: the record of the commit in progress is the last one, synced if the leader asked
  for it, and what was inserted so far is in the memtable. Publishing rests on it.
* `ShareOK`: each member of the group has its part of the group's sequence numbers, and a member
  that wants a sync has a leader that does. This is why a follower's write is durable.
* `MemoryLogged`: an entry of a memtable is in a record of that memtable's log; with `NumbersOK`
  this gives the log number's half of `EngineSound`.
* `RecordsHeld`: unless a commit failed, a record that is not being committed is in the memtable of
  its log or in tables; with `FlushCallOK`, which says what a flush waits for, this gives
  `FlushMeansFlushed`.

The proofs use only the named assumptions on the constants. The bounds (`MaxCalls` and the others)
are arbitrary naturals there.

## Storage

State: the directory (`names`) and its durable copy (`dnames`), the contents of every file with the
synced part (`disk`), the MANIFEST that CURRENT selects (`cur`) and those it may select after a
crash (`dcur`); the version set with its counters; the edit being written (`apply`); the memtables;
the flush, the compaction and the cleanup in progress; the versions that readers have pinned. One
file operation is one action wherever a crash or another thread could come between. A crash keeps
or loses, independently, each record that was not synced and each change of the directory that no
`SyncDirectory` made durable. This is the contract of `FileSystem` as the engine uses it;
`WritableFile` shows what the POSIX implementation does for one file of it.

Abstractions: a write is one batch of at most one entry, with one writer at a time (groups are
`WritePath`'s). A table is a set of entries, and a compaction writes the entries of its inputs into
one output (levels and dropped entries are in `LsmTree`). The snapshot and the first edit of a new
MANIFEST are one record, since a MANIFEST that has only the first of them is as unusable as an
empty one.

The plans of `storage`: two crashes with three attempts to open; two writes and two rotations or
compactions with one crash; many crashes with much work; every operation failing before or after
its effect, with a crash after it; a reader, failing rotations and removals while a flush and its
cleanup run in the middle of a compaction; and crashes with `sync_wal_creation` off. In the last,
synced writes may be lost with their log, as the option says, so `AckedFound` leaves it out.

## LsmTree and KvStore

State: the entries of the two memory tables, the files of the current version by level, the compact
pointers, the registry of snapshots, the background task with the compaction it runs (`job`), the
file recorded for a seek compaction, and a read between its two critical sections. A file is its
number, its entries and its two end keys. The size of a file is the number of its entries, and the
value that an entry binds is its sequence, so that every write can be told apart.

The picker is a set of operators, one per function of `compaction_picker.cc`. A compaction is one
action per entry, and a flush may come before any of them, as `BeforeCompactionEntry` lets it. The
model also lets an entry pass while an immutable table waits, which is more than the code does
after its check. A charge always takes the last allowed seek of a file: budgets only delay it.

`KvStore` is what a user is promised: a map, and copies of it for the snapshots held. `ReadsAreAMap`
says that `LsmTree`, read through `LookupValue`, implements it: only `Write`, `GetSnapshot` and
`ReleaseSnapshot` are steps of `KvStore`, all others stutter. A write of `KvStore` binds one key to
the number of the write, which is its value and its sequence, or to nothing; `WritesAreSeen`, the
other part of `ReadsAreAMap`, says that it is a value when a value was written and nothing when a
tombstone was.

* `lsm_levels` has four plans. Flushes go to level 0, with four values of two keys, one snapshot
  and outputs of one entry: versions of one key get into several files of a level, where boundary
  inputs matter. The same without a snapshot, with five writes, deletions among them: compactions
  drop versions and tombstones. Flushes go to level 1 where nothing overlaps, also during a
  compaction into it. A read or sample charges, while versions are replaced under a snapshot.
* `lsm_reads`: the refinement, with four levels, so that a tombstone can meet an older version two
  levels below. Its plans are four writes, and three writes beside a read that charges.

`CompactionsDescend` stands for the termination of background work: it is an action property, with
a measure that every compaction lowers and only flushes raise.

## WalLog

State: the file as a sequence of cells, the records that were added, the writer's place in its
block, and the reader's block, record in progress and results. A header is three cells: checksum,
size and type, in the order of the bytes. A checksum is the value that it covers, so it matches
only what it was made from. A crash cuts the file at any cell, in the middle of a header too, and a
writer reopens what is left. The reader is one action per kind of fragment, and one for each way in
which decoding fails. A fragment of an unknown type with a correct checksum cannot arise here, since
the checksum covers the type.

`ReplayExact`: nothing is delivered that was not added, in another order or twice; a damaged cell
costs no record that lies wholly in other blocks; and a log whose end a crash cut off replays
without a report of corruption, unless a writer has gone on behind the cut. The plans of `wal` are three records with a crash, three with a
damaged cell, and two with both. Headers that end exactly with their block, trailers of one and two
cells, empty first fragments and records over three blocks all occur. `Read` is weakly fair: a
replay goes on while it can.

## ClockCache

State: the slots with their words (state, visited bit, pins), every index there was, the free list,
the counters, the mutex, the blocks that are not deleted, and what each thread is doing. A lookup
takes a step for each bucket, each load and each compare-and-swap. It may still use an index that
has been replaced. Insert, Erase and FinishRelease hold the mutex, and take a step for each access
that a lookup can see. The in-place refresh of the index is two steps, between which the index is
empty. Loads are sequentially consistent here, while the code uses acquire and release.

`clock` has two threads, two keys with one hash, small charges and capacity, and any number of
lookups and erasures. The first index has two buckets and grows once; the allowance refuses some
growth. Fairness is weak fairness of each thread's own steps, none for dropping a handle.

## Iterators

State: the three children of one merging iterator (the growing memtable, a table, and a level with
a file for each key), where each child stands, the direction of the merge, and the `DbIterator`
above it, which hides entries that are newer than its sequence, older versions and tombstones. A
step is one move of the merging iterator, so that a writer may add to the memtable between any two.
A turn backwards moves a child twice in one step; there the memtable may grow between the two moves.
Reading a table may fail at any move, with the children before it moved and those after it not. The
reference is the map that the sequence sees.

The plans of `iterators`: every placement of three entries of two keys in the sources, at every
sequence; two entries, a write of either kind and a failing move; two entries and two writes of
values. A written entry is above the iterator's sequence, so its kind is not looked at. Weak
fairness of the steps of a call (`Walk` and `Ends`): a call that has started goes on. Read sampling,
which only feeds the seek statistics of `LsmTree`, is left out.

## The table layer: Table, Block, BlockFormat, MemTable

`Table`. State: the builder with its file, block, pending index entry and filters; then an opened
table with one iterator. A user key is a sequence of letters, an internal key packs sequence and
kind into a trailer as the code does. Separators and successors are the functions of both
comparators. Which stored size a block gets, and whether it is full, are choices, since values and
compression decide them. A Bloom filter is the set of keys it was made from; for other keys its
answer is a choice. There are up to four of six keys, chosen so that separators exist, do not exist,
and end at the largest letter; blocks of one and three units with filter ranges of two; all three
filter layouts, read with and without the policy. Every write may fail, every part that `Open`
reads, and in every move of the iterator one block or all. An index entry may be damaged before the
table is opened: it leads to another block, or does not decode or lies behind the blocks. Only
`ValidateIndex` stands between that and wrong answers. The block cache is the set of the table's
blocks that are in it; a block in it is not read, so that it cannot fail. Tables of four keys are
read without a cache, tables of three of four keys with a cache of one block.

`Block`. State: a block under construction with its restart points, then an iterator over it with
its reverse cache and budget. A key is a sequence of one or two letters, stored by its shared length
and its suffix as the code does, and an iterator rebuilds it. One entry or one restart point may be
damaged, or the count of restart points may be, or the block may be cut: `Block::Create` refuses it,
or takes entries for restart points, restart points for entries, or has none at all. What the iterator computes is checked against the list of keys that were added. The module
uses recursive operators, so it is model-checked only.

`BlockFormat`. State: the bytes of a file, with blocks, trailers, handles and footer, of which one
byte may change, or the end be lost, before it is read through a handle that may be any. A byte has
four bits here, and a 64-bit word two bytes; sums and differences of offsets and sizes wrap around
at that width as they do in the code. The footer is read with the size that the metadata record or
with the size of the file. Compressors and the CRC32C library are external: a run of one byte
compresses to its length, and the sum of the bytes tells a change of one of them. The extension of a
checksum by the type and its mask, a rotation and an addition, are those of the code.

`MemTable`. State: for every link of the skip list, and for its height, all the stores to it. There
is one writer, so the stores have one order, and what a reader knows is a place in that order. It
may load the last store it knows of or any later one; loading what a release store wrote makes it
know all the stores up to that one. This is the order that `skiplist.h` asks for with its memory
orders. A link of a new node is garbage until it is stored. An insertion is one step for each store,
a search one step for each load. One reader is enough, because readers store nothing.

## LruCache and TableCache

`LruCache` is one shard: the chained hash table, the list of evictable entries and the list of those
in use, references and charges. An operation is one critical section; what it retires is deleted in
a later step. There are three keys, two of them alike, charges of one and three, a capacity of
three, four insertions, and five as the largest `size_t`, so that sums of charges overflow.

`TableCache` is the shared mode of the table cache: point reads that use a table again through a
weak, thread-local hint, beside openings, replacements and evictions. The generation of a shard
tells stale hints; it ends at a terminal value, where hints are shut off. Every atomic access is a
step. Its plans are two readers against two evictions of one file; one reader against three, one
more than there are generations; and two caches with two files each, all in one slot, with room for
one table.

## The process: FileLock, Executor, MultiGet, ConcurrentStress

`FileLock` is `LockFile` and its release, a step for each system call. The kernel's record locks
are external: they belong to a process, and any close of the file by the process drops them. There
are three threads in one process, one in another, two files, failures and crashes.

`Executor` is `SerialExecutor`: schedulers, the worker with its condition variable, and the
destructor. Weak fairness of the worker, of the destructor and of a notification in progress is what
the scheduler of the operating system gives; callers have none.

`MultiGet` is a batch that the caller and its workers read at one snapshot, while writes go on and
compactions drop what no snapshot needs. The start of a worker may fail and a read may throw. Weak
fairness of each worker and of the joining caller.

`ConcurrentStress` is the concurrent stress test itself: threads behind a start gate, recorded
histories of one key that `Linearizability` judges, then writers of batches against readers of
snapshots. The database under it is the one the other modules establish: a call takes effect at one
step between its start and its return, a batch is applied whole, a snapshot does not change. Ticks
are taken in program order. `TestsFair` asks whether the test can accuse such a database, and
`WorkSettles` whether it ends, when calls fail and threads cannot be started. It runs in checked mode
with two threads and two rounds, and in fan-out mode with four threads and one round. Weak fairness
of the main thread and of each other thread.

## The edges: files, formats, names, handles, the checker

`MappedReads` is the counter that limits mapped files: five files and two slots. `LimiterSafe` says
that there are never more mappings than slots, and that no slot is lost.

`WritableFile` is the buffered file. A write may stop at any byte. A sync that fails may lose pages
for good, so that a second one cannot repair it. A buffer of two bytes, appends of up to five and
nine bytes in all: every case of fitting, filling and bypassing the buffer occurs.

`Coding` has the fixed and varint codings as operators over bytes of `PayloadBits + 1` bits. Over
it, `InternalKey` has the trailer, the order of keys and `LookupKey`, which keeps its bytes inline or
on the heap and may be moved; `WriteBatch` the calls that build, append and read batches, whose
bytes may have changed or end early; `VersionEdit` the mutators, the encoding and the decoder field
by field. Words of one and two bytes of four bits reach every limit of a varint, of a count and of a
sequence. `RecordsRead` says that what was built is what is read, that nothing else is read beyond
its bytes or accepted that a caller could not have built, and that the order is the one searches
rely on.

`FileNames` makes and parses names over an alphabet of digits and words, in radix three with a
largest number, so that padding, leading zeros and numbers out of range all occur.

`Handles` is who owns what in the public API: databases, snapshots and iterators in the variables
of two threads are made, moved, assigned and dropped. A destructor's steps interleave with those of other
threads.

`Linearizability` is the backtracking search, one step for each operation it tries or takes back.
All histories of three operations that its validation accepts are tried, against the definition of
a linearization.

## What is proved beside WritePath

`FileLockProofs` proves `LockSafe`, which is `Exclusive`, `HolderOwns` and `NothingLeaked`, for any
processes, threads and files. Mutual exclusion is not inductive: it needs that the threads of a
process that are at work are at work on different files (`OneEach`), and that those files are
reserved until the descriptor is closed (`Reserved`). The only assumption is that every thread has
a process.

`MappedReadsProofs` proves `LimiterSafe`, that is `SlotsCounted` and `WithinLimit`, for any finite
set of files and any limit. The counter may be below zero while acquisitions fail, so the invariant counts them too.

`ExecutorProofs` proves `AcceptedOnce`, which `TasksOnce` checks, for any clients and any number of
tasks. It needs that tasks are detached once and none is queued afterwards (`DetachedOnce`): if a
task could be queued behind the canceled ones, the worker would run it out of order. And it needs
that only a worker that runs has a task (`WorkerOwns`), so that a joined one leaves nothing.

`MultiGetProofs` proves `BatchWhole`, which `BatchesWhole` checks, for any keys, any size of the
batch and any number of workers (`Sizes`: a natural number of keys, at least one worker). The
invariant `NothingSkipped` says that every key has been read, or lies at a multiple of the stride
before some worker. It holds at first by division with remainder (`Partition`), and a read moves it
by one stride (`NextAhead`). A worker that ended without being stopped is past the end, where no key
lies before it (`PastTheEnd`). `SnapshotHeld` keeps what the snapshot sees from compactions.

Only model-checked: all liveness, which the prover cannot express; what `Block` and the codings
compute by recursion or folds, which needs induction over data; and the invariants of the other
modules. Their inductive invariants are large (the steps of `LogAndApply` with their crash states,
the levels of `LsmTree` during a compaction) and have not been written.

## Not modelled

* The arena: an allocator of one thread, which frees nothing before the memtable goes.
* Hashes and CRC32C: arithmetic on words without state. They are external functions above.
* The vector variants of the full filter: the same bits, computed otherwise.
* The unique mode of the table cache: it is a lookup or an insertion of `LruCache` and has no hints.
* The creation of the database directory and of its parents in `recovery.cc`.
* Opening, listing, renaming and removing files: single system calls, whose effects are `Storage`'s.
* The Windows file system: the same interface over another kernel, outside a POSIX build.
* Options and their checks, and the reports of statistics.
* The other stress programs, benchmarks and fuzzers: sequential scripts that drive the engine through
  scenarios which the modules above enumerate.
* Diagnostics, which print files and change nothing.
* Composition of the byte formats with the engine: `Storage` takes a record for whole or lost, as
  `WalLog` shows, and `LsmTree` takes a table for a sorted set, as `Table` shows; neither is stated
  as a refinement.
