------------------------------ MODULE LsmTree ------------------------------
(***************************************************************************)
(* The log-structured tree: two memory tables, the levels of the current   *)
(* version, flush placement, the compaction picker, the compaction that    *)
(* rewrites its inputs entry by entry while writes, flushes, reads and     *)
(* snapshots go on, point lookups, seek statistics and the registry of     *)
(* snapshots.                                                              *)
(*                                                                         *)
(* A table file is its number and its set of entries; its size is the      *)
(* number of its entries.  The value an entry binds is its own sequence    *)
(* number, so any two writes can be told apart.  Durability and failures   *)
(* are the subject of Storage, the write queue is that of WritePath: here  *)
(* a write of one record is one step.                                      *)
(***************************************************************************)
EXTENDS Naturals, Sequences, FiniteSets, FiniteSetsExt, SequencesExt

CONSTANTS Key,                      \* user keys: positive integers
          Kind,                     \* kinds of records written, of ValueType
          Handle,                   \* snapshots a caller can hold at a time
          NumLevels,                \* 7 in the code
          MaxMemTableOutputLevel,   \* 2 in the code
          Level0CompactionTrigger,  \* 4 in the code
          LevelCapacity,            \* the capacity of level 1
          LevelFactor,              \* 10 in the code
          TargetFileSize,           \* max_file_size
          GrandparentLimit,         \* 10 * max_file_size
          ExpandedLimit,            \* 25 * max_file_size
          MaxWrites,                \* bound: writes in a behaviour
          MaxCharges                \* bound: reads that charge a seek

ASSUME LevelsAssumption ==
  /\ NumLevels \in Nat /\ MaxMemTableOutputLevel + 1 < NumLevels
  /\ Key \subseteq Nat \ {0} /\ Kind \subseteq {"value", "deletion"}
  /\ {LevelCapacity, LevelFactor, TargetFileSize, Level0CompactionTrigger} \subseteq Nat \ {0}

Level == 0 .. NumLevels - 1
Absent == 0

VARIABLES mem, imm,        \* entries of the mutable and the immutable table
          levels,          \* the files of the current version, by level
          version,         \* the identity of the current version
          pointers,        \* the compact pointer of each level
          next_file,       \* the next file number
          last_sequence,
          snapshots,       \* the registry's list, oldest first
          scheduled,       \* background_scheduled_
          job,             \* the compaction that runs, or Idle
          recorded,        \* SeekStatistics::recorded_, or NoCharge
          reader,          \* a Get between its two critical sections
          charges          \* reads that charged a seek so far

vars == <<mem, imm, levels, version, pointers, next_file, last_sequence,
          snapshots, scheduled, job, recorded, reader, charges>>

Idle == [running |-> FALSE]
NoCharge == [version |-> 0]
NoKey == [key |-> 0, seq |-> 0]

----------------------------------------------------------------------------
(* Internal keys and files *)

\* The internal key order: user keys ascending, sequences descending.
Before(a, b) == a.key < b.key \/ (a.key = b.key /\ a.seq > b.seq)

FirstEntry(entries) == CHOOSE e \in entries : \A d \in entries : ~Before(d, e)
LastEntry(entries) == CHOOSE e \in entries : \A d \in entries : ~Before(e, d)

\* FileMetadata of a table that holds the entries.
Table(number, entries) == [number |-> number, entries |-> entries,
                           smallest |-> FirstEntry(entries), largest |-> LastEntry(entries)]

FirstFile(files) == CHOOSE f \in files : \A g \in files : ~Before(g.smallest, f.smallest)

TotalFileSize(files) == MapThenSumSet(LAMBDA f : Cardinality(f.entries), files)

RangeOf(files) == [smallest |-> FirstEntry({f.smallest : f \in files}),
                   largest  |-> LastEntry({f.largest : f \in files})]

\* The files whose user keys meet the inclusive range of user keys.
Meeting(files, begin, end) ==
  {f \in files : f.smallest.key <= end /\ begin <= f.largest.key}

\* Level 0 is no disjoint run: a file found may widen the range, so that the
\* search restarts until nothing is added.
OverlappingFiles(v, level, range) ==
  LET begin == range.smallest.key
      end == range.largest.key
      closure[n \in Nat] ==
        IF n = 0 THEN Meeting(v[0], begin, end)
        ELSE LET found == closure[n - 1]
             IN Meeting(v[0], Min({begin} \union {f.smallest.key : f \in found}),
                              Max({end} \union {f.largest.key : f \in found}))
  IN IF level = 0 THEN closure[Cardinality(v[0])] ELSE Meeting(v[level], begin, end)

\* FAULT: the right edge is not extended over files that share its user key.
FaultNoBoundary(level_files, files) == files

\* Extends the right edge over the files that go on with its user key.
AddBoundaryInputs(level_files, files) ==
  LET extended[n \in Nat] ==
        IF n = 0 THEN files
        ELSE LET inputs == extended[n - 1]
                 edge == RangeOf(inputs).largest
                 after == {g \in level_files : Before(edge, g.smallest)}
             IN inputs \union
                {g \in after : g = FirstFile(after) /\ g.smallest.key = edge.key}
  IN IF files = {} THEN {} ELSE extended[Cardinality(level_files)]

----------------------------------------------------------------------------
(* Compaction picker *)

MaxBytesForLevel(level) == LevelCapacity * LevelFactor ^ (level - 1)

\* A score is a fraction: numerator and denominator.
Score(v, level) ==
  IF level = 0 THEN <<Cardinality(v[0]), Level0CompactionTrigger>>
  ELSE <<TotalFileSize(v[level]), MaxBytesForLevel(level)>>

Lower(a, b) == a[1] * b[2] < b[1] * a[2]

\* The first level of the greatest score; the last level has no successor.
ScoreCompaction(v) ==
  CHOOSE l \in 0 .. NumLevels - 2 :
    /\ \A m \in 0 .. NumLevels - 2 : ~Lower(Score(v, l), Score(v, m))
    /\ \A m \in 0 .. l - 1 : Lower(Score(v, m), Score(v, l))

ScoreReached(v) == LET s == Score(v, ScoreCompaction(v)) IN s[1] >= s[2]

HasFileToCompact == recorded.version = version

NeedsCompaction == ScoreReached(levels) \/ HasFileToCompact

\* The level and the file that start a compaction: by size, the file after
\* the level's pointer, or else its first one; otherwise the file recorded.
SelectInitialCompaction ==
  LET level == ScoreCompaction(levels)
      after == {f \in levels[level] : Before(pointers[level], f.largest)}
  IN IF ScoreReached(levels)
     THEN [level |-> level, file |-> FirstFile(IF after # {} THEN after ELSE levels[level])]
     ELSE [level |-> recorded.level, file |-> recorded.file]

CloseLevelZeroInputs(v, level, inputs) ==
  IF level = 0 THEN OverlappingFiles(v, 0, RangeOf(inputs)) ELSE inputs

\* TryExpandInputs and ApplyExpandedInputs: more of the first level, when it
\* takes no more of the next one and stays below the limit.
ExpandInputs(v, level, inputs, next_inputs) ==
  LET expanded == AddBoundaryInputs(v[level],
                    OverlappingFiles(v, level, RangeOf(inputs \union next_inputs)))
      expanded_next == AddBoundaryInputs(v[level + 1],
                         OverlappingFiles(v, level + 1, RangeOf(expanded)))
  IN IF /\ next_inputs # {}
        /\ Cardinality(expanded) > Cardinality(inputs)
        /\ TotalFileSize(next_inputs) + TotalFileSize(expanded) < ExpandedLimit
        /\ Cardinality(expanded_next) = Cardinality(next_inputs)
     THEN <<expanded, expanded_next>> ELSE <<inputs, next_inputs>>

CollectGrandparents(v, level, range) ==
  IF level + 2 >= NumLevels THEN {} ELSE OverlappingFiles(v, level + 2, range)

SetupInputs(v, level, start) ==
  LET first == AddBoundaryInputs(v[level], start)
      second == AddBoundaryInputs(v[level + 1], OverlappingFiles(v, level + 1, RangeOf(first)))
      inputs == ExpandInputs(v, level, first, second)
  IN [level |-> level,
      version |-> v,
      inputs |-> inputs,
      grandparents |-> CollectGrandparents(v, level, RangeOf(inputs[1] \union inputs[2])),
      pointer |-> RangeOf(inputs[1]).largest]

PickCompaction ==
  LET initial == SelectInitialCompaction
  IN SetupInputs(levels, initial.level,
                 CloseLevelZeroInputs(levels, initial.level, {initial.file}))

IsTrivialMove(c) == /\ Cardinality(c.inputs[1]) = 1
                    /\ c.inputs[2] = {}
                    /\ TotalFileSize(c.grandparents) <= GrandparentLimit

----------------------------------------------------------------------------
(* Point lookups *)

\* The only file of a deeper level that may decide (k, s): the first that
\* does not end before it, unless it begins after the user key.
LevelCandidate(files, k, s) ==
  {f \in files :
     /\ ~Before(f.largest, [key |-> k, seq |-> s])
     /\ \A g \in files : Before(g.smallest, f.smallest) =>
                           Before(g.largest, [key |-> k, seq |-> s])
     /\ f.smallest.key <= k}

\* The files that a point read may visit, each with its level.
Candidates(v, k, s) ==
  {[level |-> 0, file |-> f] : f \in Meeting(v[0], k, k)} \union
  UNION {{[level |-> l, file |-> f] : f \in LevelCandidate(v[l], k, s)} : l \in Level \ {0}}

\* CandidateCursor: level 0 from its newest file on, then level by level.
VisitedBefore(a, b) ==
  a.level < b.level \/ (a.level = b.level /\ a.file.number > b.file.number)

FirstVisited(candidates) ==
  CHOOSE c \in candidates : \A d \in candidates \ {c} : VisitedBefore(c, d)

Visible(entries, k, s) == {e \in entries : e.key = k /\ e.seq <= s}

\* The newest visible entry decides; a tombstone decides absence.
Decision(visible) ==
  IF FirstEntry(visible).kind = "value" THEN FirstEntry(visible).seq ELSE Absent

LookupValue(k, s) ==
  LET memory == Visible(IF Visible(mem, k, s) # {} THEN mem ELSE imm, k, s)
      deciding == {c \in Candidates(levels, k, s) : Visible(c.file.entries, k, s) # {}}
  IN IF memory # {} THEN Decision(memory)
     ELSE IF deciding = {} THEN Absent
     ELSE Decision(Visible(FirstVisited(deciding).file.entries, k, s))

\* PointLookup::Visit: the first file pays when a second one is visited.
ChargesFirst(k, s) ==
  LET candidates == Candidates(levels, k, s)
  IN /\ Visible(mem \union imm, k, s) = {}
     /\ Cardinality(candidates) >= 2
     /\ Visible(FirstVisited(candidates).file.entries, k, s) = {}

ChargeOf(candidate) == [version |-> version, level |-> candidate.level, file |-> candidate.file]

----------------------------------------------------------------------------
(* Scheduling and versions *)

MaybeScheduleBackgroundWork ==
  scheduled' = (scheduled \/ imm' # {} \/ NeedsCompaction')

\* The end of BackgroundCall: idle again, and scheduled again if need be.
BackgroundCallEnds == scheduled' = (imm' # {} \/ NeedsCompaction')

\* LogAndApply and Retain: a new current version forgets the recorded file.
Install(v) == /\ levels' = v
              /\ version' = version + 1
              /\ recorded' = NoCharge

----------------------------------------------------------------------------
(* Foreground *)

Init ==
  /\ mem = {} /\ imm = {}
  /\ levels = [l \in Level |-> {}]
  /\ version = 1
  /\ pointers = [l \in Level |-> NoKey]
  /\ next_file = 1
  /\ last_sequence = 0
  /\ snapshots = <<>>
  /\ scheduled = FALSE
  /\ job = Idle
  /\ recorded = NoCharge
  /\ reader = NoCharge
  /\ charges = 0

Write(k, kind) ==
  /\ last_sequence < MaxWrites
  /\ last_sequence' = last_sequence + 1
  /\ mem' = mem \union {[key |-> k, seq |-> last_sequence', kind |-> kind]}
  /\ UNCHANGED <<imm, levels, version, pointers, next_file, snapshots,
                 scheduled, job, recorded, reader, charges>>

\* A full memory table, or a caller's FlushMemTable, rotates the buffers.
SwitchMemTable ==
  /\ mem # {} /\ imm = {}
  /\ imm' = mem
  /\ mem' = {}
  /\ scheduled' = TRUE
  /\ UNCHANGED <<levels, version, pointers, next_file, last_sequence,
                 snapshots, job, recorded, reader, charges>>

\* SnapshotRegistry::Register links the newest registration at the end.
GetSnapshot(h) ==
  /\ \A i \in DOMAIN snapshots : snapshots[i].handle # h
  /\ snapshots' = Append(snapshots, [handle |-> h, seq |-> last_sequence])
  /\ UNCHANGED <<mem, imm, levels, version, pointers, next_file, last_sequence,
                 scheduled, job, recorded, reader, charges>>

ReleaseSnapshot(h) ==
  /\ \E i \in DOMAIN snapshots : /\ snapshots[i].handle = h
                                 /\ snapshots' = RemoveAt(snapshots, i)
  /\ UNCHANGED <<mem, imm, levels, version, pointers, next_file, last_sequence,
                 scheduled, job, recorded, reader, charges>>

OldestOr(fallback) == IF snapshots = <<>> THEN fallback ELSE Head(snapshots).seq

\* The sequences a read may use: the newest, and those of held snapshots.
ReadSequences == {last_sequence} \union {snapshots[i].seq : i \in DOMAIN snapshots}

\* Get up to its unlocked search: the version is pinned, a file will pay.
GetBegin(k, s) ==
  /\ reader = NoCharge /\ charges < MaxCharges
  /\ s \in ReadSequences
  /\ ChargesFirst(k, s)
  /\ reader' = ChargeOf(FirstVisited(Candidates(levels, k, s)))
  /\ charges' = charges + 1
  /\ UNCHANGED <<mem, imm, levels, version, pointers, next_file, last_sequence,
                 snapshots, scheduled, job, recorded>>

\* FAULT: the charge is recorded whichever version the read pinned.
FaultChargeStale(charge) ==
  recorded' = IF recorded.version = version THEN recorded
              ELSE [charge EXCEPT !.version = version]

\* SeekStatistics::Charge with the file's last allowed seek: recorded unless
\* the version read is no longer current or already has a recorded file.
Charge(charge) ==
  recorded' = IF charge.version # version \/ recorded.version = version
              THEN recorded ELSE charge

\* Get after its search, with the lock again.
GetEnd ==
  /\ reader # NoCharge
  /\ reader' = NoCharge
  /\ Charge(reader)
  /\ UNCHANGED <<mem, imm, levels, version, pointers, next_file, last_sequence,
                 snapshots, job, charges>>
  /\ MaybeScheduleBackgroundWork

\* RecordReadSample: an iterator over any earlier state samples the key at
\* which it is, against the version that is current now.
RecordReadSample(k, s) ==
  /\ charges < MaxCharges
  /\ Cardinality(Candidates(levels, k, s)) >= 2
  /\ Charge(ChargeOf(FirstVisited(Candidates(levels, k, s))))
  /\ charges' = charges + 1
  /\ UNCHANGED <<mem, imm, levels, version, pointers, next_file, last_sequence,
                 snapshots, job, reader>>
  /\ MaybeScheduleBackgroundWork

----------------------------------------------------------------------------
(* Flush *)

\* As deep as nothing overlaps on the way and the level below the next one
\* overlaps little.
PickLevelForMemTableOutput(v, file) ==
  LET overlapping(l) == Meeting(v[l], file.smallest.key, file.largest.key)
      passed(l) == /\ overlapping(l) = {}
                   /\ TotalFileSize(overlapping(l + 1)) <= GrandparentLimit
  IN IF overlapping(0) # {} THEN 0
     ELSE Max({l \in 0 .. MaxMemTableOutputLevel : \A m \in 1 .. l : passed(m)})

\* FlushImmutable: the table is built, placed and installed, and the memory
\* table it replaces dropped with it.
FlushMemTable ==
  LET file == Table(next_file, imm)
      level == PickLevelForMemTableOutput(levels, file)
  IN /\ imm # {}
     /\ next_file' = next_file + 1
     /\ Install([levels EXCEPT ![level] = @ \union {file}])
     /\ imm' = {}
     /\ UNCHANGED <<mem, pointers, last_sequence, snapshots, reader, charges>>

\* BackgroundCall with an immutable table.
BackgroundFlush ==
  /\ scheduled /\ job = Idle
  /\ FlushMemTable
  /\ UNCHANGED job
  /\ BackgroundCallEnds

\* BeforeCompactionEntry: a compaction gives way to the immutable table.
FlushDuringCompaction ==
  /\ job.running /\ job.rest # {}
  /\ FlushMemTable
  /\ UNCHANGED <<job, scheduled>>

----------------------------------------------------------------------------
(* Compaction *)

\* FAULT: the file stays at the level it was to leave.
FaultMoveNowhere(c) ==
  /\ Install(levels)
  /\ pointers' = [pointers EXCEPT ![c.level] = c.pointer]

\* InstallTrivialCompaction: the one file moves down as it is.
InstallTrivialCompaction(c) ==
  /\ Install([levels EXCEPT ![c.level] = @ \ c.inputs[1],
                            ![c.level + 1] = @ \union c.inputs[1]])
  /\ pointers' = [pointers EXCEPT ![c.level] = c.pointer]

TrivialMove ==
  /\ scheduled /\ job = Idle /\ imm = {}
  /\ IsTrivialMove(PickCompaction)
  /\ InstallTrivialCompaction(PickCompaction)
  /\ UNCHANGED <<mem, imm, next_file, last_sequence, snapshots, job, reader, charges>>
  /\ BackgroundCallEnds

\* RewriteCompaction up to its first entry.
RewriteCompaction ==
  /\ scheduled /\ job = Idle /\ imm = {}
  /\ ~IsTrivialMove(PickCompaction)
  /\ LET c == PickCompaction
     IN job' = [running |-> TRUE,
                compaction |-> c,
                smallest_snapshot |-> OldestOr(last_sequence),
                rest |-> UNION {f.entries : f \in c.inputs[1] \union c.inputs[2]},
                seen_key |-> FALSE, passed |-> {}, overlapped |-> 0,
                history |-> NoKey,
                open |-> {}, number |-> 0, finished |-> {}]
  /\ UNCHANGED <<mem, imm, levels, version, pointers, next_file, last_sequence,
                 snapshots, scheduled, recorded, reader, charges>>

\* GrandparentOverlap::AdvancePast: the grandparents that end before the key.
PassedBy(j, e) == {g \in j.compaction.grandparents : Before(g.largest, e)}

OverlappedBy(j, e) ==
  j.overlapped + (IF j.seen_key THEN TotalFileSize(PassedBy(j, e) \ j.passed) ELSE 0)

\* BaseLevel: nothing below the output level can hold the key.
IsBaseLevelForKey(c, k) ==
  \A l \in c.level + 2 .. NumLevels - 1 : Meeting(c.version[l], k, k) = {}

\* FAULT: a tombstone is dropped while deeper levels may hold the key.
FaultDropTombstones(j, e) ==
  \/ j.history.key = e.key /\ j.history.seq <= j.smallest_snapshot
  \/ e.kind = "deletion" /\ e.seq <= j.smallest_snapshot

\* VisibleHistory::ShouldDrop: hidden from every reader by the newer version
\* before it, or a tombstone every reader sees with nothing left to hide.
ShouldDrop(j, e) ==
  \/ j.history.key = e.key /\ j.history.seq <= j.smallest_snapshot
  \/ /\ e.kind = "deletion" /\ e.seq <= j.smallest_snapshot
     /\ IsBaseLevelForKey(j.compaction, e.key)

\* Outputs::Finish of the open output, if there is one.
Finished(number, open) == IF open = {} THEN {} ELSE {Table(number, open)}

\* ProcessEntry: the smallest entry left ends an output, is dropped or added.
ProcessEntry ==
  /\ job.running /\ job.rest # {}
  /\ LET e == FirstEntry(job.rest)
         stop == OverlappedBy(job, e) > GrandparentLimit
         ended == IF stop THEN Finished(job.number, job.open) ELSE {}
         open == IF stop THEN {} ELSE job.open
         dropped == ShouldDrop(job, e)
         opens == open = {} /\ ~dropped
         number == IF opens THEN next_file ELSE job.number
         added == IF dropped THEN open ELSE open \union {e}
         full == ~dropped /\ Cardinality(added) >= TargetFileSize
     IN /\ job' = [job EXCEPT !.rest = @ \ {e},
                              !.seen_key = TRUE,
                              !.passed = PassedBy(job, e),
                              !.overlapped = IF stop THEN 0 ELSE OverlappedBy(job, e),
                              !.history = [key |-> e.key, seq |-> e.seq],
                              !.open = IF full THEN {} ELSE added,
                              !.number = number,
                              !.finished = @ \union ended \union
                                           IF full THEN Finished(number, added) ELSE {}]
        /\ next_file' = IF opens THEN next_file + 1 ELSE next_file
  /\ UNCHANGED <<mem, imm, levels, version, pointers, last_sequence,
                 snapshots, scheduled, recorded, reader, charges>>

\* FinishCompaction, LogAndApply and the end of BackgroundCall: the inputs
\* leave the current version and the outputs join the next level.
FinishCompaction ==
  /\ job.running /\ job.rest = {}
  /\ LET c == job.compaction
     IN /\ Install([levels EXCEPT
               ![c.level] = @ \ c.inputs[1],
               ![c.level + 1] = (@ \ c.inputs[2]) \union job.finished
                                \union Finished(job.number, job.open)])
        /\ pointers' = [pointers EXCEPT ![c.level] = c.pointer]
  /\ job' = Idle
  /\ UNCHANGED <<mem, imm, next_file, last_sequence, snapshots, reader, charges>>
  /\ BackgroundCallEnds

----------------------------------------------------------------------------
Background == \/ BackgroundFlush \/ FlushDuringCompaction
              \/ TrivialMove \/ RewriteCompaction \/ ProcessEntry \/ FinishCompaction

Next == \/ \E k \in Key, kind \in Kind : Write(k, kind)
        \/ SwitchMemTable
        \/ \E h \in Handle : GetSnapshot(h) \/ ReleaseSnapshot(h)
        \/ \E k \in Key, s \in 1 .. MaxWrites : GetBegin(k, s)
        \/ GetEnd
        \/ \E k \in Key, s \in 1 .. MaxWrites : s <= last_sequence /\ RecordReadSample(k, s)
        \/ Background

Spec == Init /\ [][Next]_vars

----------------------------------------------------------------------------
(* Properties *)

\* Below level 0 no two files of a level have overlapping internal key
\* ranges.  BuildTrusted installs background edits without looking
\* (metadata/version.cc), binary searches rely on it, and the checked Build
\* would refuse the MANIFEST at the next open.
LevelsDisjoint ==
  \A l \in Level \ {0} : \A f, g \in levels[l] :
    f # g => Before(f.largest, g.smallest) \/ Before(g.largest, f.smallest)

\* The sources in the order in which LookupValue consults them.
Rank(l, f) == IF l = 0 THEN <<2, next_file - f.number>> ELSE <<2 + l, 0>>
Sources ==
  {[rank |-> <<0, 0>>, entries |-> mem], [rank |-> <<1, 0>>, entries |-> imm]} \union
  UNION {{[rank |-> Rank(l, f), entries |-> f.entries] : f \in levels[l]} : l \in Level}
Earlier(a, b) == a[1] < b[1] \/ (a[1] = b[1] /\ a[2] < b[2])

\* Whatever flushes and compactions do, every version of a key in a source
\* consulted earlier is newer than every version of it consulted later: the
\* claim AddBoundaryInputs makes ("older versions left in the shallower level
\* could hide newer versions moved down").
NewerAbove ==
  \A a, b \in Sources : Earlier(a.rank, b.rank) =>
    \A e \in a.entries, d \in b.entries : e.key = d.key => e.seq > d.seq

\* Whatever flushes and compactions do, lookups and searches may rely on how the
\* levels are ordered.
TreeOrdered == LevelsDisjoint /\ NewerAbove

\* A file recorded for compaction is in the current version at the level
\* recorded, and that level has a next one, although the read that charged it
\* ran unlocked (SeekStatistics::Charge).
RecordedFileLive ==
  HasFileToCompact => /\ recorded.file \in levels[recorded.level]
                      /\ recorded.level + 1 < NumLevels

\* Flushes that ran during a compaction have left its inputs in place, so its
\* edit deletes only live files, and nothing that came to the output level
\* meets its outputs.
InputsLive ==
  job.running =>
    LET c == job.compaction
        outputs == job.finished \union Finished(job.number, job.open)
    IN /\ \A i \in {1, 2} : c.inputs[i] \subseteq levels[c.level + i - 1]
       /\ \A f \in levels[c.level + 1] \ c.inputs[2], g \in outputs :
            Before(f.largest, g.smallest) \/ Before(g.largest, f.smallest)

\* Background work is scheduled exactly when there is some: no need is left
\* without a task, and Compact, which uses PickCompaction's answer unchecked,
\* runs only when there is one ("the need that scheduled this task remains").
WorkIsScheduled ==
  job = Idle => (scheduled <=> (imm # {} \/ NeedsCompaction))

\* What the background task acts on is never stale, although it was chosen under a
\* lock that has been given up since.
BackgroundSound == RecordedFileLive /\ InputsLive /\ WorkIsScheduled

\* How far all entries in the levels are from the last one.
Height(v) == MapThenSumSet(LAMBDA l : (NumLevels - 1 - l) * TotalFileSize(v[l]), Level)

\* Every move and every compaction brings data closer to the last level,
\* which asks for none: between two flushes the background work that keeps
\* scheduling itself comes to an end.
CompactionsDescend ==
  [][version' # version /\ imm' = imm => Height(levels') < Height(levels)]_vars

Store == INSTANCE KvStore WITH
  Value <- 1 .. MaxWrites,
  writes <- last_sequence,
  now <- [k \in Key |-> LookupValue(k, last_sequence)],
  kept <- [h \in {snapshots[i].handle : i \in DOMAIN snapshots} |->
             LET i == CHOOSE i \in DOMAIN snapshots : snapshots[i].handle = h
             IN [k \in Key |-> LookupValue(k, snapshots[i].seq)]]

\* A write is seen at once for what it is, a value or a tombstone.
WritesAreSeen ==
  [][\A e \in mem' :
       last_sequence < e.seq =>
         LookupValue(e.key, last_sequence)' = IF e.kind = "value" THEN e.seq ELSE Absent]_vars

\* Reads at the newest sequence and at every held snapshot see a plain map and its copies:
\* a write binds its key and no other, to what it writes, and flushes, moves, compactions
\* and statistics are invisible.
ReadsAreAMap == Store!Spec /\ WritesAreSeen
=============================================================================
