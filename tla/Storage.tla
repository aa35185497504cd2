------------------------------ MODULE Storage ------------------------------
(***************************************************************************)
(* What the engine keeps on disk and what a crash leaves of it: the logs,    *)
(* the tables, the MANIFEST and CURRENT (metadata/version_set.cc), recovery  *)
(* (engine/recovery.cc), and the flushes, compactions and cleanups that      *)
(* change them (engine/database_background.cc).                              *)
(*                                                                          *)
(* A file is a sequence of records with a synced prefix; its name is a pair  *)
(* <<kind, number>>.  names is the directory as processes see it, dnames the *)
(* directory that the last SyncDirectory made durable.  After a crash every  *)
(* name that differs between the two may be there or not, and every record   *)
(* that was not synced may be there or not.                                  *)
(*                                                                          *)
(* One write is one batch of at most one entry; the group commit of several  *)
(* writers is WritePath's.  A table is the set of entries it holds; which of *)
(* them a compaction may drop, and at which level a table is, is LsmTree's.  *)
(***************************************************************************)
EXTENDS Integers, Sequences, FiniteSets, SequencesExt

CONSTANTS
    SyncCreation,   \* Options::sync_wal_creation
    Threshold,      \* memtable_size_threshold of a replay, in entries
    Reader,         \* threads that read with a pinned version
    Faults,         \* the steps that may fail
    MaxWrites,      \* bound: writes
    MaxOpens,       \* bound: attempts to open the database
    MaxCrashes,     \* bound: crashes
    MaxWork         \* bound: rotations and compactions

FaultKinds == {"log", "rotate", "table", "manifest", "remove"}

ASSUME ConstantAssumption ==
    /\ SyncCreation \in BOOLEAN
    /\ Threshold \in Nat
    /\ Faults \subseteq FaultKinds
    /\ MaxWrites \in Nat /\ MaxOpens \in Nat /\ MaxCrashes \in Nat /\ MaxWork \in Nat

VARIABLES
    names, dnames,  \* the directory, and its durable copy
    disk,           \* contents of every file that has a name in one of them
    cur, dcur,      \* the MANIFEST number in CURRENT; what it may be after a crash
    temp,           \* the temporary file that becomes CURRENT: its number, whether synced
    phase,          \* of the process: down, create, replay, newlog, cleanup, open, closing, failed
    replay,         \* LogReplay: logs and records still to apply, memtable, last sequence, tables
    version,        \* tables of the current version
    manifest, manifest_open, next_file, last_sequence, log_number, failure, sticky_error,
    apply,          \* LogAndApply in progress: its step and its record
    log, mem, imm,  \* write_buffers_
    wpc, w,         \* the write in progress
    flush,          \* FlushImmutable in progress: step, table number, log number, base version
    comp,           \* Compact in progress: step, inputs, output number, base version
    pending_outputs,
    obsolete,       \* files that RemoveObsoleteFiles still has to remove
    pins,           \* the version that each reader has pinned
    acked,          \* history: the writes that must be there; synced ones survive a crash
    opens, crashes, writes, work  \* history: counters for the bounds

fsVars == <<names, dnames, disk, cur, dcur, temp>>
setVars == <<version, manifest, manifest_open, next_file, last_sequence, log_number, failure>>
bufferVars == <<log, mem, imm>>
writeVars == <<wpc, w, acked>>
workVars == <<flush, comp, pending_outputs, obsolete>>
countVars == <<opens, crashes, writes, work>>
vars == <<fsVars, phase, replay, setVars, sticky_error, apply, bufferVars, writeVars, workVars,
          pins, countVars>>

NoReplay == [logs |-> << >>, recs |-> << >>, mem |-> {}, last |-> 0, add |-> {}]
NoApply == [step |-> "none", rec |-> [add |-> {}, del |-> {}, log |-> 0, next |-> 0, last |-> 0]]
NoFlush == [step |-> "none", number |-> 0, log |-> 0, base |-> {}]
NoComp == [step |-> "none", inputs |-> {}, number |-> 0, base |-> {}]
NoImm == [log |-> 0, entries |-> {}]
NoWrite == [id |-> 0, seq |-> 0, count |-> 0, sync |-> FALSE]
NoTemp == [number |-> 0, synced |-> FALSE]
Torn == 0 - 1       \* CURRENT without its contents

Log(n) == <<"log", n>>
Table(n) == <<"table", n>>
Manifest(n) == <<"manifest", n>>
Temp(n) == <<"temp", n>>

-----------------------------------------------------------------------------
(* The file system.                                                          *)

\* OpenWritable, and the records written before the next step: whatever had the
\* name is gone.
Create(f, recs, synced) ==
    /\ names' = names \cup {f}
    /\ disk' = [x \in DOMAIN disk \cup {f} |->
                  IF x = f THEN [recs |-> recs, synced |-> synced] ELSE disk[x]]

AppendTo(f, r) == disk' = [disk EXCEPT ![f].recs = Append(@, r)]

SyncFile(f) == disk' = [disk EXCEPT ![f].synced = Len(disk[f].recs)]

RemoveFile(f) ==
    /\ names' = names \ {f}
    /\ disk' = [x \in (names \ {f}) \cup dnames |-> disk[x]]

\* SyncDirectory: removed files are gone for good.
SyncDirectory ==
    /\ dnames' = names
    /\ dcur' = {cur}
    /\ disk' = [f \in names |-> disk[f]]
    /\ UNCHANGED <<names, cur, temp>>

\* A new empty log, whose name is made durable with the directory's.
CreateLog(n) ==
    /\ names' = names \cup {Log(n)}
    /\ IF SyncCreation THEN dnames' = names' /\ dcur' = {cur} ELSE UNCHANGED <<dnames, dcur>>
    /\ disk' = [x \in names' \cup dnames' |->
                  IF x = Log(n) THEN [recs |-> << >>, synced |-> 0] ELSE disk[x]]
    /\ UNCHANGED <<cur, temp>>

\* The records of f that a crash leaves when it loses those in lost.
Survivors(f, lost) ==
    LET kept == {i \in DOMAIN disk[f].recs : <<f, i>> \notin lost}
        order == SetToSortSeq(kept, <)
    IN [k \in DOMAIN order |-> disk[f].recs[order[k]]]

Unsynced ==
    UNION {{<<f, i>> : i \in (disk[f].synced + 1)..Len(disk[f].recs)} : f \in DOMAIN disk}

\* A MANIFEST loses a suffix; in a log a lost record may precede a kept one.
MayLose(lost) ==
    \A x \in lost : x[1][1] = "manifest" =>
        \A y \in Unsynced : y[1] = x[1] /\ y[2] > x[2] => y \in lost

-----------------------------------------------------------------------------
(* The process ends: everything but the disk is forgotten.                   *)

Forget ==
    /\ replay' = NoReplay /\ apply' = NoApply /\ flush' = NoFlush /\ comp' = NoComp
    /\ version' = {} /\ manifest' = 1 /\ manifest_open' = FALSE /\ next_file' = 2
    /\ last_sequence' = 0 /\ log_number' = 0 /\ failure' = FALSE /\ sticky_error' = FALSE
    /\ log' = 0 /\ mem' = {} /\ imm' = NoImm
    /\ wpc' = "idle" /\ w' = NoWrite
    /\ pending_outputs' = {} /\ obsolete' = {}
    /\ pins' = [r \in Reader |-> {}]
    /\ temp' = NoTemp

Crash ==
    /\ phase \notin {"down", "failed"} /\ crashes < MaxCrashes
    /\ \E lost \in SUBSET Unsynced, gone \in SUBSET ((names \ dnames) \cup (dnames \ names)) :
          /\ MayLose(lost)
          /\ names' = (names \cup dnames) \ gone
          /\ disk' = [f \in (names \cup dnames) \ gone |->
                        [recs |-> Survivors(f, lost), synced |-> Len(Survivors(f, lost))]]
    /\ dnames' = names'
    /\ cur' \in dcur \cup {cur}
    /\ dcur' = {cur'}
    /\ phase' = "down"
    /\ Forget
    /\ acked' = {a \in acked : a.sync}
    /\ crashes' = crashes + 1
    /\ UNCHANGED <<opens, writes, work>>

\* An attempt to open the database fails, and so does the call.
OpenFails ==
    /\ phase' = "down"
    /\ Forget

-----------------------------------------------------------------------------
(* VersionSet.                                                               *)

TablesOf(recs) ==
    {t \in UNION {recs[i].add : i \in DOMAIN recs} :
        \E i \in DOMAIN recs : t \in recs[i].add /\ \A j \in (i + 1)..Len(recs) : t \notin recs[j].del}

\* IncludeAddedFileNumbers, AccumulateLogNumber: every number that a record names.
NumbersOf(recs) ==
    UNION {recs[i].add : i \in DOMAIN recs} \cup {recs[i].log : i \in DOMAIN recs}

\* Replay and ValidateCounters.
ManifestValid(m) ==
    /\ Manifest(m) \in names
    /\ disk[Manifest(m)].recs # << >>
    /\ LET recs == disk[Manifest(m)].recs
       IN /\ \A n \in NumbersOf(recs) : n < recs[Len(recs)].next
          /\ \A i \in 1..(Len(recs) - 1) : recs[i].log <= recs[i + 1].log

MaxOf(a, b) == IF a >= b THEN a ELSE b

\* PublishRecoveredCounters and Install.
RecoverVersions(m) ==
    LET recs == disk[Manifest(m)].recs
        final == recs[Len(recs)]
    IN /\ version' = TablesOf(recs)
       /\ manifest' = MaxOf(final.next, m + 1)
       /\ next_file' = MaxOf(final.next, m + 1) + 1
       /\ last_sequence' = final.last
       /\ log_number' = final.log
       /\ UNCHANGED <<manifest_open, failure>>

\* Validate.
ValidEdit(add, lognum) ==
    /\ lognum >= log_number /\ lognum < next_file
    /\ \A t \in add : t < next_file

\* The start of LogAndApply: the record that ApplyPrepared writes.  A new MANIFEST
\* starts with a snapshot of the current version.
Prepare(add, del, lognum, next) ==
    apply' = [step |-> IF manifest_open THEN "append" ELSE "create",
              rec |-> [add |-> IF manifest_open THEN add ELSE (version \cup add) \ del,
                       del |-> IF manifest_open THEN del ELSE {},
                       log |-> lognum, next |-> next, last |-> last_sequence]]

\* PublishPreparedEdit: the new version replaces the current one.
Publish(add, del, lognum) ==
    /\ version' = (version \ del) \cup add
    /\ log_number' = lognum
    /\ manifest_open' = TRUE
    /\ UNCHANGED <<manifest, next_file, last_sequence, failure>>

-----------------------------------------------------------------------------
(* VersionSet::Write and InstallCurrent, one file operation per action.      *)

ApplyTo(step) == apply' = [apply EXCEPT !.step = step]

restVars == <<phase, replay, setVars, sticky_error, bufferVars, writeVars, workVars, pins,
              countVars>>

CreateManifest ==
    /\ apply.step = "create"
    /\ Create(Manifest(manifest), <<apply.rec>>, 0)
    /\ ApplyTo("sync")
    /\ UNCHANGED <<dnames, cur, dcur, temp, restVars>>

AppendManifest ==
    /\ apply.step = "append"
    /\ AppendTo(Manifest(manifest), apply.rec)
    /\ ApplyTo("sync")
    /\ UNCHANGED <<names, dnames, cur, dcur, temp, restVars>>

SyncManifest ==
    /\ apply.step = "sync"
    /\ SyncFile(Manifest(manifest))
    /\ ApplyTo(IF manifest_open THEN "done" ELSE "dirsync")
    /\ UNCHANGED <<names, dnames, cur, dcur, temp, restVars>>

SyncManifestName ==
    /\ apply.step = "dirsync"
    /\ SyncDirectory
    /\ ApplyTo("temp")
    /\ UNCHANGED restVars

\* OpenWritable and Append of the temporary file.
WriteTemporary ==
    /\ apply.step = "temp"
    /\ Create(Temp(manifest), << >>, 0)
    /\ temp' = [number |-> manifest, synced |-> FALSE]
    /\ ApplyTo("tempsync")
    /\ UNCHANGED <<dnames, cur, dcur, restVars>>

SyncTemporary ==
    /\ apply.step = "tempsync"
    /\ temp' = [temp EXCEPT !.synced = TRUE]
    /\ ApplyTo("rename")
    /\ UNCHANGED <<names, dnames, disk, cur, dcur, restVars>>

\* RenameFile: until the directory is synced a crash may undo it, and CURRENT has
\* contents only if they were synced.
RenameTemporary ==
    /\ apply.step = "rename"
    /\ cur' = temp.number
    /\ dcur' = dcur \cup {IF temp.synced THEN temp.number ELSE Torn}
    /\ RemoveFile(Temp(manifest))
    /\ temp' = NoTemp
    /\ ApplyTo("cursync")
    /\ UNCHANGED <<dnames, restVars>>

SyncCurrentName ==
    /\ apply.step = "cursync"
    /\ SyncDirectory
    /\ ApplyTo("done")
    /\ UNCHANGED restVars

WriteManifest ==
    \/ CreateManifest \/ AppendManifest \/ SyncManifest \/ SyncManifestName
    \/ WriteTemporary \/ SyncTemporary \/ RenameTemporary \/ SyncCurrentName

\* An operation returns an error before or after its effect.
ManifestFails ==
    /\ "manifest" \in Faults
    /\ apply.step \notin {"none", "done", "error"}
    /\ apply' = [apply EXCEPT !.step = "error"]
    /\ \/ UNCHANGED <<names, dnames, disk, cur, dcur, temp>>
       \/ /\ apply.step = "append"
          /\ AppendTo(Manifest(manifest), apply.rec)
          /\ UNCHANGED <<names, dnames, cur, dcur, temp>>
       \/ /\ apply.step = "create"
          /\ Create(Manifest(manifest), <<apply.rec>>, 0)
          /\ UNCHANGED <<dnames, cur, dcur, temp>>
       \/ /\ apply.step = "sync"
          /\ SyncFile(Manifest(manifest))
          /\ UNCHANGED <<names, dnames, cur, dcur, temp>>
       \/ /\ apply.step = "rename"
          /\ cur' = temp.number
          /\ dcur' = dcur \cup {IF temp.synced THEN temp.number ELSE Torn}
          /\ RemoveFile(Temp(manifest))
          /\ UNCHANGED <<dnames, temp>>
       \/ /\ apply.step = "cursync"
          /\ SyncDirectory
    /\ failure' = TRUE
    /\ UNCHANGED <<phase, replay, version, manifest, manifest_open, next_file, last_sequence,
                   log_number, sticky_error, bufferVars, writeVars, workVars, pins, countVars>>

-----------------------------------------------------------------------------
(* RecoverDatabase.                                                          *)

\* OpenVersions: VersionSet::Create when there is no CURRENT.
OpenCreate ==
    /\ phase = "down" /\ opens < MaxOpens /\ cur = 0
    /\ phase' = "create" /\ opens' = opens + 1
    /\ Prepare({}, {}, 0, next_file)
    /\ UNCHANGED <<fsVars, replay, setVars, sticky_error, bufferVars, writeVars, workVars, pins,
                   crashes, writes, work>>

CreateDone ==
    /\ phase = "create" /\ apply.step = "done"
    /\ Publish({}, {}, 0)
    /\ phase' = "prepare" /\ apply' = NoApply
    /\ UNCHANGED <<fsVars, replay, sticky_error, bufferVars, writeVars, workVars, pins, countVars>>

\* OpenVersions: VersionSet::Recover from the MANIFEST that CURRENT selects.
OpenRecover ==
    /\ phase = "down" /\ opens < MaxOpens /\ cur # 0
    /\ opens' = opens + 1
    /\ IF cur # Torn /\ ManifestValid(cur)
         THEN phase' = "prepare" /\ RecoverVersions(cur)
         ELSE phase' = "failed" /\ UNCHANGED setVars
    /\ UNCHANGED <<fsVars, replay, sticky_error, apply, bufferVars, writeVars, workVars, pins,
                   crashes, writes, work>>

NumbersIn(kind) == {f[2] : f \in {g \in names : g[1] = kind}}

\* PrepareLogsForReplay: the logs to replay, oldest first; their numbers are used.
PrepareLogs ==
    /\ phase = "prepare"
    /\ LET logs == {n \in NumbersIn("log") : n >= log_number}
       IN IF version \subseteq NumbersIn("table")
            THEN /\ phase' = "replay"
                 /\ replay' = [replay EXCEPT !.logs = SetToSortSeq(logs, <)]
                 /\ next_file' = IF logs = {} THEN next_file ELSE MaxOf(next_file, Max(logs) + 1)
            ELSE phase' = "failed" /\ UNCHANGED <<replay, next_file>>
    /\ UNCHANGED <<fsVars, version, manifest, manifest_open, last_sequence, log_number, failure,
                   sticky_error, apply, bufferVars, writeVars, workVars, pins, countVars>>

\* ReplayLog opens the next log.
OpenLog ==
    /\ phase = "replay" /\ replay.recs = << >> /\ replay.logs # << >>
    /\ replay' = [replay EXCEPT !.recs = disk[Log(Head(replay.logs))].recs,
                                !.logs = Tail(@)]
    /\ UNCHANGED <<fsVars, phase, setVars, sticky_error, apply, bufferVars, writeVars, workVars,
                   pins, countVars>>

Entry(r) == [id |-> r.id, seq |-> r.seq]

\* Flush: BuildTable writes and syncs the table under a new number.
FlushReplayed(r) ==
    /\ Create(Table(next_file), <<r.mem>>, 1)
    /\ next_file' = next_file + 1
    /\ replay' = [r EXCEPT !.mem = {}, !.add = @ \cup {next_file}]

NoFlushReplayed(r) ==
    /\ replay' = r
    /\ UNCHANGED <<names, disk, next_file>>

\* Apply: a batch must follow those before it; a full memtable becomes a table.
ReplayRecord ==
    /\ phase = "replay" /\ replay.recs # << >>
    /\ LET rec == Head(replay.recs)
           r == [replay EXCEPT !.recs = Tail(@), !.last = rec.seq + rec.count - 1,
                               !.mem = IF rec.count = 0 THEN @ ELSE @ \cup {Entry(rec)}]
       IN IF rec.seq <= replay.last
            THEN phase' = "failed" /\ NoFlushReplayed(replay)
            ELSE /\ UNCHANGED phase
                 /\ IF rec.count > 0 /\ Cardinality(r.mem) > Threshold
                      THEN FlushReplayed(r)
                      ELSE NoFlushReplayed(r)
    /\ UNCHANGED <<dnames, cur, dcur, temp, version, manifest, manifest_open, last_sequence,
                   log_number, failure, sticky_error, apply, bufferVars, writeVars, workVars, pins,
                   countVars>>

\* FAULT: the sequences of the replayed batches are given out again.
FaultForgetSequence ==
    /\ phase = "replay" /\ replay.recs = << >> /\ replay.logs = << >>
    /\ IF replay.mem # {} THEN FlushReplayed(replay) ELSE NoFlushReplayed(replay)
    /\ UNCHANGED last_sequence
    /\ phase' = "newlog"
    /\ UNCHANGED <<dnames, cur, dcur, temp, version, manifest, manifest_open,
                   log_number, failure, sticky_error, apply, bufferVars, writeVars, workVars, pins,
                   countVars>>

\* Finish, and the last sequence that recovery continues from.
FinishReplay ==
    /\ phase = "replay" /\ replay.recs = << >> /\ replay.logs = << >>
    /\ IF replay.mem # {} THEN FlushReplayed(replay) ELSE NoFlushReplayed(replay)
    /\ last_sequence' = MaxOf(last_sequence, replay.last)
    /\ phase' = "newlog"
    /\ UNCHANGED <<dnames, cur, dcur, temp, version, manifest, manifest_open,
                   log_number, failure, sticky_error, apply, bufferVars, writeVars, workVars, pins,
                   countVars>>

\* CreateRecoveryLog, and the start of the edit that installs the log and the tables.
InstallRecoveryLog ==
    /\ phase = "newlog"
    /\ log' = next_file
    /\ next_file' = next_file + 1
    /\ CreateLog(next_file)
    /\ Prepare(replay.add, {}, next_file, next_file + 1)
    /\ phase' = "install"
    /\ UNCHANGED <<replay, version, manifest, manifest_open, last_sequence, log_number,
                   failure, sticky_error, mem, imm, writeVars, workVars, pins, countVars>>

\* KeepFile.
Keep(f, live, lognum) ==
    \/ f[1] = "log" /\ f[2] >= lognum
    \/ f[1] = "manifest" /\ f[2] >= manifest
    \/ f[1] \in {"table", "temp"} /\ f[2] \in live

\* The files of the versions that someone still has, and of the outputs in progress.
LiveFiles(inUse) == inUse \cup UNION Range(pins)

\* RemoveObsoleteFiles collects what no version in use and no output needs.
Collect(inUse, lognum) ==
    IF sticky_error'
      THEN obsolete' = {}
      ELSE obsolete' = {f \in names' : ~Keep(f, LiveFiles(inUse), lognum)}

\* The database is open but for the cleanup.
RecoveryDone ==
    /\ phase = "install" /\ apply.step = "done"
    /\ Publish(replay.add, {}, log)
    /\ apply' = NoApply /\ replay' = NoReplay /\ phase' = "cleanup"
    /\ UNCHANGED <<fsVars, sticky_error, bufferVars, writeVars, flush, comp, pending_outputs, pins,
                   countVars>>
    /\ Collect(version', log_number')

OpenReturns ==
    /\ phase = "cleanup" /\ obsolete = {}
    /\ phase' = "open"
    /\ UNCHANGED <<fsVars, replay, setVars, sticky_error, apply, bufferVars, writeVars, workVars,
                   pins, countVars>>

\* A step of RecoverDatabase returns an error.
RecoveryFails ==
    /\ \/ phase \in {"create", "install"} /\ apply.step = "error"
       \/ "table" \in Faults /\ phase = "replay" /\ replay.recs = << >>
    /\ OpenFails
    /\ UNCHANGED <<names, dnames, disk, cur, dcur, acked, countVars>>

-----------------------------------------------------------------------------
(* Writes and rotations.                                                     *)

Running == phase \in {"open", "closing"}

\* CommitWrite up to the record in the log.
WriteAppend ==
    /\ phase = "open" /\ wpc = "idle" /\ ~sticky_error /\ writes < MaxWrites
    /\ \E sync \in BOOLEAN, count \in {0, 1} :
          /\ w' = [id |-> writes + 1, seq |-> last_sequence + 1, count |-> count, sync |-> sync]
          /\ AppendTo(Log(log), [id |-> writes + 1, seq |-> last_sequence + 1, count |-> count])
          /\ wpc' = IF sync THEN "sync" ELSE "insert"
    /\ writes' = writes + 1
    /\ UNCHANGED <<names, dnames, cur, dcur, temp, phase, replay, setVars, sticky_error, apply,
                   bufferVars, acked, workVars, pins, opens, crashes, work>>

WriteSync ==
    /\ wpc = "sync"
    /\ SyncFile(Log(log))
    /\ wpc' = "insert"
    /\ UNCHANGED <<names, dnames, cur, dcur, temp, phase, replay, setVars, sticky_error, apply,
                   bufferVars, w, acked, workVars, pins, countVars>>

\* The batch enters the memtable, its sequence is published and the write returns.
WritePublish ==
    /\ wpc = "insert"
    /\ mem' = IF w.count = 0 THEN mem ELSE mem \cup {Entry(w)}
    /\ last_sequence' = w.seq + w.count - 1
    /\ acked' = IF w.count = 0 THEN acked ELSE acked \cup {[entry |-> Entry(w), sync |-> w.sync]}
    /\ wpc' = "idle" /\ w' = NoWrite
    /\ UNCHANGED <<fsVars, phase, replay, version, manifest, manifest_open, next_file, log_number,
                   failure, sticky_error, apply, log, imm, workVars, pins, countVars>>

\* AddRecord or Sync returns an error; the record may be in the log.
WriteFails ==
    /\ "log" \in Faults /\ wpc \in {"sync", "insert"}
    /\ sticky_error' = TRUE
    /\ wpc' = "idle" /\ w' = NoWrite
    /\ UNCHANGED <<fsVars, phase, replay, setVars, apply, bufferVars, acked, workVars, pins,
                   countVars>>

\* PrepareRotation: a number, a log, and a durable name for it.
PrepareRotation ==
    /\ phase = "open" /\ wpc = "idle" /\ ~sticky_error /\ imm = NoImm /\ work < MaxWork
    /\ work' = work + 1
    /\ next_file' = next_file + 1

\* SwitchMemTable; closing the old log may fail.
SwitchMemTable ==
    /\ PrepareRotation
    /\ CreateLog(next_file)
    /\ imm' = [log |-> log, entries |-> mem]
    /\ log' = next_file /\ mem' = {}
    /\ \/ UNCHANGED sticky_error
       \/ "rotate" \in Faults /\ sticky_error' = TRUE
    /\ UNCHANGED <<phase, replay, version, manifest, manifest_open, last_sequence, log_number,
                   failure, apply, writeVars, workVars, pins, opens, crashes, writes>>

\* PrepareRotation returns an error: the number is spent and the file may exist.
RotationFails ==
    /\ "rotate" \in Faults
    /\ PrepareRotation
    /\ \/ Create(Log(next_file), << >>, 0)
       \/ UNCHANGED <<names, disk>>
    /\ UNCHANGED <<dnames, cur, dcur, temp, phase, replay, version, manifest, manifest_open,
                   last_sequence, log_number, failure, sticky_error, apply, bufferVars, writeVars,
                   workVars, pins, opens, crashes, writes>>

-----------------------------------------------------------------------------
(* FlushImmutable.                                                           *)

Idle == flush = NoFlush /\ comp = NoComp /\ obsolete = {}

\* A compaction flushes the immutable memtable before an entry; BackgroundCall
\* starts with it.
MayFlush ==
    \/ phase = "open" /\ ~sticky_error /\ Idle
    \/ Running /\ flush = NoFlush /\ comp.step \in {"picked", "writing", "synced"} /\ obsolete = {}

flushUnchanged == <<phase, replay, version, manifest, manifest_open, last_sequence, log_number,
                    failure, bufferVars, writeVars, pins, countVars>>

FlushBegin ==
    /\ MayFlush /\ imm # NoImm
    /\ flush' = [step |-> IF imm.entries = {} THEN "ready" ELSE "build",
                 number |-> next_file, log |-> log, base |-> version]
    /\ next_file' = next_file + 1
    /\ pending_outputs' = pending_outputs \cup {next_file}
    /\ UNCHANGED <<fsVars, sticky_error, apply, obsolete, comp, flushUnchanged>>

\* BuildTable: the file, its contents, and its Sync.
FlushWrite ==
    /\ flush.step = "build"
    /\ Create(Table(flush.number), <<imm.entries>>, 0)
    /\ flush' = [flush EXCEPT !.step = "written"]
    /\ UNCHANGED <<dnames, cur, dcur, temp, next_file, sticky_error, apply, pending_outputs, obsolete,
                   comp, flushUnchanged>>

FlushSync ==
    /\ flush.step = "written"
    /\ SyncFile(Table(flush.number))
    /\ flush' = [flush EXCEPT !.step = "synced"]
    /\ UNCHANGED <<names, dnames, cur, dcur, temp, next_file, sticky_error, apply, pending_outputs,
                   obsolete, comp, flushUnchanged>>

\* FAULT: the table's name is not durable when the edit is.
FaultTableName ==
    /\ flush.step = "synced"
    /\ UNCHANGED fsVars
    /\ flush' = [flush EXCEPT !.step = "ready"]
    /\ UNCHANGED <<next_file, sticky_error, apply, pending_outputs, obsolete,
                   comp, flushUnchanged>>

\* FlushMemTable makes the table's name durable.
FlushSyncDirectory ==
    /\ flush.step = "synced"
    /\ SyncDirectory
    /\ flush' = [flush EXCEPT !.step = "ready"]
    /\ UNCHANGED <<next_file, sticky_error, apply, pending_outputs, obsolete,
                   comp, flushUnchanged>>

FlushTable == IF imm.entries = {} THEN {} ELSE {flush.number}

\* ApplyBackgroundEdit.
FlushApply ==
    /\ flush.step = "ready" /\ phase # "closing" /\ ~failure
    /\ ValidEdit(FlushTable, flush.log)
    /\ Prepare(FlushTable, {}, flush.log, next_file)
    /\ flush' = [flush EXCEPT !.step = "apply"]
    /\ UNCHANGED <<fsVars, next_file, sticky_error, pending_outputs, obsolete, comp, flushUnchanged>>

\* BeforeCompactionEntry: after its flush a compaction gives up on a sticky error.
StopCompaction ==
    comp' = IF comp # NoComp /\ sticky_error' THEN [comp EXCEPT !.step = "stopped"] ELSE comp

FlushInstall ==
    /\ flush.step = "apply" /\ apply.step = "done"
    /\ Publish(FlushTable, {}, flush.log)
    /\ apply' = NoApply /\ flush' = NoFlush /\ imm' = NoImm
    /\ pending_outputs' = pending_outputs \ {flush.number}
    /\ UNCHANGED <<fsVars, phase, replay, sticky_error, log, mem, writeVars, pins, countVars>>
    /\ StopCompaction
    /\ Collect(version' \cup flush.base \cup comp.base \cup pending_outputs', log_number')

\* The edit was not built, not admitted or not written: the error sticks, and only
\* then the output's number is released.  A failed build removes its file.
FlushFails ==
    /\ \/ /\ "table" \in Faults /\ flush.step \in {"build", "written", "synced"}
          /\ \/ RemoveFile(Table(flush.number))
             \/ UNCHANGED <<names, disk>>
       \/ /\ flush.step = "ready" /\ (phase = "closing" \/ failure)
          /\ UNCHANGED <<names, disk>>
       \/ /\ flush.step = "apply" /\ apply.step = "error"
          /\ UNCHANGED <<names, disk>>
    /\ sticky_error' = TRUE
    /\ flush' = NoFlush /\ apply' = NoApply
    /\ pending_outputs' = pending_outputs \ {flush.number}
    /\ StopCompaction
    /\ UNCHANGED <<dnames, cur, dcur, temp, next_file, obsolete, flushUnchanged>>

-----------------------------------------------------------------------------
(* Compact and RunCompaction.  One output takes all the entries.             *)

compUnchanged == <<phase, replay, version, manifest, manifest_open, last_sequence, log_number,
                   failure, bufferVars, writeVars, flush, pins>>

CompactionBegin ==
    /\ phase = "open" /\ ~sticky_error /\ Idle /\ imm = NoImm /\ work < MaxWork
    /\ \E inputs \in SUBSET version \ {{}} :
          comp' = [step |-> "picked", inputs |-> inputs, number |-> 0, base |-> version]
    /\ work' = work + 1
    /\ UNCHANGED <<fsVars, next_file, sticky_error, apply, pending_outputs, obsolete, compUnchanged,
                   opens, crashes, writes>>

Contents(t) ==
    IF Table(t) \in names /\ disk[Table(t)].recs # << >> THEN disk[Table(t)].recs[1] ELSE {}

\* The compaction thread is between two entries, not in a flush.
Compacting(step) == comp.step = step /\ flush = NoFlush /\ obsolete = {}

\* FAULT: the output's number is not pending.
FaultNotPending ==
    /\ Compacting("picked")
    /\ comp' = [comp EXCEPT !.step = "writing", !.number = next_file]
    /\ next_file' = next_file + 1
    /\ UNCHANGED pending_outputs
    /\ Create(Table(next_file), <<UNION {Contents(t) : t \in comp.inputs}>>, 0)
    /\ UNCHANGED <<dnames, cur, dcur, temp, sticky_error, apply, obsolete, compUnchanged, countVars>>

\* Outputs::Open: the number is pending before the file exists.
CompactionOpen ==
    /\ Compacting("picked")
    /\ comp' = [comp EXCEPT !.step = "writing", !.number = next_file]
    /\ next_file' = next_file + 1
    /\ pending_outputs' = pending_outputs \cup {next_file}
    /\ Create(Table(next_file), <<UNION {Contents(t) : t \in comp.inputs}>>, 0)
    /\ UNCHANGED <<dnames, cur, dcur, temp, sticky_error, apply, obsolete, compUnchanged, countVars>>

\* Outputs::Finish.
CompactionSync ==
    /\ Compacting("writing")
    /\ SyncFile(Table(comp.number))
    /\ comp' = [comp EXCEPT !.step = "synced"]
    /\ UNCHANGED <<names, dnames, cur, dcur, temp, next_file, sticky_error, apply, pending_outputs,
                   obsolete, compUnchanged, countVars>>

\* FinishCompaction makes the output's name durable.
CompactionSyncDirectory ==
    /\ Compacting("synced")
    /\ SyncDirectory
    /\ comp' = [comp EXCEPT !.step = "ready"]
    /\ UNCHANGED <<next_file, sticky_error, apply, pending_outputs, obsolete,
                   compUnchanged, countVars>>

CompactionApply ==
    /\ comp.step = "ready" /\ phase # "closing" /\ ~failure
    /\ ValidEdit({comp.number}, log_number)
    /\ Prepare({comp.number}, comp.inputs, log_number, next_file)
    /\ comp' = [comp EXCEPT !.step = "apply"]
    /\ UNCHANGED <<fsVars, next_file, sticky_error, pending_outputs, obsolete, compUnchanged,
                   countVars>>

\* FAULT: the version that the compaction started from is installed.
FaultStaleBase ==
    /\ comp.step = "apply" /\ apply.step = "done"
    /\ version' = (comp.base \ comp.inputs) \cup {comp.number}
    /\ UNCHANGED <<manifest, manifest_open, next_file, last_sequence, log_number, failure>>
    /\ apply' = NoApply /\ comp' = NoComp
    /\ pending_outputs' = pending_outputs \ {comp.number}
    /\ UNCHANGED <<fsVars, phase, replay, sticky_error, bufferVars, writeVars, flush, pins, countVars>>
    /\ Collect(version' \cup pending_outputs', log_number')

\* Compact returns, so its version and its outputs' numbers are released before the
\* cleanup.
CompactionInstall ==
    /\ comp.step = "apply" /\ apply.step = "done"
    /\ Publish({comp.number}, comp.inputs, log_number)
    /\ apply' = NoApply /\ comp' = NoComp
    /\ pending_outputs' = pending_outputs \ {comp.number}
    /\ UNCHANGED <<fsVars, phase, replay, sticky_error, bufferVars, writeVars, flush, pins, countVars>>
    /\ Collect(version' \cup pending_outputs', log_number')

\* An output fails, closing or a failed flush stops the entries, or the edit fails.
CompactionFails ==
    /\ \/ "table" \in Faults /\ (Compacting("writing") \/ Compacting("synced"))
       \/ /\ Compacting("picked") \/ Compacting("writing") \/ Compacting("synced")
          /\ phase = "closing"
       \/ Compacting("stopped")
       \/ comp.step = "ready" /\ (phase = "closing" \/ failure)
       \/ comp.step = "apply" /\ apply.step = "error"
    /\ sticky_error' = TRUE
    /\ comp' = NoComp /\ apply' = NoApply
    /\ pending_outputs' = pending_outputs \ {comp.number}
    /\ UNCHANGED <<fsVars, next_file, compUnchanged, countVars>>
    /\ Collect(version \cup pending_outputs', log_number)

-----------------------------------------------------------------------------
(* RemoveObsoleteFiles without the lock, reads, and the end of the process.  *)

RemoveObsolete ==
    /\ \E f \in obsolete :
          /\ \/ RemoveFile(f)
             \/ "remove" \in Faults /\ UNCHANGED <<names, disk>>
          /\ obsolete' = obsolete \ {f}
    /\ UNCHANGED <<dnames, cur, dcur, temp, phase, replay, setVars, sticky_error, apply, bufferVars,
                   writeVars, flush, comp, pending_outputs, pins, countVars>>

\* ReadSources pins the current version; the reader then opens its tables.
Pin(r) ==
    /\ phase = "open" /\ pins[r] = {} /\ version # {}
    /\ pins' = [pins EXCEPT ![r] = version]
    /\ UNCHANGED <<fsVars, phase, replay, setVars, sticky_error, apply, bufferVars, writeVars,
                   workVars, countVars>>

Unpin(r) ==
    /\ pins[r] # {}
    /\ pins' = [pins EXCEPT ![r] = {}]
    /\ UNCHANGED <<fsVars, phase, replay, setVars, sticky_error, apply, bufferVars, writeVars,
                   workVars, countVars>>

\* ~DatabaseEngine: no call is active any more.
Close ==
    /\ phase = "open" /\ wpc = "idle" /\ \A r \in Reader : pins[r] = {}
    /\ phase' = "closing"
    /\ UNCHANGED <<fsVars, replay, setVars, sticky_error, apply, bufferVars, writeVars, workVars,
                   pins, countVars>>

\* It waits for the background work.
CloseReturns ==
    /\ phase = "closing" /\ Idle
    /\ phase' = "down"
    /\ Forget
    /\ UNCHANGED <<names, dnames, disk, cur, dcur, acked, countVars>>

-----------------------------------------------------------------------------

Init ==
    /\ names = {} /\ dnames = {} /\ disk = << >>
    /\ cur = 0 /\ dcur = {0} /\ temp = NoTemp
    /\ phase = "down" /\ replay = NoReplay
    /\ version = {} /\ manifest = 1 /\ manifest_open = FALSE /\ next_file = 2
    /\ last_sequence = 0 /\ log_number = 0 /\ failure = FALSE /\ sticky_error = FALSE
    /\ apply = NoApply
    /\ log = 0 /\ mem = {} /\ imm = NoImm
    /\ wpc = "idle" /\ w = NoWrite
    /\ flush = NoFlush /\ comp = NoComp /\ pending_outputs = {} /\ obsolete = {}
    /\ pins = [r \in Reader |-> {}]
    /\ acked = {}
    /\ opens = 0 /\ crashes = 0 /\ writes = 0 /\ work = 0

Recovery ==
    \/ OpenCreate \/ CreateDone \/ OpenRecover \/ PrepareLogs \/ OpenLog \/ ReplayRecord
    \/ FinishReplay \/ InstallRecoveryLog \/ RecoveryDone \/ OpenReturns \/ RecoveryFails

Writing ==
    \/ WriteAppend \/ WriteSync \/ WritePublish \/ WriteFails \/ SwitchMemTable \/ RotationFails

Background ==
    \/ FlushBegin \/ FlushWrite \/ FlushSync \/ FlushSyncDirectory \/ FlushApply \/ FlushInstall
    \/ FlushFails
    \/ CompactionBegin \/ CompactionOpen \/ CompactionSync \/ CompactionSyncDirectory
    \/ CompactionApply \/ CompactionInstall \/ CompactionFails
    \/ RemoveObsolete

Next ==
    \/ Recovery \/ WriteManifest \/ ManifestFails \/ Writing \/ Background
    \/ \E r \in Reader : Pin(r) \/ Unpin(r)
    \/ Close \/ CloseReturns \/ Crash

Spec == Init /\ [][Next]_vars

-----------------------------------------------------------------------------
(* Properties.                                                               *)

\* Whatever a crash leaves, the next Open finds a MANIFEST it can replay, every table
\* that it references, and logs whose batches follow one another.
RecoveryNeverFails == phase # "failed"

\* What a reader of the open database can find.
Held == mem \cup imm.entries \cup UNION {Contents(t) : t \in version}

\* A write that returned is found again: always while only processes end, and after
\* a crash of the machine if it was synced (CommitGroup, ReplayLogs).
AckedSurvive ==
    phase \in {"cleanup", "open", "closing"} => \A a \in acked : a.entry \in Held

\* No two entries of the database have one sequence, however often numbers of lost
\* writes are given out again, and none has a sequence that is not published yet.
SequencesSound ==
    phase \in {"open", "closing"} =>
        /\ \A d, e \in Held : d.seq = e.seq => d = e
        /\ \A e \in Held : e.seq <= last_sequence

TablesInUse == version \cup UNION Range(pins) \cup comp.base \cup flush.base

\* Cleanup never removes a table that the current version, a reader's version or a
\* running compaction still has, nor an output that is being written.
UsedTablesExist ==
    phase \in {"cleanup", "open", "closing"} =>
        /\ \A t \in TablesInUse : Table(t) \in names /\ disk[Table(t)].recs # << >>
        /\ comp.step \in {"writing", "synced", "ready", "apply"} => Table(comp.number) \in names
        /\ flush.step \in {"written", "synced"} => Table(flush.number) \in names

Durable(f) == f \in names \cap dnames

\* Whichever MANIFEST CURRENT may select after a crash, its name and contents are
\* durable, and so are the names and contents of the tables that any prefix of it
\* that a crash may leave references (Write, InstallCurrent, FlushMemTable).
MetadataDurable ==
    \A m \in dcur \ {0} :
        /\ m # Torn
        /\ Durable(Manifest(m))
        /\ disk[Manifest(m)].synced > 0
        /\ \A k \in disk[Manifest(m)].synced..Len(disk[Manifest(m)].recs) :
              \A t \in TablesOf(SubSeq(disk[Manifest(m)].recs, 1, k)) :
                  Durable(Table(t)) /\ disk[Table(t)].synced = 1

\* Every Open after a crash succeeds, and will after the next one: what it needs of the
\* metadata is durable at every moment.
Recoverable == RecoveryNeverFails /\ MetadataDurable

=============================================================================
