------------------------------ MODULE MCEdges ------------------------------
(***************************************************************************)
(* The parts at the edges of the engine for TLC: the handles that callers  *)
(* hold, keys, write batches and version edits as bytes, the names of      *)
(* files, the file objects, and the checker of recorded histories.  They   *)
(* share no state, so a behaviour moves one of them and the others rest.   *)
(***************************************************************************)
EXTENDS MappedReads, Sequences, TLC

CONSTANTS t1, t2

VARIABLES
    subject,                                                     \* the one that moves
    given, buffer, file, first_error, close_attempted, durable, holed, acked, status, alive,
    encoded, content, batchCalls, reader, produced,
    edit, editCalls, decoder,
    entry, stage, parsed,
    made, source, lookup, target,
    slot, engines, last, registry, reg, refs, regRefs, taken, todo,
    initial, op, order, states, index, result

fileVars == <<given, buffer, file, first_error, close_attempted, durable, holed, acked, status,
              alive>>
batchVars == <<encoded, content, batchCalls, reader, produced>>
editVars == <<edit, editCalls, decoder>>
nameVars == <<entry, stage, parsed>>
keyVars == <<made, source, lookup, target>>
handleVars == <<slot, engines, last, registry, reg, refs, regRefs, taken, todo>>
searchVars == <<initial, op, order, states, index, result>>

Writable == INSTANCE WritableFile WITH BufferSize <- 2, MaxData <- 5, MaxBytes <- 9

\* Bytes of three bits of payload in a varint, integers of one and two bytes.
Batch == INSTANCE WriteBatch
    WITH PayloadBits <- 3, Size32 <- 1, Size64 <- 2,
         Strings <- {<<1>>, <<9, 0, 8, 1, 1, 1, 1, 0>>}, Starts <- {5}, MaxCalls <- 3,
         Cells <- {0, 1, 2, 9}, calls <- batchCalls
Edit == INSTANCE VersionEdit
    WITH PayloadBits <- 3, Size32 <- 1, Size64 <- 2, NumLevels <- 3, Names <- {<<3, 9>>},
         Keys <- {<<>>, <<1, 15>>, <<2, 9, 0, 1>>}, Numbers <- {0, 15, 16}, Levels <- {2, 3},
         Cells <- {0, 3, 9}, MaxCalls <- 2, calls <- editCalls

Keys == INSTANCE InternalKey
    WITH PayloadBits <- 3, Size32 <- 1, Size64 <- 2,
         UserKeys <- {<<>>, <<1>>, <<1, 15, 0, 1, 2, 3>>}, SequenceNumbers <- {0, 1, 15, 16},
         Inputs <- {<<1>>, <<2, 15>>, <<1, 15>>, <<0, 3, 1, 2>>}, InlineCapacity <- 4,
         entry <- made

\* Up to a word of the names, some digits, and a word.
Words == {<<>>} \cup {<<word>> : word \in -9 .. -1}
Digits == UNION {[1 .. n -> 0 .. 2] : n \in 0 .. 4}
Names == INSTANCE FileNames
    WITH Radix <- 3, MinimumDigits <- 2, MaxNumber <- 60,
         Entries <- {a \o d \o b : a, b \in Words, d \in Digits}

Handles == INSTANCE Handles
    WITH Thread <- {t1, t2}, Slot <- {1, 2, 3}, Engine <- {1, 2}, MaxSequence <- 1,
         MaxRegistrations <- 2, status <- engines

Search == INSTANCE Linearizability WITH Value <- {1, 2}, Operations <- 3

FileRests ==
    /\ given = 0 /\ buffer = 0 /\ file = 0 /\ first_error = 0 /\ close_attempted = 0
    /\ durable = 0 /\ holed = 0 /\ acked = 0 /\ status = 0 /\ alive = 0
BatchRests == encoded = 0 /\ content = 0 /\ batchCalls = 0 /\ reader = 0 /\ produced = 0
EditRests == edit = 0 /\ editCalls = 0 /\ decoder = 0
KeysRest == made = 0 /\ source = 0 /\ lookup = 0 /\ target = 0
NamesRest == entry = 0 /\ stage = 0 /\ parsed = 0
HandlesRest ==
    /\ slot = 0 /\ engines = 0 /\ last = 0 /\ registry = 0 /\ reg = 0
    /\ refs = 0 /\ regRefs = 0 /\ taken = 0 /\ todo = 0
SearchRests == initial = 0 /\ op = 0 /\ order = 0 /\ states = 0 /\ index = 0 /\ result = 0

\* The mapping limiter rests in its initial state.
MCInit ==
    /\ Init
    /\ subject \in {"mapped", "file", "batch", "edit", "keys", "names", "handles", "search"}
    /\ IF subject = "file" THEN Writable!Init ELSE FileRests
    /\ IF subject = "batch" THEN Batch!Init ELSE BatchRests
    /\ IF subject = "edit" THEN Edit!Init ELSE EditRests
    /\ IF subject = "keys" THEN Keys!Init ELSE KeysRest
    /\ IF subject = "names" THEN Names!Init ELSE NamesRest
    /\ IF subject = "handles" THEN Handles!Init ELSE HandlesRest
    /\ IF subject = "search" THEN Search!Init ELSE SearchRests
MCNext ==
    \/ /\ subject = "mapped" /\ Next
       /\ UNCHANGED <<subject, fileVars, batchVars, editVars, keyVars, nameVars, handleVars, searchVars>>
    \/ /\ subject = "file" /\ Writable!Next
       /\ UNCHANGED <<subject, vars, batchVars, editVars, keyVars, nameVars, handleVars, searchVars>>
    \/ /\ subject = "batch" /\ Batch!Next
       /\ UNCHANGED <<subject, vars, fileVars, editVars, keyVars, nameVars, handleVars, searchVars>>
    \/ /\ subject = "edit" /\ Edit!Next
       /\ UNCHANGED <<subject, vars, fileVars, batchVars, keyVars, nameVars, handleVars, searchVars>>
    \/ /\ subject = "keys" /\ Keys!Next
       /\ UNCHANGED <<subject, vars, fileVars, batchVars, editVars, nameVars, handleVars, searchVars>>
    \/ /\ subject = "names" /\ Names!Next
       /\ UNCHANGED <<subject, vars, fileVars, batchVars, editVars, keyVars, handleVars, searchVars>>
    \/ /\ subject = "handles" /\ Handles!Next
       /\ UNCHANGED <<subject, vars, fileVars, batchVars, editVars, keyVars, nameVars, searchVars>>
    \/ /\ subject = "search" /\ Search!Next
       /\ UNCHANGED <<subject, vars, fileVars, batchVars, editVars, keyVars, nameVars, handleVars>>
MCSpec ==
    MCInit /\ [][MCNext]_<<subject, vars, fileVars, batchVars, editVars, keyVars, nameVars,
                          handleVars, searchVars>>

Alike == Permutations({t1, t2})

\* What a writable file reports is true, and what it synced is durable
\* (WritableFile.WritableSound).
FilesSound == subject = "file" => Writable!WritableSound

\* Batches, version edits and keys read back as the calls that made them, no bytes lead
\* a reader astray, and keys are in the order that searches rely on
\* (WriteBatch.BatchReads, VersionEdit.EditReads, InternalKey.KeysExact).
RecordsRead ==
    /\ subject = "batch" => Batch!BatchReads
    /\ subject = "edit" => Edit!EditReads
    /\ subject = "keys" => Keys!KeysExact

\* A directory entry is taken for a file of the database when it is its name, and only
\* then; CURRENT likewise (FileNames.NamesRead).
NamesExact == subject = "names" => Names!NamesRead

\* An engine is open while anything refers to it and closed when nothing does, and what
\* snapshots read is kept as long as anyone reads at them (Handles.HandlesSafe).
HandlesKeep == subject = "handles" => Handles!HandlesSafe

\* The checker of histories calls linearizable exactly those that are
\* (Linearizability.VerdictExact).
VerdictsExact == subject = "search" => Search!VerdictExact
=============================================================================
