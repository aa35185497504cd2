------------------------------- MODULE WalLog -------------------------------
(***************************************************************************)
(* The framing of a write-ahead log: a writer that cuts logical records into *)
(* fragments which never cross a block, a crash that cuts the file anywhere, *)
(* a writer that reopens what is left, one damaged byte, and the reader that *)
(* puts the records together again and finds its way back after a failure.   *)
(*                                                                           *)
(* A file is a sequence of cells.  A header is three of them, in the order   *)
(* of its bytes: the checksum, the size and the type.  A checksum is what it *)
(* covers, so that two fragments never have one by accident.                 *)
(***************************************************************************)
EXTENDS Naturals, Sequences

CONSTANTS BlockSize,     \* WalBlockSize, 32768 in the code
          MaxLength,     \* bound: bytes of a record
          MaxRecords,    \* bound: records of a log
          MaxCrashes,    \* bound: crashes, each followed by a reopening
          MaxDamage      \* bound: damaged cells

HeaderSize == 3
MaximumPayload == BlockSize - HeaderSize

ASSUME BlockAssumption == /\ BlockSize \in Nat /\ BlockSize > HeaderSize
                          /\ {MaxLength, MaxRecords, MaxCrashes, MaxDamage} \subseteq Nat

VARIABLES file,             \* the cells of the log
          records,          \* what was added: start, length, whether it is whole, after how many crashes
          block_offset,     \* WalFragmenter::block_offset_
          reopen_padding,   \* WalWriter::reopen_padding_
          cursor,           \* the record being cut up
          crashes,
          damaged,          \* the positions of damaged cells
          phase,            \* "write", "read", "end" or "failed"
          block,            \* the reader's block: start, size, position, eof_seen
          partial,          \* in_fragmented_record_, scratch_, partial_record_offset_
          delivered,        \* the logical records that ReadNext returned
          corruptions       \* how many corruptions it reported

writerVars == <<file, records, block_offset, reopen_padding, cursor, crashes, damaged>>
readerVars == <<block, partial, delivered, corruptions>>
vars == <<writerVars, phase, readerVars>>

(* Cells.                                                                    *)

Zero == [what |-> "zero", value |-> 0]
Garbage == [what |-> "garbage", value |-> 0]
Byte(i, j) == [what |-> "byte", value |-> <<i, j>>]
Crc(type, payload) == [what |-> "crc", value |-> <<type, payload>>]
Small(n) == IF n = 0 THEN Zero ELSE [what |-> "small", value |-> n]

\* The record types, by their numbers.
Full == 1
First == 2
Middle == 3
Last == 4

Header(type, payload) == <<Crc(type, payload), Small(Len(payload)), Small(type)>>
Zeroes(n) == [i \in 1 .. n |-> Zero]
Payload(i) == [j \in 1 .. records[i].length |-> Byte(i, j)]

-----------------------------------------------------------------------------
(* The writer.                                                               *)

NoCursor == [active |-> FALSE, at |-> 0, begin |-> FALSE]
NoPartial == [in_record |-> FALSE, scratch |-> << >>, offset |-> 0]

Init == /\ file = << >> /\ records = << >>
        /\ block_offset = 0 /\ reopen_padding = 0
        /\ cursor = NoCursor
        /\ crashes = 0 /\ damaged = {}
        /\ phase = "write"
        /\ block = [start |-> 0, size |-> 0, position |-> 0, eof_seen |-> FALSE]
        /\ partial = NoPartial
        /\ delivered = << >> /\ corruptions = 0

\* AddRecord up to its first fragment: a reopened block is padded first.
AddRecord(n) ==
    /\ phase = "write" /\ ~cursor.active
    /\ Len(records) < MaxRecords
    /\ file' = file \o Zeroes(reopen_padding)
    /\ reopen_padding' = 0
    /\ records' = Append(records, [start |-> Len(file'), length |-> n, whole |-> FALSE,
                                 after |-> crashes])
    /\ cursor' = [active |-> TRUE, at |-> 0, begin |-> TRUE]
    /\ UNCHANGED <<block_offset, crashes, damaged, phase, readerVars>>

SelectFragmentType(begin, end) ==
    IF begin THEN (IF end THEN Full ELSE First) ELSE (IF end THEN Last ELSE Middle)

\* A tail that is too short for a header is padding.
TakePadding == IF BlockSize - block_offset >= HeaderSize THEN 0 ELSE BlockSize - block_offset

\* Cursor::Next, and the Appends of AddRecord for its fragment.
NextFragment ==
    /\ phase = "write" /\ cursor.active
    /\ LET i == Len(records)
           padding == TakePadding
           offset == IF padding = 0 THEN block_offset ELSE 0
           available == BlockSize - offset - HeaderSize
           left == records[i].length - cursor.at
           size == IF left <= available THEN left ELSE available
           end == size = left
           payload == SubSeq(Payload(i), cursor.at + 1, cursor.at + size)
           type == SelectFragmentType(cursor.begin, end)
       IN /\ file' = file \o Zeroes(padding) \o Header(type, payload) \o payload
          /\ block_offset' = (offset + HeaderSize + size) % BlockSize
          /\ cursor' = IF end THEN NoCursor
                       ELSE [active |-> TRUE, at |-> cursor.at + size, begin |-> FALSE]
          /\ records' = [records EXCEPT
                           ![i].whole = end,
                           ![i].start = IF cursor.begin THEN @ + padding ELSE @]
    /\ UNCHANGED <<reopen_padding, crashes, damaged, phase, readerVars>>

\* The positions of a record: from its start to the last cell of its last fragment.
\* Each block that it enters costs a header.
EndOf(r) ==
    LET room == BlockSize - (r.start % BlockSize) - HeaderSize
    IN IF r.length <= room THEN r.start + HeaderSize + r.length
       ELSE LET rest == r.length - room
                blocks == (rest + MaximumPayload - 1) \div MaximumPayload
            IN r.start + HeaderSize + room + rest + blocks * HeaderSize

\* A crash leaves any part of the file, and WalWriter's constructor reopens that.
Reopen(size) ==
    /\ phase = "write" /\ crashes < MaxCrashes
    /\ crashes' = crashes + 1
    /\ file' = SubSeq(file, 1, size)
    /\ records' = [i \in DOMAIN records |->
                     [records[i] EXCEPT !.whole = @ /\ EndOf(records[i]) <= size]]
    /\ cursor' = NoCursor
    /\ block_offset' = 0
    /\ reopen_padding' = IF size % BlockSize = 0 THEN 0 ELSE BlockSize - (size % BlockSize)
    /\ UNCHANGED <<damaged, phase, readerVars>>

\* What a cell may become: another small number, or any other byte.
Changed(cell) ==
    (IF cell.what \in {"zero", "small"}
     THEN {Garbage} \union {Small(n) : n \in 0 .. MaximumPayload + 1}
     ELSE {Garbage, Zero}) \ {cell}

\* The medium damages a cell.
Damage(p) ==
    /\ phase = "write" /\ ~cursor.active /\ damaged = {} /\ MaxDamage > 0
    /\ \E cell \in Changed(file[p]) : file' = [file EXCEPT ![p] = cell]
    /\ damaged' = {p}
    /\ phase' = "read"
    /\ UNCHANGED <<records, block_offset, reopen_padding, cursor, crashes, readerVars>>

\* A process opens the log to replay it, whatever its writer was doing.
OpenReader ==
    /\ phase = "write"
    /\ phase' = "read"
    /\ UNCHANGED <<writerVars, readerVars>>

-----------------------------------------------------------------------------
(* The reader.                                                               *)

\* What a header says when it is decoded from a position of the file.  What was not
\* written as a number is a number that is too large.
Number(cell) == IF cell.what \in {"zero", "small"} THEN cell.value ELSE MaximumPayload + 5
SizeAt(p) == Number(file[p + 2])
TypeAt(p) == Number(file[p + 3])
PayloadAt(p) == SubSeq(file, p + HeaderSize + 1, p + HeaderSize + SizeAt(p))

\* DecodeWalFragment: the failure, the end of the block, or a fragment.
DecodeWalFragment(p, remaining) ==
    IF SizeAt(p) > MaximumPayload THEN "PayloadTooLarge"
    ELSE IF remaining < HeaderSize + SizeAt(p) THEN "TruncatedPayload"
    ELSE IF TypeAt(p) = 0 /\ SizeAt(p) = 0 THEN "EndOfBlock"
    ELSE IF file[p + 1] # Crc(TypeAt(p), PayloadAt(p)) THEN "ChecksumMismatch"
    ELSE IF TypeAt(p) \notin {Full, First, Middle, Last} THEN "UnknownType"
    ELSE "Fragment"

Position == block.start + block.position
Remaining == block.size - block.position
HasPartialPayload == partial.in_record /\ partial.scratch # << >>

\* AbandonPartial: the part of a record is reported and forgotten.
AbandonPartial == /\ partial' = NoPartial
                  /\ corruptions' = corruptions + 1
                  /\ UNCHANGED delivered

Deliver(data, offset) == /\ delivered' = Append(delivered, [data |-> data, offset |-> offset])
                         /\ UNCHANGED corruptions

Consumed(position) == block' = [block EXCEPT !.position = position]

\* FillBlock, and the end of the log when there is nothing left.
FillBlock ==
    /\ phase = "read" /\ Remaining = 0
    /\ LET start == block.start + block.size
           left == Len(file) - start
           size == IF left < BlockSize THEN left ELSE BlockSize
       IN IF block.eof_seen \/ size = 0
          THEN /\ phase' = "end"
               /\ partial' = NoPartial
               /\ block' = [start |-> start, size |-> 0, position |-> 0, eof_seen |-> TRUE]
          ELSE /\ block' = [start |-> start, size |-> size, position |-> 0,
                            eof_seen |-> size < BlockSize]
               /\ UNCHANGED <<phase, partial>>
    /\ UNCHANGED <<writerVars, delivered, corruptions>>

\* The file cannot be read: the error is kept.
ReadFails ==
    /\ phase = "read" /\ Remaining = 0 /\ ~block.eof_seen
    /\ phase' = "failed"
    /\ UNCHANGED <<writerVars, readerVars>>

\* A tail that is too short for a header.
SkipTrailer ==
    /\ phase = "read" /\ Remaining \in 1 .. HeaderSize - 1
    /\ Consumed(block.size)
    /\ UNCHANGED <<writerVars, phase, partial, delivered, corruptions>>

Decodes(outcomes) == /\ phase = "read" /\ Remaining >= HeaderSize
                     /\ DecodeWalFragment(Position, Remaining) \in outcomes
                     /\ UNCHANGED <<writerVars, phase>>

\* A payload that goes past the final partial block is what a crash left.
TruncatedTail(outcome) == block.eof_seen /\ outcome \in {"TruncatedPayload", "PayloadTooLarge"}

\* ConsumeCorruption: the record in progress is lost with what was damaged.
ConsumeCorruption == partial' = NoPartial /\ corruptions' = corruptions + 1 /\ UNCHANGED delivered

\* RecoverPhysicalFailure: the rest of the block, or the unknown fragment, is dropped.
RecoverPhysicalFailure ==
    /\ Decodes({"PayloadTooLarge", "TruncatedPayload", "ChecksumMismatch", "UnknownType"})
    /\ LET outcome == DecodeWalFragment(Position, Remaining)
       IN /\ Consumed(IF outcome = "UnknownType"
                      THEN block.position + HeaderSize + SizeAt(Position) ELSE block.size)
          /\ IF TruncatedTail(outcome) THEN UNCHANGED <<partial, delivered, corruptions>>
             ELSE ConsumeCorruption

\* A zero marker discards the rest of its block.
ConsumeZero ==
    /\ Decodes({"EndOfBlock"})
    /\ Consumed(block.size)
    /\ IF HasPartialPayload THEN AbandonPartial
       ELSE partial' = NoPartial /\ UNCHANGED <<delivered, corruptions>>

PastFragment == block.position + HeaderSize + SizeAt(Position)

\* A full record; if it interrupts another one, the next call returns it.
ConsumeFull ==
    /\ Decodes({"Fragment"}) /\ TypeAt(Position) = Full
    /\ IF HasPartialPayload THEN UNCHANGED block /\ AbandonPartial
       ELSE /\ Consumed(PastFragment)
            /\ partial' = NoPartial
            /\ Deliver(PayloadAt(Position), Position)

\* FAULT: the interrupted record is reported but stays in progress.
FaultNeverAbandons ==
    /\ Decodes({"Fragment"}) /\ TypeAt(Position) = First
    /\ UNCHANGED delivered
    /\ IF HasPartialPayload THEN UNCHANGED <<block, partial, corruptions>>
       ELSE /\ Consumed(PastFragment)
            /\ partial' = [in_record |-> TRUE, scratch |-> PayloadAt(Position),
                           offset |-> Position]
            /\ UNCHANGED corruptions

\* FAULT: the first fragment is joined to the record that it interrupts.
FaultFirstJoins ==
    /\ Decodes({"Fragment"}) /\ TypeAt(Position) = First
    /\ Consumed(PastFragment)
    /\ partial' = [in_record |-> TRUE, scratch |-> partial.scratch \o PayloadAt(Position),
                   offset |-> Position]
    /\ UNCHANGED <<delivered, corruptions>>

\* The first fragment of a record; if it interrupts another one, it is read again.
ConsumeFirst ==
    /\ Decodes({"Fragment"}) /\ TypeAt(Position) = First
    /\ IF HasPartialPayload THEN UNCHANGED block /\ AbandonPartial
       ELSE /\ Consumed(PastFragment)
            /\ partial' = [in_record |-> TRUE, scratch |-> PayloadAt(Position),
                           offset |-> Position]
            /\ UNCHANGED <<delivered, corruptions>>

\* A middle or last fragment continues the record in progress, if there is one.
ConsumeContinuation ==
    /\ Decodes({"Fragment"}) /\ TypeAt(Position) \in {Middle, Last}
    /\ Consumed(PastFragment)
    /\ LET joined == partial.scratch \o PayloadAt(Position)
       IN IF ~partial.in_record
          THEN corruptions' = corruptions + 1 /\ UNCHANGED <<partial, delivered>>
          ELSE IF TypeAt(Position) = Middle
          THEN partial' = [partial EXCEPT !.scratch = joined] /\ UNCHANGED <<delivered, corruptions>>
          ELSE /\ partial' = [partial EXCEPT !.scratch = joined, !.in_record = FALSE]
               /\ Deliver(joined, partial.offset)

Read == \/ FillBlock \/ SkipTrailer \/ RecoverPhysicalFailure \/ ConsumeZero
        \/ ConsumeFull \/ ConsumeFirst \/ ConsumeContinuation

Next == \/ \E n \in 0 .. MaxLength : AddRecord(n)
        \/ NextFragment
        \/ \E size \in 0 .. Len(file) : Reopen(size)
        \/ \E p \in DOMAIN file : Damage(p)
        \/ OpenReader
        \/ ReadFails
        \/ Read

\* A replay goes on until it has read the log; the writer need not do anything.
Spec == Init /\ [][Next]_vars /\ WF_vars(Read)

-----------------------------------------------------------------------------
(* Properties.                                                               *)

\* Every record returned is one that was added, with all of its bytes and its
\* offset, and they come in the order in which they were added: never a part of a
\* record and never the parts of two ("never exposing a partial batch for replay").
NothingForged ==
    \E from \in [DOMAIN delivered -> DOMAIN records] :
      \A d \in DOMAIN delivered :
        /\ delivered[d].data = Payload(from[d])
        /\ delivered[d].offset = records[from[d]].start
        /\ \A c \in 1 .. d - 1 : from[c] < from[d]

Returned(i) == \E d \in DOMAIN delivered : delivered[d].offset = records[i].start

\* The blocks that a record is in.
BlocksOf(i) == (records[i].start \div BlockSize) .. ((EndOf(records[i]) - 1) \div BlockSize)
DamagedBlocks == {(p - 1) \div BlockSize : p \in damaged}

\* A replay returns every record that is whole in the file, after crashes in the
\* middle of records too; damage costs only the records that share a block with it.
DamageContained ==
    phase = "end" => \A i \in DOMAIN records :
      records[i].whole /\ BlocksOf(i) \cap DamagedBlocks = {} => Returned(i)

\* What a crash cuts off is not reported as a corruption, unless a writer has gone
\* on behind it ("An incomplete final record is a crash-truncated tail").
QuietTail == damaged = {} /\ (\A i \in DOMAIN records : records[i].after = 0) => corruptions = 0

\* What a replay returns and reports is exactly what the file still holds: nothing made
\* up, nothing lost beyond a damaged block, nothing reported for a mere crash.
ReplayExact == NothingForged /\ DamageContained /\ QuietTail

\* Every replay ends: a fragment is put back at most once.
ReplayEnds == phase = "read" ~> phase \in {"end", "failed"}
=============================================================================
