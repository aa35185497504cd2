---------------------------- MODULE VersionEdit ----------------------------
(***************************************************************************)
(* The version edits of src/metadata/version_edit.{h,cc}: an edit is built *)
(* by its mutators, which refuse what may not be stored, encoded as the    *)
(* payload of a MANIFEST record, and decoded field by field.  The payload  *)
(* may be any: a byte of it may have changed and the end may be missing.   *)
(***************************************************************************)
EXTENDS Coding

CONSTANTS
    NumLevels,
    Names,        \* comparator names
    Numbers,      \* file numbers, log numbers, sequences and sizes that callers give
    Levels,       \* the levels that callers give
    Keys,         \* encoded internal keys; <<>> is a key that was moved from
    Cells,        \* the values a damaged byte may have
    MaxCalls      \* the calls of mutators

\* Tag
Comparator == 1
LogNumber == 2
NextFileNumber == 3
LastSequence == 4
CompactPointer == 5
DeletedFile == 6
NewFile == 7
PrevLogNumber == 9

MaxSequenceNumber == 2 ^ Bits(Size64 - 1) - 1

VARIABLES
    edit,         \* the edit that is built
    calls,
    decoder       \* [state |-> "none"], or the bytes that are left and the edit so far

vars == <<edit, calls, decoder>>

\* An optional field is in the domain of number or not; a name is a sequence of
\* at most one.
NoEdit == [name |-> <<>>, number |-> <<>>, pointers |-> <<>>, deleted |-> {}, new |-> <<>>]

Init == edit = NoEdit /\ calls = 0 /\ decoder = [state |-> "none"]

WithNumber(e, tag, value) == [e EXCEPT !.number = (tag :> value) @@ @]

\* An encoded key has a trailer of a 64-bit word whose lowest byte is the kind.
ParseInternalKey(key) == Len(key) >= Size64 /\ key[Len(key) - Size64 + 1] \in {0, 1}

-----------------------------------------------------------------------------
\* A mutator that refuses its arguments leaves the edit alone.
Mutate(accepted, changed) ==
    /\ decoder.state = "none"
    /\ calls < MaxCalls
    /\ calls' = calls + 1
    /\ edit' = IF accepted THEN changed ELSE edit
    /\ UNCHANGED decoder

SetComparatorName(name) == Mutate(TRUE, [edit EXCEPT !.name = <<name>>])
SetLogNumber(number) == Mutate(TRUE, WithNumber(edit, LogNumber, number))
SetPrevLogNumber(number) == Mutate(TRUE, WithNumber(edit, PrevLogNumber, number))
SetNextFileNumber(number) == Mutate(number # 0, WithNumber(edit, NextFileNumber, number))

SetLastSequence(sequence) ==
    Mutate(sequence <= MaxSequenceNumber, WithNumber(edit, LastSequence, sequence))

AddCompactPointer(level, key) ==
    Mutate(level < NumLevels /\ ParseInternalKey(key),
           [edit EXCEPT !.pointers = Append(@, [level |-> level, key |-> key])])

AddFile(level, number, size, smallest, largest) ==
    Mutate(level < NumLevels /\ number # 0 /\ ParseInternalKey(smallest) /\ ParseInternalKey(largest),
           [edit EXCEPT !.new = Append(@, [level |-> level, number |-> number, size |-> size,
                                           smallest |-> smallest, largest |-> largest])])

RemoveFile(level, number) ==
    Mutate(level < NumLevels /\ number # 0, [edit EXCEPT !.deleted = @ \cup {<<level, number>>}])

-----------------------------------------------------------------------------
AppendNumberField(e, tag) ==
    IF tag \in DOMAIN e.number THEN EncodeVarint(tag) \o EncodeVarint(e.number[tag]) ELSE <<>>

AppendCompactPointer(pointer) ==
    EncodeVarint(CompactPointer) \o EncodeVarint(pointer.level) \o AppendLengthPrefixed(pointer.key)

AppendDeletedFile(file) ==
    EncodeVarint(DeletedFile) \o EncodeVarint(file[1]) \o EncodeVarint(file[2])

AppendNewFile(file) ==
    EncodeVarint(NewFile) \o EncodeVarint(file.level) \o EncodeVarint(file.number) \o
    EncodeVarint(file.size) \o AppendLengthPrefixed(file.smallest) \o AppendLengthPrefixed(file.largest)

\* The deleted files are a set in the order of level and number.
Ordered(files) ==
    SetToSortSeq(files, LAMBDA a, b : a[1] < b[1] \/ (a[1] = b[1] /\ a[2] < b[2]))

Encode(e) ==
    (IF e.name = <<>> THEN <<>> ELSE EncodeVarint(Comparator) \o AppendLengthPrefixed(e.name[1])) \o
    AppendNumberField(e, LogNumber) \o AppendNumberField(e, PrevLogNumber) \o
    AppendNumberField(e, NextFileNumber) \o AppendNumberField(e, LastSequence) \o
    FlattenSeq([i \in DOMAIN e.pointers |-> AppendCompactPointer(e.pointers[i])]) \o
    FlattenSeq([i \in 1 .. Cardinality(e.deleted) |-> AppendDeletedFile(Ordered(e.deleted)[i])]) \o
    FlattenSeq([i \in DOMAIN e.new |-> AppendNewFile(e.new[i])])

-----------------------------------------------------------------------------
\* A reader of one item gives the item and what is left, or Failed.
ReadNumber(input) == ConsumeVarint(Size64, input)

ReadFileNumber(input) ==
    LET number == ReadNumber(input)
    IN  IF number.ok /\ number.value # 0 THEN number ELSE Failed

ReadLevel(input) ==
    LET level == ConsumeVarint(Size32, input)
    IN  IF level.ok /\ level.value < NumLevels THEN level ELSE Failed

ReadInternalKey(input) ==
    LET key == ConsumeLengthPrefixed(input)
    IN  IF key.ok /\ ParseInternalKey(key.value) THEN key ELSE Failed

ReadItem(kind, input) ==
    CASE kind = "number" -> ReadNumber(input)
      [] kind = "file" -> ReadFileNumber(input)
      [] kind = "level" -> ReadLevel(input)
      [] kind = "key" -> ReadInternalKey(input)
      [] kind = "sequence" -> LET number == ReadNumber(input)
                              IN  IF number.ok /\ number.value <= MaxSequenceNumber THEN number ELSE Failed
      [] kind = "name" -> ConsumeLengthPrefixed(input)

\* The items of a field one after another: their values and what is left.
ReadItems(input, kinds) ==
    FoldLeft(LAMBDA got, kind :
                 LET item == ReadItem(kind, got.rest)
                 IN  IF ~got.ok \/ ~item.ok THEN [got EXCEPT !.ok = FALSE]
                     ELSE [ok |-> TRUE, value |-> Append(got.value, item.value), rest |-> item.rest],
             [ok |-> TRUE, value |-> <<>>, rest |-> input], kinds)

ItemsOf(tag) ==
    CASE tag = Comparator -> <<"name">>
      [] tag \in {LogNumber, PrevLogNumber} -> <<"number">>
      [] tag = NextFileNumber -> <<"file">>
      [] tag = LastSequence -> <<"sequence">>
      [] tag = CompactPointer -> <<"level", "key">>
      [] tag = DeletedFile -> <<"level", "file">>
      [] tag = NewFile -> <<"level", "file", "number", "key", "key">>

Tags == {Comparator, LogNumber, NextFileNumber, LastSequence, CompactPointer, DeletedFile, NewFile,
         PrevLogNumber}

WithField(e, tag, items) ==
    CASE tag = Comparator -> [e EXCEPT !.name = <<items[1]>>]
      [] tag \in {LogNumber, PrevLogNumber, NextFileNumber, LastSequence} -> WithNumber(e, tag, items[1])
      [] tag = CompactPointer -> [e EXCEPT !.pointers = Append(@, [level |-> items[1], key |-> items[2]])]
      [] tag = DeletedFile -> [e EXCEPT !.deleted = @ \cup {items}]
      [] tag = NewFile ->
            [e EXCEPT !.new = Append(@, [level |-> items[1], number |-> items[2], size |-> items[3],
                                         smallest |-> items[4], largest |-> items[5]])]

\* Decode: one field, or the end.
StartDecode(bytes) ==
    /\ decoder.state = "none"
    /\ decoder' = [state |-> "fields", rest |-> bytes, edit |-> NoEdit, exact |-> bytes = Encode(edit)]
    /\ UNCHANGED <<edit, calls>>

DecodeField ==
    /\ decoder.state = "fields"
    /\ decoder.rest # <<>>
    /\ LET tag == ConsumeVarint(Size32, decoder.rest)
           field == ReadItems(tag.rest, ItemsOf(tag.value))
       IN  decoder' = IF ~tag.ok \/ tag.value \notin Tags \/ ~field.ok
                      THEN [decoder EXCEPT !.state = "malformed"]
                      ELSE [decoder EXCEPT !.rest = field.rest,
                                           !.edit = WithField(@, tag.value, field.value)]
    /\ UNCHANGED <<edit, calls>>

DecodeEnds ==
    /\ decoder.state = "fields"
    /\ decoder.rest = <<>>
    /\ decoder' = [decoder EXCEPT !.state = "decoded"]
    /\ UNCHANGED <<edit, calls>>

Payloads(bytes) ==
    {SubSeq(bytes, 1, n) : n \in 0 .. Len(bytes)}
        \cup {[bytes EXCEPT ![i] = x] : i \in DOMAIN bytes, x \in Cells}

Next ==
    \/ \E name \in Names : SetComparatorName(name)
    \/ \E n \in Numbers :
          \/ SetLogNumber(n)
          \/ SetPrevLogNumber(n)
          \/ SetNextFileNumber(n)
          \/ SetLastSequence(n)
    \/ \E level \in Levels, key \in Keys : AddCompactPointer(level, key)
    \/ \E level \in Levels, n \in Numbers : RemoveFile(level, n)
    \/ \E level \in Levels, n \in Numbers, smallest, largest \in Keys :
          AddFile(level, n, n, smallest, largest)
    \/ \E bytes \in Payloads(Encode(edit)) : StartDecode(bytes)
    \/ DecodeField
    \/ DecodeEnds

Spec == Init /\ [][Next]_vars

-----------------------------------------------------------------------------
\* What the mutators accept.
Settable(e) ==
    /\ NextFileNumber \in DOMAIN e.number => e.number[NextFileNumber] # 0
    /\ LastSequence \in DOMAIN e.number => e.number[LastSequence] <= MaxSequenceNumber
    /\ \A p \in ToSet(e.pointers) : p.level < NumLevels /\ ParseInternalKey(p.key)
    /\ \A f \in e.deleted : f[1] < NumLevels /\ f[2] # 0
    /\ \A f \in ToSet(e.new) : /\ f.level < NumLevels /\ f.number # 0
                               /\ ParseInternalKey(f.smallest) /\ ParseInternalKey(f.largest)

\* Every edit that the mutators accept is encodable: its bytes decode, and to
\* the same edit, with the files in the order they were added in.
EditReadsBack ==
    decoder.state # "none" /\ decoder.exact =>
        /\ decoder.state # "malformed"
        /\ decoder.state = "decoded" => decoder.edit = edit

\* Whatever the bytes are, the decoder accepts nothing that a mutator would
\* have refused: no level out of range, no file zero, no sequence of more than
\* 56 bits, no key without a trailer.
DecodedIsSettable == decoder.state # "none" => Settable(decoder.edit)

\* VersionEdit::Decode returns what Encode was given, and never an edit that the
\* mutators would have refused.
EditReads == EditReadsBack /\ DecodedIsSettable
=============================================================================
