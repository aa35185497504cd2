----------------------------- MODULE WriteBatch -----------------------------
(***************************************************************************)
(* The encoded write batch of src/format/write_batch.{h,cc}: the header    *)
(* with the starting sequence and the count, and one record per operation. *)
(* Two batches are built by the calls of the interface; then the bytes of  *)
(* one are read, by the trusted reader of the commit or, as the payload of *)
(* a log record, by the checked reader of the recovery.  The bytes of the  *)
(* payload may be any: a cell may have changed and the end may be missing. *)
(***************************************************************************)
EXTENDS Coding

CONSTANTS
    Strings,      \* the keys and values of the callers
    Cells,        \* the values a damaged byte may have
    Starts,       \* the starting sequences that commits assign
    MaxCalls      \* the calls that build the batches

Batch == {"own", "other"}
Deletion == 0
Value == 1
HeaderSize == Size64 + Size32

VARIABLES
    encoded,      \* the bytes of each batch
    content,      \* history: the operations that each batch was given, in order
    calls,
    reader,       \* the reader: its bytes, sequence, count and index; [state |-> "none"] before
    produced      \* the entries the reader produced

vars == <<encoded, content, calls, reader, produced>>

Count(bytes) == DecodeFixed(SubSeq(bytes, Size64 + 1, HeaderSize))
Sequence(bytes) == DecodeFixed(SubSeq(bytes, 1, Size64))
Records(bytes) == SubSeq(bytes, HeaderSize + 1, Len(bytes))

WithCount(bytes, count) ==
    SubSeq(bytes, 1, Size64) \o EncodeFixed(Size32, count) \o Records(bytes)
WithSequence(bytes, sequence) ==
    EncodeFixed(Size64, sequence) \o SubSeq(bytes, Size64 + 1, Len(bytes))

Empty == [i \in 1 .. HeaderSize |-> 0]

Init ==
    /\ encoded = [b \in Batch |-> Empty]
    /\ content = [b \in Batch |-> <<>>]
    /\ calls = 0
    /\ reader = [state |-> "none"]
    /\ produced = <<>>

-----------------------------------------------------------------------------
EncodeRecord(op) ==
    <<op.kind>> \o AppendLengthPrefixed(op.key) \o
    (IF op.kind = Value THEN AppendLengthPrefixed(op.value) ELSE <<>>)

Building == reader.state = "none" /\ calls < MaxCalls /\ calls' = calls + 1

AppendRecord(b, op) ==
    /\ encoded' = [encoded EXCEPT ![b] = WithCount(@, Count(@) + 1) \o EncodeRecord(op)]
    /\ content' = [content EXCEPT ![b] = Append(@, op)]

Put(b, key, value) ==
    /\ Building
    /\ AppendRecord(b, [kind |-> Value, key |-> key, value |-> value])
    /\ UNCHANGED <<reader, produced>>

Delete(b, key) ==
    /\ Building
    /\ AppendRecord(b, [kind |-> Deletion, key |-> key, value |-> <<>>])
    /\ UNCHANGED <<reader, produced>>

\* The records of the source behind those of the batch.
Joined(bytes, source) ==
    IF Count(source) = 0 THEN bytes
    ELSE WithCount(bytes, Count(bytes) + Count(source)) \o Records(source)

AppendBatch(b, source) ==
    /\ Building
    /\ encoded' = [encoded EXCEPT ![b] = Joined(@, encoded[source])]
    /\ content' = [content EXCEPT ![b] = @ \o content[source]]
    /\ UNCHANGED <<reader, produced>>

\* Move assignment: the source is an empty batch afterwards.
Move(b, source) ==
    /\ Building
    /\ encoded' = IF b = source THEN encoded ELSE [encoded EXCEPT ![b] = encoded[source], ![source] = Empty]
    /\ content' = IF b = source THEN content ELSE [content EXCEPT ![b] = content[source], ![source] = <<>>]
    /\ UNCHANGED <<reader, produced>>

SetSequence(b, sequence) ==
    /\ Building
    /\ encoded' = [encoded EXCEPT ![b] = WithSequence(@, sequence)]
    /\ UNCHANGED <<content, reader, produced>>

Clear(b) ==
    /\ Building
    /\ encoded' = [encoded EXCEPT ![b] = Empty]
    /\ content' = [content EXCEPT ![b] = <<>>]
    /\ UNCHANGED <<reader, produced>>

-----------------------------------------------------------------------------
\* The validation of one record: what is left behind it, or Failed.
ValidateBatchRecord(remaining) ==
    IF remaining = <<>> THEN Failed
    ELSE LET kind == remaining[1]
             key == ConsumeLengthPrefixed(Tail(remaining))
         IN  IF kind \notin {Deletion, Value} THEN Failed
             ELSE IF ~key.ok \/ kind = Deletion THEN key
             ELSE ConsumeLengthPrefixed(key.rest)

Validated(remaining, count) ==
    FoldLeft(LAMBDA left, i : IF left.ok THEN ValidateBatchRecord(left.rest) ELSE left,
             [ok |-> TRUE, rest |-> remaining], [i \in 1 .. count |-> i])

ValidateBatchRecords(remaining, count) ==
    LET left == Validated(remaining, count) IN left.ok /\ left.rest = <<>>

OpenReader(bytes, exact) ==
    reader' = [state |-> "open", remaining |-> Records(bytes), sequence |-> Sequence(bytes),
               count |-> Count(bytes), index |-> 0, exact |-> exact]

\* WriteBatchReader::Open on the payload of a log record.
Open(bytes) ==
    /\ IF Len(bytes) < HeaderSize \/ ~ValidateBatchRecords(Records(bytes), Count(bytes))
       THEN reader' = [state |-> "refused", exact |-> bytes = encoded["own"]]
       ELSE OpenReader(bytes, bytes = encoded["own"])
    /\ UNCHANGED <<encoded, content, calls, produced>>

OpenTrusted ==
    /\ OpenReader(encoded["own"], TRUE)
    /\ UNCHANGED <<encoded, content, calls, produced>>

\* One entry of the reader, whose bytes were checked (or built) before.
ConsumeEntry ==
    LET kind == reader.remaining[1]
        key == ConsumeLengthPrefixedTrusted(Tail(reader.remaining))
        value == IF kind = Value THEN ConsumeLengthPrefixedTrusted(key.rest)
                 ELSE [ok |-> TRUE, value |-> <<>>, rest |-> key.rest]
    IN  IF reader.remaining = <<>> \/ ~key.ok \/ ~value.ok
        THEN /\ reader' = [state |-> "undefined"]
             /\ UNCHANGED produced
        ELSE /\ reader' = [reader EXCEPT !.remaining = value.rest, !.index = @ + 1]
             /\ produced' = Append(produced, [sequence |-> reader.sequence + reader.index, kind |-> kind,
                                              key |-> key.value, value |-> value.value])

NextEntry ==
    /\ reader.state = "open"
    /\ reader.index # reader.count
    /\ ConsumeEntry
    /\ UNCHANGED <<encoded, content, calls>>

\* The end of the batch.
NextEnds ==
    /\ reader.state = "open"
    /\ reader.index = reader.count
    /\ reader' = [reader EXCEPT !.state = "done"]
    /\ UNCHANGED <<encoded, content, calls, produced>>

\* The payloads a log record may hold: the bytes of the batch, with one of them
\* changed, or with an end missing.
Payloads(bytes) ==
    {bytes} \cup {SubSeq(bytes, 1, n) : n \in 0 .. Len(bytes)}
            \cup {[bytes EXCEPT ![i] = x] : i \in DOMAIN bytes, x \in Cells}

Next ==
    \/ \E b \in Batch, key \in Strings :
          \/ Delete(b, key)
          \/ \E value \in Strings : Put(b, key, value)
    \/ \E b, source \in Batch : AppendBatch(b, source) \/ Move(b, source)
    \/ \E b \in Batch : Clear(b) \/ \E sequence \in Starts : SetSequence(b, sequence)
    \/ reader.state = "none" /\ (OpenTrusted \/ \E bytes \in Payloads(encoded["own"]) : Open(bytes))
    \/ NextEntry \/ NextEnds

Spec == Init /\ [][Next]_vars

-----------------------------------------------------------------------------
\* What Open accepted, and what the calls built, is safe for the reader that
\* checks nothing: every entry lies within the bytes, and the last one ends
\* where they end (Open validates everything once so that the iteration can
\* decode without checks).
ReaderInBounds ==
    /\ reader.state # "undefined"
    /\ reader.state = "done" => reader.remaining = <<>>

Expected(b) ==
    [i \in DOMAIN content[b] |->
        content[b][i] @@ [sequence |-> (Sequence(encoded[b]) + i - 1)]]

\* A batch that no byte of was changed is never refused, and is read back as
\* the operations the calls put into it, in their order, under consecutive
\* sequences from the one the commit assigned.
ReadsBack ==
    reader.state # "none" /\ reader.exact =>
        /\ reader.state # "refused"
        /\ reader.state = "done" => produced = Expected("own")

\* A reader of a batch stays within its bytes, and reads back what the calls of
\* WriteBatch put there.
BatchReads == ReaderInBounds /\ ReadsBack
=============================================================================
