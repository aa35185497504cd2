---------------------------- MODULE InternalKey ----------------------------
(***************************************************************************)
(* The keys of entries as bytes (src/format/internal_key.{h,cc}): a user   *)
(* key and a trailer, which is a 64-bit word of sequence and kind; their   *)
(* order; and LookupKey, the target of a search, which keeps its bytes in  *)
(* itself or on the heap and can be moved.                                 *)
(***************************************************************************)
EXTENDS Coding

CONSTANTS
    UserKeys,        \* user keys
    SequenceNumbers, \* the sequences that callers give
    Inputs,          \* bytes that are decoded
    InlineCapacity   \* the bytes a LookupKey keeps in itself

Deletion == 0
Value == 1
Kinds == {Deletion, Value, 2}   \* the last one is of no valid kind

\* FAULT: a search begins at the deletions of its sequence.
FaultSeekValueKind == Deletion

SeekValueKind == Value

MaxSequenceNumber == 2 ^ Bits(Size64 - 1) - 1

IsValidValueKind(kind) == kind \in {Deletion, Value}

VARIABLES
    entry,   \* two keys: the bytes of each
    source,  \* what each was made of
    lookup,  \* two LookupKeys, or None
    target   \* what each of them was made of

vars == <<entry, source, lookup, target>>

None == [encoded_size |-> 0]

-----------------------------------------------------------------------------
PackInternalKeyTrailer(sequence, kind) == ((sequence * 2 * Flag) % Limit(Size64)) + kind
DecodeInternalKeySequence(trailer) == trailer \div (2 * Flag)
DecodeInternalKeyValueKind(trailer) == trailer % (2 * Flag)

TrailerOffset(key) == Len(key) - Size64
DecodeInternalKeyTrailer(key) == DecodeFixed(SubSeq(key, TrailerOffset(key) + 1, Len(key)))
UserKey(key) == SubSeq(key, 1, TrailerOffset(key))

EncodeInternalKey(user, sequence, kind) ==
    user \o EncodeFixed(Size64, PackInternalKeyTrailer(sequence, kind))

ValidateInternalKeyInput(sequence, kind) ==
    sequence <= MaxSequenceNumber /\ IsValidValueKind(kind)

ParseInternalKey(key) ==
    IF Len(key) < Size64 THEN Failed
    ELSE LET trailer == DecodeInternalKeyTrailer(key)
         IN  IF IsValidValueKind(DecodeInternalKeyValueKind(trailer))
             THEN [ok |-> TRUE, user |-> UserKey(key),
                   sequence |-> DecodeInternalKeySequence(trailer),
                   kind |-> DecodeInternalKeyValueKind(trailer)]
             ELSE Failed

\* BytewiseComparator::Compare: the first difference decides, or the length.
UserBefore(left, right) ==
    \/ \E i \in DOMAIN left \cap DOMAIN right :
          /\ \A j \in 1 .. i - 1 : left[j] = right[j]
          /\ left[i] < right[i]
    \/ Len(left) < Len(right) /\ left = SubSeq(right, 1, Len(left))

\* CompareDescendingTrailers
TrailerBefore(left, right) ==
    DecodeInternalKeyTrailer(left) > DecodeInternalKeyTrailer(right)

\* InternalKeyComparator::Compare is negative.
Before(left, right) ==
    IF UserKey(left) # UserKey(right) THEN UserBefore(UserKey(left), UserKey(right))
    ELSE TrailerBefore(left, right)

-----------------------------------------------------------------------------
\* InternalKey::Create and InternalKey::Decode; what they refuse leaves nothing.
Create(i, user, sequence, kind) ==
    /\ entry[i] = <<>>
    /\ ValidateInternalKeyInput(sequence, kind)
    /\ entry' = [entry EXCEPT ![i] = EncodeInternalKey(user, sequence, kind)]
    /\ source' = [source EXCEPT ![i] = [user |-> user, sequence |-> sequence, kind |-> kind]]
    /\ UNCHANGED <<lookup, target>>

Decode(i, input) ==
    /\ entry[i] = <<>>
    /\ LET parsed == ParseInternalKey(input)
       IN  /\ parsed.ok
           /\ source' = [source EXCEPT ![i] = [user |-> parsed.user, sequence |-> parsed.sequence,
                                               kind |-> parsed.kind]]
    /\ entry' = [entry EXCEPT ![i] = input]
    /\ UNCHANGED <<lookup, target>>

\* The bytes of an object: an array inside it, and one on the heap when it is too small.
Filled(bytes) == [n \in 1 .. InlineCapacity |-> IF n <= Len(bytes) THEN bytes[n] ELSE 0]

Stored(bytes, offset) ==
    [inline_storage |-> IF Len(bytes) > InlineCapacity THEN Filled(<<>>) ELSE Filled(bytes),
     heap_storage |-> IF Len(bytes) > InlineCapacity THEN bytes ELSE <<>>,
     encoded_size |-> Len(bytes), internal_key_offset |-> offset]

LookupBytes(user, sequence) ==
    EncodeVarint(Len(user) + Size64) \o EncodeInternalKey(user, sequence, SeekValueKind)

\* LookupKey::Create
MakeLookup(i, user, sequence) ==
    /\ lookup[i] = None
    /\ sequence <= MaxSequenceNumber
    /\ lookup' = [lookup EXCEPT ![i] = Stored(LookupBytes(user, sequence),
                                              VarintLength(Len(user) + Size64))]
    /\ target' = [target EXCEPT ![i] = [user |-> user, sequence |-> sequence]]
    /\ UNCHANGED <<entry, source>>

\* ResetToCanonicalEmpty: the empty user key at sequence 0, over what the array held.
CanonicalEmpty(object) ==
    [heap_storage |-> <<>>, encoded_size |-> 1 + Size64, internal_key_offset |-> 1,
     inline_storage |-> [n \in 1 .. InlineCapacity |->
         IF n <= Size64 + 1 THEN LookupBytes(<<>>, 0)[n] ELSE object.inline_storage[n]]]

\* Construction from, and assignment of, an object that is moved; a self-move does nothing.
MoveLookup(i, j) ==
    /\ lookup[i] # None
    /\ lookup' = IF i = j THEN lookup
                 ELSE [lookup EXCEPT ![j] = lookup[i], ![i] = CanonicalEmpty(lookup[i])]
    /\ target' = IF i = j THEN target
                 ELSE [target EXCEPT ![j] = target[i], ![i] = [user |-> <<>>, sequence |-> 0]]
    /\ UNCHANGED <<entry, source>>

Data(object) == IF object.heap_storage # <<>> THEN object.heap_storage ELSE object.inline_storage
MemtableKey(object) == SubSeq(Data(object), 1, object.encoded_size)
LookupInternalKey(object) ==
    SubSeq(Data(object), object.internal_key_offset + 1, object.encoded_size)

Init ==
    /\ entry = [i \in 1 .. 2 |-> <<>>] /\ source = entry
    /\ lookup = [i \in 1 .. 2 |-> None] /\ target = lookup

Next ==
    \/ \E i \in 1 .. 2, user \in UserKeys, sequence \in SequenceNumbers, kind \in Kinds :
          Create(i, user, sequence, kind)
    \/ \E i \in 1 .. 2, input \in Inputs : Decode(i, input)
    \/ \E i \in 1 .. 2, user \in UserKeys, sequence \in SequenceNumbers :
          MakeLookup(i, user, sequence)
    \/ \E i, j \in 1 .. 2 : MoveLookup(i, j)

Spec == Init /\ [][Next]_vars

-----------------------------------------------------------------------------
Made == {i \in 1 .. 2 : entry[i] # <<>>}

\* Every key that can be made can be read back as what it was made of, and what is
\* decoded is made again of what was read (InternalKey::Create, Decode).
KeysRead ==
    \A i \in Made : LET parsed == ParseInternalKey(entry[i]) IN
        /\ parsed.ok
        /\ <<parsed.user, parsed.sequence, parsed.kind>> =
               <<source[i].user, source[i].sequence, source[i].kind>>
        /\ EncodeInternalKey(parsed.user, parsed.sequence, parsed.kind) = entry[i]

\* Of two entries the one with the smaller user key comes first, and of one user key
\* the newer one; at one sequence a value comes before a deletion.
KeysOrdered ==
    Made = {1, 2} =>
        (Before(entry[1], entry[2]) <=>
            IF source[1].user # source[2].user THEN UserBefore(source[1].user, source[2].user)
            ELSE \/ source[1].sequence > source[2].sequence
                 \/ source[1].sequence = source[2].sequence /\ source[1].kind > source[2].kind)

\* A search for a user key at a sequence begins where no entry of the key that is
\* visible there has gone by, and every newer one has; its bytes are those it was
\* made of, in an object that was moved from those of the empty key.
LookupsFind ==
    \A l \in {k \in 1 .. 2 : lookup[k] # None} : LET key == LookupInternalKey(lookup[l]) IN
        /\ ConsumeLengthPrefixed(MemtableKey(lookup[l])) =
              [ok |-> TRUE, value |-> key, rest |-> <<>>]
        /\ UserKey(key) = target[l].user
        /\ \A i \in {k \in Made : source[k].user = target[l].user} :
              Before(entry[i], key) <=> source[i].sequence > target[l].sequence

\* Internal keys are read back as they were made, are ordered by user key and
\* then from the newest version to the oldest, and a LookupKey finds its versions.
KeysExact == KeysRead /\ KeysOrdered /\ LookupsFind
=============================================================================
