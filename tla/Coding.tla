------------------------------- MODULE Coding -------------------------------
(***************************************************************************)
(* The integer codings of src/base/coding.cc and coding_internal.h, and    *)
(* the length-prefixed strings built from them, over bytes.                *)
(*                                                                         *)
(* A byte has PayloadBits + 1 bits (8 in the code); a 32-bit word has      *)
(* Size32 bytes and a 64-bit word Size64 (4 and 8 in the code).  The       *)
(* results of the decoders are records: ok, and when ok the value and the  *)
(* bytes that are left.                                                    *)
(***************************************************************************)
EXTENDS Integers, Sequences, SequencesExt

CONSTANTS PayloadBits, Size32, Size64

Flag == 2 ^ PayloadBits
Byte == 0 .. 2 * Flag - 1

Bits(size) == size * (PayloadBits + 1)
Limit(size) == 2 ^ Bits(size)

Failed == [ok |-> FALSE]

\* size bytes, the lowest first.
EncodeFixed(size, value) == [i \in 1 .. size |-> (value \div (2 * Flag) ^ (i - 1)) % (2 * Flag)]

DecodeFixed(bytes) == FoldLeftDomain(LAMBDA sum, i : sum + bytes[i] * (2 * Flag) ^ (i - 1), 0, bytes)

\* The bytes of the longest varint of a word.
MaxBytes(size) == (Bits(size) + PayloadBits - 1) \div PayloadBits

VarintLength(value) == CHOOSE n \in 1 .. MaxBytes(Size64) :
                           value < Flag ^ n /\ (n = 1 \/ value >= Flag ^ (n - 1))

EncodeVarint(value) ==
    LET n == VarintLength(value)
    IN  [i \in 1 .. n |-> ((value \div Flag ^ (i - 1)) % Flag) + (IF i < n THEN Flag ELSE 0)]

\* The payloads of the first n bytes.  The excess bits of the last one are cut
\* to the width of the word.
Folded(size, input, n) ==
    FoldLeftDomain(LAMBDA sum, i : (sum + (input[i] % Flag) * Flag ^ (i - 1)) % Limit(size),
                   0, SubSeq(input, 1, n))

Terminals(input) == {i \in DOMAIN input : input[i] < Flag}

\* The varint that ends with the n-th byte.
Varint(size, input, n) ==
    [ok |-> TRUE, value |-> Folded(size, input, n), rest |-> SubSeq(input, n + 1, Len(input))]

\* The checked decoder: input that ends within the varint, and continuation
\* past the longest varint of the word, are errors.
ConsumeVarint(size, input) ==
    LET ends == {i \in Terminals(input) : i <= MaxBytes(size)}
    IN  IF ends = {} THEN Failed ELSE Varint(size, input, Min(ends))

\* The decoder of bytes that were checked before looks at nothing but the
\* terminal bit.  When there is none it reads past the end, and when it comes
\* too late it shifts past the word: Failed stands for undefined behaviour.
ConsumeVarintTrusted(size, input) ==
    LET end == Min(Terminals(input))
    IN  IF Terminals(input) = {} THEN Failed
        ELSE IF end > MaxBytes(size) THEN Failed
        ELSE Varint(size, input, end)

AppendLengthPrefixed(value) == EncodeVarint(Len(value)) \o value

Split(length, input) ==
    [ok |-> TRUE, value |-> SubSeq(input, 1, length), rest |-> SubSeq(input, length + 1, Len(input))]

ConsumeLengthPrefixed(input) ==
    LET length == ConsumeVarint(Size32, input)
    IN  IF ~length.ok THEN Failed
        ELSE IF Len(length.rest) < length.value THEN Failed
        ELSE Split(length.value, length.rest)

ConsumeLengthPrefixedTrusted(input) ==
    LET length == ConsumeVarintTrusted(Size32, input)
    IN  IF ~length.ok THEN Failed
        ELSE IF Len(length.rest) < length.value THEN Failed
        ELSE Split(length.value, length.rest)
=============================================================================
