---------------------------- MODULE BlockFormat ----------------------------
(***************************************************************************)
(* The bytes of a table file: stored blocks with their trailers, block     *)
(* handles and the footer (src/table/block_format.cc, compression.cc), as  *)
(* TableBuilder writes them and ReadStoredBlock of table.cc reads them.    *)
(* A byte of the finished file may change or its end be lost before it is  *)
(* read, and a handle that is read may be any.                             *)
(*                                                                         *)
(* The compressors are external: here a run of one byte is compressed to   *)
(* its length and the byte.  The CRC32C of the library is external: here   *)
(* the sum of the bytes stands for it, which like it tells any change of a *)
(* single byte.                                                            *)
(***************************************************************************)
EXTENDS Coding

CONSTANTS
    Contents,     \* the contents of blocks
    Handles,      \* handles that a reader may come to hold
    Cells,        \* the values a damaged byte may have
    MaxBlocks

None == 0
Snappy == 1
Zstd == 2
Compressions == {None, Snappy, Zstd}

TrailerSize == 1 + Size32
HandlesSize == 4 * MaxBytes(Size64)
FooterSize == HandlesSize + Size64
Magic == Limit(Size64) - 2

VARIABLES
    file,         \* the bytes
    blocks,       \* history: the handle and the contents of every block written
    stage,        \* "building", "finished", "damaged" or "read"
    result        \* of the read

vars == <<file, blocks, stage, result>>

Init == file = <<>> /\ blocks = <<>> /\ stage = "building" /\ result = Failed

-----------------------------------------------------------------------------
\* crc32c::Extend.
Extend(crc, bytes) == FoldLeft(LAMBDA sum, x : (sum + x) % Limit(Size32), crc, bytes)

ExtendCrc32c(crc, bytes) == IF bytes = <<>> THEN crc ELSE Extend(crc, bytes)

Crc32c(bytes) == ExtendCrc32c(0, bytes)

\* Rotates the word right by one bit less than half of it, and adds MaskDelta.
MaskDelta == 5
MaskCrc32c(crc) ==
    LET low == 2 ^ (Bits(Size32) \div 2 - 1)
        rotated == crc \div low + (crc % low) * (Limit(Size32) \div low)
    IN  (rotated + MaskDelta) % Limit(Size32)

Compress(raw) == <<Len(raw), IF raw = <<>> THEN 0 ELSE raw[1]>>

CompressionIsWorthwhile(raw, compressed) == compressed < raw - (raw \div 8)

TryCompressBlock(raw, requested) ==
    /\ raw # <<>>
    /\ requested # None
    /\ CompressionIsWorthwhile(Len(raw), Len(Compress(raw)))

\* Zstd refuses a frame that declares no contents, Snappy does not.
DecompressBlock(contents, type) ==
    IF Len(contents) # 2 \/ (type = Zstd /\ contents[1] = 0) THEN Failed
    ELSE [ok |-> TRUE, value |-> [i \in 1 .. contents[1] |-> contents[2]]]

\* The checksum that is written, of the contents and then of the type, and the one
\* that is expected, of both at once.
BlockChecksum(contents, type) == MaskCrc32c(ExtendCrc32c(Crc32c(contents), <<type>>))

StoredBlockChecksumMatches(stored, size) ==
    DecodeFixed(SubSeq(stored, size + 2, Len(stored))) = MaskCrc32c(Crc32c(SubSeq(stored, 1, size + 1)))

EncodeBlockTrailer(contents, type) == <<type>> \o EncodeFixed(Size32, BlockChecksum(contents, type))

AppendBlockHandle(handle) == EncodeVarint(handle.offset) \o EncodeVarint(handle.size)

WriteBlock(raw, requested) ==
    /\ stage = "building"
    /\ Len(blocks) < MaxBlocks
    /\ LET compressed == TryCompressBlock(raw, requested)
           contents == IF compressed THEN Compress(raw) ELSE raw
           type == IF compressed THEN requested ELSE None
       IN  /\ file' = file \o contents \o EncodeBlockTrailer(contents, type)
           /\ blocks' = Append(blocks, [handle |-> [offset |-> Len(file), size |-> Len(contents)],
                                        raw |-> raw])
    /\ UNCHANGED <<stage, result>>

EncodeFooter(metaindex, index) ==
    LET handles == AppendBlockHandle(metaindex) \o AppendBlockHandle(index)
    IN  handles \o [i \in 1 .. HandlesSize - Len(handles) |-> 0] \o EncodeFixed(Size64, Magic)

\* The footer names the last two blocks.
Finish ==
    /\ stage = "building"
    /\ Len(blocks) >= 2
    /\ file' = file \o EncodeFooter(blocks[Len(blocks) - 1].handle, blocks[Len(blocks)].handle)
    /\ stage' = "finished"
    /\ UNCHANGED <<blocks, result>>

Damage(i, x) ==
    /\ stage = "finished"
    /\ file[i] # x
    /\ file' = [file EXCEPT ![i] = x]
    /\ stage' = "damaged"
    /\ UNCHANGED <<blocks, result>>

Truncate(size) ==
    /\ stage = "finished"
    /\ file' = SubSeq(file, 1, size)
    /\ stage' = "damaged"
    /\ UNCHANGED <<blocks, result>>

-----------------------------------------------------------------------------
ConsumeBlockHandle(input) ==
    LET offset == ConsumeVarint(Size64, input)
        size == ConsumeVarint(Size64, offset.rest)
    IN  IF ~offset.ok THEN Failed
        ELSE IF ~size.ok THEN Failed
        ELSE [ok |-> TRUE, value |-> [offset |-> offset.value, size |-> size.value], rest |-> size.rest]

DecodeFooterHandles(handles) ==
    LET metaindex == ConsumeBlockHandle(handles)
        index == ConsumeBlockHandle(metaindex.rest)
    IN  IF ~metaindex.ok THEN Failed
        ELSE IF ~index.ok THEN Failed
        ELSE [ok |-> TRUE, value |-> <<metaindex.value, index.value>>, rest |-> index.rest]

PaddingIsZero(padding) == \A i \in DOMAIN padding : padding[i] = 0

DecodeFooter(encoded) ==
    LET footer == DecodeFooterHandles(SubSeq(encoded, 1, HandlesSize))
    IN  IF DecodeFixed(SubSeq(encoded, HandlesSize + 1, FooterSize)) # Magic THEN Failed
        ELSE IF ~footer.ok THEN Failed
        ELSE IF ~PaddingIsZero(footer.rest) THEN Failed
        ELSE [ok |-> TRUE, value |-> footer.value]

\* Arithmetic on offsets and sizes is that of 64-bit words.
Word(n) == n % Limit(Size64)

\* FAULT: the end of the block is computed first, and may wrap around.
FaultInBlockRegion(handle, end) == Word(handle.offset + handle.size + TrailerSize) <= end

\* The block and its trailer end before the footer.
InBlockRegion(handle, end) ==
    LET available == Word(end - handle.offset)
    IN  /\ handle.offset <= end
        /\ available >= TrailerSize
        /\ handle.size <= Word(available - TrailerSize)

ValidateStoredBlock(stored) ==
    LET size == Len(stored) - TrailerSize
        contents == SubSeq(stored, 1, size)
        type == stored[size + 1]
    IN  IF Len(stored) < TrailerSize THEN Failed
        ELSE IF ~StoredBlockChecksumMatches(stored, size) THEN Failed
        ELSE IF type \notin Compressions THEN Failed
        ELSE [ok |-> TRUE, contents |-> contents, compression |-> type]

DecodeStoredBlock(stored) ==
    LET decoded == ValidateStoredBlock(stored)
    IN  IF ~decoded.ok THEN Failed
        ELSE IF decoded.compression = None THEN [ok |-> TRUE, value |-> decoded.contents]
        ELSE DecompressBlock(decoded.contents, decoded.compression)

\* Short reads are repeated until nothing comes any more: the file is truncated.
ReadExactly(offset, size) ==
    IF size > 0 /\ offset + size > Len(file) THEN Failed
    ELSE [ok |-> TRUE, value |-> SubSeq(file, offset + 1, offset + size)]

\* The size that the metadata of the table give.
WrittenSize == LET end == Last(blocks).handle
               IN  end.offset + end.size + TrailerSize + FooterSize

\* Table::Open up to the footer, with a size that is recorded or that the file has.
ReadFooter(file_size) ==
    /\ stage \in {"finished", "damaged"}
    /\ LET read == ReadExactly(file_size - FooterSize, FooterSize)
       IN  result' = [what |-> "footer", exact |-> stage = "finished", cut |-> Len(file) < file_size] @@
                     (IF file_size < FooterSize THEN Failed
                      ELSE IF ~read.ok THEN Failed ELSE DecodeFooter(read.value))
    /\ stage' = "read"
    /\ UNCHANGED <<file, blocks>>

\* The read of a table that is open.  What it reaches for may lie outside the region
\* of the blocks: that is what InBlockRegion is there to exclude.
ReadStoredBlock(handle) ==
    /\ stage \in {"finished", "damaged"}
    /\ LET blocks_end == WrittenSize - FooterSize
           stored_size == Word(handle.size + TrailerSize)
           read == ReadExactly(handle.offset, stored_size)
           reads == InBlockRegion(handle, blocks_end)
       IN  result' = [what |-> "block", exact |-> stage = "finished", handle |-> handle,
                      outside |-> reads /\ (\/ stored_size # handle.size + TrailerSize
                                            \/ handle.offset + stored_size > blocks_end)] @@
                     (IF ~reads THEN Failed
                      ELSE IF ~read.ok THEN Failed ELSE DecodeStoredBlock(read.value))
    /\ stage' = "read"
    /\ UNCHANGED <<file, blocks>>

Next ==
    \/ \E raw \in Contents, requested \in Compressions : WriteBlock(raw, requested)
    \/ Finish
    \/ \E i \in DOMAIN file, x \in Cells : Damage(i, x)
    \/ \E n \in 0 .. Len(file) - 1 : Truncate(n)
    \/ \E size \in {Len(file)} \cup {WrittenSize : i \in DOMAIN blocks} : ReadFooter(size)
    \/ \E handle \in Handles \cup {blocks[i].handle : i \in DOMAIN blocks} : ReadStoredBlock(handle)

Spec == Init /\ [][Next]_vars

-----------------------------------------------------------------------------
\* The footer of an undamaged file names the blocks it was written for, and a file
\* that is shorter than its metadata say is refused.
FooterReadsBack ==
    stage = "read" /\ result.what = "footer" =>
        /\ result.exact =>
             result.ok /\ result.value = <<blocks[Len(blocks) - 1].handle, blocks[Len(blocks)].handle>>
        /\ result.cut => ~result.ok

\* A block that was written is read back as its contents, compressed or not,
\* empty or not.  When a byte of the file has changed, or its end is lost, the contents
\* are the same or the read fails: no change of contents, type or checksum is missed.
BlockReadsBack ==
    stage = "read" /\ result.what = "block" =>
        \A i \in DOMAIN blocks : blocks[i].handle = result.handle =>
            /\ result.exact => result.ok
            /\ result.ok => result.value = blocks[i].raw

\* Whatever the handle says, nothing past the last block is read, although the sums of
\* its offset and its size wrap around at 64 bits.
ReadsInRegion == stage = "read" /\ result.what = "block" => ~result.outside

\* The footer and the blocks of a table are read back as they were written, or
\* refused, and nothing outside the blocks' region is read.
BlocksRead == FooterReadsBack /\ BlockReadsBack /\ ReadsInRegion
=============================================================================
