---------------------------- MODULE WritableFile ----------------------------
(* PosixWritableFile (platform/posix_file_system.cc): the buffered file that *)
(* logs, tables and MANIFESTs are written through.  Its caller hands over a  *)
(* stream of bytes, numbered 1, 2, ...; the file is the sequence of numbers  *)
(* that write(2) has stored.  A write may store a part of its bytes and then *)
(* fail.  A fdatasync that fails may lose the pages it was to write: a later *)
(* one then succeeds without them, as Linux does.  One object is used by one *)
(* thread at a time, so every call is one step.                              *)
EXTENDS Naturals, Sequences

CONSTANTS
    BufferSize,  \* WritableBufferSize
    MaxData,     \* bound: bytes of one Append
    MaxBytes     \* bound: bytes of all calls

VARIABLES
    given,       \* how many bytes the calls of Append have handed over
    buffer,      \* buffer_ up to buffer_size_
    file,        \* what write(2) has stored
    first_error, \* first_error_ is set
    close_attempted,
    durable,     \* how many bytes of the file a crash cannot take away
    holed,       \* a failed fdatasync has lost some page
    acked,       \* history: the bytes handed over before a Sync that succeeded
    status,      \* what the last call returned
    alive        \* the object exists

vars == <<given, buffer, file, first_error, close_attempted, durable, holed, acked,
          status, alive>>

Stream(from, to) == [i \in 1 .. to - from |-> from + i]

Init ==
    /\ given = 0 /\ buffer = <<>> /\ file = <<>>
    /\ first_error = FALSE /\ close_attempted = FALSE
    /\ durable = 0 /\ holed = FALSE /\ acked = 0
    /\ status = "none" /\ alive = TRUE

\* WriteAll goes on until everything is stored or a write fails.
WriteAll(data) ==
    {[stored |-> data, ok |-> TRUE]} \cup
    {[stored |-> SubSeq(data, 1, k), ok |-> FALSE] :
       k \in IF data = <<>> THEN {} ELSE 0 .. Len(data) - 1}

\* RememberFirstError; what was an error stays one.
Remember(ok) == first_error' = (first_error \/ ~ok)

Returns(ok) == status' = IF ok THEN "ok" ELSE "error"

\* The new data fits behind the buffered bytes.
AppendFits(data) ==
    /\ Len(buffer) + Len(data) <= BufferSize
    /\ buffer' = buffer \o data
    /\ Returns(TRUE)
    /\ UNCHANGED <<file, first_error>>

\* The buffer is filled up and flushed; the rest starts a new buffer or, if it
\* would fill one, goes to the file at once.
AppendOverflows(data) ==
    LET room == BufferSize - Len(buffer)
        rest == SubSeq(data, room + 1, Len(data))
    IN  /\ Len(data) > room
        /\ \E flush \in WriteAll(buffer \o SubSeq(data, 1, room)) :
             \/ /\ flush.ok /\ Len(rest) < BufferSize
                /\ buffer' = rest
                /\ file' = file \o flush.stored
                /\ Remember(TRUE) /\ Returns(TRUE)
             \/ \E direct \in WriteAll(rest) :
                  /\ flush.ok /\ Len(rest) >= BufferSize
                  /\ buffer' = <<>>
                  /\ file' = file \o flush.stored \o direct.stored
                  /\ Remember(direct.ok) /\ Returns(direct.ok)
             \/ /\ ~flush.ok
                /\ buffer' = <<>>
                /\ file' = file \o flush.stored
                /\ Remember(FALSE) /\ Returns(FALSE)

AppendData(n) ==
    /\ alive /\ ~close_attempted
    /\ given + n <= MaxBytes
    /\ given' = given + n
    /\ LET data == Stream(given, given + n)
       IN  \/ /\ ~first_error
              /\ AppendFits(data) \/ AppendOverflows(data)
           \/ /\ first_error
              /\ Returns(FALSE)
              /\ UNCHANGED <<buffer, file, first_error>>
    /\ UNCHANGED <<close_attempted, durable, holed, acked, alive>>

\* FlushBuffer: the outcome of writing the buffer, which is empty afterwards.
FlushBuffer ==
    IF first_error THEN {[stored |-> <<>>, ok |-> FALSE]} ELSE WriteAll(buffer)

Flushed(flush) ==
    /\ buffer' = IF first_error THEN buffer ELSE <<>>
    /\ file' = file \o flush.stored

Flush ==
    /\ alive /\ ~close_attempted
    /\ \E flush \in FlushBuffer :
         Flushed(flush) /\ Remember(flush.ok) /\ Returns(flush.ok)
    /\ UNCHANGED <<given, close_attempted, durable, holed, acked, alive>>

\* FAULT: Sync does not flush the buffer first.
FaultSyncFlush == {[stored |-> <<>>, ok |-> TRUE]}

SyncFlush == FlushBuffer

\* Sync flushes and then calls fdatasync, unless the flush failed.
Sync ==
    /\ alive /\ ~close_attempted
    /\ \E flush \in SyncFlush, synced \in BOOLEAN :
         /\ Flushed(flush)
         /\ Remember(flush.ok /\ synced) /\ Returns(flush.ok /\ synced)
         /\ durable' = IF flush.ok /\ synced /\ ~holed THEN Len(file') ELSE durable
         /\ holed' = (holed \/ (flush.ok /\ ~synced))
         /\ acked' = IF flush.ok /\ synced THEN given ELSE acked
    /\ UNCHANGED <<given, close_attempted, alive>>

\* Close flushes and closes, whichever of them fails; a second Close repeats
\* the first error.
Close ==
    /\ alive
    /\ close_attempted' = TRUE
    /\ \/ /\ ~close_attempted
          /\ \E flush \in FlushBuffer, closed \in BOOLEAN :
               /\ Flushed(flush)
               /\ Remember(flush.ok /\ closed) /\ Returns(flush.ok /\ closed)
       \/ /\ close_attempted
          /\ Returns(~first_error)
          /\ UNCHANGED <<buffer, file, first_error>>
    /\ UNCHANGED <<given, durable, holed, acked, alive>>

\* CheckOpen: Append, Flush and Sync after Close return an error, which is not
\* remembered.
CalledAfterClose ==
    /\ alive /\ close_attempted
    /\ Returns(FALSE)
    /\ UNCHANGED <<given, buffer, file, first_error, close_attempted, durable, holed,
                   acked, alive>>

\* BestEffortWriteAll, for a file that was not closed.
BestEffort == IF close_attempted \/ first_error THEN {[stored |-> <<>>, ok |-> TRUE]}
              ELSE WriteAll(buffer)

\* ~PosixWritableFile reports nothing.
Destroy ==
    /\ alive
    /\ alive' = FALSE
    /\ \E write \in BestEffort : file' = file \o write.stored
    /\ UNCHANGED <<given, buffer, first_error, close_attempted, durable, holed, acked, status>>

Next ==
    \/ \E n \in 0 .. MaxData : AppendData(n)
    \/ Flush \/ Sync \/ Close \/ CalledAfterClose \/ Destroy

Spec == Init /\ [][Next]_vars

-----------------------------------------------------------------------------
(* Properties.                                                               *)

\* The file is a prefix of the stream at all times, after partial writes, after
\* errors and after the destructor too: it has no hole and no byte twice.
FileIsPrefix == Len(file) <= given /\ file = Stream(0, Len(file))

\* Bytes handed over before a Sync that returned success survive a crash, even
\* if an earlier fdatasync of the file had failed.
SyncedIsDurable == acked <= durable

\* A call reports success only if everything handed over is in the file or in
\* the buffer, and a Close only if it is in the file.
SuccessIsTrue ==
    status = "ok" /\ alive =>
      Len(file) + (IF close_attempted THEN 0 ELSE Len(buffer)) = given

\* The buffer, the file and the disk never disagree with what the calls returned.
WritableSound == FileIsPrefix /\ SyncedIsDurable /\ SuccessIsTrue
=============================================================================
