---------------------------- MODULE MappedReads ----------------------------
(* PosixFileSystem::OpenRandomAccess and the MappedReadLimiter it shares     *)
(* with every other file system object of the process                        *)
(* (platform/posix_file_system.cc, platform/mapped_read_limiter.h).  A table *)
(* is mapped into memory while the process has fewer than Maximum mappings   *)
(* and is read by copying otherwise.  The limiter is one atomic counter: an  *)
(* acquisition subtracts first and looks afterwards, so others may see a     *)
(* count that is about to be restored.                                       *)
EXTENDS Integers, FiniteSets

CONSTANTS
    Reader,      \* the random access files, each opened and closed by a thread
    Maximum      \* DefaultMmapCount

ASSUME MappedReadsAssumption == IsFiniteSet(Reader) /\ Maximum \in Nat

VARIABLES
    available,   \* available_
    pc           \* the state of each file

vars == <<available, pc>>

\* "failing" is an acquisition that has subtracted from an exhausted counter.
\* "granted" has a slot and no mapping yet; "unmapped" still has the slot.
Stages == {"closed", "opened", "failing", "granted", "mapped", "unmapped", "copied"}

TypeOK == available \in Int /\ pc \in [Reader -> Stages]

Init == available = Maximum /\ pc = [r \in Reader |-> "closed"]

Goto(r, stage) == pc' = [pc EXCEPT ![r] = stage]

\* The file is opened and its size is what the caller expects, or it cannot be
\* mapped at all.
Open(r) ==
    /\ pc[r] = "closed"
    /\ Goto(r, "opened") \/ Goto(r, "copied")
    /\ UNCHANGED available

\* FAULT: the last slot is given out twice.
FaultHasSlot(previous) == previous >= 0

HasSlot(previous) == previous > 0

\* Acquire: fetch_sub, and the old value decides.
Acquire(r) ==
    /\ pc[r] = "opened"
    /\ available' = available - 1
    /\ \/ HasSlot(available) /\ Goto(r, "granted")
       \/ ~HasSlot(available) /\ Goto(r, "failing")

\* A failed acquisition restores the counter; the file is read by copying.
Restore(r) ==
    /\ pc[r] = "failing"
    /\ available' = available + 1
    /\ Goto(r, "copied")

Map(r) ==
    /\ pc[r] = "granted"
    /\ Goto(r, "mapped")
    /\ UNCHANGED available

\* mmap fails: ~PosixMappedRegion releases the slot.
MapFails(r) ==
    /\ pc[r] = "granted"
    /\ available' = available + 1
    /\ Goto(r, "copied")

\* ~PosixMappedRegion unmaps first and releases the slot afterwards.
Unmap(r) ==
    /\ pc[r] = "mapped"
    /\ Goto(r, "unmapped")
    /\ UNCHANGED available

Release(r) ==
    /\ pc[r] = "unmapped"
    /\ available' = available + 1
    /\ Goto(r, "closed")

\* The file that is read by copying closes its descriptor.
Close(r) ==
    /\ pc[r] = "copied"
    /\ Goto(r, "closed")
    /\ UNCHANGED available

Next ==
    \E r \in Reader :
       \/ Open(r) \/ Acquire(r) \/ Restore(r) \/ Map(r) \/ MapFails(r)
       \/ Unmap(r) \/ Release(r) \/ Close(r)

Spec == Init /\ [][Next]_vars

-----------------------------------------------------------------------------
(* Properties.                                                               *)

Slots == {r \in Reader : pc[r] \in {"granted", "mapped", "unmapped"}}
Failing == {r \in Reader : pc[r] = "failing"}

\* However acquisitions and releases interleave, the process never has more
\* mappings than the limiter was made for.
WithinLimit == Cardinality({r \in Reader : pc[r] = "mapped"}) <= Maximum

\* No slot is lost and none is made up: once the acquisitions that failed have
\* restored the counter, it is the number of free slots.
SlotsCounted == available = Maximum - Cardinality(Slots) - Cardinality(Failing)

\* The limiter keeps its limit and its count, whoever opens, fails to map and closes
\* files at the same time (MappedReadLimiter::Acquire, Release).
LimiterSafe == WithinLimit /\ SlotsCounted

\* The limit holds for the slots, which include the mappings.
IInv == TypeOK /\ SlotsCounted /\ Cardinality(Slots) <= Maximum
=============================================================================
