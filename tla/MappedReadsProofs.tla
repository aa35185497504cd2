------------------------- MODULE MappedReadsProofs -------------------------
(* The limiter of mapped files is exact for any number of files and slots:   *)
(* proofs of the properties of MappedReads.                                  *)
EXTENDS MappedReads, FiniteSetTheorems, TLAPS

\* The sets of files that have subtracted from the counter are finite.
LEMMA CountsAreNumbers ==
  /\ IsFiniteSet(Slots) /\ Cardinality(Slots) \in Nat
  /\ IsFiniteSet(Failing) /\ Cardinality(Failing) \in Nat
<1>1. Slots \subseteq Reader /\ Failing \subseteq Reader
  BY DEF Slots, Failing
<1> QED
  BY <1>1, MappedReadsAssumption, FS_Subset, FS_CardinalityType

\* A file that joins a finite set adds one to its size.
LEMMA Joins ==
  ASSUME NEW S, NEW T, NEW r, IsFiniteSet(S), r \notin S, T = S \cup {r}
  PROVE  Cardinality(T) = Cardinality(S) + 1
  BY FS_AddElement

\* A file that leaves a finite set takes one from its size.
LEMMA Leaves ==
  ASSUME NEW S, NEW T, NEW r, IsFiniteSet(S), r \in S, T = S \ {r}
  PROVE  Cardinality(T) = Cardinality(S) - 1
  BY FS_RemoveElement

\* No file has a slot in the beginning.
LEMMA InitHolds == Init => IInv
<1> SUFFICES ASSUME Init PROVE IInv
  OBVIOUS
<1>1. Slots = {} /\ Failing = {}
  BY DEF Init, Slots, Failing
<1> QED
  BY <1>1, FS_EmptySet, MappedReadsAssumption DEF Init, IInv, TypeOK, Stages, SlotsCounted

\* Every step of every file keeps the counter exact and the slots within limit.
LEMMA StepKeeps == IInv /\ [Next]_vars => IInv'
<1> SUFFICES ASSUME IInv, [Next]_vars PROVE IInv'
  OBVIOUS
<1> USE MappedReadsAssumption DEF IInv, TypeOK, SlotsCounted, Stages, Goto
<1>1. ASSUME NEW r \in Reader, Open(r) \/ Map(r) \/ Unmap(r) \/ Close(r) PROVE IInv'
  <2>1. Slots' = Slots /\ Failing' = Failing
    BY <1>1 DEF Open, Map, Unmap, Close, Slots, Failing
  <2>2. TypeOK'
    BY <1>1 DEF Open, Map, Unmap, Close
  <2>3. available' = available
    BY <1>1 DEF Open, Map, Unmap, Close
  <2> QED
    BY <2>1, <2>2, <2>3
<1>2. ASSUME NEW r \in Reader, Acquire(r), available > 0, Goto(r, "granted") PROVE IInv'
  <2>1. r \notin Slots /\ Slots' = Slots \cup {r} /\ Failing' = Failing
    BY <1>2 DEF Acquire, Slots, Failing
  <2>2. Cardinality(Slots') = Cardinality(Slots) + 1
    BY <2>1, CountsAreNumbers, Joins
  <2>3. TypeOK' /\ available' = available - 1
    BY <1>2 DEF Acquire
  <2> QED
    BY <1>2, <2>1, <2>2, <2>3, CountsAreNumbers
<1>3. ASSUME NEW r \in Reader, Acquire(r), Goto(r, "failing") PROVE IInv'
  <2>1. r \notin Failing /\ Failing' = Failing \cup {r} /\ Slots' = Slots
    BY <1>3 DEF Acquire, Slots, Failing
  <2>2. Cardinality(Failing') = Cardinality(Failing) + 1
    BY <2>1, CountsAreNumbers, Joins
  <2>3. TypeOK' /\ available' = available - 1
    BY <1>3 DEF Acquire
  <2> QED
    BY <2>1, <2>2, <2>3, CountsAreNumbers
<1>4. ASSUME NEW r \in Reader, Restore(r) PROVE IInv'
  <2>1. r \in Failing /\ Failing' = Failing \ {r} /\ Slots' = Slots
    BY <1>4 DEF Restore, Slots, Failing
  <2>2. Cardinality(Failing') = Cardinality(Failing) - 1
    BY <2>1, CountsAreNumbers, Leaves
  <2>3. TypeOK' /\ available' = available + 1
    BY <1>4 DEF Restore
  <2> QED
    BY <2>1, <2>2, <2>3, CountsAreNumbers
<1>5. ASSUME NEW r \in Reader, MapFails(r) \/ Release(r) PROVE IInv'
  <2>1. r \in Slots /\ Slots' = Slots \ {r} /\ Failing' = Failing
    BY <1>5 DEF MapFails, Release, Slots, Failing
  <2>2. Cardinality(Slots') = Cardinality(Slots) - 1
    BY <2>1, CountsAreNumbers, Leaves
  <2>3. TypeOK' /\ available' = available + 1
    BY <1>5 DEF MapFails, Release
  <2> QED
    BY <2>1, <2>2, <2>3, CountsAreNumbers
<1>6. CASE UNCHANGED vars
  BY <1>6 DEF vars, Slots, Failing
<1> QED
  BY <1>1, <1>2, <1>3, <1>4, <1>5, <1>6 DEF Next, Acquire, HasSlot

\* The inductive invariant holds in every reachable state.
THEOREM LimiterInvariant == Spec => []IInv
  BY InitHolds, StepKeeps, PTL DEF Spec

\* The limiter's counter is exact (MappedReadLimiter).
THEOREM LimiterExact == Spec => []SlotsCounted
<1>1. IInv => SlotsCounted
  BY DEF IInv
<1> QED
  BY <1>1, LimiterInvariant, PTL

\* There are never more mappings than Maximum.
THEOREM LimitKept == Spec => []WithinLimit
<1>1. IInv => WithinLimit
  <2> DEFINE Mapped == {r \in Reader : pc[r] = "mapped"}
  <2>1. Mapped \subseteq Slots
    BY DEF Slots
  <2>2. Cardinality(Mapped) <= Cardinality(Slots) /\ Cardinality(Mapped) \in Nat
    BY <2>1, CountsAreNumbers, FS_Subset, FS_CardinalityType
  <2> QED
    BY <2>2, CountsAreNumbers, MappedReadsAssumption DEF IInv, WithinLimit
<1> QED
  BY <1>1, LimiterInvariant, PTL

\* Any number of threads may open, fail to map and close files at the same time: the limit
\* is kept and no slot is lost (MappedReadLimiter::Acquire, Release).
THEOREM LimiterSound == Spec => []LimiterSafe
<1>1. SlotsCounted /\ WithinLimit => LimiterSafe
  BY DEF LimiterSafe
<1> QED
  BY <1>1, LimiterExact, LimitKept, PTL
=============================================================================
