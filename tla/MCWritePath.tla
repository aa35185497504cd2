---------------------------- MODULE MCWritePath ----------------------------
(* Instances of WritePath for TLC.                                          *)
EXTENDS WritePath, TLC

\* One entry or two, with or without a sync.
SomeBatches == {[count |-> 1, size |-> 2, sync |-> TRUE],
                [count |-> 1, size |-> 2, sync |-> FALSE],
                [count |-> 2, size |-> 3, sync |-> FALSE]}
OneBatch == {[count |-> 1, size |-> 2, sync |-> FALSE]}

AllFaults == FaultKinds
SomeFaults == {"close", "append", "manifest", "schedule"}

WriterSymmetry == Permutations(Writer)
=============================================================================
