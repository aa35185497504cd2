---------------------------- MODULE MCClockCache ----------------------------
EXTENDS ClockCache

CONSTANTS t1, t2, k1, k2

Collide == [k \in Key |-> 0]
=============================================================================
