--------------------------- MODULE Linearizability ---------------------------
(***************************************************************************)
(* The checker by which the concurrent stress test decides whether a       *)
(* history of one key is that of a register (src/stress/linearizability):  *)
(* a depth-first search for an order of the operations that respects real  *)
(* time and that a register could have followed.  The recursive Search is  *)
(* unrolled: one step tries one operation at the present depth, or goes    *)
(* back one level.                                                         *)
(***************************************************************************)
EXTENDS Integers, Sequences, SequencesExt

CONSTANTS
    Value,       \* what is stored
    Operations   \* the length of a history

Absent == 0
Index == 1 .. Operations
Tick == 1 .. 2 * Operations

Kind ==
    {[kind |-> "Store", value |-> v] : v \in Value} \cup
    {[kind |-> "Delete", value |-> Absent]} \cup
    {[kind |-> "Read", value |-> v] : v \in Value \cup {Absent}}

VARIABLES
    initial,  \* the value before the history
    op,       \* the operations: what each did, and when it began and ended
    order,    \* the operations placed so far
    states,   \* the value of the register before each of them, and after the last
    index,    \* the operation that the present level tries next
    result    \* "searching", "found" or "none"

vars == <<initial, op, order, states, index, result>>

\* The histories that validation accepts: an operation ends after it began,
\* and no two events are at one tick.
Interval == {i \in [Index -> Tick \X Tick] :
                /\ \A k \in Index : i[k][1] < i[k][2]
                /\ \A k, l \in Index : k # l => {i[k][1], i[k][2]} \cap {i[l][1], i[l][2]} = {}}

ValidHistory(o, kinds, spans) ==
    o = [k \in Index |-> [kind |-> kinds[k].kind, value |-> kinds[k].value,
                          invoke |-> spans[k][1], complete |-> spans[k][2]]]

Init ==
    /\ initial \in Value \cup {Absent}
    /\ \E kinds \in [Index -> Kind], spans \in Interval : ValidHistory(op, kinds, spans)
    /\ order = <<>>
    /\ states = <<initial>>
    /\ index = 1
    /\ result = "searching"

-----------------------------------------------------------------------------
\* FAULT: an operation must come before all that end after it began.
FaultPredecessors(k) == {c \in Index : op[c].invoke < op[k].invoke}

Predecessors(k) == {c \in Index : op[c].complete < op[k].invoke}

Allowed(k, state) == op[k].kind = "Read" => op[k].value = state

Applied(k, state) == IF op[k].kind = "Read" THEN state ELSE op[k].value

Used == ToSet(order)

Complete ==
    /\ result = "searching"
    /\ Len(order) = Operations
    /\ result' = "found"
    /\ UNCHANGED <<initial, op, order, states, index>>

Candidate(k) ==
    /\ k \notin Used
    /\ Predecessors(k) \subseteq Used
    /\ Allowed(k, Last(states))

\* The operation is placed and the search goes one level deeper.
Place ==
    /\ result = "searching"
    /\ Len(order) < Operations
    /\ index <= Operations
    /\ Candidate(index)
    /\ order' = Append(order, index)
    /\ states' = Append(states, Applied(index, Last(states)))
    /\ index' = 1
    /\ UNCHANGED <<initial, op, result>>

Skip ==
    /\ result = "searching"
    /\ Len(order) < Operations
    /\ index <= Operations
    /\ ~Candidate(index)
    /\ index' = index + 1
    /\ UNCHANGED <<initial, op, order, states, result>>

\* No operation fits here: the last one placed is taken back, and the level
\* that placed it goes on with the operation after it.
Backtrack ==
    /\ result = "searching"
    /\ index > Operations
    /\ IF order = <<>>
       THEN result' = "none" /\ UNCHANGED <<order, states, index>>
       ELSE /\ index' = Last(order) + 1
            /\ order' = Front(order)
            /\ states' = Front(states)
            /\ UNCHANGED result
    /\ UNCHANGED <<initial, op>>

Next == Complete \/ Place \/ Skip \/ Backtrack

Spec == Init /\ [][Next]_vars /\ WF_vars(Next)

-----------------------------------------------------------------------------
\* The definition: some order of the operations respects real time, and every
\* read of it returns the last value stored, or the initial one.
LastWrite(p, n) ==
    LET writes == {m \in 1 .. n - 1 : op[p[m]].kind # "Read"}
    IN  IF writes = {} THEN initial ELSE op[p[CHOOSE m \in writes : \A l \in writes : l <= m]].value

IsLinearization(p) ==
    /\ \A m, n \in Index : m < n => ~(op[p[n]].complete < op[p[m]].invoke)
    /\ \A n \in Index : op[p[n]].kind = "Read" => op[p[n]].value = LastWrite(p, n)

Linearizable == \E p \in [Index -> Index] : IsInjective(p) /\ IsLinearization(p)

\* The search finds a history linearizable exactly when it is, its witness is
\* such an order, and the value it reports is the one that order ends with.
VerdictExact ==
    /\ result = "found" =>
          /\ IsInjective(order) /\ Len(order) = Operations
          /\ IsLinearization(order)
          /\ Last(states) = LastWrite(order, Operations + 1)
    /\ result = "none" => ~Linearizable
=============================================================================
