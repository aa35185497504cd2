------------------------------ MODULE Handles ------------------------------
(***************************************************************************)
(* The handles of the public interface (src/api): databases, snapshots and *)
(* iterators share the state of an open database, which closes its engine  *)
(* when the last of them is gone, in whichever order they go and whichever *)
(* thread drops the last.  Snapshots register their sequence with the      *)
(* engine; an iterator that was made at a snapshot keeps the registration. *)
(*                                                                         *)
(* A slot is a variable of the callers, which holds a handle of some kind  *)
(* or none (one that was moved from holds none).  Dropping a handle runs   *)
(* destructors, whose steps are interleaved with the calls and the         *)
(* destructors of other threads.  A call on a handle is one step.          *)
(***************************************************************************)
EXTENDS Integers, Sequences, SequencesExt

CONSTANTS
    Thread,
    Slot,             \* the variables of the callers
    Engine,           \* the databases that are opened
    MaxSequence,      \* bound: the writes of each
    MaxRegistrations  \* bound: snapshots that are taken

None == 0
Registration == 1 .. MaxRegistrations

VARIABLES
    slot,         \* the handle in each slot
    status,       \* of each engine: "unopened", "open" or "closed"
    last,         \* its last sequence
    registry,     \* its registrations, from the oldest to the newest
    reg,          \* the state and the sequence of each registration
    refs,         \* the references to each state
    regRefs,      \* the references to each registration
    taken,        \* the snapshots taken so far
    todo          \* the destructor steps that each thread has before it

vars == <<slot, status, last, registry, reg, refs, regRefs, taken, todo>>

Empty == [kind |-> "none", engine |-> None, reg |-> None]
Database(e) == [kind |-> "database", engine |-> e, reg |-> None]
Snapshot(r) == [kind |-> "snapshot", engine |-> None, reg |-> r]
Iterator(e, r) == [kind |-> "iterator", engine |-> e, reg |-> r]

Init ==
    /\ slot = [x \in Slot |-> Empty]
    /\ status = [e \in Engine |-> "unopened"]
    /\ last = [e \in Engine |-> 0]
    /\ registry = [e \in Engine |-> <<>>]
    /\ reg = [r \in Registration |-> [engine |-> None, sequence |-> 0]]
    /\ refs = [e \in Engine |-> 0]
    /\ regRefs = [r \in Registration |-> 0]
    /\ taken = 0
    /\ todo = [t \in Thread |-> <<>>]

Idle(t) == todo[t] = <<>>
Does(t, steps) == todo' = [todo EXCEPT ![t] = steps \o @]

-----------------------------------------------------------------------------
(* What goes when a reference goes.  Members are destroyed in the reverse    *)
(* of their order of declaration.                                            *)

Step(op, of) == [op |-> op, of |-> of]

DropState(e) == IF e = None THEN <<>> ELSE <<Step("state", e)>>
DropRegistration(r) == IF r = None THEN <<>> ELSE <<Step("registration", r)>>

\* FAULT: the state is declared last, and goes first.
FaultDropIterator(h) == <<Step("state", h.engine), Step("iterator", h.engine)>> \o DropRegistration(h.reg)

\* Iterator::Impl: the iterator, the snapshot, the state.
DropIterator(h) == <<Step("iterator", h.engine)>> \o DropRegistration(h.reg) \o DropState(h.engine)

Drop(h) == IF h.kind = "iterator" THEN DropIterator(h)
           ELSE DropState(h.engine) \o DropRegistration(h.reg)

\* The destructor of SnapshotRegistration releases, then drops its state.
DestroyRegistration(r) == <<Step("release", r), Step("state", reg[r].engine)>>

DropsState(t) ==
    LET e == Head(todo[t]).of
    IN  /\ Head(todo[t]).op = "state"
        /\ refs' = [refs EXCEPT ![e] = @ - 1]
        /\ todo' = [todo EXCEPT ![t] = (IF refs[e] = 1 THEN <<Step("close", e)>> ELSE <<>>) \o Tail(@)]
        /\ UNCHANGED <<status, registry, regRefs>>

DropsRegistration(t) ==
    LET r == Head(todo[t]).of
    IN  /\ Head(todo[t]).op = "registration"
        /\ regRefs' = [regRefs EXCEPT ![r] = @ - 1]
        /\ todo' = [todo EXCEPT ![t] =
                       (IF regRefs[r] = 1 THEN DestroyRegistration(r) ELSE <<>>) \o Tail(@)]
        /\ UNCHANGED <<status, registry, refs>>

\* SnapshotRegistry::Release: the registration is unlinked wherever it stands.
Releases(t) ==
    LET r == Head(todo[t]).of
    IN  /\ Head(todo[t]).op = "release"
        /\ registry' = [registry EXCEPT ![reg[r].engine] = SelectSeq(@, LAMBDA x : x # r)]
        /\ todo' = [todo EXCEPT ![t] = Tail(@)]
        /\ UNCHANGED <<status, refs, regRefs>>

\* A batch of reads has answered; what it held goes next.
EndsBatch(t) ==
    /\ Head(todo[t]).op = "batch"
    /\ todo' = [todo EXCEPT ![t] = Tail(@)]
    /\ UNCHANGED <<status, registry, refs, regRefs>>

\* The private iterator gives up its memtables, its version and its blocks.
DestroysIterator(t) ==
    /\ Head(todo[t]).op = "iterator"
    /\ todo' = [todo EXCEPT ![t] = Tail(@)]
    /\ UNCHANGED <<status, registry, refs, regRefs>>

Closes(t) ==
    /\ Head(todo[t]).op = "close"
    /\ status' = [status EXCEPT ![Head(todo[t]).of] = "closed"]
    /\ todo' = [todo EXCEPT ![t] = Tail(@)]
    /\ UNCHANGED <<registry, refs, regRefs>>

Destructor(t) ==
    /\ ~Idle(t)
    /\ DropsState(t) \/ DropsRegistration(t) \/ Releases(t) \/ Closes(t)
       \/ DestroysIterator(t) \/ EndsBatch(t)
    /\ UNCHANGED <<slot, last, reg, taken>>

-----------------------------------------------------------------------------
(* The calls.  A call on a handle that was moved from is refused and changes *)
(* nothing.                                                                  *)

IsDatabase(x) == slot[x].kind = "database"
IsSnapshot(x) == slot[x].kind = "snapshot"

\* A slot takes handles of one kind; assigning to it drops the one it had.
Takes(x, h) == slot[x].kind \in {"none", h.kind}
Assign(t, x, h) ==
    /\ Takes(x, h)
    /\ slot' = [slot EXCEPT ![x] = h]
    /\ Does(t, Drop(slot[x]))

Open(t, x, e) ==
    /\ Idle(t)
    /\ status[e] = "unopened"
    /\ status' = [status EXCEPT ![e] = "open"]
    /\ refs' = [refs EXCEPT ![e] = 1]
    /\ Assign(t, x, Database(e))
    /\ UNCHANGED <<last, registry, reg, regRefs, taken>>

Write(t, d) ==
    /\ Idle(t)
    /\ IsDatabase(d)
    /\ last[slot[d].engine] < MaxSequence
    /\ last' = [last EXCEPT ![slot[d].engine] = @ + 1]
    /\ UNCHANGED <<slot, status, registry, reg, refs, regRefs, taken, todo>>

\* A move hands the references over, and drops what the target had.
Move(t, from, to) ==
    /\ Idle(t)
    /\ from # to
    /\ slot[from] # Empty
    /\ Takes(to, slot[from])
    /\ slot' = [slot EXCEPT ![to] = slot[from], ![from] = Empty]
    /\ Does(t, Drop(slot[to]))
    /\ UNCHANGED <<status, last, registry, reg, refs, regRefs, taken>>

Destroy(t, x) ==
    /\ Idle(t)
    /\ slot[x] # Empty
    /\ slot' = [slot EXCEPT ![x] = Empty]
    /\ Does(t, Drop(slot[x]))
    /\ UNCHANGED <<status, last, registry, reg, refs, regRefs, taken>>

LinkNewest(list, r) == Append(list, r)

SnapshotRefs(e) == [refs EXCEPT ![e] = @ + 1]

GetSnapshot(t, x, d) ==
    LET e == slot[d].engine
        r == taken + 1
    IN  /\ Idle(t)
        /\ IsDatabase(d)
        /\ taken < MaxRegistrations
        /\ taken' = r
        /\ reg' = [reg EXCEPT ![r] = [engine |-> e, sequence |-> last[e]]]
        /\ registry' = [registry EXCEPT ![e] = LinkNewest(@, r)]
        /\ refs' = SnapshotRefs(e)
        /\ regRefs' = [regRefs EXCEPT ![r] = 1]
        /\ Assign(t, x, Snapshot(r))
        /\ UNCHANGED <<status, last>>

\* A read at a snapshot: one that was moved from, or that belongs to another
\* database, is refused.
PrepareReadOptions(e, r) == r # None /\ reg[r].engine = e

NewIterator(t, x, d) ==
    /\ Idle(t)
    /\ IsDatabase(d)
    /\ refs' = [refs EXCEPT ![slot[d].engine] = @ + 1]
    /\ Assign(t, x, Iterator(slot[d].engine, None))
    /\ UNCHANGED <<status, last, registry, reg, regRefs, taken>>

\* A read at a snapshot shares the registration for as long as it lasts.
ReadsAt(t, d, s) ==
    /\ Idle(t)
    /\ IsDatabase(d) /\ IsSnapshot(s)
    /\ PrepareReadOptions(slot[d].engine, slot[s].reg)
    /\ refs' = [refs EXCEPT ![slot[d].engine] = @ + 1]
    /\ regRefs' = [regRefs EXCEPT ![slot[s].reg] = @ + 1]
    /\ UNCHANGED <<status, last, registry, reg, taken>>

NewIteratorAt(t, x, d, s) ==
    /\ ReadsAt(t, d, s)
    /\ Assign(t, x, Iterator(slot[d].engine, slot[s].reg))

\* MultiGet holds its references until its readers are done: what the callers
\* do with the handles meanwhile does not matter.
MultiGet(t, d, s) ==
    /\ ReadsAt(t, d, s)
    /\ Does(t, <<Step("batch", slot[s].reg)>> \o DropRegistration(slot[s].reg)
                 \o DropState(slot[d].engine))
    /\ UNCHANGED slot

Next ==
    \E t \in Thread :
        \/ Destructor(t)
        \/ \E x \in Slot, e \in Engine : Open(t, x, e)
        \/ \E x \in Slot : Write(t, x) \/ Destroy(t, x)
        \/ \E x, d \in Slot : Move(t, d, x) \/ GetSnapshot(t, x, d) \/ NewIterator(t, x, d)
        \/ \E d, s \in Slot : MultiGet(t, d, s) \/ \E x \in Slot : NewIteratorAt(t, x, d, s)

Spec == Init /\ [][Next]_vars

-----------------------------------------------------------------------------
\* The engine that a handle needs.
EngineOf(h) == IF h.kind = "snapshot" THEN reg[h.reg].engine ELSE h.engine

\* Nobody ever uses an engine that is closed: neither a handle, nor the steps
\* by which an iterator and a registration give up what they hold of it; and
\* it is closed once.
OpenWhileUsed ==
    /\ \A x \in Slot : slot[x] # Empty => status[EngineOf(slot[x])] = "open"
    /\ \A t \in Thread : ~Idle(t) =>
          LET step == Head(todo[t])
          IN  /\ step.op \in {"iterator", "state", "close"} => status[step.of] = "open"
              /\ step.op \in {"release", "batch"} => status[reg[step.of].engine] = "open"

\* Once no thread is in a destructor, an engine without handles is closed, and
\* one that is closed has no registrations left.
ClosedWhenUnused ==
    (\A t \in Thread : Idle(t)) =>
        \A e \in Engine :
            /\ status[e] = "open" => \E x \in Slot : slot[x] # Empty /\ EngineOf(slot[x]) = e
            /\ status[e] = "closed" => registry[e] = <<>>

\* OldestOr: what a compaction may drop entries below.
Oldest(e) == IF registry[e] = <<>> THEN last[e] ELSE reg[registry[e][1]].sequence

Protected(r) == Oldest(reg[r].engine) <= reg[r].sequence

\* What a snapshot, or a read made at one, can see is never dropped: the registry
\* of its own engine counts from no later sequence, and it does so even when the
\* Snapshot itself is gone and an iterator or a batch is left.
SnapshotsProtect ==
    /\ \A x \in Slot : slot[x].reg # None =>
          Protected(slot[x].reg) /\ EngineOf(slot[x]) = reg[slot[x].reg].engine
    /\ \A t \in Thread : (~Idle(t) /\ Head(todo[t]).op = "batch") => Protected(Head(todo[t]).of)

\* Handles may be moved, dropped and outlived in any order.
HandlesSafe == OpenWhileUsed /\ ClosedWhenUnused /\ SnapshotsProtect
=============================================================================
