------------------------------ MODULE Iterators ------------------------------
(***************************************************************************)
(* The iterators over a database: a LevelIterator for each source, the       *)
(* MergingIterator over them, and the DbIterator that shows a user the keys  *)
(* which a sequence sees.  The mutable memtable grows meanwhile, and reading *)
(* a table may fail at any move.                                             *)
(*                                                                           *)
(* A source is a sequence of files, each a set of entries; a memtable or a   *)
(* level-0 table is one file.  An entry's value is its sequence.             *)
(***************************************************************************)
EXTENDS Naturals, Sequences, FiniteSets

CONSTANTS Keys,         \* the user keys are 1 .. Keys
          Entries,      \* the entries that are there when the iterator is made
          MaxWrites,    \* bound: entries written while it is used
          Written,      \* their kinds
          MaxFailures   \* bound: moves that fail

ASSUME IteratorAssumption ==
  /\ {Keys, Entries, MaxWrites, MaxFailures} \subseteq Nat
  /\ Written \subseteq {"Value", "Deletion"}

UserKey == 1 .. Keys
NoUserKey == 0
Kind == {"Value", "Deletion"}
Entry == [key : UserKey, seq : 1 .. Entries + MaxWrites, kind : Kind]
None == [key |-> 0, seq |-> 0, kind |-> "Deletion"]

\* The sources, in the order of the merging iterator's children.
Memory == 1
Table == 2
Level == 3
Child == {Memory, Table, Level}
NoChild == 0

VARIABLES content,     \* the files of each source
          sequence,    \* the sequence that the iterator sees
          cursors,     \* each child's file and entry; no entry when it is not valid
          current,     \* MergingIterator::current_
          mforward,    \* MergingIterator::forward_
          valid, forward, saved_key, saved_value,   \* of the DbIterator
          pc,          \* "idle", or the loop that the call is in
          skipping, kind,   \* locals of the loops
          want,        \* what the call must find: a user key, or none
          failures

mergeVars == <<cursors, current, mforward>>
userVars == <<valid, forward, saved_key, saved_value>>
callVars == <<pc, skipping, kind, want>>
vars == <<content, sequence, mergeVars, userVars, callVars, failures>>

\* InternalKeyComparator: by user key, and the newer entry first.
Before(a, b) == a.key < b.key \/ (a.key = b.key /\ a.seq > b.seq)
Least(S) == IF S = {} THEN None ELSE CHOOSE e \in S : \A f \in S \ {e} : Before(e, f)
Greatest(S) == IF S = {} THEN None ELSE CHOOSE e \in S : \A f \in S \ {e} : Before(f, e)

-----------------------------------------------------------------------------
(* LevelIterator, and with one file the memtable's and the table's iterator. *)

Closed == [file |-> 0, at |-> None]
EnterFirst(files, i) == [file |-> i, at |-> Least(files[i])]
EnterLast(files, i) == [file |-> i, at |-> Greatest(files[i])]

LevelSeekToFirst(files) == IF files = << >> THEN Closed ELSE EnterFirst(files, 1)
LevelSeekToLast(files) == IF files = << >> THEN Closed ELSE EnterLast(files, Len(files))

\* The first file whose largest key is not before the target.
LevelSeek(files, target) ==
    LET reach == {i \in DOMAIN files : \E e \in files[i] : ~Before(e, target)}
    IN IF reach = {} THEN Closed
       ELSE LET i == CHOOSE i \in reach : \A j \in reach : i <= j
            IN [file |-> i, at |-> Least({e \in files[i] : ~Before(e, target)})]

LevelNext(files, cursor) ==
    LET later == {e \in files[cursor.file] : Before(cursor.at, e)}
    IN IF later # {} THEN [cursor EXCEPT !.at = Least(later)]
       ELSE IF cursor.file = Len(files) THEN Closed
       ELSE EnterFirst(files, cursor.file + 1)

LevelPrev(files, cursor) ==
    LET earlier == {e \in files[cursor.file] : Before(e, cursor.at)}
    IN IF earlier # {} THEN [cursor EXCEPT !.at = Greatest(earlier)]
       ELSE IF cursor.file = 1 THEN Closed
       ELSE EnterLast(files, cursor.file - 1)

-----------------------------------------------------------------------------
(* MergingIterator.  A move has the child that fails, or none: the children  *)
(* before it have moved by then.  A failed move leaves no selection.         *)

Valid(children) == {c \in Child : children[c].at # None}

FindSmallest(children) ==
    IF Valid(children) = {} THEN NoChild
    ELSE CHOOSE c \in Valid(children) :
           \A d \in Valid(children) \ {c} : Before(children[c].at, children[d].at)

FindLargest(children) ==
    IF Valid(children) = {} THEN NoChild
    ELSE CHOOSE c \in Valid(children) :
           \A d \in Valid(children) \ {c} : Before(children[d].at, children[c].at)

InternalValid == current # NoChild
InternalKey == cursors[current].at

\* What the children are after a move that a child may have cut short.
Moves(moved, toForward, bad) ==
    IF bad = NoChild
    THEN /\ cursors' = moved
         /\ mforward' = toForward
         /\ current' = IF toForward THEN FindSmallest(moved) ELSE FindLargest(moved)
    ELSE /\ cursors' = [c \in Child |-> IF c < bad THEN moved[c]
                                        ELSE IF c = bad THEN Closed ELSE cursors[c]]
         /\ current' = NoChild
         /\ UNCHANGED mforward

MergingSeekToFirst(bad) == Moves([c \in Child |-> LevelSeekToFirst(content[c])], TRUE, bad)
MergingSeekToLast(bad) == Moves([c \in Child |-> LevelSeekToLast(content[c])], FALSE, bad)
MergingSeek(target, bad) == Moves([c \in Child |-> LevelSeek(content[c], target)], TRUE, bad)

PositionAfterCurrent(c, key) ==
    LET sought == LevelSeek(content[c], key)
    IN IF sought.at = key THEN LevelNext(content[c], sought) ELSE sought

\* The child is moved twice, and the memtable may have grown in between.
PositionBeforeCurrent(c, key, grown) ==
    LET sought == LevelSeek(content[c], key)
    IN IF sought.at # None THEN LevelPrev(grown[c], sought) ELSE LevelSeekToLast(grown[c])

MergingNext(bad) ==
    Moves([c \in Child |->
             IF c = current THEN LevelNext(content[c], cursors[c])
             ELSE IF mforward THEN cursors[c] ELSE PositionAfterCurrent(c, InternalKey)],
          TRUE, bad)

MergingPrev(bad, grown) ==
    Moves([c \in Child |->
             IF c = current THEN LevelPrev(grown[c], cursors[c])
             ELSE IF mforward THEN PositionBeforeCurrent(c, InternalKey, grown) ELSE cursors[c]],
          FALSE, bad)

-----------------------------------------------------------------------------
(* What the sequence sees.                                                   *)

AllEntries == UNION {UNION {content[c][i] : i \in DOMAIN content[c]} : c \in Child}
Seen(k) == {e \in AllEntries : e.key = k /\ e.seq <= sequence}
Newest(k) == CHOOSE e \in Seen(k) : \A f \in Seen(k) : f.seq <= e.seq
Shown == {k \in UserKey : Seen(k) # {} /\ Newest(k).kind = "Value"}
LowestKey(S) == IF S = {} THEN NoUserKey ELSE CHOOSE k \in S : \A j \in S : k <= j
HighestKey(S) == IF S = {} THEN NoUserKey ELSE CHOOSE k \in S : \A j \in S : j <= k

\* DbIterator::key() and value().
CurrentKey == IF forward THEN InternalKey.key ELSE saved_key
CurrentValue == IF forward THEN InternalKey.seq ELSE saved_value

-----------------------------------------------------------------------------
(* DbIterator.                                                               *)

\* The sources of a database: of a key, the newer entries are in the earlier source.
Sources ==
    {place \in [1 .. Entries -> [key : UserKey, kind : Kind, child : Child]] :
       \A i, j \in 1 .. Entries :
          i < j /\ place[i].key = place[j].key => place[j].child <= place[i].child}

Placed(place, c) == {[key |-> place[s].key, seq |-> s, kind |-> place[s].kind] :
                       s \in {s \in 1 .. Entries : place[s].child = c}}

\* The files of the level: one for each user key that has entries, in order.
Split(entries) ==
    LET keys == {e.key : e \in entries}
        nth(i) == CHOOSE k \in keys : Cardinality({j \in keys : j < k}) = i - 1
    IN [i \in 1 .. Cardinality(keys) |-> {e \in entries : e.key = nth(i)}]

Init ==
    /\ \E place \in Sources :
         content = [c \in Child |-> IF c = Level THEN Split(Placed(place, c)) ELSE <<Placed(place, c)>>]
    /\ sequence \in 0 .. Entries
    /\ cursors = [c \in Child |-> Closed] /\ current = NoChild /\ mforward = TRUE
    /\ valid = FALSE /\ forward = TRUE
    /\ saved_key = NoUserKey /\ saved_value = 0
    /\ pc = "idle" /\ skipping = FALSE /\ kind = "Deletion"
    /\ want = NoUserKey
    /\ failures = 0

\* A writer inserts into the memtable; its sequence is above the iterator's.
NextSequence == Cardinality(AllEntries) + 1
Grown(k, kd) == [content EXCEPT ![Memory] =
                   <<@[1] \union {[key |-> k, seq |-> NextSequence, kind |-> kd]}>>]
Write(k, kd) == /\ NextSequence <= Entries + MaxWrites
                /\ content' = Grown(k, kd)
                /\ UNCHANGED <<sequence, mergeVars, userVars, callVars, failures>>

\* The child that fails in a move; memtables do not.
Failing == {NoChild} \union (IF failures < MaxFailures THEN {Table, Level} ELSE {})

\* DbIterator::Fail: the call is over, and nothing is shown.
Fail == /\ valid' = FALSE /\ forward' = TRUE /\ saved_key' = NoUserKey /\ saved_value' = 0
        /\ pc' = "idle" /\ want' = NoUserKey
        /\ UNCHANGED <<skipping, kind>>

\* The rest of a step, after a move in which the child `bad' failed.
AfterMove(bad, rest) ==
    IF bad = NoChild THEN rest /\ UNCHANGED failures
    ELSE Fail /\ failures' = failures + 1

Loops(loop) == pc' = loop
Wants(k) == want' = k

SeekToFirst(bad) ==
    /\ pc = "idle"
    /\ MergingSeekToFirst(bad)
    /\ AfterMove(bad, /\ valid' = FALSE /\ forward' = TRUE /\ saved_value' = 0
                      /\ Loops("next") /\ skipping' = FALSE
                      /\ Wants(LowestKey(Shown))
                      /\ UNCHANGED <<saved_key, kind>>)
    /\ UNCHANGED <<content, sequence>>

SeekToLast(bad) ==
    /\ pc = "idle"
    /\ MergingSeekToLast(bad)
    /\ AfterMove(bad, /\ valid' = FALSE /\ forward' = FALSE /\ saved_value' = 0
                      /\ Loops("prev") /\ kind' = "Deletion"
                      /\ Wants(HighestKey(Shown))
                      /\ UNCHANGED <<saved_key, skipping>>)
    /\ UNCHANGED <<content, sequence>>

\* The newest entry of the user key that the sequence sees sorts first.
SeekTarget(k) == [key |-> k, seq |-> sequence, kind |-> "Value"]

Seek(k, bad) ==
    /\ pc = "idle"
    /\ MergingSeek(SeekTarget(k), bad)
    /\ AfterMove(bad, /\ valid' = FALSE /\ forward' = TRUE /\ saved_key' = k /\ saved_value' = 0
                      /\ Loops("next") /\ skipping' = FALSE
                      /\ Wants(LowestKey({j \in Shown : j >= k}))
                      /\ UNCHANGED kind)
    /\ UNCHANGED <<content, sequence>>

\* Next, with AdvanceForNext: going back, the internal iterator is before the
\* entries of the saved key.
Next_(bad) ==
    /\ pc = "idle" /\ valid
    /\ IF forward \/ InternalValid THEN MergingNext(bad) ELSE MergingSeekToFirst(bad)
    /\ AfterMove(bad, /\ valid' = FALSE /\ forward' = TRUE
                      /\ saved_key' = CurrentKey
                      /\ Loops("next") /\ skipping' = TRUE
                      /\ Wants(LowestKey({j \in Shown : j > CurrentKey}))
                      /\ UNCHANGED <<saved_value, kind>>)
    /\ UNCHANGED <<content, sequence>>

\* Prev: going forward, the entries of the current user key are passed first.
Prev ==
    /\ pc = "idle" /\ valid
    /\ valid' = FALSE
    /\ saved_key' = CurrentKey
    /\ Loops(IF forward THEN "before" ELSE "prev") /\ kind' = "Deletion"
    /\ Wants(HighestKey({j \in Shown : j < CurrentKey}))
    /\ UNCHANGED <<content, sequence, mergeVars, forward, saved_value, skipping, failures>>

\* One turn of PositionBeforeCurrentUser's loop.
PositionBeforeCurrentUser(bad, grown) ==
    /\ pc = "before"
    /\ content' = grown
    /\ MergingPrev(bad, grown)
    /\ AfterMove(bad,
         IF current' = NoChild
         THEN /\ valid' = FALSE /\ saved_key' = NoUserKey /\ saved_value' = 0
              /\ Loops("idle")
              /\ UNCHANGED <<forward, skipping, kind, want>>
         ELSE /\ IF cursors'[current'].at.key < saved_key
                 THEN forward' = FALSE /\ Loops("prev")
                 ELSE UNCHANGED <<forward, pc>>
              /\ UNCHANGED <<valid, saved_key, saved_value, skipping, kind, want>>)
    /\ UNCHANGED sequence

\* FAULT: what a deletion hides is shown.
FaultHidesNothing(entry) == FALSE

\* ConsiderNextEntry: whether the entry is shown, and which key is skipped then.
Shows(entry) == entry.seq <= sequence /\ entry.kind = "Value" /\ (~skipping \/ entry.key > saved_key)
Hides(entry) == entry.seq <= sequence /\ entry.kind = "Deletion"

\* The end of FindNextUserEntry: an entry is shown, or there are none left.
FindNextEnds ==
    /\ pc = "next"
    /\ InternalValid => Shows(InternalKey)
    /\ valid' = InternalValid /\ saved_key' = NoUserKey
    /\ Loops("idle")
    /\ UNCHANGED <<content, sequence, mergeVars, forward, saved_value, skipping, kind, want, failures>>

\* One turn of its loop.
FindNextUserEntry(bad) ==
    /\ pc = "next"
    /\ InternalValid /\ ~Shows(InternalKey)
    /\ MergingNext(bad)
    /\ AfterMove(bad, /\ IF Hides(InternalKey)
                         THEN saved_key' = InternalKey.key /\ skipping' = TRUE
                         ELSE UNCHANGED <<saved_key, skipping>>
                      /\ UNCHANGED <<valid, forward, saved_value, pc, kind, want>>)
    /\ UNCHANGED <<content, sequence>>

\* ConsiderPreviousEntry: an earlier key ends the walk once there is one to show.
Passed(entry) == entry.seq <= sequence /\ kind # "Deletion" /\ entry.key < saved_key

\* The end of FindPrevUserEntry, with FinishReverseScan.
FindPrevEnds ==
    /\ pc = "prev"
    /\ InternalValid => Passed(InternalKey)
    /\ IF kind = "Deletion"
       THEN valid' = FALSE /\ forward' = TRUE /\ saved_key' = NoUserKey /\ saved_value' = 0
       ELSE valid' = TRUE /\ UNCHANGED <<forward, saved_key, saved_value>>
    /\ Loops("idle")
    /\ UNCHANGED <<content, sequence, mergeVars, skipping, kind, want, failures>>

\* FAULT: an entry that the sequence does not see is not passed.
FaultWaitsAtUnseen(bad, grown) ==
    /\ pc = "prev"
    /\ InternalValid /\ ~Passed(InternalKey) /\ InternalKey.seq <= sequence
    /\ content' = grown
    /\ MergingPrev(bad, grown)
    /\ AfterMove(bad,
         /\ kind' = InternalKey.kind
         /\ saved_key' = IF InternalKey.kind = "Deletion" THEN NoUserKey ELSE InternalKey.key
         /\ saved_value' = IF InternalKey.kind = "Deletion" THEN 0 ELSE InternalKey.seq
         /\ UNCHANGED <<valid, forward, pc, skipping, want>>)
    /\ UNCHANGED sequence

\* One turn of its loop: the newest entry that is seen of each key is kept.
FindPrevUserEntry(bad, grown) ==
    /\ pc = "prev"
    /\ InternalValid /\ ~Passed(InternalKey)
    /\ content' = grown
    /\ MergingPrev(bad, grown)
    /\ AfterMove(bad,
         /\ IF InternalKey.seq > sequence THEN UNCHANGED <<kind, saved_key, saved_value>>
            ELSE /\ kind' = InternalKey.kind
                 /\ saved_key' = IF InternalKey.kind = "Deletion" THEN NoUserKey ELSE InternalKey.key
                 /\ saved_value' = IF InternalKey.kind = "Deletion" THEN 0 ELSE InternalKey.seq
         /\ UNCHANGED <<valid, forward, pc, skipping, want>>)
    /\ UNCHANGED sequence

-----------------------------------------------------------------------------
\* What the memtable may be between the two moves of a child.
Growths == {content} \union
           (IF NextSequence <= Entries + MaxWrites
            THEN {Grown(k, kd) : k \in UserKey, kd \in Written} ELSE {})

Walk == \E bad \in Failing :
          \/ FindNextUserEntry(bad)
          \/ /\ pc \in {"before", "prev"}
             /\ \E grown \in Growths : PositionBeforeCurrentUser(bad, grown) \/ FindPrevUserEntry(bad, grown)
Ends == FindNextEnds \/ FindPrevEnds

Next == \/ \E bad \in Failing :
             \/ SeekToFirst(bad) \/ SeekToLast(bad) \/ Next_(bad)
             \/ \E k \in UserKey : Seek(k, bad)
        \/ Prev
        \/ Walk \/ Ends
        \/ \E k \in UserKey, kd \in Written : Write(k, kd)

\* A call that has begun goes on.
Spec == Init /\ [][Next]_vars /\ WF_vars(Walk \/ Ends)

-----------------------------------------------------------------------------
(* Properties.                                                               *)

\* A call that has not failed ends exactly where it must among the keys that the
\* sequence shows, with the newest value it sees, whatever calls came before, in
\* whichever direction, and whatever was written meanwhile.
CursorExact ==
    pc = "idle" =>
      /\ valid <=> want # NoUserKey
      /\ valid => CurrentKey = want /\ CurrentValue = Newest(want).seq

OldEntries(c) == {e \in UNION {content[c][i] : i \in DOMAIN content[c]} : e.seq <= Entries}

\* No child is ahead of the merge: going forward, what a source has behind the current
\* entry is still to come, and going backward what it has before it.  Entries written
\* since the iterator was made may be missed, or met out of order: one that gets in
\* between the two moves of a turn is met although it is behind the current entry.
NoChildAhead ==
    InternalValid /\ InternalKey.seq <= Entries => \A c \in Child : \A e \in OldEntries(c) :
      LET at == cursors[c].at
      IN IF mforward THEN Before(InternalKey, e) => at # None /\ ~Before(e, at)
         ELSE Before(e, InternalKey) => at # None /\ ~Before(at, e)

\* Every call returns: entries that are not shown are passed in both directions.
CallsEnd == pc # "idle" ~> pc = "idle"
=============================================================================
