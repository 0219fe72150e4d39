--------------------------- MODULE OffsetTracker ---------------------------
(***************************************************************************)
(* The offset tracker of one partition (shared/messaging/OffsetTracker.h): *)
(* a deque of the records read and not yet covered by a commit, with the   *)
(* length of its finished prefix.  A tracker is a value; each operation of *)
(* the class is an operator from a tracker to a tracker, and its result    *)
(* code is an operator of its own.                                         *)
(*                                                                         *)
(* A std::optional is a set with at most one element: {} is nullopt.       *)
(***************************************************************************)
EXTENDS Integers, Sequences, FiniteSets, FiniteSetsExt

Offset == Nat

Entry == [offset : Offset, done : BOOLEAN]

Optional(S) == {s \in SUBSET S : \A x, y \in s : x = y}

Tracker == [entries        : Seq(Entry),
            prefixDone     : Nat,
            inFlight       : Nat,
            lastRegistered : Optional(Offset),
            committed      : Optional(Offset)]

NewTracker == [entries        |-> <<>>,
               prefixDone     |-> 0,
               inFlight       |-> 0,
               lastRegistered |-> {},
               committed      |-> {}]

Ok == "ok"
OutOfOrderRegistration == "OutOfOrderRegistration"
UnknownOffset == "UnknownOffset"
CommitBeyondWatermark == "CommitBeyondWatermark"

-----------------------------------------------------------------------------
(* Plausible slips in the code below, used only to show that the           *)
(* properties notice them.                                                 *)

AdvancePrefixByOne(entries, prefixDone) == prefixDone + 1
AdvancePrefixOvershoots(entries, prefixDone) == Len(entries)
ConfirmKeepsPrefix(t, position) ==
    LET n == Cardinality({i \in 1..Len(t.entries) : t.entries[i].offset < position})
    IN  [t EXCEPT !.entries = SubSeq(@, n + 1, Len(@)), !.committed = {position}]
ConfirmAnyPosition(t, position) == Ok
CandidateOfFirstDone(t) ==
    LET done == {i \in 1..Len(t.entries) : t.entries[i].done}
    IN  IF done = {} THEN {} ELSE {t.entries[Min(done)].offset + 1}
CompleteTwice(t, offset) ==
    [t EXCEPT !.entries = [i \in 1..Len(@) |->
                              IF @[i].offset = offset THEN [@[i] EXCEPT !.done = TRUE]
                                                      ELSE @[i]],
              !.inFlight = @ - 1]

-----------------------------------------------------------------------------
(* registerRecord *)

RegisterResult(t, offset) ==
    IF \E last \in t.lastRegistered : offset <= last
    THEN OutOfOrderRegistration ELSE Ok

Register(t, offset) ==
    [t EXCEPT !.entries        = Append(@, [offset |-> offset, done |-> FALSE]),
              !.lastRegistered = {offset},
              !.inFlight       = @ + 1]

RegisterRecord(t, offset) ==
    IF RegisterResult(t, offset) = Ok THEN Register(t, offset) ELSE t

-----------------------------------------------------------------------------
(* complete *)

(* Where a loop "while n < Len(s) /\ Test(s[n+1]) do n := n+1" started at  *)
(* `from' stops.                                                           *)
LoopExit(from, s, Test(_)) ==
    Min({n \in from..Len(s) : n < Len(s) => ~Test(s[n + 1])})

AdvancePrefix(entries, prefixDone) ==
    LoopExit(prefixDone, entries, LAMBDA e : e.done)

Covered(t, offset) == \E c \in t.committed : offset < c

Has(t, offset) == \E i \in 1..Len(t.entries) : t.entries[i].offset = offset

CompleteResult(t, offset) ==
    IF Covered(t, offset) \/ Has(t, offset) THEN Ok ELSE UnknownOffset

MarkDone(t, i) ==
    LET entries == [t.entries EXCEPT ![i].done = TRUE]
    IN  [t EXCEPT !.entries    = entries,
                  !.inFlight   = @ - 1,
                  !.prefixDone = AdvancePrefix(entries, @)]

Complete(t, offset) ==
    IF ~Covered(t, offset)
       /\ \E i \in 1..Len(t.entries) : t.entries[i].offset = offset /\ ~t.entries[i].done
    THEN MarkDone(t, CHOOSE i \in 1..Len(t.entries) : t.entries[i].offset = offset)
    ELSE t

-----------------------------------------------------------------------------
(* commitCandidate and confirmCommit *)

CommitCandidate(t) ==
    IF t.prefixDone = 0 THEN {} ELSE {t.entries[t.prefixDone].offset + 1}

AlreadyCommitted(t, position) == \E c \in t.committed : position <= c

ConfirmResult(t, position) ==
    IF \/ AlreadyCommitted(t, position)
       \/ \E watermark \in CommitCandidate(t) : position <= watermark
    THEN Ok ELSE CommitBeyondWatermark

CoveredPrefix(entries, position) ==
    LoopExit(0, entries, LAMBDA e : e.offset < position)

DropCovered(t, position) ==
    LET n == CoveredPrefix(t.entries, position)
    IN  [t EXCEPT !.entries    = SubSeq(@, n + 1, Len(@)),
                  !.prefixDone = @ - n,
                  !.committed  = {position}]

ConfirmCommit(t, position) ==
    IF ~AlreadyCommitted(t, position) /\ ConfirmResult(t, position) = Ok
    THEN DropCovered(t, position) ELSE t

UncommittedCount(t) == Len(t.entries)

Reset(t) == NewTracker

-----------------------------------------------------------------------------
(* What holds of a tracker at all times.  `registered' and `completed' are *)
(* the offsets its user was told were registered and completed.            *)

(* The deque is sorted, so the binary search of complete() is sound, and   *)
(* no entry is above the last registered offset.                           *)
Sorted(t) ==
    /\ \A i, j \in 1..Len(t.entries) :
          i < j => t.entries[i].offset < t.entries[j].offset
    /\ \A i \in 1..Len(t.entries) : \E last \in t.lastRegistered :
          t.entries[i].offset <= last

(* _prefixDone is the length of the longest finished prefix: no finished   *)
(* record is left behind it and no unfinished one is inside it.            *)
PrefixMaximal(t) ==
    /\ t.prefixDone <= Len(t.entries)
    /\ \A i \in 1..t.prefixDone : t.entries[i].done
    /\ t.prefixDone < Len(t.entries) => ~t.entries[t.prefixDone + 1].done

(* A commit position never runs ahead of what was registered.              *)
CommittedWithinRegistered(t) ==
    \A c \in t.committed : \E last \in t.lastRegistered : c <= last + 1

(* The deque holds exactly the registered records that no commit covers,   *)
(* each marked done iff it was completed; covered records are completed.   *)
EntriesMatch(t, registered, completed) ==
    /\ \A i \in 1..Len(t.entries) : /\ t.entries[i].offset \in registered
                                    /\ ~Covered(t, t.entries[i].offset)
    /\ \A o \in registered : Covered(t, o) \/ Has(t, o)
    /\ \A i \in 1..Len(t.entries) :
          t.entries[i].done <=> t.entries[i].offset \in completed
    /\ \A o \in registered : Covered(t, o) => o \in completed
    /\ \A o \in registered : \E last \in t.lastRegistered : o <= last

(* _inFlight counts the records that are not finished.                     *)
InFlightExact(t, registered, completed) ==
    t.inFlight = Cardinality(registered \ completed)

Consistent(t, registered, completed) ==
    /\ Sorted(t)
    /\ PrefixMaximal(t)
    /\ CommittedWithinRegistered(t)
    /\ EntriesMatch(t, registered, completed)
    /\ InFlightExact(t, registered, completed)

(* Committing `position' skips no record that was not completed.           *)
CoversOnlyCompleted(position, registered, completed) ==
    \A o \in registered : o < position => o \in completed
=============================================================================
