------------------------ MODULE OffsetTrackerClient ------------------------
(***************************************************************************)
(* One tracker under a client that may call any operation with any         *)
(* argument, in any order: out of order, repeated and unknown offsets and  *)
(* positions beyond the watermark included.  `registered' and `completed'  *)
(* record what the client was told succeeded since the last reset; they do *)
(* not look inside the tracker.                                            *)
(***************************************************************************)
EXTENDS OffsetTracker

CONSTANT Offsets    \* the offsets the client may use

ASSUME ClientOffsets == Offsets \subseteq Nat

VARIABLES tracker, registered, completed

vars == <<tracker, registered, completed>>

Positions == Offsets \cup {o + 1 : o \in Offsets}

Init == tracker = NewTracker /\ registered = {} /\ completed = {}

DoRegister(o) ==
    /\ tracker' = RegisterRecord(tracker, o)
    /\ registered' = IF RegisterResult(tracker, o) = Ok
                     THEN registered \cup {o} ELSE registered
    /\ UNCHANGED completed

DoComplete(o) ==
    /\ tracker' = Complete(tracker, o)
    /\ completed' = completed \cup (registered \cap {o})
    /\ UNCHANGED registered

DoConfirm(position) ==
    /\ tracker' = ConfirmCommit(tracker, position)
    /\ UNCHANGED <<registered, completed>>

DoReset ==
    /\ tracker' = Reset(tracker)
    /\ registered' = {}
    /\ completed' = {}

Next == \/ \E o \in Offsets : DoRegister(o) \/ DoComplete(o)
        \/ \E position \in Positions : DoConfirm(position)
        \/ DoReset

Spec == Init /\ [][Next]_vars

-----------------------------------------------------------------------------
(* Properties *)

(* Types of the tracker's fields; in particular the unsigned counters      *)
(* _prefixDone and _inFlight never wrap below zero.                        *)
TypeOK == /\ tracker \in Tracker
          /\ registered \subseteq Offsets
          /\ completed \subseteq registered
          /\ IsFiniteSet(registered)

(* The deque, its counters and the committed position agree with each      *)
(* other and with the calls made so far, after any sequence of calls,      *)
(* accepted or refused (the comments on OffsetTracker.h's state).          *)
DequeConsistent == Consistent(tracker, registered, completed)

(* commitCandidate() never offers a position that would cover a record the *)
(* client has not completed: committing it loses nothing after a restart.  *)
CandidateCoversOnlyCompleted ==
    \A position \in CommitCandidate(tracker) \cup tracker.committed :
        CoversOnlyCompleted(position, registered, completed)

(* commitCandidate() is the greatest such position: progress is never held *)
(* back by a record that is already completed.                             *)
Frontier == {o \in completed : /\ \A r \in registered : r <= o => r \in completed
                               /\ \A c \in tracker.committed : c <= o}
CandidateIsGreatest ==
    CommitCandidate(tracker) = IF Frontier = {} THEN {} ELSE {Max(Frontier) + 1}

(* A repeated or late completion is always accepted, even when the record  *)
(* is already covered by a commit and gone from the deque.                 *)
CompletionIdempotent == \A o \in registered : CompleteResult(tracker, o) = Ok

Abstract == INSTANCE CommitWatermark WITH committed <- tracker.committed

(* The tracker implements the abstract watermark: a record is registered,  *)
(* completed or committed only when CommitWatermark allows it.             *)
ImplementsWatermark == Abstract!AbsSpec
=============================================================================
