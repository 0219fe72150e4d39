------------------------ MODULE OffsetTrackerProofs ------------------------
(***************************************************************************)
(* The offset tracker keeps its promises for every set of offsets and      *)
(* every sequence of calls.                                                *)
(***************************************************************************)
EXTENDS OffsetTrackerClient, OffsetTrackerLemmas

(* The inductive invariant: the deque agrees with its counters and with    *)
(* the calls made so far.                                                  *)
IInv == TrackerInv(tracker, registered, completed) /\ registered \subseteq Offsets

(* A new tracker satisfies it.                                             *)
LEMMA IInvInit == Init => IInv
BY NewTrackerInv DEF Init, IInv

(* Every call, refused ones included, preserves it.                        *)
LEMMA IInvNext == IInv /\ [Next]_vars => IInv'
<1> SUFFICES ASSUME IInv, [Next]_vars PROVE IInv'
  OBVIOUS
<1> USE DEF IInv
<1>1. ASSUME NEW o \in Offsets, DoRegister(o) PROVE IInv'
  <2>1. o \in Nat
    BY ClientOffsets
  <2>2. CASE RegisterResult(tracker, o) = Ok
    <3>1. tracker' = Register(tracker, o) /\ registered' = registered \cup {o}
          /\ completed' = completed
      BY <1>1, <2>2 DEF DoRegister, RegisterRecord
    <3> QED
      BY <2>1, <2>2, <3>1, RegisterInv
  <2>3. CASE RegisterResult(tracker, o) # Ok
    BY <1>1, <2>3 DEF DoRegister, RegisterRecord
  <2> QED
    BY <2>2, <2>3
<1>2. ASSUME NEW o \in Offsets, DoComplete(o) PROVE IInv'
  <2>1. o \in Nat
    BY ClientOffsets
  <2> QED
    BY <1>2, <2>1, CompleteInv DEF DoComplete
<1>3. ASSUME NEW position \in Positions, DoConfirm(position) PROVE IInv'
  <2>1. position \in Nat
    BY ClientOffsets DEF Positions
  <2> QED
    BY <1>3, <2>1, ConfirmInv DEF DoConfirm
<1>4. CASE DoReset
  BY <1>4, NewTrackerInv DEF DoReset, Reset
<1>5. CASE UNCHANGED vars
  BY <1>5 DEF vars
<1> QED
  BY <1>1, <1>2, <1>3, <1>4, <1>5 DEF Next

(* So it holds throughout every behaviour.                                 *)
LEMMA IInvAlways == Spec => []IInv
BY IInvInit, IInvNext, PTL DEF Spec

-----------------------------------------------------------------------------

(* The fields keep their types: _prefixDone and _inFlight, unsigned in the *)
(* code, never wrap below zero.                                            *)
THEOREM TypeCorrect == Spec => []TypeOK
<1>1. IInv => TypeOK
  BY DEF IInv, TrackerInv, WellTyped, TypeOK
<1> QED
  BY <1>1, IInvAlways, PTL

(* Deque, prefix length, in-flight counter and committed position always   *)
(* agree with each other and with the calls.                               *)
THEOREM DequeAlwaysConsistent == Spec => []DequeConsistent
<1>1. IInv => DequeConsistent
  BY DEF IInv, TrackerInv, DequeConsistent
<1> QED
  BY <1>1, IInvAlways, PTL

(* commitCandidate() never offers, and confirmCommit() never accepts, a    *)
(* position that covers a record not completed.                            *)
THEOREM NoRecordSkipped == Spec => []CandidateCoversOnlyCompleted
<1>1. IInv => CandidateCoversOnlyCompleted
  BY CandidateSafe DEF IInv, CandidateCoversOnlyCompleted
<1> QED
  BY <1>1, IInvAlways, PTL

(* complete() accepts a registered offset at any later time.               *)
THEOREM LateCompletionAccepted == Spec => []CompletionIdempotent
<1>1. IInv => CompletionIdempotent
  BY DEF IInv, TrackerInv, Consistent, EntriesMatch, CompletionIdempotent, CompleteResult
<1> QED
  BY <1>1, IInvAlways, PTL

(* A record on the frontier is in the finished prefix of the deque: were   *)
(* it behind the prefix, the entry that stopped the prefix would be an     *)
(* uncompleted record below it.                                            *)
LEMMA FrontierInPrefix ==
    ASSUME IInv, NEW o \in Frontier
    PROVE  \E i \in 1..tracker.prefixDone : tracker.entries[i].offset = o
<1> DEFINE es == tracker.entries
           k  == tracker.prefixDone
<1>1. /\ tracker \in Tracker /\ completed \subseteq registered /\ registered \subseteq Nat
      /\ Sorted(tracker) /\ PrefixMaximal(tracker)
      /\ EntriesMatch(tracker, registered, completed)
  BY DEF IInv, TrackerInv, WellTyped, Consistent
<1>2. /\ Len(es) \in Nat /\ k \in Nat
      /\ \A i \in 1..Len(es) : es[i].offset \in Nat
      /\ \A c \in tracker.committed : c \in Nat
  BY <1>1, TrackerTypes
<1>3. o \in registered /\ o \in Nat /\ ~Covered(tracker, o)
  BY <1>1, <1>2 DEF Frontier, Covered
<1>4. PICK i \in 1..Len(es) : es[i].offset = o
  BY <1>1, <1>3 DEF EntriesMatch, Has
<1>5. ASSUME i > k PROVE FALSE
  <2>1. k + 1 \in 1..Len(es) /\ k < Len(es) /\ k + 1 <= i
    BY <1>2, <1>5
  <2>2. es[k + 1].offset \in registered \ completed
    BY <1>1, <2>1 DEF PrefixMaximal, EntriesMatch
  <2>3. es[k + 1].offset <= o
    <3>1. CASE k + 1 = i
      BY <1>4, <1>2, <3>1
    <3>2. CASE k + 1 < i
      <4>1. es[k + 1].offset < es[i].offset
        BY <1>1, <2>1, <3>2 DEF Sorted
      <4> QED
        BY <1>2, <1>3, <1>4, <2>1, <4>1
    <3> QED
      BY <2>1, <1>2, <3>1, <3>2
  <2> QED
    BY <2>2, <2>3 DEF Frontier
<1> QED
  BY <1>2, <1>4, <1>5

(* commitCandidate() offers the greatest position that is safe: a record   *)
(* that is finished with everything before it never waits for a later one. *)
THEOREM NothingHeldBack == Spec => []CandidateIsGreatest
<1>1. IInv => CandidateIsGreatest
  <2> SUFFICES ASSUME IInv PROVE CandidateIsGreatest
    OBVIOUS
  <2> DEFINE es == tracker.entries
             k  == tracker.prefixDone
             last == es[k].offset
  <2>1. /\ tracker \in Tracker /\ registered \subseteq Nat
        /\ Sorted(tracker) /\ PrefixMaximal(tracker)
        /\ EntriesMatch(tracker, registered, completed)
    BY DEF IInv, TrackerInv, WellTyped, Consistent
  <2>2. /\ Len(es) \in Nat /\ k \in Nat
        /\ \A i \in 1..Len(es) : es[i].offset \in Nat
        /\ \A c \in tracker.committed : c \in Nat
    BY <2>1, TrackerTypes
  <2>3. CASE k = 0
    <3>1. Frontier = {}
      BY <2>3, FrontierInPrefix
    <3> QED
      BY <2>3, <3>1 DEF CandidateIsGreatest, CommitCandidate
  <2>4. CASE k # 0
    <3>1. k \in 1..Len(es)
      BY <2>1, <2>2, <2>4 DEF PrefixMaximal
    <3>2. last \in Nat /\ last \in completed /\ ~Covered(tracker, last)
      BY <2>1, <2>2, <3>1 DEF PrefixMaximal, EntriesMatch
    <3>3. CoversOnlyCompleted(last + 1, registered, completed)
      BY <2>4, CandidateSafe DEF IInv, CommitCandidate
    <3>4. last \in Frontier
      <4> HIDE DEF last
      <4>1. ASSUME NEW r \in registered, r <= last PROVE r \in completed
        <5>1. r < last + 1
          BY <2>1, <3>2, <4>1
        <5> QED
          BY <3>3, <5>1 DEF CoversOnlyCompleted
      <4>2. \A c \in tracker.committed : c <= last
        BY <2>2, <3>2 DEF Covered
      <4> QED
        BY <3>2, <4>1, <4>2 DEF Frontier
    <3>5. ASSUME NEW o \in Frontier PROVE last >= o
      <4>1. PICK i \in 1..k : es[i].offset = o
        BY <3>5, FrontierInPrefix
      <4>2. i \in 1..Len(es)
        BY <2>2, <3>1
      <4>3. CASE i = k
        BY <3>2, <4>1, <4>3
      <4>4. CASE i < k
        <5>1. es[i].offset < es[k].offset
          BY <2>1, <3>1, <4>2, <4>4 DEF Sorted
        <5> QED
          BY <2>2, <3>1, <4>1, <4>2, <5>1
      <4> QED
        BY <2>2, <4>3, <4>4
    <3>6. Frontier \subseteq Nat
      BY DEF Frontier, IInv, TrackerInv, WellTyped
    <3>7. Max(Frontier) = last
      <4> DEFINE top == Max(Frontier)
      <4> HIDE DEF last
      <4>1. top \in Frontier /\ \A y \in Frontier : top >= y
        BY <3>4, <3>5 DEF Max
      <4> HIDE DEF top
      <4>2. top \in Nat /\ top >= last /\ last >= top
        BY <3>4, <3>5, <3>6, <4>1
      <4> QED
        BY <3>2, <4>2 DEF top
    <3> QED
      BY <2>4, <3>4, <3>7 DEF CandidateIsGreatest, CommitCandidate
  <2> QED
    BY <2>3, <2>4
<1> QED
  BY <1>1, IInvAlways, PTL

-----------------------------------------------------------------------------
(* Refinement of CommitWatermark *)

LEMMA ConfirmIsAbsCommit ==
    ASSUME IInv, NEW position \in Positions, DoConfirm(position)
    PROVE  [Abstract!AbsNext]_(Abstract!absVars)
<1>0. TrackerInv(tracker, registered, completed) /\ tracker \in Tracker
      /\ position \in Nat
  <2>1. TrackerInv(tracker, registered, completed)
    BY DEF IInv
  <2>2. tracker \in Tracker
    BY <2>1 DEF TrackerInv, WellTyped
  <2>3. position \in Nat
    BY ClientOffsets DEF Positions
  <2> QED
    BY <2>1, <2>2, <2>3
<1>1. CASE ~(~AlreadyCommitted(tracker, position) /\ ConfirmResult(tracker, position) = Ok)
  <2>1. tracker' = tracker /\ registered' = registered /\ completed' = completed
    BY <1>1 DEF DoConfirm, ConfirmCommit
  <2> QED
    BY <2>1 DEF Abstract!absVars
<1>2. CASE ~AlreadyCommitted(tracker, position) /\ ConfirmResult(tracker, position) = Ok
  <2>1. tracker'.committed = {position} /\ registered' = registered /\ completed' = completed
    <3>1. tracker' = DropCovered(tracker, position)
      BY <1>2 DEF DoConfirm, ConfirmCommit
    <3>2. DropCovered(tracker, position).committed = {position}
      BY <1>0 DEF DropCovered, Tracker
    <3> QED
      BY <3>1, <3>2 DEF DoConfirm
  <2>2. PICK watermark \in CommitCandidate(tracker) : position <= watermark
    BY <1>2 DEF ConfirmResult, Ok, CommitBeyondWatermark
  <2>3. \A c \in tracker.committed : c < position
    BY <1>0, <1>2, TrackerTypes DEF AlreadyCommitted
  <2> DEFINE k == tracker.prefixDone
             o == tracker.entries[k].offset
  <2>4. k \in 1..Len(tracker.entries) /\ watermark = o + 1
    <3>1. k # 0 /\ watermark = o + 1
      BY <2>2 DEF CommitCandidate
    <3> QED
      BY <3>1, <1>0, TrackerTypes DEF TrackerInv, Consistent, PrefixMaximal
  <2>5. o \in completed /\ o \in Nat
    BY <2>4, <1>0, TrackerTypes DEF TrackerInv, Consistent, PrefixMaximal, EntriesMatch
  <2>6. \A r \in registered : r <= o => r \in completed
    <3>1. CoversOnlyCompleted(watermark, registered, completed)
      BY <1>0, <2>2, CandidateSafe
    <3>2. registered \subseteq Nat
      BY ClientOffsets DEF IInv
    <3> HIDE DEF o
    <3>3. ASSUME NEW r \in registered, r <= o PROVE r < watermark
      BY <3>2, <3>3, <2>4, <2>5
    <3> QED
      BY <3>1, <3>3 DEF CoversOnlyCompleted
  <2>7. Abstract!AbsCommit(position)
    BY <2>1, <2>2, <2>3, <2>4, <2>5, <2>6 DEF Abstract!AbsCommit, Abstract!CompletedUpTo
  <2>8. position \in Abstract!Positions
    BY DEF Abstract!Positions, Positions
  <2> QED
    BY <2>7, <2>8 DEF Abstract!AbsNext
<1> QED
  BY <1>1, <1>2

LEMMA StepRefines == IInv /\ [Next]_vars => [Abstract!AbsNext]_(Abstract!absVars)
<1> SUFFICES ASSUME IInv, [Next]_vars PROVE [Abstract!AbsNext]_(Abstract!absVars)
  OBVIOUS
<1>0. tracker \in Tracker /\ registered \subseteq Nat
  BY DEF IInv, TrackerInv, WellTyped
<1>1. ASSUME NEW o \in Offsets, DoRegister(o) PROVE [Abstract!AbsNext]_(Abstract!absVars)
  <2>1. CASE RegisterResult(tracker, o) = Ok
    <3>1. tracker' = Register(tracker, o) /\ registered' = registered \cup {o}
          /\ completed' = completed
      BY <1>1, <2>1 DEF DoRegister, RegisterRecord
    <3>2. tracker'.committed = tracker.committed
      BY <3>1, <1>0 DEF Register, Tracker
    <3>3. \A r \in registered : r < o
      <4>1. \A last \in tracker.lastRegistered : last \in Nat /\ ~(o <= last)
        BY <2>1, <1>0, TrackerTypes DEF RegisterResult, Ok, OutOfOrderRegistration
      <4>2. \A r \in registered : \E last \in tracker.lastRegistered : r <= last
        BY DEF IInv, TrackerInv, Consistent, EntriesMatch
      <4>3. o \in Nat
        BY ClientOffsets
      <4>4. ASSUME NEW r \in registered PROVE r < o
        <5>1. PICK last \in tracker.lastRegistered : r <= last
          BY <4>2
        <5>2. r \in Nat /\ last \in Nat /\ ~(o <= last)
          BY <4>1, <1>0
        <5> QED
          BY <4>3, <5>1, <5>2
      <4> QED
        BY <4>4
    <3>4. Abstract!AbsRegister(o)
      BY <3>1, <3>2, <3>3 DEF Abstract!AbsRegister
    <3> QED
      BY <3>4 DEF Abstract!AbsNext
  <2>2. CASE RegisterResult(tracker, o) # Ok
    BY <1>1, <2>2 DEF DoRegister, RegisterRecord, Abstract!absVars
  <2> QED
    BY <2>1, <2>2
<1>2. ASSUME NEW o \in Offsets, DoComplete(o) PROVE [Abstract!AbsNext]_(Abstract!absVars)
  <2>1. tracker'.committed = tracker.committed
    <3>1. \A i : MarkDone(tracker, i).committed = tracker.committed
      BY <1>0 DEF MarkDone, Tracker
    <3> QED
      BY <1>2, <3>1 DEF DoComplete, Complete
  <2>2. CASE o \in registered
    <3>1. Abstract!AbsComplete(o)
      BY <1>2, <2>1, <2>2 DEF DoComplete, Abstract!AbsComplete
    <3> QED
      BY <3>1 DEF Abstract!AbsNext
  <2>3. CASE o \notin registered
    BY <1>2, <2>1, <2>3 DEF DoComplete, Abstract!absVars
  <2> QED
    BY <2>2, <2>3
<1>3. ASSUME NEW position \in Positions, DoConfirm(position)
      PROVE  [Abstract!AbsNext]_(Abstract!absVars)
  BY <1>3, ConfirmIsAbsCommit
<1>4. CASE DoReset
  BY <1>4 DEF DoReset, Reset, NewTracker, Abstract!AbsReset, Abstract!AbsNext
<1>5. CASE UNCHANGED vars
  BY <1>5 DEF vars, Abstract!absVars
<1> QED
  BY <1>1, <1>2, <1>3, <1>4, <1>5 DEF Next

(* Every behaviour of the tracker is a behaviour of the abstract           *)
(* watermark: nothing is registered, completed or committed that           *)
(* CommitWatermark forbids.                                                *)
THEOREM TrackerImplementsWatermark == Spec => ImplementsWatermark
<1>1. Init => Abstract!AbsInit
  BY DEF Init, NewTracker, Abstract!AbsInit
<1> QED
  BY <1>1, StepRefines, IInvAlways, PTL DEF Spec, ImplementsWatermark, Abstract!AbsSpec
=============================================================================
