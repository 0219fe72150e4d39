---------------------- MODULE PartitionRegistryProofs ----------------------
(***************************************************************************)
(* Generations keep the ownerships of a partition apart, for every set of  *)
(* partitions and offsets and any number of rebalances: what a stale       *)
(* ticket or a stale position does never reaches the next ownership.       *)
(***************************************************************************)
EXTENDS PartitionRegistryClient, OffsetTrackerLemmas

(* The inductive invariant.  The types, then what is true of the whole     *)
(* registry: no two owned partitions share a generation, and no generation *)
(* in use, of a ticket or of a position, is still to be given out.         *)
RegistryTypes ==
    /\ DOMAIN partitions \subseteq PartitionKey
    /\ partitions \in [DOMAIN partitions -> PartitionState]
    /\ lastGeneration \in Nat
    /\ tickets \subseteq [partition : PartitionKey, offset : Offsets, generation : Nat]
    /\ finished \subseteq tickets
    /\ offered \subseteq CommitPosition

GenerationsDistinct ==
    \A p, q \in DOMAIN partitions :
        partitions[p].generation = partitions[q].generation => p = q

GenerationsGivenOut ==
    /\ \A p \in DOMAIN partitions : partitions[p].generation <= lastGeneration
    /\ \A x \in tickets \cup offered : x.generation <= lastGeneration

(* Then what is true of one owned partition: the tickets of its generation *)
(* are its own, its tracker agrees with them, and no position offered in   *)
(* this ownership is beyond the record registered last (so that a record   *)
(* registered later cannot fall below it).                                 *)
OwnTickets(p) ==
    \A t \in tickets : t.generation = partitions[p].generation => t.partition = p

TrackerAgrees(p) ==
    LET g == partitions[p].generation
    IN  TrackerInv(partitions[p].tracker, RegisteredIn(g), CompletedIn(g))

PositionsRegistered(p) ==
    \A x \in offered : x.generation = partitions[p].generation =>
        \E last \in partitions[p].tracker.lastRegistered : x.offset <= last + 1

OwnershipInv(p) == OwnTickets(p) /\ TrackerAgrees(p) /\ PositionsRegistered(p)

RegistryInv ==
    /\ RegistryTypes
    /\ GenerationsDistinct
    /\ GenerationsGivenOut
    /\ \A p \in DOMAIN partitions : OwnershipInv(p)
    /\ OfferedCoverOnlyCompleted

(* A registry that owns nothing.                                           *)
LEMMA RegistryStart == Init => RegistryInv
BY DEF Init, RegistryInit, RegistryInv, RegistryTypes, GenerationsDistinct, GenerationsGivenOut,
       OfferedCoverOnlyCompleted

-----------------------------------------------------------------------------
(* assign gives every partition it lists a generation of its own, above    *)
(* all that were given out before: no ticket or position is in it yet.     *)
LEMMA AssignInv ==
    ASSUME RegistryInv, NEW ps \in PartitionLists, ReaderAssign(ps)
    PROVE  RegistryInv'
<1> USE DEF RegistryInv
<1>0. Cardinality(PartitionKey) \in Nat
  BY FinitelyManyPartitions, FS_CardinalityType
<1>1. PICK n \in Nat : ps \in [1..n -> PartitionKey]
  BY <1>0 DEF PartitionLists
<1>2. /\ DOMAIN ps = 1..n /\ Len(ps) = n
      /\ \A i, j \in 1..n : ps[i] = ps[j] => i = j
  BY <1>1, LenProperties DEF PartitionLists, IsInjective
<1> DEFINE new == Range(ps)
           place(p) == CHOOSE i \in DOMAIN ps : ps[i] = p
<1>3. \A p \in new : place(p) \in 1..n /\ ps[place(p)] = p /\ p \in PartitionKey
  BY <1>1, <1>2 DEF Range
<1>4. \A p, q \in new : place(p) = place(q) => p = q
  BY <1>3
<1>5. /\ partitions' = [p \in DOMAIN partitions \cup new |->
                           IF p \in new
                           THEN [generation |-> lastGeneration + place(p), tracker |-> NewTracker]
                           ELSE partitions[p]]
      /\ lastGeneration' = lastGeneration + n
      /\ UNCHANGED <<tickets, finished, offered>>
  BY <1>2 DEF ReaderAssign, Assign
<1> HIDE DEF place, new
<1>6. /\ DOMAIN partitions' = DOMAIN partitions \cup new
      /\ \A p \in new : /\ partitions'[p].generation = lastGeneration + place(p)
                        /\ partitions'[p].tracker = NewTracker
      /\ \A p \in DOMAIN partitions \ new : partitions'[p] = partitions[p]
  BY <1>5
<1>7. lastGeneration \in Nat /\ \A p \in DOMAIN partitions : partitions[p] \in PartitionState
  BY DEF RegistryTypes
<1>8. \A p \in DOMAIN partitions : partitions[p].generation \in 0..lastGeneration
  BY <1>7 DEF PartitionState, GenerationsGivenOut
<1>9. RegistryTypes'
  <2>1. \A p \in DOMAIN partitions' : partitions'[p] \in PartitionState
    <3>1. NewTracker \in Tracker
      BY NewTrackerInv DEF TrackerInv, WellTyped
    <3>2. \A p \in new : lastGeneration + place(p) \in Nat
      BY <1>3, <1>7
    <3> QED
      BY <1>5, <1>7, <3>1, <3>2 DEF PartitionState
  <2>2. partitions' \in [DOMAIN partitions' -> PartitionState]
    BY <1>5, <1>6, <2>1
  <2> QED
    BY <1>3, <1>5, <1>6, <1>7, <2>2 DEF RegistryTypes
<1>10. GenerationsDistinct'
  BY <1>3, <1>4, <1>6, <1>7, <1>8 DEF GenerationsDistinct
<1>11. GenerationsGivenOut'
  <2>1. \A x \in tickets \cup offered : x.generation \in Nat
    BY DEF RegistryTypes, CommitPosition
  <2> QED
    BY <1>3, <1>5, <1>6, <1>7, <1>8, <2>1 DEF GenerationsGivenOut
<1>12. ASSUME NEW p \in DOMAIN partitions' PROVE OwnershipInv(p)'
  <2>1. CASE p \notin new
    <3>1. p \in DOMAIN partitions /\ partitions'[p] = partitions[p]
      BY <1>6, <2>1
    <3>2. \A g : RegisteredIn(g)' = RegisteredIn(g) /\ CompletedIn(g)' = CompletedIn(g)
      BY <1>5 DEF RegisteredIn, CompletedIn
    <3>3. OwnTickets(p)' /\ PositionsRegistered(p)'
      BY <1>5, <3>1 DEF OwnershipInv, OwnTickets, PositionsRegistered
    <3>4. TrackerAgrees(p)'
      BY <3>1, <3>2 DEF OwnershipInv, TrackerAgrees
    <3> QED
      BY <3>3, <3>4 DEF OwnershipInv
  <2>2. CASE p \in new
    <3>0. PICK g : g = lastGeneration + place(p)
      OBVIOUS
    <3>1. \A x \in tickets \cup offered : x.generation # g
      <4>1. \A x \in tickets \cup offered :
               x.generation \in Nat /\ x.generation <= lastGeneration
        BY DEF RegistryTypes, CommitPosition, GenerationsGivenOut
      <4> QED
        BY <1>3, <1>7, <2>2, <3>0, <4>1
    <3>2. partitions'[p].generation = g /\ partitions'[p].tracker = NewTracker
      BY <1>6, <2>2, <3>0
    <3>3. RegisteredIn(g)' = {} /\ CompletedIn(g)' = {}
      BY <1>5, <3>1 DEF RegisteredIn, CompletedIn, RegistryTypes
    <3> QED
      BY <1>5, <3>1, <3>2, <3>3, NewTrackerInv
      DEF OwnershipInv, OwnTickets, TrackerAgrees, PositionsRegistered
  <2> QED
    BY <2>1, <2>2
<1>13. OfferedCoverOnlyCompleted'
  BY <1>5 DEF OfferedCoverOnlyCompleted, RegisteredIn, CompletedIn
<1> QED
  BY <1>9, <1>10, <1>11, <1>12, <1>13

-----------------------------------------------------------------------------
(* What commitCandidates and revoke hand out: a position in the generation *)
(* of an owned partition, safe to commit, and not beyond its last record.  *)
LEMMA CandidateOwned ==
    ASSUME RegistryInv, NEW S, NEW x \in Candidates(S)
    PROVE  \E p \in DOMAIN partitions :
              /\ x \in CommitPosition
              /\ x.generation = partitions[p].generation
              /\ CoversOnlyCompleted(x.offset, RegisteredIn(x.generation),
                                     CompletedIn(x.generation))
              /\ \E last \in partitions[p].tracker.lastRegistered : x.offset <= last + 1
<1> USE DEF RegistryInv
<1>0. PICK p \in S \cap DOMAIN partitions :
         \E o \in CommitCandidate(partitions[p].tracker) : x = PositionOf(p, o)
  BY DEF Candidates
<1>1. PICK o \in CommitCandidate(partitions[p].tracker) : x = PositionOf(p, o)
  BY <1>0
<1>2. PICK t : t = partitions[p].tracker
  OBVIOUS
<1>3. PICK g : g = partitions[p].generation
  OBVIOUS
<1>4. p \in PartitionKey /\ g \in Nat /\ t \in Tracker
  BY <1>1, <1>2, <1>3 DEF RegistryTypes, PartitionState
<1>5. TrackerInv(t, RegisteredIn(g), CompletedIn(g))
  BY <1>1, <1>2, <1>3 DEF OwnershipInv, TrackerAgrees
<1>6. o \in Nat /\ CoversOnlyCompleted(o, RegisteredIn(g), CompletedIn(g))
  BY <1>1, <1>2, <1>5, CandidateSafe
<1>7. x.partition = p /\ x.offset = o /\ x.generation = g
  BY <1>1, <1>3 DEF PositionOf
<1>8. x \in CommitPosition
  BY <1>1, <1>3, <1>4, <1>6 DEF PositionOf, CommitPosition, Offset
<1>9. \E last \in t.lastRegistered : o <= last + 1
  <2> DEFINE k == t.prefixDone
  <2>1. k # 0 /\ o = t.entries[k].offset + 1
    BY <1>1, <1>2 DEF CommitCandidate
  <2>2. k \in 1..Len(t.entries)
    BY <1>4, <1>5, <2>1, TrackerTypes DEF TrackerInv, Consistent, PrefixMaximal
  <2>3. PICK last \in t.lastRegistered : t.entries[k].offset <= last
    BY <1>5, <2>2 DEF TrackerInv, Consistent, Sorted
  <2>4. t.entries[k].offset \in Nat /\ last \in Nat
    BY <1>4, <2>2, TrackerTypes
  <2> QED
    BY <2>1, <2>3, <2>4
<1> QED
  BY <1>1, <1>2, <1>3, <1>6, <1>7, <1>8, <1>9

(* Handing positions out, and forgetting partitions at the same time.      *)
LEMMA OfferInv ==
    ASSUME RegistryInv, NEW S, NEW lost,
           partitions' = Restrict(partitions, DOMAIN partitions \ lost),
           offered' = offered \cup Candidates(S),
           UNCHANGED <<lastGeneration, tickets, finished>>
    PROVE  RegistryInv'
<1> USE DEF RegistryInv
<1>1. /\ DOMAIN partitions' = DOMAIN partitions \ lost
      /\ \A p \in DOMAIN partitions' : p \in DOMAIN partitions /\ partitions'[p] = partitions[p]
      /\ partitions' \in [DOMAIN partitions' -> PartitionState]
  BY DEF Restrict, RegistryTypes
<1>2. \A g : RegisteredIn(g)' = RegisteredIn(g) /\ CompletedIn(g)' = CompletedIn(g)
  BY DEF RegisteredIn, CompletedIn
<1>3. RegistryTypes'
  <2>1. offered' \subseteq CommitPosition
    BY CandidateOwned DEF RegistryTypes
  <2> QED
    BY <1>1, <2>1 DEF RegistryTypes
<1>4. GenerationsDistinct'
  BY <1>1 DEF GenerationsDistinct
<1>5. GenerationsGivenOut'
  BY <1>1, CandidateOwned DEF GenerationsGivenOut
<1>6. ASSUME NEW p \in DOMAIN partitions' PROVE OwnershipInv(p)'
  <2>1. OwnershipInv(p) /\ partitions'[p] = partitions[p]
    BY <1>1
  <2>2. OwnTickets(p)' /\ TrackerAgrees(p)'
    BY <1>2, <2>1 DEF OwnershipInv, OwnTickets, TrackerAgrees
  <2>3. ASSUME NEW x \in Candidates(S), x.generation = partitions[p].generation
        PROVE  \E last \in partitions[p].tracker.lastRegistered : x.offset <= last + 1
    <3>1. PICK q \in DOMAIN partitions :
             /\ x.generation = partitions[q].generation
             /\ \E last \in partitions[q].tracker.lastRegistered : x.offset <= last + 1
      BY CandidateOwned
    <3>2. p = q
      BY <1>1, <2>3, <3>1 DEF GenerationsDistinct
    <3> QED
      BY <3>1, <3>2
  <2>4. PositionsRegistered(p)'
    BY <2>1, <2>3 DEF OwnershipInv, PositionsRegistered
  <2> QED
    BY <2>2, <2>4 DEF OwnershipInv
<1>7. OfferedCoverOnlyCompleted'
  <2>1. \A x \in offered' :
           CoversOnlyCompleted(x.offset, RegisteredIn(x.generation), CompletedIn(x.generation))
    BY CandidateOwned DEF OfferedCoverOnlyCompleted
  <2> QED
    BY <1>2, <2>1 DEF OfferedCoverOnlyCompleted
<1> QED
  BY <1>3, <1>4, <1>5, <1>6, <1>7

-----------------------------------------------------------------------------
(* An operation on the tracker of one owned partition: it may add tickets  *)
(* and completions in the generation of that partition only, so every      *)
(* other ownership stays as it was.                                        *)
LEMMA TrackerStep ==
    ASSUME RegistryInv, NEW p \in DOMAIN partitions, NEW t, NEW g,
           g = partitions[p].generation,
           partitions' = [partitions EXCEPT ![p].tracker = t],
           UNCHANGED <<lastGeneration, offered>>,
           tickets \subseteq tickets',
           \A x \in tickets' \ tickets : \E o \in Offsets : x = PositionOf(p, o),
           finished \subseteq finished',
           finished' \subseteq tickets',
           \A x \in finished' \ finished : x.generation = g,
           TrackerInv(t, RegisteredIn(g)', CompletedIn(g)'),
           \A x \in Nat : (\E last \in partitions[p].tracker.lastRegistered : x <= last + 1)
                             => \E last \in t.lastRegistered : x <= last + 1,
           \A x \in offered : x.generation = g =>
              CoversOnlyCompleted(x.offset, RegisteredIn(g)', CompletedIn(g)')
    PROVE  RegistryInv'
<1> USE DEF RegistryInv
<1>1. p \in PartitionKey /\ g \in Nat /\ partitions \in [DOMAIN partitions -> PartitionState]
  BY DEF RegistryTypes, PartitionState
<1>2. /\ DOMAIN partitions' = DOMAIN partitions
      /\ \A q \in DOMAIN partitions \ {p} : partitions'[q] = partitions[q]
      /\ partitions'[p].generation = g /\ partitions'[p].tracker = t
      /\ t \in Tracker => partitions' \in [DOMAIN partitions' -> PartitionState]
  BY <1>1 DEF PartitionState
<1>3. \A x \in tickets' \ tickets :
         /\ x \in [partition : PartitionKey, offset : Offsets, generation : Nat]
         /\ x.generation = g /\ x.partition = p
  BY <1>1 DEF PositionOf
<1>4. \A h : h # g => RegisteredIn(h)' = RegisteredIn(h) /\ CompletedIn(h)' = CompletedIn(h)
  BY <1>3 DEF RegisteredIn, CompletedIn
<1>5. RegistryTypes'
  BY <1>2, <1>3 DEF RegistryTypes, TrackerInv, WellTyped
<1>6. GenerationsDistinct' /\ GenerationsGivenOut'
  BY <1>2, <1>3 DEF GenerationsDistinct, GenerationsGivenOut
<1>7. ASSUME NEW q \in DOMAIN partitions' PROVE OwnershipInv(q)'
  <2>1. CASE q = p
    <3>1. OwnTickets(p)' /\ TrackerAgrees(p)'
      BY <1>2, <1>3 DEF OwnershipInv, OwnTickets, TrackerAgrees
    <3>2. PositionsRegistered(p)'
      <4>1. \A x \in offered : x.offset \in Nat
        BY DEF RegistryTypes, CommitPosition, Offset
      <4> QED
        BY <1>2, <4>1 DEF OwnershipInv, PositionsRegistered
    <3> QED
      BY <2>1, <3>1, <3>2 DEF OwnershipInv
  <2>2. CASE q # p
    <3>1. /\ q \in DOMAIN partitions /\ partitions'[q] = partitions[q]
          /\ partitions[q].generation # g
      BY <1>2, <2>2 DEF GenerationsDistinct
    <3>2. OwnTickets(q)' /\ PositionsRegistered(q)'
      BY <1>3, <3>1 DEF OwnershipInv, OwnTickets, PositionsRegistered
    <3>3. TrackerAgrees(q)'
      BY <1>4, <3>1 DEF OwnershipInv, TrackerAgrees
    <3> QED
      BY <3>2, <3>3 DEF OwnershipInv
  <2> QED
    BY <2>1, <2>2
<1>8. OfferedCoverOnlyCompleted'
  BY <1>4 DEF OfferedCoverOnlyCompleted
<1> QED
  BY <1>5, <1>6, <1>7, <1>8

(* Nothing happened: a refused registration, a stale ticket or position.   *)
LEMMA Unchanged == ASSUME RegistryInv, UNCHANGED vars PROVE RegistryInv'
<1> USE DEF RegistryInv, vars
<1>1. \A g : RegisteredIn(g)' = RegisteredIn(g) /\ CompletedIn(g)' = CompletedIn(g)
  BY DEF RegisteredIn, CompletedIn
<1>2. RegistryTypes' /\ GenerationsDistinct' /\ GenerationsGivenOut'
  BY DEF RegistryTypes, GenerationsDistinct, GenerationsGivenOut
<1>3. \A p \in DOMAIN partitions' : OwnershipInv(p)'
  BY <1>1 DEF OwnershipInv, OwnTickets, TrackerAgrees, PositionsRegistered
<1>4. OfferedCoverOnlyCompleted'
  BY <1>1 DEF OfferedCoverOnlyCompleted
<1> QED
  BY <1>2, <1>3, <1>4

(* What an owned partition's tracker may be assumed to satisfy.            *)
LEMMA OwnedTracker ==
    ASSUME RegistryInv, NEW p \in DOMAIN partitions
    PROVE  /\ partitions[p].tracker \in Tracker
           /\ partitions[p].generation \in Nat
           /\ TrackerInv(partitions[p].tracker, RegisteredIn(partitions[p].generation),
                         CompletedIn(partitions[p].generation))
BY DEF RegistryInv, RegistryTypes, PartitionState, OwnershipInv, TrackerAgrees

(* Writing a tracker back unchanged changes nothing.                       *)
LEMMA SameTracker ==
    ASSUME RegistryInv, NEW p \in DOMAIN partitions
    PROVE  [partitions EXCEPT ![p].tracker = partitions[p].tracker] = partitions
BY DEF RegistryInv, RegistryTypes, PartitionState

LEMMA RegisterRegistryInv ==
    ASSUME RegistryInv, NEW p \in PartitionKey, NEW o \in Offsets, ReaderRegister(p, o)
    PROVE  RegistryInv'
<1>1. CASE RegisterInResult(p, o) # Ok
  <2>1. partitions' = partitions
    <3>1. CASE p \notin DOMAIN partitions
      BY <3>1 DEF ReaderRegister, RegisterIn
    <3>2. CASE p \in DOMAIN partitions
      <4>1. RegisterRecord(partitions[p].tracker, o) = partitions[p].tracker
        BY <1>1, <3>2 DEF RegisterInResult, RegisterRecord
      <4>2. partitions' = [partitions EXCEPT ![p].tracker = partitions[p].tracker]
        BY <3>2, <4>1 DEF ReaderRegister, RegisterIn
      <4> QED
        BY <3>2, <4>2, SameTracker
    <3> QED
      BY <3>1, <3>2
  <2> QED
    BY <1>1, <2>1, Unchanged DEF ReaderRegister, RegisterIn, vars
<1>2. CASE RegisterInResult(p, o) = Ok
  <2>1. PICK t : t = partitions[p].tracker
    OBVIOUS
  <2>2. PICK g : g = partitions[p].generation
    OBVIOUS
  <2>3. p \in DOMAIN partitions /\ RegisterResult(t, o) = Ok
    BY <1>2, <2>1 DEF RegisterInResult, Ok, PartitionNotAssigned
  <2>4. o \in Nat /\ t \in Tracker /\ TrackerInv(t, RegisteredIn(g), CompletedIn(g))
    BY <2>1, <2>2, <2>3, OwnedTracker, RegistryOffsets
  <2>5. partitions' = [partitions EXCEPT ![p].tracker = Register(t, o)]
    BY <2>1, <2>3 DEF ReaderRegister, RegisterIn, RegisterRecord
  <2>6. /\ tickets' = tickets \cup {PositionOf(p, o)}
        /\ UNCHANGED <<lastGeneration, finished, offered>>
    BY <1>2 DEF ReaderRegister, RegisterIn
  <2>7. PositionOf(p, o).offset = o /\ PositionOf(p, o).generation = g
    BY <2>2 DEF PositionOf
  <2>8. RegisteredIn(g)' = RegisteredIn(g) \cup {o} /\ CompletedIn(g)' = CompletedIn(g)
    BY <2>6, <2>7 DEF RegisteredIn, CompletedIn
  <2>9. TrackerInv(Register(t, o), RegisteredIn(g)', CompletedIn(g)')
    BY <2>3, <2>4, <2>8, RegisterInv
  <2>10. Register(t, o).lastRegistered = {o}
    BY <2>4 DEF Register, Tracker
  <2>11. \A last \in t.lastRegistered : last \in Nat /\ last < o
    BY <2>3, <2>4, TrackerTypes DEF RegisterResult, Ok, OutOfOrderRegistration
  <2>12. \A x \in Nat : (\E last \in t.lastRegistered : x <= last + 1)
                           => \E last \in Register(t, o).lastRegistered : x <= last + 1
    BY <2>4, <2>10, <2>11
  <2>13. ASSUME NEW x \in offered, x.generation = g
         PROVE  CoversOnlyCompleted(x.offset, RegisteredIn(g)', CompletedIn(g)')
    <3>1. CoversOnlyCompleted(x.offset, RegisteredIn(g), CompletedIn(g))
      BY <2>13 DEF RegistryInv, OfferedCoverOnlyCompleted
    <3>2. PICK last \in t.lastRegistered : x.offset <= last + 1
      BY <2>1, <2>2, <2>3, <2>13 DEF RegistryInv, OwnershipInv, PositionsRegistered
    <3>3. x.offset \in Nat
      BY DEF RegistryInv, RegistryTypes, CommitPosition, Offset
    <3>4. ~(o < x.offset)
      BY <2>4, <2>11, <3>2, <3>3
    <3> QED
      BY <2>8, <3>1, <3>4 DEF CoversOnlyCompleted
  <2>14. finished' \subseteq tickets'
    BY <2>6 DEF RegistryInv, RegistryTypes
  <2> QED
    BY <2>1, <2>2, <2>3, <2>5, <2>6, <2>9, <2>12, <2>13, <2>14, TrackerStep
<1> QED
  BY <1>1, <1>2

(* A worker's ticket is of the present ownership and applied, or of an     *)
(* earlier one and ignored: a registered ticket is never unknown.          *)
LEMMA CompleteRegistryInv ==
    ASSUME RegistryInv, NEW ticket \in tickets, WorkerComplete(ticket)
    PROVE  RegistryInv'
<1>1. CASE ~IsCurrent(ticket)
  BY <1>1, Unchanged DEF WorkerComplete, CompleteTicket, CompleteTicketResult, Applied, Stale, vars
<1>2. CASE IsCurrent(ticket)
  <2>1. PICK p, o, g, t : /\ p = ticket.partition /\ o = ticket.offset
                          /\ g = ticket.generation /\ t = partitions[p].tracker
    OBVIOUS
  <2>2. p \in DOMAIN partitions /\ g = partitions[p].generation
    BY <1>2, <2>1 DEF IsCurrent
  <2>3. o \in Nat /\ t \in Tracker /\ TrackerInv(t, RegisteredIn(g), CompletedIn(g))
    BY <2>1, <2>2, OwnedTracker, RegistryOffsets DEF RegistryInv, RegistryTypes
  <2>4. o \in RegisteredIn(g)
    BY <2>1 DEF RegisteredIn, RegistryInv, RegistryTypes
  <2>5. CompleteTicketResult(ticket) = Applied
    <3>1. CompleteResult(t, o) = Ok
      BY <2>3, <2>4 DEF TrackerInv, Consistent, EntriesMatch, CompleteResult
    <3> QED
      BY <1>2, <2>1, <3>1 DEF CompleteTicketResult
  <2>6. /\ partitions' = [partitions EXCEPT ![p].tracker = Complete(t, o)]
        /\ finished' = finished \cup {ticket}
        /\ UNCHANGED <<lastGeneration, tickets, offered>>
    BY <1>2, <2>1, <2>2, <2>5 DEF WorkerComplete, CompleteTicket
  <2>7. /\ RegisteredIn(g)' = RegisteredIn(g)
        /\ CompletedIn(g)' = CompletedIn(g) \cup (RegisteredIn(g) \cap {o})
    BY <2>1, <2>4, <2>6 DEF RegisteredIn, CompletedIn
  <2>8. TrackerInv(Complete(t, o), RegisteredIn(g)', CompletedIn(g)')
    BY <2>3, <2>7, CompleteInv
  <2>9. Complete(t, o).lastRegistered = t.lastRegistered
    BY <2>3 DEF Complete, MarkDone, Tracker
  <2>10. \A x \in offered : x.generation = g =>
            CoversOnlyCompleted(x.offset, RegisteredIn(g)', CompletedIn(g)')
    BY <2>7 DEF RegistryInv, OfferedCoverOnlyCompleted, CoversOnlyCompleted
  <2>11. finished' \subseteq tickets' /\ \A x \in finished' \ finished : x.generation = g
    BY <2>1, <2>6 DEF RegistryInv, RegistryTypes
  <2> QED
    BY <2>1, <2>2, <2>6, <2>8, <2>9, <2>10, <2>11, TrackerStep
<1> QED
  BY <1>1, <1>2

(* A position is of the present ownership, or ignored.                     *)
LEMMA ConfirmRegistryInv ==
    ASSUME RegistryInv, NEW position \in offered, ReaderConfirm(position)
    PROVE  RegistryInv'
<1>1. CASE ~IsCurrent(position)
  BY <1>1, Unchanged DEF ReaderConfirm, ConfirmPosition, vars
<1>2. CASE IsCurrent(position)
  <2>1. PICK p, o, g, t : /\ p = position.partition /\ o = position.offset
                          /\ g = position.generation /\ t = partitions[p].tracker
    OBVIOUS
  <2>2. p \in DOMAIN partitions /\ g = partitions[p].generation
    BY <1>2, <2>1 DEF IsCurrent
  <2>3. o \in Nat /\ t \in Tracker /\ TrackerInv(t, RegisteredIn(g), CompletedIn(g))
    BY <2>1, <2>2, OwnedTracker DEF RegistryInv, RegistryTypes, CommitPosition, Offset
  <2>4. /\ partitions' = [partitions EXCEPT ![p].tracker = ConfirmCommit(t, o)]
        /\ UNCHANGED <<lastGeneration, tickets, finished, offered>>
    BY <1>2, <2>1, <2>2 DEF ReaderConfirm, ConfirmPosition
  <2>5. RegisteredIn(g)' = RegisteredIn(g) /\ CompletedIn(g)' = CompletedIn(g)
    BY <2>4 DEF RegisteredIn, CompletedIn
  <2>6. TrackerInv(ConfirmCommit(t, o), RegisteredIn(g)', CompletedIn(g)')
    BY <2>3, <2>5, ConfirmInv
  <2>7. ConfirmCommit(t, o).lastRegistered = t.lastRegistered
    BY <2>3 DEF ConfirmCommit, DropCovered, Tracker
  <2>8. \A x \in offered : x.generation = g =>
            CoversOnlyCompleted(x.offset, RegisteredIn(g)', CompletedIn(g)')
    BY <2>5 DEF RegistryInv, OfferedCoverOnlyCompleted
  <2>9. finished' \subseteq tickets'
    BY <2>4 DEF RegistryInv, RegistryTypes
  <2> QED
    BY <2>1, <2>2, <2>4, <2>6, <2>7, <2>8, <2>9, TrackerStep
<1> QED
  BY <1>1, <1>2

-----------------------------------------------------------------------------
LEMMA RegistryStep == RegistryInv /\ [Next]_vars => RegistryInv'
<1> SUFFICES ASSUME RegistryInv, [Next]_vars PROVE RegistryInv'
  OBVIOUS
<1>1. ASSUME NEW ps \in PartitionLists, ReaderAssign(ps) PROVE RegistryInv'
  BY <1>1, AssignInv
<1>2. ASSUME NEW S \in SUBSET PartitionKey, ReaderRevoke(S) PROVE RegistryInv'
  BY <1>2, OfferInv DEF ReaderRevoke, Revoke
<1>3. ASSUME NEW p \in PartitionKey, NEW o \in Offsets, ReaderRegister(p, o) PROVE RegistryInv'
  BY <1>3, RegisterRegistryInv
<1>4. ASSUME NEW ticket \in tickets, WorkerComplete(ticket) PROVE RegistryInv'
  BY <1>4, CompleteRegistryInv
<1>5. CASE ReaderCollect
  <2>1. partitions = Restrict(partitions, DOMAIN partitions \ {})
    BY DEF RegistryInv, RegistryTypes, Restrict
  <2> QED
    BY <1>5, <2>1, OfferInv DEF ReaderCollect, commitCandidates
<1>6. ASSUME NEW position \in offered, ReaderConfirm(position) PROVE RegistryInv'
  BY <1>6, ConfirmRegistryInv
<1>7. CASE UNCHANGED vars
  BY <1>7, Unchanged
<1> QED
  BY <1>1, <1>2, <1>3, <1>4, <1>5, <1>6, <1>7 DEF Next

LEMMA RegistryAlways == Spec => []RegistryInv
BY RegistryStart, RegistryStep, PTL DEF Spec

(* The tracker of an owned partition reflects this ownership exactly,      *)
(* whatever tickets and positions of earlier ownerships arrive meanwhile.  *)
THEOREM OwnershipsApart == Spec => []TrackersMatchOwnership
<1>1. RegistryInv => TrackersMatchOwnership
  BY DEF RegistryInv, OwnershipInv, TrackerAgrees, TrackerInv, TrackersMatchOwnership
<1> QED
  BY <1>1, RegistryAlways, PTL

(* A position commitCandidates or revoke ever handed out stays safe to     *)
(* commit, however late it is used: no record registered or completed      *)
(* afterwards, in this ownership or another, falls below it unfinished.    *)
THEOREM LateCommitSafe == Spec => []OfferedCoverOnlyCompleted
<1>1. RegistryInv => OfferedCoverOnlyCompleted
  BY DEF RegistryInv
<1> QED
  BY <1>1, RegistryAlways, PTL
=============================================================================
