------------------------ MODULE OffsetTrackerLemmas ------------------------
(***************************************************************************)
(* Lemmas about the operations of OffsetTracker as operators on values:    *)
(* each of them keeps a well-formed tracker well formed.                   *)
(***************************************************************************)
EXTENDS OffsetTracker, FiniteSetTheorems, SequenceTheorems,
        WellFoundedInduction, TLAPS

(* The types a tracker and its user's record of the calls have.            *)
WellTyped(t, registered, completed) ==
    /\ t \in Tracker
    /\ registered \subseteq Nat
    /\ completed \subseteq registered
    /\ IsFiniteSet(registered)

TrackerInv(t, registered, completed) ==
    /\ WellTyped(t, registered, completed)
    /\ Consistent(t, registered, completed)

-----------------------------------------------------------------------------
(* The loops of advancePrefix and confirmCommit *)

(* Min of a non-empty set of naturals is its least element.                *)
LEMMA MinOfNaturals ==
    ASSUME NEW S, S \subseteq Nat, S # {}
    PROVE  Min(S) \in S /\ \A y \in S : Min(S) <= y
<1>1. PICK x \in S : \A y \in S : ~(<<y, x>> \in OpToRel(<, Nat))
  BY NatLessThanWellFounded, WFMin
<1>2. ASSUME NEW y \in S PROVE x <= y
  <2>1. ~(<<y, x>> \in {ss \in Nat \X Nat : ss[1] < ss[2]})
    BY <1>1 DEF OpToRel
  <2> QED
    BY <2>1
<1> QED
  BY <1>2 DEF Min

(* advancePrefix stops at the end of the deque or at the first entry from  *)
(* _prefixDone on that is not done.                                        *)
LEMMA AdvancePrefixExit ==
    ASSUME NEW entries \in Seq(Entry), NEW k \in Nat, k <= Len(entries)
    PROVE  LET n == AdvancePrefix(entries, k)
           IN  /\ n \in k..Len(entries)
               /\ n < Len(entries) => ~entries[n + 1].done
               /\ \A i \in (k + 1)..n : entries[i].done
<1> DEFINE S == {n \in k..Len(entries) : n < Len(entries) => ~entries[n + 1].done}
           n == Min(S)
<1>1. Len(entries) \in S /\ S \subseteq Nat
  OBVIOUS
<1>2. n \in S /\ \A y \in S : n <= y
  BY <1>1, MinOfNaturals
<1>3. AdvancePrefix(entries, k) = n
  BY DEF AdvancePrefix, LoopExit
<1>4. ASSUME NEW i \in (k + 1)..n PROVE entries[i].done
  <2>1. i - 1 \in k..Len(entries) /\ i - 1 < n
    BY <1>2
  <2>2. i - 1 \notin S
    BY <2>1, <1>2
  <2> QED
    BY <2>1, <2>2, <1>2
<1> HIDE DEF n
<1> QED
  BY <1>2, <1>3, <1>4

(* The loop of confirmCommit pops the leading entries below the position.  *)
LEMMA DropCoveredExit ==
    ASSUME NEW entries \in Seq(Entry), NEW position \in Nat
    PROVE  LET n == CoveredPrefix(entries, position)
           IN  /\ n \in 0..Len(entries)
               /\ n < Len(entries) => entries[n + 1].offset >= position
               /\ \A i \in 1..n : entries[i].offset < position
<1> DEFINE S == {n \in 0..Len(entries) : n < Len(entries) => ~(entries[n + 1].offset < position)}
           n == Min(S)
<1>1. Len(entries) \in S /\ S \subseteq Nat
  OBVIOUS
<1>2. n \in S /\ \A y \in S : n <= y
  BY <1>1, MinOfNaturals
<1>3. CoveredPrefix(entries, position) = n
  BY DEF CoveredPrefix, LoopExit
<1>4. ASSUME NEW i \in 1..n PROVE entries[i].offset < position
  <2>1. i - 1 \in 0..Len(entries) /\ i - 1 < n
    BY <1>2
  <2>2. i - 1 \notin S
    BY <2>1, <1>2
  <2> QED
    BY <2>1, <2>2, <1>2
<1>5. n < Len(entries) => entries[n + 1].offset >= position
  <2> HIDE DEF n
  <2> SUFFICES ASSUME n < Len(entries) PROVE entries[n + 1].offset >= position
    OBVIOUS
  <2>1. n + 1 \in 1..Len(entries) /\ ~(entries[n + 1].offset < position)
    BY <1>2
  <2>2. entries[n + 1] \in Entry
    BY <2>1
  <2>3. entries[n + 1].offset \in Nat
    BY <2>2 DEF Entry, Offset
  <2> QED
    BY <2>1, <2>3
<1> HIDE DEF n
<1> QED
  BY <1>2, <1>3, <1>4, <1>5

-----------------------------------------------------------------------------
(* One lemma per operation *)

(* The types of a tracker's parts, as the provers need them.               *)
LEMMA TrackerTypes ==
    ASSUME NEW t \in Tracker
    PROVE  /\ t.entries \in Seq(Entry)
           /\ Len(t.entries) \in Nat
           /\ \A i \in 1..Len(t.entries) :
                 /\ t.entries[i] \in Entry
                 /\ t.entries[i].offset \in Nat
                 /\ t.entries[i].done \in BOOLEAN
           /\ t.prefixDone \in Nat
           /\ t.inFlight \in Nat
           /\ t.lastRegistered \in Optional(Nat)
           /\ t.committed \in Optional(Nat)
           /\ \A x \in t.lastRegistered : x \in Nat /\ t.lastRegistered = {x}
           /\ \A x \in t.committed : x \in Nat /\ t.committed = {x}
<1>1. t.entries \in Seq(Entry)
  BY DEF Tracker
<1>2. \A i \in 1..Len(t.entries) : t.entries[i] \in Entry
  BY <1>1
<1>3. \A i \in 1..Len(t.entries) : t.entries[i].offset \in Nat /\ t.entries[i].done \in BOOLEAN
  BY <1>2 DEF Entry, Offset
<1>4. t.lastRegistered \in Optional(Nat) /\ t.committed \in Optional(Nat)
  BY DEF Tracker, Offset
<1>5. t.prefixDone \in Nat /\ t.inFlight \in Nat /\ Len(t.entries) \in Nat
  BY <1>1 DEF Tracker
<1> QED
  BY <1>1, <1>2, <1>3, <1>4, <1>5 DEF Optional

(* A fresh tracker agrees with a user who has made no call.                *)
LEMMA NewTrackerInv == TrackerInv(NewTracker, {}, {})
<1>1. NewTracker \in Tracker
  BY DEF NewTracker, Tracker, Optional, Offset
<1>2. Cardinality({} \ {}) = 0 /\ IsFiniteSet({})
  <2>1. {} \ {} = {}
    OBVIOUS
  <2> QED
    BY <2>1, FS_EmptySet
<1>3. InFlightExact(NewTracker, {}, {})
  BY <1>2 DEF InFlightExact, NewTracker
<1>4. Sorted(NewTracker) /\ PrefixMaximal(NewTracker)
  BY DEF Sorted, PrefixMaximal, NewTracker
<1>5. CommittedWithinRegistered(NewTracker) /\ EntriesMatch(NewTracker, {}, {})
  BY DEF CommittedWithinRegistered, EntriesMatch, NewTracker
<1> QED
  BY <1>1, <1>2, <1>3, <1>4, <1>5 DEF TrackerInv, WellTyped, Consistent

(* registerRecord: the accepted offset is above everything registered      *)
(* before, so the deque stays sorted.                                      *)
LEMMA RegisterInv ==
    ASSUME NEW t, NEW registered, NEW completed,
           TrackerInv(t, registered, completed),
           NEW o \in Nat, RegisterResult(t, o) = Ok
    PROVE  TrackerInv(Register(t, o), registered \cup {o}, completed)
<1> DEFINE u == Register(t, o)
           e == [offset |-> o, done |-> FALSE]
<1>0. WellTyped(t, registered, completed) /\ Consistent(t, registered, completed)
  BY DEF TrackerInv
<1>1. t \in Tracker /\ registered \subseteq Nat /\ completed \subseteq registered
      /\ IsFiniteSet(registered)
  BY <1>0 DEF WellTyped
<1>t. USE <1>1
<1>2. \A last \in t.lastRegistered : last \in Nat /\ last < o
  <2>1. ~ \E last \in t.lastRegistered : o <= last
    BY DEF RegisterResult, Ok, OutOfOrderRegistration
  <2> QED
    BY <2>1, TrackerTypes
<1>3. \A r \in registered : r < o
  BY <1>0, <1>2 DEF Consistent, EntriesMatch
<1>4. o \notin registered /\ o \notin completed
  BY <1>3
<1>5. \A i \in 1..Len(t.entries) : t.entries[i].offset < o
  BY <1>0, <1>3 DEF Consistent, EntriesMatch
<1>6. e \in Entry
  BY DEF Entry, Offset
<1>7. /\ u.entries = Append(t.entries, e)
      /\ u.lastRegistered = {o}
      /\ u.inFlight = t.inFlight + 1
      /\ u.prefixDone = t.prefixDone
      /\ u.committed = t.committed
  BY DEF Register, Tracker
<1>8. u \in Tracker
  <2>1. Append(t.entries, e) \in Seq(Entry)
    BY <1>6, TrackerTypes
  <2>2. {o} \in Optional(Offset)
    BY DEF Optional, Offset
  <2>3. t.inFlight + 1 \in Nat
    BY TrackerTypes
  <2> QED
    BY <2>1, <2>2, <2>3 DEF Register, Tracker
<1>9. /\ Len(u.entries) = Len(t.entries) + 1
      /\ \A i \in 1..Len(t.entries) : u.entries[i] = t.entries[i]
      /\ u.entries[Len(t.entries) + 1] = e
      /\ Len(t.entries) \in Nat
  BY <1>6, <1>7, TrackerTypes
<1>10. e.offset = o /\ e.done = FALSE
  OBVIOUS
<1> HIDE DEF u, e
<1>11. WellTyped(u, registered \cup {o}, completed)
  <2>1. IsFiniteSet(registered \cup {o})
    BY FS_AddElement
  <2> QED
    BY <1>8, <2>1 DEF WellTyped
<1>12. Sorted(u)
  <2>1. ASSUME NEW i \in 1..Len(u.entries), NEW j \in 1..Len(u.entries), i < j
        PROVE  u.entries[i].offset < u.entries[j].offset
    <3>1. i \in 1..Len(t.entries)
      BY <2>1, <1>9
    <3>2. CASE j \in 1..Len(t.entries)
      BY <2>1, <3>1, <3>2, <1>9, <1>0 DEF Consistent, Sorted
    <3>3. CASE j = Len(t.entries) + 1
      BY <3>1, <3>3, <1>9, <1>10, <1>5
    <3> QED
      BY <3>2, <3>3, <1>9
  <2>2. ASSUME NEW i \in 1..Len(u.entries) PROVE u.entries[i].offset <= o
    <3>1. CASE i \in 1..Len(t.entries)
      <4>1. t.entries[i].offset \in Nat
        BY <3>1, TrackerTypes
      <4> QED
        BY <3>1, <4>1, <1>9, <1>5
    <3>2. CASE i = Len(t.entries) + 1
      BY <3>2, <1>9, <1>10
    <3> QED
      BY <3>1, <3>2, <1>9
  <2> QED
    BY <2>1, <2>2, <1>7 DEF Sorted
<1>13. PrefixMaximal(u)
  <2>1. t.prefixDone \in Nat
    BY TrackerTypes
  <2>2. CASE t.prefixDone < Len(t.entries)
    BY <2>1, <2>2, <1>0, <1>7, <1>9, <1>10 DEF Consistent, PrefixMaximal
  <2>3. CASE t.prefixDone = Len(t.entries)
    BY <2>1, <2>3, <1>0, <1>7, <1>9, <1>10 DEF Consistent, PrefixMaximal
  <2> QED
    BY <2>1, <2>2, <2>3, <1>0, <1>9 DEF Consistent, PrefixMaximal
<1>14. CommittedWithinRegistered(u)
  <2> SUFFICES ASSUME NEW c \in t.committed PROVE c <= o + 1
    BY <1>7 DEF CommittedWithinRegistered
  <2>1. PICK last \in t.lastRegistered : c <= last + 1
    BY <1>0 DEF Consistent, CommittedWithinRegistered
  <2>2. c \in Nat
    BY TrackerTypes
  <2> QED
    BY <2>1, <2>2, <1>2
<1>15. ~Covered(u, o)
  <2> SUFFICES ASSUME NEW c \in t.committed PROVE ~(o < c)
    BY <1>7 DEF Covered
  <2>1. PICK last \in t.lastRegistered : c <= last + 1
    BY <1>0 DEF Consistent, CommittedWithinRegistered
  <2>2. c \in Nat
    BY TrackerTypes
  <2> QED
    BY <2>1, <2>2, <1>2
<1>16. EntriesMatch(u, registered \cup {o}, completed)
  <2>1. \A x : Covered(u, x) <=> Covered(t, x)
    BY <1>7 DEF Covered
  <2>2. \A x : Has(t, x) => Has(u, x)
    BY <1>9 DEF Has
  <2>3. Has(u, o)
    BY <1>9, <1>10 DEF Has
  <2>4. ASSUME NEW i \in 1..Len(u.entries)
        PROVE  /\ u.entries[i].offset \in registered \cup {o}
               /\ ~Covered(u, u.entries[i].offset)
               /\ u.entries[i].done <=> u.entries[i].offset \in completed
    <3>1. CASE i \in 1..Len(t.entries)
      BY <3>1, <2>1, <1>9, <1>0 DEF Consistent, EntriesMatch
    <3>2. CASE i = Len(t.entries) + 1
      BY <3>2, <1>4, <1>9, <1>10, <1>15
    <3> QED
      BY <3>1, <3>2, <1>9
  <2>5. \A x \in registered \cup {o} : Covered(u, x) \/ Has(u, x)
    BY <2>1, <2>2, <2>3, <1>0 DEF Consistent, EntriesMatch
  <2>6. \A x \in registered \cup {o} : Covered(u, x) => x \in completed
    BY <2>1, <1>15, <1>0 DEF Consistent, EntriesMatch
  <2>7. \A x \in registered \cup {o} : \E last \in u.lastRegistered : x <= last
    BY <1>3, <1>7
  <2> QED
    BY <2>4, <2>5, <2>6, <2>7 DEF EntriesMatch
<1>17. InFlightExact(u, registered \cup {o}, completed)
  <2>1. (registered \cup {o}) \ completed = (registered \ completed) \cup {o}
    BY <1>4
  <2>2. IsFiniteSet(registered \ completed)
    BY FS_Subset
  <2>3. Cardinality((registered \ completed) \cup {o}) = Cardinality(registered \ completed) + 1
    BY <2>2, <1>4, FS_AddElement
  <2> QED
    BY <2>1, <2>3, <1>0, <1>7 DEF Consistent, InFlightExact
<1> QED
  BY <1>11, <1>12, <1>13, <1>14, <1>16, <1>17 DEF TrackerInv, Consistent, u

(* complete: only the entry with that offset changes, and the prefix is    *)
(* recomputed; a completion that finds nothing to do changes nothing.      *)
LEMMA CompleteInv ==
    ASSUME NEW t, NEW registered, NEW completed,
           TrackerInv(t, registered, completed), NEW o \in Nat
    PROVE  TrackerInv(Complete(t, o), registered, completed \cup (registered \cap {o}))
<1> DEFINE done == completed \cup (registered \cap {o})
<1>0. WellTyped(t, registered, completed) /\ Consistent(t, registered, completed)
  BY DEF TrackerInv
<1>1. t \in Tracker /\ registered \subseteq Nat /\ completed \subseteq registered
      /\ IsFiniteSet(registered)
  BY <1>0 DEF WellTyped
<1>t. USE <1>1
<1>2. CASE ~(/\ ~Covered(t, o)
             /\ \E i \in 1..Len(t.entries) : t.entries[i].offset = o /\ ~t.entries[i].done)
  <2>1. Complete(t, o) = t
    BY <1>2 DEF Complete
  <2>2. o \in registered => o \in completed
    <3>1. CASE Covered(t, o)
      BY <3>1, <1>0 DEF Consistent, EntriesMatch
    <3>2. CASE ~Covered(t, o)
      BY <3>2, <1>2, <1>0 DEF Consistent, EntriesMatch, Has
    <3> QED
      BY <3>1, <3>2
  <2>3. done = completed
    BY <2>2
  <2> QED
    BY <2>1, <2>3
<1>3. CASE /\ ~Covered(t, o)
           /\ \E i \in 1..Len(t.entries) : t.entries[i].offset = o /\ ~t.entries[i].done
  <2> DEFINE k == CHOOSE i \in 1..Len(t.entries) : t.entries[i].offset = o
             entries == [t.entries EXCEPT ![k].done = TRUE]
             n == AdvancePrefix(entries, t.prefixDone)
             u == MarkDone(t, k)
  <2>1. Complete(t, o) = u
    BY <1>3 DEF Complete
  <2>2. k \in 1..Len(t.entries) /\ t.entries[k].offset = o
    BY <1>3
  <2>3. ~t.entries[k].done
    <3>1. PICK i \in 1..Len(t.entries) : t.entries[i].offset = o /\ ~t.entries[i].done
      BY <1>3
    <3>2. \A x, y \in 1..Len(t.entries) : x < y => t.entries[x].offset < t.entries[y].offset
      BY <1>0 DEF Consistent, Sorted
    <3>3. ~(i < k) /\ ~(k < i)
      BY <2>2, <3>1, <3>2
    <3>4. i = k
      BY <3>3, <2>2, TrackerTypes
    <3> QED
      BY <3>1, <3>4
  <2>4. o \in registered /\ o \notin completed
    BY <2>2, <2>3, <1>0 DEF Consistent, EntriesMatch
  <2> HIDE DEF k
  <2>5. /\ entries \in Seq(Entry)
        /\ Len(entries) = Len(t.entries)
        /\ \A i \in 1..Len(t.entries) : entries[i].offset = t.entries[i].offset
        /\ \A i \in 1..Len(t.entries) : i # k => entries[i] = t.entries[i]
        /\ entries[k].done = TRUE
    <3>1. t.entries[k] \in Entry /\ t.entries \in Seq(Entry)
      BY <2>2, TrackerTypes
    <3>2. [t.entries[k] EXCEPT !.done = TRUE] \in Entry
      BY <3>1 DEF Entry
    <3>3. entries \in Seq(Entry) /\ Len(entries) = Len(t.entries)
      BY <3>1, <3>2, <2>2
    <3>4. \A i \in 1..Len(t.entries) : i # k => entries[i] = t.entries[i]
      BY <3>1, <2>2
    <3>5. entries[k].done = TRUE /\ entries[k].offset = t.entries[k].offset
      BY <3>1, <2>2 DEF Entry
    <3> QED
      BY <3>3, <3>4, <3>5
  <2> HIDE DEF entries
  <2>6. t.prefixDone \in Nat /\ t.prefixDone <= Len(entries)
    BY <2>5, <1>0, TrackerTypes DEF Consistent, PrefixMaximal
  <2>7. /\ n \in t.prefixDone..Len(entries)
        /\ n < Len(entries) => ~entries[n + 1].done
        /\ \A i \in (t.prefixDone + 1)..n : entries[i].done
    BY <2>5, <2>6, AdvancePrefixExit
  <2> HIDE DEF n
  <2>8. /\ u.entries = entries
        /\ u.inFlight = t.inFlight - 1
        /\ u.prefixDone = n
        /\ u.lastRegistered = t.lastRegistered
        /\ u.committed = t.committed
    BY DEF MarkDone, Tracker, n, entries
  <2>9. IsFiniteSet(registered \ completed) /\ o \in registered \ completed
    BY <2>4, FS_Subset
  <2>10. Cardinality((registered \ completed) \ {o}) = Cardinality(registered \ completed) - 1
    BY <2>9, FS_RemoveElement
  <2>11. t.inFlight = Cardinality(registered \ completed) /\ t.inFlight \in Nat
    BY <1>0, TrackerTypes DEF Consistent, InFlightExact
  <2>12. InFlightExact(u, registered, done)
    <3>1. registered \ done = (registered \ completed) \ {o}
      OBVIOUS
    <3> QED
      BY <3>1, <2>8, <2>10, <2>11 DEF InFlightExact
  <2>13. u.inFlight \in Nat
    <3>1. IsFiniteSet((registered \ completed) \ {o})
      BY <2>9, FS_Subset
    <3>2. Cardinality((registered \ completed) \ {o}) \in Nat
      BY <3>1, FS_CardinalityType
    <3> QED
      BY <3>2, <2>8, <2>10, <2>11
  <2>14. u \in Tracker
    <3>1. n \in Nat /\ t.inFlight - 1 \in Nat
      BY <2>5, <2>6, <2>7, <2>8, <2>13
    <3>2. u = [[[t EXCEPT !.entries = entries] EXCEPT !.inFlight = t.inFlight - 1]
                  EXCEPT !.prefixDone = n]
      BY DEF MarkDone, Tracker, n, entries
    <3> HIDE DEF u
    <3> QED
      BY <3>1, <3>2, <2>5 DEF Tracker
  <2> HIDE DEF u
  <2>15. WellTyped(u, registered, done)
    BY <2>14 DEF WellTyped
  <2>16. Sorted(u)
    BY <1>0, <2>5, <2>8 DEF Consistent, Sorted
  <2>17. PrefixMaximal(u)
    <3>1. \A i \in 1..t.prefixDone : entries[i].done
      <4> SUFFICES ASSUME NEW i \in 1..t.prefixDone PROVE entries[i].done
        OBVIOUS
      <4>1. t.entries[i].done /\ i \in 1..Len(t.entries)
        BY <1>0, <2>5, <2>6 DEF Consistent, PrefixMaximal
      <4> QED
        BY <4>1, <2>3, <2>5
    <3>2. \A i \in 1..n : entries[i].done
      BY <3>1, <2>6, <2>7
    <3> QED
      BY <3>2, <2>6, <2>7, <2>8 DEF PrefixMaximal
  <2>18. CommittedWithinRegistered(u)
    BY <1>0, <2>8 DEF Consistent, CommittedWithinRegistered
  <2>19. EntriesMatch(u, registered, done)
    <3>1. \A x : Covered(u, x) <=> Covered(t, x)
      BY <2>8 DEF Covered
    <3>2. \A x : Has(t, x) <=> Has(u, x)
      BY <2>5, <2>8 DEF Has
    <3>3. ASSUME NEW i \in 1..Len(u.entries)
          PROVE  u.entries[i].done <=> u.entries[i].offset \in done
      <4>1. CASE i = k
        BY <4>1, <2>2, <2>4, <2>5, <2>8
      <4>2. CASE i # k
        <5>1. u.entries[i] = t.entries[i] /\ i \in 1..Len(t.entries)
          BY <4>2, <2>5, <2>8
        <5>2. t.entries[i].offset # o
          <6>1. \A x, y \in 1..Len(t.entries) : x < y => t.entries[x].offset < t.entries[y].offset
            BY <1>0 DEF Consistent, Sorted
          <6>2. i < k \/ k < i
            BY <4>2, <5>1, <2>2
          <6> QED
            BY <6>1, <6>2, <5>1, <2>2, TrackerTypes
        <5>3. t.entries[i].done <=> t.entries[i].offset \in completed
          BY <5>1, <1>0 DEF Consistent, EntriesMatch
        <5> QED
          BY <5>1, <5>2, <5>3
      <4> QED
        BY <4>1, <4>2
    <3>4. \A i \in 1..Len(u.entries) : /\ u.entries[i].offset \in registered
                                       /\ ~Covered(u, u.entries[i].offset)
      BY <3>1, <2>5, <2>8, <1>0 DEF Consistent, EntriesMatch
    <3>5. \A x \in registered : Covered(u, x) \/ Has(u, x)
      BY <3>1, <3>2, <1>0 DEF Consistent, EntriesMatch
    <3>6. \A x \in registered : Covered(u, x) => x \in done
      BY <3>1, <1>0 DEF Consistent, EntriesMatch
    <3>7. \A x \in registered : \E last \in u.lastRegistered : x <= last
      BY <2>8, <1>0 DEF Consistent, EntriesMatch
    <3> HIDE DEF done
    <3> QED
      BY <3>3, <3>4, <3>5, <3>6, <3>7 DEF EntriesMatch
  <2> HIDE DEF done
  <2>20. TrackerInv(u, registered, done)
    BY <2>12, <2>15, <2>16, <2>17, <2>18, <2>19 DEF TrackerInv, Consistent
  <2> QED
    BY <2>1, <2>20 DEF done
<1> QED
  BY <1>2, <1>3

(* confirmCommit: a position within the watermark pops finished entries    *)
(* only, so _prefixDone cannot underflow; any other position changes       *)
(* nothing.                                                                *)
LEMMA ConfirmInv ==
    ASSUME NEW t, NEW registered, NEW completed,
           TrackerInv(t, registered, completed), NEW position \in Nat
    PROVE  TrackerInv(ConfirmCommit(t, position), registered, completed)
<1>0. WellTyped(t, registered, completed) /\ Consistent(t, registered, completed)
  BY DEF TrackerInv
<1>1. t \in Tracker /\ registered \subseteq Nat /\ completed \subseteq registered
  BY <1>0 DEF WellTyped
<1>t. USE <1>1
<1>2. CASE ~(~AlreadyCommitted(t, position) /\ ConfirmResult(t, position) = Ok)
  BY <1>2 DEF ConfirmCommit
<1>3. CASE ~AlreadyCommitted(t, position) /\ ConfirmResult(t, position) = Ok
  <2> DEFINE es == t.entries
             n == CoveredPrefix(es, position)
             u == DropCovered(t, position)
  <2>1. ConfirmCommit(t, position) = u
    BY <1>3 DEF ConfirmCommit
  <2>2. PICK watermark \in CommitCandidate(t) : position <= watermark
    BY <1>3 DEF ConfirmResult, Ok, CommitBeyondWatermark
  <2>3. /\ t.prefixDone \in 1..Len(es)
        /\ position <= es[t.prefixDone].offset + 1
    <3>1. t.prefixDone # 0 /\ watermark = es[t.prefixDone].offset + 1
      BY <2>2 DEF CommitCandidate
    <3> QED
      BY <3>1, <2>2, <1>0, TrackerTypes DEF Consistent, PrefixMaximal
  <2>4. /\ n \in 0..Len(es)
        /\ n < Len(es) => es[n + 1].offset >= position
        /\ \A i \in 1..n : es[i].offset < position
    BY TrackerTypes, DropCoveredExit
  <2> HIDE DEF n
  <2>5. \A i, j \in 1..Len(es) : i < j => es[i].offset < es[j].offset
    BY <1>0 DEF Consistent, Sorted
  <2>6. \A i \in 1..Len(es) : es[i].offset \in Nat
    BY TrackerTypes
  <2>7. n <= t.prefixDone
    <3> SUFFICES ASSUME n > t.prefixDone PROVE FALSE
      BY <2>3, <2>4
    <3>1. n \in 1..Len(es) /\ es[t.prefixDone].offset < es[n].offset
      BY <2>3, <2>4, <2>5
    <3>2. es[n].offset < position
      BY <3>1, <2>4
    <3> QED
      BY <3>1, <3>2, <2>3, <2>6
  <2>8. \A i \in 1..Len(es) : i > n => es[i].offset >= position
    <3> SUFFICES ASSUME NEW i \in 1..Len(es), i > n PROVE es[i].offset >= position
      OBVIOUS
    <3>1. n + 1 \in 1..Len(es) /\ es[n + 1].offset >= position
      BY <2>4
    <3>2. i = n + 1 \/ n + 1 < i
      BY <2>4
    <3> QED
      BY <3>1, <3>2, <2>5, <2>6
  <2>9. /\ u.entries = SubSeq(es, n + 1, Len(es))
        /\ u.prefixDone = t.prefixDone - n
        /\ u.inFlight = t.inFlight
        /\ u.lastRegistered = t.lastRegistered
        /\ u.committed = {position}
    BY DEF DropCovered, Tracker, n
  <2>10. /\ SubSeq(es, n + 1, Len(es)) \in Seq(Entry)
         /\ Len(SubSeq(es, n + 1, Len(es))) = Len(es) - n
         /\ \A i \in 1..(Len(es) - n) : SubSeq(es, n + 1, Len(es))[i] = es[n + i]
    <3> HIDE DEF es
    <3>1. n \in Int /\ n + 1 \in Int /\ Len(es) \in Int
      BY <2>4, TrackerTypes DEF es
    <3>2. \A i \in (n + 1)..Len(es) : es[i] \in Entry
      BY <2>4, TrackerTypes DEF es
    <3>3. /\ SubSeq(es, n + 1, Len(es)) \in Seq(Entry)
          /\ Len(SubSeq(es, n + 1, Len(es))) = IF n + 1 <= Len(es) THEN Len(es) - (n + 1) + 1 ELSE 0
          /\ \A i \in 1..(Len(es) - (n + 1) + 1) :
                SubSeq(es, n + 1, Len(es))[i] = es[(n + 1) + i - 1]
      BY <3>1, <3>2, SubSeqProperties
    <3>4. \A i \in 1..(Len(es) - n) : i \in 1..(Len(es) - (n + 1) + 1) /\ (n + 1) + i - 1 = n + i
      BY <3>1
    <3> QED
      BY <2>4, <3>1, <3>3, <3>4
  <2>11. t.prefixDone - n \in Nat
    BY <2>3, <2>4, <2>7
  <2>12. u \in Tracker
    <3>1. {position} \in Optional(Offset)
      BY DEF Optional, Offset
    <3>2. u = [[[t EXCEPT !.entries = SubSeq(es, n + 1, Len(es))]
                  EXCEPT !.prefixDone = t.prefixDone - n]
                  EXCEPT !.committed = {position}]
      BY DEF DropCovered, Tracker, n
    <3> HIDE DEF u
    <3> QED
      BY <3>1, <3>2, <2>10, <2>11 DEF Tracker
  <2> HIDE DEF u
  <2>13. /\ Len(u.entries) = Len(es) - n
         /\ \A i \in 1..Len(u.entries) : u.entries[i] = es[n + i] /\ n + i \in 1..Len(es)
    BY <2>4, <2>9, <2>10
  <2> HIDE DEF es
  <2>14. WellTyped(u, registered, completed)
    BY <1>0, <2>12 DEF WellTyped
  <2>15. Sorted(u)
    <3>1. ASSUME NEW i \in 1..Len(u.entries), NEW j \in 1..Len(u.entries), i < j
          PROVE  u.entries[i].offset < u.entries[j].offset
      <4>1. n + i < n + j
        BY <3>1, <2>4, <2>13
      <4> QED
        BY <4>1, <2>5, <2>13
    <3>2. \A i \in 1..Len(u.entries) : \E last \in u.lastRegistered :
             u.entries[i].offset <= last
      BY <1>0, <2>9, <2>13 DEF Consistent, Sorted, es
    <3> QED
      BY <3>1, <3>2 DEF Sorted
  <2>16. PrefixMaximal(u)
    <3>1. u.prefixDone <= Len(u.entries)
      BY <2>3, <2>4, <2>9, <2>13
    <3>2. ASSUME NEW i \in 1..u.prefixDone PROVE u.entries[i].done
      <4>1. n + i \in 1..t.prefixDone /\ i \in 1..Len(u.entries)
        BY <3>1, <2>3, <2>4, <2>9, <2>11, <2>13
      <4>2. es[n + i].done
        BY <4>1, <1>0 DEF Consistent, PrefixMaximal, es
      <4> QED
        BY <4>1, <4>2, <2>13
    <3>3. ASSUME u.prefixDone < Len(u.entries) PROVE ~u.entries[u.prefixDone + 1].done
      <4>1. t.prefixDone < Len(es) /\ u.prefixDone + 1 \in 1..Len(u.entries)
            /\ n + (u.prefixDone + 1) = t.prefixDone + 1
        <5>1. u.prefixDone \in Nat /\ Len(u.entries) = Len(es) - n /\ u.prefixDone = t.prefixDone - n
          BY <2>9, <2>11, <2>13
        <5>2. n \in Nat /\ t.prefixDone \in Nat /\ Len(es) \in Nat
          BY <2>3, <2>4, TrackerTypes DEF es
        <5> QED
          BY <3>3, <5>1, <5>2
      <4>2. ~es[t.prefixDone + 1].done
        BY <4>1, <1>0 DEF Consistent, PrefixMaximal, es
      <4> QED
        BY <4>1, <4>2, <2>13
    <3> QED
      BY <3>1, <3>2, <3>3 DEF PrefixMaximal
  <2>17. CommittedWithinRegistered(u)
    <3>1. PICK last \in t.lastRegistered : es[t.prefixDone].offset <= last
      BY <1>0, <2>3 DEF Consistent, Sorted, es
    <3>2. position <= last + 1
      <4>1. last \in Nat /\ es[t.prefixDone].offset \in Nat
        BY <2>3, <2>6, TrackerTypes
      <4> QED
        BY <4>1, <3>1, <2>3
    <3> QED
      BY <3>2, <2>9 DEF CommittedWithinRegistered
  <2>18. EntriesMatch(u, registered, completed)
    <3>1. \A x : Covered(u, x) <=> x < position
      BY <2>9 DEF Covered
    <3>2. ASSUME NEW i \in 1..Len(u.entries)
          PROVE  /\ u.entries[i].offset \in registered
                 /\ ~Covered(u, u.entries[i].offset)
                 /\ u.entries[i].done <=> u.entries[i].offset \in completed
      <4>1. u.entries[i] = es[n + i] /\ n + i \in 1..Len(es) /\ n + i > n
        BY <2>4, <2>13
      <4>2. es[n + i].offset \in registered
            /\ (es[n + i].done <=> es[n + i].offset \in completed)
        BY <4>1, <1>0 DEF Consistent, EntriesMatch, es
      <4>3. es[n + i].offset >= position /\ es[n + i].offset \in Nat
        BY <4>1, <2>6, <2>8
      <4> QED
        BY <4>1, <4>2, <4>3, <3>1
    <3>3. ASSUME NEW x \in registered, ~Covered(u, x) PROVE Has(u, x)
      <4>1. x >= position /\ ~Covered(t, x)
        <5>1. \A c \in t.committed : c \in Nat /\ c < position
          BY <1>3, TrackerTypes DEF AlreadyCommitted
        <5>2. x \in Nat /\ ~(x < position)
          BY <3>1, <3>3
        <5>3. x >= position
          BY <5>2
        <5>4. ASSUME NEW c \in t.committed PROVE ~(x < c)
          BY <5>1, <5>2
        <5> QED
          BY <5>3, <5>4 DEF Covered
      <4>2. PICK i \in 1..Len(es) : es[i].offset = x
        BY <4>1, <1>0 DEF Consistent, EntriesMatch, Has, es
      <4>3. i > n
        BY <4>1, <4>2, <2>4, <2>6
      <4>4. i - n \in 1..Len(u.entries) /\ n + (i - n) = i
        BY <4>3, <2>4, <2>13
      <4>5. u.entries[i - n] = es[i]
        BY <4>4, <2>13
      <4> QED
        BY <4>2, <4>4, <4>5 DEF Has
    <3>4. ASSUME NEW x \in registered, Covered(u, x) PROVE x \in completed
      <4>1. CASE Covered(t, x)
        BY <4>1, <1>0 DEF Consistent, EntriesMatch
      <4>2. CASE ~Covered(t, x)
        <5>1. PICK i \in 1..Len(es) : es[i].offset = x
          BY <4>2, <1>0 DEF Consistent, EntriesMatch, Has, es
        <5>2. x < position
          BY <3>1, <3>4
        <5>3. i <= n
          BY <5>1, <5>2, <2>4, <2>8
        <5>4. es[i].done
          BY <5>3, <2>4, <2>7, <2>3, <1>0 DEF Consistent, PrefixMaximal, es
        <5> QED
          BY <5>1, <5>4, <1>0 DEF Consistent, EntriesMatch, es
      <4> QED
        BY <4>1, <4>2
    <3>5. \A x \in registered : \E last \in u.lastRegistered : x <= last
      BY <2>9, <1>0 DEF Consistent, EntriesMatch
    <3> QED
      BY <3>2, <3>3, <3>4, <3>5 DEF EntriesMatch
  <2>19. InFlightExact(u, registered, completed)
    BY <1>0, <2>9 DEF Consistent, InFlightExact
  <2> QED
    BY <2>1, <2>14, <2>15, <2>16, <2>17, <2>18, <2>19 DEF TrackerInv, Consistent
<1> QED
  BY <1>2, <1>3

(* commitCandidate and the committed position cover completed records      *)
(* only.                                                                   *)
LEMMA CandidateSafe ==
    ASSUME NEW t, NEW registered, NEW completed,
           TrackerInv(t, registered, completed),
           NEW position \in CommitCandidate(t) \cup t.committed
    PROVE  position \in Nat /\ CoversOnlyCompleted(position, registered, completed)
<1>0. WellTyped(t, registered, completed) /\ Consistent(t, registered, completed)
  BY DEF TrackerInv
<1>1. t \in Tracker /\ registered \subseteq Nat
  BY <1>0 DEF WellTyped
<1>2. CASE position \in t.committed
  <2>1. \A o \in registered : o < position => Covered(t, o)
    BY <1>2 DEF Covered
  <2> QED
    BY <1>0, <1>1, <1>2, <2>1, TrackerTypes DEF Consistent, EntriesMatch, CoversOnlyCompleted
<1>3. CASE position \in CommitCandidate(t)
  <2>1. /\ t.prefixDone \in 1..Len(t.entries)
        /\ position = t.entries[t.prefixDone].offset + 1
    BY <1>0, <1>1, <1>3, TrackerTypes DEF CommitCandidate, Consistent, PrefixMaximal
  <2>2. \A i \in 1..Len(t.entries) : t.entries[i].offset \in Nat
    BY <1>1, TrackerTypes
  <2>3. ASSUME NEW o \in registered, o < position PROVE o \in completed
    <3>1. CASE Covered(t, o)
      BY <3>1, <1>0 DEF Consistent, EntriesMatch
    <3>2. CASE ~Covered(t, o)
      <4>1. PICK i \in 1..Len(t.entries) : t.entries[i].offset = o
        BY <3>2, <1>0 DEF Consistent, EntriesMatch, Has
      <4>2. ~(t.prefixDone < i)
        <5> SUFFICES ASSUME t.prefixDone < i PROVE FALSE
          OBVIOUS
        <5>1. t.entries[t.prefixDone].offset < t.entries[i].offset
          BY <2>1, <1>0 DEF Consistent, Sorted
        <5> QED
          BY <5>1, <4>1, <2>1, <2>2, <2>3
      <4>3. t.entries[i].done
        BY <4>2, <2>1, <1>0 DEF Consistent, PrefixMaximal
      <4> QED
        BY <4>1, <4>3, <1>0 DEF Consistent, EntriesMatch
    <3> QED
      BY <3>1, <3>2
  <2> QED
    BY <2>1, <2>2, <2>3 DEF CoversOnlyCompleted
<1> QED
  BY <1>2, <1>3
=============================================================================
