----------------------- MODULE OutboxPublisherProofs -----------------------
(***************************************************************************)
(* The outbox loses no event and duplicates one only for a reason, for any *)
(* number of replicas, rows and faults and every batch size.               *)
(***************************************************************************)
EXTENDS OutboxPublisher, FiniteSetTheorems, TLAPS

Future == [row : Rows, state : {"open", "ok", "failed"}]

(* The futures of one batch.                                               *)
Holds(futures, r, states) ==
    \E i \in 1..Len(futures) : futures[i].row = r /\ futures[i].state \in states

RowsDistinct(futures) ==
    \A i, j \in 1..Len(futures) : futures[i].row = futures[j].row => i = j

OutboxTypes ==
    /\ inserted \subseteq Rows
    /\ published \subseteq Rows
    /\ locked \in [Publishers -> SUBSET Rows]
    /\ copies \in [Rows -> Nat]
    /\ late \in [Rows -> Nat]
    /\ pc \in [Publishers -> {"loop", "fetch", "await", "sleep", "finished"}]
    /\ pending \in [Publishers -> Seq(Future)]
    /\ faults \in [Rows -> Nat]

(* What holds of one replica: it has futures only while it awaits them,    *)
(* one for each row of its batch; what it was told is delivered is; and    *)
(* nobody marks the rows its SELECT holds.                                 *)
ReplicaInv(p) ==
    /\ pc[p] # "await" => pending[p] = <<>>
    /\ RowsDistinct(pending[p])
    /\ \A r \in Rows : Holds(pending[p], r, {"ok"}) => copies[r] > 0
    /\ locked[p] \cap published = {}

(* The replicas whose producer holds a record of r, and the ones that may  *)
(* still be the reason of one: they fetched r, and neither a failed report *)
(* nor a lost connection has been counted as a fault for it.               *)
OpenAt(r) == {p \in Publishers : Holds(pending[p], r, {"open"})}
Excused(r) ==
    {p \in Publishers \ disconnected : Holds(pending[p], r, {"open", "ok"})}

(* While r is not marked, every record of it is explained by a fault or by *)
(* a replica that has r in its hands.  Once it is marked nobody fetches it *)
(* again, so the bound by the number of replicas stays.                    *)
RowExplained(r) ==
    copies[r] + late[r] + Cardinality(OpenAt(r)) <=
        faults[r] + Cardinality(IF r \in published THEN Publishers ELSE Excused(r))

OutboxInv ==
    /\ OutboxTypes
    /\ \A p \in Publishers : ReplicaInv(p)
    /\ \A r \in Rows \ Unpublishable : RowExplained(r)
    /\ PublishedWasDelivered

(* Nothing is fetched, published or under way at the start.                *)
LEMMA OutboxInit == Init => OutboxInv
<1> SUFFICES ASSUME Init PROVE OutboxInv
  OBVIOUS
<1>1. OutboxTypes
  BY OutboxAssumption DEF Init, OutboxTypes
<1>2. \A p \in Publishers : pending[p] = <<>> /\ locked[p] = {}
  BY DEF Init
<1>3. \A p \in Publishers : ReplicaInv(p)
  BY <1>2 DEF ReplicaInv, RowsDistinct, Holds
<1>4. ASSUME NEW r \in Rows \ Unpublishable PROVE RowExplained(r)
  <2>1. OpenAt(r) = {} /\ Excused(r) = {}
    BY <1>2 DEF OpenAt, Excused, Holds
  <2> QED
    BY <2>1, FS_EmptySet DEF RowExplained, Init
<1> QED
  BY <1>1, <1>3, <1>4 DEF OutboxInv, PublishedWasDelivered, Init

-----------------------------------------------------------------------------
(* The futures of a batch as sequences.                                    *)

(* A row has one future, so the head of the batch speaks for its row.      *)
LEMMA HeadHolds ==
    ASSUME NEW s \in Seq(Future), s # <<>>, RowsDistinct(s), NEW states
    PROVE  Head(s) \in Future /\ (Holds(s, Head(s).row, states) <=> Head(s).state \in states)
<1>1. 1 \in 1..Len(s) /\ Head(s) = s[1]
  OBVIOUS
<1> QED
  BY <1>1 DEF Holds, RowsDistinct

(* The loop is done with its first future.                                 *)
LEMMA TailHolds ==
    ASSUME NEW s \in Seq(Future), s # <<>>, RowsDistinct(s)
    PROVE  /\ Tail(s) \in Seq(Future)
           /\ RowsDistinct(Tail(s))
           /\ Len(s) <= 1 => Tail(s) = <<>>
           /\ \A r, states : Holds(Tail(s), r, states) <=>
                                r # Head(s).row /\ Holds(s, r, states)
<1>1. /\ Tail(s) \in Seq(Future) /\ Len(s) \in Nat /\ Len(s) > 0 /\ Len(Tail(s)) = Len(s) - 1
      /\ \A i \in 1..Len(Tail(s)) : Tail(s)[i] = s[i + 1]
      /\ Head(s) = s[1]
  OBVIOUS
<1>2. RowsDistinct(Tail(s))
  <2>1. ASSUME NEW i \in 1..Len(Tail(s)), NEW j \in 1..Len(Tail(s)),
               Tail(s)[i].row = Tail(s)[j].row
        PROVE  i = j
    <3>1. i + 1 \in 1..Len(s) /\ j + 1 \in 1..Len(s) /\ s[i + 1].row = s[j + 1].row
      BY <1>1, <2>1
    <3>2. i + 1 = j + 1
      BY <3>1 DEF RowsDistinct
    <3> QED
      BY <3>2
  <2> QED
    BY <2>1 DEF RowsDistinct
<1>3. Len(s) <= 1 => Tail(s) = <<>>
  BY <1>1
<1>4. ASSUME NEW r, NEW states, Holds(Tail(s), r, states)
      PROVE  r # Head(s).row /\ Holds(s, r, states)
  <2>1. PICK i \in 1..Len(Tail(s)) : Tail(s)[i].row = r /\ Tail(s)[i].state \in states
    BY <1>4 DEF Holds
  <2>2. i + 1 \in 1..Len(s) /\ 1 \in 1..Len(s) /\ i + 1 # 1 /\ s[i + 1] = Tail(s)[i]
    BY <1>1
  <2> QED
    BY <1>1, <2>1, <2>2 DEF Holds, RowsDistinct
<1>5. ASSUME NEW r, NEW states, r # Head(s).row, Holds(s, r, states)
      PROVE  Holds(Tail(s), r, states)
  <2>1. PICK i \in 1..Len(s) : s[i].row = r /\ s[i].state \in states
    BY <1>5 DEF Holds
  <2>2. i # 1
    BY <1>1, <1>5, <2>1
  <2>3. i - 1 \in 1..Len(Tail(s)) /\ Tail(s)[i - 1] = s[(i - 1) + 1] /\ (i - 1) + 1 = i
    BY <1>1, <2>2
  <2> QED
    BY <2>1, <2>3 DEF Holds
<1> QED
  BY <1>1, <1>2, <1>3, <1>4, <1>5

(* A delivery report for one of them.                                      *)
LEMMA ReportHolds ==
    ASSUME NEW s \in Seq(Future), RowsDistinct(s), NEW i \in 1..Len(s), NEW state,
           NEW u \in Seq(Future), Len(u) = Len(s),
           \A j \in 1..Len(s) : /\ u[j].row = s[j].row
                                /\ u[j].state = IF j = i THEN state ELSE s[j].state
    PROVE  /\ RowsDistinct(u)
           /\ \A states : Holds(s, s[i].row, states) <=> s[i].state \in states
           /\ \A r, states : Holds(u, r, states) <=>
                                \/ r = s[i].row /\ state \in states
                                \/ r # s[i].row /\ Holds(s, r, states)
<1>1. RowsDistinct(u)
  BY DEF RowsDistinct
<1>2. \A states : Holds(s, s[i].row, states) <=> s[i].state \in states
  BY DEF Holds, RowsDistinct
<1>3. ASSUME NEW r, NEW states
      PROVE  Holds(u, r, states) <=> \/ r = s[i].row /\ state \in states
                                     \/ r # s[i].row /\ Holds(s, r, states)
  BY DEF Holds, RowsDistinct
<1> QED
  BY <1>1, <1>2, <1>3

(* A set of replicas that differs from another one in p only.              *)
LEMMA BitCount ==
    ASSUME NEW S, NEW T, IsFiniteSet(S), IsFiniteSet(T), NEW p, S \ {p} = T \ {p}
    PROVE  Cardinality(T) + (IF p \in S THEN 1 ELSE 0)
              = Cardinality(S) + (IF p \in T THEN 1 ELSE 0)
<1> DEFINE R == S \ {p}
<1>1. IsFiniteSet(R) /\ Cardinality(R) \in Nat
  BY FS_RemoveElement, FS_CardinalityType
<1>2. Cardinality(S) = Cardinality(R) + (IF p \in S THEN 1 ELSE 0)
  <2>1. CASE p \in S
    <3>1. S = R \cup {p} /\ p \notin R
      BY <2>1
    <3> QED
      BY <1>1, <2>1, <3>1, FS_AddElement
  <2>2. CASE p \notin S
    <3>1. S = R
      BY <2>2
    <3> QED
      BY <1>1, <2>2, <3>1
  <2> QED
    BY <2>1, <2>2
<1>3. Cardinality(T) = Cardinality(R) + (IF p \in T THEN 1 ELSE 0)
  <2>1. CASE p \in T
    <3>1. T = R \cup {p} /\ p \notin R
      BY <2>1
    <3> QED
      BY <1>1, <2>1, <3>1, FS_AddElement
  <2>2. CASE p \notin T
    <3>1. T = R
      BY <2>2
    <3> QED
      BY <1>1, <2>2, <3>1
  <2> QED
    BY <2>1, <2>2
<1> QED
  BY <1>1, <1>2, <1>3

-----------------------------------------------------------------------------
(* A step of one replica p, as far as row r is concerned.                  *)

OpenBit(p, r) == IF Holds(pending[p], r, {"open"}) THEN 1 ELSE 0
ExcusedBit(p, r) ==
    IF p \notin disconnected /\ Holds(pending[p], r, {"open", "ok"}) THEN 1 ELSE 0

(* It adds no more records of r than it adds reasons for them.             *)
Balanced(p, r) ==
    LET before == copies[r] + late[r] + OpenBit(p, r)
        after  == copies'[r] + late'[r] + OpenBit(p, r)'
    IN  IF r \in published'
        THEN after + faults[r] <= before + faults'[r]
        ELSE after + faults[r] + ExcusedBit(p, r) <= before + faults'[r] + ExcusedBit(p, r)'

LEMMA BalancedAnyway ==
    ASSUME OutboxTypes, OutboxTypes', NEW p \in Publishers, NEW r \in Rows,
           OpenBit(p, r)' = OpenBit(p, r), ExcusedBit(p, r)' = ExcusedBit(p, r),
           copies'[r] = copies[r], late'[r] = late[r], faults'[r] >= faults[r]
    PROVE  Balanced(p, r)
<1>1. OpenBit(p, r) \in Nat /\ ExcusedBit(p, r) \in Nat
  BY DEF OpenBit, ExcusedBit
<1>2. copies[r] \in Nat /\ late[r] \in Nat /\ faults[r] \in Nat /\ faults'[r] \in Nat
  BY DEF OutboxTypes
<1> QED
  BY <1>1, <1>2 DEF Balanced

LEMMA RowStep ==
    ASSUME OutboxTypes, OutboxTypes', NEW p \in Publishers, NEW r \in Rows,
           \A q \in Publishers \ {p} : pending'[q] = pending[q],
           disconnected' \ {p} = disconnected \ {p},
           published \subseteq published',
           RowExplained(r), Balanced(p, r)
    PROVE  RowExplained(r)'
<1> DEFINE a == Cardinality(OpenAt(r))
           b == Cardinality(OpenAt(r)')
           c == Cardinality(Excused(r))
           d == Cardinality(Excused(r)')
           n == Cardinality(Publishers)
<1>1. /\ IsFiniteSet(OpenAt(r)) /\ IsFiniteSet(OpenAt(r)')
      /\ IsFiniteSet(Excused(r)) /\ IsFiniteSet(Excused(r)')
  <2>1. OpenAt(r) \subseteq Publishers /\ Excused(r) \subseteq Publishers
    BY DEF OpenAt, Excused
  <2>2. OpenAt(r)' \subseteq Publishers /\ Excused(r)' \subseteq Publishers
    BY DEF OpenAt, Excused
  <2> QED
    BY <2>1, <2>2, OutboxAssumption, FS_Subset
<1>2. a \in Nat /\ b \in Nat /\ c \in Nat /\ d \in Nat /\ n \in Nat
  BY <1>1, OutboxAssumption, FS_CardinalityType
<1>3. c <= n
  <2>1. Excused(r) \subseteq Publishers
    BY DEF Excused
  <2> QED
    BY <2>1, OutboxAssumption, FS_Subset
<1>4. b + OpenBit(p, r) = a + OpenBit(p, r)'
  <2>1. OpenAt(r) \ {p} = OpenAt(r)' \ {p}
    BY DEF OpenAt
  <2>2. /\ p \in OpenAt(r) <=> Holds(pending[p], r, {"open"})
        /\ p \in OpenAt(r)' <=> Holds(pending'[p], r, {"open"})
    BY DEF OpenAt
  <2> QED
    BY <1>1, <2>1, <2>2, BitCount DEF OpenBit
<1>5. d + ExcusedBit(p, r) = c + ExcusedBit(p, r)'
  <2>1. Excused(r) \ {p} = Excused(r)' \ {p}
    BY DEF Excused
  <2>2. /\ p \in Excused(r) <=> p \notin disconnected /\ Holds(pending[p], r, {"open", "ok"})
        /\ p \in Excused(r)' <=> p \notin disconnected' /\ Holds(pending'[p], r, {"open", "ok"})
    BY DEF Excused
  <2> QED
    BY <1>1, <2>1, <2>2, BitCount DEF ExcusedBit
<1>6. /\ OpenBit(p, r) \in Nat /\ OpenBit(p, r)' \in Nat
      /\ ExcusedBit(p, r) \in Nat /\ ExcusedBit(p, r)' \in Nat
  BY DEF OpenBit, ExcusedBit
<1>7. /\ copies[r] \in Nat /\ late[r] \in Nat /\ faults[r] \in Nat
      /\ copies'[r] \in Nat /\ late'[r] \in Nat /\ faults'[r] \in Nat
  BY DEF OutboxTypes
<1>8. copies[r] + late[r] + a <= faults[r] + (IF r \in published THEN n ELSE c)
  BY DEF RowExplained
<1> HIDE DEF a, b, c, d, n
<1>9. copies'[r] + late'[r] + b <= faults'[r] + (IF r \in published' THEN n ELSE d)
  <2>1. CASE r \in published'
    BY <1>2, <1>3, <1>4, <1>6, <1>7, <1>8, <2>1 DEF Balanced
  <2>2. CASE r \notin published'
    <3>1. r \notin published
      BY <2>2
    <3> QED
      BY <1>2, <1>4, <1>5, <1>6, <1>7, <1>8, <2>2, <3>1 DEF Balanced
  <2> QED
    BY <2>1, <2>2
<1> QED
  BY <1>9 DEF RowExplained, b, d, n

(* What a step of replica p has to satisfy to preserve the invariant.      *)
LEMMA ReplicaStep ==
    ASSUME OutboxInv, OutboxTypes', NEW p \in Publishers,
           \A q \in Publishers \ {p} :
              pc'[q] = pc[q] /\ pending'[q] = pending[q] /\ locked'[q] = locked[q],
           disconnected' \ {p} = disconnected \ {p},
           published \subseteq published',
           \A r \in published' \ published : r \notin LockedRows /\ copies'[r] > 0,
           \A r \in Rows : copies'[r] >= copies[r],
           ReplicaInv(p)',
           \A r \in Rows \ Unpublishable : Balanced(p, r)
    PROVE  OutboxInv'
<1> USE DEF OutboxInv
<1>1. \A r \in Rows : copies[r] \in Nat /\ copies'[r] \in Nat
  BY DEF OutboxTypes
<1>2. ASSUME NEW q \in Publishers PROVE ReplicaInv(q)'
  <2>1. CASE q = p
    BY <2>1
  <2>2. CASE q # p
    <3>1. ReplicaInv(q) /\ pc'[q] = pc[q] /\ pending'[q] = pending[q] /\ locked'[q] = locked[q]
      BY <2>2
    <3>2. locked'[q] \cap published' = {}
      BY <3>1 DEF ReplicaInv, LockedRows
    <3>3. \A r \in Rows : Holds(pending'[q], r, {"ok"}) => copies'[r] > 0
      BY <1>1, <3>1 DEF ReplicaInv
    <3> QED
      BY <3>1, <3>2, <3>3 DEF ReplicaInv
  <2> QED
    BY <2>1, <2>2
<1>3. \A r \in Rows \ Unpublishable : RowExplained(r)'
  BY RowStep
<1>4. PublishedWasDelivered'
  <2>1. published \subseteq Rows
    BY DEF OutboxTypes
  <2> QED
    BY <1>1, <2>1 DEF PublishedWasDelivered
<1> QED
  BY <1>2, <1>3, <1>4

-----------------------------------------------------------------------------
(* A fault is counted for the rows it hits.                                *)
LEMMA FaultCounted ==
    ASSUME OutboxTypes, NEW S, Fault(S)
    PROVE  /\ faults' \in [Rows -> Nat]
           /\ \A r \in Rows : faults'[r] = faults[r] + IF r \in S THEN 1 ELSE 0
<1>1. faults' = [r \in Rows |-> faults[r] + IF r \in S THEN 1 ELSE 0]
  BY DEF Fault
<1>2. \A r \in Rows : faults[r] \in Nat
  BY DEF OutboxTypes
<1> QED
  BY <1>1, <1>2

LEMMA QueryFaultCounted ==
    ASSUME OutboxTypes, NEW p \in Publishers, NEW S, QueryFails(p, S)
    PROVE  /\ faults' \in [Rows -> Nat]
           /\ \A r \in Rows :
                 faults'[r] = faults[r] + IF p \notin disconnected /\ r \in S THEN 1 ELSE 0
<1>1. CASE p \in disconnected
  <2>1. faults' = faults /\ \A r \in Rows : faults[r] \in Nat
    BY <1>1 DEF QueryFails, OutboxTypes
  <2> QED
    BY <1>1, <2>1 DEF OutboxTypes
<1>2. CASE p \notin disconnected
  BY <1>2, FaultCounted DEF QueryFails
<1> QED
  BY <1>1, <1>2

(* Steps of p that leave the batch and the topic alone.                    *)
LEMMA QuietStep ==
    ASSUME OutboxInv, NEW p \in Publishers,
           UNCHANGED <<inserted, published, copies, late, pending, disconnected>>,
           locked' \in [Publishers -> SUBSET Rows],
           \A q \in Publishers \ {p} : pc'[q] = pc[q] /\ locked'[q] = locked[q],
           pc' \in [Publishers -> {"loop", "fetch", "await", "sleep", "finished"}],
           pc'[p] # "await" => pending[p] = <<>>,
           locked'[p] \cap published = {},
           faults' \in [Rows -> Nat], \A r \in Rows : faults'[r] >= faults[r]
    PROVE  OutboxInv'
<1>1. OutboxTypes'
  BY DEF OutboxInv, OutboxTypes
<1>2. \A r \in Rows : copies[r] \in Nat /\ late[r] \in Nat /\ faults[r] \in Nat /\ faults'[r] \in Nat
  BY <1>1 DEF OutboxInv, OutboxTypes
<1>3. ReplicaInv(p)'
  BY DEF OutboxInv, ReplicaInv
<1>4. ASSUME NEW r \in Rows PROVE Balanced(p, r)
  <2>1. OpenBit(p, r)' = OpenBit(p, r) /\ ExcusedBit(p, r)' = ExcusedBit(p, r)
    BY DEF OpenBit, ExcusedBit
  <2> QED
    BY <1>1, <2>1, BalancedAnyway DEF OutboxInv
<1>5. \A r \in Rows : copies'[r] >= copies[r]
  BY <1>2
<1> QED
  BY <1>1, <1>3, <1>4, <1>5, ReplicaStep

LEMMA FetchBeginsInv ==
    ASSUME OutboxInv, NEW p \in Publishers, FetchBegins(p) PROVE OutboxInv'
<1>1. OutboxTypes /\ ReplicaInv(p)
  BY DEF OutboxInv
<1>2. SelectUnpublished(p) \subseteq Rows \ published
  BY <1>1 DEF SelectUnpublished, Oldest, OutboxTypes
<1>3. /\ UNCHANGED <<inserted, published, copies, late, pending, disconnected, faults>>
      /\ locked' = [locked EXCEPT ![p] = SelectUnpublished(p)]
      /\ pc' = [pc EXCEPT ![p] = "fetch"] /\ pc[p] # "await"
  BY DEF FetchBegins, AtLoopHead, database, broker, control
<1>4. locked' \in [Publishers -> SUBSET Rows]
  BY <1>1, <1>2, <1>3 DEF OutboxTypes
<1>5. pc' \in [Publishers -> {"loop", "fetch", "await", "sleep", "finished"}]
  BY <1>1, <1>3 DEF OutboxTypes
<1>6. \A q \in Publishers \ {p} : pc'[q] = pc[q] /\ locked'[q] = locked[q]
  BY <1>1, <1>3 DEF OutboxTypes
<1>7. locked'[p] \cap published = {} /\ pending[p] = <<>>
  BY <1>1, <1>2, <1>3 DEF OutboxTypes, ReplicaInv
<1>8. faults' \in [Rows -> Nat] /\ \A r \in Rows : faults'[r] >= faults[r]
  <2>1. \A r \in Rows : faults[r] \in Nat
    BY <1>1 DEF OutboxTypes
  <2> QED
    BY <1>1, <1>3, <2>1 DEF OutboxTypes
<1> QED
  BY <1>3, <1>4, <1>5, <1>6, <1>7, <1>8, QuietStep

LEMMA FetchFailsInv ==
    ASSUME OutboxInv, NEW p \in Publishers, FetchFails(p) PROVE OutboxInv'
<1>1. OutboxTypes /\ ReplicaInv(p)
  BY DEF OutboxInv
<1>2. /\ UNCHANGED <<inserted, published, copies, late, pending, disconnected>>
      /\ locked' = [locked EXCEPT ![p] = {}]
      /\ pc' = [pc EXCEPT ![p] = "sleep"] /\ pc[p] = "fetch"
  BY DEF FetchFails, database, broker, control
<1>3. faults' \in [Rows -> Nat] /\ \A r \in Rows : faults'[r] >= faults[r]
  <2>1. \A r \in Rows : faults[r] \in Nat
    BY <1>1 DEF OutboxTypes
  <2> QED
    BY <1>1, <2>1, QueryFaultCounted DEF FetchFails
<1>4. /\ locked' \in [Publishers -> SUBSET Rows]
      /\ pc' \in [Publishers -> {"loop", "fetch", "await", "sleep", "finished"}]
      /\ \A q \in Publishers \ {p} : pc'[q] = pc[q] /\ locked'[q] = locked[q]
      /\ locked'[p] \cap published = {} /\ pending[p] = <<>>
  BY <1>1, <1>2 DEF OutboxTypes, ReplicaInv
<1> QED
  BY <1>2, <1>3, <1>4, QuietStep

(* The loop ends, or stop() is called.                                     *)
LEMMA StopInv ==
    ASSUME OutboxInv, NEW p \in Publishers, LoopFinishes(p) \/ stop(p) PROVE OutboxInv'
<1>1. OutboxTypes /\ ReplicaInv(p)
  BY DEF OutboxInv
<1>2. UNCHANGED <<inserted, published, locked, copies, late, pending, disconnected, faults>>
  BY DEF LoopFinishes, stop, database, broker, control
<1>3. /\ pc' \in [Publishers -> {"loop", "fetch", "await", "sleep", "finished"}]
      /\ \A q \in Publishers \ {p} : pc'[q] = pc[q]
      /\ pc'[p] # "await" => pending[p] = <<>>
  <2>1. CASE LoopFinishes(p)
    <3>1. pc' = [pc EXCEPT ![p] = "finished"] /\ pc[p] # "await"
      BY <2>1 DEF LoopFinishes, AtLoopHead
    <3> QED
      BY <1>1, <3>1 DEF OutboxTypes, ReplicaInv
  <2>2. CASE stop(p)
    BY <1>1, <2>2 DEF stop, OutboxTypes, ReplicaInv
  <2> QED
    BY <2>1, <2>2
<1>4. faults' \in [Rows -> Nat] /\ \A r \in Rows : faults'[r] >= faults[r]
  <2>1. \A r \in Rows : faults[r] \in Nat
    BY <1>1 DEF OutboxTypes
  <2> QED
    BY <1>1, <1>2, <2>1 DEF OutboxTypes
<1>5. locked' \in [Publishers -> SUBSET Rows] /\ locked'[p] \cap published = {}
  BY <1>1, <1>2 DEF OutboxTypes, ReplicaInv
<1> QED
  BY <1>2, <1>3, <1>4, <1>5, QuietStep

-----------------------------------------------------------------------------
(* The batch is handed to the producer: one open future per locked row.    *)
LEMMA FetchCommitsInv ==
    ASSUME OutboxInv, NEW p \in Publishers, FetchCommits(p) PROVE OutboxInv'
<1>1. OutboxTypes /\ ReplicaInv(p)
  BY DEF OutboxInv
<1>2. PICK rows \in InOrder(locked[p]) :
         /\ pending' = [pending EXCEPT ![p] =
                [i \in DOMAIN rows |-> [row |-> rows[i], state |-> "open"]]]
         /\ pc' = [pc EXCEPT ![p] = IF rows = <<>> THEN "sleep" ELSE "await"]
  BY DEF FetchCommits
<1>3. /\ UNCHANGED <<inserted, published, copies, late, disconnected, faults>>
      /\ locked' = [locked EXCEPT ![p] = {}]
      /\ pc[p] = "fetch" /\ p \notin disconnected
  BY DEF FetchCommits, database, broker, control
<1>4. pending[p] = <<>> /\ locked[p] \subseteq Rows \ published
  BY <1>1, <1>3 DEF ReplicaInv, OutboxTypes
<1> DEFINE n == Cardinality(locked[p])
           batch == [i \in DOMAIN rows |-> [row |-> rows[i], state |-> "open"]]
<1>5. n \in Nat
  BY <1>4, OutboxAssumption, FS_Subset, FS_CardinalityType
<1>6. /\ rows \in [1..n -> locked[p]]
      /\ \A i, j \in 1..n : i < j => rows[i] < rows[j]
  BY DEF InOrder
<1>7. /\ batch \in Seq(Future) /\ Len(batch) = n
      /\ \A i \in 1..n : batch[i].row = rows[i] /\ batch[i].state = "open"
  <2> HIDE DEF n
  <2> QED
    BY <1>4, <1>5, <1>6 DEF Future
<1>8. RowsDistinct(batch)
  <2>1. \A i \in 1..n : rows[i] \in Nat
    BY <1>4, <1>6, OutboxAssumption
  <2> HIDE DEF n, batch
  <2> QED
    BY <1>5, <1>6, <1>7, <2>1 DEF RowsDistinct
<1>9. /\ pending'[p] = batch
      /\ \A q \in Publishers \ {p} : pending'[q] = pending[q]
      /\ pending' \in [Publishers -> Seq(Future)]
  <2> HIDE DEF batch
  <2> QED
    BY <1>1, <1>2, <1>7 DEF OutboxTypes, batch
<1>10. /\ pc' \in [Publishers -> {"loop", "fetch", "await", "sleep", "finished"}]
       /\ \A q \in Publishers \ {p} : pc'[q] = pc[q] /\ locked'[q] = locked[q]
       /\ locked' \in [Publishers -> SUBSET Rows] /\ locked'[p] = {}
       /\ pc'[p] # "await" => rows = <<>>
  BY <1>1, <1>2, <1>3 DEF OutboxTypes
<1>11. OutboxTypes'
  BY <1>1, <1>3, <1>9, <1>10 DEF OutboxTypes
<1>12. rows = <<>> => batch = <<>>
  BY <1>6
<1> HIDE DEF batch, n
<1>13. \A r : ~Holds(batch, r, {"ok"})
  BY <1>5, <1>7 DEF Holds
<1>14. ReplicaInv(p)'
  BY <1>3, <1>8, <1>9, <1>10, <1>12, <1>13 DEF ReplicaInv
<1>15. ASSUME NEW r \in Rows PROVE Balanced(p, r)
  <2>1. OpenBit(p, r) = 0 /\ ExcusedBit(p, r) = 0
    BY <1>4 DEF OpenBit, ExcusedBit, Holds
  <2>2. OpenBit(p, r)' = ExcusedBit(p, r)' /\ OpenBit(p, r)' \in {0, 1}
    BY <1>3, <1>5, <1>7, <1>9 DEF OpenBit, ExcusedBit, Holds
  <2>3. r \in published => OpenBit(p, r)' = 0
    BY <1>4, <1>5, <1>6, <1>7, <1>9 DEF OpenBit, Holds
  <2>4. /\ copies'[r] = copies[r] /\ late'[r] = late[r] /\ faults'[r] = faults[r]
        /\ copies[r] \in Nat /\ late[r] \in Nat /\ faults[r] \in Nat
    BY <1>1, <1>3 DEF OutboxTypes
  <2> QED
    BY <1>3, <2>1, <2>2, <2>3, <2>4 DEF Balanced
<1>16. \A r \in Rows : copies'[r] >= copies[r]
  BY <1>1, <1>3 DEF OutboxTypes
<1> QED
  BY <1>3, <1>9, <1>10, <1>11, <1>14, <1>15, <1>16, ReplicaStep

-----------------------------------------------------------------------------
(* A delivery report: the row of future i, and nothing else, is affected.  *)
LEMMA ReportInv ==
    ASSUME OutboxInv, NEW p \in Publishers, NEW i \in DOMAIN pending[p],
           NEW r, r = pending[p][i].row, pending[p][i].state = "open",
           NEW state \in {"ok", "failed"}, NEW more \in {0, 1},
           Report(p, i, state),
           copies' = [copies EXCEPT ![r] = @ + more],
           UNCHANGED <<inserted, published, late, locked, pc, disconnected>>,
           faults' \in [Rows -> Nat], \A q \in Rows : faults'[q] >= faults[q],
           state = "ok" => more = 1,
           r \notin Unpublishable => state = "ok" \/ faults'[r] = faults[r] + 1
    PROVE  OutboxInv'
<1>1. OutboxTypes /\ ReplicaInv(p) /\ pending[p] \in Seq(Future)
  BY DEF OutboxInv, OutboxTypes
<1>2. RowsDistinct(pending[p])
  BY <1>1 DEF ReplicaInv
<1>0. PICK u : u = [pending[p] EXCEPT ![i].state = state]
  OBVIOUS
<1>3. /\ pending' = [pending EXCEPT ![p] = u] /\ pending'[p] = u
      /\ \A q \in Publishers \ {p} : pending'[q] = pending[q]
  BY <1>0, <1>1 DEF OutboxTypes, Report
<1>4. /\ u \in Seq(Future) /\ RowsDistinct(u) /\ pending[p] # <<>> /\ r \in Rows
      /\ \A states : Holds(pending[p], r, states) <=> "open" \in states
      /\ \A q, states : Holds(u, q, states) <=>
                           \/ q = r /\ state \in states
                           \/ q # r /\ Holds(pending[p], q, states)
  <2>1. /\ u \in Seq(Future) /\ RowsDistinct(u) /\ pending[p] # <<>> /\ pending[p][i] \in Future
        /\ \A states : Holds(pending[p], pending[p][i].row, states)
                          <=> pending[p][i].state \in states
        /\ \A q, states : Holds(u, q, states) <=>
              \/ q = pending[p][i].row /\ state \in states
              \/ q # pending[p][i].row /\ Holds(pending[p], q, states)
    <3>1. /\ pending[p] # <<>> /\ i \in 1..Len(pending[p])
          /\ \A j \in 1..Len(pending[p]) : pending[p][j] \in Future
      BY <1>1
    <3>2. u \in Seq(Future) /\ Len(u) = Len(pending[p])
      BY <1>0, <1>1, <3>1 DEF Future
    <3>3. \A j \in 1..Len(pending[p]) :
             /\ u[j].row = pending[p][j].row
             /\ u[j].state = IF j = i THEN state ELSE pending[p][j].state
      BY <1>0, <1>1, <3>1 DEF Future
    <3>4. PICK s \in Seq(Future) : s = pending[p]
      BY <1>1
    <3>5. /\ RowsDistinct(s) /\ s # <<>> /\ i \in 1..Len(s) /\ Len(u) = Len(s)
          /\ s[i] \in Future
          /\ \A j \in 1..Len(s) : /\ u[j].row = s[j].row
                                  /\ u[j].state = IF j = i THEN state ELSE s[j].state
      BY <1>2, <3>1, <3>2, <3>3, <3>4
    <3>6. /\ RowsDistinct(u)
          /\ \A states : Holds(s, s[i].row, states) <=> s[i].state \in states
          /\ \A q, states : Holds(u, q, states) <=>
                \/ q = s[i].row /\ state \in states
                \/ q # s[i].row /\ Holds(s, q, states)
      BY <3>2, <3>5, ReportHolds, ZenonT(30)
    <3> QED
      BY <3>2, <3>4, <3>5, <3>6
  <2>2. pending[p][i].row = r /\ pending[p][i].state = "open" /\ r \in Rows
    BY <2>1 DEF Future
  <2>3. \A states : Holds(pending[p], r, states) <=> "open" \in states
    BY <2>1, <2>2
  <2>4. \A q, states : Holds(u, q, states) <=>
                         \/ q = r /\ state \in states
                         \/ q # r /\ Holds(pending[p], q, states)
    BY <2>1, <2>2
  <2> QED
    BY <2>1, <2>2, <2>3, <2>4
<1>5. \A q \in Rows : /\ copies[q] \in Nat /\ late[q] \in Nat /\ faults[q] \in Nat
                      /\ faults'[q] \in Nat
                      /\ copies'[q] = copies[q] + IF q = r THEN more ELSE 0
  BY <1>1, <1>4 DEF OutboxTypes
<1>6. OutboxTypes'
  <2>1. copies' \in [Rows -> Nat]
    <3>1. copies[r] + more \in Nat
      BY <1>4, <1>5
    <3> QED
      BY <1>1, <3>1 DEF OutboxTypes
  <2>2. pending' \in [Publishers -> Seq(Future)]
    BY <1>1, <1>3, <1>4 DEF OutboxTypes
  <2> QED
    BY <1>1, <2>1, <2>2 DEF OutboxTypes
<1>7. ReplicaInv(p)'
  <2>1. pc'[p] = "await"
    BY <1>1, <1>4 DEF ReplicaInv
  <2>2. ASSUME NEW q \in Rows, Holds(u, q, {"ok"}) PROVE copies'[q] > 0
    <3>1. CASE q = r
      <4>1. state = "ok"
        BY <1>4, <2>2, <3>1
      <4> QED
        BY <1>5, <3>1, <4>1
    <3>2. CASE q # r
      BY <1>1, <1>4, <1>5, <2>2, <3>2 DEF ReplicaInv
    <3> QED
      BY <3>1, <3>2
  <2> QED
    BY <1>1, <1>3, <1>4, <2>1, <2>2 DEF ReplicaInv
<1>8. ASSUME NEW q \in Rows \ Unpublishable PROVE Balanced(p, q)
  <2>1. CASE q = r
    <3>1. OpenBit(p, q) = 1 /\ OpenBit(p, q)' = 0
      BY <1>3, <1>4, <2>1 DEF OpenBit
    <3>2. /\ ExcusedBit(p, q) \in {0, 1} /\ ExcusedBit(p, q)' \in {0, 1}
          /\ state = "ok" => ExcusedBit(p, q)' = ExcusedBit(p, q)
      BY <1>3, <1>4, <2>1 DEF ExcusedBit
    <3>3. state = "ok" \/ faults'[q] = faults[q] + 1
      BY <2>1
    <3>4. /\ copies[q] \in Nat /\ late[q] \in Nat /\ faults[q] \in Nat /\ faults'[q] \in Nat
          /\ faults'[q] >= faults[q]
          /\ copies'[q] = copies[q] + more /\ late'[q] = late[q]
      BY <1>5, <2>1
    <3> QED
      BY <3>1, <3>2, <3>3, <3>4 DEF Balanced
  <2>2. CASE q # r
    <3>1. OpenBit(p, q)' = OpenBit(p, q) /\ ExcusedBit(p, q)' = ExcusedBit(p, q)
      BY <1>3, <1>4, <2>2 DEF OpenBit, ExcusedBit
    <3>2. copies'[q] = copies[q] /\ late'[q] = late[q] /\ faults'[q] >= faults[q]
      BY <1>5, <2>2
    <3> QED
      BY <1>1, <1>6, <3>1, <3>2, BalancedAnyway
  <2> QED
    BY <2>1, <2>2
<1>9. \A q \in Rows : copies'[q] >= copies[q]
  BY <1>5
<1> QED
  BY <1>3, <1>6, <1>7, <1>8, <1>9, ReplicaStep

LEMMA BrokerAcksInv ==
    ASSUME OutboxInv, NEW p \in Publishers, NEW i \in DOMAIN pending[p], BrokerAcks(p, i)
    PROVE  OutboxInv'
<1>1. PICK r : r = pending[p][i].row
  OBVIOUS
<1>2. /\ pending[p][i].state = "open" /\ Report(p, i, "ok")
      /\ copies' = [copies EXCEPT ![r] = @ + 1]
      /\ UNCHANGED <<inserted, published, late, locked, pc, disconnected, faults>>
  BY <1>1 DEF BrokerAcks, database, control
<1>3. faults' \in [Rows -> Nat] /\ \A q \in Rows : faults'[q] >= faults[q]
  <2>1. faults \in [Rows -> Nat] /\ \A q \in Rows : faults[q] \in Nat
    BY DEF OutboxInv, OutboxTypes
  <2> QED
    BY <1>2, <2>1
<1> QED
  BY <1>1, <1>2, <1>3, ReportInv

LEMMA DeliveryFailsInv ==
    ASSUME OutboxInv, NEW p \in Publishers, NEW i \in DOMAIN pending[p],
           NEW appended \in BOOLEAN, DeliveryFails(p, i, appended)
    PROVE  OutboxInv'
<1>0. OutboxTypes /\ faults \in [Rows -> Nat] /\ \A q \in Rows : faults[q] \in Nat
  BY DEF OutboxInv, OutboxTypes
<1>1. PICK r : r = pending[p][i].row
  OBVIOUS
<1>2. r \in Rows
  <2>1. pending[p] \in Seq(Future)
    BY <1>0 DEF OutboxTypes
  <2>2. pending[p][i] \in Future
    BY <2>1
  <2> QED
    BY <1>1, <2>2 DEF Future
<1>3. PICK more \in {0, 1} : copies' = [copies EXCEPT ![r] = @ + more]
  BY <1>1 DEF DeliveryFails
<1>4. /\ pending[p][i].state = "open" /\ Report(p, i, "failed")
      /\ UNCHANGED <<inserted, published, late, locked, pc, disconnected>>
  BY DEF DeliveryFails, database, control
<1>5. /\ faults' \in [Rows -> Nat] /\ \A q \in Rows : faults'[q] >= faults[q]
      /\ r \notin Unpublishable => faults'[r] = faults[r] + 1
  <2>1. CASE r \in Unpublishable
    <3>1. faults' = faults
      BY <1>1, <2>1 DEF DeliveryFails
    <3> QED
      BY <1>0, <2>1, <3>1
  <2>2. CASE r \notin Unpublishable
    <3>1. Fault({r})
      BY <1>1, <2>2 DEF DeliveryFails
    <3> QED
      BY <1>0, <1>2, <3>1, FaultCounted
  <2> QED
    BY <2>1, <2>2
<1> QED
  BY <1>1, <1>3, <1>4, <1>5, ReportInv

-----------------------------------------------------------------------------
(* The loop is done with the first future of its batch: the row is marked, *)
(* or a fault is counted for it, or it was counted before.                 *)
LEMMA FutureDone ==
    ASSUME OutboxInv, NEW p \in Publishers, Awaiting(p), NEW marked, NextFuture(p, marked),
           NEW r, r = Head(pending[p]).row, NEW h, h = Head(pending[p]).state,
           UNCHANGED <<inserted, copies, locked, disconnected>>,
           published' = published \/ published' = published \cup {r},
           published' # published => h = "ok" /\ r \notin LockedRows,
           late' \in [Rows -> Nat],
           \A q \in Rows \ Unpublishable :
              late'[q] = late[q] + IF q = r /\ h = "open" THEN 1 ELSE 0,
           faults' \in [Rows -> Nat], \A q \in Rows : faults'[q] >= faults[q],
           \/ r \in Unpublishable \/ r \in published' \/ p \in disconnected \/ h = "failed"
           \/ faults'[r] = faults[r] + 1
    PROVE  OutboxInv'
<1>1. OutboxTypes /\ ReplicaInv(p)
  BY DEF OutboxInv
<1>2. PICK s : s = pending[p]
  OBVIOUS
<1>3. s \in Seq(Future) /\ s # <<>> /\ RowsDistinct(s)
  BY <1>1, <1>2 DEF OutboxTypes, Awaiting, ReplicaInv
<1>4. r \in Rows /\ h \in {"open", "ok", "failed"}
      /\ \A states : Holds(s, r, states) <=> h \in states
  <2>1. Head(s) \in Future /\ \A states : Holds(s, Head(s).row, states) <=> Head(s).state \in states
    BY <1>3, HeadHolds
  <2> QED
    BY <1>2, <2>1 DEF Future
<1>5. PICK u : u = Tail(s)
  OBVIOUS
<1>6. /\ u \in Seq(Future) /\ RowsDistinct(u) /\ (Len(s) <= 1 => u = <<>>)
      /\ \A q, states : Holds(u, q, states) <=> q # r /\ Holds(s, q, states)
  BY <1>2, <1>3, <1>5, TailHolds
<1>7. /\ pending' = [pending EXCEPT ![p] = u]
      /\ pc' = pc \/ (Len(s) <= 1 /\ \E c \in {"loop", "sleep"} : pc' = [pc EXCEPT ![p] = c])
  <2>1. Len(s) \in Nat
    BY <1>3
  <2> QED
    BY <1>2, <1>5, <2>1 DEF NextFuture
<1>8. /\ pending'[p] = u /\ pending' \in [Publishers -> Seq(Future)]
      /\ \A q \in Publishers \ {p} : pending'[q] = pending[q]
  BY <1>1, <1>6, <1>7 DEF OutboxTypes
<1>9. /\ pc' \in [Publishers -> {"loop", "fetch", "await", "sleep", "finished"}]
      /\ \A q \in Publishers \ {p} : pc'[q] = pc[q]
      /\ pc'[p] # "await" => u = <<>>
  BY <1>1, <1>6, <1>7 DEF OutboxTypes, Awaiting
<1>10. OutboxTypes'
  BY <1>1, <1>4, <1>8, <1>9 DEF OutboxTypes
<1>11. \A q \in Rows : copies[q] \in Nat /\ late[q] \in Nat /\ faults[q] \in Nat /\ faults'[q] \in Nat
  BY <1>1 DEF OutboxTypes
<1>12. ReplicaInv(p)'
  <2>1. \A q \in Rows : Holds(u, q, {"ok"}) => copies'[q] > 0
    BY <1>1, <1>2, <1>6 DEF ReplicaInv
  <2>2. locked'[p] \cap published' = {}
    BY <1>1 DEF ReplicaInv, LockedRows
  <2> QED
    BY <1>6, <1>8, <1>9, <2>1, <2>2 DEF ReplicaInv
<1>13. ASSUME NEW q \in Rows \ Unpublishable PROVE Balanced(p, q)
  <2>1. CASE q = r
    <3>1. OpenBit(p, q) = (IF h = "open" THEN 1 ELSE 0) /\ OpenBit(p, q)' = 0
      BY <1>2, <1>4, <1>6, <1>8, <2>1 DEF OpenBit
    <3>2. /\ ExcusedBit(p, q) \in {0, 1} /\ ExcusedBit(p, q)' = 0
          /\ p \in disconnected \/ h = "failed" => ExcusedBit(p, q) = 0
      BY <1>2, <1>4, <1>6, <1>8, <2>1 DEF ExcusedBit
    <3>3. /\ copies'[q] = copies[q] /\ late'[q] = late[q] + IF h = "open" THEN 1 ELSE 0
          /\ copies[q] \in Nat /\ late[q] \in Nat /\ faults[q] \in Nat /\ faults'[q] \in Nat
          /\ faults'[q] >= faults[q]
          /\ \/ q \in published' \/ p \in disconnected \/ h = "failed"
             \/ faults'[q] = faults[q] + 1
      BY <1>11, <2>1
    <3> QED
      BY <3>1, <3>2, <3>3 DEF Balanced
  <2>2. CASE q # r
    <3>1. OpenBit(p, q)' = OpenBit(p, q) /\ ExcusedBit(p, q)' = ExcusedBit(p, q)
      BY <1>2, <1>6, <1>8, <2>2 DEF OpenBit, ExcusedBit
    <3>2. copies'[q] = copies[q] /\ late'[q] = late[q] /\ faults'[q] >= faults[q]
      BY <1>11, <2>2
    <3> QED
      BY <1>1, <1>10, <3>1, <3>2, BalancedAnyway
  <2> QED
    BY <2>1, <2>2
<1>14. \A q \in Rows : copies'[q] >= copies[q]
  BY <1>11
<1>15. \A q \in published' \ published : q \notin LockedRows /\ copies'[q] > 0
  BY <1>1, <1>2, <1>4 DEF ReplicaInv
<1> QED
  BY <1>8, <1>9, <1>10, <1>12, <1>13, <1>14, <1>15, ReplicaStep

LEMMA PublishTimesOutInv ==
    ASSUME OutboxInv, NEW p \in Publishers, PublishTimesOut(p) PROVE OutboxInv'
<1>1. PICK r, h : r = Head(pending[p]).row /\ h = Head(pending[p]).state
  OBVIOUS
<1>2. OutboxTypes /\ late \in [Rows -> Nat] /\ \A q \in Rows : faults[q] \in Nat /\ late[q] \in Nat
  BY DEF OutboxInv, OutboxTypes
<1>3. /\ Awaiting(p) /\ NextFuture(p, 0) /\ h = "open"
      /\ UNCHANGED <<inserted, published, copies, locked, disconnected>>
      /\ IF r \in Unpublishable
         THEN UNCHANGED <<late, faults>>
         ELSE Fault({r}) /\ late' = [late EXCEPT ![r] = @ + 1]
  BY <1>1 DEF PublishTimesOut, database, control
<1>4. r \in Rows
  <2>1. pending[p] \in Seq(Future) /\ pending[p] # <<>>
    BY <1>2, <1>3 DEF OutboxTypes, Awaiting
  <2>2. Head(pending[p]) \in Future
    BY <2>1
  <2> QED
    BY <1>1, <2>2 DEF Future
<1>5. CASE r \in Unpublishable
  <2>1. UNCHANGED <<late, faults>>
    BY <1>3, <1>5
  <2>2. /\ late' \in [Rows -> Nat]
        /\ \A q \in Rows \ Unpublishable :
              late'[q] = late[q] + IF q = r /\ h = "open" THEN 1 ELSE 0
    BY <1>2, <1>5, <2>1
  <2>3. faults' \in [Rows -> Nat] /\ \A q \in Rows : faults'[q] >= faults[q]
    BY <1>2, <2>1 DEF OutboxTypes
  <2> QED
    BY <1>1, <1>3, <1>5, <2>2, <2>3, FutureDone
<1>6. CASE r \notin Unpublishable
  <2>1. late' = [late EXCEPT ![r] = @ + 1] /\ Fault({r})
    BY <1>3, <1>6
  <2>2. /\ late' \in [Rows -> Nat]
        /\ \A q \in Rows \ Unpublishable :
              late'[q] = late[q] + IF q = r /\ h = "open" THEN 1 ELSE 0
    BY <1>2, <1>3, <1>4, <2>1
  <2>3. /\ faults' \in [Rows -> Nat] /\ \A q \in Rows : faults'[q] >= faults[q]
        /\ faults'[r] = faults[r] + 1
    BY <1>2, <1>4, <2>1, FaultCounted
  <2> QED
    BY <1>1, <1>3, <2>2, <2>3, FutureDone
<1> QED
  BY <1>5, <1>6

LEMMA PublishFailedInv ==
    ASSUME OutboxInv, NEW p \in Publishers, PublishFailed(p) PROVE OutboxInv'
<1>1. PICK r, h : r = Head(pending[p]).row /\ h = Head(pending[p]).state
  OBVIOUS
<1>2. /\ late \in [Rows -> Nat] /\ faults \in [Rows -> Nat]
      /\ \A q \in Rows : faults[q] \in Nat /\ late[q] \in Nat
  BY DEF OutboxInv, OutboxTypes
<1>3. /\ Awaiting(p) /\ NextFuture(p, 0) /\ h = "failed"
      /\ UNCHANGED <<inserted, published, copies, late, locked, disconnected, faults>>
  BY <1>1 DEF PublishFailed, database, broker, control
<1>4. /\ late' \in [Rows -> Nat]
      /\ \A q \in Rows : late'[q] = late[q] + IF q = r /\ h = "open" THEN 1 ELSE 0
      /\ faults' \in [Rows -> Nat] /\ \A q \in Rows : faults'[q] >= faults[q]
  BY <1>2, <1>3
<1> QED
  BY <1>1, <1>3, <1>4, FutureDone

LEMMA MarkAsPublishedInv ==
    ASSUME OutboxInv, NEW p \in Publishers, MarkAsPublished(p) PROVE OutboxInv'
<1>1. PICK r, h : r = Head(pending[p]).row /\ h = Head(pending[p]).state
  OBVIOUS
<1>2. /\ late \in [Rows -> Nat] /\ faults \in [Rows -> Nat]
      /\ \A q \in Rows : faults[q] \in Nat /\ late[q] \in Nat
  BY DEF OutboxInv, OutboxTypes
<1>3. /\ Awaiting(p) /\ NextFuture(p, 1) /\ h = "ok" /\ r \notin LockedRows
      /\ UNCHANGED <<inserted, copies, late, locked, disconnected, faults>>
      /\ published' = published \cup {r}
  BY <1>1 DEF MarkAsPublished, broker, control
<1>4. /\ late' \in [Rows -> Nat]
      /\ \A q \in Rows : late'[q] = late[q] + IF q = r /\ h = "open" THEN 1 ELSE 0
      /\ faults' \in [Rows -> Nat] /\ \A q \in Rows : faults'[q] >= faults[q]
  BY <1>2, <1>3
<1> QED
  BY <1>1, <1>3, <1>4, FutureDone

LEMMA MarkFailsInv ==
    ASSUME OutboxInv, NEW p \in Publishers, NEW applied \in BOOLEAN, MarkFails(p, applied)
    PROVE  OutboxInv'
<1>1. PICK r, h : r = Head(pending[p]).row /\ h = Head(pending[p]).state
  OBVIOUS
<1>2. /\ OutboxTypes /\ late \in [Rows -> Nat]
      /\ \A q \in Rows : faults[q] \in Nat /\ late[q] \in Nat
  BY DEF OutboxInv, OutboxTypes
<1>3. /\ Awaiting(p) /\ NextFuture(p, 0) /\ h = "ok" /\ QueryFails(p, {r})
      /\ UNCHANGED <<inserted, copies, late, locked, disconnected>>
  BY <1>1 DEF MarkFails, broker, control
<1>4. /\ published' = published \/ published' = published \cup {r}
      /\ published' # published => r \notin LockedRows
  BY <1>1 DEF MarkFails
<1>5. /\ late' \in [Rows -> Nat]
      /\ \A q \in Rows : late'[q] = late[q] + IF q = r /\ h = "open" THEN 1 ELSE 0
  BY <1>2, <1>3
<1>6. r \in Rows
  <2>1. pending[p] \in Seq(Future) /\ pending[p] # <<>>
    BY <1>2, <1>3 DEF OutboxTypes, Awaiting
  <2>2. Head(pending[p]) \in Future
    BY <2>1
  <2> QED
    BY <1>1, <2>2 DEF Future
<1>7. /\ faults' \in [Rows -> Nat]
      /\ \A q \in Rows : faults'[q] = faults[q] + IF p \notin disconnected /\ q \in {r} THEN 1 ELSE 0
  BY <1>2, <1>3, QueryFaultCounted
<1>8. /\ \A q \in Rows : faults'[q] >= faults[q]
      /\ p \in disconnected \/ faults'[r] = faults[r] + 1
  BY <1>2, <1>6, <1>7
<1> QED
  BY <1>1, <1>3, <1>4, <1>5, <1>7, <1>8, FutureDone

-----------------------------------------------------------------------------
(* The rows of a batch, as a fault sees them.                              *)
LEMMA BatchRows ==
    ASSUME OutboxTypes, NEW p \in Publishers, NEW r, NEW states, Holds(pending[p], r, states)
    PROVE  r \in {pending[p][i].row : i \in DOMAIN pending[p]}
<1>1. pending[p] \in Seq(Future)
  BY DEF OutboxTypes
<1> QED
  BY <1>1 DEF Holds

(* The connection breaks: the rows of the batch are excused by a fault now.*)
LEMMA DisconnectInv ==
    ASSUME OutboxInv, NEW p \in Publishers, Disconnect(p) PROVE OutboxInv'
<1>1. OutboxTypes /\ ReplicaInv(p)
  BY DEF OutboxInv
<1>2. /\ UNCHANGED <<inserted, published, copies, late, pc, pending>>
      /\ disconnected' = disconnected \cup {p}
      /\ locked' = [locked EXCEPT ![p] = {}]
      /\ Fault({pending[p][i].row : i \in DOMAIN pending[p]})
  BY DEF Disconnect, database, broker
<1>3. /\ faults' \in [Rows -> Nat]
      /\ \A r \in Rows : faults'[r] = faults[r] +
            IF r \in {pending[p][i].row : i \in DOMAIN pending[p]} THEN 1 ELSE 0
  BY <1>1, <1>2, FaultCounted
<1>4. OutboxTypes'
  BY <1>1, <1>2, <1>3 DEF OutboxTypes
<1>5. /\ \A q \in Publishers \ {p} : locked'[q] = locked[q]
      /\ locked'[p] = {}
  BY <1>1, <1>2 DEF OutboxTypes
<1>6. ReplicaInv(p)'
  BY <1>1, <1>2, <1>5 DEF ReplicaInv
<1>7. ASSUME NEW r \in Rows PROVE Balanced(p, r)
  <2>1. OpenBit(p, r)' = OpenBit(p, r) /\ OpenBit(p, r) \in Nat
    BY <1>2 DEF OpenBit
  <2>2. ExcusedBit(p, r)' = 0 /\ ExcusedBit(p, r) \in {0, 1}
    BY <1>2 DEF ExcusedBit
  <2>3. ExcusedBit(p, r) = 1 => faults'[r] = faults[r] + 1
    BY <1>1, <1>3, BatchRows DEF ExcusedBit
  <2>4. /\ copies'[r] = copies[r] /\ late'[r] = late[r]
        /\ copies[r] \in Nat /\ late[r] \in Nat /\ faults[r] \in Nat /\ faults'[r] \in Nat
    BY <1>1, <1>2, <1>3 DEF OutboxTypes
  <2>5. faults'[r] >= faults[r]
    BY <1>3, <2>4
  <2> QED
    BY <2>1, <2>2, <2>3, <2>4, <2>5 DEF Balanced
<1>8. \A r \in Rows : copies'[r] >= copies[r]
  BY <1>1, <1>2 DEF OutboxTypes
<1> QED
  BY <1>2, <1>4, <1>5, <1>6, <1>7, <1>8, ReplicaStep

(* A row has one open future at most in a batch.                           *)
LEMMA OpenFuturesCount ==
    ASSUME OutboxTypes, NEW p \in Publishers, RowsDistinct(pending[p]), NEW r
    PROVE  Cardinality(OpenFutures(p, r)) = OpenBit(p, r)
<1>1. /\ pending[p] \in Seq(Future) /\ DOMAIN pending[p] = 1..Len(pending[p])
      /\ \A i \in 1..Len(pending[p]) : pending[p][i] \in Future
  BY DEF OutboxTypes
<1>2. \A i \in 1..Len(pending[p]) :
         pending[p][i] = [row |-> r, state |-> "open"] <=>
            pending[p][i].row = r /\ pending[p][i].state = "open"
  BY <1>1 DEF Future
<1>3. CASE Holds(pending[p], r, {"open"})
  <2>1. PICK i \in 1..Len(pending[p]) : pending[p][i].row = r /\ pending[p][i].state = "open"
    BY <1>3 DEF Holds
  <2>2. OpenFutures(p, r) = {i}
    BY <1>1, <1>2, <2>1 DEF OpenFutures, RowsDistinct
  <2> QED
    BY <1>3, <2>2, FS_Singleton DEF OpenBit
<1>4. CASE ~Holds(pending[p], r, {"open"})
  <2>1. OpenFutures(p, r) = {}
    BY <1>1, <1>2, <1>4 DEF OpenFutures, Holds
  <2> QED
    BY <1>4, <2>1, FS_EmptySet DEF OpenBit
<1> QED
  BY <1>3, <1>4

(* The process dies: its open futures become late records.                 *)
LEMMA CrashInv ==
    ASSUME OutboxInv, NEW p \in Publishers, Crash(p) PROVE OutboxInv'
<1>1. OutboxTypes /\ ReplicaInv(p)
  BY DEF OutboxInv
<1>2. /\ UNCHANGED <<inserted, published, copies, locked>>
      /\ disconnected' = disconnected \ {p}
      /\ pending' = [pending EXCEPT ![p] = <<>>]
      /\ pc' = [pc EXCEPT ![p] = "loop"]
      /\ late' = [r \in Rows |->
            late[r] + IF r \in Unpublishable THEN 0 ELSE Cardinality(OpenFutures(p, r))]
      /\ Fault({pending[p][i].row : i \in DOMAIN pending[p]})
  BY DEF Crash, database
<1>3. /\ faults' \in [Rows -> Nat]
      /\ \A r \in Rows : faults'[r] = faults[r] +
            IF r \in {pending[p][i].row : i \in DOMAIN pending[p]} THEN 1 ELSE 0
  BY <1>1, <1>2, FaultCounted
<1>4. \A r \in Rows : Cardinality(OpenFutures(p, r)) = OpenBit(p, r) /\ OpenBit(p, r) \in Nat
  <2>1. \A r \in Rows : OpenBit(p, r) \in Nat
    BY DEF OpenBit
  <2> QED
    BY <1>1, <2>1, OpenFuturesCount DEF ReplicaInv
<1>5. /\ late' \in [Rows -> Nat]
      /\ \A r \in Rows \ Unpublishable : late'[r] = late[r] + OpenBit(p, r)
  <2>1. \A r \in Rows : late[r] \in Nat
    BY <1>1 DEF OutboxTypes
  <2> QED
    BY <1>2, <1>4, <2>1
<1>6. /\ pending' \in [Publishers -> Seq(Future)] /\ pending'[p] = <<>>
      /\ \A q \in Publishers \ {p} : pending'[q] = pending[q] /\ pc'[q] = pc[q]
      /\ pc' \in [Publishers -> {"loop", "fetch", "await", "sleep", "finished"}]
  BY <1>1, <1>2 DEF OutboxTypes
<1>7. OutboxTypes'
  BY <1>1, <1>2, <1>3, <1>5, <1>6 DEF OutboxTypes
<1>8. ReplicaInv(p)'
  BY <1>1, <1>2, <1>6 DEF ReplicaInv, RowsDistinct, Holds
<1>9. ASSUME NEW r \in Rows \ Unpublishable PROVE Balanced(p, r)
  <2>1. OpenBit(p, r)' = 0 /\ ExcusedBit(p, r)' = 0
    BY <1>6 DEF OpenBit, ExcusedBit, Holds
  <2>2. OpenBit(p, r) \in Nat /\ ExcusedBit(p, r) \in {0, 1}
    BY DEF OpenBit, ExcusedBit
  <2>3. ExcusedBit(p, r) = 1 => faults'[r] = faults[r] + 1
    BY <1>1, <1>3, BatchRows DEF ExcusedBit
  <2>4. /\ copies'[r] = copies[r] /\ late'[r] = late[r] + OpenBit(p, r)
        /\ copies[r] \in Nat /\ late[r] \in Nat /\ faults[r] \in Nat /\ faults'[r] \in Nat
    BY <1>1, <1>2, <1>3, <1>5 DEF OutboxTypes
  <2>5. faults'[r] >= faults[r]
    BY <1>3, <2>4
  <2> QED
    BY <2>1, <2>2, <2>3, <2>4, <2>5 DEF Balanced
<1>10. \A r \in Rows : copies'[r] >= copies[r]
  BY <1>1, <1>2 DEF OutboxTypes
<1> QED
  BY <1>2, <1>6, <1>7, <1>8, <1>9, <1>10, ReplicaStep

-----------------------------------------------------------------------------
(* A row is inserted, or a late record arrives: no replica takes a step.   *)
LEMMA EnvironmentInv ==
    ASSUME OutboxInv, NEW r \in Rows, Insert(r) \/ LateAppends(r) PROVE OutboxInv'
<1>1. OutboxTypes
  BY DEF OutboxInv
<1>2. UNCHANGED <<published, locked, pc, pending, disconnected, faults>>
  BY DEF Insert, LateAppends, database, control
<1>3. /\ inserted' \subseteq Rows
      /\ copies' \in [Rows -> Nat] /\ late' \in [Rows -> Nat]
      /\ \A q \in Rows : copies'[q] >= copies[q] /\ copies'[q] + late'[q] = copies[q] + late[q]
  <2>1. \A q \in Rows : copies[q] \in Nat /\ late[q] \in Nat
    BY <1>1 DEF OutboxTypes
  <2>2. CASE Insert(r)
    BY <1>1, <2>1, <2>2 DEF Insert, broker, OutboxTypes
  <2>3. CASE LateAppends(r)
    <3>1. /\ late' = [late EXCEPT ![r] = @ - 1] /\ copies' = [copies EXCEPT ![r] = @ + 1]
          /\ late[r] > 0 /\ inserted' = inserted
      BY <2>3 DEF LateAppends, database
    <3>2. late[r] - 1 \in Nat /\ copies[r] + 1 \in Nat
      BY <2>1, <3>1
    <3>3. copies' \in [Rows -> Nat] /\ late' \in [Rows -> Nat] /\ inserted' \subseteq Rows
      BY <1>1, <3>1, <3>2 DEF OutboxTypes
    <3>4. \A q \in Rows : /\ copies'[q] = IF q = r THEN copies[q] + 1 ELSE copies[q]
                          /\ late'[q] = IF q = r THEN late[q] - 1 ELSE late[q]
      BY <1>1, <3>1 DEF OutboxTypes
    <3>5. ASSUME NEW q \in Rows
          PROVE  copies'[q] >= copies[q] /\ copies'[q] + late'[q] = copies[q] + late[q]
      <4>1. copies[q] \in Nat /\ late[q] \in Nat
        BY <2>1
      <4> QED
        BY <3>4, <4>1
    <3> QED
      BY <3>3, <3>5
  <2> QED
    BY <2>2, <2>3
<1>4. OutboxTypes'
  BY <1>1, <1>2, <1>3 DEF OutboxTypes
<1>5. \A q \in Rows : copies[q] \in Nat /\ copies'[q] \in Nat /\ late[q] \in Nat /\ late'[q] \in Nat
                      /\ faults[q] \in Nat
  BY <1>1, <1>3 DEF OutboxTypes
<1>6. \A p \in Publishers : ReplicaInv(p)'
  <2>1. ASSUME NEW p \in Publishers PROVE ReplicaInv(p)'
    <3>1. ReplicaInv(p)
      BY DEF OutboxInv
    <3>2. \A q \in Rows : Holds(pending[p], q, {"ok"}) => copies'[q] > 0
      BY <1>3, <1>5, <3>1 DEF ReplicaInv
    <3> QED
      BY <1>2, <3>1, <3>2 DEF ReplicaInv
  <2> QED
    BY <2>1
<1>7. ASSUME NEW q \in Rows \ Unpublishable PROVE RowExplained(q)'
  <2>1. OpenAt(q)' = OpenAt(q) /\ Excused(q)' = Excused(q)
    BY <1>2 DEF OpenAt, Excused
  <2>2. copies'[q] + late'[q] = copies[q] + late[q]
    BY <1>3
  <2>3. RowExplained(q)
    BY DEF OutboxInv
  <2> QED
    BY <1>2, <2>1, <2>2, <2>3 DEF RowExplained
<1>8. PublishedWasDelivered'
  BY <1>1, <1>2, <1>3, <1>5 DEF OutboxInv, OutboxTypes, PublishedWasDelivered
<1> QED
  BY <1>4, <1>6, <1>7, <1>8 DEF OutboxInv

LEMMA OutboxNext == OutboxInv /\ [Next]_vars => OutboxInv'
<1> SUFFICES ASSUME OutboxInv, [Next]_vars PROVE OutboxInv'
  OBVIOUS
<1>1. ASSUME NEW r \in Rows, Insert(r) \/ LateAppends(r) PROVE OutboxInv'
  BY <1>1, EnvironmentInv
<1>2. ASSUME NEW p \in Publishers, Publisher(p) PROVE OutboxInv'
  BY <1>2, FetchBeginsInv, FetchCommitsInv, FetchFailsInv, PublishTimesOutInv, PublishFailedInv,
     MarkAsPublishedInv, MarkFailsInv, StopInv
  DEF Publisher
<1>3. ASSUME NEW p \in Publishers, DeliveryReport(p) PROVE OutboxInv'
  BY <1>3, BrokerAcksInv, DeliveryFailsInv DEF DeliveryReport
<1>4. ASSUME NEW p \in Publishers, stop(p) \/ Crash(p) \/ Disconnect(p) PROVE OutboxInv'
  BY <1>4, StopInv, CrashInv, DisconnectInv
<1>5. CASE UNCHANGED vars
  <2>1. OutboxTypes'
    BY <1>5 DEF OutboxInv, OutboxTypes, vars
  <2>2. \A p \in Publishers : ReplicaInv(p)'
    BY <1>5 DEF OutboxInv, ReplicaInv, vars
  <2>3. \A r \in Rows \ Unpublishable : RowExplained(r)'
    BY <1>5 DEF OutboxInv, RowExplained, OpenAt, Excused, vars
  <2>4. PublishedWasDelivered'
    BY <1>5 DEF OutboxInv, PublishedWasDelivered, vars
  <2> QED
    BY <2>1, <2>2, <2>3, <2>4 DEF OutboxInv
<1> QED
  BY <1>1, <1>2, <1>3, <1>4, <1>5 DEF Next

LEMMA OutboxAlways == Spec => []OutboxInv
BY OutboxInit, OutboxNext, PTL DEF Spec

(* processBatch marks a row only after its record is in the topic, for any *)
(* interleaving of replicas, faults and crashes: no event is lost.         *)
THEOREM NoEventLost == Spec => []PublishedWasDelivered
<1>1. OutboxInv => PublishedWasDelivered
  BY DEF OutboxInv
<1> QED
  BY <1>1, OutboxAlways, PTL

(* A replica has one open future for a row at most, so counting the        *)
(* replicas counts the records the producers hold.                         *)
LEMMA OpenAtCounts ==
    ASSUME OutboxInv, NEW r \in Rows
    PROVE  LET U == UNION {{p} \X OpenFutures(p, r) : p \in Publishers}
           IN  /\ Cardinality(U) \in Nat /\ Cardinality(OpenAt(r)) \in Nat
               /\ Cardinality(U) <= Cardinality(OpenAt(r))
<1> DEFINE U == UNION {{p} \X OpenFutures(p, r) : p \in Publishers}
           first(p) == CHOOSE i \in OpenFutures(p, r) : TRUE
           g == [p \in OpenAt(r) |-> <<p, first(p)>>]
<1>1. /\ \A p \in Publishers : pending[p] \in Seq(Future) /\ RowsDistinct(pending[p])
      /\ \A p \in Publishers : DOMAIN pending[p] = 1..Len(pending[p])
  BY DEF OutboxInv, OutboxTypes, ReplicaInv
<1>2. ASSUME NEW p \in Publishers, NEW i \in OpenFutures(p, r)
      PROVE  p \in OpenAt(r) /\ OpenFutures(p, r) = {i}
  <2>1. i \in 1..Len(pending[p]) /\ pending[p][i].row = r /\ pending[p][i].state = "open"
    BY <1>1, <1>2 DEF OpenFutures
  <2>2. \A j \in OpenFutures(p, r) : j = i
    BY <1>1, <2>1 DEF OpenFutures, RowsDistinct
  <2> QED
    BY <1>2, <2>1, <2>2 DEF OpenAt, Holds
<1>3. \A p \in OpenAt(r) : p \in Publishers /\ OpenFutures(p, r) # {}
  <2>1. ASSUME NEW p \in OpenAt(r) PROVE p \in Publishers /\ OpenFutures(p, r) # {}
    <3>1. p \in Publishers /\ Holds(pending[p], r, {"open"})
      BY DEF OpenAt
    <3>2. PICK i \in 1..Len(pending[p]) : pending[p][i].row = r /\ pending[p][i].state = "open"
      BY <3>1 DEF Holds
    <3>3. pending[p][i] \in Future
      BY <1>1, <3>1
    <3>4. pending[p][i] = [row |-> r, state |-> "open"]
      BY <3>2, <3>3 DEF Future
    <3> QED
      BY <1>1, <3>1, <3>2, <3>4 DEF OpenFutures
  <2> QED
    BY <2>1
<1>4. \A p \in OpenAt(r) : first(p) \in OpenFutures(p, r)
  BY <1>3
<1>5. g \in Surjection(OpenAt(r), U)
  <2>1. \A p \in OpenAt(r) : <<p, first(p)>> \in U
    BY <1>3, <1>4
  <2>2. ASSUME NEW x \in U PROVE \E p \in OpenAt(r) : g[p] = x
    <3>1. PICK p \in Publishers : x \in {p} \X OpenFutures(p, r)
      OBVIOUS
    <3>2. PICK i \in OpenFutures(p, r) : x = <<p, i>>
      BY <3>1
    <3>3. p \in OpenAt(r) /\ first(p) = i
      BY <1>2, <1>4, <3>2
    <3> QED
      BY <3>2, <3>3
  <2>3. g \in [OpenAt(r) -> U]
    BY <2>1
  <2> QED
    BY <2>2, <2>3 DEF Surjection
<1>6. IsFiniteSet(OpenAt(r))
  <2>1. OpenAt(r) \subseteq Publishers
    BY DEF OpenAt
  <2> QED
    BY <2>1, OutboxAssumption, FS_Subset
<1> HIDE DEF g, U
<1>7. IsFiniteSet(U) /\ Cardinality(U) <= Cardinality(OpenAt(r))
  BY <1>5, <1>6, FS_Surjection
<1>8. Cardinality(U) \in Nat /\ Cardinality(OpenAt(r)) \in Nat
  BY <1>6, <1>7, FS_CardinalityType
<1> QED
  BY <1>7, <1>8 DEF U

(* At-least-once with a bound: however many replicas poll the table, a row *)
(* is in the topic, or on its way, once per replica and once more per      *)
(* fault that hit it, and no oftener.                                      *)
THEOREM DuplicatesBounded == Spec => []DuplicatesExplained
<1>1. OutboxInv => DuplicatesExplained
  <2> SUFFICES ASSUME OutboxInv, NEW r \in Rows \ Unpublishable
               PROVE  copies[r] + UnderWay(r) <= Cardinality(Publishers) + faults[r]
    BY DEF DuplicatesExplained
  <2> DEFINE u == Cardinality(UNION {{p} \X OpenFutures(p, r) : p \in Publishers})
             a == Cardinality(OpenAt(r))
             n == Cardinality(Publishers)
             e == Cardinality(Excused(r))
  <2>1. u \in Nat /\ a \in Nat /\ u <= a
    BY OpenAtCounts
  <2>2. n \in Nat /\ e \in Nat /\ e <= n
    <3>1. Excused(r) \subseteq Publishers
      BY DEF Excused
    <3> QED
      BY <3>1, OutboxAssumption, FS_Subset, FS_CardinalityType
  <2>3. copies[r] + late[r] + a <= faults[r] + (IF r \in published THEN n ELSE e)
    BY DEF OutboxInv, RowExplained
  <2>4. copies[r] \in Nat /\ late[r] \in Nat /\ faults[r] \in Nat
    BY DEF OutboxInv, OutboxTypes
  <2>5. UnderWay(r) = late[r] + u
    BY DEF UnderWay
  <2> HIDE DEF u, a, n, e
  <2>6. copies[r] + (late[r] + u) <= n + faults[r]
    BY <2>1, <2>2, <2>3, <2>4
  <2> QED
    BY <2>5, <2>6 DEF n
<1> QED
  BY <1>1, OutboxAlways, PTL
=============================================================================
