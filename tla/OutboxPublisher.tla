-------------------------- MODULE OutboxPublisher --------------------------
(***************************************************************************)
(* The transactional outbox: the polling thread of shared::outbox::        *)
(* OutboxPublisher, the two queries of PostgresOutboxRepository and the    *)
(* delivery reports of KafkaEventPublisher.  Every replica of a service    *)
(* runs one publisher over the same outbox table.                          *)
(*                                                                         *)
(* Rows are numbered by created_at.  That is the time the inserting        *)
(* transaction BEGAN, so rows become visible in any order.  Unpublishable  *)
(* rows are the ones the producer rejects whatever happens (a payload over *)
(* the broker's message size).  Every other failure is transient and is    *)
(* counted; MaxFaults bounds them.                                         *)
(***************************************************************************)
EXTENDS Integers, Sequences, FiniteSets, FiniteSetsExt, SequencesExt

CONSTANTS Publishers,     \* the service replicas
          Rows,           \* the outbox rows, numbered by created_at
          Unpublishable,  \* the rows no attempt can publish
          BatchSize,      \* _batchSize
          MaxFaults,      \* bound on transient faults
          MaxStops        \* bound on stop() calls

ASSUME OutboxAssumption ==
    /\ IsFiniteSet(Publishers)
    /\ Rows \subseteq Nat /\ IsFiniteSet(Rows)
    /\ Unpublishable \subseteq Rows
    /\ BatchSize \in Nat \ {0}
    /\ MaxFaults \in Nat /\ MaxStops \in Nat

VARIABLES
    inserted,       \* the committed rows
    published,      \* the rows whose published column is TRUE
    locked,         \* publisher -> the rows its open SELECT FOR UPDATE holds
    copies,         \* row -> records in the topic that carry it
    late,           \* row -> records the producer still holds, future dropped
    pc,             \* publisher -> "loop", "fetch", "await", "sleep", "finished"
    pending,        \* publisher -> the futures of the batch, in order
    result,         \* publisher -> BatchResult
    stopRequested,  \* the publishers whose stop token is set
    disconnected,   \* the publishers whose one connection is broken
    faults          \* row -> the transient faults that hit it

database == <<inserted, published>>
broker == <<copies, late>>
control == <<stopRequested, disconnected>>
vars == <<inserted, published, locked, copies, late, pc, pending, result,
          stopRequested, disconnected, faults>>

----------------------------------------------------------------------------
(* A future of PendingPublish is its row and a state: "open", "ok" or      *)
(* "failed".                                                               *)
NoResult == [fetched |-> 0, published |-> 0]

FaultCount == MapThenSumSet(LAMBDA r : faults[r], Rows)

(* A fault that hits the rows in S, while the bound allows it.             *)
Fault(S) ==
    /\ FaultCount < MaxFaults
    /\ faults' = [r \in Rows |-> faults[r] + IF r \in S THEN 1 ELSE 0]

(* The unpublishable rows are in the table from the start, the others are  *)
(* inserted meanwhile.                                                     *)
Init ==
    /\ inserted = Unpublishable /\ published = {}
    /\ locked = [p \in Publishers |-> {}]
    /\ copies = [r \in Rows |-> 0]
    /\ late = [r \in Rows |-> 0]
    /\ pc = [p \in Publishers |-> "loop"]
    /\ pending = [p \in Publishers |-> <<>>]
    /\ result = [p \in Publishers |-> NoResult]
    /\ stopRequested = {} /\ disconnected = {}
    /\ faults = [r \in Rows |-> 0]

(* A service transaction that wrote the row commits.                       *)
Insert(r) ==
    /\ r \notin inserted
    /\ inserted' = inserted \cup {r}
    /\ UNCHANGED <<published, locked, broker, pc, pending, result, control, faults>>

(* ORDER BY created_at LIMIT limit.                                        *)
Oldest(S, limit) ==
    {r \in S : Cardinality({q \in S : q < r}) < limit}

(* SELECT ... WHERE published = FALSE ... FOR UPDATE SKIP LOCKED; nothing   *)
(* is selected through a broken connection.                                *)
SelectUnpublished(p) ==
    IF p \in disconnected THEN {} ELSE
    Oldest((inserted \ published) \ UNION {locked[q] : q \in Publishers \ {p}},
           BatchSize)

(* The head of the loop is reached from its end, or when                   *)
(* sleepUnlessStopped returns: the interval passed or stop was asked.      *)
AtLoopHead(p) == pc[p] \in {"loop", "sleep"}

(* Plausible slip: the loop does not look at its stop token.               *)
FetchIgnoresStop(p) ==
    /\ AtLoopHead(p)
    /\ locked' = [locked EXCEPT ![p] = SelectUnpublished(p)]
    /\ pc' = [pc EXCEPT ![p] = "fetch"]
    /\ UNCHANGED <<database, broker, pending, result, control, faults>>

(* run: the loop takes another batch; fetchUnpublished runs its SELECT.    *)
FetchBegins(p) ==
    /\ AtLoopHead(p) /\ p \notin stopRequested
    /\ locked' = [locked EXCEPT ![p] = SelectUnpublished(p)]
    /\ pc' = [pc EXCEPT ![p] = "fetch"]
    /\ UNCHANGED <<database, broker, pending, result, control, faults>>

(* The rows of S in the order of the SELECT.                               *)
InOrder(S) ==
    {rows \in [1..Cardinality(S) -> S] :
        \A i, j \in DOMAIN rows : i < j => rows[i] < rows[j]}

(* The SELECT commits, which releases the row locks; every fetched row is  *)
(* handed to the producer before any future is awaited.                    *)
FetchCommits(p) ==
    /\ pc[p] = "fetch" /\ p \notin disconnected
    /\ \E rows \in InOrder(locked[p]) :
          /\ pending' = [pending EXCEPT ![p] =
                [i \in DOMAIN rows |-> [row |-> rows[i], state |-> "open"]]]
          /\ result' = [result EXCEPT ![p] = [fetched |-> Len(rows), published |-> 0]]
          /\ pc' = [pc EXCEPT ![p] = IF rows = <<>> THEN "sleep" ELSE "await"]
    /\ locked' = [locked EXCEPT ![p] = {}]
    /\ UNCHANGED <<database, broker, control, faults>>

(* A query on rows S throws: always on a broken connection, otherwise it   *)
(* is a transient fault.  (On no rows a failure shows no difference.)      *)
QueryFails(p, S) ==
    IF p \in disconnected THEN UNCHANGED faults ELSE S # {} /\ Fault(S)

(* Plausible slip: a failed fetch ends the loop.                           *)
FetchFailureEndsLoop(p) ==
    /\ pc[p] = "fetch"
    /\ QueryFails(p, locked[p])
    /\ locked' = [locked EXCEPT ![p] = {}]
    /\ pc' = [pc EXCEPT ![p] = "finished"]
    /\ UNCHANGED <<database, broker, pending, result, control>>

(* fetchUnpublished throws inside: processBatch returns an empty result.   *)
FetchFails(p) ==
    /\ pc[p] = "fetch"
    /\ QueryFails(p, locked[p])
    /\ locked' = [locked EXCEPT ![p] = {}]
    /\ pc' = [pc EXCEPT ![p] = "sleep"]
    /\ UNCHANGED <<database, broker, pending, result, control>>

----------------------------------------------------------------------------
(* The broker and the producer's delivery reports, in any order.           *)

Report(p, i, state) == pending' = [pending EXCEPT ![p][i].state = state]

(* The record is appended and acknowledged.                                *)
BrokerAcks(p, i) ==
    /\ pending[p][i].state = "open"
    /\ pending[p][i].row \notin Unpublishable
    /\ copies' = [copies EXCEPT ![pending[p][i].row] = @ + 1]
    /\ Report(p, i, "ok")
    /\ UNCHANGED <<database, late, locked, pc, result, control, faults>>

(* The delivery report is an error: the record was refused, or it timed    *)
(* out in the producer although the broker had appended it.                *)
DeliveryFails(p, i, appended) ==
    /\ pending[p][i].state = "open"
    /\ LET r == pending[p][i].row
       IN  /\ IF r \in Unpublishable THEN ~appended /\ UNCHANGED faults ELSE Fault({r})
           /\ copies' = [copies EXCEPT ![r] = @ + IF appended THEN 1 ELSE 0]
    /\ Report(p, i, "failed")
    /\ UNCHANGED <<database, late, locked, pc, result, control>>

(* A record whose future was dropped is appended after all, or never.      *)
LateAppends(r) ==
    /\ late[r] > 0
    /\ late' = [late EXCEPT ![r] = @ - 1]
    /\ copies' = [copies EXCEPT ![r] = @ + 1]
    /\ UNCHANGED <<database, locked, pc, pending, result, control, faults>>

----------------------------------------------------------------------------
(* The second loop of processBatch, one future at a time.                  *)

(* Plausible slip: a full batch counts as work, progress or not.           *)
FullBatchMeansMoreWork(b) == b.fetched >= BatchSize

hasMoreWork(b) == b.published > 0 /\ b.fetched >= BatchSize

(* One future is dealt with; after the last one run looks at the result.   *)
NextFuture(p, marked) ==
    LET b == [result[p] EXCEPT !.published = @ + marked]
    IN  /\ pending' = [pending EXCEPT ![p] = Tail(@)]
        /\ IF Len(pending[p]) > 1
           THEN result' = [result EXCEPT ![p] = b] /\ UNCHANGED pc
           ELSE /\ result' = [result EXCEPT ![p] = NoResult]
                /\ pc' = [pc EXCEPT ![p] = IF hasMoreWork(b) THEN "loop" ELSE "sleep"]

Awaiting(p) == pc[p] = "await" /\ pending[p] # <<>>

(* Rows that an open SELECT FOR UPDATE holds: an UPDATE of them waits.     *)
LockedRows == UNION {locked[q] : q \in Publishers}

(* wait_for expires on a future that is not ready; the record stays with   *)
(* the producer, or is in the topic and not reported (late, either way).   *)
(* A record that can never be published is refused whether or not its      *)
(* future still waits, so its time-out is no fault and leaves nothing.     *)
PublishTimesOut(p) ==
    /\ Awaiting(p)
    /\ Head(pending[p]).state = "open"
    /\ LET r == Head(pending[p]).row
       IN  IF r \in Unpublishable
           THEN UNCHANGED <<late, faults>>
           ELSE Fault({r}) /\ late' = [late EXCEPT ![r] = @ + 1]
    /\ NextFuture(p, 0)
    /\ UNCHANGED <<database, copies, locked, control>>

PublishFailed(p) ==
    /\ Awaiting(p)
    /\ Head(pending[p]).state = "failed"
    /\ NextFuture(p, 0)
    /\ UNCHANGED <<database, broker, locked, control, faults>>

(* Plausible slip: the row is marked whatever the future holds.            *)
MarksWithoutResult(p) ==
    /\ Awaiting(p) /\ p \notin disconnected
    /\ Head(pending[p]).state \in {"ok", "failed"}
    /\ Head(pending[p]).row \notin LockedRows
    /\ published' = published \cup {Head(pending[p]).row}
    /\ NextFuture(p, 1)
    /\ UNCHANGED <<inserted, broker, locked, control, faults>>

(* Plausible slip: markAsPublished forgets its commit.                     *)
MarkForgetsCommit(p) ==
    /\ Awaiting(p) /\ p \notin disconnected
    /\ Head(pending[p]).state = "ok"
    /\ Head(pending[p]).row \notin LockedRows
    /\ NextFuture(p, 1)
    /\ UNCHANGED <<database, broker, locked, control, faults>>

MarkAsPublished(p) ==
    /\ Awaiting(p) /\ p \notin disconnected
    /\ Head(pending[p]).state = "ok"
    /\ Head(pending[p]).row \notin LockedRows
    /\ published' = published \cup {Head(pending[p]).row}
    /\ NextFuture(p, 1)
    /\ UNCHANGED <<inserted, broker, locked, control, faults>>

(* markAsPublished reports an error; when its COMMIT was in doubt the      *)
(* UPDATE may have been applied.                                           *)
MarkFails(p, applied) ==
    /\ Awaiting(p)
    /\ Head(pending[p]).state = "ok"
    /\ p \notin disconnected => Head(pending[p]).row \notin LockedRows
    /\ p \in disconnected => ~applied
    /\ LET r == Head(pending[p]).row
       IN  /\ QueryFails(p, {r})
           /\ published' = published \cup IF applied THEN {r} ELSE {}
    /\ NextFuture(p, 0)
    /\ UNCHANGED <<inserted, broker, locked, control>>

----------------------------------------------------------------------------
(* The connection breaks.  The repository opens it once, in its            *)
(* constructor, and never again: every later query of this process fails.  *)
Disconnect(p) ==
    /\ p \notin disconnected /\ pc[p] # "finished"
    /\ Fault({pending[p][i].row : i \in DOMAIN pending[p]})
    /\ disconnected' = disconnected \cup {p}
    /\ locked' = [locked EXCEPT ![p] = {}]
    /\ UNCHANGED <<database, broker, pc, pending, result, stopRequested>>

stop(p) ==
    /\ p \notin stopRequested /\ Cardinality(stopRequested) < MaxStops
    /\ stopRequested' = stopRequested \cup {p}
    /\ UNCHANGED <<database, broker, locked, pc, pending, result, disconnected, faults>>

LoopFinishes(p) ==
    /\ AtLoopHead(p) /\ p \in stopRequested
    /\ pc' = [pc EXCEPT ![p] = "finished"]
    /\ UNCHANGED <<database, broker, locked, pending, result, control, faults>>

OpenFutures(p, r) ==
    {i \in DOMAIN pending[p] : pending[p][i] = [row |-> r, state |-> "open"]}

(* The process dies with its batch and is started again, with a new        *)
(* connection.  What the producer had not delivered may still reach the    *)
(* broker.                                                                 *)
Crash(p) ==
    /\ pc[p] = "await" /\ pending[p] # <<>>
    /\ Fault({pending[p][i].row : i \in DOMAIN pending[p]})
    /\ late' = [r \in Rows |->
          late[r] + IF r \in Unpublishable THEN 0 ELSE Cardinality(OpenFutures(p, r))]
    /\ pending' = [pending EXCEPT ![p] = <<>>]
    /\ pc' = [pc EXCEPT ![p] = "loop"]
    /\ result' = [result EXCEPT ![p] = NoResult]
    /\ disconnected' = disconnected \ {p}
    /\ UNCHANGED <<database, copies, locked, stopRequested>>

----------------------------------------------------------------------------
Publisher(p) ==
    \/ FetchBegins(p) \/ FetchCommits(p) \/ FetchFails(p)
    \/ PublishTimesOut(p) \/ PublishFailed(p)
    \/ MarkAsPublished(p) \/ (\E applied \in BOOLEAN : MarkFails(p, applied))
    \/ LoopFinishes(p)

DeliveryReport(p) ==
    \E i \in DOMAIN pending[p] :
        BrokerAcks(p, i) \/ \E appended \in BOOLEAN : DeliveryFails(p, i, appended)

Next ==
    \/ \E r \in Rows : Insert(r) \/ LateAppends(r)
    \/ \E p \in Publishers : Publisher(p) \/ DeliveryReport(p) \/ stop(p)
                            \/ Crash(p) \/ Disconnect(p)

Spec == Init /\ [][Next]_vars

(* The thread keeps running, its database calls return and the producer    *)
(* reports every record (message.timeout.ms).                              *)
Fairness ==
    \A p \in Publishers : WF_vars(Publisher(p)) /\ WF_vars(DeliveryReport(p))

FairSpec == Spec /\ Fairness

----------------------------------------------------------------------------
(* processBatch marks a row only after its record is in the topic, whatever *)
(* fails, times out, crashes or is done by another replica meanwhile: no   *)
(* event is lost between the table and the topic.                          *)
PublishedWasDelivered == \A r \in published : copies[r] > 0

(* The topic holds a row more than once only for a reason: another replica *)
(* had fetched it before it was marked, or a fault hit it.  The records    *)
(* still under way are counted with the ones that arrived.                 *)
UnderWay(r) ==
    late[r] + Cardinality(UNION {{p} \X OpenFutures(p, r) : p \in Publishers})

DuplicatesExplained ==
    \A r \in Rows \ Unpublishable :
        copies[r] + UnderWay(r) <= Cardinality(Publishers) + faults[r]

(* The unpublishable rows SELECT ... ORDER BY created_at returns before r. *)
Before(r) == {q \in Unpublishable : q < r}

(* A batch has room for every row with fewer unpublishable rows than the   *)
(* LIMIT before it, so neither these nor a replica that lost its           *)
(* connection keep it from being published, unless all the replicas are    *)
(* stopped or have lost theirs.  (A row stays inserted, so to find it      *)
(* published again and again is to find it published in the end.)          *)
EventuallyPublished ==
    \A r \in Rows \ Unpublishable :
        Cardinality(Before(r)) < BatchSize =>
            []<>(r \in inserted =>
                    r \in published \/ stopRequested \cup disconnected = Publishers)

(* A publisher with nothing it can publish sleeps between its batches and  *)
(* does not hammer the broker with the same batch, a full one of           *)
(* unpublishable rows included: hasMoreWork asks for progress.             *)
NeverSpins ==
    \A p \in Publishers : []<>(pc[p] \in {"sleep", "finished"})

(* stop() is answered: the loop ends after the batch it was in, so the     *)
(* destructor of the jthread joins it.  (The request is never withdrawn.)  *)
StopJoins == \A p \in Publishers : []<>(p \in stopRequested => pc[p] = "finished")
=============================================================================
