--------------------------- MODULE OrderLifecycle ---------------------------
(***************************************************************************)
(* The order saga across the two services: order-service saves an order    *)
(* and its OrderCreated outbox row in one transaction, worker-service      *)
(* handles the event and writes an OrderReserved row, order-service        *)
(* handles that and moves the order to Reserved.                           *)
(*                                                                         *)
(* The outboxes and the consumers appear as what OutboxPublisher and       *)
(* KafkaEventConsumer provide: a committed row reaches its topic, and a    *)
(* record is delivered at least once, possibly again and possibly to two   *)
(* handler threads at a time (a redelivery after a rebalance does not wait *)
(* for the thread that still runs the handler), until some delivery of it  *)
(* completed or went to the dead letter topic.                             *)
(***************************************************************************)
EXTENDS OrderModel, FiniteSets

CONSTANTS Orders,           \* orders that clients ask for
          Bodies,           \* the JSON bodies of their requests
          Strays,           \* orders with an event but not in the orders table
          Malformed,        \* payloads no mapper accepts
          WorkerThreads,    \* handler threads of all worker-service replicas
          OrderThreads,     \* handler threads of order-service
          MaxAttempts,      \* RetryPolicy::maxAttempts
          MaxFaults,        \* bound on queries that fail by themselves
          MaxRedeliveries,  \* bound on redeliveries
          MaxOverrides,     \* bound on status changes made from outside
          MaxForeign        \* bound on records that are strays or malformed

ASSUME LifecycleAssumption ==
    /\ MaxAttempts \in Nat \ {0}
    /\ MaxFaults \in Nat /\ MaxRedeliveries \in Nat /\ MaxOverrides \in Nat
    /\ MaxForeign \in Nat
    /\ WorkerThreads \cap OrderThreads = {}
    /\ {"yes", "no"} \cap (WorkerThreads \cup OrderThreads) = {}
    /\ Orders \cap Strays = {}
    /\ (Orders \cup Strays) \cap Malformed = {}
    /\ \A json \in Bodies : json \in JsonOrder(Int)

Threads == WorkerThreads \cup OrderThreads
Ids == Orders \cup Strays
Absent == "absent"
NoBody == [userId |-> "", items |-> <<>>]

(* A record of orders.created or orders.reserved: its topic, and the order *)
(* (or junk) in its payload.  OrderCreated rows carry one event id each,   *)
(* so the record also stands for its event id.                             *)
Records == {"created", "reserved"} \X (Ids \cup Malformed)

VARIABLES
    body,          \* order -> the body in CreateOrderHandler's hands, or NoBody
    orders,        \* order -> its status column ("Created", "Reserved",
                   \*   "Shipped" or "Cancelled"), or Absent
    response,      \* order -> what the client was told: "", "201",
                   \*   "400" or "500"
    createdRows,   \* the orders with a row in order-service's outbox
    processed,     \* processed_order_events: order -> the thread whose open
                   \*   transaction inserted it, "yes", or "no"
    reservedRows,  \* order -> rows in worker-service's outbox
    topics,        \* the records in the two topics
    done,          \* records some delivery of which ended
    dead,          \* records sent to the dead letter topic
    thread,        \* thread -> what it runs
    broken,        \* the threads whose database connection was lost
    faults,        \* record -> queries that failed for it, up to MaxAttempts
    outages, redeliveries, overrides   \* how many there were

vars == <<body, orders, response, createdRows, processed, reservedRows, topics,
          done, dead, thread, broken, faults, outages, redeliveries, overrides>>
bounds == <<redeliveries, overrides>>
failures == <<broken, faults, outages>>
consumed == <<done, dead>>

----------------------------------------------------------------------------
Idle == [at |-> "idle"]
Running(record, at, attempt, seen) ==
    [at |-> at, record |-> record, attempt |-> attempt, seen |-> seen]

OrderOf(t) == thread[t].record[2]
TopicOf(t) == IF t \in WorkerThreads THEN "created" ELSE "reserved"

(* Records the two services find in the topics without having written them. *)
Foreign == ({"created"} \X Strays) \cup ({"created", "reserved"} \X Malformed)

Init ==
    /\ body \in [Orders -> Bodies]
    /\ orders = [o \in Ids |-> Absent]
    /\ response = [o \in Orders |-> ""]
    /\ createdRows = {}
    /\ processed = [o \in Ids |-> "no"]
    /\ reservedRows = [o \in Ids |-> 0]
    /\ topics \in {S \in SUBSET Foreign : Cardinality(S) <= MaxForeign}
    /\ done = {} /\ dead = {}
    /\ thread = [t \in Threads |-> Idle]
    /\ broken = {}
    /\ faults = [r \in Records |-> 0]
    /\ outages = 0 /\ redeliveries = 0 /\ overrides = 0

(* A query of thread t throws.  "error" leaves the connection usable,      *)
(* "lost" and "inDoubt" do not, the latter after the COMMIT was applied.   *)
(* connectionForCurrentThread opens a connection once per thread and keeps *)
(* it: on a lost one every later query fails too.                          *)
QueryFails(t, how) ==
    /\ IF t \in broken
       THEN how = "error" /\ UNCHANGED outages
       ELSE outages < MaxFaults /\ outages' = outages + 1
    /\ broken' = IF how = "error" THEN broken ELSE broken \cup {t}
    /\ faults' = [faults EXCEPT ![thread[t].record] = Min({@ + 1, MaxAttempts})]

----------------------------------------------------------------------------
(* What CreateOrderHandler makes of the request, and whether the table     *)
(* takes every item.                                                       *)
Requested(o) == OrderFromJson(body[o])
Storable(o) == \A i \in DOMAIN Requested(o).items : RowAllowed(ItemRow(Requested(o).items[i]))

(* Plausible slip: the outbox row is written by a second transaction,      *)
(* which is skipped when the first one failed to report.                   *)
SaveInTwoTransactions(o, outcome) ==
    /\ orders' = [orders EXCEPT ![o] = IF outcome = "rolledBack" THEN Absent ELSE "Created"]
    /\ createdRows' = createdRows
    /\ response' = [response EXCEPT ![o] = IF outcome = "ok" THEN "201" ELSE "500"]

(* Plausible slip: the event survives the rollback of its order.           *)
SaveEventFirst(o, outcome) ==
    /\ orders' = [orders EXCEPT ![o] = IF outcome = "rolledBack" THEN Absent ELSE "Created"]
    /\ createdRows' = createdRows \cup {o}
    /\ response' = [response EXCEPT ![o] = IF outcome = "ok" THEN "201" ELSE "500"]

(* PostgresOrderRepository::save: the order, its items and the             *)
(* OrderCreated row commit together or not at all.  When the COMMIT is in  *)
(* doubt the client is told 500 although the order exists.                 *)
save(o, outcome) ==
    /\ IF outcome = "rolledBack"
       THEN UNCHANGED <<orders, createdRows>>
       ELSE /\ orders' = [orders EXCEPT ![o] = "Created"]
            /\ createdRows' = createdRows \cup {o}
    /\ response' = [response EXCEPT ![o] = IF outcome = "ok" THEN "201" ELSE "500"]

(* CreateOrderHandler::handle: a body that does not map is answered 400;   *)
(* a row the table refuses rolls the transaction back.                     *)
CreateOrder(o, outcome) ==
    /\ response[o] = ""
    /\ IF IsError(Requested(o))
       THEN /\ response' = [response EXCEPT ![o] = "400"]
            /\ UNCHANGED <<orders, createdRows>>
       ELSE /\ ~Storable(o) => outcome = "rolledBack"
            /\ save(o, outcome)
    /\ body' = [body EXCEPT ![o] = NoBody]
    /\ UNCHANGED <<processed, reservedRows, topics, consumed, thread, failures, bounds>>

(* GetOrderHandler::handle: the path's id, then findById; the rows do map  *)
(* back (AcceptedIsUnderstood).                                            *)
GetOrder(id) ==
    IF id \in Malformed THEN "400" ELSE IF orders[id] = Absent THEN "404" ELSE "200"

(* The outbox publishers of the two services (OutboxPublisher).            *)
PublishCreated(o) ==
    /\ o \in createdRows /\ <<"created", o>> \notin topics
    /\ topics' = topics \cup {<<"created", o>>}
    /\ UNCHANGED <<body, orders, response, createdRows, processed, reservedRows, consumed,
                   thread, failures, bounds>>

PublishReserved(o) ==
    /\ reservedRows[o] > 0 /\ <<"reserved", o>> \notin topics
    /\ topics' = topics \cup {<<"reserved", o>>}
    /\ UNCHANGED <<body, orders, response, createdRows, processed, reservedRows, consumed,
                   thread, failures, bounds>>

(* Somebody else changes the status of an order: the schema and the model  *)
(* class know two statuses that no code of the repository writes yet.      *)
Override(o, status) ==
    /\ orders[o] \in {"Created", "Reserved"}
    /\ overrides < MaxOverrides /\ overrides' = overrides + 1
    /\ orders' = [orders EXCEPT ![o] = status]
    /\ UNCHANGED <<body, response, createdRows, processed, reservedRows, topics, consumed,
                   thread, failures, redeliveries>>

----------------------------------------------------------------------------
(* Deliveries, as the consumer makes them.                                 *)

HeldBy(r) == {t \in Threads : thread[t] # Idle /\ thread[t].record = r}

Deliver(t, r) ==
    /\ thread[t] = Idle
    /\ r \in topics /\ r[1] = TopicOf(t)
    /\ IF r \in done \/ HeldBy(r) # {}
       THEN redeliveries < MaxRedeliveries /\ redeliveries' = redeliveries + 1
       ELSE UNCHANGED redeliveries
    /\ thread' = [thread EXCEPT ![t] = Running(r, "handle", 1, Absent)]
    /\ UNCHANGED <<body, orders, response, createdRows, processed, reservedRows, topics,
                   consumed, failures, overrides>>

(* The handler returned true: the executor completes the record.           *)
Succeed(t) ==
    /\ thread' = [thread EXCEPT ![t] = Idle]
    /\ done' = done \cup {thread[t].record}
    /\ UNCHANGED dead

(* The handler returned false: the executor calls it again from the start  *)
(* or, after the last attempt, dead-letters the record and completes it.   *)
Retry(t) ==
    IF thread[t].attempt < MaxAttempts
    THEN /\ thread' = [thread EXCEPT ![t] =
                Running(@.record, "handle", @.attempt + 1, Absent)]
         /\ UNCHANGED consumed
    ELSE /\ thread' = [thread EXCEPT ![t] = Idle]
         /\ done' = done \cup {thread[t].record}
         /\ dead' = dead \cup {thread[t].record}

GoTo(t, at, seen) ==
    /\ thread' = [thread EXCEPT ![t] = Running(@.record, at, @.attempt, seen)]
    /\ UNCHANGED consumed

Released(t) ==
    [o \in Ids |-> IF processed[o] = t THEN "no" ELSE processed[o]]

(* The process dies or leaves the group in the middle: an open transaction *)
(* is rolled back and the record is delivered again.  A process that died  *)
(* comes back with new connections.                                        *)
Abandon(t) ==
    /\ thread[t] # Idle
    /\ redeliveries < MaxRedeliveries /\ redeliveries' = redeliveries + 1
    /\ thread' = [thread EXCEPT ![t] = Idle]
    /\ processed' = Released(t)
    /\ broken' \in {broken, broken \ {t}}
    /\ UNCHANGED <<body, orders, response, createdRows, reservedRows, topics, consumed,
                   faults, outages, overrides>>

----------------------------------------------------------------------------
(* worker-service: OrderReservationHandler.handle                          *)

(* A payload that does not parse is skipped as handled (never one that     *)
(* order-service wrote: AcceptedIsUnderstood); then the processor runs     *)
(* (the one implementation never fails).                                   *)
ReserveItems(t) ==
    /\ thread[t].at = "handle"
    /\ IF OrderOf(t) \in Malformed THEN Succeed(t) ELSE GoTo(t, "insert", Absent)
    /\ UNCHANGED <<body, orders, response, createdRows, processed, reservedRows, topics,
                   failures, bounds>>

(* Plausible slip: the event id is looked up, not claimed.                 *)
InsertWithoutClaim(t) ==
    /\ thread[t].at = "insert" /\ t \notin broken
    /\ IF processed[OrderOf(t)] = "yes"
       THEN Succeed(t) /\ UNCHANGED processed
       ELSE GoTo(t, "commit", Absent) /\ UNCHANGED processed
    /\ UNCHANGED <<body, orders, response, createdRows, reservedRows, topics, failures, bounds>>

(* INSERT INTO processed_order_events ... ON CONFLICT DO NOTHING: waits    *)
(* for another open transaction with this key; a committed key is a        *)
(* duplicate, nothing is written and the handler returns true.             *)
InsertProcessed(t) ==
    /\ thread[t].at = "insert" /\ t \notin broken
    /\ processed[OrderOf(t)] \in {"no", "yes"}
    /\ IF processed[OrderOf(t)] = "yes"
       THEN Succeed(t) /\ UNCHANGED processed
       ELSE /\ processed' = [processed EXCEPT ![OrderOf(t)] = t]
            /\ GoTo(t, "commit", Absent)
    /\ UNCHANGED <<body, orders, response, createdRows, reservedRows, topics, failures, bounds>>

(* Plausible slip: only the outbox row is committed.                       *)
OutboxWithoutEventId(t) ==
    /\ processed' = [processed EXCEPT ![OrderOf(t)] = "no"]
    /\ reservedRows' = [reservedRows EXCEPT ![OrderOf(t)] = @ + 1]

(* Both inserts become visible.                                            *)
ReservationCommitted(t) ==
    /\ processed' = [processed EXCEPT ![OrderOf(t)] = "yes"]
    /\ reservedRows' = [reservedRows EXCEPT ![OrderOf(t)] = @ + 1]

CommitReservation(t) ==
    /\ thread[t].at = "commit"
    /\ ReservationCommitted(t)
    /\ Succeed(t)
    /\ UNCHANGED <<body, orders, response, createdRows, topics, failures, bounds>>

(* The transaction throws: rolled back, or in doubt and applied.           *)
ReservationFails(t, how) ==
    /\ t \in WorkerThreads
    /\ thread[t].at \in {"insert", "commit"}
    /\ how = "inDoubt" => thread[t].at = "commit"
    /\ QueryFails(t, how)
    /\ IF how = "inDoubt"
       THEN ReservationCommitted(t)
       ELSE processed' = Released(t) /\ UNCHANGED reservedRows
    /\ Retry(t)
    /\ UNCHANGED <<body, orders, response, createdRows, topics, bounds>>

----------------------------------------------------------------------------
(* order-service: OrderReservedHandler.handle                              *)

(* findById; the rows save wrote do map back (AcceptedIsUnderstood).       *)
LoadOrder(t) ==
    /\ t \in OrderThreads /\ thread[t].at = "handle"
    /\ OrderOf(t) \in Malformed \/ t \notin broken
    /\ IF OrderOf(t) \in Malformed
       THEN Succeed(t)
       ELSE GoTo(t, "decide", orders[OrderOf(t)])
    /\ UNCHANGED <<body, orders, response, createdRows, processed, reservedRows, topics,
                   failures, bounds>>

(* Plausible slip: a status that cannot be reserved is retried.            *)
DecideRetriesConflict(t) ==
    /\ thread[t].at = "decide"
    /\ CASE thread[t].seen \in {Absent, "Reserved"} -> Succeed(t)
         [] thread[t].seen = "Created" -> GoTo(t, "update", "Created")
         [] OTHER -> Retry(t)
    /\ UNCHANGED <<body, orders, response, createdRows, processed, reservedRows, topics,
                   failures, bounds>>

(* Not found, already reserved and markReserved's refusal all count as     *)
(* handled; what markReserved accepts goes on to the update.               *)
Decide(t) ==
    /\ thread[t].at = "decide"
    /\ IF thread[t].seen = Absent \/ markReserved(thread[t].seen) # "Reserved"
       THEN Succeed(t)
       ELSE GoTo(t, "update", thread[t].seen)
    /\ UNCHANGED <<body, orders, response, createdRows, processed, reservedRows, topics,
                   failures, bounds>>

(* Plausible slip: UPDATE without AND status = $3.                         *)
ChangeAnyStatus(o, from, to) == [orders EXCEPT ![o] = to]

(* UPDATE orders SET status = to WHERE order_id = o AND status = from.     *)
changeStatus(o, from, to) ==
    IF orders[o] = from THEN [orders EXCEPT ![o] = to] ELSE orders

(* Nobody changed the status since it was read, or the handler starts over.*)
UpdateStatus(t) ==
    /\ thread[t].at = "update" /\ t \notin broken
    /\ orders' = changeStatus(OrderOf(t), thread[t].seen, "Reserved")
    /\ IF orders' # orders THEN Succeed(t) ELSE Retry(t)
    /\ UNCHANGED <<body, response, createdRows, processed, reservedRows, topics, failures, bounds>>

(* A query throws; an UPDATE whose COMMIT was in doubt is applied.         *)
StatusQueryFails(t, how) ==
    /\ t \in OrderThreads
    /\ thread[t].at \in {"handle", "update"} /\ OrderOf(t) \notin Malformed
    /\ how = "inDoubt" => thread[t].at = "update"
    /\ QueryFails(t, how)
    /\ orders' = IF how = "inDoubt"
                 THEN changeStatus(OrderOf(t), thread[t].seen, "Reserved")
                 ELSE orders
    /\ Retry(t)
    /\ UNCHANGED <<body, response, createdRows, processed, reservedRows, topics, bounds>>

----------------------------------------------------------------------------
WorkerStep(t) ==
    \/ ReserveItems(t) \/ InsertProcessed(t) \/ CommitReservation(t)
    \/ \E how \in {"error", "lost", "inDoubt"} : ReservationFails(t, how)

OrderStep(t) ==
    \/ LoadOrder(t) \/ Decide(t) \/ UpdateStatus(t)
    \/ \E how \in {"error", "lost", "inDoubt"} : StatusQueryFails(t, how)

Settled ==
    /\ \A o \in Orders : response[o] # ""
    /\ \A t \in Threads : thread[t] = Idle
    /\ topics \subseteq done
    /\ UNCHANGED vars

Next ==
    \/ \E o \in Orders, outcome \in {"ok", "rolledBack", "inDoubt"} : CreateOrder(o, outcome)
    \/ \E o \in Orders : PublishCreated(o)
    \/ \E o \in Ids : PublishReserved(o)
    \/ \E o \in Orders, status \in {"Shipped", "Cancelled"} : Override(o, status)
    \/ \E t \in Threads, r \in topics : Deliver(t, r)
    \/ \E t \in Threads : Abandon(t)
    \/ \E t \in WorkerThreads : WorkerStep(t)
    \/ \E t \in OrderThreads : OrderStep(t)
    \/ Settled

Spec == Init /\ [][Next]_vars

(* The publishers publish every row (EventuallyPublished), the consumers   *)
(* deliver every record (AllCommitted) and handlers return.                *)
Fairness ==
    /\ WF_vars(\E o \in Orders : PublishCreated(o))
    /\ WF_vars(\E o \in Ids : PublishReserved(o))
    /\ \A topic \in {"created", "reserved"} :
          WF_vars(\E r \in topics \ done : /\ r[1] = topic /\ HeldBy(r) = {}
                                          /\ \E t \in Threads : Deliver(t, r))
    /\ \A t \in WorkerThreads : WF_vars(WorkerStep(t))
    /\ \A t \in OrderThreads : WF_vars(OrderStep(t))

FairSpec == Spec /\ Fairness

----------------------------------------------------------------------------
(* recordReservationIfNew: however often and however concurrently an       *)
(* OrderCreated event is handled, retried or abandoned, its order gets one *)
(* OrderReserved row, and exactly when its event id is in the table.       *)
ReservedOnce ==
    \A o \in Ids : reservedRows[o] = IF processed[o] = "yes" THEN 1 ELSE 0

(* An order is Reserved only if worker-service has recorded that it        *)
(* reserved the items, across both databases and both topics.              *)
ReservedWasRecorded ==
    \A o \in Ids : orders[o] = "Reserved" => processed[o] = "yes"

(* An event of order-service is never ahead of its order: OrderReserved    *)
(* finds the order it names unless the event did not come from the outbox, *)
(* so "not found, skipping" drops nothing; and who sees the event, or was  *)
(* told 201, can read the order.                                           *)
NotFoundOnlyStrays ==
    /\ \A t \in OrderThreads :
          thread[t].at = "decide" /\ thread[t].seen = Absent => OrderOf(t) \in Strays
    /\ \A o \in Orders :
          response[o] = "201" \/ <<"created", o>> \in topics => GetOrder(o) = "200"

(* A handler that lost the race for the status is not a failing handler: a *)
(* record goes to the dead letter topic only if all but one of its         *)
(* attempts met a failing query.  (One lost connection is enough for that: *)
(* the attempts are made on one thread and so on one connection.)          *)
DeadLetterNeedsFaults ==
    \A r \in dead : faults[r] >= MaxAttempts - 1

(* UPDATE ... AND status = $3: a reservation that was decided on an old    *)
(* reading never overwrites a status that was set meanwhile.               *)
NoStatusOverwritten ==
    [][\A o \in Ids : orders[o] \in {"Shipped", "Cancelled"} => orders'[o] = orders[o]]_vars

(* Every stored order leaves Created, whatever redeliveries, lost races    *)
(* and transient faults happen on the way, unless one of its two events is *)
(* in the dead letter topic.  That includes the order whose client was     *)
(* told 500 because the COMMIT of save was in doubt: there is no half      *)
(* saved order.                                                            *)
StoredOrderReserved ==
    \A o \in Orders :
        orders[o] = "Created" ~>
            \/ orders[o] # "Created"
            \/ \E r \in dead : r[2] = o

(* What the request mapper of order-service accepts, every later reader    *)
(* understands in the same way, so an accepted order is neither refused by *)
(* its own tables, nor stuck because it cannot be read back, nor skipped   *)
(* as malformed by worker-service.                                         *)
AcceptedIsUnderstood ==
    \A o \in Orders :
        body[o] \in Bodies /\ ~IsError(Requested(o)) => Understood(Requested(o))

(* totalAmount of an accepted order, its items in whatever order findById  *)
(* returns them, is exact or fails: it fails when the currency codes       *)
(* differ or the exact total does not fit 64 bits, and in no other case,   *)
(* whatever intermediate product or sum overflows.                         *)
TotalIsExact ==
    \A o \in Orders :
        body[o] \in Bodies /\ ~IsError(Requested(o)) =>
            \A f \in Orderings(DOMAIN Requested(o).items) :
                LET items == [i \in DOMAIN f |-> Requested(o).items[f[i]]]
                    total == totalAmount(items)
                IN  IF Summable(items)
                    THEN ~IsError(total) /\ total.minorUnits = ExactTotal(items)
                    ELSE IsError(total)
=============================================================================
