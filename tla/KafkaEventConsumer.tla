------------------------- MODULE KafkaEventConsumer -------------------------
(***************************************************************************)
(* The consumer (shared/messaging/consumer/KafkaEventConsumer.cpp): its    *)
(* start, the loop of its reader thread, the rebalance callback, and its   *)
(* stop, around the pipeline and in front of a broker that may take        *)
(* partitions away, refuse commits and lose answers.                       *)
(*                                                                         *)
(* start() runs before the reader thread exists and stop() works on after  *)
(* joining it, so one control point `ctl' serves all three; `stopFlag' is  *)
(* the reader's stop_token, set by another thread at any time.             *)
(*                                                                         *)
(* The broker and the Kafka client library are external and modelled from  *)
(* how this code uses them: the log of each partition, the committed       *)
(* positions, who owns a partition (this consumer or another member of the *)
(* group, which runs the same code), the position each assigned partition  *)
(* is read from, and which partitions are paused.  The client calls the    *)
(* rebalance callback inside poll() only, at most one per poll, and hands  *)
(* a partition's records out in order from the committed position on.      *)
(***************************************************************************)
EXTENDS ConsumerPipeline

CONSTANTS LogEnd,             \* partition -> its records: offsets 0..LogEnd[p]-1
          MaxPoll,            \* most records one poll() returns
          SubscribeAttempts,  \* SUBSCRIBE_ATTEMPTS
          MaxRebalances,      \* bound: partitions assigned or taken away
          MaxFaults,          \* bound: KafkaExceptions in the loop
          MaxCrashes,         \* bound: crashes of the process
          MayStop             \* whether stop() is called

ASSUME ConsumerAssumption ==
    /\ LogEnd \in [PartitionKey -> Nat] /\ MaxPoll \in Nat /\ SubscribeAttempts \in Nat
    /\ MaxRebalances \in Nat /\ MaxFaults \in Nat /\ MaxCrashes \in Nat
    /\ MayStop \in BOOLEAN
    /\ IsFiniteSet(PartitionKey)

VARIABLES ctl, stopFlag,
          batch,         \* records poll() returned, still to be ingested
          positions,     \* the positions commitReady is committing
          pausedFlag,    \* _paused
          committedAt, owned, readFrom, pausedAt,       \* broker and client library
          subscribes, rebalances, faults, crashes       \* counters of the bounds

consumerVars == <<ctl, stopFlag, batch, positions, pausedFlag>>
brokerVars == <<committedAt, owned, readFrom, pausedAt>>
boundVars == <<subscribes, rebalances, faults, crashes>>
vars == <<pipelineVars, consumerVars, brokerVars, boundVars>>

Assigned == DOMAIN partitions

(* The records for which nothing remains to be done.                       *)
Settled == handled \cup deadLettered \cup InvalidEventId

VolatileInit ==
    /\ ctl = "start" /\ stopFlag = FALSE
    /\ batch = <<>> /\ positions = {} /\ pausedFlag = FALSE
    /\ readFrom = [p \in PartitionKey |-> 0] /\ pausedAt = {}
    /\ subscribes = 0

Init == /\ PipelineInit /\ VolatileInit
        /\ committedAt = [p \in PartitionKey |-> 0]
        /\ owned = {}
        /\ rebalances = 0 /\ faults = 0 /\ crashes = 0

-----------------------------------------------------------------------------
(* Plausible slips, used to show that the properties notice them.          *)

CommitBeforeJoin ==
    /\ ctl = "join"
    /\ backlog' = <<>>
    /\ ctl' = "collect"
    /\ UNCHANGED <<registryVars, poolVars, executorVars, stopFlag, batch, positions,
                   pausedFlag, brokerVars, boundVars>>
PauseOnlyOnce(drained) ==
    /\ ctl = "pump"
    /\ PumpEnds(drained)
    /\ IF drained THEN pausedAt' = (IF pausedFlag THEN {} ELSE pausedAt) /\ pausedFlag' = FALSE
       ELSE pausedAt' = (IF pausedFlag THEN pausedAt ELSE Assigned) /\ pausedFlag' = TRUE
    /\ ctl' = "collect"
    /\ UNCHANGED <<pipelineVars, stopFlag, batch, positions, committedAt, owned, readFrom,
                   boundVars>>
ResumeForgotten(drained) ==
    /\ ctl = "pump"
    /\ PumpEnds(drained)
    /\ pausedAt' = IF drained THEN pausedAt ELSE Assigned
    /\ pausedFlag' = ~drained
    /\ ctl' = "collect"
    /\ UNCHANGED <<pipelineVars, stopFlag, batch, positions, committedAt, owned, readFrom,
                   boundVars>>

-----------------------------------------------------------------------------
(* The broker's side of commitSync.  A commit is accepted for partitions   *)
(* this consumer owns; an exception may hide a commit that took effect.    *)

Accept(cs) ==
    committedAt' = [p \in PartitionKey |->
        IF p \in owned /\ \E c \in cs : c.partition = p
        THEN (CHOOSE c \in cs : c.partition = p).offset ELSE committedAt[p]]

CommitSync(cs, ok) ==
    \/ ok /\ (\A c \in cs : c.partition \in owned) /\ Accept(cs)
    \/ ~ok /\ cs # {} /\ (UNCHANGED committedAt \/ Accept(cs))

-----------------------------------------------------------------------------
(* start *)

(* A subscribe() is under way.                                             *)
Subscribing == ctl = "start" /\ subscribes < SubscribeAttempts

(* _pipeline.reset(): the pool's destructor stops and joins its threads,   *)
(* which have had nothing to do yet.  main returns then, and the client    *)
(* leaves the group; without a pipeline the callback does nothing.         *)
PipelineReset ==
    /\ partitions' = [p \in {} |-> {}]
    /\ queue' = <<>> /\ stopped' = TRUE /\ stopRequested' = Worker
    /\ thread' = [w \in Worker |-> "exited"] /\ task' = [w \in Worker |-> NoTask]
    /\ step' = [w \in Worker |-> Idle]
    /\ backlog' = <<>>
    /\ owned' = {}
    /\ UNCHANGED <<lastGeneration, attempt, logger, thrown, handled, deadLettered>>

SubscribeReturns ==
    /\ Subscribing
    /\ subscribes' = subscribes + 1
    /\ ctl' = "poll"
    /\ UNCHANGED <<pipelineVars, stopFlag, batch, positions, pausedFlag, brokerVars,
                   rebalances, faults, crashes>>

(* subscribe() throws; start() gives up after the last attempt.            *)
SubscribeFails ==
    /\ Subscribing
    /\ subscribes' = subscribes + 1
    /\ IF subscribes' < SubscribeAttempts
       THEN ctl' = "start" /\ UNCHANGED <<pipelineVars, owned>>
       ELSE ctl' = "failed" /\ PipelineReset
    /\ UNCHANGED <<stopFlag, batch, positions, pausedFlag, committedAt, readFrom, pausedAt,
                   rebalances, faults, crashes>>

(* One round of run(): poll, ingest, pump, backpressure, commit. *)

LoopEntered == ctl = "poll" /\ ~stopFlag

(* One poll() reads partitions that are assigned and not paused up to      *)
(* positions `to', and returns at most MaxPoll records, those of a         *)
(* partition in order, those of different partitions in any.               *)
Fetchable == {p \in Assigned \ pausedAt : readFrom[p] < LogEnd[p]}
Fetched(to) == UNION {{p} \X (readFrom[p]..(to[p] - 1)) : p \in PartitionKey}
Fetches ==
    {to \in [PartitionKey -> UNION {0..LogEnd[p] : p \in PartitionKey}] :
        /\ \A p \in Fetchable : readFrom[p] <= to[p] /\ to[p] <= LogEnd[p]
        /\ \A p \in PartitionKey \ Fetchable : to[p] = readFrom[p]
        /\ Cardinality(Fetched(to)) <= MaxPoll}
Deliveries(records) ==
    {r \in [1..Cardinality(records) -> records] :
        /\ Range(r) = records
        /\ \A i, j \in DOMAIN r : i < j /\ r[i][1] = r[j][1] => r[i][2] < r[j][2]}

Poll(to) ==
    /\ LoopEntered
    /\ ctl' = "ingest"
    /\ batch' \in Deliveries(Fetched(to))
    /\ readFrom' = to
    /\ UNCHANGED <<pipelineVars, stopFlag, positions, pausedFlag, committedAt, owned,
                   pausedAt, boundVars>>

(* The calls of the client that run the rebalance callback.                *)
InClientCall == LoopEntered \/ Subscribing

(* poll() or subscribe() calls onRebalance with newly assigned partitions. *)
PollAssigned(ps) ==
    /\ InClientCall
    /\ rebalances < MaxRebalances
    /\ Len(ps) > 0 /\ Range(ps) \cap (Assigned \cup owned) = {}
    /\ onPartitionsAssigned(ps)
    /\ owned' = owned \cup Range(ps)
    /\ readFrom' = [p \in PartitionKey |-> IF p \in Range(ps) THEN committedAt[p] ELSE readFrom[p]]
    /\ rebalances' = rebalances + 1
    /\ ctl' = IF Subscribing THEN "start" ELSE "pump"
    /\ UNCHANGED <<stopFlag, batch, positions, pausedFlag, committedAt, pausedAt,
                   subscribes, faults, crashes>>

(* onRebalance with revoked partitions: the pipeline forgets them and      *)
(* their last positions are committed, whatever the answer.                *)
OnRevoked(S, ok) ==
    /\ onPartitionsRevoked(S)
    /\ CommitSync(Candidates(S), ok)
    /\ owned' = owned \ S
    /\ pausedAt' = pausedAt \ S

(* poll() or subscribe() calls onRebalance with revoked partitions; poll() *)
(* still returns records fetched before, of these partitions too.          *)
PollRevoked(S, ok, to) ==
    /\ InClientCall
    /\ Subscribing => to = readFrom
    /\ S # {} /\ S \subseteq Assigned
    /\ rebalances < MaxRebalances \/ S \cap owned = {}
    /\ rebalances' = IF S \cap owned = {} THEN rebalances ELSE rebalances + 1
    /\ OnRevoked(S, ok)
    /\ batch' \in Deliveries(Fetched(to))
    /\ readFrom' = [p \in PartitionKey |-> IF p \in S THEN 0 ELSE to[p]]
    /\ ctl' = IF Subscribing THEN "start" ELSE "ingest"
    /\ UNCHANGED <<stopFlag, positions, pausedFlag, subscribes, faults, crashes>>

IngestOne ==
    /\ ctl = "ingest" /\ batch # <<>>
    /\ Ingest(Head(batch)[1], Head(batch)[2])
    /\ batch' = Tail(batch)
    /\ UNCHANGED <<ctl, stopFlag, positions, pausedFlag, brokerVars, boundVars>>

IngestEnds ==
    /\ ctl = "ingest" /\ batch = <<>>
    /\ ctl' = "pump"
    /\ UNCHANGED <<pipelineVars, stopFlag, batch, positions, pausedFlag, brokerVars, boundVars>>

Pump ==
    /\ ctl = "pump"
    /\ PumpOne
    /\ UNCHANGED <<consumerVars, brokerVars, boundVars>>

(* pump() returned and applyBackpressure acts on its answer.               *)
Backpressure(drained) ==
    /\ ctl = "pump"
    /\ PumpEnds(drained)
    /\ IF drained THEN /\ pausedAt' = IF pausedFlag THEN {} ELSE pausedAt
                       /\ pausedFlag' = FALSE
                  ELSE /\ pausedAt' = Assigned
                       /\ pausedFlag' = TRUE
    /\ ctl' = "collect"
    /\ UNCHANGED <<pipelineVars, stopFlag, batch, positions, committedAt, owned, readFrom,
                   boundVars>>

(* A KafkaException: from poll(), from pause(), or from resume() when it   *)
(* has resumed some of the partitions.  (Of the client library this        *)
(* assumes that a pause() that throws has paused nothing.)                 *)
KafkaException ==
    /\ faults < MaxFaults
    /\ \/ LoopEntered /\ UNCHANGED pausedAt
       \/ ctl = "pump" /\ PumpEnds(FALSE) /\ UNCHANGED pausedAt
       \/ /\ ctl = "pump" /\ PumpEnds(TRUE) /\ pausedFlag
          /\ pausedAt' \in SUBSET pausedAt
    /\ faults' = faults + 1
    /\ ctl' = "backoff"
    /\ UNCHANGED <<pipelineVars, stopFlag, batch, positions, pausedFlag, committedAt, owned,
                   readFrom, subscribes, rebalances, crashes>>

Backoff ==
    /\ ctl = "backoff"
    /\ ctl' = "poll"
    /\ UNCHANGED <<pipelineVars, stopFlag, batch, positions, pausedFlag, brokerVars, boundVars>>

-----------------------------------------------------------------------------
(* commitReady, in the loop and at the end of stop(), where it is forced.  *)

Forced == stopped
AfterCommit == IF Forced THEN "close" ELSE "poll"

(* The commit interval has not passed yet, or there is nothing to commit.  *)
CommitSkipped ==
    /\ ctl = "collect"
    /\ ~Forced \/ commitCandidates = {}
    /\ ctl' = AfterCommit
    /\ UNCHANGED <<pipelineVars, stopFlag, batch, positions, pausedFlag, brokerVars, boundVars>>

Collect ==
    /\ ctl = "collect"
    /\ commitCandidates # {}
    /\ positions' = commitCandidates
    /\ ctl' = "sync"
    /\ UNCHANGED <<pipelineVars, stopFlag, batch, pausedFlag, brokerVars, boundVars>>

Sync(ok) ==
    /\ ctl = "sync"
    /\ CommitSync(positions, ok)
    /\ ctl' = IF ok THEN "confirm" ELSE AfterCommit
    /\ positions' = IF ok THEN positions ELSE {}
    /\ UNCHANGED <<pipelineVars, stopFlag, batch, pausedFlag, owned, readFrom, pausedAt, boundVars>>

Confirm ==
    /\ ctl = "confirm"
    /\ ConfirmAll(positions)
    /\ positions' = {}
    /\ ctl' = AfterCommit
    /\ UNCHANGED <<stopFlag, batch, pausedFlag, brokerVars, boundVars>>

-----------------------------------------------------------------------------
(* stop *)

RequestReaderStop ==
    /\ MayStop /\ ~stopFlag /\ ctl \notin {"start", "failed", "closed"}
    /\ stopFlag' = TRUE
    /\ UNCHANGED <<pipelineVars, ctl, batch, positions, pausedFlag, brokerVars, boundVars>>

(* The reader leaves its loop and is joined.                               *)
LeaveReader ==
    /\ ctl = "poll" /\ stopFlag
    /\ ctl' = "stopPool"
    /\ UNCHANGED <<pipelineVars, stopFlag, batch, positions, pausedFlag, brokerVars, boundVars>>

StopThreads ==
    /\ ctl = "stopPool"
    /\ StopBegins
    /\ ctl' = "join"
    /\ UNCHANGED <<stopFlag, batch, positions, pausedFlag, brokerVars, boundVars>>

StopThread(w) ==
    /\ ctl = "join"
    /\ RequestStop(w)
    /\ UNCHANGED <<registryVars, executorVars, backlog, consumerVars, brokerVars, boundVars>>

PipelineStopped ==
    /\ ctl = "join" /\ stopRequested = Worker
    /\ StopEnds
    /\ ctl' = "collect"
    /\ UNCHANGED <<stopFlag, batch, positions, pausedFlag, brokerVars, boundVars>>

(* The destructor: the client's close() gives up the partitions through    *)
(* the rebalance callback; the pipeline still exists.                      *)
Close(ok) ==
    /\ ctl = "close"
    /\ OnRevoked(Assigned, ok)
    /\ ctl' = "closed"
    /\ UNCHANGED <<stopFlag, batch, positions, pausedFlag, readFrom, boundVars>>

-----------------------------------------------------------------------------
(* The surroundings: other members, lost sessions, crashes. *)

(* The group takes a partition away before this consumer hears of it.      *)
SessionLost(p) ==
    /\ p \in owned
    /\ rebalances < MaxRebalances
    /\ rebalances' = rebalances + 1
    /\ owned' = owned \ {p}
    /\ UNCHANGED <<pipelineVars, consumerVars, committedAt, readFrom, pausedAt,
                   subscribes, faults, crashes>>

(* Another member settles the next record of a partition and commits it.   *)
OtherMember(p) ==
    /\ p \notin owned /\ committedAt[p] < LogEnd[p]
    /\ handled' = IF <<p, committedAt[p]>> \in InvalidEventId THEN handled
                  ELSE handled \cup {<<p, committedAt[p]>>}
    /\ committedAt' = [committedAt EXCEPT ![p] = @ + 1]
    /\ UNCHANGED <<registryVars, poolVars, step, attempt, logger, thrown, deadLettered, backlog, consumerVars,
                   owned, readFrom, pausedAt, boundVars>>

(* The process dies and is started again; only the broker remembers.       *)
Crash ==
    /\ crashes < MaxCrashes
    /\ crashes' = crashes + 1
    /\ partitions' = [p \in {} |-> {}] /\ lastGeneration' = 0
    /\ queue' = <<>> /\ stopped' = FALSE /\ stopRequested' = {}
    /\ thread' = [w \in Worker |-> "ready"] /\ task' = [w \in Worker |-> NoTask]
    /\ step' = [w \in Worker |-> Idle] /\ attempt' = [w \in Worker |-> 0]
    /\ logger' = FALSE /\ thrown' = {} /\ backlog' = <<>>
    /\ ctl' = "start" /\ stopFlag' = FALSE
    /\ batch' = <<>> /\ positions' = {} /\ pausedFlag' = FALSE
    /\ owned' = {} /\ readFrom' = [p \in PartitionKey |-> 0] /\ pausedAt' = {}
    /\ subscribes' = 0
    /\ UNCHANGED <<handled, deadLettered, committedAt, rebalances, faults>>

-----------------------------------------------------------------------------
PartitionLists == {ps \in UNION {[1..n -> PartitionKey] : n \in 1..Cardinality(PartitionKey)} :
                      IsInjective(ps)}

ReaderStep ==
    \/ SubscribeReturns \/ SubscribeFails
    \/ \E to \in Fetches : Poll(to)
    \/ \E ps \in PartitionLists : PollAssigned(ps)
    \/ \E S \in SUBSET Assigned, ok \in BOOLEAN, to \in Fetches : PollRevoked(S, ok, to)
    \/ IngestOne \/ IngestEnds
    \/ Pump
    \/ \E drained \in BOOLEAN : Backpressure(drained)
    \/ KafkaException \/ Backoff
    \/ CommitSkipped \/ Collect
    \/ \E ok \in BOOLEAN : Sync(ok)
    \/ Confirm

StopStep ==
    \/ LeaveReader
    \/ StopThreads
    \/ \E w \in Worker : StopThread(w)
    \/ PipelineStopped
    \/ \E ok \in BOOLEAN : Close(ok)

WorkerStep(w) ==
    ExecutorStep(w) /\ UNCHANGED <<backlog, consumerVars, brokerVars, boundVars>>

Terminated == ctl \in {"closed", "failed"} /\ UNCHANGED vars

Next == \/ ReaderStep
        \/ StopStep
        \/ RequestReaderStop
        \/ \E w \in Worker : WorkerStep(w)
        \/ \E p \in PartitionKey : SessionLost(p) \/ OtherMember(p)
        \/ Crash
        \/ Terminated

Spec == Init /\ [][Next]_vars

(* Threads that can run do run, handlers and library calls return.         *)
ThreadFairness ==
    /\ WF_vars(ReaderStep) /\ WF_vars(StopStep)
    /\ \A w \in Worker : WF_vars(WorkerStep(w))

(* The surroundings work often enough: poll() goes on to deliver and to    *)
(* report lost partitions, commits and dead letters are accepted now and   *)
(* then, the commit interval passes, and the other member makes progress.  *)
EnvironmentFairness ==
    /\ \A p \in PartitionKey :
          /\ SF_vars(\E to \in Fetches : to[p] > readFrom[p] /\ Poll(to))
          /\ SF_vars(\E ok \in BOOLEAN, to \in Fetches : p \notin owned /\ PollRevoked({p}, ok, to))
          /\ WF_vars(OtherMember(p))
    /\ SF_vars(Collect) /\ SF_vars(Sync(TRUE))
    /\ SF_vars(SubscribeReturns)
    /\ \A w \in Worker :
          SF_vars(/\ Send(w, TRUE, TRUE)
                  /\ UNCHANGED <<backlog, consumerVars, brokerVars, boundVars>>)

StopSpec == Spec /\ ThreadFairness
LiveSpec == Spec /\ ThreadFairness /\ EnvironmentFairness

-----------------------------------------------------------------------------
(* Properties *)

(* No record is lost: whatever lies below a committed position, and so is  *)
(* never delivered again, was handled, dead-lettered, or has no valid      *)
(* eventId; also after rebalances, lost sessions, failed commits, stops    *)
(* and crashes.                                                            *)
NoRecordLost ==
    \A p \in PartitionKey : \A o \in 0..(committedAt[p] - 1) : <<p, o>> \in Settled

(* A committed position never moves back, in whoever's hands the partition *)
(* is: nothing already committed is read again.                            *)
CommittedNeverMovesBack == [][\A p \in PartitionKey : committedAt[p] <= committedAt'[p]]_vars

(* Between polls the backlog holds tickets of the present ownership only,  *)
(* and no ticket is in two places: the backlog, the queue or a thread.     *)
EachTicketOnce ==
    LET waiting == backlog \o queue
        running == {w \in Worker : task[w] # NoTask}
    IN  /\ \A i \in 1..Len(backlog) : IsCurrent(backlog[i])
        /\ \A i, j \in 1..Len(waiting) : waiting[i] = waiting[j] => i = j
        /\ \A v, w \in running : task[v] = task[w] => v = w
        /\ \A w \in running : task[w] \notin Range(waiting)

(* The client is never left paused by a flag that says otherwise: a        *)
(* forgotten pause would silence a partition for good.                     *)
PausesRemembered == pausedAt # {} => pausedFlag

(* Backpressure bounds the backlog: while one poll's records wait for the  *)
(* pool no further ones are read, of partitions that arrive meanwhile      *)
(* neither; only a pause() that throws lets one more poll through.         *)
BacklogBounded == Len(backlog) <= MaxPoll * (1 + faults)

(* When stop()'s last commit was accepted, no finished record is left      *)
(* uncommitted behind it: no thread could finish one in between.           *)
NothingLeftAfterLastCommit ==
    [][ctl = "confirm" /\ ctl' = "close" => commitCandidates' = {}]_vars

(* No lost wakeup in WorkerPool: a queued ticket is never left with every  *)
(* thread asleep in condition.wait.                                        *)
SomeoneAwake == queue # <<>> => \E w \in Worker : thread[w] # "asleep"

(* WorkerPool::stop empties the queue before it asks the threads to stop,  *)
(* so a thread that was not asked yet begins nothing any more.             *)
NothingBeginsAfterStop ==
    [][stopped => \A w \in Worker : task'[w] \in {task[w], NoTask}]_vars

(* stop() returns, even when handlers keep failing, the dead letter topic  *)
(* is unreachable and commits are refused.                                 *)
StopReturns == stopFlag ~> ctl \in {"closed", "start"}

(* Every record is settled and its position committed in the end, unless   *)
(* a thread lost the race for the first log line of RecordExecutor: the    *)
(* record it had is then left unfinished, and what follows uncommitted,    *)
(* until the partition changes hands.                                      *)
AllCommitted ==
    <>[](\A p \in PartitionKey :
            \/ committedAt[p] = LogEnd[p]
            \/ \E ticket \in thrown : ticket.partition = p /\ IsCurrent(ticket))

-----------------------------------------------------------------------------
(* What three comments in the code say, and the code does not do.          *)

(* consumer/IEventHandler.h:17-19: when the handler answers false the      *)
(* offset is not committed.  (It is, once the record is dead-lettered.)    *)
FailedIsNotCommitted ==
    \A p \in PartitionKey : \A o \in 0..(committedAt[p] - 1) :
        <<p, o>> \in handled \cup InvalidEventId

(* consumer/KafkaEventConsumer.cpp:175: after a failed commitSync the      *)
(* position remains a candidate for the next commit.  (Not when the commit *)
(* was made for revoked partitions: their trackers are gone.)              *)
FailedCommitStaysCandidate ==
    [][\A S \in SUBSET Assigned, to \in Fetches :
          PollRevoked(S, FALSE, to) => Candidates(S) \subseteq commitCandidates']_vars

(* A record of p is registered and unfinished, and neither waits nor runs. *)
Stranded(p) ==
    /\ p \in Assigned
    /\ \E i \in DOMAIN partitions[p].tracker.entries :
          LET entry == partitions[p].tracker.entries[i]
              ticket == [partition |-> p, offset |-> entry.offset,
                         generation |-> partitions[p].generation]
          IN  ~entry.done /\ ticket \notin Range(backlog \o queue) \cup Range(task)

(* RecordExecutor.h:28-32: execute() completes the record, except on a     *)
(* stop or a revocation, after which it comes again.  (Not when the logger *)
(* throws out of it: the pool forgets the record, the registry does not.)  *)
UnfinishedComesAgain == ~stopped => \A p \in Assigned : ~Stranded(p)
=============================================================================
