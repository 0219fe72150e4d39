-------------------------- MODULE ConsumerPipeline --------------------------
(***************************************************************************)
(* The consumer pipeline (shared/messaging/ConsumerPipeline.h): the        *)
(* reader thread ingests records into a backlog and pumps the backlog into *)
(* the pool; the registry, shared with the pool's threads, keeps what may  *)
(* be committed.  Every action here is a step of the reader thread (after  *)
(* it ended, of the thread that stops the pipeline).                       *)
(***************************************************************************)
EXTENDS RecordExecutor

CONSTANT InvalidEventId    \* records (<<partition, offset>>) without a valid eventId header

VARIABLE backlog

pipelineVars == <<registryVars, poolVars, executorVars, backlog>>

PipelineInit == RegistryInit /\ PoolInit /\ ExecutorInit /\ backlog = <<>>

-----------------------------------------------------------------------------
(* Plausible slips, used to show that the properties notice them.          *)

RevokeKeepsBacklog(S) ==
    /\ Revoke(S)
    /\ UNCHANGED <<backlog, poolVars, executorVars>>
IngestForgetsInvalid(p, offset) ==
    /\ RegisterIn(p, offset)
    /\ backlog' = IF RegisterInResult(p, offset) = Ok /\ <<p, offset>> \notin InvalidEventId
                  THEN Append(backlog, PositionOf(p, offset)) ELSE backlog
    /\ UNCHANGED <<poolVars, executorVars>>
PumpWithoutPop ==
    /\ backlog # <<>>
    /\ Submit(Head(backlog))
    /\ UNCHANGED <<backlog, registryVars, executorVars>>

-----------------------------------------------------------------------------
onPartitionsAssigned(ps) ==
    /\ Assign(ps)
    /\ UNCHANGED <<backlog, poolVars, executorVars>>

(* What is left when the items of S are erased, in the order it was.       *)
Erased(S, items) ==
    LET kept == {i \in DOMAIN items : items[i].partition \notin S}
        places == {f \in [1..Cardinality(kept) -> kept] :
                      \A i, j \in DOMAIN f : i < j => f[i] < f[j]}
    IN  {[i \in 1..Cardinality(kept) |-> items[f[i]]] : f \in places}

(* The positions to commit are Candidates(S) before the step.              *)
onPartitionsRevoked(S) ==
    /\ Revoke(S)
    /\ backlog' \in Erased(S, backlog)
    /\ UNCHANGED <<poolVars, executorVars>>

(* The tracker of p after the record was registered and, when its eventId  *)
(* is invalid, completed at once.                                          *)
IngestedTracker(p, offset) ==
    LET registered == RegisterRecord(partitions[p].tracker, offset)
    IN  IF <<p, offset>> \in InvalidEventId THEN Complete(registered, offset) ELSE registered

Ingest(p, offset) ==
    LET ok == RegisterInResult(p, offset) = Ok
    IN  /\ partitions' = IF ok
                         THEN [partitions EXCEPT ![p].tracker = IngestedTracker(p, offset)]
                         ELSE partitions
        /\ backlog' = IF ok /\ <<p, offset>> \notin InvalidEventId
                      THEN Append(backlog, PositionOf(p, offset)) ELSE backlog
        /\ UNCHANGED <<lastGeneration, poolVars, executorVars>>

(* One round of the loop of pump(); the loop ends with TRUE when the       *)
(* backlog is empty and with FALSE when the pool refuses.                  *)
PumpOne ==
    /\ backlog # <<>>
    /\ Submit(Head(backlog))
    /\ backlog' = Tail(backlog)
    /\ UNCHANGED <<registryVars, executorVars>>

PumpEnds(drained) ==
    /\ drained = (backlog = <<>>)
    /\ ~drained => ~Accepts

ConfirmAll(positions) ==
    /\ partitions' = [p \in DOMAIN partitions |->
                         LET mine == {c \in positions : c.partition = p /\ IsCurrent(c)}
                         IN  IF mine = {} THEN partitions[p]
                             ELSE [partitions[p] EXCEPT !.tracker =
                                      ConfirmCommit(@, (CHOOSE c \in mine : TRUE).offset)]]
    /\ UNCHANGED <<lastGeneration, poolVars, executorVars, backlog>>

(* stop() in two parts: the pool's queue is emptied, then, when every      *)
(* thread has left, the backlog.                                           *)
StopBegins == StopPool /\ UNCHANGED <<registryVars, executorVars, backlog>>

StopEnds ==
    /\ Joined
    /\ backlog' = <<>>
    /\ UNCHANGED <<registryVars, poolVars, executorVars>>
=============================================================================
