--------------------------- MODULE RecordExecutor ---------------------------
(***************************************************************************)
(* What a pool thread does with one record                                 *)
(* (shared/messaging/RecordExecutor.h): call the handler up to             *)
(* effectiveMaxAttempts() times with a pause between, then hand the record *)
(* to the dead letter topic, and complete its ticket in the registry.  It  *)
(* gives up, leaving the ticket incomplete, when the thread is asked to    *)
(* stop or the ticket is no longer current.                                *)
(*                                                                         *)
(* A work item is its ticket: payload and metadata are fixed by partition  *)
(* and offset.  A thread's place in execute() is step[w].                  *)
(***************************************************************************)
EXTENDS PartitionRegistry, WorkerPool

CONSTANT MaxAttempts       \* RetryPolicy::maxAttempts, any int

ASSUME MaxAttemptsIsInt == MaxAttempts \in Int

VARIABLES step, attempt,
          logger,          \* spdlog knows a logger named "RecordExecutor"
          thrown,          \* tickets whose execute() ended with an exception
          handled,         \* <<partition, offset>> the handler returned true for
          deadLettered     \* <<partition, offset>> present in the dead letter topic

executorVars == <<step, attempt, logger, thrown, handled, deadLettered>>

EffectiveMaxAttempts == IF MaxAttempts < 1 THEN 1 ELSE MaxAttempts

Idle == "idle"

ExecutorInit == /\ step = [w \in Worker |-> Idle]
                /\ attempt = [w \in Worker |-> 0]
                /\ logger = FALSE /\ thrown = {}
                /\ handled = {}
                /\ deadLettered = {}

Record(ticket) == <<ticket.partition, ticket.offset>>

-----------------------------------------------------------------------------
(* Plausible slips, used to show that the properties notice them.          *)

SendIgnoresFailure(w, result, delivered) ==
    /\ step[w] = "send"
    /\ step' = [step EXCEPT ![w] = "finish"]
    /\ deadLettered' = IF delivered THEN deadLettered \cup {Record(task[w])} ELSE deadLettered
    /\ UNCHANGED <<attempt, logger, thrown, handled, partitions, lastGeneration, poolVars>>
SinkPauseWithoutCheck(w) ==
    /\ step[w] = "sinkPause"
    /\ step' = [step EXCEPT ![w] = "send"]
    /\ UNCHANGED <<attempt, logger, thrown, handled, deadLettered, partitions, lastGeneration, poolVars>>

-----------------------------------------------------------------------------
ShouldAbandon(w) == w \in stopRequested \/ ~IsCurrent(task[w])

(* execute() returns to workerLoop.                                        *)
Return(w) ==
    /\ TaskReturns(w)
    /\ step' = [step EXCEPT ![w] = Idle]
    /\ attempt' = [attempt EXCEPT ![w] = 0]
    /\ UNCHANGED <<handled, deadLettered>>

Abandon(w) == Return(w) /\ UNCHANGED <<registryVars, logger, thrown>>

GoTo(w, place) ==
    /\ step' = [step EXCEPT ![w] = place]
    /\ UNCHANGED <<registryVars, poolVars>>

(* A thread takes an item from the queue and enters execute().             *)
BeginExecute(w) ==
    /\ TakeTask(w)
    /\ step' = [step EXCEPT ![w] = "attempt"]
    /\ attempt' = [attempt EXCEPT ![w] = 1]
    /\ UNCHANGED <<registryVars, logger, thrown, handled, deadLettered>>

CheckAttempt(w) ==
    /\ step[w] = "attempt"
    /\ \/ ShouldAbandon(w) /\ Abandon(w)
       \/ /\ ~ShouldAbandon(w)
          /\ GoTo(w, "invoke")
          /\ UNCHANGED <<attempt, logger, thrown, handled, deadLettered>>

AfterFailure(w) == IF attempt[w] < EffectiveMaxAttempts THEN "pause" ELSE "sinkCheck"

(* invokeHandler: result is FALSE also when the handler throws.  A failed  *)
(* attempt is logged: logger::get looks the category up and, when it is    *)
(* not there, goes on to create and register it.                           *)
Invoke(w, result) ==
    /\ step[w] = "invoke"
    /\ GoTo(w, IF result THEN "finish" ELSE IF logger THEN AfterFailure(w) ELSE "register")
    /\ handled' = IF result THEN handled \cup {Record(task[w])} ELSE handled
    /\ UNCHANGED <<attempt, logger, thrown, deadLettered>>

(* register_logger throws when another thread has registered the name      *)
(* since the lookup.  Nothing in execute() catches that: workerLoop does,  *)
(* and the ticket stays incomplete.                                        *)
RegisterLogger(w) ==
    /\ step[w] = "register"
    /\ logger' = TRUE
    /\ \/ ~logger /\ GoTo(w, AfterFailure(w))
          /\ UNCHANGED <<attempt, thrown, handled, deadLettered>>
       \/ logger /\ Return(w) /\ thrown' = thrown \cup {task[w]} /\ UNCHANGED registryVars

(* sleepUnlessStopped between two attempts.                                *)
Pause(w) ==
    /\ step[w] = "pause"
    /\ \/ w \in stopRequested /\ Abandon(w)
       \/ /\ w \notin stopRequested
          /\ attempt' = [attempt EXCEPT ![w] = @ + 1]
          /\ GoTo(w, "attempt")
          /\ UNCHANGED <<logger, thrown, handled, deadLettered>>

(* deadLetter: check, send, and on failure pause and try again for ever.   *)
SinkCheck(w) ==
    /\ step[w] = "sinkCheck"
    /\ \/ ShouldAbandon(w) /\ Abandon(w)
       \/ /\ ~ShouldAbandon(w)
          /\ GoTo(w, "send")
          /\ UNCHANGED <<attempt, logger, thrown, handled, deadLettered>>

(* The sink's answer and whether the record reached the topic: a timeout   *)
(* reports failure although the record may still arrive.                   *)
Send(w, result, delivered) ==
    /\ step[w] = "send"
    /\ GoTo(w, IF result THEN "finish" ELSE "sinkPause")
    /\ deadLettered' = IF delivered THEN deadLettered \cup {Record(task[w])} ELSE deadLettered
    /\ UNCHANGED <<attempt, logger, thrown, handled>>

SinkPause(w) ==
    /\ step[w] = "sinkPause"
    /\ \/ w \in stopRequested /\ Abandon(w)
       \/ /\ w \notin stopRequested
          /\ GoTo(w, "sinkCheck")
          /\ UNCHANGED <<attempt, logger, thrown, handled, deadLettered>>

Finish(w) ==
    /\ step[w] = "finish"
    /\ CompleteTicket(task[w])
    /\ Return(w)
    /\ UNCHANGED <<logger, thrown>>

(* PublisherDeadLetterSink::send: success means the broker acknowledged.   *)
SendOutcomes == {<<TRUE, TRUE>>, <<FALSE, TRUE>>, <<FALSE, FALSE>>}

(* Every step of a thread inside execute() and workerLoop.                 *)
ExecutorStep(w) ==
    \/ BeginExecute(w)
    \/ CheckAttempt(w)
    \/ \E result \in BOOLEAN : Invoke(w, result)
    \/ RegisterLogger(w)
    \/ Pause(w)
    \/ SinkCheck(w)
    \/ \E outcome \in SendOutcomes : Send(w, outcome[1], outcome[2])
    \/ SinkPause(w)
    \/ Finish(w)
    \/ (FallAsleep(w) \/ LeaveLoop(w)) /\ UNCHANGED <<registryVars, executorVars>>
=============================================================================
