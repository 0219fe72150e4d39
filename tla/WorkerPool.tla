----------------------------- MODULE WorkerPool -----------------------------
(***************************************************************************)
(* The thread pool with a bounded queue (shared/messaging/WorkerPool.h).   *)
(* A thread is `ready' when it is about to lock the mutex and test the     *)
(* wait predicate, `asleep' inside condition.wait, `busy' while it runs a  *)
(* task and `exited' after workerLoop returned.  What a busy thread does   *)
(* is left to the modules that use the pool; TaskReturns brings it back.   *)
(*                                                                         *)
(* A push and its notify_one are one step: a thread that takes the task    *)
(* between the two leaves the notified thread to find the queue empty,     *)
(* which this model also contains (two threads ready, one task).           *)
(***************************************************************************)
EXTENDS Integers, Sequences, FiniteSets

CONSTANTS Worker,          \* the threads
          QueueCapacity,   \* the constructor's argument
          NoTask           \* what a thread that runs nothing holds

ASSUME PoolAssumption == /\ IsFiniteSet(Worker) /\ Worker # {}
                         /\ QueueCapacity \in Nat

VARIABLES queue, stopped,
          stopRequested,   \* the threads whose stop_token is set
          thread, task

poolVars == <<queue, stopped, stopRequested, thread, task>>

(* The constructor raises a capacity of 0 to 1.                            *)
Capacity == IF QueueCapacity = 0 THEN 1 ELSE QueueCapacity

PoolInit == /\ queue = <<>>
            /\ stopped = FALSE
            /\ stopRequested = {}
            /\ thread = [w \in Worker |-> "ready"]
            /\ task = [w \in Worker |-> NoTask]

Asleep == {w \in Worker : thread[w] = "asleep"}

-----------------------------------------------------------------------------
(* Plausible slips, used to show that the properties notice them.          *)

SubmitWithoutNotify(t) ==
    /\ ~stopped /\ Len(queue) < Capacity
    /\ queue' = Append(queue, t)
    /\ UNCHANGED <<stopped, stopRequested, thread, task>>
StopKeepsQueue == /\ stopped' = TRUE
                  /\ UNCHANGED <<queue, stopRequested, thread, task>>

-----------------------------------------------------------------------------
(* trySubmit *)

Accepts == ~stopped /\ Len(queue) < Capacity

Submit(t) ==
    /\ Accepts
    /\ queue' = Append(queue, t)
    /\ \/ Asleep = {} /\ UNCHANGED thread
       \/ \E w \in Asleep : thread' = [thread EXCEPT ![w] = "ready"]
    /\ UNCHANGED <<stopped, stopRequested, task>>

(* stop: under the mutex the pool is marked stopped and emptied; then the  *)
(* threads are asked to stop one after the other (a set stop_token wakes   *)
(* every thread waiting with it), and joined.                              *)
StopPool ==
    /\ stopped' = TRUE
    /\ queue' = <<>>
    /\ UNCHANGED <<stopRequested, thread, task>>

RequestStop(w) ==
    /\ stopped /\ w \notin stopRequested
    /\ stopRequested' = stopRequested \cup {w}
    /\ thread' = [thread EXCEPT ![w] = IF @ = "asleep" THEN "ready" ELSE @]
    /\ UNCHANGED <<queue, stopped, task>>

Joined == \A w \in Worker : thread[w] = "exited"

(* workerLoop *)

FallAsleep(w) ==
    /\ thread[w] = "ready" /\ queue = <<>> /\ w \notin stopRequested
    /\ thread' = [thread EXCEPT ![w] = "asleep"]
    /\ UNCHANGED <<queue, stopped, stopRequested, task>>

TakeTask(w) ==
    /\ thread[w] = "ready" /\ queue # <<>> /\ w \notin stopRequested
    /\ thread' = [thread EXCEPT ![w] = "busy"]
    /\ task' = [task EXCEPT ![w] = Head(queue)]
    /\ queue' = Tail(queue)
    /\ UNCHANGED <<stopped, stopRequested>>

LeaveLoop(w) ==
    /\ thread[w] = "ready" /\ w \in stopRequested
    /\ thread' = [thread EXCEPT ![w] = "exited"]
    /\ UNCHANGED <<queue, stopped, stopRequested, task>>

(* The task returned or threw; what it threw is caught and logged.  If the *)
(* logger cannot be had there the process ends, as it does in a Crash.     *)
TaskReturns(w) ==
    /\ thread[w] = "busy"
    /\ thread' = [thread EXCEPT ![w] = "ready"]
    /\ task' = [task EXCEPT ![w] = NoTask]
    /\ UNCHANGED <<queue, stopped, stopRequested>>
=============================================================================
