-------------------------- MODULE CommitWatermark --------------------------
(***************************************************************************)
(* What an offset tracker promises, without its deque and its counters:    *)
(* records are registered in order and completed in any order, and a       *)
(* commit position may only cover records that are all completed.          *)
(***************************************************************************)
EXTENDS Integers

CONSTANT Offsets

VARIABLES registered, completed, committed

absVars == <<registered, completed, committed>>

Positions == Offsets \cup {o + 1 : o \in Offsets}

(* Every record up to and including o is completed. *)
CompletedUpTo(o) == /\ o \in completed
                    /\ \A r \in registered : r <= o => r \in completed

AbsInit == registered = {} /\ completed = {} /\ committed = {}

AbsRegister(o) == /\ \A r \in registered : r < o
                  /\ registered' = registered \cup {o}
                  /\ UNCHANGED <<completed, committed>>

AbsComplete(o) == /\ o \in registered
                  /\ completed' = completed \cup {o}
                  /\ UNCHANGED <<registered, committed>>

(* The broker accepted a position: it is ahead of the previous one and     *)
(* covers completed records only.                                          *)
AbsCommit(position) == /\ \A c \in committed : c < position
                       /\ \E o \in completed : CompletedUpTo(o) /\ position <= o + 1
                       /\ committed' = {position}
                       /\ UNCHANGED <<registered, completed>>

AbsReset == registered' = {} /\ completed' = {} /\ committed' = {}

AbsNext == \/ \E o \in Offsets : AbsRegister(o) \/ AbsComplete(o)
           \/ \E position \in Positions : AbsCommit(position)
           \/ AbsReset

AbsSpec == AbsInit /\ [][AbsNext]_absVars
=============================================================================
