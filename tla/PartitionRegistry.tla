------------------------- MODULE PartitionRegistry -------------------------
(***************************************************************************)
(* The registry of the partitions a consumer owns                          *)
(* (shared/messaging/PartitionRegistry.h): one tracker per partition, and  *)
(* a generation number that tells the tickets of one ownership from those  *)
(* of the next.  Every operation holds the registry's mutex from beginning *)
(* to end, so each is one action.  The actions constrain the registry's    *)
(* variables only; the modules that use it add their own.                  *)
(***************************************************************************)
EXTENDS OffsetTracker, Functions

CONSTANT PartitionKey

VARIABLES partitions,        \* std::map: a function whose domain is what is assigned
          lastGeneration

registryVars == <<partitions, lastGeneration>>

PartitionState == [generation : Nat, tracker : Tracker]
RecordTicket == [partition : PartitionKey, offset : Offset, generation : Nat]
CommitPosition == [partition : PartitionKey, offset : Offset, generation : Nat]

Applied == "Applied"
Stale == "Stale"
PartitionNotAssigned == "PartitionNotAssigned"

-----------------------------------------------------------------------------
(* Plausible slips, used to show that the properties notice them.          *)

CurrentIfAssigned(ticket) == ticket.partition \in DOMAIN partitions
AssignKeepsTracker(ps) ==
    /\ partitions' = [p \in DOMAIN partitions \cup Range(ps) |->
                         [generation |-> lastGeneration + 1,
                          tracker    |-> IF p \in DOMAIN partitions
                                         THEN partitions[p].tracker ELSE NewTracker]]
    /\ lastGeneration' = lastGeneration + Len(ps)

-----------------------------------------------------------------------------
RegistryInit == partitions = [p \in {} |-> {}] /\ lastGeneration = 0

isAssigned(p) == p \in DOMAIN partitions

(* A ticket or a commit position belongs to the present ownership of its   *)
(* partition.                                                              *)
IsCurrent(ticket) ==
    /\ ticket.partition \in DOMAIN partitions
    /\ partitions[ticket.partition].generation = ticket.generation

(* assign: ps lists the partitions in the order the loop visits them.      *)
Assign(ps) ==
    /\ partitions' = [p \in DOMAIN partitions \cup Range(ps) |->
                         IF p \in Range(ps)
                         THEN [generation |-> lastGeneration + (CHOOSE i \in DOMAIN ps : ps[i] = p),
                               tracker    |-> NewTracker]
                         ELSE partitions[p]]
    /\ lastGeneration' = lastGeneration + Len(ps)

PositionOf(p, offset) ==
    [partition |-> p, offset |-> offset, generation |-> partitions[p].generation]

(* The positions commitCandidates returns, restricted to S.                *)
Candidates(S) ==
    UNION {{PositionOf(p, offset) : offset \in CommitCandidate(partitions[p].tracker)} :
              p \in S \cap DOMAIN partitions}

commitCandidates == Candidates(PartitionKey)

(* revoke returns Candidates(S), taken before the partitions are erased.   *)
Revoke(S) ==
    /\ partitions' = Restrict(partitions, DOMAIN partitions \ S)
    /\ UNCHANGED lastGeneration

RegisterInResult(p, offset) ==
    IF p \notin DOMAIN partitions THEN PartitionNotAssigned
    ELSE RegisterResult(partitions[p].tracker, offset)

RegisterIn(p, offset) ==
    /\ partitions' = IF p \in DOMAIN partitions
                     THEN [partitions EXCEPT ![p].tracker = RegisterRecord(@, offset)]
                     ELSE partitions
    /\ UNCHANGED lastGeneration

CompleteTicketResult(ticket) ==
    IF ~IsCurrent(ticket) THEN Stale
    ELSE IF CompleteResult(partitions[ticket.partition].tracker, ticket.offset) = Ok
    THEN Applied ELSE UnknownOffset

CompleteTicket(ticket) ==
    /\ partitions' = IF IsCurrent(ticket)
                     THEN [partitions EXCEPT ![ticket.partition].tracker =
                              Complete(@, ticket.offset)]
                     ELSE partitions
    /\ UNCHANGED lastGeneration

(* The broker accepted a set of positions; positions of an earlier         *)
(* ownership are ignored.                                                  *)
ConfirmPosition(position) ==
    /\ partitions' = IF IsCurrent(position)
                     THEN [partitions EXCEPT ![position.partition].tracker =
                              ConfirmCommit(@, position.offset)]
                     ELSE partitions
    /\ UNCHANGED lastGeneration
=============================================================================
