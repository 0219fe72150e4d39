---------------------- MODULE PartitionRegistryClient ----------------------
(***************************************************************************)
(* The registry between a reader thread and worker threads: the reader     *)
(* assigns, revokes, registers, collects and confirms; a worker may        *)
(* complete any ticket ever issued at any later time, also after the       *)
(* partition was revoked or assigned again.  A position may be confirmed   *)
(* any time after it was collected.                                        *)
(***************************************************************************)
EXTENDS PartitionRegistry

CONSTANTS Offsets,          \* the offsets records may have
          MaxGeneration     \* bound on the ownerships explored

ASSUME RegistryOffsets == Offsets \subseteq Nat
ASSUME GenerationBound == MaxGeneration \in Nat
ASSUME FinitelyManyPartitions == IsFiniteSet(PartitionKey)

VARIABLES tickets,          \* every ticket registerRecord returned
          finished,         \* those whose complete() was answered Applied
          offered           \* every position commitCandidates or revoke returned

vars == <<partitions, lastGeneration, tickets, finished, offered>>

Init == RegistryInit /\ tickets = {} /\ finished = {} /\ offered = {}

(* The partition lists of a rebalance have no duplicates.                  *)
PartitionLists == {ps \in UNION {[1..n -> PartitionKey] : n \in 0..Cardinality(PartitionKey)} :
                      IsInjective(ps)}

ReaderAssign(ps) ==
    /\ lastGeneration + Len(ps) <= MaxGeneration
    /\ Assign(ps)
    /\ UNCHANGED <<tickets, finished, offered>>

ReaderRevoke(S) ==
    /\ Revoke(S)
    /\ offered' = offered \cup Candidates(S)
    /\ UNCHANGED <<tickets, finished>>

ReaderRegister(p, offset) ==
    /\ RegisterIn(p, offset)
    /\ tickets' = IF RegisterInResult(p, offset) = Ok
                  THEN tickets \cup {PositionOf(p, offset)} ELSE tickets
    /\ UNCHANGED <<finished, offered>>

WorkerComplete(ticket) ==
    /\ CompleteTicket(ticket)
    /\ finished' = IF CompleteTicketResult(ticket) = Applied
                   THEN finished \cup {ticket} ELSE finished
    /\ UNCHANGED <<tickets, offered>>

ReaderCollect ==
    /\ offered' = offered \cup commitCandidates
    /\ UNCHANGED <<partitions, lastGeneration, tickets, finished>>

ReaderConfirm(position) ==
    /\ ConfirmPosition(position)
    /\ UNCHANGED <<tickets, finished, offered>>

Next == \/ \E ps \in PartitionLists : ReaderAssign(ps)
        \/ \E S \in SUBSET PartitionKey : ReaderRevoke(S)
        \/ \E p \in PartitionKey, offset \in Offsets : ReaderRegister(p, offset)
        \/ \E ticket \in tickets : WorkerComplete(ticket)
        \/ ReaderCollect
        \/ \E position \in offered : ReaderConfirm(position)

Spec == Init /\ [][Next]_vars

-----------------------------------------------------------------------------
(* Properties *)

RegisteredIn(g) == {o \in Offsets : \E t \in tickets : t.generation = g /\ t.offset = o}
CompletedIn(g) == {o \in Offsets : \E t \in finished : t.generation = g /\ t.offset = o}

(* The tracker of an owned partition holds what this ownership registered  *)
(* and completed, whatever stale tickets completed meanwhile.              *)
TrackersMatchOwnership ==
    \A p \in DOMAIN partitions :
        LET g == partitions[p].generation
        IN  Consistent(partitions[p].tracker, RegisteredIn(g), CompletedIn(g))

(* A position handed out for commit, now or earlier, covers only records   *)
(* of its ownership whose completion was applied.                          *)
OfferedCoverOnlyCompleted ==
    \A position \in offered :
        CoversOnlyCompleted(position.offset, RegisteredIn(position.generation),
                            CompletedIn(position.generation))
=============================================================================
