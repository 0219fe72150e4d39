------------------------ MODULE MCPartitionRegistry ------------------------
EXTENDS PartitionRegistryClient, TLC

CONSTANTS p1, p2

(* The two partitions are interchangeable.                                 *)
Symmetry == Permutations(PartitionKey)
=============================================================================
