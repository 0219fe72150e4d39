----------------------- MODULE MCKafkaEventConsumer -----------------------
EXTENDS KafkaEventConsumer, TLC

CONSTANTS p1, p2, w1, w2

Symmetry == Permutations(Worker)
NoInvalid == {}
SecondInvalid == {<<p1, 1>>}
TwoRecords == [p \in PartitionKey |-> 2]
ThreeRecords == [p \in PartitionKey |-> 3]
LongAndShort == [p \in PartitionKey |-> IF p = p1 THEN 2 ELSE 1]
=============================================================================
