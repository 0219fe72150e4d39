CONSTANTS
  p1 = p1
  p2 = p2
  PartitionKey = {p1, p2}
  Offsets = {0, 1}
  MaxGeneration = 3
SPECIFICATION Spec
INVARIANTS
  TrackersMatchOwnership
  OfferedCoverOnlyCompleted
SYMMETRY Symmetry
CHECK_DEADLOCK FALSE
