CONSTANT Offsets = {0, 1, 2, 4, 5}
SPECIFICATION Spec
INVARIANTS
  TypeOK
  DequeConsistent
  CandidateCoversOnlyCompleted
  CandidateIsGreatest
PROPERTIES
  ImplementsWatermark
CHECK_DEADLOCK FALSE
