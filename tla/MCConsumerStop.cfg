CONSTANTS
  p1 = p1
  p2 = p2
  w1 = w1
  w2 = w2
  PartitionKey = {p1}
  Worker = {w1, w2}
  QueueCapacity = 0
  NoTask = NoTask
  MaxAttempts = 2
  InvalidEventId <- NoInvalid
  LogEnd <- TwoRecords
  MaxPoll = 2
  SubscribeAttempts = 1
  MaxRebalances = 2
  MaxFaults = 1
  MaxCrashes = 0
  MayStop = TRUE
SPECIFICATION StopSpec
INVARIANTS
  PausesRemembered
  SomeoneAwake
PROPERTIES
  NothingLeftAfterLastCommit
  NothingBeginsAfterStop
  StopReturns
