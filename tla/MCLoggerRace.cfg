CONSTANTS
  p1 = p1
  p2 = p2
  w1 = w1
  w2 = w2
  PartitionKey = {p1}
  Worker = {w1, w2}
  QueueCapacity = 1
  NoTask = NoTask
  MaxAttempts = 1
  InvalidEventId <- NoInvalid
  LogEnd <- TwoRecords
  MaxPoll = 2
  SubscribeAttempts = 1
  MaxRebalances = 1
  MaxFaults = 0
  MaxCrashes = 0
  MayStop = FALSE
SPECIFICATION Spec
INVARIANTS
  UnfinishedComesAgain
