CONSTANTS
  p1 = p1
  p2 = p2
  w1 = w1
  w2 = w2
  PartitionKey = {p1}
  Worker = {w1, w2}
  QueueCapacity = 1
  NoTask = NoTask
  MaxAttempts = 1
  InvalidEventId <- SecondInvalid
  LogEnd <- ThreeRecords
  MaxPoll = 2
  SubscribeAttempts = 1
  MaxRebalances = 1
  MaxFaults = 1
  MaxCrashes = 1
  MayStop = FALSE
SPECIFICATION LiveSpec
INVARIANTS
  NoRecordLost
PROPERTIES
  AllCommitted
