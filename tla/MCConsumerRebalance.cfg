CONSTANTS
  p1 = p1
  p2 = p2
  w1 = w1
  w2 = w2
  PartitionKey = {p1, p2}
  Worker = {w1, w2}
  QueueCapacity = 1
  NoTask = NoTask
  MaxAttempts = 1
  InvalidEventId <- NoInvalid
  LogEnd <- LongAndShort
  MaxPoll = 1
  SubscribeAttempts = 1
  MaxRebalances = 2
  MaxFaults = 0
  MaxCrashes = 0
  MayStop = FALSE
SPECIFICATION Spec
INVARIANTS
  NoRecordLost
  EachTicketOnce
  BacklogBounded
PROPERTIES
  CommittedNeverMovesBack
SYMMETRY Symmetry
