\* One order and at most one foreign record; two handler threads in each
\* service.  Integers of 4, 3 and 2 bits.
SPECIFICATION FairSpec
CONSTANTS
    Orders = {order}
    Bodies <- MCBodies
    Strays = {stray}
    Malformed = {junk}
    WorkerThreads = {wa, wb}
    OrderThreads = {oa, ob}
    MaxAttempts = 2
    MaxFaults = 1
    MaxRedeliveries = 1
    MaxOverrides = 1
    MaxForeign = 1
    Int64Max = 7
    Int32Max = 3
    Int8Max = 1
    Codes = {"USD", "EUR"}
INVARIANTS ReservedOnce ReservedWasRecorded DeadLetterNeedsFaults NotFoundOnlyStrays
    AcceptedIsUnderstood TotalIsExact
PROPERTIES NoStatusOverwritten StoredOrderReserved
