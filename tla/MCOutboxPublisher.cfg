\* Two replicas of a service over one outbox table; once the rows between them
\* are published, the unpublishable rows fill a whole batch.
SPECIFICATION FairSpec
CONSTANTS
    Publishers = {o1, o2}
    Rows = {1, 2, 3, 4}
    Unpublishable = {1, 4}
    BatchSize = 2
    MaxFaults = 1
    MaxStops = 1
INVARIANTS PublishedWasDelivered DuplicatesExplained
PROPERTIES EventuallyPublished StopJoins NeverSpins
