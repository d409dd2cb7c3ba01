CONSTANTS
    Batches <- MCBatches
    Takeovers = 1
    Jobs = 2
    MaxDeletes = 1
    MaxFaults = 1
SPECIFICATION FairSpec
CHECK_DEADLOCK FALSE
INVARIANTS NoResurrection NoMiscount InUseKept
PROPERTIES CreatingResolved EntryReleased
