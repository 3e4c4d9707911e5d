SPECIFICATION FairSpec
CONSTANTS
    QueueMax = 2
    BatchSizes = {2, 3}
    AppendMayThrow = TRUE
    MaxRecords = 4
    MaxStarts = 2
INVARIANTS NothingVanishes
PROPERTIES ImplementsLog PersistsUnlessFull StopReturns ReadReturns
CHECK_DEADLOCK FALSE
