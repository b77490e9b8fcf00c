SPECIFICATION HubSpec
CONSTANTS
    MaxBatch = 3
    MaxAdded = 5
    MaxDepth = 2
    MaxStops = 2
INVARIANTS
    HandedOnceInOrder
    NoSilentLoss
    StagingBounded
    FailureCostsItsRow
    RefusedStaysHere
PROPERTY RunningFlushes
