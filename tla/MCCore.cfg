SPECIFICATION CoreSpec
CONSTANTS
    Capacity = 3
    MaxPush = 7
    CorrId = {a, b, c}
    Peer = {p, q}
    MaxPending = 2
    MaxSettled = 1
    TimeoutMs = 0
    MaxTime = 2
    MaxRows = 4
    Object = {o1, o2, o3, o4}
    Root = o1
    Leaf = leaf
    MaxChildren = 2
    MAX_SORT_DEPTH = 3
    StackLimit = 4
SYMMETRY Symmetry
INVARIANTS
    NothingLostSilently
    IterationMonotone
    TypeOK
    MemoryBounded
    EveryRequestAccounted
    TimeoutNamesSilent
    RowsReadable
    WalksEveryWay
    AllowlistOpensBodiesOnly
    StackSuffices
PROPERTIES
    ImplementsLog
    SweepComplete
CHECK_DEADLOCK FALSE
