SPECIFICATION FairSpec
CONSTANTS
    CorrId = {a, b, c}
    Peer = {p, q}
    None = None
    MaxPending = 2
    MaxSettled = 1
    TimeoutMs = 0
    MaxTime = 1
    MaxRows = 3
INVARIANTS
    NothingOverwritten
    PendingInAgeOrder
    SilenceIsNamed
PROPERTY NoRequestHangs
