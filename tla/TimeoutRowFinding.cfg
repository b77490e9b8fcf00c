SPECIFICATION SinkSpec
CONSTANTS
    CorrId = {a}
    Peer = {p, q}
    None = None
    MaxPending = 2
    MaxSettled = 1
    TimeoutMs = 0
    MaxTime = 1
    MaxRows = 3
INVARIANT TimeoutRowHalfRight
