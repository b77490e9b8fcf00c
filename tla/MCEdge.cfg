SPECIFICATION EdgeSpec
CONSTANTS
    Tap = {s, t}
    Own = Own
    None = None
    InsideTry = TRUE
    MaxCalls = 3
    MaxHeard = 1
    Reports <- MCReports
    IntegerValue <- MCIntegerValue
    MaxPolls = 2
    MaxChanges = 1
    Node = {1, 2}
    WallClock = {0, 1, 2}
    MaxEvents = 5
INVARIANTS
    ReportedOnce
    AmountBeforeSend
    WrappedByLive
    OneOutcomePerPoll
    StatsTellTheRoute
    CausalOrder
    StampsUnique
    PhysicalIsObserved
PROPERTIES
    ImplementsHost
    QuietAfterRestore
CHECK_DEADLOCK FALSE
