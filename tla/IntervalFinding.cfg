SPECIFICATION Spec
CONSTANTS
    Leg <- MCLeg
    Processing <- MCProcessing
    TrueOffset <- MCTrueOffset
    WindowN = 3
    Interval = 2
    StddevThreshold = 20
    GoodThreshold = 48
    HatchThreshold = 100
    None = None
    MaxBack = 2
INVARIANT IntervalContainsTruth
