SPECIFICATION FaultySpec
CONSTANTS
    Tap = {s, t}
    Own = Own
    None = None
    InsideTry = TRUE
    MaxCalls = 3
    MaxHeard = 1
INVARIANT Transparent
