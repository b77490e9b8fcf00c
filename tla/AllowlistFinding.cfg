SPECIFICATION RedactSpec
CONSTANTS
    Object = {o1, o2}
    Root = o1
    Leaf = leaf
    MaxChildren = 2
    MAX_SORT_DEPTH = 2
    StackLimit = 3
INVARIANT BodiesOnlyForAllowlisted
CHECK_DEADLOCK FALSE
