SPECIFICATION Spec
CONSTANTS
    Threads = {0, 1}
    Frames = {0, 1}
    FrameLimit = 2
    NumberLimit = 5
    Values <- MCValues
    KindOf <- MCKindOf
    ChildrenOf <- MCChildrenOf
    LocalsOf <- MCLocalsOf
    Thrown = {"empty"}
    MaxStops = 3
CHECK_DEADLOCK FALSE
INVARIANTS TypeOK StopsDoNotMix ReferencesStand ReferencesOpen
