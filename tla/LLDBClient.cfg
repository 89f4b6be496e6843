SPECIFICATION Spec
CONSTANTS
    Calls = {c1, c2, c3}
    NoCall = NoCall
    BpIds = {b1}
    NoBp = NoBp
    NumThreads = 2
    EngineFails = TRUE
    LateStops = {TRUE, FALSE}
    MaxEvents = 1
    ClientOps = {"go", "step", "pause", "create", "remove", "query"}
CHECK_DEADLOCK FALSE
INVARIANTS TypeOK ReportsAreTrue EveryCallOnce PauseAnsweredStopped
PROPERTIES PauseStops ImplementsDriver
