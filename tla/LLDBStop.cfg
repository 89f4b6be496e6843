SPECIFICATION Spec
CONSTANTS
    Calls = {c1, c2}
    NoCall = NoCall
    BpIds = {b1}
    NoBp = NoBp
    NumThreads = 2
    EngineFails = FALSE
    LateStops = {TRUE, FALSE}
    MaxEvents = 2
    ClientOps = {"go", "create"}
CHECK_DEADLOCK FALSE
INVARIANT StopsReported
