SPECIFICATION SpecRunning
CONSTANTS
    Calls <- DapCalls
    NoCall = "none"
    BpIds = {1, 2}
    NoBp = 0
    EngineFails = FALSE
    KeepsInterrupt = {TRUE, FALSE}
    MaxReplies = 0
    Commands = {"setBreakpoints", "continue", "next", "pause"}
    MaxRequests = 6
    MaxWrites = 2
    MaxLines = 1
    EditsRunning = TRUE
INVARIANTS BreakpointsKnown
\* The client may have nothing more to ask, and the adapter may have closed or thrown.
CHECK_DEADLOCK FALSE
