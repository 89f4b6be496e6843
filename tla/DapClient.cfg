SPECIFICATION Spec
CONSTANTS
    Calls <- DapCalls
    NoCall = "none"
    BpIds = {1}
    NoBp = 0
    EngineFails = TRUE
    KeepsInterrupt = {TRUE, FALSE}
    MaxReplies = 1
    Commands = {"launch", "configurationDone", "setBreakpoints", "pause", "next", "continue", "threads", "disconnect", "unknown"}
    MaxRequests = 5
    MaxWrites = 2
    MaxLines = 1
    EditsRunning = TRUE
INVARIANTS TypeOK
PROPERTIES ImplementsDriverClient
\* The client may have nothing more to ask, and the adapter may have closed or thrown.
CHECK_DEADLOCK FALSE
