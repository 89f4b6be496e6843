SPECIFICATION FairSpec
CONSTANTS
    Calls <- DapCalls
    NoCall = "none"
    BpIds = {1}
    NoBp = 0
    EngineFails = FALSE
    KeepsInterrupt = {TRUE, FALSE}
    MaxReplies = 0
    Commands = {"initialize", "setExceptionBreakpoints", "launch", "configurationDone", "setBreakpoints", "pause", "continue", "inspect", "threads", "disconnect"}
    MaxRequests = 6
    MaxWrites = 2
    MaxLines = 1
    EditsRunning = FALSE
INVARIANTS EveryRequestAnswered NoUseAfterStop
PROPERTIES LaunchAnswered
\* The client may have nothing more to ask, and the adapter may have closed or thrown.
CHECK_DEADLOCK FALSE
