SPECIFICATION SpecRunning
CONSTANTS
    Calls <- DapCalls
    NoCall = "none"
    BpIds = {1}
    NoBp = 0
    EngineFails = FALSE
    KeepsInterrupt = {FALSE}
    MaxReplies = 0
    Commands = {"pause", "setBreakpoints"}
    MaxRequests = 3
    MaxWrites = 2
    MaxLines = 1
    EditsRunning = TRUE
PROPERTIES PauseAnsweredStopped
\* The client may have nothing more to ask, and the adapter may have closed or thrown.
CHECK_DEADLOCK FALSE
