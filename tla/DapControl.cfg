SPECIFICATION FairSpecRunning
CONSTANTS
    Calls <- DapCalls
    NoCall = "none"
    BpIds = {1, 2}
    NoBp = 0
    EngineFails = FALSE
    KeepsInterrupt = {FALSE}
    MaxReplies = 0
    Commands = {"pause", "continue", "next", "stepIn", "setBreakpoints", "inspect", "disconnect"}
    MaxRequests = 7
    MaxWrites = 2
    MaxLines = 1
    EditsRunning = FALSE
INVARIANTS ViewAgrees CrashOnlyAfterExit EditsResumeNothing CacheClearWhileRunning DebugThreadLives
PROPERTIES PauseAnsweredStopped QueueDrains
\* The client may have nothing more to ask, and the adapter may have closed or thrown.
CHECK_DEADLOCK FALSE
