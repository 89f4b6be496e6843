SPECIFICATION Spec
CONSTANTS
    c1 = c1
    c2 = c2
    c3 = c3
    b1 = b1
    Calls <- MCCalls
    NoCall = NoCall
    BpIds <- MCBpIds
    NoBp = NoBp
    EngineFails = TRUE
    KeepsInterrupt = {TRUE, FALSE}
    MaxReplies = 2
SYMMETRY MCSymmetry
INVARIANTS TypeOK OneRun RunMeansRunning EveryCallOnce
PROPERTY ImplementsDriver
\* A frame that cannot be read ends the debug thread.
CHECK_DEADLOCK FALSE
