SPECIFICATION MCSpec
CONSTANTS
    Bodies <- MCBodies
    HeaderLength = 2
    MaxMessages = 4
    Containers <- MCContainers
    Keys <- MCKeys
    HashOf <- MCHashOf
    NNull = NNull
    Unchecked = Unchecked
    Failure = Failure
    Garbage = Garbage
    Words <- MCWords
    Symbols <- MCSymbols
    ByteLimit = 256
    EnumStride = 2
    FirstThread = 0
    SystemIds = {1, 2, 3}
    MaxQueued = 3
INVARIANTS MessagesArrive FramesAligned ElementsOnce KeysAgree  ValuesShown ThreadsListed
\* All messages have arrived, or one that is not understood has ended the adapter; names do not change.
CHECK_DEADLOCK FALSE
