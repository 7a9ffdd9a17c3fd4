CONSTANTS
    MaxReg = 2
    MaxPending = 1
    MaxRetries = 2
    MaxForgets = 1
SPECIFICATION FairSpec
INVARIANTS
    OneStreamAtATime
    CommandsUnderLatestToken
    NeverConnectedAtTop
    GracefulShutdown
    LoopsAccounted
PROPERTIES
    ShutdownEndsOrJams
    TornDownReconnects
\* The process ends: cleanup is the last thing it does.
CHECK_DEADLOCK FALSE
