CONSTANTS
    MaxDials = 3
    MaxMonitors = 2
    MaxRetries = 2
SPECIFICATION FairSpec
INVARIANTS
    NoLeak
    OneUncancelled
    MonitorsAccounted
    ClosedMeansClosed
PROPERTIES
    CancelledMonitorsEnd
\* A panic ends the process.
CHECK_DEADLOCK FALSE
