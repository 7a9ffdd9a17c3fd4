CONSTANTS
    Configs = {c1, c2, bad, wry, raw}
    Renderable = {c1, c2, bad, wry}
    Broken = {bad, wry}
    Mistaken = {wry}
    Foreign = foreign
    NoConfig = none
    MaxRequests = 2
    MaxEdits = 1
    MaxFailures = 1
    MaxCrashes = 1
SPECIFICATION FairSpec
INVARIANTS
    RejectedNeverLive
    RestartsOnItsConfig
    ServiceUpToDate
PROPERTIES
    Converges
\* With nothing desired and no request left the host is at rest.
CHECK_DEADLOCK FALSE
