CONSTANTS
    Configs = {c1, c2}
    Renderable = {c1, c2}
    Broken = {}
    Mistaken = {}
    Foreign = foreign
    NoConfig = none
    MaxRequests = 2
    MaxEdits = 0
    MaxFailures = 0
    MaxCrashes = 0
SPECIFICATION Spec
PROPERTIES
    NeverReverts
\* After MaxRequests commands, with nothing desired, the host is at rest.
CHECK_DEADLOCK FALSE
