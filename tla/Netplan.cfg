CONSTANTS
    Contents = {good, cutoff, wrong, broken}
    Absent = absent
    Forbidden = {broken}
    Broken = broken
    Rejected = {wrong, broken}
    Reaching = {good, absent}
    MaxFailedChecks = 2
    MaxCommands = 2
    MaxFails = 1
    MaxEdits = 1
    MaxKills = 1
SPECIFICATION NetplanSpec
INVARIANTS
    RolledBackIsRestored
    AnsweredIsInEffect
    CutOffOnlyUnseen
\* After MaxCommands the host is at rest.
CHECK_DEADLOCK FALSE
