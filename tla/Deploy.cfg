CONSTANTS
    Names = {web, api}
    Versions = {v1, v2}
    Boots = {b1}
    Addrs = {a1}
    None = none
    Partial = partial
    Bare = bare
    MaxOps = 3
    MaxFailures = 1
    MaxCrashes = 1
SPECIFICATION Spec
INVARIANTS
    SuccessIsOnDisk
    OnlyFailedStepLeaves
    UpgradeRollsBack
    SuccessRuns
PROPERTIES
    RebootKeepsDeployment
\* After MaxOps commands the host is at rest.
CHECK_DEADLOCK FALSE
