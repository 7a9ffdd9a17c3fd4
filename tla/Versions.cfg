CONSTANTS
    None = none
    Torn = torn
    Data = {d1, d2}
    MaxOps = 3
    MaxFaults = 2
    MaxKills = 1
    MaxReleases = 1
    Binaries <- MCBinaries
    Listable <- MCListable
SYMMETRY DataSymmetry
SPECIFICATION VersionsSpec
INVARIANTS
    InstalledIsVerified
    SuccessIsUsable
\* After MaxOps operations the agent is at rest.
CHECK_DEADLOCK FALSE
