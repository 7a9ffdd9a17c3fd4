CONSTANTS
    None = none
    Unset = unset
    Extras = {"w", "odd"}
    Unknown = {"odd"}
    Unsent = {"metric"}
    Bad = {"bad"}
    Unreported = {"silent"}
    MaxOps = 2
    MaxFailures = 2
    MaxCrashes = 1
    Ids <- MCIds
    Values <- MCValues
    Requests <- MCRequests
    Invalid <- MCInvalid
    Unbuildable <- MCUnbuildable
    Longer <- MCLonger
    Reworded <- MCReworded
    Misread <- MCMisread
    Initial <- MCInitial
SPECIFICATION Spec
INVARIANTS
    SuccessLasts
PROPERTIES
    SiblingsUntouched
    
\* After MaxOps operations FRR is at rest.
CHECK_DEADLOCK FALSE
