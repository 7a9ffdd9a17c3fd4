CONSTANTS
    Unset = unset
    Main = main
    NoIface = noiface
    MaxOps = 4
    MaxFailures = 1
    MaxCrashes = 1
    Entries <- MCEntries
    Tables <- MCTables
    Managed <- MCManaged
    Refused <- MCRefused
SPECIFICATION Spec
INVARIANTS
    KernelIsPersisted
    SuccessIsPersisted
PROPERTIES
    ForgottenIsEmpty
\* After MaxOps operations the host is at rest.
CHECK_DEADLOCK FALSE
