CONSTANTS
    a = a
    b = b
    d = d
    aTmp = aTmp
    bTmp = bTmp
    dTmp = dTmp
    x = x
    y = y
    Names = {a, b, d, aTmp, bTmp, dTmp}
    Files = {a, b, d}
    ConfigFiles = {a, b}
    Contents = {x, y}
    TmpOf <- MCTmpOf
    Loadable <- MCLoadable
    Bundles <- MCBundles
    Absent = absent
    Unknown = unknown
    MaxPushes = 2
    MaxFailures = 1
    MaxCrashes = 1
    MaxStops = 1
SPECIFICATION Spec
INVARIANTS
    AbortLeavesDirectory
    SyncedIsOnDisk
    ValidatedLoads
    ConfirmedIsReal
\* After MaxPushes commands the host is at rest.
CHECK_DEADLOCK FALSE
