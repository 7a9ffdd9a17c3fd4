CONSTANTS
    MaxRetries = 2
SPECIFICATION FairSpec
PROPERTIES
    HeartbeatRecovers
CHECK_DEADLOCK FALSE
