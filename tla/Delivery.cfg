CONSTANTS
    Cmds = {c1, c2}
    Outcomes = {ok, failed}
    NoOutcome = none
    NoCmd = nocmd
    TTL = 2
    MaxRun = 3
    Window = 1
    Quick = 1
    MaxTime = 6
    MaxRestarts = 1
SPECIFICATION FairSpec
INVARIANT
    OnceWhileQuick
PROPERTIES
    ImplementsOnce
    ReexecutedOnlyAfterTTL
    SentIsAnswered
\* The clock is bounded: time stops at MaxTime, and with it the behaviour.
CHECK_DEADLOCK FALSE
