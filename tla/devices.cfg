SPECIFICATION DevicesSpec
CONSTANTS
    r1 = r1
    r2 = r2
    r3 = r3
    Requests = {r1, r2, r3}
    Faults = {"error", "lateError", "crash", "hangup", "lost"}
    MaxFaults = 3
    Devices = {"d1", "d2"}
    Scripts <- TwoScripts
    MaxKeys = 3
    MaxSyncFaults = 1
INVARIANTS
    DevicesTypeOK
    AppliedOncePerRow
    HeardIsTrue
    NothingIsLost
PROPERTIES
    AnswerIsHeard
    Settled
CHECK_DEADLOCK FALSE
