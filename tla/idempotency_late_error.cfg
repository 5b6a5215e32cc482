SPECIFICATION Spec
CONSTANTS
    r1 = r1
    r2 = r2
    r3 = r3
    Requests = {r1, r2}
    Faults = {"lateError"}
    MaxFaults = 1
INVARIANTS
    AppliedAtMostOnce
CHECK_DEADLOCK FALSE
