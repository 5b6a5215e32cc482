SPECIFICATION Spec
CONSTANTS
    l1 = l1
    l2 = l2
    r1 = r1
    r2 = r2
    Lines = {l1}
    Requests = {r1}
    Ops = {"sell", "add", "turnOn", "turnOff"}
    InitTracking = {FALSE}
    Never = 2
    MaxQty = 1
    MaxStock = 3
    MaxBatches = 2
SYMMETRY Symmetry
INVARIANTS
    BatchesInStep
