SPECIFICATION Spec
CONSTANTS
    l1 = l1
    l2 = l2
    r1 = r1
    r2 = r2
    Lines = {l1}
    Requests = {r1, r2}
    Ops = {"sell", "oversell", "giveBack", "add", "reduce", "set", "batch", "expiry", "turnOn", "turnOff"}
    InitTracking = {TRUE, FALSE}
    Never = 2
    MaxQty = 2
    MaxStock = 3
    MaxBatches = 2
SYMMETRY Symmetry
INVARIANTS
    TypeOK
    BatchesAddUp
    EveryUnitHasABatch
    RestoredWithinTaken
PROPERTIES
    EarliestExpiryFirst
