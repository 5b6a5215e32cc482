SPECIFICATION Spec
CONSTANTS
    b1 = b1
    b2 = b2
    t1 = t1
    t2 = t2
    r1 = r1
    r2 = r2
    Branches = {b1, b2}
    Transfers = {t1, t2}
    Requests = {r1, r2}
    Bodies <- Trips
    InitBatches <- Shelves
    Never = 3
    MaxQty = 2
CHECK_DEADLOCK FALSE
SYMMETRY RequestSymmetry
INVARIANTS
    TypeOK
    UnitsConserved
    ExpiriesTravel
PROPERTIES
    OnlyAnOvertakenSendOverdraws
    KeepsFreight
