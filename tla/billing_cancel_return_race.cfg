SPECIFICATION Spec
CONSTANTS
    o1 = o1
    o2 = o2
    o3 = o3
    o4 = o4
    c1 = c1
    c2 = c2
    p1 = p1
    p2 = p2
    Orders = {o1}
    Counters = {c1}
    Products = {p1}
    Requests = {r1, r2}
    Ops = {"create", "cancel", "return"}
    Bills <- OneBill
    Worth <- OnePrice
    InitStock <- StockTwo
    MaxQty = 1
    MaxOrders = 1
    AllowNegative = FALSE
SYMMETRY RequestSymmetry
INVARIANTS
    CancelledHasNoReturns
