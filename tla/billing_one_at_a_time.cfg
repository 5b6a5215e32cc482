SPECIFICATION Spec
CONSTANTS
    o1 = o1
    o2 = o2
    o3 = o3
    o4 = o4
    c1 = c1
    c2 = c2
    p1 = p1
    p2 = p2
    Orders = {o1, o2}
    Counters = {c1}
    Products = {p1, p2}
    Requests = {r1}
    Ops = {"create", "sync", "cancel", "return"}
    Bills <- TwoBills
    Worth <- TwoPrices
    InitStock <- StockOne
    MaxQty = 1
    MaxOrders = 2
    AllowNegative = FALSE
SYMMETRY RequestSymmetry
PROPERTIES
    KeepsLedger
