SPECIFICATION Spec
CONSTANTS
    o1 = o1
    o2 = o2
    o3 = o3
    o4 = o4
    c1 = c1
    c2 = c2
    p1 = p1
    p2 = p2
    Orders = {o1}
    Counters = {c1, c2}
    Products = {p1, p2}
    Requests = {r1, r2, r3}
    Ops = {"create", "return"}
    Bills <- OneBill
    Worth <- TwoPrices
    InitStock <- StockTwo
    MaxQty = 2
    MaxOrders = 2
    AllowNegative = TRUE
SYMMETRY RequestSymmetry
INVARIANTS
    TypeOK
    ReturnedWithinSold
    RefundsMatchReturns
    NotesExplainReturns
