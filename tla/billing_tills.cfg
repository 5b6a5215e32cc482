SPECIFICATION Spec
CONSTANTS
    o1 = o1
    o2 = o2
    o3 = o3
    o4 = o4
    c1 = c1
    c2 = c2
    p1 = p1
    p2 = p2
    Orders = {o1, o2, o3, o4}
    Counters = {c1, c2}
    Products = {p1}
    Requests = {r1, r2, r3}
    Ops = {"create", "cancel"}
    Bills <- CounterBills
    Worth <- OnePrice
    InitStock <- StockTwo
    MaxQty = 1
    MaxOrders = 1
    AllowNegative = FALSE
SYMMETRY RequestSymmetry
INVARIANTS
    InvoiceSeries
    NeverOversold
    PlanOvershootBounded
    StockMatchesBills
PROPERTIES
    NumbersNeverClash
