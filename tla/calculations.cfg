SPECIFICATION CalculationsSpec
CONSTANTS
    Never = 3
    ShelfUnits = 2
    ShelfBatches = 3
    BillLines = 3
    LineInputs <- SmallLines
    Discounts <- SmallDiscounts
INVARIANTS
    BillAddsUp
    PlansAreKept
