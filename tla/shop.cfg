SPECIFICATION ShopSpec
CONSTANTS
    r1 = r1
    r2 = r2
    h1 = h1
    h2 = h2
    Requests = {r1, r2}
    Bills = {1, 2, 3}
    Returns = {1, 2}
    Imported = {3}
    BillOf <- BillsEntered
    ReturnOf <- ReturnsEntered
    Suppliers = {"s1"}
    MaxDay = 2
    MaxSold = 1
    Never = 3
    Customers = {"c1", "c2", "c3"}
    Phones = {1}
    Sales = {1}
    SaleOf <- SalesMade
    Entries = {1, 2, 3, 4}
    EntryOf <- EntriesMade
    Expenses = {1}
    ExpenseOf <- ExpensesMade
    CashEntries = {1, 2}
    CashOf <- CashMade
    Handlers = {h1, h2}
    FewBills = {1, 3}
    FewCustomers = {"c1", "c2"}
    Comers <- InOrder
    Things = {1, 2, 3, 4, 5}
    KindOf <- KindsOfThings
    Devices = {1, 2}
    Edits = {1, 2, 3, 4, 5, 6, 7, 8, 9}
    EditOf <- EditsMade
    MaxProducts = 1
    ProductFile <- ProductRows
    ProductList <- ListRows
    BatchFile <- BatchRows
    InitProducts <- StockBefore
    CustomerFile <- PeopleRows
    CustomerList <- PeopleListRows
    InitCustomers <- Nobody
    SupplierFile <- SupplierRows
    InitSuppliers <- SuppliersBefore
    MethodFile <- MethodRows
    HistoryFile <- HistoryRows
    PlanProducts = 2
    PlanCustomers = 2
    MaxImports = 3
    MaxOthers = 1
SYMMETRY Symmetry
INVARIANTS
    ShopTypeOK
    StockMatchesPurchases
    BooksBalance
    NoEditLost
    ImportsSettle
CHECK_DEADLOCK FALSE
