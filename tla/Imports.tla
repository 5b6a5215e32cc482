------------------------------ MODULE Imports ------------------------------
(***************************************************************************)
(* Lists of products and customers, and the backup of the free POS, read   *)
(* into a shop (routes/imports.ts, services/freePosBooks.ts).              *)
(*                                                                         *)
(* A backup is imported by several transactions: products with their       *)
(* stock, batches, customers, payment methods one by one, and the history  *)
(* of the books.  The server may die between any two; the owner then       *)
(* imports the same file again, as he may at any time.                     *)
(*                                                                         *)
(* Names, codes, phones and tax numbers are small numbers, 0 when left     *)
(* out.  Of the rows a transaction reads without an order, the oldest      *)
(* comes first.  The shop tracks batches.                                  *)
(***************************************************************************)
EXTENDS Batches

CONSTANTS
    ProductFile,    \* rows of products: name, sku, barcode, category, stock
    BatchFile,      \* batches of the backup: product (its row), qty, expiry
    CustomerFile,   \* rows of customers: name, phone
    SupplierFile,   \* suppliers of the backup: name, phone, gstin
    MethodFile,     \* payment methods of the backup
    HistoryFile,    \* rows of the backup's books: store and what they name
    ProductList,    \* a list of products imported by itself ...
    CustomerList,   \* ... and one of customers
    InitProducts, InitCustomers, InitSuppliers,
    PlanProducts, PlanCustomers,    \* limits of the plan
    MaxImports,     \* bound: imports begun
    MaxOthers       \* bound: changes by other handlers

ProductRow == [name : Nat \ {0}, sku : Nat, barcode : Nat, category : Nat, stock : Int]
CustomerRow == [name : Nat \ {0}, phone : Nat]
SupplierRow == [name : Nat \ {0}, phone : Nat, gstin : Nat]

Product == [name : Nat \ {0}, sku : Nat, barcode : Nat, live : BOOLEAN, stock : Int, batches : Seq(Batch)]
Customer == [name : Nat \ {0}, phone : Nat, live : BOOLEAN]
Supplier == [name : Nat \ {0}, phone : Nat, gstin : Nat, live : BOOLEAN]

LiveOf(list) == {i \in DOMAIN list : list[i].live}

Apart(list, key) == \A i, j \in LiveOf(list) : list[i][key] = list[j][key] => (i = j \/ list[i][key] = 0)

RowsApart(file, key) == \A i, j \in DOMAIN file : i # j => file[i][key] = 0 \/ file[i][key] # file[j][key]

\* Two rows of the backup are two things.  (Of customers of one name, some with a
\* phone and some without, later rows are written over earlier ones.)
RowsAreTwoThings ==
    /\ \A key \in {"name", "sku", "barcode"} : RowsApart(ProductFile, key)
    /\ \A key \in {"name", "phone"} : RowsApart(CustomerFile, key)

\* Rows of the backup's books: a return names an earlier purchase, an entry of
\* the ledger a customer, and a purchase its supplier or at least a name.
Stores == {"purchases", "purchase_returns", "expenses", "cashbook", "ledger", "supplier_ledger"}

HistoryRow(r) ==
    LET row == HistoryFile[r]
    IN  /\ row.store \in Stores /\ row.supplier \in 0..Len(SupplierFile)
        /\ row.store = "purchase_returns" =>
              row.of \in 1..(r - 1) /\ HistoryFile[row.of].store = "purchases"
        /\ row.store = "ledger" => row.customer \in DOMAIN CustomerFile
        /\ row.store \in {"purchases", "supplier_ledger"} =>
              row.supplier # 0 \/ row.name \in Nat \ {0}

ASSUME FilesAssumption ==
    /\ ProductFile \in Seq(ProductRow) /\ ProductList \in Seq(ProductRow)
    /\ BatchFile \in Seq([product : DOMAIN ProductFile, qty : Nat, expiry : 1..Never])
    /\ CustomerFile \in Seq(CustomerRow) /\ CustomerList \in Seq(CustomerRow)
    /\ SupplierFile \in Seq(SupplierRow) /\ MethodFile \in Seq(Nat)
    /\ Len(HistoryFile) \in Nat /\ DOMAIN HistoryFile = 1..Len(HistoryFile)
    /\ \A r \in DOMAIN HistoryFile : HistoryRow(r)
    /\ PlanProducts \in Nat /\ PlanCustomers \in Nat
    /\ MaxImports \in Nat /\ MaxOthers \in Nat /\ Never \in Nat \ {0}

\* A product's batches are its stock, or empty where that is below zero.
BatchesAreStock(p) ==
    /\ \A i \in DOMAIN p.batches : p.batches[i].qty >= 0
    /\ Total(p.batches) = Most(0, p.stock)

\* The shop before the first import.
ASSUME BeforeAssumption ==
    /\ \A list \in InitProducts :
          /\ list \in Seq(Product) /\ Apart(list, "sku") /\ Cardinality(LiveOf(list)) <= PlanProducts
          /\ \A p \in DOMAIN list : BatchesAreStock(list[p])
    /\ InitCustomers \in Seq(Customer) /\ Apart(InitCustomers, "phone")
    /\ Cardinality(LiveOf(InitCustomers)) <= PlanCustomers
    /\ InitSuppliers \in Seq(Supplier) /\ Apart(InitSuppliers, "name")

VARIABLES
    products,   \* in the order they were made, with stock and batches
    categories, \* their names
    customers,  \* in the order they were made
    suppliers,  \* likewise
    methods,    \* names of the payment methods, in their order
    history,    \* row of the backup's books -> status and party
    job,        \* the import in progress: its step and what it remembers
    imports,    \* imports begun
    others,     \* changes by other handlers so far
    made,       \* how much there was when a backup that nothing disturbed was in
    doubled     \* an import repeated at once made something new

importVars == <<products, categories, customers, suppliers, methods, history,
                job, imports, others, made, doubled>>

NoImport == [step |-> "none"]
Unknown == [others |-> -1]
Unrecorded == [status |-> "none", party |-> 0]

ImportsInit ==
    /\ products \in InitProducts
    /\ categories = {} /\ methods = <<1>>
    /\ customers = InitCustomers /\ suppliers = InitSuppliers
    /\ history = [r \in DOMAIN HistoryFile |-> Unrecorded]
    /\ job = NoImport /\ imports = 0 /\ others = 0
    /\ made = Unknown /\ doubled = FALSE

----------------------------------------------------------------------------
\* The oldest of some rows, 0 when there is none.
First(some) == IF some = {} THEN 0 ELSE CHOOSE i \in some : \A j \in some : i <= j

\* The first of some answers that is not 0.
Else(a, b) == IF a # 0 THEN a ELSE b

\* findMatch: by SKU, then by barcode, then by name.
FindMatch(list, row) ==
    LET with(key) == {i \in LiveOf(list) : row[key] # 0 /\ list[i][key] = row[key]}
    IN  Else(First(with("sku")), Else(First(with("barcode")), First(with("name"))))

\* A field a list leaves out stays; the backup has a value for each.
Kept(given, old, whole) == IF given = 0 /\ ~whole THEN old ELSE given

WithFields(p, row, whole) ==
    [p EXCEPT !.name = row.name, !.sku = Kept(row.sku, @, whole), !.barcode = Kept(row.barcode, @, whole)]

NewProduct(row) ==
    [name |-> row.name, sku |-> row.sku, barcode |-> row.barcode, live |-> TRUE, stock |-> 0, batches |-> <<>>]

\* Stock of a row is set, and the batches are made to follow.
WithStock(p, row) == [p EXCEPT !.stock = row.stock, !.batches = Reconcile(@, row.stock)]

\* One turn of upsertProducts; map says which product a row became, 0: none.
UpsertProduct(acc, row, whole) ==
    LET found == FindMatch(acc.list, row)
        full == found = 0 /\ Cardinality(LiveOf(acc.list)) >= PlanProducts
        at == IF found # 0 THEN found ELSE Len(acc.list) + 1
        new == IF found # 0 THEN WithFields(acc.list[at], row, whole) ELSE NewProduct(row)
        list == IF found # 0 THEN [acc.list EXCEPT ![at] = WithStock(new, row)]
                ELSE Append(acc.list, WithStock(new, row))
    IN  [list |-> IF full THEN acc.list ELSE list,
         map |-> Append(acc.map, IF full THEN 0 ELSE at),
         categories |-> acc.categories \cup ({row.category} \ {0})]

UpsertProducts(rows, whole) ==
    FoldLeft(LAMBDA acc, row : UpsertProduct(acc, row, whole),
             [list |-> products, map |-> <<>>, categories |-> categories], rows)

\* Wrong: the phone is not looked at.
FindCustomerByName(list, row) ==
    First({i \in LiveOf(list) : list[i].name = row.name /\ (list[i].phone = 0 \/ row.phone = 0)})

\* The customer a row is: by phone, else by name where one has no phone.
FindCustomer(list, row) ==
    Else(First({i \in LiveOf(list) : row.phone # 0 /\ list[i].phone = row.phone}),
         First({i \in LiveOf(list) : list[i].name = row.name /\ (list[i].phone = 0 \/ row.phone = 0)}))

\* One turn of upsertCustomers; what a row leaves out is emptied.
UpsertCustomer(list, row) ==
    LET found == FindCustomer(list, row)
        new == [name |-> row.name, phone |-> row.phone, live |-> TRUE]
    IN  IF found # 0 THEN [list EXCEPT ![found] = new]
        ELSE IF Cardinality(LiveOf(list)) >= PlanCustomers THEN list
        ELSE Append(list, new)

UpsertCustomers(rows) == FoldLeft(UpsertCustomer, customers, rows)

\* Some of the elements of a sequence, in their order.
Selected(seq, some) ==
    LET order == CHOOSE order \in [1..Cardinality(some) -> some] :
                     \A m, n \in DOMAIN order : m < n => order[m] < order[n]
    IN  [n \in DOMAIN order |-> seq[order[n]]]

\* Wrong: the catch-all batch stays beside the batches of the file.
TrimmedToNothing(rows, stock) == IF Total(rows) < stock THEN AddToOpening(rows, stock - Total(rows)) ELSE rows

\* Batches now say which units the stock is: the catch-all batch is made anew.
Trimmed(rows, stock) ==
    LET named == Selected(rows, DOMAIN rows \ Opening(rows))
        units == Most(0, stock)
    IN  IF units > Total(named) THEN AddToOpening(named, units - Total(named))
        ELSE Reconcile(named, units)

\* The batches of the file for one product, in its order.
BatchesFor(p, map) ==
    LET ofProduct == Selected(BatchFile, {b \in DOMAIN BatchFile : map[BatchFile[b].product] = p})
    IN  [i \in DOMAIN ofProduct |-> [qty |-> ofProduct[i].qty, expiry |-> ofProduct[i].expiry, opening |-> FALSE]]

----------------------------------------------------------------------------
\* Wrong: a supplier without a tax number is taken to be new.
FindSupplierByGstin(list, s) == First({i \in LiveOf(list) : s.gstin # 0 /\ list[i].gstin = s.gstin})

\* ensureSupplier: by GSTIN, then by phone, then by name.
FindSupplier(list, s) ==
    LET with(key) == {i \in LiveOf(list) : s[key] # 0 /\ list[i][key] = s[key]}
    IN  Else(First(with("gstin")), Else(First(with("phone")), First(with("name"))))

\* acc: the suppliers, whom the file's are (ids) and whom its names are (byName).
EnsureSupplier(acc, s) ==
    LET found == FindSupplier(acc.suppliers, s)
        new == [name |-> s.name, phone |-> s.phone, gstin |-> s.gstin, live |-> TRUE]
        list == IF found # 0 THEN acc.suppliers ELSE Append(acc.suppliers, new)
        at == Else(found, Len(list))
    IN  [acc EXCEPT !.suppliers = list, !.at = at,
                    !.byName = [n \in DOMAIN @ \cup {s.name} |-> IF n = s.name THEN at ELSE @[n]]]

FileSupplier(acc, s) ==
    LET next == EnsureSupplier(acc, s)
    IN  [next EXCEPT !.ids = Append(@, next.at)]

FileSuppliers ==
    FoldLeft(FileSupplier,
             [suppliers |-> suppliers, history |-> history, ids |-> <<>>, byName |-> <<>>, at |-> 0],
             SupplierFile)

\* supplierFor: the file's supplier of the row, else one of its name.
SupplierFor(acc, row) ==
    IF row.supplier # 0 THEN [acc EXCEPT !.at = acc.ids[row.supplier]]
    ELSE IF row.name \in DOMAIN acc.byName THEN [acc EXCEPT !.at = acc.byName[row.name]]
    ELSE EnsureSupplier(acc, [name |-> row.name, phone |-> 0, gstin |-> 0])

\* customerFor: by phone, else by name.
CustomerFor(row) ==
    LET c == CustomerFile[row.customer]
    IN  Else(First({i \in LiveOf(customers) : c.phone # 0 /\ customers[i].phone = c.phone}),
             First({i \in LiveOf(customers) : customers[i].name = c.name}))

\* The id of a row is made of its id in the backup: it is recorded once.
Recorded(old, party) == IF old.status = "none" THEN [status |-> "live", party |-> party] ELSE old

\* The old copy of a purchase among the expenses.
IsMirror(r) == \E p \in DOMAIN HistoryFile : HistoryFile[p].store = "purchases" /\ HistoryFile[p].expense = r

\* One row of the books; acc.history says what is recorded.
ImportRow(acc, r) ==
    LET row == HistoryFile[r]
        withSupplier == SupplierFor(acc, row)
        recorded(a, party) == [a EXCEPT !.history[r] = Recorded(@, party)]
    IN  CASE row.store \in {"purchases", "supplier_ledger"} -> recorded(withSupplier, withSupplier.at)
          [] row.store = "purchase_returns" ->
                IF acc.history[row.of].status = "none" THEN acc ELSE recorded(acc, acc.history[row.of].party)
          [] row.store = "expenses" ->
                IF IsMirror(r) THEN acc ELSE recorded(acc, IF row.supplier = 0 THEN 0 ELSE acc.ids[row.supplier])
          [] row.store = "cashbook" -> recorded(acc, 0)
          [] row.store = "ledger" -> IF CustomerFor(row) = 0 THEN acc ELSE recorded(acc, CustomerFor(row))

\* importFreePosBooks: the suppliers, then the rows in the order of the file.
ImportBooks ==
    FoldLeft(ImportRow, FileSuppliers, [r \in DOMAIN HistoryFile |-> r])

----------------------------------------------------------------------------
\* How much there is of everything.
Amounts ==
    [others |-> others, products |-> Cardinality(LiveOf(products)), customers |-> Cardinality(LiveOf(customers)),
     suppliers |-> Len(suppliers), methods |-> Len(methods),
     history |-> Cardinality({r \in DOMAIN history : history[r].status # "none"})]

\* POST /imports/free-pos: the products, in one transaction.
StartImport ==
    LET done == UpsertProducts(ProductFile, TRUE)
    IN  /\ job = NoImport /\ imports < MaxImports
        /\ imports' = imports + 1
        /\ products' = done.list /\ categories' = done.categories
        /\ job' = [step |-> "batches", since |-> others, map |-> done.map]
        /\ UNCHANGED <<customers, suppliers, methods, history, others, made, doubled>>

\* ... their batches, on the stock there is by now.
AddBatches ==
    /\ job.step = "batches"
    /\ products' = IF BatchFile = <<>> THEN products
                   ELSE [p \in DOMAIN products |->
                            IF \A i \in DOMAIN job.map : job.map[i] # p THEN products[p]
                            ELSE [products[p] EXCEPT !.batches = Trimmed(@ \o BatchesFor(p, job.map), products[p].stock)]]
    /\ job' = [step |-> "customers", since |-> job.since]
    /\ UNCHANGED <<categories, customers, suppliers, methods, history, imports, others, made, doubled>>

\* ... the customers, and what payment methods there are.
AddCustomers ==
    /\ job.step = "customers"
    /\ customers' = UpsertCustomers(CustomerFile)
    /\ job' = [step |-> "methods", since |-> job.since, next |-> 1]
    /\ UNCHANGED <<products, categories, suppliers, methods, history, imports, others, made, doubled>>

\* ... one payment method at a time, unless there is one of its name.
AddMethod ==
    /\ job.step = "methods" /\ job.next <= Len(MethodFile)
    /\ methods' = IF Contains(methods, MethodFile[job.next]) THEN methods ELSE Append(methods, MethodFile[job.next])
    /\ job' = [job EXCEPT !.next = @ + 1]
    /\ UNCHANGED <<products, categories, customers, suppliers, history, imports, others, made, doubled>>

\* ... and the books, which end the import.
AddBooks ==
    LET done == ImportBooks
    IN  /\ job.step = "methods" /\ job.next > Len(MethodFile)
        /\ suppliers' = done.suppliers /\ history' = done.history
        /\ job' = NoImport
        /\ UNCHANGED <<products, categories, customers, methods, imports, others>>
        /\ made' = IF job.since = others THEN Amounts' ELSE Unknown
        /\ doubled' = (doubled \/ (made.others = others /\ made' # made))

\* The server dies: what was committed stays.
Die ==
    /\ job # NoImport
    /\ job' = NoImport
    /\ UNCHANGED <<products, categories, customers, suppliers, methods, history, imports, others, made, doubled>>

\* POST /imports/products
ImportProducts ==
    LET done == UpsertProducts(ProductList, FALSE)
    IN  /\ others < MaxOthers /\ others' = others + 1
        /\ products' = done.list /\ categories' = done.categories
        /\ UNCHANGED <<customers, suppliers, methods, history, job, imports, made, doubled>>

\* POST /imports/customers
ImportCustomers ==
    /\ others < MaxOthers /\ others' = others + 1
    /\ customers' = UpsertCustomers(CustomerList)
    /\ UNCHANGED <<products, categories, suppliers, methods, history, job, imports, made, doubled>>

\* A unit is sold, from the batch that expires first.
SellUnit(p) ==
    /\ others < MaxOthers /\ others' = others + 1
    /\ p \in LiveOf(products) /\ products[p].stock > 0
    /\ products' = [products EXCEPT ![p].stock = @ - 1, ![p].batches = Out(@, PlanTake(@, 1, 0).take)]
    /\ UNCHANGED <<categories, customers, suppliers, methods, history, job, imports, made, doubled>>

Archived(list, i) == [list EXCEPT ![i].live = FALSE]

\* A product, customer or supplier is archived by its own handler.
Archive ==
    /\ others < MaxOthers /\ others' = others + 1
    /\ \/ /\ \E i \in LiveOf(products) : products' = Archived(products, i)
          /\ UNCHANGED <<customers, suppliers>>
       \/ /\ \E i \in LiveOf(customers) : customers' = Archived(customers, i)
          /\ UNCHANGED <<products, suppliers>>
       \/ /\ \E i \in LiveOf(suppliers) : suppliers' = Archived(suppliers, i)
          /\ UNCHANGED <<products, customers>>
    /\ UNCHANGED <<categories, methods, history, job, imports, made, doubled>>

\* A row of the history is cancelled, voided or deleted by its own handler;
\* an imported return has none.
StrikeOut(r) ==
    /\ others < MaxOthers /\ others' = others + 1
    /\ history[r].status = "live" /\ HistoryFile[r].store # "purchase_returns"
    /\ history' = [history EXCEPT ![r].status = "struck"]
    /\ UNCHANGED <<products, categories, customers, suppliers, methods, job, imports, made, doubled>>

ImportsNext ==
    \/ StartImport \/ AddBatches \/ AddCustomers \/ AddMethod \/ AddBooks \/ Die
    \/ ImportProducts \/ ImportCustomers
    \/ \E p \in DOMAIN products : SellUnit(p)
    \/ Archive
    \/ \E r \in DOMAIN history : StrikeOut(r)

ImportsSpec == ImportsInit /\ [][ImportsNext]_importVars

----------------------------------------------------------------------------
ImportsTypeOK ==
    /\ products \in Seq(Product) /\ customers \in Seq(Customer) /\ suppliers \in Seq(Supplier)
    /\ \A r \in DOMAIN history :
          /\ history[r].status \in {"none", "live", "struck"}
          /\ HistoryFile[r].store \notin {"ledger", "cashbook"} => history[r].party \in 0..Len(suppliers)
          /\ HistoryFile[r].store = "ledger" => history[r].party \in 0..Len(customers)
    /\ job.step \in {"none", "batches", "customers", "methods"}
    /\ imports \in 0..MaxImports /\ others \in 0..MaxOthers
    /\ doubled \in BOOLEAN

\* However often files are imported, and wherever an import breaks off: the
\* batches of a product are its stock, the plan's limits stand, no SKU, phone,
\* supplier's name or payment method comes twice, and a backup whose rows are two
\* things each adds nothing when it is imported again at once.
ImportsSettle ==
    /\ \A p \in DOMAIN products : BatchesAreStock(products[p])
    /\ Cardinality(LiveOf(products)) <= PlanProducts /\ Cardinality(LiveOf(customers)) <= PlanCustomers
    /\ Apart(products, "sku") /\ Apart(customers, "phone") /\ Apart(suppliers, "name")
    /\ IsInjective(methods)
    /\ RowsAreTwoThings => ~doubled
=============================================================================
