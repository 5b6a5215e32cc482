------------------------------- MODULE MCShop -------------------------------
(***************************************************************************)
(* A shop small enough for TLC: the bills, entries, edits and files that   *)
(* Shop is run with.                                                       *)
(***************************************************************************)
EXTENDS Shop, TLC

CONSTANTS r1, r2, h1, h2

\* Two bills of one number, the first with one of two units paid, and an
\* imported one that is paid.
BillsEntered ==
    << [supplier |-> "s1", number |-> "A", qty |-> 2, paid |-> 1, kind |-> "CASH", expiry |-> 2, date |-> 1, due |-> 2],
       [supplier |-> "s1", number |-> "A", qty |-> 1, paid |-> 0, kind |-> "CASH", expiry |-> 1, date |-> 2, due |-> 2],
       [supplier |-> "s1", number |-> "B", qty |-> 1, paid |-> 1, kind |-> "UPI", expiry |-> 1, date |-> 1, due |-> 1] >>
ReturnsEntered == << [qty |-> 1, mode |-> "CREDIT_NOTE"], [qty |-> 1, mode |-> "REPLACEMENT"] >>
SalesMade == << [customer |-> "c2", credit |-> 2, cash |-> 1] >>
InOrder == <<"c1", "c2", "c3">>
EntriesMade ==
    << [table |-> "customer", party |-> "c2", type |-> "PAYMENT", kind |-> "CASH", amount |-> 2, due |-> 0],
       [table |-> "customer", party |-> "c1", type |-> "OPENING", kind |-> "none", amount |-> 1, due |-> 1],
       [table |-> "supplier", party |-> "s1", type |-> "PAYMENT", kind |-> "CASH", amount |-> 2, due |-> 0],
       [table |-> "supplier", party |-> "s1", type |-> "OPENING", kind |-> "none", amount |-> 1, due |-> 2] >>
ExpensesMade == << [kind |-> "CASH", amount |-> 1] >>
CashMade == << [type |-> "IN", amount |-> 1], [type |-> "OUT", amount |-> 2] >>

\* A product edited from two devices and by an older client; another to reach
\* the limit; one thing of each other kind edited from two devices.
KindsOfThings == << "product", "product", "customer", "supplier", "branch_price" >>
EditsMade ==
    << [device |-> 1, thing |-> 1, fields |-> {"name"}, saysBase |-> TRUE],
       [device |-> 2, thing |-> 1, fields |-> {"name", "price"}, saysBase |-> TRUE],
       [device |-> 1, thing |-> 1, fields |-> {"price"}, saysBase |-> FALSE],
       [device |-> 1, thing |-> 3, fields |-> {"name"}, saysBase |-> TRUE],
       [device |-> 2, thing |-> 3, fields |-> {"name"}, saysBase |-> TRUE],
       [device |-> 1, thing |-> 4, fields |-> {"name", "price"}, saysBase |-> TRUE],
       [device |-> 2, thing |-> 4, fields |-> {"price"}, saysBase |-> TRUE],
       [device |-> 1, thing |-> 5, fields |-> {"price"}, saysBase |-> TRUE],
       [device |-> 2, thing |-> 5, fields |-> {"price"}, saysBase |-> TRUE] >>

\* A backup of two products, one with batches for half of its stock and one
\* with more than there is, and a list whose rows are other products by their
\* name and by their barcode; the plan has room for two.
ProductRows ==
    << [name |-> 1, sku |-> 1, barcode |-> 0, category |-> 1, stock |-> 2],
       [name |-> 2, sku |-> 0, barcode |-> 1, category |-> 0, stock |-> 1] >>
ListRows ==
    << [name |-> 3, sku |-> 0, barcode |-> 1, category |-> 2, stock |-> 1],
       [name |-> 1, sku |-> 2, barcode |-> 0, category |-> 0, stock |-> 1] >>
BatchRows == << [product |-> 1, qty |-> 1, expiry |-> 2], [product |-> 2, qty |-> 2, expiry |-> 1] >>

\* The shop has nothing, or a product with the name of the second row, without
\* an SKU or with the one of the first row.
Stocked(name, sku) ==
    [name |-> name, sku |-> sku, barcode |-> 0, live |-> TRUE, stock |-> 1,
     batches |-> <<[qty |-> 1, expiry |-> Never, opening |-> TRUE]>>]
StockBefore == {<<>>, <<Stocked(2, 0)>>, <<Stocked(2, 1)>>}

PeopleRows == << [name |-> 1, phone |-> 1], [name |-> 2, phone |-> 0] >>
PeopleListRows == << [name |-> 1, phone |-> 0] >>
Nobody == <<>>
SupplierRows == << [name |-> 1, phone |-> 1, gstin |-> 1] >>
SuppliersBefore == << [name |-> 2, phone |-> 1, gstin |-> 0, live |-> TRUE] >>
MethodRows == <<1, 2>>

\* A purchase, its return and its old copy among the expenses, a payment of a
\* customer, and a supplier known only to the ledger.
InBooks(store, supplier, name, of, copy, customer) ==
    [store |-> store, supplier |-> supplier, name |-> name, of |-> of, expense |-> copy, customer |-> customer]
HistoryRows ==
    << InBooks("purchases", 1, 1, 0, 3, 0),
       InBooks("purchase_returns", 0, 0, 1, 0, 0),
       InBooks("expenses", 1, 0, 0, 0, 0),
       InBooks("cashbook", 0, 0, 0, 0, 0),
       InBooks("ledger", 0, 0, 0, 0, 1),
       InBooks("supplier_ledger", 0, 3, 0, 0, 0) >>

Symmetry == Permutations(Requests) \cup Permutations(Handlers)
=============================================================================
