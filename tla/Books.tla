------------------------------- MODULE Books -------------------------------
(***************************************************************************)
(* The books of a branch (routes/books.ts, services/books.ts): udhaar of   *)
(* customers, what suppliers are owed, expenses and the cash drawer, over  *)
(* the supplier bills of Purchases.  Nothing is posted: each book is read  *)
(* from the rows of bills, notes and entries by a query of its own.        *)
(* Bills of customers and their credit notes are Billing's; here they are  *)
(* the rows those handlers write.  The content of an entry belongs to its  *)
(* id; days stand for moments.                                             *)
(***************************************************************************)
EXTENDS Purchases, Statements

CONSTANTS
    Customers,
    Sales, SaleOf,      \* bills: customer, credit and cash parts
    Entries, EntryOf,   \* ledger entries: table, party, type, kind, amount, due
    Expenses, ExpenseOf,
    CashEntries, CashOf,
    Phones              \* phone numbers; a customer without one has 0

Kinds == {"CASH", "UPI"}

\* What may be entered; ids are numbers, no amount is below zero.
ASSUME BooksAssumption ==
    /\ \A ids \in {Sales, Entries, Expenses, CashEntries, Bills, Returns} : IsFiniteSet(ids) /\ ids \subseteq Nat
    /\ IsFiniteSet(Customers) /\ IsFiniteSet(Suppliers) /\ 0 \notin Phones
    /\ \A o \in Sales : SaleOf[o].customer \in Customers /\ SaleOf[o].credit \in Nat /\ SaleOf[o].cash \in Nat
    /\ \A e \in Entries :
          /\ EntryOf[e].table \in {"customer", "supplier"} /\ EntryOf[e].type \in {"PAYMENT", "OPENING"}
          /\ EntryOf[e].party \in IF EntryOf[e].table = "customer" THEN Customers ELSE Suppliers
          /\ EntryOf[e].type = "PAYMENT" => EntryOf[e].kind \in Kinds
          /\ EntryOf[e].amount \in Nat /\ EntryOf[e].due \in Nat
    /\ \A x \in Expenses : ExpenseOf[x].kind \in Kinds /\ ExpenseOf[x].amount \in Nat
    /\ \A c \in CashEntries : CashOf[c].type \in {"IN", "OUT"} /\ CashOf[c].amount \in Nat
    /\ \A b \in Bills :
          /\ BillOf[b].supplier \in Suppliers /\ BillOf[b].kind \in Kinds /\ BillOf[b].paid \in Nat
          /\ BillOf[b].date \in Nat /\ BillOf[b].due \in Nat

VARIABLES
    sale,       \* bill of a customer -> status, customer, day, credit note
    entry,      \* ledger entry -> status, party, day
    expense,    \* expense -> status, day, kind, amount
    cash,       \* manual cash entry -> status, day
    opening,    \* the drawer's opening day (0: not set) and amount
    added,      \* customers in the order they were created
    phone,      \* customer -> phone
    merged,     \* those archived by a merge
    checking,   \* those just added whose phone is not yet looked up: new, phone
    noted,      \* doubles found and not yet recorded: new, keep, phone
    toReview,   \* those the owner has not decided on
    crossed,    \* phones changed, brought back, or under which a newer double was noted
    cameLate    \* rows saved for a customer who was already merged away

customerVars == <<added, phone, merged, checking, noted, toReview, crossed, cameLate>>
bookVars == <<sale, entry, expense, cash, opening, customerVars>>

None == [status |-> "none", at |-> 0]

\* Wrong: the time a device says is taken as it is.
AsAsked(d) == d

\* at: back-dating is fine; the future isn't.
NoLater(d) == Least(d, day)

BooksInit ==
    /\ Init
    /\ sale = [o \in Sales |-> [status |-> "none", customer |-> SaleOf[o].customer, at |-> 0, refund |-> "none", refundAt |-> 0]]
    /\ entry = [e \in Entries |-> [status |-> "none", party |-> EntryOf[e].party, at |-> 0]]
    /\ expense = [x \in Expenses |-> [status |-> "none", at |-> 0, kind |-> "CASH", amount |-> 0]]
    /\ cash = [c \in CashEntries |-> None]
    /\ opening = [day |-> 0, amount |-> 0]
    /\ added = <<>> /\ phone = [c \in Customers |-> 0]
    /\ merged = {} /\ checking = {} /\ noted = {} /\ toReview = {}
    /\ crossed = {} /\ cameLate = {}

----------------------------------------------------------------------------
\* customerBalances, of one customer.
CustomerBalance(c) ==
    LET bills == {o \in Sales : sale[o].status = "COMPLETED" /\ sale[o].customer = c}
        notes == {o \in Sales : sale[o].refund = "CREDIT" /\ sale[o].customer = c}
        entries == {e \in Entries : entry[e].status = "live" /\ EntryOf[e].table = "customer" /\ entry[e].party = c}
    IN  Amount(LAMBDA o : SaleOf[o].credit, bills)
        + Amount(LAMBDA e : IF EntryOf[e].type = "PAYMENT" THEN -EntryOf[e].amount ELSE EntryOf[e].amount, entries)
        - Cardinality(notes)

\* Wrong: cancelled supplier bills are still owed.
SupplierBalanceOfAll(s) ==
    LET bills == {b \in Bills : bill[b].status # "none" /\ BillOf[b].supplier = s}
        returns == {x \in Returns : ret[x].status = "SETTLED" /\ BillOf[ret[x].bill].supplier = s}
        entries == {e \in Entries : entry[e].status = "live" /\ EntryOf[e].table = "supplier" /\ entry[e].party = s}
    IN  Amount(LAMBDA b : Qty(b) - BillOf[b].paid, bills)
        + Amount(LAMBDA e : IF EntryOf[e].type = "PAYMENT" THEN -EntryOf[e].amount ELSE EntryOf[e].amount, entries)
        - Amount(LAMBDA x : ret[x].qty, returns)

\* supplierBalances, of one supplier.
SupplierBalance(s) ==
    LET bills == {b \in Bills : Live(b) /\ BillOf[b].supplier = s}
        returns == {x \in Returns : ret[x].status = "SETTLED" /\ Live(ret[x].bill) /\ BillOf[ret[x].bill].supplier = s}
        entries == {e \in Entries : entry[e].status = "live" /\ EntryOf[e].table = "supplier" /\ entry[e].party = s}
    IN  Amount(LAMBDA b : Qty(b) - BillOf[b].paid, bills)
        + Amount(LAMBDA e : IF EntryOf[e].type = "PAYMENT" THEN -EntryOf[e].amount ELSE EntryOf[e].amount, entries)
        - Amount(LAMBDA x : ret[x].qty, returns)

\* ids: 1 bill, 2 entry of the ledger, 3 credit note or payment with the bill,
\* 4 return.
Row(id, at, debit, credit, due) == [id |-> id, at |-> at, debit |-> debit, credit |-> credit, due |-> due]

\* The rows of the party's ledger entries in its statement.
EntryRows(table, party) ==
    {LET payment == EntryOf[e].type = "PAYMENT"
     IN  Row(<<2, e>>, entry[e].at,
             IF payment THEN 0 ELSE EntryOf[e].amount, IF payment THEN EntryOf[e].amount ELSE 0,
             EntryOf[e].due) :
        e \in {e \in Entries : entry[e].status = "live" /\ EntryOf[e].table = table /\ entry[e].party = party}}

\* customerStatements, of one customer.
CustomerStatement(c) ==
    LET mine == {o \in Sales : sale[o].customer = c}
    IN  Statement(
            {Row(<<1, o>>, sale[o].at, SaleOf[o].credit, 0, sale[o].at) :
                o \in {o \in mine : sale[o].status = "COMPLETED" /\ SaleOf[o].credit > 0}}
            \cup {Row(<<3, o>>, sale[o].refundAt, 0, 1, 0) : o \in {o \in mine : sale[o].refund = "CREDIT"}}
            \cup EntryRows("customer", c))

\* billAt: a bill is dated by its bill date, if that is before it was entered.
BillAt(b) == Least(BillOf[b].date, bill[b].day)

\* supplierStatements, of one supplier.
SupplierStatement(s) ==
    LET mine == {b \in Bills : Live(b) /\ BillOf[b].supplier = s}
    IN  Statement(
            {Row(<<1, b>>, BillAt(b), Qty(b), 0, BillOf[b].due) : b \in mine}
            \cup {Row(<<3, b>>, BillAt(b), 0, BillOf[b].paid, 0) : b \in {b \in mine : BillOf[b].paid > 0}}
            \cup {Row(<<4, x>>, ret[x].day, 0, ret[x].qty, 0) :
                     x \in {x \in Returns : ret[x].status = "SETTLED" /\ ret[x].bill \in mine}}
            \cup EntryRows("supplier", s))

\* cashMoves, for any set of kinds of payment (the cash book asks for CASH):
\* each [at, amount], in positive and out negative.
CashMoves(kinds) ==
    LET paid(e) == entry[e].status = "live" /\ EntryOf[e].type = "PAYMENT" /\ EntryOf[e].kind \in kinds
        move(source, id, at, amount) == [source |-> source, id |-> id, at |-> at, amount |-> amount]
    IN  {move("sale", o, sale[o].at, SaleOf[o].cash) : o \in {o \in Sales : sale[o].status = "COMPLETED" /\ "CASH" \in kinds}}
        \cup {move("refund", o, sale[o].refundAt, -1) : o \in {o \in Sales : sale[o].refund \in kinds}}
        \cup {move("customer_payment", e, entry[e].at, EntryOf[e].amount) : e \in {e \in Entries : paid(e) /\ EntryOf[e].table = "customer"}}
        \cup {move("expense", x, expense[x].at, -expense[x].amount) : x \in {x \in Expenses : expense[x].status = "live" /\ expense[x].kind \in kinds}}
        \cup {move("supplier_payment", e, entry[e].at, -EntryOf[e].amount) : e \in {e \in Entries : paid(e) /\ EntryOf[e].table = "supplier"}}
        \cup {move("purchase", b, bill[b].day, -BillOf[b].paid) : b \in {b \in Bills : Live(b) /\ BillOf[b].paid > 0 /\ BillOf[b].kind \in kinds}}
        \cup {move("manual", c, cash[c].at, IF CashOf[c].type = "IN" THEN CashOf[c].amount ELSE -CashOf[c].amount) :
                 c \in {c \in CashEntries : cash[c].status = "live" /\ "CASH" \in kinds}}

----------------------------------------------------------------------------
\* A row saved for a customer: who was archived may still be billed and pay.
Saved(table, id, c) ==
    /\ c \in ToSet(added)
    /\ cameLate' = IF c \in merged THEN cameLate \cup {<<table, id>>} ELSE cameLate
    /\ UNCHANGED <<added, phone, merged, checking, noted, toReview, crossed>>

\* What saving a bill writes: its credit part is owed by its customer.
SaveSale(o) ==
    /\ sale[o].status = "none"
    /\ sale' = [sale EXCEPT ![o].status = "COMPLETED", ![o].at = day]
    /\ Saved("sale", o, SaleOf[o].customer)
    /\ UNCHANGED <<vars, entry, expense, cash, opening>>

\* What a cancellation writes; a bill with a credit note is not cancelled.
CancelSale(o) ==
    /\ sale[o].status = "COMPLETED" /\ sale[o].refund = "none"
    /\ sale' = [sale EXCEPT ![o].status = "CANCELLED"]
    /\ UNCHANGED <<vars, entry, expense, cash, opening, customerVars>>

\* What a return of one unit writes, refunded in cash or to the udhaar.
NoteSale(o, kind) ==
    /\ sale[o].status = "COMPLETED" /\ sale[o].refund = "none"
    /\ sale' = [sale EXCEPT ![o].refund = kind, ![o].refundAt = day]
    /\ UNCHANGED <<vars, entry, expense, cash, opening, customerVars>>

\* The id of an entry is taken once: the same id again changes nothing.
NewEntry(e, table, type, d) ==
    /\ EntryOf[e].table = table /\ EntryOf[e].type = type
    /\ entry[e].status = "none"
    /\ entry' = [entry EXCEPT ![e].status = "live", ![e].at = d]
    /\ UNCHANGED <<vars, sale, expense, cash, opening>>

\* POST /customers/:id/payments
CustomerPayment(e, d) == NewEntry(e, "customer", "PAYMENT", NoLater(d)) /\ Saved("entry", e, EntryOf[e].party)

\* POST /customers/:id/opening: the date may be any.
CustomerOpening(e, d) == NewEntry(e, "customer", "OPENING", d) /\ Saved("entry", e, EntryOf[e].party)

\* POST /suppliers/:id/payments
SupplierPayment(e, d) == NewEntry(e, "supplier", "PAYMENT", NoLater(d)) /\ UNCHANGED customerVars

\* POST /suppliers/:id/opening
SupplierOpening(e, d) == NewEntry(e, "supplier", "OPENING", d) /\ UNCHANGED customerVars

Void(e, table) ==
    /\ EntryOf[e].table = table /\ entry[e].status = "live"
    /\ entry' = [entry EXCEPT ![e].status = "void"]
    /\ UNCHANGED <<vars, sale, expense, cash, opening, customerVars>>

\* POST /ledger/customer-entries/:id/void
VoidCustomerEntry(e) == Void(e, "customer")

\* POST /ledger/supplier-entries/:id/void
VoidSupplierEntry(e) == Void(e, "supplier")

Listed(c, n) ==
    /\ c \notin ToSet(added)
    /\ added' = Append(added, c) /\ phone' = [phone EXCEPT ![c] = n]
    /\ UNCHANGED <<vars, sale, entry, expense, cash, opening, merged, noted, toReview, crossed, cameLate>>

\* POST /customers; the phone, if there is one, is looked up after the transaction.
AddCustomer(c, n) ==
    /\ Listed(c, n)
    /\ checking' = IF n = 0 THEN checking ELSE checking \cup {[new |-> c, phone |-> n]}

\* Customers of a device or a file, whose phones are not looked up.
BringCustomer(c, n) == Listed(c, n) /\ UNCHANGED checking

\* The places in the list of the live customers with a phone, save one of them.
OthersWith(c, n) == {i \in DOMAIN added : added[i] # c /\ added[i] \notin merged /\ phone[added[i]] = n}

\* Wrong: the newest of them is taken for the double.
Newest(places) == added[CHOOSE i \in places : \A j \in places : j <= i]

Oldest(places) == added[CHOOSE i \in places : \A j \in places : i <= j]

IsOlder(c, d) == \E i, j \in DOMAIN added : i < j /\ added[i] = c /\ added[j] = d

\* POST /customers, after the transaction: the oldest live customer with the phone ...
FindDuplicate(q) ==
    LET same == OthersWith(q.new, q.phone)
        keep == Oldest(same)
    IN  /\ q \in checking
        /\ checking' = checking \ {q}
        /\ IF same = {} THEN UNCHANGED <<noted, crossed>>
           ELSE /\ noted' = noted \cup {[new |-> q.new, keep |-> keep, phone |-> q.phone]}
                /\ crossed' = IF IsOlder(q.new, keep) THEN crossed \cup {q.phone} ELSE crossed
        /\ UNCHANGED <<vars, sale, entry, expense, cash, opening, added, phone, merged, toReview, cameLate>>

\* ... is put before the owner as its double.
RecordDuplicate(p) ==
    /\ p \in noted
    /\ noted' = noted \ {p} /\ toReview' = toReview \cup {p}
    /\ UNCHANGED <<vars, sale, entry, expense, cash, opening, added, phone, merged, checking, crossed, cameLate>>

\* PATCH /customers/:id, an import or a clash decided for the device.
ChangePhone(c, n) ==
    /\ c \in ToSet(added) /\ phone[c] # n
    /\ phone' = [phone EXCEPT ![c] = n]
    /\ crossed' = crossed \cup {phone[c], n}
    /\ UNCHANGED <<vars, sale, entry, expense, cash, opening, added, merged, checking, noted, toReview, cameLate>>

\* An offline edit of an archived customer, who is restored with it.
RestoreCustomer(c, n) ==
    /\ c \in merged
    /\ merged' = merged \ {c}
    /\ phone' = [phone EXCEPT ![c] = n]
    /\ crossed' = crossed \cup {phone[c], n}
    /\ UNCHANGED <<vars, sale, entry, expense, cash, opening, added, checking, noted, toReview, cameLate>>

\* POST /conflicts/:id/resolve: that the double is open is read before the transaction.
BeginResolve(r, p, choice) ==
    /\ p \in toReview
    /\ Begin(r, [op |-> "resolve", pair |-> p, choice |-> choice])
    /\ UNCHANGED bookVars

Decided(r, choice) ==
    /\ req[r].op = "resolve" /\ req[r].choice = choice
    /\ toReview' = toReview \ {req[r].pair}
    /\ req' = [req EXCEPT ![r] = Idle]
    /\ UNCHANGED <<bill, ret, stock, rows, archived, day, moved, sold, overtaken, short>>
    /\ UNCHANGED <<expense, cash, opening, added, phone, checking, noted, crossed, cameLate>>

\* Wrong: the udhaar stays behind.
OnlySalesMoved(c, keep) ==
    /\ sale' = [o \in Sales |-> IF sale[o].status # "none" /\ sale[o].customer = c
                                THEN [sale[o] EXCEPT !.customer = keep] ELSE sale[o]]
    /\ UNCHANGED entry

\* The newer customer's bills and udhaar move to the older one.
MovedTo(c, keep) ==
    /\ sale' = [o \in Sales |-> IF sale[o].status # "none" /\ sale[o].customer = c
                                THEN [sale[o] EXCEPT !.customer = keep] ELSE sale[o]]
    /\ entry' = [e \in Entries |-> IF entry[e].status # "none" /\ EntryOf[e].table = "customer" /\ entry[e].party = c
                                   THEN [entry[e] EXCEPT !.party = keep] ELSE entry[e]]

\* POST /conflicts/:id/resolve: the transaction; merge, or keep both.
MergeCustomers(r) ==
    /\ Decided(r, "merge")
    /\ MovedTo(req[r].pair.new, req[r].pair.keep)
    /\ merged' = merged \cup {req[r].pair.new}

KeepBothCustomers(r) == Decided(r, "keep_both") /\ UNCHANGED <<sale, entry, merged>>

\* POST /expenses
AddExpense(x, d) ==
    /\ expense[x].status = "none"
    /\ expense' = [expense EXCEPT ![x] = [status |-> "live", at |-> NoLater(d), kind |-> ExpenseOf[x].kind, amount |-> ExpenseOf[x].amount]]
    /\ UNCHANGED <<vars, sale, entry, cash, opening, customerVars>>

\* PATCH /expenses/:id
ChangeExpense(x, d, kind, amount) ==
    /\ expense[x].status = "live"
    /\ expense' = [expense EXCEPT ![x] = [@ EXCEPT !.at = NoLater(d), !.kind = kind, !.amount = amount]]
    /\ UNCHANGED <<vars, sale, entry, cash, opening, customerVars>>

\* DELETE /expenses/:id
DeleteExpense(x) ==
    /\ expense[x].status = "live"
    /\ expense' = [expense EXCEPT ![x].status = "deleted"]
    /\ UNCHANGED <<vars, sale, entry, cash, opening, customerVars>>

\* POST /cash-book/entries
AddCashEntry(c, d) ==
    /\ cash[c].status = "none"
    /\ cash' = [cash EXCEPT ![c] = [status |-> "live", at |-> NoLater(d)]]
    /\ UNCHANGED <<vars, sale, entry, expense, opening, customerVars>>

\* DELETE /cash-book/entries/:id
DeleteCashEntry(c) ==
    /\ cash[c].status = "live"
    /\ cash' = [cash EXCEPT ![c].status = "deleted"]
    /\ UNCHANGED <<vars, sale, entry, expense, opening, customerVars>>

\* PUT /cash-book/opening
SetOpening(d, amount) ==
    /\ opening' = [day |-> d, amount |-> amount]
    /\ UNCHANGED <<vars, sale, entry, expense, cash, customerVars>>

\* DELETE /suppliers/:id: the balance is read before the supplier is archived.
BeginRemoveSupplier(r, s) ==
    /\ s \notin archived
    /\ SupplierBalance(s) = 0
    /\ Begin(r, [op |-> "remove", supplier |-> s])
    /\ UNCHANGED bookVars

CommitRemoveSupplier(r) ==
    /\ req[r].op = "remove"
    /\ archived' = archived \cup {req[r].supplier}
    /\ req' = [req EXCEPT ![r] = Idle]
    /\ UNCHANGED <<bill, ret, stock, rows, day, moved, sold, overtaken, short, bookVars>>

AccountNext ==
    \/ \E o \in Sales : SaveSale(o) \/ CancelSale(o) \/ \E kind \in {"CASH", "CREDIT"} : NoteSale(o, kind)
    \/ \E e \in Entries, d \in 1..MaxDay : CustomerPayment(e, d) \/ CustomerOpening(e, d)
    \/ \E e \in Entries : VoidCustomerEntry(e)

CustomerNext ==
    \/ \E c \in Customers, n \in Phones \cup {0} :
          AddCustomer(c, n) \/ BringCustomer(c, n) \/ ChangePhone(c, n) \/ RestoreCustomer(c, n)
    \/ \E q \in checking : FindDuplicate(q)
    \/ \E p \in noted : RecordDuplicate(p)

ResolveDuplicate(r) ==
    \/ \E p \in toReview, choice \in {"merge", "keep_both"} : BeginResolve(r, p, choice)
    \/ MergeCustomers(r) \/ KeepBothCustomers(r)

RemoveSupplier(r) == CommitRemoveSupplier(r) \/ \E s \in Suppliers : BeginRemoveSupplier(r, s)

SupplierNext ==
    \/ \E e \in Entries, d \in 1..MaxDay : SupplierPayment(e, d) \/ SupplierOpening(e, d)
    \/ \E e \in Entries : VoidSupplierEntry(e)

DrawerNext ==
    \/ \E x \in Expenses, d \in 1..MaxDay : AddExpense(x, d)
    \/ \E x \in Expenses, d \in 1..MaxDay, kind \in Kinds, amount \in 1..2 : ChangeExpense(x, d, kind, amount)
    \/ \E x \in Expenses : DeleteExpense(x)
    \/ \E c \in CashEntries, d \in 1..MaxDay : AddCashEntry(c, d)
    \/ \E c \in CashEntries : DeleteCashEntry(c)
    \/ \E d \in 1..MaxDay, amount \in 0..1 : SetOpening(d, amount)

BooksNext ==
    \/ AccountNext
    \/ CustomerNext
    \/ SupplierNext
    \/ DrawerNext
    \/ \E r \in Requests : RemoveSupplier(r) \/ ResolveDuplicate(r)
    \/ Next /\ UNCHANGED bookVars

BooksSpec == BooksInit /\ [][BooksNext]_<<vars, bookVars>>

----------------------------------------------------------------------------
BooksTypeOK ==
    /\ TypeOK
    /\ sale \in [Sales -> [status : {"none", "COMPLETED", "CANCELLED"}, customer : Customers, at : 0..MaxDay,
                           refund : {"none", "CASH", "CREDIT"}, refundAt : 0..MaxDay]]
    /\ entry \in [Entries -> [status : {"none", "live", "void"}, party : Customers \cup Suppliers, at : 0..MaxDay]]
    /\ expense \in [Expenses -> [status : {"none", "live", "deleted"}, at : 0..day, kind : Kinds, amount : Nat]]
    /\ cash \in [CashEntries -> [status : {"none", "live", "deleted"}, at : 0..day]]
    /\ opening \in [day : 0..MaxDay, amount : Nat]
    /\ ToSet(added) \subseteq Customers /\ merged \subseteq Customers
    /\ phone \in [Customers -> Phones \cup {0}] /\ crossed \subseteq Phones \cup {0}
    /\ checking \subseteq [new : Customers, phone : Phones]
    /\ noted \cup toReview \subseteq [new : Customers, keep : Customers, phone : Phones]
    /\ cameLate \subseteq ({"sale"} \X Sales) \cup ({"entry"} \X Entries)

\* A statement agrees with the balance of the lists, its dues are paid oldest
\* first, and what is open is aged into one bucket each.
AgreesWith(statement, balance) ==
    /\ statement.balance = balance
    /\ statement.open - statement.advance = balance
    /\ statement.open = 0 \/ statement.advance = 0
    /\ \A d, e \in statement.dues : (e.paid > 0 /\ d.at < e.at) => d.paid = d.amount
    /\ LET aged == Aged(OpenItems(statement), day)
       IN  Amount(LAMBDA k : aged[k], 0..4) = statement.open

\* A day closes at the same balance whichever days are asked for with it.
DrawerCloses ==
    LET moves == CashMoves({"CASH"})
        alone == [d \in 1..MaxDay |-> CashBook(opening, moves, d, d)[d]]
    IN  \A from \in 1..MaxDay : \A to \in (from + 1)..MaxDay :
            LET book == CashBook(opening, moves, from, to)
            IN  \A d \in from..to : book[d] = alone[d]

\* Money in hand, and what is owed to the shop less what it owes, is what
\* was sold, bought, spent, carried over and put in by hand.
DoubleEntry ==
    LET balances == Amount(CustomerBalance, Customers) - Amount(SupplierBalance, Suppliers)
        saleOf(o) == SaleOf[o].credit + SaleOf[o].cash
        carried(e) == IF EntryOf[e].table = "customer" THEN EntryOf[e].amount ELSE -EntryOf[e].amount
        byHand(c) == IF CashOf[c].type = "IN" THEN CashOf[c].amount ELSE -CashOf[c].amount
    IN  Amount(LAMBDA m : m.amount, CashMoves(Kinds)) + balances =
          Amount(saleOf, {o \in Sales : sale[o].status = "COMPLETED"})
          - Cardinality({o \in Sales : sale[o].refund # "none"})
          + Amount(carried, {e \in Entries : entry[e].status = "live" /\ EntryOf[e].type = "OPENING"})
          - Amount(LAMBDA x : expense[x].amount, {x \in Expenses : expense[x].status = "live"})
          - Amount(Qty, {b \in Bills : Live(b)})
          + UnitsOf({x \in Returns : ret[x].status = "SETTLED" /\ Live(ret[x].bill)})
          + Amount(byHand, {c \in CashEntries : cash[c].status = "live"})

\* The doubles on their way to the owner, before the owner and being decided.
Doubles == noted \cup toReview \cup {req[r].pair : r \in {r \in Requests : req[r].op = "resolve"}}

\* The customer a merge keeps is not merged away itself, unless the phone was
\* changed, brought back, or given to two customers at once.
KeptCustomersStay == \A p \in Doubles : p.phone \in crossed \/ p.keep \notin merged

\* Of a customer merged away nothing stays behind but rows that came later,
\* with the same exception: then a merge may move rows to one merged away.
LeftBehind(table, id, c) == c \in merged /\ <<table, id>> \notin cameLate /\ phone[c] \notin crossed

NothingLeftBehind ==
    /\ \A o \in Sales : sale[o].status # "none" => ~LeftBehind("sale", o, sale[o].customer)
    /\ \A e \in Entries :
          entry[e].status # "none" /\ EntryOf[e].table = "customer" => ~LeftBehind("entry", e, entry[e].party)

\* The lists, the statements, the aging reports and the cash book, each read
\* by a query of its own, tell one story, also when customers are merged.
BooksBalance ==
    /\ \A c \in Customers : AgreesWith(CustomerStatement(c), CustomerBalance(c))
    /\ \A s \in Suppliers : AgreesWith(SupplierStatement(s), SupplierBalance(s))
    /\ DrawerCloses
    /\ DoubleEntry
    /\ KeptCustomersStay /\ NothingLeftBehind
=============================================================================
