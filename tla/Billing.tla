------------------------------ MODULE Billing ------------------------------
(***************************************************************************)
(* The bills of one branch: POST /orders, POST /sync/orders, POST          *)
(* /orders/:id/cancel and POST /orders/:id/returns, with the stock, the    *)
(* invoice counters and the credit notes they move.                        *)
(*                                                                         *)
(* A request is handled in two steps, the way the handlers are written:    *)
(* reads and checks made outside the database transaction (Begin...), then *)
(* the transaction (Commit...).  Any other request may run in between.     *)
(* The transaction is one step: its first write locks the counter row (a   *)
(* new bill) or the bill row (a cancel or a return), and its stock writes  *)
(* lock the product's row of the branch until it commits.                  *)
(*                                                                         *)
(* Lines of a bill that sell the same product are one quantity here, every *)
(* product has stock tracking on, and all bills fall in one month.         *)
(***************************************************************************)
EXTENDS Integers, FiniteSets, Functions

CONSTANTS
    Orders,         \* bill ids, made by the device
    Counters,       \* the branch's counters (tills)
    Products,
    Requests,       \* how many requests the server handles at a time
    Ops,            \* the operations the users of this instance perform
    Bills,          \* the assignments of a body to each bill id, see BillBody
    Worth,          \* Worth[sold][back]: what returning back of sold pays out
    InitStock,
    MaxQty,         \* bound: units of one product on a bill
    MaxOrders,      \* the plan's maxOrdersPerMonth
    AllowNegative   \* the account's allowNegativeStock

Operation == {"create", "sync", "cancel", "return"}
Quantities == [Products -> 0..MaxQty]

(***************************************************************************)
(* What a device sends for a bill.  seq = 0 is a bill without an           *)
(* invoiceNumber: an older client, numbered by the server.                 *)
(***************************************************************************)
BillBody == [counter : Counters, seq : Nat, qty : Quantities]

ASSUME FiniteAssumption == IsFiniteSet(Orders) /\ IsFiniteSet(Requests)

ASSUME ConstantTypes ==
    /\ Ops \subseteq Operation
    /\ Bills \subseteq [Orders -> BillBody]
    /\ InitStock \in [Products -> Int]
    /\ MaxQty \in Nat \ {0} /\ MaxOrders \in Nat
    /\ AllowNegative \in BOOLEAN
    /\ Worth \in [Quantities -> [Quantities -> Nat]]

(***************************************************************************)
(* Amounts are worked out line by line on the cumulative quantity returned *)
(* (returnAmounts), so what a return pays depends only on the lines in it. *)
(***************************************************************************)
ASSUME WorthByLine ==
    \A sold \in Quantities :
        /\ Worth[sold][[p \in Products |-> 0]] = 0
        /\ \A a, b, c, d \in Quantities :
              /\ \A p \in Products : c[p] - a[p] = d[p] - b[p]
              /\ \A p \in Products : c[p] # a[p] => a[p] = b[p]
              => Worth[sold][c] - Worth[sold][a] = Worth[sold][d] - Worth[sold][b]

VARIABLES
    bill,                 \* the body behind each bill id; never changes
    status,               \* "none" until the bill is in the database
    invoiceNumber,        \* 0 until then
    returnedQty,          \* returnedQtyMilli of each item
    returnedTotal,
    nextInvoiceNumber,    \* per counter
    nextCreditNoteNumber, \* per counter
    creditNotes,
    stock,                \* the branch's stockMilli of each product
    req                   \* the request each worker has in hand

orderVars == <<status, invoiceNumber, returnedQty, returnedTotal>>
counterVars == <<nextInvoiceNumber, nextCreditNoteNumber>>
vars == <<bill, orderVars, counterVars, creditNotes, stock, req>>

Idle == [op |-> "idle"]
Nothing == [p \in Products |-> 0]

Request ==
    {Idle}
    \cup [op : {"create", "sync", "cancel"}, order : Orders]
    \cup [op : {"return"}, order : Orders, qty : Quantities, seen : Quantities]

CreditNote ==
    [order : Orders, counter : Counters, number : Nat, qty : Quantities, total : Int]

TypeOK ==
    /\ bill \in [Orders -> BillBody]
    /\ status \in [Orders -> {"none", "COMPLETED", "CANCELLED"}]
    /\ invoiceNumber \in [Orders -> Nat]
    /\ returnedQty \in [Orders -> Quantities]
    /\ returnedTotal \in [Orders -> Int]
    /\ nextInvoiceNumber \in [Counters -> Nat]
    /\ nextCreditNoteNumber \in [Counters -> Nat]
    /\ creditNotes \subseteq CreditNote
    /\ stock \in [Products -> Int]
    /\ req \in [Requests -> Request]

Init ==
    /\ bill \in Bills
    /\ status = [o \in Orders |-> "none"]
    /\ invoiceNumber = [o \in Orders |-> 0]
    /\ returnedQty = [o \in Orders |-> Nothing]
    /\ returnedTotal = [o \in Orders |-> 0]
    /\ nextInvoiceNumber = [c \in Counters |-> 1]
    /\ nextCreditNoteNumber = [c \in Counters |-> 1]
    /\ creditNotes = {}
    /\ stock = InitStock
    /\ req = [r \in Requests |-> Idle]

----------------------------------------------------------------------------
Saved == {o \in Orders : status[o] # "none"}
Handling(r, op) == req[r].op = op
Take(r, request) == req[r] = Idle /\ req' = [req EXCEPT ![r] = request]
Close(r) == req' = [req EXCEPT ![r] = Idle]

\* The request is answered and nothing was written (the transaction rolled back).
CloseUnchanged(r) ==
    Close(r) /\ UNCHANGED <<bill, orderVars, counterVars, creditNotes, stock>>

\* moveStock: add or take each product's quantity at the branch.
AddStock(qty) == stock' = [p \in Products |-> stock[p] + qty[p]]
TakeStock(qty) == stock' = [p \in Products |-> stock[p] - qty[p]]

----------------------------------------------------------------------------
(***************************************************************************)
(* Saving a bill, online and by sync.                                      *)
(***************************************************************************)

\* The number this transaction would give the bill.
NumberFor(o) ==
    IF bill[o].seq = 0 THEN nextInvoiceNumber[bill[o].counter] ELSE bill[o].seq

\* Wrong: without GREATEST; and: the server's own number is not counted.
NextAfterLast(o) == NumberFor(o) + 1
NextAfterStuck(o) ==
    LET next == nextInvoiceNumber[bill[o].counter]
    IN  IF bill[o].seq >= next THEN bill[o].seq + 1 ELSE next

\* GREATEST(next, seq + 1) for a number that came with the bill, else next + 1.
NextAfter(o) ==
    LET next == nextInvoiceNumber[bill[o].counter]
    IN  IF NumberFor(o) >= next THEN NumberFor(o) + 1 ELSE next

NumberTaken(o) ==
    \E s \in Saved : /\ bill[s].counter = bill[o].counter
                     /\ invoiceNumber[s] = NumberFor(o)

\* Wrong: off by one, a bill may take one unit more than is left.
OutOfStockBelow(o) == \E p \in Products : bill[o].qty[p] > 0 /\ stock[p] + 1 < bill[o].qty[p]

OutOfStock(o) == \E p \in Products : bill[o].qty[p] > 0 /\ stock[p] < bill[o].qty[p]

\* Only online billing stops at zero; a synced sale has already happened.
Blocked(r) == Handling(r, "create") /\ ~AllowNegative /\ OutOfStock(req[r].order)

\* Wrong: off by one.
UnderPlanLimitOrAt == Cardinality(Saved) <= MaxOrders

UnderPlanLimit == Cardinality(Saved) < MaxOrders

(***************************************************************************)
(* POST /orders up to its transaction: the bill is not there yet and the   *)
(* month's count is under the plan's limit.                                *)
(***************************************************************************)
BeginCreate(r, o) ==
    /\ "create" \in Ops
    /\ status[o] = "none"
    /\ UnderPlanLimit
    /\ Take(r, [op |-> "create", order |-> o])
    /\ UNCHANGED <<bill, orderVars, counterVars, creditNotes, stock>>

\* One bill of POST /sync/orders up to its transaction; it brings its number.
BeginSync(r, o) ==
    /\ "sync" \in Ops
    /\ status[o] = "none"
    /\ bill[o].seq # 0
    /\ Take(r, [op |-> "sync", order |-> o])
    /\ UNCHANGED <<bill, orderVars, counterVars, creditNotes, stock>>

\* A bill that is already saved is answered "replayed" or "duplicate".
Replay(o) ==
    /\ Ops \cap {"create", "sync"} # {}
    /\ status[o] # "none"
    /\ UNCHANGED vars

\* The transaction of both: number, order, stock.
CommitCreate(r) ==
    /\ req[r].op \in {"create", "sync"}
    /\ LET o == req[r].order
       IN  /\ ~Blocked(r)
           /\ status[o] = "none"
           /\ ~NumberTaken(o)
           /\ status' = [status EXCEPT ![o] = "COMPLETED"]
           /\ invoiceNumber' = [invoiceNumber EXCEPT ![o] = NumberFor(o)]
           /\ nextInvoiceNumber' =
                 [nextInvoiceNumber EXCEPT ![bill[o].counter] = NextAfter(o)]
           /\ TakeStock(bill[o].qty)
    /\ Close(r)
    /\ UNCHANGED <<bill, returnedQty, returnedTotal, nextCreditNoteNumber, creditNotes>>

\* 409 out_of_stock: checked before the order row is inserted.
RefuseOutOfStock(r) == Blocked(r) /\ CloseUnchanged(r)

(***************************************************************************)
(* The insert hits the primary key: the bill was saved meanwhile.  Online  *)
(* answers "replayed", sync answers "retry".                               *)
(***************************************************************************)
SavedMeanwhile(r) ==
    /\ req[r].op \in {"create", "sync"}
    /\ ~Blocked(r)
    /\ status[req[r].order] # "none"
    /\ CloseUnchanged(r)

\* The insert hits the unique invoice number: 409 online, "rejected" by sync.
RefuseNumberUsed(r) ==
    /\ req[r].op \in {"create", "sync"}
    /\ ~Blocked(r)
    /\ status[req[r].order] = "none"
    /\ NumberTaken(req[r].order)
    /\ CloseUnchanged(r)

----------------------------------------------------------------------------
(***************************************************************************)
(* Cancelling a bill.                                                      *)
(***************************************************************************)

\* Wrong: the check is forgotten.
NothingPaidBackSkipped(o) == status[o] # "none"

NothingPaidBack(o) == returnedTotal[o] = 0

\* Wrong: the transaction trusts the status read before it.
StillCancellableAsRead(o) == status[o] # "none"

\* The guard of the updateMany: the status again, not what was returned.
StillCancellable(o) == status[o] = "COMPLETED"

BeginCancel(r, o) ==
    /\ "cancel" \in Ops
    /\ status[o] = "COMPLETED"
    /\ NothingPaidBack(o)
    /\ Take(r, [op |-> "cancel", order |-> o])
    /\ UNCHANGED <<bill, orderVars, counterVars, creditNotes, stock>>

CommitCancel(r) ==
    /\ Handling(r, "cancel")
    /\ LET o == req[r].order
       IN  /\ StillCancellable(o)
           /\ status' = [status EXCEPT ![o] = "CANCELLED"]
           /\ AddStock(bill[o].qty)
    /\ Close(r)
    /\ UNCHANGED <<bill, invoiceNumber, returnedQty, returnedTotal, counterVars, creditNotes>>

\* 409 already_cancelled, from the transaction.
RefuseCancelled(r) ==
    /\ Handling(r, "cancel")
    /\ ~StillCancellable(req[r].order)
    /\ CloseUnchanged(r)

----------------------------------------------------------------------------
(***************************************************************************)
(* Returning items of a bill.  seen is the bill as the handler read it.    *)
(***************************************************************************)

Returnable(o, qty) ==
    \A p \in Products : qty[p] <= bill[o].qty[p] - returnedQty[o][p]

BeginReturn(r, o, qty) ==
    /\ "return" \in Ops
    /\ status[o] = "COMPLETED"
    /\ qty # Nothing
    /\ Returnable(o, qty)
    /\ Take(r, [op |-> "return", order |-> o, qty |-> qty, seen |-> returnedQty[o]])
    /\ UNCHANGED <<bill, orderVars, counterVars, creditNotes, stock>>

\* Wrong: the item is updated by its id alone.
ChangedUnchecked(r) == FALSE

\* Some returned item moved since it was read (the guarded updateMany).
Changed(r) ==
    \E p \in Products : /\ req[r].qty[p] > 0
                        /\ returnedQty[req[r].order][p] # req[r].seen[p]

Plus(a, b) == [p \in Products |-> a[p] + b[p]]

\* Wrong: each return is rounded by itself; and: the items of the bill as it
\* was read are written back.
PayoutAlone(sold, before, qty) == Worth[sold][qty]
ItemsAfterAsRead(r) == Plus(req[r].seen, req[r].qty)

Payout(sold, before, qty) == Worth[sold][Plus(before, qty)] - Worth[sold][before]

\* returnedQtyMilli of the items is incremented.
ItemsAfter(r) == Plus(returnedQty[req[r].order], req[r].qty)

CommitReturn(r, c) ==
    /\ Handling(r, "return")
    /\ ~Changed(r)
    /\ LET o == req[r].order
           qty == req[r].qty
           total == Payout(bill[o].qty, req[r].seen, qty)
       IN  /\ returnedTotal' = [returnedTotal EXCEPT ![o] = @ + total]
           /\ returnedQty' = [returnedQty EXCEPT ![o] = ItemsAfter(r)]
           /\ creditNotes' = creditNotes \cup
                 {[order |-> o, counter |-> c, number |-> nextCreditNoteNumber[c],
                   qty |-> qty, total |-> total]}
           /\ nextCreditNoteNumber' = [nextCreditNoteNumber EXCEPT ![c] = @ + 1]
           /\ AddStock(qty)
    /\ Close(r)
    /\ UNCHANGED <<bill, status, invoiceNumber, nextInvoiceNumber>>

\* 409 changed.
RefuseChanged(r) == Handling(r, "return") /\ Changed(r) /\ CloseUnchanged(r)

----------------------------------------------------------------------------
\* The request dies before its transaction commits: an error, a lost
\* connection to the database, a restart of the server.
Fail(r) == req[r] # Idle /\ CloseUnchanged(r)

Next ==
    \/ \E o \in Orders : Replay(o)
    \/ \E r \in Requests :
          \/ \E o \in Orders : BeginCreate(r, o)
          \/ \E o \in Orders : BeginSync(r, o)
          \/ CommitCreate(r)
          \/ RefuseOutOfStock(r)
          \/ SavedMeanwhile(r)
          \/ RefuseNumberUsed(r)
          \/ \E o \in Orders : BeginCancel(r, o)
          \/ CommitCancel(r)
          \/ RefuseCancelled(r)
          \/ \E o \in Orders, qty \in Quantities : BeginReturn(r, o, qty)
          \/ \E c \in Counters : CommitReturn(r, c)
          \/ RefuseChanged(r)
          \/ Fail(r)

Spec == Init /\ [][Next]_vars

----------------------------------------------------------------------------
(***************************************************************************)
(* Properties.                                                             *)
(***************************************************************************)

\* The numbers of a counter's bills are all different, and the number the
\* counter gives next is ahead of every one of them, whichever of them came
\* with the bill, were given by the server, or arrived late and out of order.
InvoiceSeries ==
    \A o \in Saved :
        /\ invoiceNumber[o] < nextInvoiceNumber[bill[o].counter]
        /\ \A s \in Saved :
              /\ bill[s].counter = bill[o].counter
              /\ invoiceNumber[s] = invoiceNumber[o]
              => s = o

\* A bill is never refused for its number ("already used") on counters whose
\* bills all bring distinct numbers or are all numbered by the server.
NumbersNeverClash == [][\A r \in Requests : ~RefuseNumberUsed(r)]_vars

\* No item is returned more often than it was sold, also when two managers
\* return items of the same bill at the same time.
ReturnedWithinSold ==
    \A o \in Orders, p \in Products : returnedQty[o][p] <= bill[o].qty[p]

\* What a bill has paid back is what its returned items are worth, however
\* many returns, of whichever items, in whichever order, they came in.
RefundsMatchReturns ==
    \A o \in Orders : returnedTotal[o] = Worth[bill[o].qty][returnedQty[o]]

\* The credit notes account for every returned item and every rupee paid
\* back, and no two notes of a counter have the same number.
NotesExplainReturns ==
    /\ \A m, n \in creditNotes :
          m.counter = n.counter /\ m.number = n.number => m = n
    /\ \A o \in Orders :
          LET notes == {n \in creditNotes : n.order = o}
          IN  /\ returnedTotal[o] = SumFunction([n \in notes |-> n.total])
              /\ \A p \in Products :
                    returnedQty[o][p] = SumFunction([n \in notes |-> n.qty[p]])

\* What is left with the customer of a bill.
Outstanding(o, p) ==
    IF status[o] = "COMPLETED" THEN bill[o].qty[p] - returnedQty[o][p] ELSE 0

\* The branch's stock is the opening stock less what the customers of live
\* bills keep: every sale, cancel and return moved it exactly once.
StockMatchesBills ==
    \A p \in Products :
        stock[p] = InitStock[p] - SumFunction([o \in Orders |-> Outstanding(o, p)])

\* Online bills alone never take stock below zero when the account forbids it,
\* however many of them race for the last units.
NeverOversold ==
    "sync" \notin Ops /\ ~AllowNegative =>
        \A p \in Products : InitStock[p] >= 0 => stock[p] >= 0

\* The month's limit is counted before the transaction, so concurrent bills
\* can pass it, by fewer bills than there are requests in hand.
PlanOvershootBounded ==
    "sync" \notin Ops =>
        Cardinality(Saved) <= IF MaxOrders = 0 THEN 0
                              ELSE MaxOrders + Cardinality(Requests) - 1

\* A cancelled bill has no returns: "Items on this bill were returned. Return
\* the rest instead of cancelling." and "This bill is cancelled."
CancelledHasNoReturns ==
    \A o \in Orders : status[o] = "CANCELLED" => returnedQty[o] = Nothing

(***************************************************************************)
(* The bills keep the ledger's promise, seen through what is committed: a  *)
(* sale, a return and a cancel each happen to a bill the way Ledger says.  *)
(***************************************************************************)
Book == INSTANCE Ledger WITH
    live <- {o \in Orders : status[o] = "COMPLETED"},
    void <- {o \in Orders : status[o] = "CANCELLED"},
    sold <- [o \in Orders |-> IF status[o] = "none" THEN Nothing ELSE bill[o].qty],
    back <- returnedQty

\* Every step of the requests is a step of the ledger or changes nothing in it.
KeepsLedger == Book!Spec
=============================================================================
