----------------------------- MODULE Purchases -----------------------------
(***************************************************************************)
(* Supplier bills of one product in one branch with stock and batch        *)
(* tracking on (routes/purchases.ts): goods in, goods back for a credit    *)
(* note or a replacement, cancellation.  A handler reads the bill with no  *)
(* lock and writes in a transaction of its own that does not read it       *)
(* again: it is a step that reads, keeping what it saw, and a step that    *)
(* commits.  Every transaction that moves stock first updates the one      *)
(* stock row, so commits do not overlap.  A unit costs 1.                  *)
(***************************************************************************)
EXTENDS Batches

CONSTANTS
    Requests,       \* handlers that run at a time
    Bills, Returns, \* their ids, chosen by the client
    Imported,       \* bills that came with an import: they moved no stock
    BillOf,         \* the bill entered under an id
    ReturnOf,       \* the quantity and mode of the return entered under an id
    Suppliers,
    MaxDay,         \* bound on the days that pass
    MaxSold         \* bound on the units sold, brought in or not

ASSUME PurchasesAssumption ==
    /\ IsFiniteSet(Bills) /\ IsFiniteSet(Returns) /\ Imported \subseteq Bills
    /\ \A b \in Bills : BillOf[b].qty \in Nat \ {0} /\ BillOf[b].expiry \in 1..Never
    /\ \A x \in Returns : ReturnOf[x].qty \in Nat \ {0}
    /\ Never \in Nat \ {0} /\ MaxDay \in Nat \ {0}

VARIABLES
    bill,       \* bill -> what is stored of it
    ret,        \* return -> what is stored of it
    stock,      \* the stock number
    rows,       \* its batches, oldest first
    archived,   \* suppliers removed from the book
    day,        \* today
    req,        \* request -> the handler in progress
    moved,      \* bill -> units its movements brought in, net (the stock log)
    sold,       \* units sold
    overtaken,  \* bills written by a handler whose reading was out of date
    short       \* goods came in while stock was below zero and the batches were not reconciled since

vars == <<bill, ret, stock, rows, archived, day, req, moved, sold, overtaken, short>>

Idle == [op |-> "idle"]
NoBill == [status |-> "none", returned |-> 0, batch |-> 0, day |-> 0]
NoReturn == [status |-> "none", bill |-> 0, qty |-> 0, day |-> 0]

Live(b) == bill[b].status = "live"
Qty(b) == BillOf[b].qty
ReturnsOf(b) == {x \in Returns : ret[x].status # "none" /\ ret[x].bill = b}

\* Another live bill of the supplier has the number.
Duplicate(b) ==
    \E c \in Bills : /\ Live(c) /\ BillOf[c].supplier = BillOf[b].supplier
                     /\ BillOf[c].number = BillOf[b].number

\* What a handler reads before its transaction.
Reads(op, b, x) ==
    CASE op = "create" -> <<BillOf[b].supplier \in archived, Duplicate(b)>>
      [] op \in {"cancel", "return"} -> <<bill[b]>>
      [] op = "receive" -> <<ret[x]>>

Asked(op, b, x) == [op |-> op, bill |-> b, ret |-> x, saw |-> Reads(op, b, x)]

Begin(r, asked) ==
    /\ req[r] = Idle
    /\ req' = [req EXCEPT ![r] = asked]
    /\ UNCHANGED <<bill, ret, stock, rows, archived, day, moved, sold, overtaken, short>>

\* The transaction of r is done; its bill was overtaken if what r read changed.
Finish(r) ==
    LET w == req[r]
    IN  /\ req' = [req EXCEPT ![r] = Idle]
        /\ overtaken' = IF w.saw = Reads(w.op, w.bill, w.ret) THEN overtaken
                        ELSE overtaken \cup {w.bill}
        /\ UNCHANGED <<archived, day, sold>>

\* A batch and its units come in; reconcileBatches is not called.
BringIn(b, q) ==
    /\ stock' = stock + q
    /\ rows' = Append(rows, [qty |-> q, expiry |-> BillOf[b].expiry, opening |-> FALSE])
    /\ moved' = [moved EXCEPT ![b] = @ + q]
    /\ short' = (short \/ stock < 0)

\* takeOut: units out, of the bill's own batch first, then batches equal to stock.
TakeOut(b, q) ==
    LET own == bill[b].batch
        first == [rows EXCEPT ![own].qty = @ - Least(Most(0, @), q)]
    IN  IF b \in Imported THEN UNCHANGED <<stock, rows, moved, short>>
        ELSE /\ stock' = stock - q
             /\ rows' = Reconcile(first, stock - q)
             /\ moved' = [moved EXCEPT ![b] = @ - q]
             /\ short' = FALSE

----------------------------------------------------------------------------
Init ==
    /\ bill = [b \in Bills |-> IF b \in Imported THEN [NoBill EXCEPT !.status = "live", !.day = 1] ELSE NoBill]
    /\ ret = [x \in Returns |-> NoReturn]
    /\ stock = 0
    /\ rows = <<>>
    /\ archived = {}
    /\ day = 1
    /\ req = [r \in Requests |-> Idle]
    /\ moved = [b \in Bills |-> 0]
    /\ sold = 0
    /\ overtaken = {}
    /\ short = FALSE

\* POST /purchases.  The same id again is answered with the bill it made.
BeginCreate(r, b) ==
    /\ bill[b].status = "none"
    /\ BillOf[b].supplier \notin archived
    /\ ~Duplicate(b)
    /\ Begin(r, Asked("create", b, 0))

CommitCreate(r) ==
    LET b == req[r].bill
    IN  /\ req[r].op = "create"
        /\ bill[b].status = "none"
        /\ bill' = [bill EXCEPT ![b] = [NoBill EXCEPT !.status = "live", !.batch = Len(rows) + 1, !.day = day]]
        /\ BringIn(b, Qty(b))
        /\ Finish(r)
        /\ UNCHANGED ret

\* Wrong: a bill with returns is cancelled as well.
MayCancelAny(b) == Live(b)

MayCancel(b) == Live(b) /\ ReturnsOf(b) = {}

\* POST /purchases/:id/cancel
BeginCancel(r, b) ==
    /\ MayCancel(b)
    /\ Begin(r, Asked("cancel", b, 0))

CommitCancel(r) ==
    LET b == req[r].bill
    IN  /\ req[r].op = "cancel"
        /\ TakeOut(b, Qty(b))
        /\ bill' = [bill EXCEPT ![b].status = "cancelled"]
        /\ Finish(r)
        /\ UNCHANGED ret

Returnable(b) == Qty(b) - bill[b].returned

\* POST /purchases/:id/returns
BeginReturn(r, b, x) ==
    /\ Live(b) /\ x \notin ReturnsOf(b)
    /\ ReturnOf[x].qty <= Returnable(b)
    /\ Begin(r, Asked("return", b, x))

CommitReturn(r) ==
    LET w == req[r]
        q == ReturnOf[w.ret].qty
    IN  /\ w.op = "return"
        /\ ret[w.ret].status = "none"
        /\ ret' = [ret EXCEPT ![w.ret] =
                      [status |-> IF ReturnOf[w.ret].mode = "CREDIT_NOTE" THEN "SETTLED" ELSE "PENDING",
                       bill |-> w.bill, qty |-> q, day |-> day]]
        /\ bill' = [bill EXCEPT ![w.bill].returned = @ + q]
        /\ TakeOut(w.bill, q)
        /\ Finish(r)

\* The id of the bill or of the return was taken meanwhile: the transaction fails.
IdTaken(r) ==
    LET w == req[r]
    IN  /\ \/ w.op = "create" /\ bill[w.bill].status # "none"
           \/ w.op = "return" /\ ret[w.ret].status # "none"
        /\ req' = [req EXCEPT ![r] = Idle]
        /\ UNCHANGED <<bill, ret, stock, rows, archived, day, moved, sold, overtaken, short>>

\* Wrong: a replacement that came is taken in again.
AwaitedAlways(x) == ret[x].status \in {"PENDING", "RECEIVED"}

Awaited(x) == ret[x].status = "PENDING"

\* POST /purchase-returns/:id/receive
BeginReceive(r, x) ==
    /\ Awaited(x)
    /\ Begin(r, Asked("receive", ret[x].bill, x))

CommitReceive(r) ==
    LET w == req[r]
    IN  /\ w.op = "receive"
        /\ IF w.bill \in Imported THEN UNCHANGED <<stock, rows, moved, short>>
           ELSE BringIn(w.bill, ret[w.ret].qty)
        /\ ret' = [ret EXCEPT ![w.ret].status = "RECEIVED"]
        /\ Finish(r)
        /\ UNCHANGED bill

\* A bill of the shop: units leave the batches, earliest expiry first.
Sell(q) ==
    /\ sold + q <= MaxSold
    /\ stock' = stock - q
    /\ rows' = Out(rows, PlanTake(rows, q, 0).take)
    /\ sold' = sold + q
    /\ UNCHANGED <<bill, ret, archived, day, req, moved, overtaken, short>>

DayPasses ==
    /\ day < MaxDay
    /\ day' = day + 1
    /\ UNCHANGED <<bill, ret, stock, rows, archived, req, moved, sold, overtaken, short>>

Handle(r) ==
    \/ \E b \in Bills : BeginCreate(r, b) \/ BeginCancel(r, b)
    \/ \E b \in Bills, x \in Returns : BeginReturn(r, b, x)
    \/ \E x \in Returns : BeginReceive(r, x)
    \/ CommitCreate(r) \/ CommitCancel(r) \/ CommitReturn(r) \/ CommitReceive(r) \/ IdTaken(r)

Next ==
    \/ \E r \in Requests : Handle(r)
    \/ Sell(1)
    \/ DayPasses

Spec == Init /\ [][Next]_vars

----------------------------------------------------------------------------
TypeOK ==
    /\ bill \in [Bills -> [status : {"none", "live", "cancelled"}, returned : Nat, batch : Nat, day : 0..MaxDay]]
    /\ ret \in [Returns -> [status : {"none", "SETTLED", "PENDING", "RECEIVED"}, bill : Bills \cup {0},
                            qty : Nat, day : 0..MaxDay]]
    /\ stock \in Int /\ sold \in Nat /\ day \in 1..MaxDay
    /\ rows \in Seq(Batch)
    /\ archived \subseteq Suppliers /\ overtaken \subseteq Bills
    /\ moved \in [Bills -> Int] /\ short \in BOOLEAN

UnitsOf(some) == SumFunction([x \in some |-> ret[x].qty])

\* Every unit in stock is one a bill brought and did not take back.
StockIsExplained == stock + sold = SumFunction(moved)

\* What a bill brought in net is its quantity less what is out at the supplier;
\* nothing when it is cancelled, and then nothing of it was returned.
BillMovesItsGoods(b) ==
    LET out == {x \in ReturnsOf(b) : ret[x].status # "RECEIVED"}
    IN  /\ moved[b] = IF Live(b) /\ b \notin Imported THEN Qty(b) - UnitsOf(out) ELSE 0
        /\ bill[b].returned = UnitsOf(ReturnsOf(b)) /\ bill[b].returned <= Qty(b)
        /\ bill[b].status = "cancelled" => ReturnsOf(b) = {}

\* No two live bills of a supplier have one number, save two that were imported.
NumberedApart(some) ==
    \A b, c \in some :
        /\ b # c /\ ~({b, c} \subseteq Imported)
        /\ Live(b) /\ Live(c) /\ BillOf[b].supplier = BillOf[c].supplier
        => BillOf[b].number # BillOf[c].number

\* Unless two handlers overlapped on a bill, its units are exactly those in
\* stock for it, and its number is its own; always, stock is explained, and
\* batches add up to it unless goods came in while more was sold than there was
\* and nothing was reconciled since.
StockMatchesPurchases ==
    /\ StockIsExplained
    /\ \A b \in Bills \ overtaken : BillMovesItsGoods(b)
    /\ NumberedApart(Bills \ overtaken)
    /\ ~short => Total(rows) = Most(0, stock)
=============================================================================
