----------------------------- MODULE Transfers -----------------------------
(***************************************************************************)
(* Stock transfers between branches (routes/transfers.ts): sent, then      *)
(* received, in part sent back or written off, or cancelled; one product,  *)
(* with batch tracking on.                                                 *)
(*                                                                         *)
(* As in Billing a request is its reads and checks (Begin...), then its    *)
(* transaction (Commit...).  The transaction of a send locks the account   *)
(* row, those of a receipt and a cancel the transfer row.  Sales at the    *)
(* branches go on meanwhile.                                               *)
(***************************************************************************)
EXTENDS Batches

CONSTANTS
    Branches,
    Transfers,      \* transfer ids, made by the client
    Requests,       \* how many requests the server handles at a time
    Bodies,         \* the assignments of a body to each transfer id
    InitBatches,    \* the batches of each branch at the start
    MaxQty          \* bound: units of one transfer

Units == 0..MaxQty

(***************************************************************************)
(* What a client sends for a transfer: from where to where, how much, and  *)
(* the batches it picked with how much to take of each.                    *)
(***************************************************************************)
Pick == [batch : Nat \ {0}, qty : Nat \ {0}]
Body == [from : Branches, to : Branches, qty : Units \ {0}, picks : Seq(Pick)]

ASSUME TransfersAssumption ==
    /\ IsFiniteSet(Branches) /\ IsFiniteSet(Transfers)
    /\ MaxQty \in Nat /\ Never \in Nat \ {0}
    /\ InitBatches \in [Branches -> Seq(Batch)]
    /\ \A b \in Branches : \A i \in DOMAIN InitBatches[b] : InitBatches[b][i].qty >= 0
    /\ Bodies \subseteq [Transfers -> Body]
    /\ \A b \in Bodies : \A t \in Transfers : b[t].from # b[t].to

VARIABLES
    body,               \* the body behind each transfer id; never changes
    stock, batches,     \* of the product, at each branch
    transfer,           \* the rows: status, parts (stockTransferBatch) and amounts
    nextTransferNumber,
    req,
    sold,               \* history: units sold at any branch
    everShort           \* history: some branch has been below zero

vars == <<body, stock, batches, transfer, nextTransferNumber, req, sold, everShort>>

Idle == [op |-> "idle"]

Request ==
    {Idle} \cup [op : {"send"}, transfer : Transfers, seen : Int]
    \cup [op : {"cancel"}, transfer : Transfers]
    \cup [op : {"receive"}, transfer : Transfers, got : Units,
          short : {"RETURN", "WRITE_OFF"}]

\* Which batch some of the units left from (0: none), and what travels with them.
Part == [source : Nat, expiry : 1..Never, plain : BOOLEAN, qty : Units \ {0}]

NoTransfer ==
    [status |-> "none", number |-> 0, parts |-> <<>>,
     received |-> 0, returned |-> 0, writtenOff |-> 0]

TypeOK ==
    /\ body \in [Transfers -> Body]
    /\ stock \in [Branches -> Int]
    /\ batches \in [Branches -> Seq(Batch)]
    /\ transfer \in [Transfers ->
          [status : {"none", "SENT", "RECEIVED", "CANCELLED"}, number : Nat,
           parts : Seq(Part), received : Units, returned : Units, writtenOff : Units]]
    /\ nextTransferNumber \in Nat
    /\ req \in [Requests -> Request]
    /\ sold \in Nat /\ everShort \in BOOLEAN

Init ==
    /\ body \in Bodies
    /\ stock = [b \in Branches |-> Total(InitBatches[b])]
    /\ batches = InitBatches
    /\ transfer = [t \in Transfers |-> NoTransfer]
    /\ nextTransferNumber = 1
    /\ req = [r \in Requests |-> Idle]
    /\ sold = 0 /\ everShort = FALSE

Handling(r, op) == req[r].op = op
Take(r, request) == req[r] = Idle /\ req' = [req EXCEPT ![r] = request]
Close(r) == req' = [req EXCEPT ![r] = Idle]
CloseUnchanged(r) ==
    /\ Close(r)
    /\ UNCHANGED <<body, stock, batches, transfer, nextTransferNumber, sold, everShort>>

StockTo(new) ==
    /\ stock' = new
    /\ everShort' = (everShort \/ \E b \in Branches : new[b] < 0)

----------------------------------------------------------------------------
(***************************************************************************)
(* Sending.                                                                *)
(***************************************************************************)
\* Plain is without a batch number and without an expiry date; every batch but
\* the opening one has a number here.
PartOf(rows, i, q) ==
    [source |-> i, expiry |-> rows[i].expiry,
     plain |-> rows[i].opening /\ rows[i].expiry = Never, qty |-> q]

\* The units no batch could give.
PartOfNone(q) == [source |-> 0, expiry |-> Never, plain |-> TRUE, qty |-> q]

\* What a batch gives: no more than is asked of it, than it has and than is left.
UnitsGiven(plan, k) ==
    IF k.batch \notin DOMAIN plan.rows THEN 0
    ELSE Least(Least(k.qty, Most(0, plan.rows[k.batch].qty)), plan.left)

GivenUnits(plan, k, q) ==
    [rows |-> [plan.rows EXCEPT ![k.batch].qty = @ - q],
     left |-> plan.left - q,
     parts |-> Append(plan.parts, PartOf(plan.rows, k.batch, q))]

\* Wrong: a batch that gives nothing gets a part too.
TakeFromEvery(plan, k) ==
    IF k.batch \notin DOMAIN plan.rows THEN plan ELSE GivenUnits(plan, k, UnitsGiven(plan, k))

TakeFrom(plan, k) ==
    IF UnitsGiven(plan, k) <= 0 THEN plan ELSE GivenUnits(plan, k, UnitsGiven(plan, k))

TakeAll(plan, picks) == FoldLeft(TakeFrom, plan, picks)

\* The batches picked, in that order, then the earliest expiry first, then no
\* batch.
PlanSend(rows, picks, qty) ==
    LET picked == TakeAll([rows |-> rows, left |-> qty, parts |-> <<>>], picks)
        order == TakeOrder(picked.rows, 0)
        plan == TakeAll(picked, [n \in DOMAIN order |-> [batch |-> order[n], qty |-> qty]])
    IN  [parts |-> plan.parts \o IF plan.left > 0 THEN <<PartOfNone(plan.left)>> ELSE <<>>,
         rows |-> plan.rows]

\* Wrong: the stock on hand is not asked for.
EnoughAlways(t) == TRUE

Enough(t) == stock[body[t].from] >= body[t].qty

BeginSend(r, t) ==
    /\ transfer[t].status = "none"
    /\ Enough(t)
    /\ Take(r, [op |-> "send", transfer |-> t, seen |-> stock[body[t].from]])
    /\ UNCHANGED <<body, stock, batches, transfer, nextTransferNumber, sold, everShort>>

\* A transfer that is already there is answered "replayed".
Replay(t) ==
    /\ transfer[t].status # "none"
    /\ UNCHANGED vars

\* The stock is taken without asking for it again.
CommitSend(r) ==
    /\ Handling(r, "send")
    /\ LET t == req[r].transfer
           from == body[t].from
           plan == PlanSend(batches[from], body[t].picks, body[t].qty)
       IN  /\ transfer[t].status = "none"
           /\ nextTransferNumber' = nextTransferNumber + 1
           /\ transfer' = [transfer EXCEPT ![t] =
                 [NoTransfer EXCEPT !.status = "SENT", !.number = nextTransferNumber,
                                    !.parts = plan.parts]]
           /\ StockTo([stock EXCEPT ![from] = @ - body[t].qty])
           /\ batches' = [batches EXCEPT ![from] = plan.rows]
    /\ Close(r)
    /\ UNCHANGED <<body, sold>>

\* The insert hits the primary key: the transaction rolls back, 500.
SentMeanwhile(r) ==
    /\ Handling(r, "send")
    /\ transfer[req[r].transfer].status # "none"
    /\ CloseUnchanged(r)

----------------------------------------------------------------------------
(***************************************************************************)
(* Which parts a share of the units stands for: the first ones to expire   *)
(* arrive, the last ones go back.                                          *)
(***************************************************************************)
ArrivalOrder(parts) == SortFefo(parts, DOMAIN parts)

\* Wrong: the first ones to expire go back too.
ReturnOrderAlike(parts) == ArrivalOrder(parts)

ReturnOrder(parts) == Reverse(ArrivalOrder(parts))

\* splitBatches.
Split(order, parts, qty) == Walk(order, [n \in DOMAIN parts |-> parts[n].qty], qty).take

\* The receiver's batches: a new one for each part that has a batch number or
\* an expiry date, the opening batch for the others.
ArriveOne(rows, part, q) ==
    IF q = 0 THEN rows
    ELSE IF part.plain THEN AddToOpening(rows, q)
    ELSE Append(rows, [qty |-> q, expiry |-> part.expiry, opening |-> FALSE])

Arrive(rows, parts, qty) ==
    LET order == ArrivalOrder(parts)
        units == Split(order, parts, qty)
    IN  FoldLeft(LAMBDA acc, n : ArriveOne(acc, parts[n], units[n]), rows, order)

\* backToSender: into the batches they left from, else into the opening batch.
GoBackOne(rows, part, q) ==
    IF part.source = 0 THEN AddToOpening(rows, q)
    ELSE [rows EXCEPT ![part.source].qty = @ + q]

GoBack(rows, parts, qty) ==
    LET order == ReturnOrder(parts)
        units == Split(order, parts, qty)
    IN  FoldLeft(LAMBDA acc, n : GoBackOne(acc, parts[n], units[n]), rows, order)

----------------------------------------------------------------------------
(***************************************************************************)
(* Receiving and cancelling.                                               *)
(***************************************************************************)

\* Wrong: the transaction trusts the status read before it.
StillInTransitAsRead(t) == transfer[t].status # "none"

\* The guard of the updateMany.
StillInTransit(t) == transfer[t].status = "SENT"

BeginReceive(r, t, got, short) ==
    /\ transfer[t].status = "SENT"
    /\ got <= body[t].qty
    /\ Take(r, [op |-> "receive", transfer |-> t, got |-> got, short |-> short])
    /\ UNCHANGED <<body, stock, batches, transfer, nextTransferNumber, sold, everShort>>

\* Wrong: the whole quantity goes back, whatever arrived.
ToReturnAll(t, got, short) == IF short = "RETURN" THEN body[t].qty ELSE 0

ToReturn(t, got, short) == IF short = "RETURN" THEN body[t].qty - got ELSE 0

ToWriteOff(t, got, short) == IF short = "WRITE_OFF" THEN body[t].qty - got ELSE 0

CommitReceive(r) ==
    /\ Handling(r, "receive")
    /\ LET t == req[r].transfer
           from == body[t].from
           to == body[t].to
           parts == transfer[t].parts
           got == req[r].got
           back == ToReturn(t, got, req[r].short)
       IN  /\ StillInTransit(t)
           /\ transfer' = [transfer EXCEPT
                 ![t].status = "RECEIVED", ![t].received = got,
                 ![t].returned = back, ![t].writtenOff = ToWriteOff(t, got, req[r].short)]
           /\ StockTo([stock EXCEPT ![to] = @ + got, ![from] = @ + back])
           /\ batches' = [batches EXCEPT
                 ![to] = Arrive(@, parts, got), ![from] = GoBack(@, parts, back)]
    /\ Close(r)
    /\ UNCHANGED <<body, nextTransferNumber, sold>>

BeginCancel(r, t) ==
    /\ transfer[t].status = "SENT"
    /\ Take(r, [op |-> "cancel", transfer |-> t])
    /\ UNCHANGED <<body, stock, batches, transfer, nextTransferNumber, sold, everShort>>

CommitCancel(r) ==
    /\ Handling(r, "cancel")
    /\ LET t == req[r].transfer
           from == body[t].from
       IN  /\ StillInTransit(t)
           /\ transfer' = [transfer EXCEPT ![t].status = "CANCELLED"]
           /\ StockTo([stock EXCEPT ![from] = @ + body[t].qty])
           /\ batches' = [batches EXCEPT ![from] = GoBack(@, transfer[t].parts, body[t].qty)]
    /\ Close(r)
    /\ UNCHANGED <<body, nextTransferNumber, sold>>

\* 409 not_in_transit, from the transaction of either.
RefuseNotInTransit(r) ==
    /\ req[r].op \in {"receive", "cancel"}
    /\ ~StillInTransit(req[r].transfer)
    /\ CloseUnchanged(r)

----------------------------------------------------------------------------
\* A bill for one unit at a branch that does not sell below zero (persistOrder).
Sell(b) ==
    /\ stock[b] > 0
    /\ StockTo([stock EXCEPT ![b] = @ - 1])
    /\ batches' = [batches EXCEPT ![b] = Out(@, PlanTake(@, 1, 0).take)]
    /\ sold' = sold + 1
    /\ UNCHANGED <<body, transfer, nextTransferNumber, req>>

\* The request dies before its transaction commits.
Fail(r) == req[r] # Idle /\ CloseUnchanged(r)

Next ==
    \/ \E t \in Transfers : Replay(t)
    \/ \E b \in Branches : Sell(b)
    \/ \E r \in Requests :
          \/ \E t \in Transfers : BeginSend(r, t) \/ BeginCancel(r, t)
          \/ \E t \in Transfers, got \in Units, short \in {"RETURN", "WRITE_OFF"} :
                BeginReceive(r, t, got, short)
          \/ CommitSend(r) \/ SentMeanwhile(r)
          \/ CommitReceive(r) \/ CommitCancel(r) \/ RefuseNotInTransit(r)
          \/ Fail(r)

Spec == Init /\ [][Next]_vars

----------------------------------------------------------------------------
(***************************************************************************)
(* Properties.                                                             *)
(***************************************************************************)
InTransit(t) == transfer[t].status = "SENT"

\* No unit is lost or made: what the branches had is at a branch, under way,
\* written off or sold, however sends, receipts, cancels and retries overlap;
\* and the batches of a branch add up to its stock, unless one fell below zero.
UnitsConserved ==
    /\ SumFunction([b \in Branches |-> Total(InitBatches[b])])
         = SumFunction(stock) + sold
           + SumFunction([t \in Transfers |-> IF InTransit(t) THEN body[t].qty ELSE 0])
           + SumFunction([t \in Transfers |-> transfer[t].writtenOff])
    /\ ~everShort => \A b \in Branches : Total(batches[b]) = stock[b]

\* "The same batch number, expiry and cost move with the stock": of each expiry
\* date there are never more units, at the branches and under way, than there
\* were; a short receipt splits them between receiver and sender, no unit twice.
UnitsThatExpire(rows, day) ==
    SumFunction([i \in DOMAIN rows |-> IF rows[i].expiry = day THEN rows[i].qty ELSE 0])

ExpiriesTravel ==
    \A day \in 1..(Never - 1) :
        SumFunction([b \in Branches |-> UnitsThatExpire(batches[b], day)])
        + SumFunction([t \in Transfers |->
              IF InTransit(t) THEN UnitsThatExpire(transfer[t].parts, day) ELSE 0])
        <= SumFunction([b \in Branches |-> UnitsThatExpire(InitBatches[b], day)])

\* The stock is asked for before the transaction that takes it.  What that may
\* cost: a branch falls below zero only by a send that saw more stock than was
\* left when it committed.  Nothing else overdraws it, not a receipt or a
\* cancel, and no send that nothing overtook.
OnlyAnOvertakenSendOverdraws ==
    [][\A b \in Branches :
          stock'[b] < Least(0, stock[b]) =>
              \E r \in Requests :
                  /\ Handling(r, "send") /\ req'[r] = Idle
                  /\ body[req[r].transfer].from = b
                  /\ stock[b] < req[r].seen]_vars

(***************************************************************************)
(* Seen through what is committed, transfers are freight: each is sent     *)
(* once and settled once, to the receiver, to the sender and to nobody     *)
(* else.                                                                   *)
(***************************************************************************)
Transit(t) ==
    IF transfer[t].status = "none" THEN [state |-> "none"]
    ELSE IF InTransit(t)
    THEN [state |-> "sent", from |-> body[t].from, to |-> body[t].to, qty |-> body[t].qty]
    ELSE [state |-> "settled"]

Freight == INSTANCE Freight WITH
    InitStock <- [b \in Branches |-> Total(InitBatches[b])],
    transit <- [t \in Transfers |-> Transit(t)],
    lost <- SumFunction([t \in Transfers |-> transfer[t].writtenOff])

KeepsFreight == Freight!Spec
=============================================================================
