----------------------------- MODULE BatchStock -----------------------------
(***************************************************************************)
(* One product of one branch with batch tracking: the stock number, the    *)
(* batches that say which units it is, and the bill lines that took units  *)
(* of them, under every operation that moves stock at the branch.          *)
(*                                                                         *)
(* A request first loads its account (authenticate), and with it whether   *)
(* batches are tracked; its transaction runs later and believes that.      *)
(* Stock transactions are one step each: their first write locks the       *)
(* product's row of the branch.  Turning tracking on takes two steps: it   *)
(* locks the account row and reads the stock, without locking the stock.   *)
(***************************************************************************)
EXTENDS Batches

CONSTANTS
    Lines,          \* bill lines that sell the product
    Requests,
    Ops,            \* the operations of this instance
    InitTracking,   \* whether batches may be tracked, or not, at the start
    MaxQty,         \* bound: units moved by one operation
    MaxStock,       \* bound: units at the branch
    MaxBatches      \* bound: batches ever made

Operation ==
    {"sell", "oversell", "giveBack", "add", "reduce", "set", "batch", "expiry",
     "turnOn", "turnOff"}

ASSUME BatchStockAssumption ==
    /\ IsFiniteSet(Lines)
    /\ Ops \subseteq Operation
    /\ InitTracking \subseteq BOOLEAN
    /\ Never \in Nat \ {0} /\ MaxQty \in Nat \ {0}
    /\ MaxStock \in Nat /\ MaxBatches \in Nat

VARIABLES
    tracking,   \* the account's batchTracking
    stock,      \* the branch's stockMilli
    batches,
    lines,      \* per bill line: sold, given back, taken from and put back into batches
    req,
    past        \* history, not in the code: what the batches have been through

vars == <<tracking, stock, batches, lines, req, past>>

Idle == [phase |-> "idle"]
NoUnits == [i \in 1..MaxBatches |-> 0]

\* "Batch quantities never go below zero", whatever was sold, given back,
\* corrected, or done by a request that still believes tracking is off or on.
BatchesNeverNegative == \A i \in DOMAIN batches : batches[i].qty >= 0

Line == [qty : 0..MaxQty, back : 0..MaxQty,
         taken : [1..MaxBatches -> Nat], restored : [1..MaxBatches -> Nat]]

Request == {Idle} \cup [phase : {"loaded"}, tracking : BOOLEAN]
           \cup [phase : {"turning"}, stock : Int]

TypeOK ==
    /\ tracking \in BOOLEAN /\ stock \in Int
    /\ batches \in Seq(Batch) /\ Len(batches) <= MaxBatches /\ BatchesNeverNegative
    /\ lines \in [Lines -> Line]
    /\ req \in [Requests -> Request]
    /\ past \subseteq {"belowZero", "setAfter", "switched"}

Init ==
    /\ tracking \in InitTracking
    /\ stock = 0 /\ batches = <<>>
    /\ lines = [l \in Lines |-> [qty |-> 0, back |-> 0, taken |-> NoUnits, restored |-> NoUnits]]
    /\ req = [r \in Requests |-> Idle]
    /\ past = {}

----------------------------------------------------------------------------
Loaded(r) == req[r].phase = "loaded"
Close(r) == req' = [req EXCEPT ![r] = Idle]

\* The stock moves to n, and the history notes when that is below zero.
StockTo(n) ==
    /\ stock' = n
    /\ past' = IF n < 0 THEN past \cup {"belowZero"} ELSE past

\* The account's setting is written, and the history notes it.
TrackingTo(on) == tracking' = on /\ past' = past \cup {"switched"}

\* authenticate: the account as it is now.
Load(r) ==
    /\ req[r] = Idle
    /\ req' = [req EXCEPT ![r] = [phase |-> "loaded", tracking |-> tracking]]
    /\ UNCHANGED <<tracking, stock, batches, lines, past>>

\* The bounds of an operation that adds q units.
Room(q) == stock + q <= MaxStock /\ Total(batches) + q <= MaxStock
Fits(rows) == Len(rows) <= MaxBatches

\* Pads the units taken of the batches there are to all batches there may be.
Padded(units) == [i \in 1..MaxBatches |-> IF i \in DOMAIN units THEN units[i] ELSE 0]

\* A bill line is saved (persistOrder).  Only an online bill of an account
\* that forbids negative stock checks it ("sell"); else it just moves.
Sell(r, l, q, preferred) ==
    /\ Loaded(r) /\ lines[l].qty = 0
    /\ \/ "sell" \in Ops /\ stock >= q
       \/ "oversell" \in Ops /\ stock - q >= -MaxQty
    /\ StockTo(stock - q)
    /\ LET take == IF req[r].tracking THEN PlanTake(batches, q, preferred).take
                   ELSE [i \in DOMAIN batches |-> 0]
       IN  /\ batches' = Out(batches, take)
           /\ lines' = [lines EXCEPT ![l].qty = q, ![l].taken = Padded(take)]
    /\ Close(r)
    /\ UNCHANGED tracking

\* Wrong: earlier returns are forgotten.
StillSoldAsSold(l) == lines[l].qty

StillSold(l) == lines[l].qty - lines[l].back

\* Wrong: what the line put back before is forgotten.
PutBackForgotten(l) == [i \in 1..MaxBatches |-> 0]

\* What the line has put back of each batch.
PutBack(l) == lines[l].restored

\* A return of q units, or a cancel (all of them).  Unlike the other
\* operations it does not ask whether batches are tracked.
GiveBack(r, l, q) ==
    /\ "giveBack" \in Ops
    /\ Loaded(r)
    /\ q <= StillSold(l)
    /\ Room(q)
    /\ StockTo(stock + q)
    /\ LET units == PlanRestore(batches, lines[l].taken, PutBack(l), q)
       IN  /\ batches' = Move(batches, units)
           /\ lines' = [lines EXCEPT
                 ![l].back = @ + q,
                 ![l].restored = [i \in 1..MaxBatches |-> @[i] + Padded(units)[i]]]
    /\ Close(r)
    /\ UNCHANGED tracking

\* POST /products/:id/stock with ADD, REDUCE and SET.
Add(r, q) ==
    /\ "add" \in Ops /\ Loaded(r) /\ Room(q)
    /\ StockTo(stock + q)
    /\ batches' = IF req[r].tracking THEN AddToOpening(batches, q) ELSE batches
    /\ Fits(batches')
    /\ Close(r)
    /\ UNCHANGED <<tracking, lines>>

Reduce(r, q) ==
    /\ "reduce" \in Ops /\ Loaded(r) /\ stock - q >= -MaxQty
    /\ StockTo(stock - q)
    /\ batches' = IF req[r].tracking THEN Out(batches, PlanTake(batches, q, 0).take)
                  ELSE batches
    /\ Close(r)
    /\ UNCHANGED <<tracking, lines>>

SetStock(r, q) ==
    /\ "set" \in Ops /\ Loaded(r)
    /\ stock' = q
    /\ past' = IF "belowZero" \in past THEN past \cup {"setAfter"} ELSE past
    /\ batches' = IF req[r].tracking THEN Reconcile(batches, q) ELSE batches
    /\ Fits(batches')
    /\ Close(r)
    /\ UNCHANGED <<tracking, lines>>

\* POST /products/:id/batches: a new batch of q units.
AddBatch(r, q, expiry) ==
    /\ "batch" \in Ops /\ Loaded(r) /\ req[r].tracking /\ Room(q)
    /\ StockTo(stock + q)
    /\ batches' = Append(batches, [qty |-> q, expiry |-> expiry, opening |-> FALSE])
    /\ Fits(batches')
    /\ Close(r)
    /\ UNCHANGED <<tracking, lines>>

\* PATCH /batches/:id: the expiry of a batch is corrected.
ChangeExpiry(r, i, expiry) ==
    /\ "expiry" \in Ops /\ Loaded(r)
    /\ i \in DOMAIN batches
    /\ batches' = [batches EXCEPT ![i].expiry = expiry]
    /\ Close(r)
    /\ UNCHANGED <<tracking, stock, lines, past>>

----------------------------------------------------------------------------
AccountLocked == \E r \in Requests : req[r].phase = "turning"

\* PATCH /settings turning tracking on: the account row, then the stock as it
\* is at this moment ...
ReadStock(r) ==
    /\ "turnOn" \in Ops /\ Loaded(r) /\ ~req[r].tracking
    /\ ~AccountLocked
    /\ req' = [req EXCEPT ![r] = [phase |-> "turning", stock |-> stock]]
    /\ UNCHANGED <<tracking, stock, batches, lines, past>>

\* ... then an opening batch for it, when there was any, and the commit.
TurnOn(r) ==
    /\ req[r].phase = "turning"
    /\ batches' = IF req[r].stock > 0 THEN Reconcile(batches, req[r].stock) ELSE batches
    /\ Fits(batches')
    /\ TrackingTo(TRUE)
    /\ Close(r)
    /\ UNCHANGED <<stock, lines>>

TurnOff(r) ==
    /\ "turnOff" \in Ops /\ Loaded(r)
    /\ ~AccountLocked
    /\ TrackingTo(FALSE)
    /\ Close(r)
    /\ UNCHANGED <<stock, batches, lines>>

\* PATCH /settings with tracking on, from a request that found it on already.
KeepOn(r) ==
    /\ "turnOn" \in Ops /\ Loaded(r) /\ req[r].tracking
    /\ ~AccountLocked
    /\ TrackingTo(TRUE)
    /\ Close(r)
    /\ UNCHANGED <<stock, batches, lines>>

\* The request dies, or is refused, before its transaction commits.
Fail(r) ==
    /\ req[r] # Idle
    /\ Close(r)
    /\ UNCHANGED <<tracking, stock, batches, lines, past>>

Next ==
    \E r \in Requests :
        \/ Load(r)
        \/ ReadStock(r) \/ TurnOn(r) \/ KeepOn(r) \/ TurnOff(r) \/ Fail(r)
        \/ \E q \in 1..MaxQty :
              \/ \E l \in Lines, preferred \in 0..Len(batches) : Sell(r, l, q, preferred)
              \/ \E l \in Lines : GiveBack(r, l, q)
              \/ Add(r, q)
              \/ Reduce(r, q)
              \/ \E expiry \in 1..Never : AddBatch(r, q, expiry)
        \/ \E q \in 0..MaxQty : SetStock(r, q)
        \/ \E i \in 1..MaxBatches, expiry \in 1..Never : ChangeExpiry(r, i, expiry)

Spec == Init /\ [][Next]_vars

----------------------------------------------------------------------------
(***************************************************************************)
(* Properties.                                                             *)
(***************************************************************************)

\* "Batches always add up to the stock number": while they are tracked,
\* whatever the stock and the setting have been through before.
BatchesInStep == tracking => Total(batches) = Most(0, stock)

\* They do add up as long as the stock was never below zero and tracking was
\* never switched, through every other mix of sales, returns, cancels,
\* additions, corrections, SETs and new batches.
BatchesAddUp == tracking /\ past = {} => Total(batches) = stock

\* Sales and reductions below zero leave no unit in stock without a batch,
\* whatever comes back or in afterwards, as long as no SET evens the stock out
\* in between (what was sold below zero then comes back to no batch).
EveryUnitHasABatch ==
    tracking /\ past \subseteq {"belowZero"} => Total(batches) >= stock

\* A bill line puts back into a batch at most what it took from it, in
\* however many returns and whatever happened to expiries in between, and
\* takes and puts back at most what was sold and given back.
RestoredWithinTaken ==
    \A l \in Lines :
        /\ \A i \in 1..MaxBatches : lines[l].restored[i] <= lines[l].taken[i]
        /\ SumFunction(lines[l].taken) <= lines[l].qty
        /\ SumFunction(lines[l].restored) <= lines[l].back

\* Whatever takes units of the batches in this step; picked is the batch the
\* cashier picked (0: none).
Takes(r, picked) ==
    \/ \E l \in Lines, q \in 1..MaxQty : Sell(r, l, q, picked)
    \/ picked = 0 /\ \E q \in 1..MaxQty : Reduce(r, q)
    \/ picked = 0 /\ \E q \in 0..MaxQty : SetStock(r, q)

\* Units leave the batch that expires first, by a sale, a reduction or a SET:
\* when a batch gives although one that expires before it has units left, one
\* of the two is the batch the cashier picked.
EarliestExpiryFirst ==
    [][\A i, j \in DOMAIN batches :
          /\ batches'[j].qty < batches[j].qty
          /\ batches[i].expiry < batches[j].expiry
          /\ batches'[i].qty > 0
          => \A r \in Requests, picked \in 0..Len(batches) :
                Takes(r, picked) => picked \in {i, j}]_vars
=============================================================================
