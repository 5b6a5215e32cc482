------------------------------ MODULE Batches ------------------------------
(***************************************************************************)
(* Which units leave and re-enter the batches of one product in one        *)
(* branch: the pure part of services/batches.ts.                           *)
(*                                                                         *)
(* The batches are a sequence in the order they were received; a batch is  *)
(* [qty, expiry, opening].  Expiries are days 1..Never; Never is "no       *)
(* expiry date", so that a batch without one sorts last.                   *)
(***************************************************************************)
EXTENDS Integers, Sequences, FiniteSets, SequencesExt

CONSTANT Never

Batch == [qty : Int, expiry : 1..Never, opening : BOOLEAN]

Least(a, b) == IF a <= b THEN a ELSE b
Most(a, b) == IF a >= b THEN a ELSE b

Total(rows) == SumFunction([i \in DOMAIN rows |-> rows[i].qty])

\* Wrong: the oldest batch first, whatever it expires.
BeforeByAge(rows, i, j) == i < j

\* Earliest expiry first, then oldest received.
Before(rows, i, j) ==
    \/ rows[i].expiry < rows[j].expiry
    \/ rows[i].expiry = rows[j].expiry /\ i < j

\* sortFefo: some of the batches in this order.
SortFefo(rows, some) ==
    CHOOSE order \in [1..Cardinality(some) -> some] :
        \A m, n \in DOMAIN order : m < n => Before(rows, order[m], order[n])

\* The batches with something in them, the preferred one first (0: none).
TakeOrder(rows, preferred) ==
    LET some == {i \in DOMAIN rows : rows[i].qty > 0}
    IN  IF preferred \in some THEN <<preferred>> \o SortFefo(rows, some \ {preferred})
        ELSE SortFefo(rows, some)

\* Wrong: the last batch visited pays for the whole rest.
UnitsFromUncapped(available, left) == left

\* What a row gives of what is left.
UnitsFrom(available, left) == Least(available, left)

\* One turn of the loops: row i gives, unless it is empty or nothing is left.
Turn(acc, available, i) ==
    IF acc.left <= 0 \/ available[i] <= 0 THEN acc
    ELSE LET q == UnitsFrom(available[i], acc.left)
         IN  [take |-> [acc.take EXCEPT ![i] = q], left |-> acc.left - q]

\* Goes through `order` taking what available[i] allows until qty is reached.
Walk(order, available, qty) ==
    FoldLeft(LAMBDA acc, i : Turn(acc, available, i),
             [take |-> [i \in DOMAIN available |-> 0], left |-> qty], order)

\* planTake: units to take of each batch, and what no batch could give.
PlanTake(rows, qty, preferred) ==
    LET walk == Walk(TakeOrder(rows, preferred), [i \in DOMAIN rows |-> rows[i].qty], qty)
    IN  [take |-> walk.take, shortfall |-> Most(0, walk.left)]

\* Moves units in (positive) or out (negative) of each batch.
Move(rows, units) == [i \in DOMAIN rows |-> [rows[i] EXCEPT !.qty = @ + units[i]]]

Out(rows, take) == Move(rows, [i \in DOMAIN rows |-> -take[i]])

Opening(rows) == {i \in DOMAIN rows : rows[i].opening}

\* Wrong: the quantity is set, not added.
AddToOpeningReplaced(rows, qty) ==
    IF Opening(rows) = {} THEN Append(rows, [qty |-> qty, expiry |-> Never, opening |-> TRUE])
    ELSE [i \in DOMAIN rows |-> IF rows[i].opening THEN [rows[i] EXCEPT !.qty = qty] ELSE rows[i]]

\* addToOpeningBatch: the catch-all batch, made when there is none.
AddToOpening(rows, qty) ==
    IF qty <= 0 THEN rows
    ELSE IF Opening(rows) # {}
    THEN LET i == CHOOSE i \in Opening(rows) : TRUE
         IN  [rows EXCEPT ![i].qty = @ + qty]
    ELSE Append(rows, [qty |-> qty, expiry |-> Never, opening |-> TRUE])

\* Wrong: batches are topped up, never emptied.
ReconcileUp(rows, stock) == AddToOpening(rows, Most(0, stock) - Total(rows))

\* reconcileBatches: make the batches add up to the stock number, or to 0.
Reconcile(rows, stock) ==
    LET sum == SumFunction([i \in DOMAIN rows |-> Most(0, rows[i].qty)])
        target == Most(0, stock)
    IN  IF target > sum THEN AddToOpening(rows, target - sum)
        ELSE Out(rows, PlanTake(rows, sum - target, 0).take)

\* Wrong: what was put back before is forgotten.
PlanRestoreAgain(rows, taken, restored, qty) ==
    Walk(SortFefo(rows, {i \in DOMAIN rows : taken[i] > 0}), taken, qty).take

\* restoreToBatches: units put back into each batch, out of what the bill line
\* took and has not put back yet; the rest of qty goes nowhere.
PlanRestore(rows, taken, restored, qty) ==
    LET rowsOfLine == {i \in DOMAIN rows : taken[i] > 0}
    IN  Walk(SortFefo(rows, rowsOfLine),
             [i \in DOMAIN rows |-> taken[i] - restored[i]], qty).take
=============================================================================
