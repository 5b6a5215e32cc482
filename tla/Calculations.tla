---------------------------- MODULE Calculations ----------------------------
(***************************************************************************)
(* The pure calculations against what they promise, one choice of inputs a *)
(* state: the loops over batches (Batches), and the amounts of a bill      *)
(* (Amounts).  A step asks for another quantity of a shelf, or works a     *)
(* bill out for another shop and customer.                                 *)
(***************************************************************************)
EXTENDS Batches, Amounts

CONSTANTS
    LineInputs, Discounts,
    ShelfUnits, ShelfBatches, BillLines   \* bounds

\* No price, rate or discount is below zero, and no quantity is zero.
ASSUME CalculationsAssumption ==
    /\ Never \in Nat \ {0} /\ ShelfUnits \in Nat /\ ShelfBatches \in Nat /\ BillLines \in Nat
    /\ LineInputs \subseteq [unitPrice : Nat, qtyMilli : Nat \ {0}, gstRateBp : Nat, taxInclusive : BOOLEAN]
    /\ Discounts # {} /\ Discounts \subseteq [type : {"flat", "percent"}, value : Nat]

VARIABLES
    rack, wanted, choice,                  \* batches, a quantity and the chosen batch
    basket, deal, registered, customerState  \* lines, discount, taxEnabled, the customer's state

planInputs == <<rack, wanted, choice>>
billInputs == <<basket, deal, registered, customerState>>

\* At most one batch is the opening one, and it has no expiry date.
Shelves ==
    {s \in UNION {[1..n -> [qty : 0..ShelfUnits, expiry : 1..Never, opening : BOOLEAN]]
                  : n \in 0..ShelfBatches} :
        /\ Cardinality(Opening(s)) <= 1
        /\ \A i \in Opening(s) : s[i].expiry = Never}

Plan == rack \in Shelves /\ wanted = 0 /\ choice \in 0..Len(rack)
NoPlan == rack = <<>> /\ wanted = 0 /\ choice = 0

Bill ==
    /\ basket \in UNION {[1..n -> LineInputs] : n \in 1..BillLines}
    /\ deal \in Discounts /\ registered = FALSE /\ customerState = ""
NoBill == basket = <<>> /\ deal = (CHOOSE d \in Discounts : TRUE) /\ registered = FALSE /\ customerState = ""

CalculationsInit == (Plan /\ NoBill) \/ (NoPlan /\ Bill)

Ask ==
    /\ basket = <<>>
    /\ wanted' \in 0..(ShelfUnits * ShelfBatches + 1)
    /\ UNCHANGED <<rack, choice, billInputs>>

Reckon ==
    /\ basket # <<>>
    /\ registered' \in BOOLEAN /\ customerState' \in {"", "KA", "MH"}
    /\ UNCHANGED <<basket, deal, planInputs>>

CalculationsNext == Ask \/ Reckon

CalculationsSpec == CalculationsInit /\ [][CalculationsNext]_<<planInputs, billInputs>>

----------------------------------------------------------------------------
\* The batches that must be empty before batch i gives anything.
Ahead(i) ==
    {j \in DOMAIN rack \ {i} :
        \/ j = choice
        \/ /\ i # choice
           /\ \/ rack[j].expiry < rack[i].expiry
              \/ rack[j].expiry = rack[i].expiry /\ j < i}

QtyOf(some) == SumFunction([i \in some |-> rack[i].qty])

\* A sale of some units takes from each batch what the batches ahead of it (the
\* chosen one, then earlier expiries, then older ones) could not give, and
\* falls short by exactly what no batch has.
TakesInOrder ==
    LET plan == PlanTake(rack, wanted, choice)
    IN  /\ \A i \in DOMAIN rack :
              plan.take[i] = Least(rack[i].qty, Most(0, wanted - QtyOf(Ahead(i))))
        /\ plan.shortfall = Most(0, wanted - Total(rack))

\* Putting a bill line back, in two returns of any sizes, leaves each batch as
\* it was before the sale; units sold beyond the batches go to none of them.
RestoreUndoesTake ==
    LET take == PlanTake(rack, wanted, choice).take
        left == Out(rack, take)
        none == [i \in DOMAIN rack |-> 0]
    IN  \A first \in 0..wanted :
            LET one == PlanRestore(left, take, none, first)
                two == PlanRestore(left, take, one, wanted - first)
            IN  Move(Move(left, one), two) = rack

\* A sale takes from the batches in their order, and putting it back leaves
\* them as they were (planTake and restoreToBatches, services/batches.ts).
PlansAreKept == TakesInOrder /\ RestoreUndoesTake

----------------------------------------------------------------------------
\* The parts of every line add up to it, and CGST and SGST never differ by
\* more than a paisa in the whole bill.
PartsAddUp(amounts) ==
    /\ \A i \in DOMAIN amounts :
          /\ \A part \in Parts : amounts[i][part] >= 0
          /\ amounts[i].total = amounts[i].taxable + amounts[i].cgst + amounts[i].sgst + amounts[i].igst
    /\ SumOf("igst", amounts) # 0 => SumOf("cgst", amounts) + SumOf("sgst", amounts) = 0
    /\ SumOf("sgst", amounts) - SumOf("cgst", amounts) \in {0, 1}

\* A line that comes back in two returns is worth what it cost, part by part.
ReturnsAddUp(amounts, qtyMilli) ==
    \A first \in {1, qtyMilli \div 3, qtyMilli - 1} : \A part \in Parts :
        ReturnAmounts(amounts, qtyMilli, 0, first)[part]
          + ReturnAmounts(amounts, qtyMilli, first, qtyMilli - first)[part] = amounts[part]

\* What the customer pays is the price less the discount, to the paisa, and
\* more only by tax that was not in the price; "totals are exact to the
\* paisa", for a supplier's bill too, and after any return.
BillAddsUp ==
    LET interState == InterState(IF registered THEN "KA" ELSE "", customerState)
        gross == [i \in DOMAIN basket |-> LineGross(basket[i])]
        subtotal == SumFunction(gross)
        bill == ComputeBill(basket, deal, registered, interState)
        off == DiscountAmount(subtotal, deal)
        net == SumOf("total", bill) - (SumOf("cgst", bill) + SumOf("sgst", bill) + SumOf("igst", bill))
        priced == registered /\ \E i \in DOMAIN basket : ~basket[i].taxInclusive
    IN  /\ PartsAddUp(bill) /\ PartsAddUp(ComputePurchase(basket, interState))
        /\ IF priced THEN net <= subtotal - off /\ SumOf("total", bill) >= subtotal - off
           ELSE SumOf("total", bill) = subtotal - off
        /\ \A i \in DOMAIN basket : ReturnsAddUp(bill[i], basket[i].qtyMilli)
=============================================================================
