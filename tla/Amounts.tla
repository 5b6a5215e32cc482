------------------------------ MODULE Amounts ------------------------------
(***************************************************************************)
(* The arithmetic of bills: what a customer pays (lib/gst.ts) and what a   *)
(* supplier is owed (lib/books.ts), in paise, thousandths of a unit and    *)
(* hundredths of a percent.  Quotients are exact here; the code divides    *)
(* doubles, which may break a tie of two equal remainders the other way.   *)
(***************************************************************************)
EXTENDS Integers, Sequences, FiniteSets, Functions

Half(x) == x \div 2
Odd(x) == x % 2 = 1

\* Math.round(x / y)
Rounded(x, y) == (2 * x + y) \div (2 * y)

LineGross(l) == Rounded(l.unitPrice * l.qtyMilli, 1000)

\* Never more than the subtotal.
DiscountAmount(subtotal, discount) ==
    LET most == IF discount.type = "percent" THEN 10000 ELSE subtotal
        value == IF discount.value < most THEN discount.value ELSE most
    IN  IF discount.type = "percent" THEN Rounded(subtotal * value, 10000) ELSE value

\* Wrong: what rounding down leaves over goes to nobody.
AllocateDown(amount, weights) ==
    LET sum == SumFunction(weights)
    IN  [i \in DOMAIN weights |-> IF sum = 0 THEN 0 ELSE (amount * weights[i]) \div sum]

\* Split in proportion: what rounding down leaves over goes, one by one, to
\* the largest remainders, the first of equal ones first.
Allocate(amount, weights) ==
    LET sum == SumFunction(weights)
        down == [i \in DOMAIN weights |-> (amount * weights[i]) \div sum]
        rest(i) == (amount * weights[i]) % sum
        before(i) == {j \in DOMAIN weights : rest(j) > rest(i) \/ (rest(j) = rest(i) /\ j < i)}
        left == amount - SumFunction(down)
    IN  IF sum = 0 THEN [i \in DOMAIN weights |-> 0]
        ELSE [i \in DOMAIN weights |-> down[i] + IF Cardinality(before(i)) < left THEN 1 ELSE 0]

TaxOf(net, l, taxEnabled) ==
    LET rate == l.gstRateBp
        inside == net - Rounded(net * 10000, 10000 + rate)
        on == Rounded(net * rate, 10000)
    IN  IF ~taxEnabled \/ rate = 0 THEN [taxable |-> net, tax |-> 0]
        ELSE IF l.taxInclusive THEN [taxable |-> net - inside, tax |-> inside]
        ELSE [taxable |-> net, tax |-> on]

\* The amounts of a bill's lines from what each is taxed on and its tax: IGST,
\* or CGST and SGST, where an odd paisa goes to SGST, to CGST, to SGST, ...
WithHalves(taxed, interState) ==
    LET oddBefore(i) == Cardinality({j \in 1..(i - 1) : Odd(taxed[j].tax)})
        cgst(i) == Half(taxed[i].tax) + IF Odd(taxed[i].tax) /\ Odd(oddBefore(i)) THEN 1 ELSE 0
    IN  [i \in DOMAIN taxed |->
            LET tax == taxed[i].tax
            IN  [taxable |-> taxed[i].taxable,
                 cgst |-> IF interState THEN 0 ELSE cgst(i),
                 sgst |-> IF interState THEN 0 ELSE tax - cgst(i),
                 igst |-> IF interState THEN tax ELSE 0,
                 total |-> taxed[i].taxable + tax]]

\* The lines of a bill, each with its share of the discount.
ComputeBill(lines, discount, taxEnabled, interState) ==
    LET gross == [i \in DOMAIN lines |-> LineGross(lines[i])]
        shares == Allocate(DiscountAmount(SumFunction(gross), discount), gross)
    IN  WithHalves([i \in DOMAIN lines |-> TaxOf(gross[i] - shares[i], lines[i], taxEnabled)], interState)

\* A supplier's bill: costs are before GST and nothing is discounted.
ComputePurchase(lines, interState) ==
    WithHalves([i \in DOMAIN lines |->
                   LET taxable == LineGross(lines[i])
                   IN  [taxable |-> taxable, tax |-> Rounded(taxable * lines[i].gstRateBp, 10000)]],
               interState)

SumOf(part, amounts) == SumFunction([i \in DOMAIN amounts |-> amounts[i][part]])

Parts == {"taxable", "cgst", "sgst", "igst", "total"}

\* The amounts of the first `milli` of a line's `qtyMilli`; SGST takes the rounding.
Cumulative(amounts, qtyMilli, milli) ==
    LET f(part) == Rounded(amounts[part] * milli, qtyMilli)
    IN  [part \in Parts |->
            IF part = "sgst" THEN f("total") - f("taxable") - f("cgst") - f("igst") ELSE f(part)]

\* What returning `milli` of it is worth when `before` was already returned.
ReturnAmounts(amounts, qtyMilli, before, milli) ==
    [part \in Parts |-> Cumulative(amounts, qtyMilli, before + milli)[part] - Cumulative(amounts, qtyMilli, before)[part]]

\* The customer's state when it is known, else the branch's; "" is none.
PlaceOfSupply(branchState, customerState) == IF customerState # "" THEN customerState ELSE branchState

InterState(branchState, customerState) ==
    branchState # "" /\ PlaceOfSupply(branchState, customerState) # branchState
=============================================================================
