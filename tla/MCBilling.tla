----------------------------- MODULE MCBilling -----------------------------
\* Small instances of Billing for TLC.
EXTENDS Billing, FiniteSetsExt, TLC

CONSTANTS o1, o2, o3, o4, c1, c2, p1, p2

\* Half a rupee rounded up: what returning `back` units of `sold` units, sold
\* for `line` in all, pays in total (rnd of gst.ts on the cumulative quantity).
Cumulative(line, sold, back) ==
    IF sold = 0 THEN line * back ELSE (2 * line * back + sold) \div (2 * sold)

\* The worth of a bill whose line of product p sold for price[p] in all.
WorthAt(price) ==
    [sold \in [Products -> 0..MaxQty] |-> [back \in [Products -> 0..MaxQty] |->
        MapThenSumSet(LAMBDA p : Cumulative(price[p], sold[p], back[p]), Products)]]

OnePrice == WorthAt([p \in Products |-> 5])
TwoPrices == WorthAt([p \in Products |-> IF p = p1 THEN 5 ELSE 2])
FreeItem == WorthAt([p \in Products |-> IF p = p1 THEN 0 ELSE 2])

StockOne == [p \in Products |-> 1]
StockTwo == [p \in Products |-> 2]

Body(c, n, q) == [counter |-> c, seq |-> n, qty |-> [p \in Products |-> q]]

\* Every bill of set O sells something.
Selling(bodies, O) ==
    {b \in [O -> bodies] : \A o \in O : \E p \in Products : b[o].qty[p] > 0}

\* One bill, sold in any quantities.
OneBill == Selling([counter : {c1}, seq : {0}, qty : [Products -> 0..MaxQty]], {o1})

\* Two online bills of one counter, numbered by the device or by the server.
TwoBills == Selling([counter : {c1}, seq : {0, 1}, qty : [Products -> 0..MaxQty]], {o1, o2})

\* c1's bills bring distinct numbers, in any order; c2's are numbered by the server.
CounterBills ==
    {b \in Selling([counter : {c1}, seq : 1..3, qty : [Products -> 1..MaxQty]]
                   \cup [counter : {c2}, seq : {0}, qty : [Products -> 1..MaxQty]], Orders) :
        \A o, s \in Orders : o # s /\ b[o].counter = c1 => b[o].seq # b[s].seq}

RequestSymmetry == Permutations(Requests)
=============================================================================
