----------------------------- MODULE BooksProofs -----------------------------
(***************************************************************************)
(* Theorems about the books, for every set of bills, returns, sales and    *)
(* entries and for requests that overlap: the stock, the batches and the   *)
(* supplier bills of Purchases agree, and every statement, every balance   *)
(* and every closing of the drawer adds up.                                *)
(***************************************************************************)
EXTENDS Books, BatchesProofs

----------------------------------------------------------------------------
(***************************************************************************)
(* Purchases.  The invariant follows what a handler read: its checks held  *)
(* of that, so a bill its transaction does not overtake is still as the    *)
(* checks want it.  Stock and batches are kept for every bill.             *)
(***************************************************************************)
BillRow == [status : {"none", "live", "cancelled"}, returned : Nat, batch : Nat, day : 0..MaxDay]
ReturnRow == [status : {"none", "SETTLED", "PENDING", "RECEIVED"}, bill : Bills \cup {0},
              qty : Nat, day : 0..MaxDay]

\* The returns of a bill among some, those still out at the supplier, and their units.
ReturnsIn(some, b) == {x \in Returns : some[x].status # "none" /\ some[x].bill = b}
AwayIn(some, b) == {x \in ReturnsIn(some, b) : some[x].status # "RECEIVED"}
Units(some, set) == SumFunction([x \in set |-> some[x].qty])

\* BillMovesItsGoods of one bill's row, the returns there are, and what it moved.
Fits(row, some, net, b) ==
    /\ net = IF row.status = "live" /\ b \notin Imported THEN Qty(b) - Units(some, AwayIn(some, b))
             ELSE 0
    /\ row.returned = Units(some, ReturnsIn(some, b)) /\ row.returned <= Qty(b)
    /\ row.status = "cancelled" => ReturnsIn(some, b) = {}

\* What a handler in progress read was what its checks asked for; a bill to be
\* cancelled had no returns then, unless it was overtaken.
Checked(w, all, some, late) ==
    /\ w.op \in {"create", "cancel", "return", "receive"} => w.bill \in Bills
    /\ w.op = "create" => \E gone \in BOOLEAN : w.saw = <<gone, FALSE>>
    /\ w.op = "cancel" =>
          \E row \in BillRow : /\ w.saw = <<row>> /\ row.status = "live"
                               /\ w.bill \notin late => row.returned = 0
    /\ w.op = "return" =>
          /\ w.ret \in Returns /\ all[w.bill].status # "none"
          /\ \E row \in BillRow : /\ w.saw = <<row>> /\ row.status = "live"
                                  /\ ReturnOf[w.ret].qty <= Qty(w.bill) - row.returned
    /\ w.op = "receive" =>
          /\ w.ret \in Returns /\ some[w.ret].status # "none" /\ some[w.ret].bill = w.bill
          /\ \E row \in ReturnRow : w.saw = <<row>> /\ row.status = "PENDING"

\* A bill not entered yet has no row and was not imported; what is returned is something.
Blank(some, returned) ==
    /\ \A b \in Bills : some[b].status = "none" => some[b] = NoBill /\ b \notin Imported
    /\ \A x \in Returns :
          returned[x].status # "none" => returned[x].qty > 0 /\ returned[x].bill \in Bills

\* The stock number, its batches and what the bills moved.
StockFits(number, held, net, out, lacking) ==
    /\ number \in Int /\ out \in Nat /\ lacking \in BOOLEAN
    /\ net \in [Bills -> Int] /\ Shelf(held)
    /\ number + out = SumFunction(net)
    /\ ~lacking => Total(held) = Most(0, number)

BooksTyped ==
    /\ bill \in [Bills -> BillRow] /\ ret \in [Returns -> ReturnRow]
    /\ day \in 1..MaxDay
    /\ overtaken \subseteq Bills

PurchaseInv ==
    /\ BooksTyped
    /\ req = [r \in Requests |-> req[r]]
    /\ \A r \in Requests : Checked(req[r], bill, ret, overtaken)
    /\ Blank(bill, ret)
    /\ StockFits(stock, rows, moved, sold, short)
    /\ \A b \in Bills \ overtaken : Fits(bill[b], ret, moved[b], b)
    /\ NumberedApart(Bills \ overtaken)

----------------------------------------------------------------------------
LEMMA ConstantsHold ==
    /\ IsFiniteSet(Bills) /\ IsFiniteSet(Returns) /\ Imported \subseteq Bills
    /\ \A b \in Bills : Qty(b) \in Nat /\ Qty(b) > 0 /\ BillOf[b].expiry \in 1..Never
    /\ \A x \in Returns : ReturnOf[x].qty \in Nat /\ ReturnOf[x].qty > 0
    /\ Never \in Nat \ {0} /\ Never \in Nat /\ MaxDay \in Nat \ {0}
  BY PurchasesAssumption DEF Qty

LEMMA ReturnsFinite ==
    ASSUME NEW some \in [Returns -> ReturnRow], NEW set \in SUBSET Returns
    PROVE  /\ IsFiniteSet(set) /\ Units(some, set) \in Int /\ Units(some, set) >= 0
<1> DEFINE qty == [x \in set |-> some[x].qty]
           zero == [x \in set |-> 0]
<1>1. IsFiniteSet(set)
  BY ConstantsHold, FS_Subset
<1>2. DOMAIN qty = set /\ DOMAIN zero = set
  OBVIOUS
<1>3. \A x \in set : zero[x] = 0 /\ zero[x] \in Int /\ qty[x] \in Int /\ zero[x] <= qty[x]
  BY DEF ReturnRow
<1> HIDE DEF qty, zero
<1>4. SumFunction(qty) \in Int
  BY <1>1, <1>2, <1>3, TotalInt
<1>5. SumFunction(zero) = 0
  BY <1>1, <1>2, <1>3, TotalZero
<1>6. SumFunction(zero) <= SumFunction(qty)
  BY <1>1, <1>2, <1>3, TotalAtLeast
<1>7. QED
  BY <1>1, <1>4, <1>5, <1>6 DEF Units, qty

\* A return more.
LEMMA UnitsMore ==
    ASSUME NEW old \in [Returns -> ReturnRow], NEW new \in [Returns -> ReturnRow],
           NEW set \in SUBSET Returns, NEW x \in Returns, x \notin set,
           \A y \in Returns : y # x => new[y] = old[y]
    PROVE  Units(new, set \cup {x}) = Units(old, set) + new[x].qty
<1> DEFINE f == [y \in set |-> old[y].qty]
           g == [y \in set \cup {x} |-> new[y].qty]
<1>1. IsFiniteSet(DOMAIN f) /\ x \notin DOMAIN f /\ DOMAIN g = DOMAIN f \cup {x}
  BY ReturnsFinite
<1>2. \A y \in DOMAIN g : g[y] \in Int
  BY DEF ReturnRow
<1>3. (\A y \in DOMAIN f : f[y] = g[y]) /\ g[x] = new[x].qty
  OBVIOUS
<1>4. Units(old, set) = SumFunction(f) /\ Units(new, set \cup {x}) = SumFunction(g)
  BY DEF Units
<1> HIDE DEF f, g
<1>5. SumFunction(g) = SumFunction(f) + g[x]
  BY <1>1, <1>2, <1>3, TotalGrows
<1>6. QED
  BY <1>3, <1>4, <1>5

LEMMA UnitsSame ==
    ASSUME NEW old, NEW new, NEW set, \A y \in set : new[y].qty = old[y].qty
    PROVE  Units(new, set) = Units(old, set)
<1>1. [y \in set |-> new[y].qty] = [y \in set |-> old[y].qty]
  OBVIOUS
<1>2. QED
  BY <1>1 DEF Units

\* Returns of another bill change nothing.
LEMMA ReturnsElsewhere ==
    ASSUME NEW old, NEW new, NEW x, NEW c, NEW row, NEW net,
           \A y \in Returns : y # x => new[y] = old[y],
           old[x].status = "none" \/ old[x].bill # c, new[x].bill # c,
           Fits(row, old, net, c)
    PROVE  Fits(row, new, net, c)
<1>1. ReturnsIn(new, c) = ReturnsIn(old, c) /\ x \notin ReturnsIn(old, c)
  BY DEF ReturnsIn
<1>2. \A y \in ReturnsIn(old, c) : new[y] = old[y]
  BY <1>1 DEF ReturnsIn
<1>3. AwayIn(new, c) = AwayIn(old, c) /\ AwayIn(old, c) \subseteq ReturnsIn(old, c)
  BY <1>1, <1>2 DEF AwayIn
<1>4. \A y \in ReturnsIn(old, c) : new[y].qty = old[y].qty
  BY <1>2
<1>5. Units(new, ReturnsIn(old, c)) = Units(old, ReturnsIn(old, c))
  BY <1>4, UnitsSame
<1>6. Units(new, AwayIn(old, c)) = Units(old, AwayIn(old, c))
  BY <1>3, <1>4, UnitsSame
<1>7. QED
  BY <1>1, <1>3, <1>5, <1>6 DEF Fits

\* A bill of which nothing is returned has no returns.
LEMMA NothingReturned ==
    ASSUME NEW some \in [Returns -> ReturnRow], NEW b,
           \A x \in Returns : some[x].status # "none" => some[x].qty > 0,
           Units(some, ReturnsIn(some, b)) = 0
    PROVE  ReturnsIn(some, b) = {}
<1> DEFINE all == ReturnsIn(some, b)
<1> SUFFICES ASSUME NEW e \in all PROVE FALSE
  OBVIOUS
<1>1. all \in SUBSET Returns /\ all \ {e} \in SUBSET Returns /\ e \in Returns /\ some[e].qty > 0
  BY DEF ReturnsIn
<1>2. Units(some, (all \ {e}) \cup {e}) = Units(some, all \ {e}) + some[e].qty
  <2> DEFINE rest == all \ {e}
  <2>1. rest \in SUBSET Returns /\ e \notin rest /\ e \in Returns
    BY <1>1
  <2> HIDE DEF rest
  <2>2. \A old, new \in [Returns -> ReturnRow] :
          (\A y \in Returns : y # e => new[y] = old[y])
          => Units(new, rest \cup {e}) = Units(old, rest) + new[e].qty
    BY <2>1, UnitsMore
  <2>3. QED
    BY <2>2 DEF rest
<1>3. (all \ {e}) \cup {e} = all
  OBVIOUS
<1>4. Units(some, all \ {e}) \in Int /\ Units(some, all \ {e}) >= 0
  BY <1>1, ReturnsFinite
<1>5. some[e].qty \in Int
  BY <1>1 DEF ReturnRow
<1>6. Units(some, all) = Units(some, all \ {e}) + some[e].qty
  BY <1>2, <1>3
<1>7. Units(some, all) > 0
  BY <1>1, <1>4, <1>5, <1>6
<1>8. QED
  BY <1>7

----------------------------------------------------------------------------
(***************************************************************************)
(* The stock, its batches and what the bills moved.                        *)
(***************************************************************************)
LEMMA MovedMore ==
    ASSUME NEW net \in [Bills -> Int], NEW b \in Bills, NEW q \in Int
    PROVE  /\ [net EXCEPT ![b] = @ + q] \in [Bills -> Int]
           /\ SumFunction([net EXCEPT ![b] = @ + q]) = SumFunction(net) + q
           /\ SumFunction(net) \in Int
<1> DEFINE new == [net EXCEPT ![b] = @ + q]
<1>1. /\ new \in [Bills -> Int] /\ DOMAIN new = DOMAIN net /\ IsFiniteSet(DOMAIN net)
      /\ new[b] = net[b] + q /\ b \in DOMAIN net
      /\ \A c \in DOMAIN net : net[c] \in Int /\ new[c] \in Int
      /\ \A c \in DOMAIN net : c # b => net[c] = new[c]
  BY ConstantsHold
<1> HIDE DEF new
<1>2. SumFunction(new) = SumFunction(net) + (new[b] - net[b])
  BY <1>1, TotalChanged
<1>3. SumFunction(net) \in Int
  BY <1>1, TotalInt
<1>4. QED
  BY <1>1, <1>2, <1>3 DEF new

LEMMA BringInKeeps ==
    ASSUME StockFits(stock, rows, moved, sold, short), NEW b \in Bills, NEW q \in Nat,
           BringIn(b, q), sold' = sold
    PROVE  /\ StockFits(stock', rows', moved', sold', short')
           /\ moved' = [moved EXCEPT ![b] = @ + q]
<1> DEFINE new == [qty |-> q, expiry |-> BillOf[b].expiry, opening |-> FALSE]
           net == [moved EXCEPT ![b] = @ + q]
<1>1. /\ stock' = stock + q /\ rows' = Append(rows, new) /\ moved' = net
      /\ short' = (short \/ stock < 0)
  BY DEF BringIn
<1>2. /\ stock \in Int /\ sold \in Nat /\ moved \in [Bills -> Int] /\ Shelf(rows)
      /\ short \in BOOLEAN
      /\ stock + sold = SumFunction(moved) /\ (~short => Total(rows) = Most(0, stock))
  BY DEF StockFits
<1>3. new \in Batch /\ new.qty = q /\ new.qty >= 0
  BY ConstantsHold DEF Batch
<1>4. q \in Int
  OBVIOUS
<1>5. net \in [Bills -> Int] /\ SumFunction(net) = SumFunction(moved) + q
  <2>1. moved \in [Bills -> Int] /\ q \in Int /\ b \in Bills
    BY <1>2, <1>4
  <2>2. net \in [Bills -> Int]
    BY <2>1, MovedMore
  <2>3. SumFunction(net) = SumFunction(moved) + q
    BY <2>1, MovedMore
  <2>4. QED
    BY <2>2, <2>3
<1> HIDE DEF new, net
<1>6. Shelf(rows') /\ Total(rows) \in Int /\ Total(rows') = Total(rows) + q
  BY <1>1, <1>2, <1>3, ConstantsHold, AppendAdds
<1>7. short' \in BOOLEAN /\ (~short' => ~short /\ stock >= 0)
  <2>1. ~short' => ~short /\ ~(stock < 0)
    BY <1>1, Zenon
  <2>2. short' \in BOOLEAN
    BY <1>1, Zenon
  <2>3. QED
    BY <1>2, <2>1, <2>2
<1>8. ASSUME ~short' PROVE Total(rows') = Most(0, stock')
  <2>1. Total(rows) = Most(0, stock) /\ stock >= 0
    BY <1>2, <1>7, <1>8
  <2>2. QED
    BY <1>1, <1>2, <1>6, <2>1 DEF Most
<1>9. stock' \in Int /\ sold' \in Nat /\ stock' + sold' = SumFunction(moved')
  BY <1>1, <1>2, <1>5
<1>10. moved' \in [Bills -> Int]
  BY <1>1, <1>5
<1>11. QED
  BY <1>1, <1>6, <1>7, <1>8, <1>9, <1>10 DEF StockFits, net

LEMMA TakeOutKeeps ==
    ASSUME StockFits(stock, rows, moved, sold, short), NEW b \in Bills, NEW q \in Nat,
           TakeOut(b, q), sold' = sold
    PROVE  /\ StockFits(stock', rows', moved', sold', short')
           /\ b \in Imported => moved' = moved
           /\ b \notin Imported => moved' = [moved EXCEPT ![b] = @ - q]
<1>1. CASE b \in Imported
  BY <1>1 DEF TakeOut, StockFits
<1>2. CASE b \notin Imported
  <2> DEFINE own == bill[b].batch
             first == [rows EXCEPT ![own].qty = @ - Least(Most(0, @), q)]
             left == stock - q
             net == [moved EXCEPT ![b] = @ - q]
             less == -q
  <2>1. /\ stock' = left /\ rows' = Reconcile(first, left) /\ moved' = net /\ short' = FALSE
    BY <1>2 DEF TakeOut
  <2>2. /\ stock \in Int /\ sold \in Nat /\ moved \in [Bills -> Int] /\ Shelf(rows)
        /\ stock + sold = SumFunction(moved) /\ left \in Int /\ less \in Int
    BY DEF StockFits
  <2>3. Shelf(first)
    <3>1. /\ rows \in Seq(Batch) /\ \A i \in DOMAIN rows : rows[i].qty >= 0
          /\ Len(rows) \in Nat /\ DOMAIN rows = 1..Len(rows)
          /\ \A i \in DOMAIN rows : rows[i] \in Batch /\ rows[i].qty \in Int
      BY <2>2, ConstantsHold, ShelfParts DEF Shelf
    <3>2. CASE own \notin DOMAIN rows
      <4>1. first = rows
        BY <3>1, <3>2
      <4>2. QED
        BY <2>2, <4>1
    <3>3. CASE own \in DOMAIN rows
      <4> DEFINE old == rows[own]
                 n == old.qty - Least(Most(0, old.qty), q)
                 new == [old EXCEPT !.qty = n]
      <4>1. old \in Batch /\ old.qty \in Int /\ old.qty >= 0
        BY <3>1, <3>3
      <4>2. n \in Int /\ n >= 0
        BY <4>1 DEF Least, Most
      <4>3. first = [rows EXCEPT ![own] = new]
        OBVIOUS
      <4> HIDE DEF n, old
      <4>4. new \in Batch /\ new.qty = n
        BY <4>1, <4>2 DEF Batch
      <4> HIDE DEF new, first
      <4>5. first \in Seq(Batch) /\ DOMAIN first = DOMAIN rows
        BY <3>1, <3>3, <4>3, <4>4
      <4>6. \A i \in DOMAIN rows : first[i] = IF i = own THEN new ELSE rows[i]
        BY <3>1, <3>3, <4>3
      <4>7. \A i \in DOMAIN first : first[i].qty >= 0
        BY <3>1, <4>2, <4>4, <4>5, <4>6
      <4>8. QED
        BY <4>5, <4>7 DEF Shelf
    <3>4. QED
      BY <3>2, <3>3
  <2>4. net = [moved EXCEPT ![b] = @ + less]
    BY <2>2
  <2>5. net \in [Bills -> Int] /\ SumFunction(net) = SumFunction(moved) + less
        /\ SumFunction(moved) \in Int
    <3> HIDE DEF less, net
    <3>1. /\ [moved EXCEPT ![b] = @ + less] \in [Bills -> Int]
          /\ SumFunction([moved EXCEPT ![b] = @ + less]) = SumFunction(moved) + less
          /\ SumFunction(moved) \in Int
      BY <2>2, MovedMore
    <3>2. QED
      BY <2>4, <3>1
  <2> HIDE DEF first, net
  <2>6. Shelf(rows') /\ Total(rows') = Most(0, stock')
    <3> HIDE DEF left
    <3>1. QED
      BY <2>1, <2>2, <2>3, ConstantsHold, ReconcileEvens
  <2>7. stock' \in Int /\ sold' \in Nat /\ stock' + sold' = SumFunction(moved')
        /\ moved' \in [Bills -> Int]
    <3>1. SumFunction(net) = (stock + sold) - q
      BY <2>2, <2>5
    <3>2. left + sold = (stock + sold) - q
      BY <2>2
    <3>3. QED
      BY <2>1, <2>2, <2>5, <3>1, <3>2
  <2>8. QED
    <3>1. short' \in BOOLEAN
      BY <2>1
    <3>2. b \in Imported => moved' = moved
      BY <1>2
    <3>3. moved' = [moved EXCEPT ![b] = @ - q]
      BY <2>1 DEF net
    <3>4. StockFits(stock', rows', moved', sold', short')
      BY <2>6, <2>7, <3>1 DEF StockFits
    <3>5. QED
      BY <3>2, <3>3, <3>4
<1>3. QED
  BY <1>1, <1>2

LEMMA SellKeepsStock ==
    ASSUME StockFits(stock, rows, moved, sold, short), Sell(1)
    PROVE  StockFits(stock', rows', moved', sold', short')
<1> DEFINE none == 0
           one == 1
           take == PlanTake(rows, one, none).take
           t == SumFunction(take)
<1>1. /\ stock' = stock - 1 /\ rows' = Out(rows, take) /\ sold' = sold + 1
      /\ UNCHANGED <<moved, short>>
  BY DEF Sell
<1>2. /\ stock \in Int /\ sold \in Nat /\ moved \in [Bills -> Int] /\ Shelf(rows)
      /\ short \in BOOLEAN /\ one \in Nat
      /\ stock + sold = SumFunction(moved) /\ (~short => Total(rows) = Most(0, stock))
  BY DEF StockFits
<1>3. /\ take \in [DOMAIN rows -> Nat] /\ t = Least(one, Total(rows))
      /\ \A i \in DOMAIN rows : take[i] <= rows[i].qty
  <2> HIDE DEF one, none
  <2>1. QED
    BY <1>2, ConstantsHold, PlanTakeTakes
<1> HIDE DEF take
<1>4. /\ Shelf(Out(rows, take)) /\ Total(rows) \in Int /\ t \in Int
      /\ Total(Out(rows, take)) = Total(rows) - t
  BY <1>2, <1>3, ConstantsHold, OutTakesOut
<1> HIDE DEF t
<1>5. ASSUME ~short' PROVE Total(rows') = Most(0, stock')
  <2>1. Total(rows) = Most(0, stock)
    BY <1>1, <1>2, <1>5
  <2>2. QED
    BY <1>1, <1>2, <1>3, <1>4, <2>1 DEF Most, Least
<1>6. stock' \in Int /\ sold' \in Nat /\ stock' + sold' = SumFunction(moved')
  BY <1>1, <1>2
<1>7. QED
  BY <1>1, <1>2, <1>4, <1>5, <1>6 DEF StockFits
----------------------------------------------------------------------------
(***************************************************************************)
(* The handlers.                                                           *)
(***************************************************************************)
LEMMA RequestSet ==
    ASSUME req = [r \in Requests |-> req[r]], NEW r \in Requests, NEW w,
           req' = [req EXCEPT ![r] = w]
    PROVE  /\ req' = [q \in Requests |-> req'[q]] /\ req'[r] = w
           /\ \A q \in Requests : q # r => req'[q] = req[q]
<1>1. req' = [q \in Requests |-> IF q = r THEN w ELSE req[q]]
  OBVIOUS
<1>2. QED
  BY <1>1

\* What is checked stays checked while overtaken bills are only added and
\* returns keep their bill.
LEMMA CheckedStill ==
    ASSUME NEW w, NEW all, NEW more, NEW old, NEW new, NEW late, NEW later,
           Checked(w, all, old, late), late \subseteq later,
           \A b \in Bills : all[b].status # "none" => more[b].status # "none",
           \A x \in Returns : old[x].status # "none" =>
              new[x].status # "none" /\ new[x].bill = old[x].bill
    PROVE  Checked(w, more, new, later)
<1>1. w.op = "cancel" =>
          \E row \in BillRow : /\ w.saw = <<row>> /\ row.status = "live"
                               /\ w.bill \notin later => row.returned = 0
  BY DEF Checked
<1>2. w.op = "receive" =>
          /\ w.ret \in Returns /\ new[w.ret].status # "none" /\ new[w.ret].bill = w.bill
          /\ \E row \in ReturnRow : w.saw = <<row>> /\ row.status = "PENDING"
  BY DEF Checked
<1>3. w.op = "return" => more[w.bill].status # "none"
  BY DEF Checked
<1>4. QED
  BY <1>1, <1>2, <1>3 DEF Checked

LEMMA IdleChecked == ASSUME NEW all, NEW some, NEW late PROVE Checked(Idle, all, some, late)
  BY DEF Checked, Idle

\* A handler that begins, having checked what it read.
LEMMA BeginKeeps ==
    ASSUME PurchaseInv, NEW r \in Requests, NEW w, Begin(r, w), Checked(w, bill, ret, overtaken)
    PROVE  PurchaseInv'
<1>1. /\ req' = [req EXCEPT ![r] = w]
      /\ UNCHANGED <<bill, ret, stock, rows, archived, day, moved, sold, overtaken, short>>
  BY DEF Begin
<1>2. /\ req' = [q \in Requests |-> req'[q]] /\ req'[r] = w
      /\ \A q \in Requests : q # r => req'[q] = req[q]
  BY <1>1, RequestSet DEF PurchaseInv
<1>3. \A q \in Requests : Checked(req'[q], bill, ret, overtaken)
  BY <1>2 DEF PurchaseInv
<1>4. BooksTyped' /\ NumberedApart(Bills \ overtaken)'
  BY <1>1 DEF PurchaseInv, BooksTyped, NumberedApart, Live
<1>5. \A q \in Requests : Checked(req'[q], bill', ret', overtaken')
  BY <1>1, <1>3
<1>6. \A b \in Bills \ overtaken' : Fits(bill'[b], ret', moved'[b], b)
  BY <1>1 DEF PurchaseInv
<1>7. Blank(bill', ret') /\ StockFits(stock', rows', moved', sold', short')
  BY <1>1 DEF PurchaseInv
<1>8. QED
  BY <1>2, <1>4, <1>5, <1>6, <1>7 DEF PurchaseInv

LEMMA CreateChecked ==
    ASSUME NEW b \in Bills, ~Duplicate(b), NEW x
    PROVE  Checked(Asked("create", b, x), bill, ret, overtaken)
<1> DEFINE w == Asked("create", b, x)
<1>1. w.op = "create" /\ w.bill = b /\ w.saw = <<BillOf[b].supplier \in archived, Duplicate(b)>>
  BY DEF Asked, Reads
<1>2. Duplicate(b) = FALSE
  BY Zenon DEF Duplicate
<1>3. w.saw = <<BillOf[b].supplier \in archived, FALSE>>
  BY <1>1, <1>2, Zenon
<1>4. (BillOf[b].supplier \in archived) \in BOOLEAN
  OBVIOUS
<1>5. \E gone \in BOOLEAN : w.saw = <<gone, FALSE>>
  BY <1>3, <1>4, Zenon
<1> HIDE DEF w
<1>6. QED
  BY <1>1, <1>5 DEF Checked, w

LEMMA CancelChecked ==
    ASSUME PurchaseInv, NEW b \in Bills, MayCancel(b), NEW x
    PROVE  Checked(Asked("cancel", b, x), bill, ret, overtaken)
<1> DEFINE w == Asked("cancel", b, x)
<1>1. w.op = "cancel" /\ w.bill = b /\ w.saw = <<bill[b]>>
  BY DEF Asked, Reads
<1>2. bill[b] \in BillRow /\ bill[b].status = "live"
  BY DEF PurchaseInv, BooksTyped, MayCancel, Live
<1>3. ASSUME b \notin overtaken PROVE bill[b].returned = 0
  <2>1. bill[b].returned = Units(ret, ReturnsIn(ret, b))
    BY <1>3 DEF PurchaseInv, Fits
  <2>2. ReturnsIn(ret, b) = {}
    BY DEF MayCancel, ReturnsIn, ReturnsOf
  <2> DEFINE none == [y \in {} |-> ret[y].qty]
  <2>3. DOMAIN none = {}
    OBVIOUS
  <2>4. Units(ret, {}) = SumFunction(none)
    BY DEF Units
  <2> HIDE DEF none
  <2>5. SumFunction(none) = 0
    BY <2>3, TotalEmpty
  <2>6. QED
    BY <2>1, <2>2, <2>4, <2>5
<1> HIDE DEF w
<1>4. QED
  BY <1>1, <1>2, <1>3 DEF Checked, w

LEMMA ReturnChecked ==
    ASSUME PurchaseInv, NEW b \in Bills, NEW x \in Returns, Live(b), ReturnOf[x].qty <= Returnable(b)
    PROVE  Checked(Asked("return", b, x), bill, ret, overtaken)
<1> DEFINE w == Asked("return", b, x)
<1>1. w.op = "return" /\ w.bill = b /\ w.ret = x /\ w.saw = <<bill[b]>>
  BY DEF Asked, Reads
<1>2. /\ bill[b] \in BillRow /\ bill[b].status = "live"
      /\ ReturnOf[x].qty <= Qty(b) - bill[b].returned
  BY DEF PurchaseInv, BooksTyped, Live, Returnable
<1> HIDE DEF w
<1>3. QED
  BY <1>1, <1>2 DEF Checked, w

LEMMA ReceiveChecked ==
    ASSUME PurchaseInv, NEW x \in Returns, Awaited(x)
    PROVE  Checked(Asked("receive", ret[x].bill, x), bill, ret, overtaken)
<1> DEFINE w == Asked("receive", ret[x].bill, x)
<1>1. w.op = "receive" /\ w.bill = ret[x].bill /\ w.ret = x /\ w.saw = <<ret[x]>>
  BY DEF Asked, Reads
<1>2. ret[x] \in ReturnRow /\ ret[x].status = "PENDING" /\ ret[x].bill \in Bills
  BY DEF PurchaseInv, BooksTyped, Blank, Awaited
<1> HIDE DEF w
<1>3. QED
  BY <1>1, <1>2 DEF Checked, w

\* A transaction of r on bill b that is not overtaken by it was not before, and
\* nothing changed of what it read.
LEMMA FinishDoes ==
    ASSUME PurchaseInv, NEW r \in Requests, Finish(r), req[r].bill \in Bills
    PROVE  LET w == req[r]
           IN  /\ req' = [q \in Requests |-> req'[q]] /\ req'[r] = Idle
               /\ \A q \in Requests : q # r => req'[q] = req[q]
               /\ overtaken \subseteq overtaken' /\ overtaken' \subseteq Bills
               /\ w.bill \notin overtaken' => w.saw = Reads(w.op, w.bill, w.ret)
               /\ UNCHANGED <<archived, day, sold>>
<1> DEFINE w == req[r]
           same == w.saw = Reads(w.op, w.bill, w.ret)
<1>1. /\ req' = [req EXCEPT ![r] = Idle] /\ UNCHANGED <<archived, day, sold>>
      /\ overtaken' = IF same THEN overtaken ELSE overtaken \cup {w.bill}
  BY DEF Finish
<1>2. /\ req' = [q \in Requests |-> req'[q]] /\ req'[r] = Idle
      /\ \A q \in Requests : q # r => req'[q] = req[q]
  BY <1>1, RequestSet DEF PurchaseInv
<1>3. overtaken \subseteq Bills
  BY DEF PurchaseInv, BooksTyped
<1> HIDE DEF same
<1>4. /\ overtaken \subseteq overtaken' /\ overtaken' \subseteq Bills
      /\ w.bill \notin overtaken' => same
  BY <1>1, <1>3
<1>5. QED
  BY <1>1, <1>2, <1>4 DEF same

\* A transaction of r keeps the invariant when it keeps every part of it for
\* its own bill and return.
LEMMA CommitKeeps ==
    ASSUME PurchaseInv, NEW r \in Requests, Finish(r), req[r].bill \in Bills,
           bill' \in [Bills -> BillRow], ret' \in [Returns -> ReturnRow],
           StockFits(stock', rows', moved', sold', short'),
           Blank(bill', ret'),
           \A b \in Bills : bill[b].status # "none" => bill'[b].status # "none",
           \A x \in Returns : ret[x].status # "none" =>
              ret'[x].status # "none" /\ ret'[x].bill = ret[x].bill,
           \A b \in Bills \ overtaken : b # req[r].bill => Fits(bill'[b], ret', moved'[b], b),
           req[r].bill \notin overtaken' => Fits(bill'[req[r].bill], ret', moved'[req[r].bill], req[r].bill),
           NumberedApart(Bills \ overtaken)'
    PROVE  PurchaseInv'
<1> DEFINE w == req[r]
<1>1. /\ req' = [q \in Requests |-> req'[q]] /\ req'[r] = Idle
      /\ \A q \in Requests : q # r => req'[q] = req[q]
      /\ overtaken \subseteq overtaken' /\ overtaken' \subseteq Bills
      /\ UNCHANGED <<archived, day, sold>>
  BY FinishDoes
<1>2. BooksTyped'
  BY <1>1 DEF PurchaseInv, BooksTyped
<1>3. \A q \in Requests : Checked(req'[q], bill', ret', overtaken')
  <2> SUFFICES ASSUME NEW q \in Requests PROVE Checked(req'[q], bill', ret', overtaken')
    OBVIOUS
  <2>1. CASE q = r
    BY <1>1, <2>1, IdleChecked
  <2>2. CASE q # r
    <3>1. Checked(req[q], bill, ret, overtaken) /\ req'[q] = req[q]
      BY <1>1, <2>2 DEF PurchaseInv
    <3>2. Checked(req[q], bill', ret', overtaken')
      BY <1>1, <3>1, CheckedStill
    <3>3. QED
      BY <3>1, <3>2
  <2>3. QED
    BY <2>1, <2>2
<1>4. \A b \in Bills \ overtaken' : Fits(bill'[b], ret', moved'[b], b)
  BY <1>1
<1>5. QED
  BY <1>1, <1>2, <1>3, <1>4 DEF PurchaseInv
\* A transaction that makes no bill live keeps the numbers apart.
LEMMA StillApart ==
    ASSUME NumberedApart(Bills \ overtaken), overtaken \subseteq overtaken',
           \A b \in Bills : bill'[b].status = "live" => bill[b].status = "live"
    PROVE  NumberedApart(Bills \ overtaken)'
  BY DEF NumberedApart, Live

LEMMA NewBill ==
    ASSUME NEW first, NEW today
    PROVE  [NoBill EXCEPT !.status = "live", !.batch = first, !.day = today]
           = [status |-> "live", returned |-> 0, batch |-> first, day |-> today]
<1> DEFINE a == [status |-> "live", returned |-> 0, batch |-> 0, day |-> 0]
           b == [status |-> "live", returned |-> 0, batch |-> first, day |-> 0]
<1>1. [NoBill EXCEPT !.status = "live"] = a
  BY DEF NoBill
<1>2. [a EXCEPT !.batch = first] = b
  OBVIOUS
<1>3. [b EXCEPT !.day = today]
      = [status |-> "live", returned |-> 0, batch |-> first, day |-> today]
  OBVIOUS
<1>4. [NoBill EXCEPT !.status = "live", !.batch = first, !.day = today]
      = [[[NoBill EXCEPT !.status = "live"] EXCEPT !.batch = first] EXCEPT !.day = today]
  OBVIOUS
<1> HIDE DEF a, b
<1>5. QED
  BY <1>1, <1>2, <1>3, <1>4

LEMMA CommitCreateKeeps ==
    ASSUME PurchaseInv, NEW r \in Requests, CommitCreate(r)
    PROVE  PurchaseInv'
<1> DEFINE w == req[r]
           b == w.bill
           new == [status |-> "live", returned |-> 0, batch |-> Len(rows) + 1, day |-> day]
<1>1. /\ w.op = "create" /\ bill[b].status = "none" /\ BringIn(b, Qty(b)) /\ Finish(r)
      /\ bill' = [bill EXCEPT ![b] = [NoBill EXCEPT !.status = "live", !.batch = Len(rows) + 1, !.day = day]]
      /\ ret' = ret
  BY DEF CommitCreate
<1>2. b \in Bills /\ \E gone \in BOOLEAN : w.saw = <<gone, FALSE>>
  BY <1>1 DEF PurchaseInv, Checked
<1>3. /\ overtaken \subseteq overtaken' /\ overtaken' \subseteq Bills
      /\ b \notin overtaken' => w.saw = Reads("create", b, w.ret)
      /\ sold' = sold
  BY <1>1, <1>2, FinishDoes
<1>4. /\ bill \in [Bills -> BillRow] /\ ret \in [Returns -> ReturnRow] /\ day \in 0..MaxDay
      /\ StockFits(stock, rows, moved, sold, short) /\ Len(rows) + 1 \in Nat
      /\ moved \in [Bills -> Int]
      /\ Qty(b) \in Nat /\ Qty(b) > 0
  <2>1. day \in 1..MaxDay /\ MaxDay \in Nat /\ Shelf(rows)
    BY ConstantsHold DEF PurchaseInv, BooksTyped, StockFits
  <2>2. Len(rows) \in Nat
    BY <2>1 DEF Shelf
  <2>3. QED
    BY <1>2, <2>1, <2>2, ConstantsHold DEF PurchaseInv, BooksTyped, StockFits
<1>5. bill' = [bill EXCEPT ![b] = new]
  <2>1. [NoBill EXCEPT !.status = "live", !.batch = Len(rows) + 1, !.day = day] = new
    BY NewBill
  <2> HIDE DEF new
  <2>2. QED
    BY <1>1, <2>1
<1>6. new \in BillRow /\ new.status = "live" /\ new.returned = 0
  BY <1>4 DEF BillRow
<1> HIDE DEF new
<1>7. /\ bill' \in [Bills -> BillRow] /\ bill'[b] = new
      /\ \A c \in Bills : c # b => bill'[c] = bill[c]
  BY <1>2, <1>4, <1>5, <1>6
<1>8. /\ StockFits(stock', rows', moved', sold', short')
      /\ moved' = [moved EXCEPT ![b] = @ + Qty(b)]
  <2> DEFINE q == Qty(b)
  <2> HIDE DEF q, b
  <2>1. b \in Bills /\ q \in Nat /\ BringIn(b, q)
    BY <1>1, <1>2, <1>4 DEF q
  <2>2. QED
    BY <1>3, <1>4, <2>1, BringInKeeps DEF q
<1>9. moved'[b] = moved[b] + Qty(b) /\ \A c \in Bills : c # b => moved'[c] = moved[c]
  BY <1>2, <1>4, <1>8
<1>10. bill[b] = NoBill /\ b \notin Imported
  BY <1>1, <1>2 DEF PurchaseInv, Blank
<1>11. Blank(bill', ret')
  <2>1. Blank(bill, ret)
    BY DEF PurchaseInv
  <2>2. QED
    BY <1>1, <1>6, <1>7, <2>1 DEF Blank
<1>12. ASSUME b \notin overtaken' PROVE Fits(bill'[b], ret', moved'[b], b)
  <2>1. Fits(bill[b], ret, moved[b], b)
    BY <1>2, <1>3, <1>12 DEF PurchaseInv
  <2>2. moved[b] = 0 /\ Units(ret, ReturnsIn(ret, b)) = 0
    BY <1>10, <2>1 DEF Fits, NoBill
  <2>3. \A x \in Returns : ret[x].status # "none" => ret[x].qty > 0
    BY DEF PurchaseInv, Blank
  <2>4. ReturnsIn(ret, b) = {}
    BY <1>4, <2>2, <2>3, NothingReturned
  <2>5. AwayIn(ret, b) = ReturnsIn(ret, b)
    BY <2>4 DEF AwayIn
  <2>6. moved'[b] = Qty(b) /\ Qty(b) = Qty(b) - 0 /\ 0 <= Qty(b)
    BY <1>4, <1>9, <2>2
  <2>7. QED
    BY <1>1, <1>6, <1>7, <1>10, <2>2, <2>4, <2>5, <2>6 DEF Fits
<1>13. \A c \in Bills \ overtaken : c # b => Fits(bill'[c], ret', moved'[c], c)
  BY <1>1, <1>7, <1>9 DEF PurchaseInv
<1>14. NumberedApart(Bills \ overtaken)'
  <2> SUFFICES ASSUME NEW c \in Bills \ overtaken', NEW d \in Bills \ overtaken',
                      c # d, ~({c, d} \subseteq Imported),
                      bill'[c].status = "live", bill'[d].status = "live",
                      BillOf[c].supplier = BillOf[d].supplier
               PROVE  BillOf[c].number # BillOf[d].number
    BY DEF NumberedApart, Live
  <2>1. ASSUME b \notin overtaken', NEW e \in Bills, bill[e].status = "live",
               BillOf[e].supplier = BillOf[b].supplier
        PROVE  BillOf[e].number # BillOf[b].number
    <3>1. w.saw = <<BillOf[b].supplier \in archived, Duplicate(b)>>
      BY <1>3, <2>1 DEF Reads
    <3>2. w.saw[2] = FALSE
      BY <1>2
    <3>3. w.saw[2] = Duplicate(b)
      BY <3>1
    <3>4. ~Duplicate(b)
      BY <3>2, <3>3, Zenon
    <3>5. QED
      BY <2>1, <3>4 DEF Duplicate, Live
  <2>2. CASE c = b
    <3>1. bill[d].status = "live"
      BY <1>7, <2>2
    <3>2. QED
      BY <2>1, <2>2, <3>1
  <2>3. CASE d = b
    <3>1. bill[c].status = "live"
      BY <1>7, <2>3
    <3>2. QED
      BY <2>1, <2>3, <3>1
  <2>4. CASE c # b /\ d # b
    <3>1. bill[c].status = "live" /\ bill[d].status = "live"
      BY <1>7, <2>4
    <3>2. c \in Bills \ overtaken /\ d \in Bills \ overtaken
      BY <1>3
    <3>3. QED
      BY <3>1, <3>2 DEF PurchaseInv, NumberedApart, Live
  <2>5. QED
    BY <2>2, <2>3, <2>4
<1>15. \A x \in Returns : ret[x].status # "none" =>
          ret'[x].status # "none" /\ ret'[x].bill = ret[x].bill
  BY <1>1
<1>16. ret' \in [Returns -> ReturnRow]
  BY <1>1, <1>4
<1>17. \A c \in Bills : bill[c].status # "none" => bill'[c].status # "none"
  BY <1>6, <1>7
<1>18. QED
  BY <1>17, <1>1, <1>2, <1>7, <1>8, <1>11, <1>12, <1>13, <1>14, <1>15, <1>16, CommitKeeps

LEMMA CommitCancelKeeps ==
    ASSUME PurchaseInv, NEW r \in Requests, CommitCancel(r)
    PROVE  PurchaseInv'
<1> DEFINE w == req[r]
           b == w.bill
<1>1. /\ w.op = "cancel" /\ TakeOut(b, Qty(b)) /\ Finish(r)
      /\ bill' = [bill EXCEPT ![b].status = "cancelled"]
      /\ ret' = ret
  BY DEF CommitCancel
<1>2. b \in Bills
  BY <1>1 DEF PurchaseInv, Checked
<1>3. PICK row \in BillRow : /\ w.saw = <<row>> /\ row.status = "live"
                             /\ b \notin overtaken => row.returned = 0
  BY <1>1 DEF PurchaseInv, Checked
<1>4. /\ overtaken \subseteq overtaken' /\ overtaken' \subseteq Bills
      /\ b \notin overtaken' => w.saw = Reads("cancel", b, w.ret)
      /\ sold' = sold
  BY <1>1, <1>2, FinishDoes
<1>5. /\ bill \in [Bills -> BillRow] /\ ret \in [Returns -> ReturnRow]
      /\ StockFits(stock, rows, moved, sold, short)
      /\ moved \in [Bills -> Int]
      /\ Qty(b) \in Nat /\ Qty(b) > 0
  BY <1>2, ConstantsHold DEF PurchaseInv, BooksTyped, StockFits
<1>6. /\ bill' \in [Bills -> BillRow]
      /\ bill'[b].status = "cancelled" /\ bill'[b].returned = bill[b].returned
      /\ \A c \in Bills : c # b => bill'[c] = bill[c]
  BY <1>1, <1>2, <1>5 DEF BillRow
<1>7. /\ StockFits(stock', rows', moved', sold', short')
      /\ b \in Imported => moved' = moved
      /\ b \notin Imported => moved' = [moved EXCEPT ![b] = @ - Qty(b)]
  <2> DEFINE q == Qty(b)
  <2> HIDE DEF q, b
  <2>1. b \in Bills /\ q \in Nat /\ TakeOut(b, q)
    BY <1>1, <1>2, <1>5 DEF q
  <2>2. QED
    BY <1>4, <1>5, <2>1, TakeOutKeeps DEF q
<1>8. /\ b \in Imported => moved'[b] = moved[b]
      /\ b \notin Imported => moved'[b] = moved[b] - Qty(b)
      /\ \A c \in Bills : c # b => moved'[c] = moved[c]
  BY <1>2, <1>5, <1>7
<1>9. Blank(bill', ret')
  <2>1. Blank(bill, ret)
    BY DEF PurchaseInv
  <2>2. QED
    BY <1>1, <1>6, <2>1 DEF Blank
<1>10. ASSUME b \notin overtaken' PROVE Fits(bill'[b], ret', moved'[b], b)
  <2>1. Fits(bill[b], ret, moved[b], b) /\ b \notin overtaken
    BY <1>2, <1>4, <1>10 DEF PurchaseInv
  <2>2. w.saw = <<bill[b]>>
    BY <1>4, <1>10 DEF Reads
  <2>3. bill[b] = row
    BY <1>3, <2>2
  <2>4. bill[b].status = "live" /\ bill[b].returned = 0
    BY <1>3, <2>1, <2>3
  <2>5. Units(ret, ReturnsIn(ret, b)) = 0
    BY <2>1, <2>4 DEF Fits
  <2>6. \A x \in Returns : ret[x].status # "none" => ret[x].qty > 0
    BY DEF PurchaseInv, Blank
  <2>7. ReturnsIn(ret, b) = {}
    BY <1>5, <2>5, <2>6, NothingReturned
  <2>8. AwayIn(ret, b) = ReturnsIn(ret, b)
    BY <2>7 DEF AwayIn
  <2>9. moved[b] = IF b \in Imported THEN 0 ELSE Qty(b) - 0
    BY <2>1, <2>4, <2>5, <2>8 DEF Fits
  <2>10. moved'[b] = 0 /\ 0 <= Qty(b)
    BY <1>5, <1>8, <2>9
  <2>11. QED
    BY <1>1, <1>6, <2>4, <2>5, <2>7, <2>10 DEF Fits
<1>11. \A c \in Bills \ overtaken : c # b => Fits(bill'[c], ret', moved'[c], c)
  BY <1>1, <1>6, <1>8 DEF PurchaseInv
<1>12. NumberedApart(Bills \ overtaken)'
  <2>1. NumberedApart(Bills \ overtaken)
    BY DEF PurchaseInv
  <2>2. \A c \in Bills : bill'[c].status = "live" => bill[c].status = "live"
    BY <1>6
  <2>3. QED
    BY <1>4, <2>1, <2>2, StillApart
<1>13. \A x \in Returns : ret[x].status # "none" =>
          ret'[x].status # "none" /\ ret'[x].bill = ret[x].bill
  BY <1>1
<1>14. ret' \in [Returns -> ReturnRow]
  BY <1>1, <1>5
<1>15. \A c \in Bills : bill[c].status # "none" => bill'[c].status # "none"
  BY <1>6
<1>16. QED
  BY <1>15, <1>1, <1>2, <1>6, <1>7, <1>9, <1>10, <1>11, <1>12, <1>13, <1>14, CommitKeeps
\* A return more: what a bill moved goes down by it, what was returned of it up.
LEMMA ReturnMade ==
    ASSUME NEW old \in [Returns -> ReturnRow], NEW new \in [Returns -> ReturnRow],
           NEW x \in Returns, NEW b, NEW row \in BillRow, NEW after, NEW net \in Int, NEW later,
           \A y \in Returns : y # x => new[y] = old[y],
           old[x].status = "none", new[x].status \in {"SETTLED", "PENDING"}, new[x].bill = b,
           Fits(row, old, net, b), row.status = "live",
           after.status = "live", after.returned = row.returned + new[x].qty,
           Qty(b) \in Nat, after.returned <= Qty(b),
           later = IF b \in Imported THEN net ELSE net - new[x].qty
    PROVE  Fits(after, new, later, b)
<1> DEFINE all == ReturnsIn(old, b)
           away == AwayIn(old, b)
<1>1. /\ all \in SUBSET Returns /\ away \in SUBSET Returns /\ x \notin all /\ x \notin away
  BY DEF ReturnsIn, AwayIn
<1>2. ReturnsIn(new, b) = all \cup {x}
  BY DEF ReturnsIn
<1>3. AwayIn(new, b) = away \cup {x}
  <2>1. \A y \in all : new[y] = old[y]
    BY <1>1
  <2>2. QED
    BY <1>2, <2>1 DEF AwayIn
<1>4. /\ Units(new, all \cup {x}) = Units(old, all) + new[x].qty
      /\ Units(new, away \cup {x}) = Units(old, away) + new[x].qty
  <2> HIDE DEF all, away
  <2>1. Units(new, all \cup {x}) = Units(old, all) + new[x].qty
    BY <1>1, UnitsMore
  <2>2. Units(new, away \cup {x}) = Units(old, away) + new[x].qty
    BY <1>1, UnitsMore
  <2>3. QED
    BY <2>1, <2>2
<1>5. Units(old, all) \in Int /\ Units(old, away) \in Int
  <2> HIDE DEF all, away
  <2>1. QED
    BY <1>1, ReturnsFinite
<1>6. new[x].qty \in Int
  BY DEF ReturnRow
<1>7. row.returned = Units(old, all)
      /\ net = IF b \notin Imported THEN Qty(b) - Units(old, away) ELSE 0
  BY DEF Fits
<1>8. after.returned = Units(new, ReturnsIn(new, b))
  BY <1>2, <1>4, <1>7
<1>9. later = IF b \notin Imported THEN Qty(b) - Units(new, AwayIn(new, b)) ELSE 0
  <2> HIDE DEF all, away
  <2>1. CASE b \in Imported
    BY <1>7, <2>1
  <2>2. CASE b \notin Imported
    <3>1. later = (Qty(b) - Units(old, away)) - new[x].qty
      BY <1>7, <2>2
    <3>2. Units(new, AwayIn(new, b)) = Units(old, away) + new[x].qty
      BY <1>3, <1>4
    <3>3. QED
      BY <1>5, <1>6, <2>2, <3>1, <3>2
  <2>3. QED
    BY <2>1, <2>2
<1>10. QED
  BY <1>8, <1>9 DEF Fits

\* A replacement that is received comes back into stock.
LEMMA ReplacementReceived ==
    ASSUME NEW old \in [Returns -> ReturnRow], NEW new \in [Returns -> ReturnRow],
           NEW x \in Returns, NEW b, NEW row \in BillRow, NEW net \in Int, NEW later,
           \A y \in Returns : y # x => new[y] = old[y],
           old[x].status = "PENDING", new[x].status = "RECEIVED",
           new[x].bill = b, old[x].bill = b, new[x].qty = old[x].qty,
           Fits(row, old, net, b), row.status # "none", Qty(b) \in Nat,
           later = IF b \in Imported THEN net ELSE net + old[x].qty
    PROVE  Fits(row, new, later, b)
<1> DEFINE all == ReturnsIn(old, b)
           away == AwayIn(old, b)
           rest == away \ {x}
<1>1. /\ all \in SUBSET Returns /\ rest \in SUBSET Returns /\ x \in all /\ x \in away
      /\ x \notin rest /\ away = rest \cup {x}
  BY DEF ReturnsIn, AwayIn
<1>2. ReturnsIn(new, b) = all
  <2>1. \A y \in Returns : (new[y].status # "none" /\ new[y].bill = b)
                           <=> (old[y].status # "none" /\ old[y].bill = b)
    OBVIOUS
  <2>2. QED
    BY <2>1 DEF ReturnsIn
<1>3. AwayIn(new, b) = rest
  <2>1. \A y \in all : y # x => new[y] = old[y]
    BY <1>1
  <2>2. QED
    BY <1>2, <2>1 DEF AwayIn
<1>4. row.status = "live"
  BY <1>1 DEF Fits, BillRow
<1>5. Units(new, all) = Units(old, all)
  <2>1. \A y \in all : new[y].qty = old[y].qty
    BY <1>1
  <2> HIDE DEF all
  <2>2. QED
    BY <2>1, UnitsSame
<1>6. Units(old, away) = Units(new, rest) + old[x].qty
  <2> HIDE DEF rest
  <2>1. \A y \in Returns : y # x => old[y] = new[y]
    OBVIOUS
  <2>2. Units(old, rest \cup {x}) = Units(new, rest) + old[x].qty
    BY <1>1, <2>1, UnitsMore
  <2>3. QED
    BY <1>1, <2>2
<1>7. Units(new, rest) \in Int /\ old[x].qty \in Int
  <2>1. old[x].qty \in Int
    BY DEF ReturnRow
  <2> HIDE DEF rest
  <2>2. QED
    BY <1>1, <2>1, ReturnsFinite
<1>8. row.returned = Units(old, all) /\ row.returned <= Qty(b)
      /\ net = IF b \notin Imported THEN Qty(b) - Units(old, away) ELSE 0
  BY <1>4 DEF Fits
<1>9. later = IF b \notin Imported THEN Qty(b) - Units(new, AwayIn(new, b)) ELSE 0
  <2> HIDE DEF all, away, rest
  <2>1. CASE b \in Imported
    BY <1>8, <2>1
  <2>2. CASE b \notin Imported
    <3>1. later = (Qty(b) - Units(old, away)) + old[x].qty
      BY <1>8, <2>2
    <3>2. QED
      BY <1>3, <1>6, <1>7, <2>2, <3>1
  <2>3. QED
    BY <2>1, <2>2
<1>10. QED
  BY <1>2, <1>4, <1>5, <1>8, <1>9 DEF Fits

LEMMA CommitReturnKeeps ==
    ASSUME PurchaseInv, NEW r \in Requests, CommitReturn(r)
    PROVE  PurchaseInv'
<1> DEFINE w == req[r]
           b == w.bill
           x == w.ret
           q == ReturnOf[x].qty
           new == [status |-> IF ReturnOf[x].mode = "CREDIT_NOTE" THEN "SETTLED" ELSE "PENDING",
                   bill |-> b, qty |-> q, day |-> day]
<1>1. /\ w.op = "return" /\ ret[x].status = "none" /\ TakeOut(b, q) /\ Finish(r)
      /\ ret' = [ret EXCEPT ![x] = new]
      /\ bill' = [bill EXCEPT ![b].returned = @ + q]
  BY DEF CommitReturn
<1>2. b \in Bills /\ x \in Returns
  BY <1>1 DEF PurchaseInv, Checked
<1>3. PICK row \in BillRow : w.saw = <<row>> /\ row.status = "live" /\ q <= Qty(b) - row.returned
  BY <1>1 DEF PurchaseInv, Checked
<1> bill[b].status # "none"
  BY <1>1 DEF PurchaseInv, Checked
<1>4. /\ overtaken \subseteq overtaken' /\ overtaken' \subseteq Bills
      /\ b \notin overtaken' => w.saw = Reads("return", b, x)
      /\ sold' = sold
  BY <1>1, <1>2, FinishDoes
<1>5. /\ bill \in [Bills -> BillRow] /\ ret \in [Returns -> ReturnRow]
      /\ StockFits(stock, rows, moved, sold, short)
      /\ moved \in [Bills -> Int] /\ day \in 0..MaxDay
      /\ Qty(b) \in Nat /\ q \in Nat /\ q > 0
  <2>1. day \in 1..MaxDay /\ MaxDay \in Nat
    BY ConstantsHold DEF PurchaseInv, BooksTyped
  <2>2. QED
    BY <1>2, <2>1, ConstantsHold DEF PurchaseInv, BooksTyped, StockFits
<1>6. /\ new \in ReturnRow /\ new.status \in {"SETTLED", "PENDING"} /\ new.bill = b /\ new.qty = q
  BY <1>2, <1>5 DEF ReturnRow
<1> HIDE DEF new
<1>7. /\ ret' \in [Returns -> ReturnRow] /\ ret'[x] = new
      /\ \A y \in Returns : y # x => ret'[y] = ret[y]
  BY <1>1, <1>2, <1>5, <1>6
<1>8. /\ bill' \in [Bills -> BillRow]
      /\ bill'[b].returned = bill[b].returned + q /\ bill'[b].status = bill[b].status
      /\ \A c \in Bills : c # b => bill'[c] = bill[c]
  <2> HIDE DEF q
  <2>1. QED
    BY <1>1, <1>2, <1>5 DEF BillRow
<1>9. /\ StockFits(stock', rows', moved', sold', short')
      /\ b \in Imported => moved' = moved
      /\ b \notin Imported => moved' = [moved EXCEPT ![b] = @ - q]
  <2> HIDE DEF q, b
  <2>1. b \in Bills /\ q \in Nat /\ TakeOut(b, q)
    BY <1>1, <1>2, <1>5
  <2>2. QED
    BY <1>4, <1>5, <2>1, TakeOutKeeps
<1> HIDE DEF q
<1>10. /\ b \in Imported => moved'[b] = moved[b]
       /\ b \notin Imported => moved'[b] = moved[b] - q
       /\ \A c \in Bills : c # b => moved'[c] = moved[c]
  BY <1>2, <1>5, <1>9
<1>11. Blank(bill', ret')
  <2>1. Blank(bill, ret)
    BY DEF PurchaseInv
  <2>2. ASSUME NEW c \in Bills, bill'[c].status = "none"
        PROVE  bill'[c] = NoBill /\ c \notin Imported
    <3>1. CASE c # b
      BY <1>8, <2>1, <2>2, <3>1 DEF Blank
    <3>2. CASE c = b
      BY <1>8, <2>2, <3>2
    <3>3. QED
      BY <3>1, <3>2
  <2>3. ASSUME NEW y \in Returns, ret'[y].status # "none"
        PROVE  ret'[y].qty > 0 /\ ret'[y].bill \in Bills
    BY <1>2, <1>5, <1>6, <1>7, <2>1, <2>3 DEF Blank
  <2>4. QED
    BY <2>2, <2>3 DEF Blank
<1>12. ASSUME b \notin overtaken' PROVE Fits(bill'[b], ret', moved'[b], b)
  <2>1. Fits(bill[b], ret, moved[b], b)
    BY <1>2, <1>4, <1>12 DEF PurchaseInv
  <2>2. w.saw = <<bill[b]>>
    BY <1>4, <1>12 DEF Reads
  <2>3. bill[b] = row
    BY <1>3, <2>2
  <2>4. /\ bill[b] \in BillRow /\ bill[b].status = "live" /\ q <= Qty(b) - bill[b].returned
        /\ bill[b].returned \in Nat
    BY <1>3, <2>3 DEF BillRow
  <2>5. bill'[b].returned <= Qty(b) /\ bill'[b].status = "live"
    BY <1>5, <1>8, <2>4
  <2> DEFINE older == bill[b]
             newer == bill'[b]
             before == moved[b]
             later == moved'[b]
  <2>6. /\ later = IF b \in Imported THEN before ELSE before - ret'[x].qty
        /\ newer.returned = older.returned + ret'[x].qty /\ before \in Int
        /\ ret'[x].status \in {"SETTLED", "PENDING"} /\ ret'[x].bill = b
    BY <1>2, <1>5, <1>6, <1>7, <1>8, <1>10
  <2>7. /\ older \in BillRow /\ older.status = "live" /\ Fits(older, ret, before, b)
        /\ newer.status = "live" /\ newer.returned <= Qty(b)
    BY <2>1, <2>4, <2>5
  <2> HIDE DEF older, newer, before, later, b, x
  <2>8. Fits(newer, ret', later, b)
    <3>1. /\ ret \in [Returns -> ReturnRow] /\ ret' \in [Returns -> ReturnRow] /\ x \in Returns
          /\ \A y \in Returns : y # x => ret'[y] = ret[y]
          /\ Qty(b) \in Nat /\ ret[x].status = "none"
      BY <1>1, <1>2, <1>5, <1>7
    <3>2. /\ older \in BillRow /\ before \in Int /\ Fits(older, ret, before, b)
          /\ older.status = "live" /\ newer.status = "live"
          /\ newer.returned = older.returned + ret'[x].qty /\ newer.returned <= Qty(b)
      BY <2>6, <2>7
    <3>3. /\ ret'[x].status \in {"SETTLED", "PENDING"} /\ ret'[x].bill = b
          /\ later = IF b \in Imported THEN before ELSE before - ret'[x].qty
      BY <2>6
    <3>4. QED
      BY <3>1, <3>2, <3>3, ReturnMade
  <2>9. QED
    BY <2>8 DEF newer, later, b
<1>13. ASSUME NEW c \in Bills \ overtaken, c # b PROVE Fits(bill'[c], ret', moved'[c], c)
  <2>1. Fits(bill[c], ret, moved[c], c) /\ bill'[c] = bill[c] /\ moved'[c] = moved[c]
    BY <1>8, <1>10, <1>13 DEF PurchaseInv
  <2>2. /\ \A y \in Returns : y # x => ret'[y] = ret[y]
        /\ ret[x].status = "none" /\ ret'[x].bill # c
    BY <1>1, <1>6, <1>7, <1>13
  <2> HIDE DEF x
  <2>3. Fits(bill[c], ret', moved[c], c)
    BY <2>1, <2>2, ReturnsElsewhere
  <2>4. QED
    BY <2>1, <2>3
<1>14. NumberedApart(Bills \ overtaken)'
  <2>1. NumberedApart(Bills \ overtaken)
    BY DEF PurchaseInv
  <2>2. \A c \in Bills : bill'[c].status = "live" => bill[c].status = "live"
    BY <1>8
  <2>3. QED
    BY <1>4, <2>1, <2>2, StillApart
<1>15. \A y \in Returns : ret[y].status # "none" =>
          ret'[y].status # "none" /\ ret'[y].bill = ret[y].bill
  BY <1>1, <1>7
<1>16. \A c \in Bills : bill[c].status # "none" => bill'[c].status # "none"
  BY <1>8
<1>17. QED
  BY <1>1, <1>2, <1>7, <1>8, <1>9, <1>11, <1>12, <1>13, <1>14, <1>15, <1>16, CommitKeeps

LEMMA CommitReceiveKeeps ==
    ASSUME PurchaseInv, NEW r \in Requests, CommitReceive(r)
    PROVE  PurchaseInv'
<1> DEFINE w == req[r]
           b == w.bill
           x == w.ret
           q == ret[x].qty
<1>1. /\ w.op = "receive" /\ Finish(r) /\ bill' = bill
      /\ IF b \in Imported THEN UNCHANGED <<stock, rows, moved, short>> ELSE BringIn(b, q)
      /\ ret' = [ret EXCEPT ![x].status = "RECEIVED"]
  BY DEF CommitReceive
<1>2. b \in Bills /\ x \in Returns /\ ret[x].status # "none" /\ ret[x].bill = b
  BY <1>1 DEF PurchaseInv, Checked
<1>3. PICK row \in ReturnRow : w.saw = <<row>> /\ row.status = "PENDING"
  BY <1>1 DEF PurchaseInv, Checked
<1>4. /\ overtaken \subseteq overtaken' /\ overtaken' \subseteq Bills
      /\ b \notin overtaken' => w.saw = Reads("receive", b, x)
      /\ sold' = sold
  BY <1>1, <1>2, FinishDoes
<1>5. /\ bill \in [Bills -> BillRow] /\ ret \in [Returns -> ReturnRow]
      /\ StockFits(stock, rows, moved, sold, short)
      /\ moved \in [Bills -> Int] /\ Qty(b) \in Nat /\ q \in Nat
  <2>1. ret[x] \in ReturnRow
    BY <1>2 DEF PurchaseInv, BooksTyped
  <2>2. QED
    BY <1>2, <2>1, ConstantsHold DEF PurchaseInv, BooksTyped, StockFits, ReturnRow
<1>6. /\ ret' \in [Returns -> ReturnRow]
      /\ ret'[x].status = "RECEIVED" /\ ret'[x].bill = b /\ ret'[x].qty = q
      /\ \A y \in Returns : y # x => ret'[y] = ret[y]
  BY <1>1, <1>2, <1>5 DEF ReturnRow
<1> HIDE DEF q
<1>7. /\ StockFits(stock', rows', moved', sold', short')
      /\ b \in Imported => moved' = moved
      /\ b \notin Imported => moved' = [moved EXCEPT ![b] = @ + q]
  <2>1. CASE b \in Imported
    BY <1>1, <1>4, <1>5, <2>1
  <2>2. CASE b \notin Imported
    <3> HIDE DEF b
    <3>1. b \in Bills /\ q \in Nat /\ BringIn(b, q)
      BY <1>1, <1>2, <1>5, <2>2
    <3>2. QED
      BY <1>4, <1>5, <2>2, <3>1, BringInKeeps
  <2>3. QED
    BY <2>1, <2>2
<1>8. /\ b \in Imported => moved'[b] = moved[b]
      /\ b \notin Imported => moved'[b] = moved[b] + q
      /\ \A c \in Bills : c # b => moved'[c] = moved[c]
  BY <1>2, <1>5, <1>7
<1>9. Blank(bill', ret')
  <2>1. Blank(bill, ret)
    BY DEF PurchaseInv
  <2>2. \A y \in Returns : ret'[y].status # "none" =>
           ret[y].status # "none" /\ ret'[y].qty = ret[y].qty /\ ret'[y].bill = ret[y].bill
    BY <1>2, <1>6 DEF q
  <2>3. QED
    BY <1>1, <2>1, <2>2 DEF Blank
<1>10. ASSUME b \notin overtaken' PROVE Fits(bill'[b], ret', moved'[b], b)
  <2>1. Fits(bill[b], ret, moved[b], b)
    BY <1>2, <1>4, <1>10 DEF PurchaseInv
  <2>2. w.saw = <<ret[x]>>
    BY <1>4, <1>10 DEF Reads
  <2>3. ret[x].status = "PENDING"
    BY <1>3, <2>2
  <2>4. bill[b] \in BillRow
    BY <1>2, <1>5
  <2>5. bill[b].status # "none"
    <3>1. ASSUME bill[b].status = "none" PROVE FALSE
      <4>1. Units(ret, ReturnsIn(ret, b)) = 0
        BY <1>2, <2>1, <3>1 DEF PurchaseInv, Blank, Fits, NoBill
      <4>2. \A y \in Returns : ret[y].status # "none" => ret[y].qty > 0
        BY DEF PurchaseInv, Blank
      <4>3. ReturnsIn(ret, b) = {}
        BY <1>5, <4>1, <4>2, NothingReturned
      <4>4. QED
        BY <1>2, <4>3 DEF ReturnsIn
    <3>2. QED
      BY <3>1
  <2> DEFINE row_ == bill[b]
             before == moved[b]
             later == moved'[b]
  <2>6. /\ row_ \in BillRow /\ row_.status # "none" /\ Fits(row_, ret, before, b)
        /\ before \in Int
        /\ later = IF b \in Imported THEN before ELSE before + ret[x].qty
        /\ ret'[x].qty = ret[x].qty
    BY <1>2, <1>5, <1>6, <1>8, <2>1, <2>4, <2>5 DEF q
  <2> HIDE DEF row_, before, later, b, x
  <2>7. Fits(row_, ret', later, b)
    BY <1>2, <1>5, <1>6, <2>3, <2>6, ReplacementReceived
  <2>8. QED
    BY <1>1, <2>7 DEF row_, later, b
<1>11. ASSUME NEW c \in Bills \ overtaken, c # b PROVE Fits(bill'[c], ret', moved'[c], c)
  <2>1. Fits(bill[c], ret, moved[c], c) /\ bill'[c] = bill[c] /\ moved'[c] = moved[c]
    BY <1>1, <1>8, <1>11 DEF PurchaseInv
  <2>2. /\ \A y \in Returns : y # x => ret'[y] = ret[y]
        /\ ret[x].bill # c /\ ret'[x].bill # c
    BY <1>2, <1>6, <1>11
  <2> HIDE DEF x
  <2>3. Fits(bill[c], ret', moved[c], c)
    BY <2>1, <2>2, ReturnsElsewhere
  <2>4. QED
    BY <2>1, <2>3
<1>12. NumberedApart(Bills \ overtaken)'
  <2>1. NumberedApart(Bills \ overtaken)
    BY DEF PurchaseInv
  <2>2. \A c \in Bills : bill'[c].status = "live" => bill[c].status = "live"
    BY <1>1
  <2>3. QED
    BY <1>4, <2>1, <2>2, StillApart
<1>13. \A y \in Returns : ret[y].status # "none" =>
          ret'[y].status # "none" /\ ret'[y].bill = ret[y].bill
  BY <1>2, <1>6
<1>14. /\ \A c \in Bills : bill[c].status # "none" => bill'[c].status # "none"
       /\ bill' \in [Bills -> BillRow]
  BY <1>1, <1>5
<1>15. QED
  BY <1>1, <1>2, <1>6, <1>7, <1>9, <1>10, <1>11, <1>12, <1>13, <1>14, CommitKeeps

\* A handler whose id was taken meanwhile gives up.
LEMMA GivingUpKeeps ==
    ASSUME PurchaseInv, NEW r \in Requests, req' = [req EXCEPT ![r] = Idle],
           UNCHANGED <<bill, ret, stock, rows, day, moved, sold, overtaken, short>>
    PROVE  PurchaseInv'
<1>1. /\ req' = [q \in Requests |-> req'[q]] /\ req'[r] = Idle
      /\ \A q \in Requests : q # r => req'[q] = req[q]
  BY RequestSet DEF PurchaseInv
<1>2. \A q \in Requests : Checked(req'[q], bill, ret, overtaken)
  BY <1>1, IdleChecked DEF PurchaseInv
<1>3. \A q \in Requests : Checked(req'[q], bill', ret', overtaken')
  BY <1>2
<1>4. BooksTyped' /\ NumberedApart(Bills \ overtaken)'
  BY DEF PurchaseInv, BooksTyped, NumberedApart, Live
<1>5. \A b \in Bills \ overtaken' : Fits(bill'[b], ret', moved'[b], b)
  BY DEF PurchaseInv
<1>6. Blank(bill', ret') /\ StockFits(stock', rows', moved', sold', short')
  BY DEF PurchaseInv
<1>7. QED
  BY <1>1, <1>3, <1>4, <1>5, <1>6 DEF PurchaseInv

----------------------------------------------------------------------------
LEMMA InitPurchaseInv == BooksInit => PurchaseInv
<1> SUFFICES ASSUME BooksInit PROVE PurchaseInv
  OBVIOUS
<1> DEFINE brought == [status |-> "live", returned |-> 0, batch |-> 0, day |-> 1]
           zero == [b \in Bills |-> 0]
<1>1. /\ bill = [b \in Bills |-> IF b \in Imported THEN [NoBill EXCEPT !.status = "live", !.day = 1] ELSE NoBill]
      /\ ret = [x \in Returns |-> NoReturn]
      /\ stock = 0 /\ rows = <<>> /\ day = 1 /\ req = [r \in Requests |-> Idle]
      /\ moved = zero /\ sold = 0 /\ overtaken = {} /\ short = FALSE
  BY DEF BooksInit, Init
<1>2. [NoBill EXCEPT !.status = "live", !.day = 1] = brought
  <2> DEFINE a == [status |-> "live", returned |-> 0, batch |-> 0, day |-> 0]
  <2>1. [NoBill EXCEPT !.status = "live"] = a
    BY DEF NoBill
  <2>2. [a EXCEPT !.day = 1] = brought
    OBVIOUS
  <2>3. [NoBill EXCEPT !.status = "live", !.day = 1] = [[NoBill EXCEPT !.status = "live"] EXCEPT !.day = 1]
    OBVIOUS
  <2> HIDE DEF a, brought
  <2>4. QED
    BY <2>1, <2>2, <2>3
<1>3. bill = [b \in Bills |-> IF b \in Imported THEN brought ELSE NoBill]
  <2> HIDE DEF brought
  <2>1. QED
    BY <1>1, <1>2
<1>4. /\ 1 \in 0..MaxDay /\ 0 \in 0..MaxDay /\ 1 \in 1..MaxDay
      /\ brought \in BillRow /\ NoBill \in BillRow /\ NoReturn \in ReturnRow
  <2>1. 1 \in 0..MaxDay /\ 0 \in 0..MaxDay /\ 1 \in 1..MaxDay
    BY ConstantsHold
  <2>2. QED
    BY <2>1 DEF BillRow, ReturnRow, NoBill, NoReturn
<1>5. BooksTyped
  <2> HIDE DEF brought
  <2>1. bill \in [Bills -> BillRow]
    BY <1>3, <1>4
  <2>2. ret \in [Returns -> ReturnRow]
    BY <1>1, <1>4
  <2>3. QED
    BY <1>1, <1>4, <2>1, <2>2 DEF BooksTyped
<1>6. /\ req = [r \in Requests |-> req[r]]
      /\ \A r \in Requests : Checked(req[r], bill, ret, overtaken)
  BY <1>1, IdleChecked
<1>7. Blank(bill, ret)
  BY <1>1, <1>3 DEF Blank, NoBill, NoReturn
<1>8. StockFits(stock, rows, moved, sold, short)
  <2>1. DOMAIN zero = Bills /\ IsFiniteSet(Bills) /\ \A b \in Bills : zero[b] = 0
    BY ConstantsHold
  <2>2. zero \in [Bills -> Int]
    OBVIOUS
  <2> HIDE DEF zero
  <2>3. SumFunction(zero) = 0
    BY <2>1, TotalZero
  <2> DEFINE bare == <<>>
  <2>4. Shelf(bare)
    BY DEF Shelf
  <2>5. Total(bare) = 0
    <3> DEFINE f == [i \in DOMAIN bare |-> bare[i].qty]
    <3>1. DOMAIN f = {} /\ \A i \in DOMAIN f : f[i] = 0
      OBVIOUS
    <3>2. IsFiniteSet({})
      BY FS_EmptySet
    <3>3. Total(bare) = SumFunction(f)
      BY DEF Total
    <3> HIDE DEF f
    <3>4. IsFiniteSet(DOMAIN f)
      BY <3>1, <3>2
    <3>5. SumFunction(f) = 0
      BY <3>1, <3>4, TotalZero
    <3>6. QED
      BY <3>3, <3>5
  <2>6. Most(0, stock) = 0 /\ stock + sold = 0
    BY <1>1 DEF Most
  <2>7. rows = bare
    BY <1>1
  <2> HIDE DEF bare
  <2>8. stock \in Int /\ sold \in Nat /\ short \in BOOLEAN
    <3>1. short = FALSE
      BY <1>1, Zenon
    <3>2. short \in BOOLEAN
      BY <3>1, Zenon
    <3>3. QED
      BY <1>1, <3>2
  <2>9. moved \in [Bills -> Int] /\ stock + sold = SumFunction(moved)
    BY <1>1, <2>2, <2>3, <2>6
  <2>10. Shelf(rows) /\ Total(rows) = Most(0, stock)
    BY <2>4, <2>5, <2>6, <2>7
  <2>11. QED
    BY <2>8, <2>9, <2>10 DEF StockFits
<1>9. \A b \in Bills \ overtaken : Fits(bill[b], ret, moved[b], b)
  <2> SUFFICES ASSUME NEW b \in Bills PROVE Fits(bill[b], ret, moved[b], b)
    OBVIOUS
  <2>1. ReturnsIn(ret, b) = {} /\ AwayIn(ret, b) = {}
    BY <1>1 DEF ReturnsIn, AwayIn, NoReturn
  <2>2. Units(ret, {}) = 0
    <3> DEFINE f == [x \in {} |-> ret[x].qty]
    <3>1. DOMAIN f = {} /\ IsFiniteSet(DOMAIN f) /\ \A x \in DOMAIN f : f[x] = 0
      BY FS_EmptySet
    <3>2. Units(ret, {}) = SumFunction(f)
      BY DEF Units
    <3> HIDE DEF f
    <3>3. QED
      BY <3>1, <3>2, TotalZero
  <2>3. /\ bill[b].returned = 0 /\ bill[b].status # "cancelled"
        /\ bill[b].status = "live" => b \in Imported
        /\ moved[b] = 0
    BY <1>1, <1>3 DEF NoBill
  <2>4. Qty(b) \in Nat
    BY ConstantsHold
  <2>5. QED
    BY <2>1, <2>2, <2>3, <2>4 DEF Fits
<1>10. NumberedApart(Bills \ overtaken)
  BY <1>3 DEF NumberedApart, Live, NoBill
<1>11. QED
  BY <1>5, <1>6, <1>7, <1>8, <1>9, <1>10 DEF PurchaseInv

\* What leaves everything of the purchases as it is.
LEMMA SameKeeps == PurchaseInv /\ UNCHANGED vars => PurchaseInv'
<1> SUFFICES ASSUME PurchaseInv, UNCHANGED vars PROVE PurchaseInv'
  OBVIOUS
<1>1. UNCHANGED <<bill, ret, stock, rows, day, req, moved, sold, overtaken, short>>
  BY DEF vars
<1>2. BooksTyped' /\ NumberedApart(Bills \ overtaken)'
  BY <1>1 DEF PurchaseInv, BooksTyped, NumberedApart, Live
<1>3. req' = [r \in Requests |-> req'[r]] /\ \A r \in Requests : Checked(req'[r], bill', ret', overtaken')
  BY <1>1 DEF PurchaseInv
<1>4. Blank(bill', ret') /\ StockFits(stock', rows', moved', sold', short')
  BY <1>1 DEF PurchaseInv
<1>5. \A b \in Bills \ overtaken' : Fits(bill'[b], ret', moved'[b], b)
  BY <1>1 DEF PurchaseInv
<1>6. QED
  BY <1>2, <1>3, <1>4, <1>5 DEF PurchaseInv

\* A sale, and a day that passes, leave bills, returns and handlers alone.
LEMMA SaleOrDayKeeps == PurchaseInv /\ (Sell(1) \/ DayPasses) => PurchaseInv'
<1> SUFFICES ASSUME PurchaseInv, Sell(1) \/ DayPasses PROVE PurchaseInv'
  OBVIOUS
<1>1. UNCHANGED <<bill, ret, req, moved, overtaken>>
  BY DEF Sell, DayPasses
<1>2. day' \in 1..MaxDay
  <2>1. day \in 1..MaxDay /\ MaxDay \in Nat
    BY ConstantsHold DEF PurchaseInv, BooksTyped
  <2>2. day' = day \/ (day' = day + 1 /\ day < MaxDay)
    BY DEF Sell, DayPasses
  <2>3. QED
    BY <2>1, <2>2
<1>3. StockFits(stock', rows', moved', sold', short')
  <2>1. CASE Sell(1)
    BY <2>1, SellKeepsStock DEF PurchaseInv
  <2>2. CASE DayPasses
    BY <2>2 DEF PurchaseInv, DayPasses
  <2>3. QED
    BY <2>1, <2>2
<1>4. BooksTyped' /\ NumberedApart(Bills \ overtaken)'
  BY <1>1, <1>2 DEF PurchaseInv, BooksTyped, NumberedApart, Live
<1>5. req' = [r \in Requests |-> req'[r]] /\ \A r \in Requests : Checked(req'[r], bill', ret', overtaken')
  BY <1>1 DEF PurchaseInv
<1>6. Blank(bill', ret')
  BY <1>1 DEF PurchaseInv
<1>7. \A b \in Bills \ overtaken' : Fits(bill'[b], ret', moved'[b], b)
  BY <1>1 DEF PurchaseInv
<1>8. QED
  BY <1>3, <1>4, <1>5, <1>6, <1>7 DEF PurchaseInv

LEMMA HandlersKeep ==
    ASSUME PurchaseInv, NEW r \in Requests, Handle(r)
    PROVE  PurchaseInv'
<1>1. ASSUME NEW b \in Bills, BeginCreate(r, b) PROVE PurchaseInv'
  <2>1. ~Duplicate(b) /\ Begin(r, Asked("create", b, 0))
    BY <1>1 DEF BeginCreate
  <2>2. Checked(Asked("create", b, 0), bill, ret, overtaken)
    BY <2>1, CreateChecked
  <2>3. QED
    BY <2>1, <2>2, BeginKeeps
<1>2. ASSUME NEW b \in Bills, BeginCancel(r, b) PROVE PurchaseInv'
  <2>1. MayCancel(b) /\ Begin(r, Asked("cancel", b, 0))
    BY <1>2 DEF BeginCancel
  <2>2. Checked(Asked("cancel", b, 0), bill, ret, overtaken)
    BY <2>1, CancelChecked
  <2>3. QED
    BY <2>1, <2>2, BeginKeeps
<1>3. ASSUME NEW b \in Bills, NEW x \in Returns, BeginReturn(r, b, x) PROVE PurchaseInv'
  <2>1. Live(b) /\ ReturnOf[x].qty <= Returnable(b) /\ Begin(r, Asked("return", b, x))
    BY <1>3 DEF BeginReturn
  <2>2. Checked(Asked("return", b, x), bill, ret, overtaken)
    BY <2>1, ReturnChecked
  <2>3. QED
    BY <2>1, <2>2, BeginKeeps
<1>4. ASSUME NEW x \in Returns, BeginReceive(r, x) PROVE PurchaseInv'
  <2>1. Awaited(x) /\ Begin(r, Asked("receive", ret[x].bill, x))
    BY <1>4 DEF BeginReceive
  <2>2. Checked(Asked("receive", ret[x].bill, x), bill, ret, overtaken)
    BY <2>1, ReceiveChecked
  <2>3. QED
    BY <2>1, <2>2, BeginKeeps
<1>5. ASSUME IdTaken(r) PROVE PurchaseInv'
  <2>1. /\ req' = [req EXCEPT ![r] = Idle]
        /\ UNCHANGED <<bill, ret, stock, rows, day, moved, sold, overtaken, short>>
    BY <1>5 DEF IdTaken
  <2>2. QED
    BY <2>1, GivingUpKeeps
<1>6. QED
  BY <1>1, <1>2, <1>3, <1>4, <1>5, CommitCreateKeeps, CommitCancelKeeps, CommitReturnKeeps,
     CommitReceiveKeeps DEF Handle

LEMMA RemovalsKeep ==
    ASSUME PurchaseInv, NEW r \in Requests, RemoveSupplier(r)
    PROVE  PurchaseInv'
<1>1. CASE CommitRemoveSupplier(r)
  <2>1. /\ req' = [req EXCEPT ![r] = Idle]
        /\ UNCHANGED <<bill, ret, stock, rows, day, moved, sold, overtaken, short>>
    BY <1>1 DEF CommitRemoveSupplier
  <2>2. QED
    BY <2>1, GivingUpKeeps
<1>2. ASSUME NEW s \in Suppliers, BeginRemoveSupplier(r, s) PROVE PurchaseInv'
  <2> DEFINE w == [op |-> "remove", supplier |-> s]
  <2>1. Begin(r, w)
    BY <1>2 DEF BeginRemoveSupplier
  <2>2. w.op = "remove"
    OBVIOUS
  <2> HIDE DEF w
  <2>3. Checked(w, bill, ret, overtaken)
    BY <2>2 DEF Checked
  <2>4. QED
    BY <2>1, <2>3, BeginKeeps
<1>3. QED
  BY <1>1, <1>2 DEF RemoveSupplier

LEMMA ResolversKeep ==
    ASSUME PurchaseInv, NEW r \in Requests, ResolveDuplicate(r)
    PROVE  PurchaseInv'
<1>1. CASE MergeCustomers(r) \/ KeepBothCustomers(r)
  <2>1. /\ req' = [req EXCEPT ![r] = Idle]
        /\ UNCHANGED <<bill, ret, stock, rows, day, moved, sold, overtaken, short>>
    BY <1>1 DEF MergeCustomers, KeepBothCustomers, Decided
  <2>2. QED
    BY <2>1, GivingUpKeeps
<1>2. ASSUME NEW p \in toReview, NEW choice, BeginResolve(r, p, choice) PROVE PurchaseInv'
  <2> DEFINE w == [op |-> "resolve", pair |-> p, choice |-> choice]
  <2>1. Begin(r, w)
    BY <1>2 DEF BeginResolve
  <2>2. w.op = "resolve"
    OBVIOUS
  <2> HIDE DEF w
  <2>3. Checked(w, bill, ret, overtaken)
    BY <2>2 DEF Checked
  <2>4. QED
    BY <2>1, <2>3, BeginKeeps
<1>3. QED
  BY <1>1, <1>2 DEF ResolveDuplicate

\* The books of customers, the entries of suppliers and the drawer are others'.
LEMMA OthersKeep == AccountNext \/ CustomerNext \/ SupplierNext \/ DrawerNext => UNCHANGED vars
<1>1. AccountNext \/ CustomerNext => UNCHANGED vars
  BY DEF AccountNext, SaveSale, CancelSale, NoteSale, CustomerPayment, CustomerOpening,
         NewEntry, VoidCustomerEntry, Void, CustomerNext, AddCustomer, BringCustomer, Listed,
         FindDuplicate, RecordDuplicate, ChangePhone, RestoreCustomer
<1>2. SupplierNext => UNCHANGED vars
  BY DEF SupplierNext, SupplierPayment, SupplierOpening, NewEntry, VoidSupplierEntry, Void
<1>3. DrawerNext => UNCHANGED vars
  BY DEF DrawerNext, AddExpense, ChangeExpense, DeleteExpense, AddCashEntry, DeleteCashEntry,
         SetOpening
<1>4. QED
  BY <1>1, <1>2, <1>3

LEMMA NextPurchaseInv == PurchaseInv /\ [BooksNext]_<<vars, bookVars>> => PurchaseInv'
<1> SUFFICES ASSUME PurchaseInv, [BooksNext]_<<vars, bookVars>> PROVE PurchaseInv'
  OBVIOUS
<1>1. CASE AccountNext \/ CustomerNext \/ SupplierNext \/ DrawerNext
  BY <1>1, OthersKeep, SameKeeps
<1>2. ASSUME NEW r \in Requests, RemoveSupplier(r) \/ ResolveDuplicate(r) PROVE PurchaseInv'
  BY <1>2, RemovalsKeep, ResolversKeep
<1>3. CASE Next
  BY <1>3, HandlersKeep, SaleOrDayKeeps DEF Next
<1>4. CASE UNCHANGED <<vars, bookVars>>
  BY <1>4, SameKeeps
<1>5. QED
  BY <1>1, <1>2, <1>3, <1>4 DEF BooksNext

LEMMA PurchaseInvMatches == PurchaseInv => StockMatchesPurchases
<1> SUFFICES ASSUME PurchaseInv PROVE StockMatchesPurchases
  OBVIOUS
<1>1. StockIsExplained /\ (~short => Total(rows) = Most(0, stock))
  BY DEF PurchaseInv, StockFits, StockIsExplained
<1>2. ASSUME NEW b \in Bills \ overtaken PROVE BillMovesItsGoods(b)
  <2>1. Fits(bill[b], ret, moved[b], b)
    BY DEF PurchaseInv
  <2>2. ReturnsOf(b) = ReturnsIn(ret, b)
    BY DEF ReturnsOf, ReturnsIn
  <2>3. {x \in ReturnsOf(b) : ret[x].status # "RECEIVED"} = AwayIn(ret, b)
    BY <2>2 DEF AwayIn
  <2>4. \A some : UnitsOf(some) = Units(ret, some)
    BY DEF UnitsOf, Units
  <2>5. QED
    BY <2>1, <2>2, <2>3, <2>4 DEF Fits, BillMovesItsGoods, Live
<1>3. NumberedApart(Bills \ overtaken)
  BY DEF PurchaseInv
<1>4. QED
  BY <1>1, <1>2, <1>3 DEF StockMatchesPurchases

LEMMA PurchasesKeepInv == BooksSpec => []PurchaseInv
  BY InitPurchaseInv, NextPurchaseInv, PTL DEF BooksSpec

\* Whatever handlers of purchases overlap, the stock is what the bills brought in
\* less what was sold; a bill no overlap touched has exactly its goods there.
THEOREM PurchasesMatch == BooksSpec => []StockMatchesPurchases
  BY PurchasesKeepInv, PurchaseInvMatches, PTL

----------------------------------------------------------------------------
(***************************************************************************)
(* The rows of the books.                                                  *)
(***************************************************************************)
SaleRow == [status : {"none", "COMPLETED", "CANCELLED"}, customer : Customers, at : 0..MaxDay,
            refund : {"none", "CASH", "CREDIT"}, refundAt : 0..MaxDay]
EntryRow == [status : {"none", "live", "void"}, party : Customers \cup Suppliers, at : 0..MaxDay]
ExpenseRow(today) == [status : {"none", "live", "deleted"}, at : 0..today, kind : Kinds, amount : Nat]
CashRow(today) == [status : {"none", "live", "deleted"}, at : 0..today]

\* An entry of the ledger stays with parties of its table.
PartyFits(e, party) == party \in IF EntryOf[e].table = "customer" THEN Customers ELSE Suppliers

RecordTypes ==
    /\ sale \in [Sales -> SaleRow] /\ entry \in [Entries -> EntryRow]
    /\ \A e \in Entries : PartyFits(e, entry[e].party)
    /\ expense \in [Expenses -> ExpenseRow(day)] /\ cash \in [CashEntries -> CashRow(day)]
    /\ opening \in [day : 0..MaxDay, amount : Nat]

\* Of two customers in the list the first one is the older.
Older(list, c, d) == \E i, j \in DOMAIN list : i < j /\ list[i] = c /\ list[j] = d

\* A customer has the phone still, or it and the one there is now have crossed.
Holds(c, n, numbers, twice) == numbers[c] = n \/ {n, numbers[c]} \subseteq twice

\* The customer found to be the double's older record has that phone, and unless
\* the phone crossed is the oldest who has it and is not merged away.
FoundFor(p, list, numbers, gone, twice) ==
    /\ p.new \in ToSet(list) /\ p.keep \in ToSet(list) /\ p.new # p.keep
    /\ Holds(p.new, p.phone, numbers, twice) /\ Holds(p.keep, p.phone, numbers, twice)
    /\ p.phone \notin twice =>
          /\ Older(list, p.keep, p.new) /\ p.keep \notin gone
          /\ \A c \in ToSet(list) \ (gone \cup {p.new, p.keep}) :
                numbers[c] = p.phone => Older(list, p.keep, c)

Pairs == [new : Customers, keep : Customers, phone : Phones]

DuplicatesFit ==
    /\ added \in Seq(Customers) /\ \A i, j \in DOMAIN added : added[i] = added[j] => i = j
    /\ phone \in [Customers -> Phones \cup {0}] /\ crossed \subseteq Phones \cup {0}
    /\ merged \subseteq ToSet(added)
    /\ checking \subseteq [new : Customers, phone : Phones]
    /\ \A q \in checking : q.new \in ToSet(added) /\ Holds(q.new, q.phone, phone, crossed)
    /\ Doubles \subseteq Pairs
    /\ \A p \in Doubles : FoundFor(p, added, phone, merged, crossed)

\* A row not saved yet is for the customer it will be saved for; a saved one is not
\* on a customer merged away unless it came later or the phone crossed.
RowFits(key, status, c, first, gone, numbers, twice, after) ==
    /\ status = "none" => c = first
    /\ status # "none" => c \notin gone \/ key \in after \/ numbers[c] \in twice

SaleFits(o, row, gone, numbers, twice, after) ==
    RowFits(<<"sale", o>>, row.status, row.customer, SaleOf[o].customer, gone, numbers, twice, after)

EntryFits(e, row, gone, numbers, twice, after) ==
    EntryOf[e].table = "customer" =>
        RowFits(<<"entry", e>>, row.status, row.party, EntryOf[e].party, gone, numbers, twice, after)

RowsFit ==
    /\ cameLate \subseteq ({"sale"} \X Sales) \cup ({"entry"} \X Entries)
    /\ \A o \in Sales : SaleFits(o, sale[o], merged, phone, crossed, cameLate)
    /\ \A e \in Entries : EntryFits(e, entry[e], merged, phone, crossed, cameLate)

RemovalsFit ==
    /\ archived \subseteq Suppliers
    /\ \A r \in Requests : req[r].op = "remove" => req[r].supplier \in Suppliers

BookInv == RecordTypes /\ DuplicatesFit /\ RowsFit /\ RemovalsFit

----------------------------------------------------------------------------
LEMMA DaysFit ==
    ASSUME day \in 1..MaxDay
    PROVE  /\ day \in 0..MaxDay /\ 0 \in 0..MaxDay /\ 0 \in 0..day
           /\ \A d \in 1..MaxDay : d \in 0..MaxDay /\ NoLater(d) \in 0..day /\ NoLater(d) \in 0..MaxDay
  BY ConstantsHold DEF NoLater, Least

LEMMA BookConstants ==
    /\ \A o \in Sales : SaleOf[o].customer \in Customers
    /\ \A e \in Entries : EntryOf[e].party \in Customers \cup Suppliers /\ PartyFits(e, EntryOf[e].party)
    /\ \A x \in Expenses : ExpenseOf[x].kind \in Kinds /\ ExpenseOf[x].amount \in Nat
  BY BooksAssumption DEF PartyFits

LEMMA InitBookInv == BooksInit => BookInv
<1> SUFFICES ASSUME BooksInit PROVE BookInv
  OBVIOUS
<1>1. /\ 0 \in 0..MaxDay /\ day = 1 /\ 0 \in 0..day
      /\ archived = {} /\ req = [r \in Requests |-> Idle]
  BY ConstantsHold DEF BooksInit, Init
<1>2. RecordTypes
  <2>1. sale \in [Sales -> SaleRow]
    BY <1>1, BookConstants DEF BooksInit, SaleRow
  <2>2. entry \in [Entries -> EntryRow] /\ \A e \in Entries : PartyFits(e, entry[e].party)
    BY <1>1, BookConstants DEF BooksInit, EntryRow
  <2>3. expense \in [Expenses -> ExpenseRow(day)] /\ cash \in [CashEntries -> CashRow(day)]
    <3>1. [status |-> "none", at |-> 0, kind |-> "CASH", amount |-> 0] \in ExpenseRow(day)
      BY <1>1 DEF ExpenseRow, Kinds
    <3>2. None \in CashRow(day)
      BY <1>1 DEF CashRow, None
    <3>3. QED
      BY <3>1, <3>2 DEF BooksInit
  <2>4. opening \in [day : 0..MaxDay, amount : Nat]
    BY <1>1 DEF BooksInit
  <2>5. QED
    BY <2>1, <2>2, <2>3, <2>4 DEF RecordTypes
<1>3. DuplicatesFit
  <2>1. /\ added = <<>> /\ merged = {} /\ checking = {} /\ noted = {} /\ toReview = {} /\ crossed = {}
        /\ phone = [c \in Customers |-> 0]
    BY DEF BooksInit
  <2>2. added \in Seq(Customers) /\ \A i, j \in DOMAIN added : added[i] = added[j] => i = j
    BY <2>1
  <2>3. Doubles = {}
    <3>1. \A r \in Requests : req[r].op # "resolve"
      BY <1>1 DEF Idle
    <3>2. QED
      BY <2>1, <3>1 DEF Doubles
  <2>4. phone \in [Customers -> Phones \cup {0}]
    BY <2>1
  <2>5. QED
    BY <2>1, <2>2, <2>3, <2>4 DEF DuplicatesFit
<1>4. RowsFit
  BY DEF BooksInit, RowsFit, SaleFits, EntryFits, RowFits
<1>5. RemovalsFit
  BY <1>1 DEF RemovalsFit, Idle
<1>6. QED
  BY <1>2, <1>3, <1>4, <1>5 DEF BookInv

\* Steps that leave the duplicates of customers alone.
LEMMA SameDuplicates == DuplicatesFit /\ UNCHANGED customerVars /\ Doubles' \subseteq Doubles => DuplicatesFit'
<1> SUFFICES ASSUME DuplicatesFit, UNCHANGED customerVars, Doubles' \subseteq Doubles PROVE DuplicatesFit'
  OBVIOUS
<1>1. UNCHANGED <<added, phone, merged, checking, crossed>>
  BY DEF customerVars
<1>2. \A p \in Doubles' : FoundFor(p, added', phone', merged', crossed')
  BY <1>1 DEF DuplicatesFit
<1>3. QED
  BY <1>1, <1>2 DEF DuplicatesFit

LEMMA SameDoubles == UNCHANGED <<req, noted, toReview>> => Doubles' = Doubles
  BY DEF Doubles

\* A handler that goes on to decide a double, if at all, that is open.
LEMMA HandlerDoubles ==
    ASSUME NEW r \in Requests, NEW w, req' = [req EXCEPT ![r] = w],
           w.op = "resolve" => w.pair \in toReview,
           noted' = noted, toReview' \subseteq toReview
    PROVE  Doubles' \subseteq Doubles
<1>1. \A q \in Requests : req'[q] = req[q] \/ req'[q] = w
  OBVIOUS
<1>2. QED
  BY <1>1 DEF Doubles

LEMMA SameRows == RowsFit /\ UNCHANGED <<sale, entry, merged, phone, crossed, cameLate>> => RowsFit'
<1> SUFFICES ASSUME RowsFit, UNCHANGED <<sale, entry, merged, phone, crossed, cameLate>> PROVE RowsFit'
  OBVIOUS
<1>1. \A o \in Sales : SaleFits(o, sale'[o], merged', phone', crossed', cameLate')
  BY DEF RowsFit
<1>2. \A e \in Entries : EntryFits(e, entry'[e], merged', phone', crossed', cameLate')
  BY DEF RowsFit
<1>3. QED
  BY <1>1, <1>2 DEF RowsFit

\* Steps that take no row and archive nobody, and let phones change only where they cross.
LEMMA RowsStay ==
    ASSUME RowsFit, UNCHANGED <<sale, entry, cameLate>>, crossed \subseteq crossed',
           \A c \in merged' : c \in merged /\ (phone'[c] = phone[c] \/ phone'[c] \in crossed')
    PROVE  RowsFit'
<1>1. ASSUME NEW o \in Sales PROVE SaleFits(o, sale'[o], merged', phone', crossed', cameLate')
  <2>1. SaleFits(o, sale[o], merged, phone, crossed, cameLate) /\ sale'[o] = sale[o]
    BY DEF RowsFit
  <2>2. QED
    BY <2>1 DEF SaleFits, RowFits
<1>2. ASSUME NEW e \in Entries PROVE EntryFits(e, entry'[e], merged', phone', crossed', cameLate')
  <2>1. EntryFits(e, entry[e], merged, phone, crossed, cameLate) /\ entry'[e] = entry[e]
    BY DEF RowsFit
  <2>2. QED
    BY <2>1 DEF EntryFits, RowFits
<1>3. QED
  BY <1>1, <1>2 DEF RowsFit

LEMMA SameRemovals == RemovalsFit /\ UNCHANGED vars => RemovalsFit'
  BY DEF RemovalsFit, vars

LEMMA SaleRecorded ==
    ASSUME RecordTypes, sale' \in [Sales -> SaleRow], UNCHANGED <<vars, entry, expense, cash, opening>>
    PROVE  RecordTypes'
  BY DEF RecordTypes, vars

LEMMA EntryRecorded ==
    ASSUME RecordTypes, entry' \in [Entries -> EntryRow], \A e \in Entries : PartyFits(e, entry'[e].party),
           UNCHANGED <<vars, sale, expense, cash, opening>>
    PROVE  RecordTypes'
  BY DEF RecordTypes, vars

\* A row saved leaves the doubles alone; it is for somebody there, or came late.
LEMMA SavedRow ==
    ASSUME BookInv, UNCHANGED vars, NEW table \in {"sale", "entry"}, NEW id, NEW c, Saved(table, id, c),
           <<table, id>> \in ({"sale"} \X Sales) \cup ({"entry"} \X Entries)
    PROVE  /\ DuplicatesFit' /\ UNCHANGED <<merged, phone, crossed>>
           /\ cameLate \subseteq cameLate' /\ cameLate' \subseteq ({"sale"} \X Sales) \cup ({"entry"} \X Entries)
           /\ c \in merged => <<table, id>> \in cameLate'
<1>1. UNCHANGED <<added, phone, merged, checking, noted, toReview, crossed, req>>
  BY DEF Saved, vars
<1>2. Doubles' = Doubles
  BY <1>1, SameDoubles
<1>3. \A p \in Doubles' : FoundFor(p, added', phone', merged', crossed')
  BY <1>1, <1>2 DEF BookInv, DuplicatesFit
<1>4. DuplicatesFit'
  BY <1>1, <1>2, <1>3 DEF BookInv, DuplicatesFit
<1>5. QED
  BY <1>1, <1>4 DEF Saved, BookInv, RowsFit

LEMMA SalesKeep ==
    ASSUME BookInv, day \in 1..MaxDay, NEW o \in Sales,
           SaveSale(o) \/ CancelSale(o) \/ \E kind \in {"CASH", "CREDIT"} : NoteSale(o, kind)
    PROVE  BookInv'
<1>1. UNCHANGED <<vars, entry, expense, cash, opening>>
  BY DEF SaveSale, CancelSale, NoteSale
<1>2. sale \in [Sales -> SaleRow] /\ day \in 0..MaxDay
  BY DaysFit DEF BookInv, RecordTypes
<1>3. sale' \in [Sales -> SaleRow] /\ \A a \in Sales : sale'[a].customer = sale[a].customer /\ (a # o => sale'[a] = sale[a])
  BY <1>2 DEF SaveSale, CancelSale, NoteSale, SaleRow
<1>4. RecordTypes' /\ RemovalsFit'
  BY <1>1, <1>3, SaleRecorded, SameRemovals DEF BookInv
<1>5. \A e \in Entries : EntryFits(e, entry[e], merged, phone, crossed, cameLate)
  BY DEF BookInv, RowsFit
<1>6. CASE SaveSale(o)
  <2>1. /\ DuplicatesFit' /\ UNCHANGED <<merged, phone, crossed>>
        /\ cameLate \subseteq cameLate' /\ cameLate' \subseteq ({"sale"} \X Sales) \cup ({"entry"} \X Entries)
        /\ SaleOf[o].customer \in merged => <<"sale", o>> \in cameLate'
    BY <1>1, <1>6, SavedRow DEF SaveSale
  <2>2. sale[o].status = "none" /\ sale'[o].status # "none"
    BY <1>2, <1>6 DEF SaveSale, SaleRow
  <2>3. SaleFits(o, sale'[o], merged', phone', crossed', cameLate')
    BY <1>3, <2>1, <2>2 DEF BookInv, RowsFit, SaleFits, RowFits
  <2>4. \A a \in Sales : a # o => SaleFits(a, sale'[a], merged', phone', crossed', cameLate')
    BY <1>3, <2>1 DEF BookInv, RowsFit, SaleFits, RowFits
  <2>5. \A e \in Entries : EntryFits(e, entry'[e], merged', phone', crossed', cameLate')
    BY <1>1, <1>5, <2>1 DEF EntryFits, RowFits
  <2>6. RowsFit'
    BY <2>1, <2>3, <2>4, <2>5 DEF RowsFit
  <2>7. QED
    BY <1>4, <2>1, <2>6 DEF BookInv
<1>7. CASE CancelSale(o) \/ \E kind \in {"CASH", "CREDIT"} : NoteSale(o, kind)
  <2>1. UNCHANGED customerVars /\ UNCHANGED <<req, noted, toReview, merged, phone, crossed, cameLate>>
    BY <1>7 DEF CancelSale, NoteSale, customerVars, vars
  <2>2. sale[o].status # "none" /\ sale'[o].status # "none"
    BY <1>2, <1>7 DEF CancelSale, NoteSale, SaleRow
  <2>3. ASSUME NEW a \in Sales PROVE SaleFits(a, sale'[a], merged', phone', crossed', cameLate')
    <3>1. SaleFits(a, sale[a], merged, phone, crossed, cameLate)
      BY DEF BookInv, RowsFit
    <3>2. CASE a = o
      BY <1>3, <2>1, <2>2, <3>1, <3>2 DEF SaleFits, RowFits
    <3>3. CASE a # o
      BY <1>3, <2>1, <3>1, <3>3
    <3>4. QED
      BY <3>2, <3>3
  <2>4. \A e \in Entries : EntryFits(e, entry'[e], merged', phone', crossed', cameLate')
    BY <1>1, <1>5, <2>1
  <2>5. RowsFit'
    BY <2>1, <2>3, <2>4 DEF RowsFit, BookInv
  <2>6. QED
    BY <1>4, <2>1, <2>5, SameDuplicates, SameDoubles DEF BookInv
<1>8. QED
  BY <1>6, <1>7

LEMMA EntriesKeep ==
    ASSUME BookInv, day \in 1..MaxDay, NEW e \in Entries,
           \/ \E d \in 1..MaxDay : CustomerPayment(e, d) \/ CustomerOpening(e, d) \/ SupplierPayment(e, d) \/ SupplierOpening(e, d)
           \/ VoidCustomerEntry(e) \/ VoidSupplierEntry(e)
    PROVE  BookInv'
<1>1. entry \in [Entries -> EntryRow] /\ \A f \in Entries : PartyFits(f, entry[f].party)
  BY DEF BookInv, RecordTypes
<1>2. /\ UNCHANGED <<vars, sale, expense, cash, opening>>
      /\ \/ /\ \E d \in 0..MaxDay : entry' = [entry EXCEPT ![e].status = "live", ![e].at = d]
            /\ entry[e].status = "none"
            /\ \/ EntryOf[e].table # "customer" /\ UNCHANGED customerVars
               \/ Saved("entry", e, EntryOf[e].party)
         \/ entry' = [entry EXCEPT ![e].status = "void"] /\ entry[e].status = "live" /\ UNCHANGED customerVars
  <2>1. ASSUME NEW d \in 1..MaxDay, CustomerPayment(e, d) \/ CustomerOpening(e, d) \/ SupplierPayment(e, d) \/ SupplierOpening(e, d)
        PROVE  /\ UNCHANGED <<vars, sale, expense, cash, opening>>
               /\ \E k \in 0..MaxDay : entry' = [entry EXCEPT ![e].status = "live", ![e].at = k]
               /\ entry[e].status = "none"
               /\ \/ EntryOf[e].table # "customer" /\ UNCHANGED customerVars
                  \/ Saved("entry", e, EntryOf[e].party)
    <3>1. d \in 0..MaxDay /\ NoLater(d) \in 0..MaxDay
      BY DaysFit
    <3>2. PICK k \in 0..MaxDay, table \in {"customer", "supplier"}, type \in {"PAYMENT", "OPENING"} :
             /\ NewEntry(e, table, type, k)
             /\ IF table = "supplier" THEN UNCHANGED customerVars ELSE Saved("entry", e, EntryOf[e].party)
      BY <2>1, <3>1 DEF CustomerPayment, CustomerOpening, SupplierPayment, SupplierOpening
    <3>3. QED
      BY <3>2 DEF NewEntry
  <2>2. QED
    BY <2>1 DEF VoidCustomerEntry, VoidSupplierEntry, Void
<1>3. /\ entry' \in [Entries -> EntryRow] /\ \A f \in Entries : entry'[f].party = entry[f].party
      /\ \A f \in Entries : f # e => entry'[f] = entry[f]
  BY <1>1, <1>2 DEF EntryRow
<1>4. \A f \in Entries : PartyFits(f, entry'[f].party)
  BY <1>1, <1>3
<1>5. RecordTypes' /\ RemovalsFit'
  BY <1>2, <1>3, <1>4, EntryRecorded, SameRemovals DEF BookInv
<1>6. \A o \in Sales : SaleFits(o, sale[o], merged, phone, crossed, cameLate)
  BY DEF BookInv, RowsFit
<1>7. entry'[e].status # "none"
  BY <1>1, <1>2 DEF EntryRow
<1>8. CASE UNCHANGED customerVars /\ (EntryOf[e].table # "customer" \/ entry[e].status # "none")
  <2>1. UNCHANGED <<req, noted, toReview, merged, phone, crossed, cameLate>>
    BY <1>2, <1>8 DEF customerVars, vars
  <2>2. \A f \in Entries : EntryFits(f, entry'[f], merged', phone', crossed', cameLate')
    BY <1>3, <1>7, <1>8, <2>1 DEF BookInv, RowsFit, EntryFits, RowFits
  <2>3. \A o \in Sales : SaleFits(o, sale'[o], merged', phone', crossed', cameLate')
    BY <1>2, <1>6, <2>1
  <2>4. RowsFit'
    BY <2>1, <2>2, <2>3 DEF RowsFit, BookInv
  <2>5. QED
    BY <1>5, <1>8, <2>1, <2>4, SameDuplicates, SameDoubles DEF BookInv
<1>9. CASE Saved("entry", e, EntryOf[e].party) /\ entry[e].status = "none"
  <2>1. /\ DuplicatesFit' /\ UNCHANGED <<merged, phone, crossed>>
        /\ cameLate \subseteq cameLate' /\ cameLate' \subseteq ({"sale"} \X Sales) \cup ({"entry"} \X Entries)
        /\ EntryOf[e].party \in merged => <<"entry", e>> \in cameLate'
    BY <1>2, <1>9, SavedRow
  <2>2. EntryFits(e, entry'[e], merged', phone', crossed', cameLate')
    BY <1>3, <1>7, <1>9, <2>1 DEF BookInv, RowsFit, EntryFits, RowFits
  <2>3. \A f \in Entries : f # e => EntryFits(f, entry'[f], merged', phone', crossed', cameLate')
    BY <1>3, <2>1 DEF BookInv, RowsFit, EntryFits, RowFits
  <2>4. ASSUME NEW o \in Sales PROVE SaleFits(o, sale'[o], merged', phone', crossed', cameLate')
    <3>1. SaleFits(o, sale[o], merged, phone, crossed, cameLate) /\ sale'[o] = sale[o]
      BY <1>2, <1>6
    <3>2. QED
      BY <2>1, <3>1 DEF SaleFits, RowFits
  <2>5. RowsFit'
    BY <2>1, <2>2, <2>3, <2>4 DEF RowsFit
  <2>6. QED
    BY <1>5, <2>1, <2>5 DEF BookInv
<1>10. QED
  BY <1>2, <1>8, <1>9

LEMMA DrawerKeeps ==
    ASSUME BookInv, day \in 1..MaxDay, DrawerNext
    PROVE  BookInv'
<1>1. UNCHANGED <<vars, sale, entry, customerVars>>
  BY DEF DrawerNext, AddExpense, ChangeExpense, DeleteExpense, AddCashEntry, DeleteCashEntry, SetOpening
<1>2. /\ expense \in [Expenses -> ExpenseRow(day)] /\ cash \in [CashEntries -> CashRow(day)]
      /\ opening \in [day : 0..MaxDay, amount : Nat]
  BY DEF BookInv, RecordTypes
<1>3. /\ expense' \in [Expenses -> ExpenseRow(day)] /\ cash' \in [CashEntries -> CashRow(day)]
      /\ opening' \in [day : 0..MaxDay, amount : Nat]
  <2>1. ASSUME NEW x \in Expenses, NEW d \in 1..MaxDay, NEW kind \in Kinds, NEW amount \in 1..2,
               AddExpense(x, d) \/ ChangeExpense(x, d, kind, amount) \/ DeleteExpense(x)
        PROVE  expense' \in [Expenses -> ExpenseRow(day)] /\ UNCHANGED <<cash, opening>>
    <3>1. NoLater(d) \in 0..day /\ ExpenseOf[x].kind \in Kinds /\ ExpenseOf[x].amount \in Nat /\ amount \in Nat
      BY DaysFit, BookConstants
    <3>2. UNCHANGED <<cash, opening>>
      BY <2>1 DEF AddExpense, ChangeExpense, DeleteExpense
    <3>3. CASE AddExpense(x, d)
      <4>1. [status |-> "live", at |-> NoLater(d), kind |-> ExpenseOf[x].kind, amount |-> ExpenseOf[x].amount] \in ExpenseRow(day)
        BY <3>1 DEF ExpenseRow
      <4>2. QED
        BY <1>2, <3>2, <3>3, <4>1 DEF AddExpense
    <3>4. CASE ChangeExpense(x, d, kind, amount)
      <4>1. [expense[x] EXCEPT !.at = NoLater(d), !.kind = kind, !.amount = amount] \in ExpenseRow(day)
        BY <1>2, <3>1 DEF ExpenseRow
      <4>2. QED
        BY <1>2, <3>2, <3>4, <4>1 DEF ChangeExpense
    <3>5. CASE DeleteExpense(x)
      BY <1>2, <3>2, <3>5 DEF DeleteExpense, ExpenseRow
    <3>6. QED
      BY <2>1, <3>3, <3>4, <3>5
  <2>2. ASSUME NEW c \in CashEntries, NEW d \in 1..MaxDay, AddCashEntry(c, d) \/ DeleteCashEntry(c)
        PROVE  cash' \in [CashEntries -> CashRow(day)] /\ UNCHANGED <<expense, opening>>
    <3>1. NoLater(d) \in 0..day
      BY DaysFit
    <3>2. QED
      BY <1>2, <2>2, <3>1 DEF AddCashEntry, DeleteCashEntry, CashRow
  <2>3. ASSUME NEW d \in 1..MaxDay, NEW amount \in 0..1, SetOpening(d, amount)
        PROVE  opening' \in [day : 0..MaxDay, amount : Nat] /\ UNCHANGED <<expense, cash>>
    BY <2>3, DaysFit DEF SetOpening
  <2>4. 1 \in 1..MaxDay /\ "CASH" \in Kinds /\ 1 \in 1..2
    BY ConstantsHold DEF Kinds
  <2>5. QED
    BY <1>2, <2>1, <2>2, <2>3, <2>4 DEF DrawerNext
<1>4. day' = day
  BY <1>1 DEF vars
<1>5. RecordTypes'
  BY <1>1, <1>3, <1>4 DEF RecordTypes, BookInv
<1>6. UNCHANGED <<req, noted, toReview, merged, phone, crossed, cameLate>>
  BY <1>1 DEF vars, customerVars
<1>7. DuplicatesFit' /\ RowsFit' /\ RemovalsFit'
  BY <1>1, <1>6, SameDuplicates, SameDoubles, SameRows, SameRemovals DEF BookInv
<1>8. QED
  BY <1>5, <1>7 DEF BookInv

\* A list that grows at its end.
LEMMA OlderGrows ==
    ASSUME NEW list \in Seq(Customers), NEW c \in Customers
    PROVE  /\ Append(list, c) \in Seq(Customers)
           /\ ToSet(Append(list, c)) = ToSet(list) \cup {c}
           /\ \A a, b : Older(list, a, b) => Older(Append(list, c), a, b)
           /\ \A a \in ToSet(list) : Older(Append(list, c), a, c)
<1> DEFINE new == Append(list, c)
<1>1. /\ Len(list) \in Nat /\ DOMAIN list = 1..Len(list) /\ DOMAIN new = 1..(Len(list) + 1)
      /\ new[Len(list) + 1] = c /\ \A i \in DOMAIN list : new[i] = list[i]
      /\ new \in Seq(Customers)
  OBVIOUS
<1> HIDE DEF new
<1>2. ToSet(new) = ToSet(list) \cup {c}
  BY <1>1 DEF ToSet
<1>3. \A a, b : Older(list, a, b) => Older(new, a, b)
  BY <1>1 DEF Older
<1>4. ASSUME NEW a \in ToSet(list) PROVE Older(new, a, c)
  <2>1. PICK i \in DOMAIN list : list[i] = a
    BY DEF ToSet
  <2>2. i \in DOMAIN new /\ Len(list) + 1 \in DOMAIN new /\ i < Len(list) + 1 /\ new[i] = a
    BY <1>1, <2>1
  <2>3. QED
    BY <1>1, <2>2 DEF Older
<1>5. QED
  BY <1>1, <1>2, <1>3, <1>4 DEF new

\* Two customers that are apart are one before the other.
LEMMA OlderTotal ==
    ASSUME NEW list \in Seq(Customers), NEW a \in ToSet(list), NEW b \in ToSet(list), a # b
    PROVE  Older(list, a, b) \/ Older(list, b, a)
<1>1. PICK i \in DOMAIN list : list[i] = a
  BY DEF ToSet
<1>2. PICK j \in DOMAIN list : list[j] = b
  BY DEF ToSet
<1>3. i \in Int /\ j \in Int /\ i # j
  BY <1>1, <1>2
<1>4. QED
  BY <1>1, <1>2, <1>3 DEF Older

LEMMA OlderOnce ==
    ASSUME NEW list \in Seq(Customers), \A i, j \in DOMAIN list : list[i] = list[j] => i = j,
           NEW a, NEW b, Older(list, a, b)
    PROVE  ~Older(list, b, a) /\ a # b
<1>1. PICK i, j \in DOMAIN list : i < j /\ list[i] = a /\ list[j] = b
  BY DEF Older
<1>2. i \in Int /\ j \in Int
  OBVIOUS
<1>3. a # b
  BY <1>1, <1>2
<1>4. ASSUME NEW k \in DOMAIN list, NEW m \in DOMAIN list, k < m, list[k] = b, list[m] = a
      PROVE  FALSE
  <2>1. k = j /\ m = i
    BY <1>1, <1>4
  <2>2. QED
    BY <1>1, <1>2, <1>4, <2>1
<1>5. QED
  BY <1>3, <1>4 DEF Older

LEMMA OlderChain ==
    ASSUME NEW list \in Seq(Customers), \A i, j \in DOMAIN list : list[i] = list[j] => i = j,
           NEW a, NEW b, NEW c, Older(list, a, b), Older(list, b, c)
    PROVE  Older(list, a, c)
<1>1. PICK i, j \in DOMAIN list : i < j /\ list[i] = a /\ list[j] = b
  BY DEF Older
<1>2. PICK k, m \in DOMAIN list : k < m /\ list[k] = b /\ list[m] = c
  BY DEF Older
<1>3. i \in Int /\ j \in Int /\ k \in Int /\ m \in Int /\ j = k
  BY <1>1, <1>2
<1>4. i < m
  BY <1>1, <1>2, <1>3
<1>5. QED
  BY <1>1, <1>2, <1>4 DEF Older

\* Handlers of supplier bills and of suppliers, sales and days.
LEMMA GoodsKeepBooks ==
    ASSUME BookInv, day \in 1..MaxDay, UNCHANGED bookVars, day' = day \/ day' = day + 1, RemovalsFit',
           Doubles' \subseteq Doubles
    PROVE  BookInv'
<1>1. ExpenseRow(day) \subseteq ExpenseRow(day') /\ CashRow(day) \subseteq CashRow(day')
  <2>1. 0..day \subseteq 0..day'
    OBVIOUS
  <2>2. QED
    BY <2>1 DEF ExpenseRow, CashRow
<1>2. RecordTypes'
  BY <1>1 DEF BookInv, RecordTypes, bookVars
<1>3. DuplicatesFit'
  BY SameDuplicates DEF BookInv, bookVars
<1>4. RowsFit'
  BY SameRows DEF BookInv, bookVars, customerVars
<1>5. QED
  BY <1>2, <1>3, <1>4 DEF BookInv

\* A customer more, looked up afterwards or not.
LEMMA ListedKeeps ==
    ASSUME BookInv, NEW c \in Customers, NEW n \in Phones \cup {0}, AddCustomer(c, n) \/ BringCustomer(c, n)
    PROVE  BookInv'
<1>1. /\ added' = Append(added, c) /\ c \notin ToSet(added) /\ phone' = [phone EXCEPT ![c] = n]
      /\ checking' = checking \/ (n # 0 /\ checking' = checking \cup {[new |-> c, phone |-> n]})
      /\ UNCHANGED <<vars, sale, entry, expense, cash, opening, merged, noted, toReview, crossed, cameLate>>
  BY DEF AddCustomer, BringCustomer, Listed
<1>2. DuplicatesFit
  BY DEF BookInv
<1>3. /\ added' \in Seq(Customers) /\ ToSet(added') = ToSet(added) \cup {c}
      /\ \A a, b : Older(added, a, b) => Older(added', a, b)
      /\ \A a \in ToSet(added) : Older(added', a, c)
  BY <1>1, <1>2, OlderGrows DEF DuplicatesFit
<1>4. \A i, j \in DOMAIN added' : added'[i] = added'[j] => i = j
  <2>1. /\ added \in Seq(Customers) /\ \A i, j \in DOMAIN added : added[i] = added[j] => i = j
        /\ \A i \in DOMAIN added : added[i] # c
    BY <1>1, <1>2 DEF DuplicatesFit, ToSet
  <2>2. /\ Len(added) \in Nat /\ DOMAIN added = 1..Len(added) /\ DOMAIN added' = 1..(Len(added) + 1)
        /\ added'[Len(added) + 1] = c /\ \A i \in DOMAIN added : added'[i] = added[i]
    BY <1>1, <2>1
  <2>3. \A i \in DOMAIN added' : i \in DOMAIN added \/ i = Len(added) + 1
    BY <2>2
  <2>4. QED
    BY <2>1, <2>2, <2>3
<1>5. /\ phone' \in [Customers -> Phones \cup {0}] /\ phone'[c] = n
      /\ \A a \in ToSet(added) : phone'[a] = phone[a]
  BY <1>1, <1>2 DEF DuplicatesFit
<1>6. Doubles' = Doubles
  BY <1>1, SameDoubles DEF vars
<1>7. ASSUME NEW p \in Doubles PROVE FoundFor(p, added', phone', merged', crossed')
  <2>1. FoundFor(p, added, phone, merged, crossed)
    BY <1>2 DEF DuplicatesFit
  <2>2. /\ p.new \in ToSet(added) /\ p.keep \in ToSet(added) /\ p.new # p.keep
        /\ Holds(p.new, p.phone, phone, crossed) /\ Holds(p.keep, p.phone, phone, crossed)
    BY <2>1 DEF FoundFor
  <2>3. Holds(p.new, p.phone, phone', crossed') /\ Holds(p.keep, p.phone, phone', crossed')
    BY <1>1, <1>5, <2>2 DEF Holds
  <2>4. ASSUME p.phone \notin crossed
        PROVE  /\ Older(added', p.keep, p.new) /\ p.keep \notin merged
               /\ \A a \in ToSet(added') \ (merged \cup {p.new, p.keep}) :
                     phone'[a] = p.phone => Older(added', p.keep, a)
    BY <1>3, <1>5, <2>1, <2>2, <2>4 DEF FoundFor
  <2>5. QED
    BY <1>1, <1>3, <2>2, <2>3, <2>4 DEF FoundFor
<1>8. /\ checking' \subseteq [new : Customers, phone : Phones]
      /\ \A q \in checking' : q.new \in ToSet(added') /\ Holds(q.new, q.phone, phone', crossed')
  <2>1. \A q \in checking : q.new \in ToSet(added') /\ Holds(q.new, q.phone, phone', crossed')
    BY <1>1, <1>2, <1>3, <1>5 DEF DuplicatesFit, Holds
  <2>2. CASE checking' = checking
    BY <1>2, <2>1, <2>2 DEF DuplicatesFit
  <2>3. CASE n # 0 /\ checking' = checking \cup {[new |-> c, phone |-> n]}
    <3> DEFINE q == [new |-> c, phone |-> n]
    <3>1. q \in [new : Customers, phone : Phones] /\ q.new = c /\ q.phone = n
      BY <2>3
    <3> HIDE DEF q
    <3>2. q.new \in ToSet(added') /\ Holds(q.new, q.phone, phone', crossed')
      BY <1>3, <1>5, <3>1 DEF Holds
    <3>3. checking' = checking \cup {q}
      BY <2>3 DEF q
    <3>4. QED
      BY <1>2, <2>1, <3>1, <3>2, <3>3 DEF DuplicatesFit
  <2>4. QED
    BY <1>1, <2>2, <2>3
<1>9. DuplicatesFit'
  <2>1. /\ merged' = merged /\ crossed' = crossed
        /\ merged \subseteq ToSet(added') /\ crossed \subseteq Phones \cup {0} /\ Doubles \subseteq Pairs
    BY <1>1, <1>2, <1>3 DEF DuplicatesFit
  <2>2. QED
    BY <1>3, <1>4, <1>5, <1>6, <1>7, <1>8, <2>1 DEF DuplicatesFit
<1>10. RowsFit'
  <2>1. \A a \in merged' : a \in merged /\ phone'[a] = phone[a]
    BY <1>1, <1>2, <1>5 DEF DuplicatesFit
  <2>2. QED
    BY <1>1, <2>1, RowsStay DEF BookInv
<1>11. RecordTypes'
  BY <1>1 DEF BookInv, RecordTypes, vars
<1>12. QED
  BY <1>1, <1>9, <1>10, <1>11, SameRemovals DEF BookInv

LEMMA FindDuplicateKeeps ==
    ASSUME BookInv, NEW q \in checking, FindDuplicate(q)
    PROVE  BookInv'
<1> DEFINE same == {i \in DOMAIN added : added[i] # q.new /\ added[i] \notin merged /\ phone[added[i]] = q.phone}
           at == CHOOSE i \in same : \A j \in same : i <= j
           pair == [new |-> q.new, keep |-> added[at], phone |-> q.phone]
<1>1. /\ checking' = checking \ {q}
      /\ IF same = {} THEN UNCHANGED <<noted, crossed>>
         ELSE /\ noted' = noted \cup {pair}
              /\ crossed' = IF IsOlder(q.new, added[at]) THEN crossed \cup {q.phone} ELSE crossed
      /\ UNCHANGED <<vars, sale, entry, expense, cash, opening, added, phone, merged, toReview, cameLate>>
  BY DEF FindDuplicate, OthersWith, Oldest
<1>2. DuplicatesFit
  BY DEF BookInv
<1>3. /\ added \in Seq(Customers) /\ \A i, j \in DOMAIN added : added[i] = added[j] => i = j
      /\ q.new \in ToSet(added) /\ q.new \in Customers /\ q.phone \in Phones
      /\ Holds(q.new, q.phone, phone, crossed)
  BY <1>2 DEF DuplicatesFit
<1>4. RecordTypes' /\ RemovalsFit'
  BY <1>1, SameRemovals DEF BookInv, RecordTypes, vars
<1>5. crossed \subseteq crossed' /\ crossed' \subseteq crossed \cup {q.phone} /\ crossed' \subseteq Phones \cup {0}
  BY <1>1, <1>2, <1>3 DEF DuplicatesFit
<1>6. RowsFit'
  BY <1>1, <1>5, RowsStay DEF BookInv
<1>7. ASSUME NEW p \in Doubles PROVE FoundFor(p, added, phone, merged, crossed')
  <2>1. FoundFor(p, added, phone, merged, crossed)
    BY <1>2 DEF DuplicatesFit
  <2>2. QED
    BY <1>5, <2>1 DEF FoundFor, Holds
<1>8. /\ checking' \subseteq [new : Customers, phone : Phones]
      /\ \A x \in checking' : x.new \in ToSet(added) /\ Holds(x.new, x.phone, phone, crossed')
  BY <1>1, <1>2, <1>5 DEF DuplicatesFit, Holds
<1>9. /\ req' = req /\ toReview' = toReview /\ added' = added /\ phone' = phone /\ merged' = merged
      /\ merged \subseteq ToSet(added) /\ phone \in [Customers -> Phones \cup {0}] /\ Doubles \subseteq Pairs
  BY <1>1, <1>2 DEF vars, DuplicatesFit
<1>10. CASE same = {}
  <2>1. Doubles' = Doubles
    BY <1>1, <1>9, <1>10, SameDoubles
  <2>2. DuplicatesFit'
    BY <1>3, <1>5, <1>7, <1>8, <1>9, <2>1 DEF DuplicatesFit
  <2>3. QED
    BY <1>4, <1>6, <2>2 DEF BookInv
<1>11. CASE same # {}
  <2>1. at \in same /\ \A j \in same : at <= j
    <3>1. same \subseteq Nat
      BY <1>3
    <3> HIDE DEF same
    <3>2. QED
      BY <1>11, <3>1, LeastNat
  <2> HIDE DEF at
  <2>2. /\ at \in DOMAIN added /\ added[at] # q.new /\ added[at] \notin merged /\ phone[added[at]] = q.phone
        /\ added[at] \in ToSet(added) /\ added[at] \in Customers
    <3>1. at \in DOMAIN added /\ added[at] # q.new /\ added[at] \notin merged /\ phone[added[at]] = q.phone
      BY <2>1
    <3>2. QED
      BY <1>3, <3>1 DEF ToSet
  <2>3. ASSUME NEW x \in ToSet(added), x # q.new, x # added[at], x \notin merged, phone[x] = q.phone
        PROVE  Older(added, added[at], x)
    <3>1. PICK i \in DOMAIN added : added[i] = x
      BY DEF ToSet
    <3>2. i \in same /\ i # at /\ i \in Int /\ at \in Int
      <4>1. i \in same
        BY <2>3, <3>1
      <4>2. QED
        BY <1>3, <2>2, <2>3, <3>1, <4>1
    <3>3. at < i
      BY <2>1, <3>2
    <3>4. QED
      BY <2>2, <3>1, <3>3 DEF Older
  <2>4. q.phone \notin crossed' => Older(added, added[at], q.new)
    <3>1. IsOlder(q.new, added[at]) <=> Older(added, q.new, added[at])
      BY DEF IsOlder, Older
    <3>2. Older(added, q.new, added[at]) \/ Older(added, added[at], q.new)
      BY <1>3, <2>2, OlderTotal
    <3>3. IsOlder(q.new, added[at]) => q.phone \in crossed'
      BY <1>1, <1>11
    <3>4. QED
      BY <3>1, <3>2, <3>3
  <2>5. noted' = noted \cup {pair}
    BY <1>1, <1>11
  <2>6. pair.new = q.new /\ pair.keep = added[at] /\ pair.phone = q.phone /\ pair \in Pairs
    BY <1>3, <2>2 DEF Pairs
  <2> HIDE DEF pair, same
  <2>7. FoundFor(pair, added, phone, merged, crossed')
    <3>1. Holds(pair.new, pair.phone, phone, crossed') /\ Holds(pair.keep, pair.phone, phone, crossed')
      BY <1>3, <1>5, <2>2, <2>6 DEF Holds
    <3>2. QED
      BY <1>3, <2>2, <2>3, <2>4, <2>6, <3>1 DEF FoundFor
  <2>8. Doubles' = Doubles \cup {pair}
    BY <1>9, <2>5 DEF Doubles
  <2>9. DuplicatesFit'
    BY <1>3, <1>5, <1>7, <1>8, <1>9, <2>6, <2>7, <2>8 DEF DuplicatesFit
  <2>10. QED
    BY <1>4, <1>6, <2>9 DEF BookInv
<1>12. QED
  BY <1>10, <1>11

LEMMA RecordDuplicateKeeps ==
    ASSUME BookInv, NEW p \in noted, RecordDuplicate(p)
    PROVE  BookInv'
<1>1. /\ noted' = noted \ {p} /\ toReview' = toReview \cup {p}
      /\ UNCHANGED <<vars, sale, entry, expense, cash, opening, added, phone, merged, checking, crossed, cameLate>>
  BY DEF RecordDuplicate
<1>2. Doubles' = Doubles
  BY <1>1 DEF Doubles, vars
<1>3. DuplicatesFit'
  <2>1. \A d \in Doubles' : FoundFor(d, added', phone', merged', crossed')
    BY <1>1, <1>2 DEF BookInv, DuplicatesFit
  <2>2. QED
    BY <1>1, <1>2, <2>1 DEF BookInv, DuplicatesFit
<1>4. RecordTypes'
  BY <1>1 DEF BookInv, RecordTypes, vars
<1>5. QED
  BY <1>1, <1>3, <1>4, SameRows, SameRemovals DEF BookInv

\* A phone changed, or a customer brought back with one.
LEMMA PhoneKeeps ==
    ASSUME BookInv, NEW c \in Customers, NEW n \in Phones \cup {0}, ChangePhone(c, n) \/ RestoreCustomer(c, n)
    PROVE  BookInv'
<1>1. /\ phone' = [phone EXCEPT ![c] = n] /\ crossed' = crossed \cup {phone[c], n}
      /\ merged' = merged \/ merged' = merged \ {c}
      /\ UNCHANGED <<vars, sale, entry, expense, cash, opening, added, checking, noted, toReview, cameLate>>
  BY DEF ChangePhone, RestoreCustomer
<1>2. DuplicatesFit
  BY DEF BookInv
<1>3. /\ phone' \in [Customers -> Phones \cup {0}] /\ phone'[c] = n
      /\ \A a \in Customers : a # c => phone'[a] = phone[a]
  BY <1>1, <1>2 DEF DuplicatesFit
<1>4. /\ crossed \subseteq crossed' /\ n \in crossed' /\ phone[c] \in crossed'
      /\ crossed' \subseteq Phones \cup {0} /\ merged' \subseteq merged
  BY <1>1, <1>2 DEF DuplicatesFit
<1>5. /\ \A a \in merged : a \notin merged' => a = c
      /\ ToSet(added) \subseteq Customers /\ merged \subseteq ToSet(added) /\ Doubles \subseteq Pairs
  BY <1>1, <1>2 DEF DuplicatesFit, ToSet
<1>6. ASSUME NEW a \in Customers, NEW m, Holds(a, m, phone, crossed) PROVE Holds(a, m, phone', crossed')
  BY <1>3, <1>4, <1>6 DEF Holds
<1>7. ASSUME NEW p \in Doubles PROVE FoundFor(p, added, phone', merged', crossed')
  <2>1. FoundFor(p, added, phone, merged, crossed)
    BY <1>2 DEF DuplicatesFit
  <2>2. /\ p.new \in ToSet(added) /\ p.keep \in ToSet(added) /\ p.new # p.keep
        /\ Holds(p.new, p.phone, phone', crossed') /\ Holds(p.keep, p.phone, phone', crossed')
    BY <1>5, <1>6, <2>1 DEF FoundFor
  <2>3. ASSUME p.phone \notin crossed'
        PROVE  /\ Older(added, p.keep, p.new) /\ p.keep \notin merged'
               /\ \A a \in ToSet(added) \ (merged' \cup {p.new, p.keep}) :
                     phone'[a] = p.phone => Older(added, p.keep, a)
    <3>1. /\ Older(added, p.keep, p.new) /\ p.keep \notin merged
          /\ \A a \in ToSet(added) \ (merged \cup {p.new, p.keep}) : phone[a] = p.phone => Older(added, p.keep, a)
      BY <1>4, <2>1, <2>3 DEF FoundFor
    <3>2. ASSUME NEW a \in ToSet(added) \ (merged' \cup {p.new, p.keep}), phone'[a] = p.phone
          PROVE  Older(added, p.keep, a)
      <4>1. a # c
        BY <1>3, <1>4, <2>3, <3>2
      <4>2. a \notin merged /\ phone[a] = p.phone
        BY <1>3, <1>5, <3>2, <4>1
      <4>3. QED
        BY <3>1, <3>2, <4>2
    <3>3. QED
      BY <1>4, <3>1, <3>2
  <2>4. QED
    BY <2>2, <2>3 DEF FoundFor
<1>8. \A q \in checking : q.new \in ToSet(added) /\ Holds(q.new, q.phone, phone', crossed')
  BY <1>2, <1>5, <1>6 DEF DuplicatesFit
<1>9. Doubles' = Doubles /\ added' = added /\ checking' = checking
  BY <1>1, SameDoubles DEF vars
<1>10. DuplicatesFit'
  <2>1. /\ added \in Seq(Customers) /\ \A i, j \in DOMAIN added : added[i] = added[j] => i = j
        /\ checking \subseteq [new : Customers, phone : Phones] /\ merged' \subseteq ToSet(added)
    BY <1>2, <1>4, <1>5 DEF DuplicatesFit
  <2>2. QED
    BY <1>3, <1>4, <1>5, <1>7, <1>8, <1>9, <2>1 DEF DuplicatesFit
<1>11. RowsFit'
  <2>1. \A a \in merged' : a \in merged /\ (phone'[a] = phone[a] \/ phone'[a] \in crossed')
    BY <1>3, <1>4, <1>5
  <2>2. QED
    BY <1>1, <1>4, <2>1, RowsStay DEF BookInv
<1>12. RecordTypes'
  BY <1>1 DEF BookInv, RecordTypes, vars
<1>13. QED
  BY <1>1, <1>10, <1>11, <1>12, SameRemovals DEF BookInv

\* What a decision leaves alone; the pair is one that was found.
LEMMA DecidedDoes ==
    ASSUME BookInv, NEW r \in Requests, NEW choice, Decided(r, choice)
    PROVE  /\ Doubles' \subseteq Doubles /\ req[r].pair \in Doubles /\ req[r].pair \in Pairs
           /\ FoundFor(req[r].pair, added, phone, merged, crossed)
           /\ RemovalsFit' /\ day' = day
<1>1. /\ req[r].op = "resolve" /\ toReview' = toReview \ {req[r].pair} /\ req' = [req EXCEPT ![r] = Idle]
      /\ noted' = noted /\ archived' = archived /\ day' = day
  BY DEF Decided
<1>2. Idle.op # "resolve" /\ Idle.op # "remove"
  BY DEF Idle
<1>3. Doubles' \subseteq Doubles
  BY <1>1, <1>2, HandlerDoubles
<1>4. req[r].pair \in Doubles
  BY <1>1 DEF Doubles
<1>5. RemovalsFit'
  BY <1>1, <1>2 DEF BookInv, RemovalsFit
<1>6. QED
  BY <1>1, <1>3, <1>4, <1>5 DEF BookInv, DuplicatesFit

LEMMA MergeKeeps ==
    ASSUME BookInv, NEW r \in Requests, MergeCustomers(r)
    PROVE  BookInv'
<1> DEFINE p == req[r].pair
<1>1. /\ Doubles' \subseteq Doubles /\ p \in Doubles /\ p \in Pairs
      /\ FoundFor(p, added, phone, merged, crossed)
      /\ RemovalsFit' /\ day' = day
  BY DecidedDoes DEF MergeCustomers
<1>2. /\ merged' = merged \cup {p.new}
      /\ MovedTo(p.new, p.keep)
      /\ UNCHANGED <<expense, cash, opening, added, phone, checking, crossed, cameLate>>
  BY DEF MergeCustomers, Decided
<1> HIDE DEF p
<1>3. DuplicatesFit /\ RecordTypes /\ RowsFit
  BY DEF BookInv
<1>4. /\ added \in Seq(Customers) /\ \A i, j \in DOMAIN added : added[i] = added[j] => i = j
      /\ p.new \in Customers /\ p.keep \in Customers /\ p.new \in ToSet(added)
  BY <1>1, <1>3 DEF DuplicatesFit, Pairs, FoundFor
<1>5. /\ \A o \in Sales : /\ [sale[o] EXCEPT !.customer = p.keep] \in SaleRow /\ sale[o] \in SaleRow
                          /\ [sale[o] EXCEPT !.customer = p.keep].customer = p.keep
                          /\ [sale[o] EXCEPT !.customer = p.keep].status = sale[o].status
      /\ \A e \in Entries : /\ [entry[e] EXCEPT !.party = p.keep] \in EntryRow /\ entry[e] \in EntryRow
                            /\ [entry[e] EXCEPT !.party = p.keep].party = p.keep
                            /\ [entry[e] EXCEPT !.party = p.keep].status = entry[e].status
  <2>1. ASSUME NEW row \in SaleRow
        PROVE  /\ [row EXCEPT !.customer = p.keep] \in SaleRow
               /\ [row EXCEPT !.customer = p.keep].customer = p.keep
               /\ [row EXCEPT !.customer = p.keep].status = row.status
    BY <1>4 DEF SaleRow
  <2>2. ASSUME NEW row \in EntryRow
        PROVE  /\ [row EXCEPT !.party = p.keep] \in EntryRow
               /\ [row EXCEPT !.party = p.keep].party = p.keep
               /\ [row EXCEPT !.party = p.keep].status = row.status
    BY <1>4 DEF EntryRow
  <2>3. (\A o \in Sales : sale[o] \in SaleRow) /\ (\A e \in Entries : entry[e] \in EntryRow)
    BY <1>3 DEF RecordTypes
  <2>4. QED
    BY <2>1, <2>2, <2>3
<1>6. ASSUME NEW o \in Sales
      PROVE  /\ sale'[o] \in SaleRow /\ sale'[o].status = sale[o].status
             /\ IF sale[o].status # "none" /\ sale[o].customer = p.new THEN sale'[o].customer = p.keep
                ELSE sale'[o] = sale[o]
  BY <1>2, <1>5 DEF MovedTo
<1>7. ASSUME NEW e \in Entries
      PROVE  /\ entry'[e] \in EntryRow /\ entry'[e].status = entry[e].status
             /\ IF entry[e].status # "none" /\ EntryOf[e].table = "customer" /\ entry[e].party = p.new
                THEN entry'[e].party = p.keep ELSE entry'[e] = entry[e]
  BY <1>2, <1>5 DEF MovedTo
<1>8. RecordTypes'
  <2>1. sale' \in [Sales -> SaleRow] /\ entry' \in [Entries -> EntryRow]
    BY <1>2, <1>6, <1>7 DEF MovedTo
  <2>2. \A e \in Entries : PartyFits(e, entry'[e].party)
    BY <1>3, <1>4, <1>7 DEF RecordTypes, PartyFits
  <2>3. QED
    BY <1>1, <1>2, <1>3, <2>1, <2>2 DEF RecordTypes
<1>9. p.keep \notin merged' \/ phone[p.keep] \in crossed
  <2>1. p.keep # p.new /\ (p.phone \notin crossed => p.keep \notin merged) /\ Holds(p.keep, p.phone, phone, crossed)
    BY <1>1 DEF FoundFor
  <2>2. QED
    BY <1>2, <2>1 DEF Holds
<1>10. RowsFit'
  <2>1. ASSUME NEW o \in Sales PROVE SaleFits(o, sale'[o], merged', phone, crossed, cameLate)
    <3>1. SaleFits(o, sale[o], merged, phone, crossed, cameLate)
      BY <1>3 DEF RowsFit
    <3>2. CASE sale[o].status # "none" /\ sale[o].customer = p.new
      BY <1>6, <1>9, <3>2 DEF SaleFits, RowFits
    <3>3. CASE ~(sale[o].status # "none" /\ sale[o].customer = p.new)
      BY <1>2, <1>6, <3>1, <3>3 DEF SaleFits, RowFits
    <3>4. QED
      BY <3>2, <3>3
  <2>2. ASSUME NEW e \in Entries PROVE EntryFits(e, entry'[e], merged', phone, crossed, cameLate)
    <3>1. EntryFits(e, entry[e], merged, phone, crossed, cameLate)
      BY <1>3 DEF RowsFit
    <3>2. CASE entry[e].status # "none" /\ EntryOf[e].table = "customer" /\ entry[e].party = p.new
      BY <1>7, <1>9, <3>2 DEF EntryFits, RowFits
    <3>3. CASE ~(entry[e].status # "none" /\ EntryOf[e].table = "customer" /\ entry[e].party = p.new)
      BY <1>2, <1>7, <3>1, <3>3 DEF EntryFits, RowFits
    <3>4. QED
      BY <3>2, <3>3
  <2>3. QED
    BY <1>2, <1>3, <2>1, <2>2 DEF RowsFit
<1>11. ASSUME NEW q \in Doubles PROVE FoundFor(q, added, phone, merged', crossed)
  <2>1. FoundFor(q, added, phone, merged, crossed) /\ FoundFor(p, added, phone, merged, crossed)
    BY <1>1, <1>3 DEF DuplicatesFit
  <2>2. ASSUME q.phone \notin crossed, q.keep = p.new PROVE FALSE
    <3>1. /\ Older(added, q.keep, q.new) /\ phone[q.keep] = q.phone
          /\ \A c \in ToSet(added) \ (merged \cup {q.new, q.keep}) : phone[c] = q.phone => Older(added, q.keep, c)
      BY <2>1, <2>2 DEF FoundFor, Holds
    <3>2. p.phone = q.phone
      BY <2>1, <2>2, <3>1 DEF FoundFor, Holds
    <3>3. /\ Older(added, p.keep, p.new) /\ p.keep \notin merged /\ p.keep \in ToSet(added) /\ phone[p.keep] = q.phone
      BY <2>1, <2>2, <3>2 DEF FoundFor, Holds
    <3>4. p.keep # q.keep /\ ~Older(added, q.keep, p.keep)
      BY <1>4, <2>2, <3>3, OlderOnce
    <3>5. p.keep # q.new
      BY <3>1, <3>4
    <3>6. Older(added, q.keep, p.keep)
      BY <3>1, <3>3, <3>4, <3>5
    <3>7. QED
      BY <3>4, <3>6
  <2>3. QED
    BY <1>2, <2>1, <2>2 DEF FoundFor
<1>12. DuplicatesFit'
  <2>1. \A d \in Doubles' : FoundFor(d, added', phone', merged', crossed')
    BY <1>1, <1>2, <1>11
  <2>2. merged' \subseteq ToSet(added') /\ Doubles' \subseteq Pairs
    BY <1>1, <1>2, <1>3, <1>4 DEF DuplicatesFit
  <2>3. \A q \in checking' : q.new \in ToSet(added') /\ Holds(q.new, q.phone, phone', crossed')
    BY <1>2, <1>3 DEF DuplicatesFit
  <2>4. QED
    BY <1>2, <1>3, <1>4, <2>1, <2>2, <2>3 DEF DuplicatesFit
<1>13. QED
  BY <1>1, <1>8, <1>10, <1>12 DEF BookInv

LEMMA ResolversKeepBooks ==
    ASSUME BookInv, day \in 1..MaxDay, NEW r \in Requests, ResolveDuplicate(r)
    PROVE  BookInv'
<1>1. ASSUME NEW p \in toReview, NEW choice, BeginResolve(r, p, choice) PROVE BookInv'
  <2> DEFINE w == [op |-> "resolve", pair |-> p, choice |-> choice]
  <2>1. req' = [req EXCEPT ![r] = w] /\ UNCHANGED <<archived, day, bookVars>>
    BY <1>1 DEF BeginResolve, Begin
  <2>2. w.op = "resolve" /\ w.pair \in toReview
    OBVIOUS
  <2> HIDE DEF w
  <2>3. RemovalsFit'
    BY <2>1, <2>2 DEF BookInv, RemovalsFit
  <2>4. Doubles' \subseteq Doubles
    BY <2>1, <2>2, HandlerDoubles DEF bookVars, customerVars
  <2>5. QED
    BY <2>1, <2>3, <2>4, GoodsKeepBooks
<1>2. CASE KeepBothCustomers(r)
  <2>1. /\ UNCHANGED <<sale, entry, expense, cash, opening, added, phone, merged, checking, crossed, cameLate>>
        /\ Doubles' \subseteq Doubles /\ RemovalsFit' /\ day' = day
    BY <1>2, DecidedDoes DEF KeepBothCustomers, Decided
  <2>2. DuplicatesFit'
    <3>1. \A d \in Doubles' : FoundFor(d, added', phone', merged', crossed')
      BY <2>1 DEF BookInv, DuplicatesFit
    <3>2. QED
      BY <2>1, <3>1 DEF BookInv, DuplicatesFit
  <2>3. RecordTypes'
    BY <2>1 DEF BookInv, RecordTypes
  <2>4. QED
    BY <2>1, <2>2, <2>3, SameRows DEF BookInv
<1>3. QED
  BY <1>1, <1>2, MergeKeeps DEF ResolveDuplicate

LEMMA HandlersKeepRemovals ==
    ASSUME RemovalsFit, Next, UNCHANGED bookVars
    PROVE  RemovalsFit' /\ (day' = day \/ day' = day + 1) /\ Doubles' \subseteq Doubles
<1>0. noted' = noted /\ toReview' = toReview
  BY DEF bookVars, customerVars
<1>1. ASSUME NEW r \in Requests, NEW w, w.op \notin {"remove", "resolve"}, UNCHANGED archived, req' = [req EXCEPT ![r] = w]
      PROVE  RemovalsFit' /\ Doubles' \subseteq Doubles
  <2>1. \A q \in Requests : req'[q] = req[q] \/ req'[q] = w
    BY <1>1
  <2>2. RemovalsFit'
    BY <1>1, <2>1 DEF RemovalsFit
  <2>3. Doubles' \subseteq Doubles
    BY <1>0, <1>1, HandlerDoubles
  <2>4. QED
    BY <2>2, <2>3
<1>2. Idle.op \notin {"remove", "resolve"}
  BY DEF Idle
<1>3. ASSUME NEW r \in Requests, Handle(r) PROVE RemovalsFit' /\ day' = day /\ Doubles' \subseteq Doubles
  <2>1. ASSUME NEW op \in {"create", "cancel", "return", "receive"}, NEW b, NEW x, Begin(r, Asked(op, b, x))
        PROVE  RemovalsFit' /\ day' = day /\ Doubles' \subseteq Doubles
    <3>1. Asked(op, b, x).op \notin {"remove", "resolve"}
      BY DEF Asked
    <3>2. QED
      BY <1>1, <2>1, <3>1 DEF Begin
  <2>2. ASSUME Finish(r) PROVE RemovalsFit' /\ day' = day /\ Doubles' \subseteq Doubles
    BY <1>1, <1>2, <2>2 DEF Finish
  <2>3. CASE IdTaken(r)
    BY <1>1, <1>2, <2>3 DEF IdTaken
  <2>4. CASE CommitCreate(r) \/ CommitCancel(r) \/ CommitReturn(r) \/ CommitReceive(r)
    BY <2>2, <2>4 DEF CommitCreate, CommitCancel, CommitReturn, CommitReceive
  <2>5. ASSUME NEW b \in Bills, BeginCreate(r, b) \/ BeginCancel(r, b)
        PROVE  RemovalsFit' /\ day' = day /\ Doubles' \subseteq Doubles
    BY <2>1, <2>5 DEF BeginCreate, BeginCancel
  <2>6. ASSUME NEW b \in Bills, NEW x \in Returns, BeginReturn(r, b, x)
        PROVE  RemovalsFit' /\ day' = day /\ Doubles' \subseteq Doubles
    BY <2>1, <2>6 DEF BeginReturn
  <2>7. ASSUME NEW x \in Returns, BeginReceive(r, x)
        PROVE  RemovalsFit' /\ day' = day /\ Doubles' \subseteq Doubles
    BY <2>1, <2>7 DEF BeginReceive
  <2>8. QED
    BY <1>3, <2>3, <2>4, <2>5, <2>6, <2>7 DEF Handle
<1>4. CASE Sell(1) \/ DayPasses
  <2>1. req' = req /\ archived' = archived /\ (day' = day \/ day' = day + 1)
    BY <1>4 DEF Sell, DayPasses
  <2>2. QED
    BY <1>0, <2>1, SameDoubles DEF RemovalsFit
<1>5. QED
  BY <1>3, <1>4 DEF Next

LEMMA RemoversKeepBooks ==
    ASSUME BookInv, day \in 1..MaxDay, NEW r \in Requests, RemoveSupplier(r)
    PROVE  BookInv'
<1>1. RemovalsFit
  BY DEF BookInv
<1>2. CASE CommitRemoveSupplier(r)
  <2>1. /\ archived' = archived \cup {req[r].supplier} /\ req[r].op = "remove"
        /\ req' = [req EXCEPT ![r] = Idle] /\ UNCHANGED <<day, bookVars>>
    BY <1>2 DEF CommitRemoveSupplier
  <2>2. RemovalsFit'
    BY <1>1, <2>1 DEF RemovalsFit, Idle
  <2>3. Doubles' \subseteq Doubles
    BY <2>1, HandlerDoubles DEF Idle, bookVars, customerVars
  <2>4. QED
    BY <2>1, <2>2, <2>3, GoodsKeepBooks
<1>3. ASSUME NEW s \in Suppliers, BeginRemoveSupplier(r, s) PROVE BookInv'
  <2> DEFINE w == [op |-> "remove", supplier |-> s]
  <2>1. req' = [req EXCEPT ![r] = w] /\ UNCHANGED <<archived, day, bookVars>>
    BY <1>3 DEF BeginRemoveSupplier, Begin
  <2>2. w.op = "remove" /\ w.supplier \in Suppliers
    OBVIOUS
  <2> HIDE DEF w
  <2>3. RemovalsFit'
    BY <1>1, <2>1, <2>2 DEF RemovalsFit
  <2>4. Doubles' \subseteq Doubles
    BY <2>1, <2>2, HandlerDoubles DEF bookVars, customerVars
  <2>5. QED
    BY <2>1, <2>3, <2>4, GoodsKeepBooks
<1>4. QED
  BY <1>2, <1>3 DEF RemoveSupplier

LEMMA NextBookInv == BookInv /\ day \in 1..MaxDay /\ [BooksNext]_<<vars, bookVars>> => BookInv'
<1> SUFFICES ASSUME BookInv, day \in 1..MaxDay, [BooksNext]_<<vars, bookVars>> PROVE BookInv'
  OBVIOUS
<1>1. CASE AccountNext
  <2>1. ASSUME NEW o \in Sales, SaveSale(o) \/ CancelSale(o) \/ \E kind \in {"CASH", "CREDIT"} : NoteSale(o, kind)
        PROVE  BookInv'
    BY <2>1, SalesKeep
  <2>2. ASSUME NEW e \in Entries, (\E d \in 1..MaxDay : CustomerPayment(e, d) \/ CustomerOpening(e, d)) \/ VoidCustomerEntry(e)
        PROVE  BookInv'
    BY <2>2, EntriesKeep
  <2>3. QED
    BY <1>1, <2>1, <2>2 DEF AccountNext
<1>2. CASE CustomerNext
  <2>1. ASSUME NEW c \in Customers, NEW n \in Phones \cup {0},
               AddCustomer(c, n) \/ BringCustomer(c, n) \/ ChangePhone(c, n) \/ RestoreCustomer(c, n)
        PROVE  BookInv'
    BY <2>1, ListedKeeps, PhoneKeeps
  <2>2. QED
    BY <1>2, <2>1, FindDuplicateKeeps, RecordDuplicateKeeps DEF CustomerNext
<1>3. CASE SupplierNext
  BY <1>3, EntriesKeep DEF SupplierNext
<1>4. CASE DrawerNext
  BY <1>4, DrawerKeeps
<1>5. CASE \E r \in Requests : RemoveSupplier(r) \/ ResolveDuplicate(r)
  BY <1>5, RemoversKeepBooks, ResolversKeepBooks
<1>6. CASE Next /\ UNCHANGED bookVars
  BY <1>6, HandlersKeepRemovals, GoodsKeepBooks DEF BookInv
<1>7. CASE UNCHANGED <<vars, bookVars>>
  BY <1>7, GoodsKeepBooks, SameRemovals, SameDoubles DEF BookInv, vars, bookVars, customerVars
<1>8. QED
  BY <1>1, <1>2, <1>3, <1>4, <1>5, <1>6, <1>7 DEF BooksNext

LEMMA BooksKeepInv == BooksSpec => [](PurchaseInv /\ BookInv)
<1>1. PurchaseInv => day \in 1..MaxDay
  BY DEF PurchaseInv, BooksTyped
<1>2. QED
  BY <1>1, InitBookInv, NextBookInv, PurchasesKeepInv, PTL DEF BooksSpec

\* Every variable of the books keeps its type.
THEOREM BooksTypes == BooksSpec => []BooksTypeOK
<1>1. ASSUME PurchaseInv, BookInv PROVE BooksTypeOK
  <2>1. TypeOK
    BY <1>1 DEF PurchaseInv, BooksTyped, StockFits, Shelf, BillRow, ReturnRow, BookInv, RemovalsFit, TypeOK
  <2>2. ToSet(added) \subseteq Customers
    BY <1>1 DEF BookInv, DuplicatesFit, ToSet
  <2>3. merged \subseteq Customers
    BY <1>1, <2>2 DEF BookInv, DuplicatesFit
  <2>4. noted \cup toReview \subseteq [new : Customers, keep : Customers, phone : Phones]
    BY <1>1 DEF BookInv, DuplicatesFit, Doubles, Pairs
  <2>5. QED
    BY <1>1, <2>1, <2>2, <2>3, <2>4 DEF BookInv, RecordTypes, DuplicatesFit, RowsFit, SaleRow, EntryRow, ExpenseRow, CashRow,
       BooksTypeOK
<1>2. QED
  BY <1>1, BooksKeepInv, PTL

----------------------------------------------------------------------------
(***************************************************************************)
(* Statements: of any account whose rows have ids of their own.            *)
(***************************************************************************)
Line == [id : Nat \X Nat, at : Nat, debit : Nat, credit : Nat, due : Nat]

Account(lines) ==
    /\ IsFiniteSet(lines) /\ lines \subseteq Line
    /\ \A a, b \in lines : a.id = b.id => a = b

\* What is owed before one of some dues, and what is paid of it.
Debits(set) == [r \in set |-> r.debit]
DuesBefore(set, d) == {e \in set : DueBefore(e, d)}
Earlier(set, d) == Sum(Debits(set), DuesBefore(set, d))
LeftFor(set, credits, d) == IF credits > Earlier(set, d) THEN credits - Earlier(set, d) ELSE 0
PaidOf(set, credits, d) == IF d.debit < LeftFor(set, credits, d) THEN d.debit ELSE LeftFor(set, credits, d)
Due(set, credits, d) ==
    [id |-> d.id, at |-> d.at, due |-> d.due, amount |-> d.debit, paid |-> PaidOf(set, credits, d)]

LEMMA DuesBeforeInOrder ==
    ASSUME NEW lines, Account(lines)
    PROVE  /\ \A a \in lines : ~DueBefore(a, a)
           /\ \A a, b \in lines : a = b \/ DueBefore(a, b) \/ DueBefore(b, a)
           /\ \A a, b, c \in lines : DueBefore(a, b) /\ DueBefore(b, c) => DueBefore(a, c)
<1>1. \A a \in lines : a.at \in Nat /\ a.id[1] \in Nat /\ a.id[2] \in Nat /\ a.id = <<a.id[1], a.id[2]>>
  BY DEF Account, Line
<1>2. \A a, b \in lines : a.id[1] = b.id[1] /\ a.id[2] = b.id[2] => a = b
  BY <1>1 DEF Account
<1>3. \A a \in lines : ~DueBefore(a, a)
  BY <1>1 DEF DueBefore, IdBefore
<1>4. \A a, b \in lines : a = b \/ DueBefore(a, b) \/ DueBefore(b, a)
  BY <1>1, <1>2 DEF DueBefore, IdBefore
<1>5. ASSUME NEW a \in lines, NEW b \in lines, NEW c \in lines, DueBefore(a, b), DueBefore(b, c)
      PROVE  DueBefore(a, c)
  BY <1>1, <1>5 DEF DueBefore, IdBefore
<1>6. QED
  BY <1>3, <1>4, <1>5

LEMMA SettlePays ==
    ASSUME NEW set, IsFiniteSet(set), NEW credits
    PROVE  SettleOldestFirst(set, credits) = {Due(set, credits, d) : d \in set}
<1>1. ASSUME NEW d \in set
      PROVE  SumFunction([e \in {e \in set : DueBefore(e, d)} |-> e.debit]) = Earlier(set, d)
  <2>1. IsFiniteSet(DuesBefore(set, d)) /\ \A e \in DuesBefore(set, d) : Debits(set)[e] = e.debit
    BY FS_Subset DEF DuesBefore, Debits
  <2> DEFINE g == [e \in {e \in set : DueBefore(e, d)} |-> e.debit]
  <2>2. DOMAIN g = DuesBefore(set, d) /\ \A e \in DuesBefore(set, d) : g[e] = Debits(set)[e]
    BY <2>1 DEF DuesBefore
  <2> HIDE DEF g
  <2>3. SumFunction(g) = Earlier(set, d)
    BY <2>1, <2>2, TotalIsSum DEF Earlier
  <2>4. QED
    BY <2>3 DEF g
<1>2. QED
  BY <1>1 DEF SettleOldestFirst, Amount, Due, PaidOf, LeftFor

\* Of some rows of an account there is a last one.
LEMMA LastDue ==
    ASSUME NEW lines, Account(lines), NEW T \in SUBSET lines, T # {}
    PROVE  \E m \in T : \A x \in T : x = m \/ DueBefore(x, m)
<1> DEFINE LastIn(U) == \E m \in U : \A x \in U : x = m \/ DueBefore(x, m)
           P == {U \in SUBSET lines : U = {} \/ LastIn(U)}
<1>1. ASSUME NEW U \in SUBSET lines, \A W \in SUBSET U : W # U => W \in P
      PROVE  U \in P
  <2>1. CASE U = {}
    BY <2>1
  <2>2. CASE U # {}
    <3>1. PICK x \in U : TRUE
      BY <2>2
    <3>2. U \ {x} \in P
      BY <1>1, <3>1
    <3>3. CASE U \ {x} = {}
      BY <3>1, <3>3
    <3>4. CASE LastIn(U \ {x})
      <4>1. PICK m \in U \ {x} : \A y \in U \ {x} : y = m \/ DueBefore(y, m)
        BY <3>4
      <4>2. CASE DueBefore(x, m)
        BY <4>1, <4>2
      <4>3. CASE DueBefore(m, x)
        <5>1. \A y \in U : y = x \/ DueBefore(y, x)
          BY <1>1, <4>1, <4>3, DuesBeforeInOrder
        <5>2. QED
          BY <5>1
      <4>4. QED
        BY <4>1, <4>2, <4>3, DuesBeforeInOrder
    <3>5. QED
      BY <3>2, <3>3, <3>4
  <2>3. QED
    BY <2>1, <2>2
<1> HIDE DEF P
<1>2. SUBSET lines \subseteq P
  BY <1>1, SubsetInduction DEF Account
<1>3. QED
  BY <1>2 DEF P

LeastOfTwo(a, b) == IF a < b THEN a ELSE b

LEMMA DebitsOfSome ==
    ASSUME NEW lines, Account(lines), NEW T \in SUBSET lines
    PROVE  /\ IsFiniteSet(T) /\ Account(T)
           /\ \A r \in lines : Debits(lines)[r] = r.debit /\ Debits(lines)[r] \in Nat
           /\ Sum(Debits(lines), T) \in Nat
<1>1. IsFiniteSet(T) /\ Account(T)
  BY FS_Subset DEF Account
<1>2. \A r \in lines : Debits(lines)[r] = r.debit /\ Debits(lines)[r] \in Nat
  BY DEF Account, Line, Debits
<1>3. \A r \in T : Debits(lines)[r] \in Nat
  BY <1>2
<1>4. Sum(Debits(lines), T) \in Nat
  BY <1>1, <1>3, SumNat
<1>5. QED
  BY <1>1, <1>2, <1>4

LEMMA PaidIsBounded ==
    ASSUME NEW set, Account(set), NEW credits \in Nat, NEW d \in set
    PROVE  /\ Earlier(set, d) \in Nat /\ d.debit \in Nat
           /\ PaidOf(set, credits, d) \in Nat /\ PaidOf(set, credits, d) <= d.debit
<1>1. DuesBefore(set, d) \in SUBSET set
  BY DEF DuesBefore
<1>2. Earlier(set, d) \in Nat /\ d.debit \in Nat
  BY <1>1, DebitsOfSome DEF Earlier
<1>3. QED
  BY <1>2 DEF PaidOf, LeftFor

Pays(set, credits) == [d \in set |-> PaidOf(set, credits, d)]

\* What is paid of the dues up to one of them is what is owed up to there, as
\* far as the credits go.
LEMMA PaidInOrder ==
    ASSUME NEW set, Account(set), NEW credits \in Nat
    PROVE  Sum(Pays(set, credits), set) = LeastOfTwo(credits, Sum(Debits(set), set))
<1> DEFINE Down(T) == \A a \in T, b \in set : DueBefore(b, a) => b \in T
           P == {T \in SUBSET set : Down(T) => Sum(Pays(set, credits), T) = LeastOfTwo(credits, Sum(Debits(set), T))}
<1>1. ASSUME NEW T \in SUBSET set, \A U \in SUBSET T : U # T => U \in P, Down(T)
      PROVE  Sum(Pays(set, credits), T) = LeastOfTwo(credits, Sum(Debits(set), T))
  <2>1. CASE T = {}
    BY <2>1, SumEmpty DEF LeastOfTwo
  <2>2. CASE T # {}
    <3>1. PICK m \in T : \A x \in T : x = m \/ DueBefore(x, m)
      BY <2>2, LastDue
    <3> DEFINE rest == T \ {m}
    <3>2. rest = DuesBefore(set, m)
      BY <1>1, <3>1, DuesBeforeInOrder DEF DuesBefore
    <3>3. Down(rest)
      BY <1>1, <3>1, <3>2, DuesBeforeInOrder DEF DuesBefore
    <3>4. Sum(Pays(set, credits), rest) = LeastOfTwo(credits, Sum(Debits(set), rest))
      BY <1>1, <3>1, <3>3
    <3>5. IsFiniteSet(T) /\ \A r \in T : Debits(set)[r] \in Int /\ Pays(set, credits)[r] \in Int
      BY DebitsOfSome, PaidIsBounded DEF Pays
    <3>6. /\ Sum(Debits(set), T) = Debits(set)[m] + Sum(Debits(set), rest)
          /\ Sum(Pays(set, credits), T) = Pays(set, credits)[m] + Sum(Pays(set, credits), rest)
      BY <3>1, <3>5, SumElement
    <3>7. Sum(Debits(set), rest) = Earlier(set, m) /\ Earlier(set, m) \in Nat /\ m.debit \in Nat
      BY <3>1, <3>2, PaidIsBounded DEF Earlier
    <3>8. Debits(set)[m] = m.debit /\ Pays(set, credits)[m] = PaidOf(set, credits, m)
      BY <3>1, DebitsOfSome DEF Pays
    <3> HIDE DEF rest
    <3>9. QED
      BY <3>4, <3>6, <3>7, <3>8 DEF LeastOfTwo, PaidOf, LeftFor
  <2>3. QED
    BY <2>1, <2>2
<1>2. Down(set)
  OBVIOUS
<1> HIDE DEF Down
<1>3. ASSUME NEW T \in SUBSET set, \A U \in SUBSET T : U # T => U \in P
      PROVE  T \in P
  BY <1>1, <1>3
<1> HIDE DEF P
<1>4. SUBSET set \subseteq P
  BY <1>3, SubsetInduction DEF Account
<1>5. QED
  BY <1>2, <1>4 DEF P

\* The parts of an account that its statement is made of.
Credits(lines) == [r \in lines |-> r.credit]
Nets(lines) == [r \in lines |-> r.debit - r.credit]
Owing(lines) == {r \in lines : r.debit > 0}
CreditOf(lines) == Sum(Credits(lines), lines)
PaidOfDues(lines) == Pays(Owing(lines), CreditOf(lines))
OpenOfDues(lines) == [d \in Owing(lines) |-> d.debit - PaidOf(Owing(lines), CreditOf(lines), d)]
DuesOf(lines) == {Due(Owing(lines), CreditOf(lines), d) : d \in Owing(lines)}

LEMMA AccountParts ==
    ASSUME NEW lines, Account(lines)
    PROVE  /\ CreditOf(lines) \in Nat /\ Account(Owing(lines)) /\ IsFiniteSet(Owing(lines))
           /\ \A d \in Owing(lines) :
                 /\ PaidOfDues(lines)[d] = PaidOf(Owing(lines), CreditOf(lines), d)
                 /\ PaidOfDues(lines)[d] \in Nat /\ OpenOfDues(lines)[d] \in Nat /\ d.debit \in Nat
                 /\ OpenOfDues(lines)[d] = d.debit - PaidOf(Owing(lines), CreditOf(lines), d)
           /\ Sum(PaidOfDues(lines), Owing(lines)) \in Nat /\ Sum(OpenOfDues(lines), Owing(lines)) \in Nat
           /\ Sum(Debits(lines), lines) \in Nat
<1>1. CreditOf(lines) \in Nat
  BY SumNat DEF CreditOf, Credits, Account, Line
<1>2. Account(Owing(lines)) /\ IsFiniteSet(Owing(lines)) /\ Sum(Debits(lines), lines) \in Nat
  BY DebitsOfSome DEF Owing
<1>3. ASSUME NEW d \in Owing(lines)
      PROVE  /\ PaidOfDues(lines)[d] = PaidOf(Owing(lines), CreditOf(lines), d)
             /\ PaidOfDues(lines)[d] \in Nat /\ OpenOfDues(lines)[d] \in Nat /\ d.debit \in Nat
             /\ OpenOfDues(lines)[d] = d.debit - PaidOf(Owing(lines), CreditOf(lines), d)
  <2>1. /\ PaidOf(Owing(lines), CreditOf(lines), d) \in Nat /\ d.debit \in Nat
        /\ PaidOf(Owing(lines), CreditOf(lines), d) <= d.debit
    BY <1>1, <1>2, PaidIsBounded
  <2>2. QED
    BY <2>1 DEF PaidOfDues, OpenOfDues, Pays
<1>4. Sum(PaidOfDues(lines), Owing(lines)) \in Nat /\ Sum(OpenOfDues(lines), Owing(lines)) \in Nat
  BY <1>2, <1>3, SumNat
<1>5. QED
  BY <1>1, <1>2, <1>3, <1>4

LEMMA DuesAreApart ==
    ASSUME NEW lines, Account(lines), NEW a \in Owing(lines), NEW b \in Owing(lines),
           Due(Owing(lines), CreditOf(lines), a) = Due(Owing(lines), CreditOf(lines), b)
    PROVE  a = b
<1>1. a.id = b.id
  BY DEF Due
<1>2. QED
  BY <1>1 DEF Account, Owing

\* A sum over the dues of a statement is one over the rows they come from.
LEMMA SumOfDues ==
    ASSUME NEW lines, Account(lines), NEW g, \A d \in Owing(lines) : g[d] \in Int,
           NEW f, DOMAIN f = DuesOf(lines),
           \A d \in Owing(lines) : f[Due(Owing(lines), CreditOf(lines), d)] = g[d]
    PROVE  SumFunction(f) = Sum(g, Owing(lines)) /\ IsFiniteSet(DuesOf(lines))
<1> DEFINE m == [d \in Owing(lines) |-> Due(Owing(lines), CreditOf(lines), d)]
<1>1. \A x, y \in Owing(lines) : m[x] = m[y] => x = y
  BY DuesAreApart
<1>2. \A d \in Owing(lines) : g[d] \in Int /\ f[m[d]] = g[d]
  OBVIOUS
<1>3. /\ \A d \in Owing(lines) : m[d] \in DuesOf(lines)
      /\ \A y \in DuesOf(lines) : \E d \in Owing(lines) : y = m[d]
  BY DEF DuesOf
<1>4. Sum(f, DuesOf(lines)) = Sum(g, Owing(lines)) /\ IsFiniteSet(DuesOf(lines))
  <2>1. IsFiniteSet(Owing(lines))
    BY AccountParts
  <2> HIDE DEF m
  <2>2. QED
    BY <1>1, <1>2, <1>3, <2>1, SumImage
<1>5. QED
  BY <1>4 DEF SumFunction, Sum

LEMMA StatementIs ==
    ASSUME NEW lines, Account(lines)
    PROVE  /\ Statement(lines).balance = Sum(Nets(lines), lines)
           /\ Statement(lines).open = Sum(OpenOfDues(lines), Owing(lines))
           /\ Statement(lines).advance = CreditOf(lines) - Sum(PaidOfDues(lines), Owing(lines))
           /\ Statement(lines).dues = DuesOf(lines)
<1>1. SumFunction([r \in lines |-> r.credit]) = CreditOf(lines)
  BY DEF CreditOf, Credits, SumFunction, Sum
<1>2. SumFunction([r \in lines |-> r.debit - r.credit]) = Sum(Nets(lines), lines)
  BY DEF Nets, SumFunction, Sum
<1>3. SettleOldestFirst(Owing(lines), CreditOf(lines)) = DuesOf(lines)
  BY AccountParts, SettlePays DEF DuesOf
<1>4. SumFunction([d \in DuesOf(lines) |-> d.paid]) = Sum(PaidOfDues(lines), Owing(lines))
  <2> DEFINE f == [d \in DuesOf(lines) |-> d.paid]
  <2>1. DOMAIN f = DuesOf(lines) /\ \A d \in Owing(lines) : f[Due(Owing(lines), CreditOf(lines), d)] = PaidOfDues(lines)[d]
    BY AccountParts DEF DuesOf, Due
  <2> HIDE DEF f
  <2>2. SumFunction(f) = Sum(PaidOfDues(lines), Owing(lines))
    BY <2>1, SumOfDues, AccountParts
  <2>3. QED
    BY <2>2 DEF f
<1>5. SumFunction([d \in DuesOf(lines) |-> d.amount - d.paid]) = Sum(OpenOfDues(lines), Owing(lines))
  <2> DEFINE f == [d \in DuesOf(lines) |-> d.amount - d.paid]
  <2>1. DOMAIN f = DuesOf(lines) /\ \A d \in Owing(lines) : f[Due(Owing(lines), CreditOf(lines), d)] = OpenOfDues(lines)[d]
    BY AccountParts DEF DuesOf, Due
  <2> HIDE DEF f
  <2>2. SumFunction(f) = Sum(OpenOfDues(lines), Owing(lines))
    BY <2>1, SumOfDues, AccountParts
  <2>3. QED
    BY <2>2 DEF f
<1>6. {r \in lines : r.debit > 0} = Owing(lines)
  BY DEF Owing
<1>7. Statement(lines) = [balance |-> Sum(Nets(lines), lines),
                          open |-> Sum(OpenOfDues(lines), Owing(lines)),
                          advance |-> CreditOf(lines) - Sum(PaidOfDues(lines), Owing(lines)),
                          dues |-> DuesOf(lines)]
  BY <1>1, <1>2, <1>3, <1>4, <1>5, <1>6 DEF Statement, Amount
<1>8. QED
  BY <1>7

\* What is open less what is paid in advance is what is owed, and one of them is nothing.
LEMMA StatementBalances ==
    ASSUME NEW lines, Account(lines)
    PROVE  /\ Statement(lines).open - Statement(lines).advance = Statement(lines).balance
           /\ Statement(lines).open = 0 \/ Statement(lines).advance = 0
<1> DEFINE C == CreditOf(lines)
           D == Sum(Debits(lines), lines)
           P == Sum(PaidOfDues(lines), Owing(lines))
           O == Sum(OpenOfDues(lines), Owing(lines))
           B == Sum(Nets(lines), lines)
<1>1. C \in Nat /\ D \in Nat /\ P \in Nat /\ O \in Nat
  BY AccountParts
<1>2. D = B + C
  <2>1. IsFiniteSet(lines) /\ \A r \in lines : /\ Nets(lines)[r] \in Int /\ Credits(lines)[r] \in Int
                                               /\ Debits(lines)[r] = Nets(lines)[r] + Credits(lines)[r]
    BY DEF Account, Line, Nets, Credits, Debits
  <2>2. QED
    BY <2>1, SumPlus DEF CreditOf
<1>3. B \in Int
  BY SumInt DEF Account, Line, Nets
<1>4. D = Sum(Debits(Owing(lines)), Owing(lines))
  <2>1. Owing(lines) \subseteq lines /\ IsFiniteSet(lines) /\ \A r \in lines : r.debit \in Nat
    BY DEF Owing, Account, Line
  <2>2. /\ \A r \in Owing(lines) : Debits(Owing(lines))[r] \in Int /\ Debits(lines)[r] = Debits(Owing(lines))[r]
        /\ \A r \in lines \ Owing(lines) : Debits(lines)[r] = 0
    BY <2>1 DEF Debits, Owing
  <2>3. QED
    BY <2>1, <2>2, SumFiltered
<1>5. D = O + P
  <2>1. \A d \in Owing(lines) : /\ OpenOfDues(lines)[d] \in Int /\ PaidOfDues(lines)[d] \in Int
                                /\ Debits(Owing(lines))[d] = OpenOfDues(lines)[d] + PaidOfDues(lines)[d]
    <3>1. ASSUME NEW d \in Owing(lines)
          PROVE  /\ OpenOfDues(lines)[d] \in Int /\ PaidOfDues(lines)[d] \in Int
                 /\ d.debit = OpenOfDues(lines)[d] + PaidOfDues(lines)[d]
      <4>1. /\ PaidOfDues(lines)[d] = PaidOf(Owing(lines), CreditOf(lines), d)
            /\ PaidOfDues(lines)[d] \in Nat /\ OpenOfDues(lines)[d] \in Nat /\ d.debit \in Nat
            /\ OpenOfDues(lines)[d] = d.debit - PaidOf(Owing(lines), CreditOf(lines), d)
        BY AccountParts
      <4>2. QED
        BY <4>1
    <3>2. QED
      BY <3>1 DEF Debits
  <2>2. QED
    BY <1>4, <2>1, AccountParts, SumPlus
<1>6. P = LeastOfTwo(C, D)
  BY <1>4, AccountParts, PaidInOrder DEF PaidOfDues
<1> HIDE DEF C, D, P, O, B
<1>7. O - (C - P) = B /\ (O = 0 \/ C - P = 0)
  BY <1>1, <1>2, <1>3, <1>5, <1>6 DEF LeastOfTwo
<1>8. QED
  BY <1>7, StatementIs DEF C, P, O, B

LEMMA EarlierAddsUp ==
    ASSUME NEW set, Account(set), NEW d \in set, NEW e \in set, DueBefore(d, e)
    PROVE  Earlier(set, d) + d.debit <= Earlier(set, e)
<1> DEFINE upTo == DuesBefore(set, d) \cup {d}
<1>1. d \notin DuesBefore(set, d) /\ upTo \subseteq DuesBefore(set, e) /\ DuesBefore(set, e) \in SUBSET set /\ DuesBefore(set, d) \in SUBSET set
  BY DuesBeforeInOrder DEF DuesBefore
<1>2. IsFiniteSet(DuesBefore(set, d)) /\ IsFiniteSet(upTo) /\ IsFiniteSet(DuesBefore(set, e)) /\ IsFiniteSet(DuesBefore(set, e) \ upTo)
  BY <1>1, FS_Subset, FS_AddElement DEF Account
<1>3. \A r \in set : Debits(set)[r] = r.debit /\ Debits(set)[r] \in Nat
  BY DebitsOfSome
<1>4. Sum(Debits(set), upTo) = d.debit + Sum(Debits(set), DuesBefore(set, d))
  <2>1. \A r \in DuesBefore(set, d) \cup {d} : Debits(set)[r] \in Int
    BY <1>1, <1>3
  <2>2. QED
    BY <1>1, <1>2, <1>3, <2>1, SumAdded
<1> HIDE DEF upTo
<1>5. Sum(Debits(set), DuesBefore(set, e) \ upTo) \in Nat /\ Sum(Debits(set), upTo) \in Nat
  <2>1. \A r \in DuesBefore(set, e) : Debits(set)[r] \in Nat
    BY <1>1, <1>3
  <2>2. QED
    BY <1>1, <1>2, <2>1, SumNat
<1>6. Sum(Debits(set), DuesBefore(set, e)) = Sum(Debits(set), upTo) + Sum(Debits(set), DuesBefore(set, e) \ upTo)
  <2> DEFINE more == DuesBefore(set, e) \ upTo
  <2>1. DuesBefore(set, e) = upTo \cup more /\ upTo \cap more = {}
    BY <1>1
  <2>2. \A r \in upTo \cup more : Debits(set)[r] \in Int
    BY <1>1, <1>3
  <2>3. IsFiniteSet(more)
    BY <1>2
  <2> HIDE DEF more
  <2>4. Sum(Debits(set), upTo \cup more) = Sum(Debits(set), upTo) + Sum(Debits(set), more)
    BY <1>2, <2>1, <2>2, <2>3, SumUnion
  <2>5. QED
    BY <2>1, <2>4 DEF more
<1>7. Earlier(set, d) \in Nat /\ Earlier(set, e) \in Nat /\ d.debit \in Nat
  BY <1>1, DebitsOfSome DEF Earlier
<1>8. QED
  BY <1>4, <1>5, <1>6, <1>7 DEF Earlier

\* A due is paid anything only when those before it are paid in full.
LEMMA StatementInOrder ==
    ASSUME NEW lines, Account(lines),
           NEW d \in Statement(lines).dues, NEW e \in Statement(lines).dues, e.paid > 0, d.at < e.at
    PROVE  d.paid = d.amount
<1> DEFINE set == Owing(lines)
           C == CreditOf(lines)
<1>1. PICK a \in set : d = Due(set, C, a)
  BY StatementIs DEF DuesOf
<1>2. PICK b \in set : e = Due(set, C, b)
  BY StatementIs DEF DuesOf
<1>3. /\ d.paid = PaidOf(set, C, a) /\ d.amount = a.debit /\ d.at = a.at
      /\ e.paid = PaidOf(set, C, b) /\ e.at = b.at
  BY <1>1, <1>2 DEF Due
<1>4. Account(set) /\ C \in Nat
  BY AccountParts
<1> HIDE DEF set, C
<1>5. /\ Earlier(set, a) \in Nat /\ a.debit \in Nat /\ Earlier(set, b) \in Nat /\ b.debit \in Nat
  BY <1>4, PaidIsBounded
<1>6. Earlier(set, a) + a.debit <= Earlier(set, b)
  BY <1>3, <1>4, EarlierAddsUp DEF DueBefore
<1>7. QED
  BY <1>3, <1>4, <1>5, <1>6 DEF PaidOf, LeftFor

\* What is open is in one bucket each.
LEMMA StatementAges ==
    ASSUME NEW lines, Account(lines), NEW today \in Nat
    PROVE  LET aged == Aged(OpenItems(Statement(lines)), today)
           IN  Amount(LAMBDA k : aged[k], 0..4) = Statement(lines).open
<1> DEFINE dues == DuesOf(lines)
           items == OpenItems(Statement(lines))
           open == [d \in dues |-> d.amount - d.paid]
           key == [d \in dues |-> Bucket(Overdue(d.due, today))]
           aged == Aged(items, today)
<1>1. \A d \in dues : /\ d.due \in Nat /\ d.amount \in Nat /\ d.paid \in Nat /\ d.paid <= d.amount
  <2>1. ASSUME NEW d \in dues
        PROVE  d.due \in Nat /\ d.amount \in Nat /\ d.paid \in Nat /\ d.paid <= d.amount
    <3>1. PICK a \in Owing(lines) : d = Due(Owing(lines), CreditOf(lines), a)
      BY DEF DuesOf
    <3>2. d.due = a.due /\ d.amount = a.debit /\ d.paid = PaidOf(Owing(lines), CreditOf(lines), a)
      BY <3>1 DEF Due
    <3>3. a.due \in Nat
      BY DEF Owing, Account, Line
    <3>4. QED
      BY <3>2, <3>3, AccountParts, PaidIsBounded
  <2>2. QED
    BY <2>1
<1>2. Sum(open, dues) = Statement(lines).open /\ IsFiniteSet(dues)
  <2>1. Statement(lines).open = Sum(OpenOfDues(lines), Owing(lines))
    BY StatementIs
  <2>2. DOMAIN open = DuesOf(lines) /\ \A d \in Owing(lines) : open[Due(Owing(lines), CreditOf(lines), d)] = OpenOfDues(lines)[d]
    BY AccountParts DEF DuesOf, Due
  <2> HIDE DEF open
  <2>3. SumFunction(open) = Sum(OpenOfDues(lines), Owing(lines)) /\ IsFiniteSet(DuesOf(lines))
    BY <2>2, SumOfDues, AccountParts
  <2>4. QED
    BY <2>1, <2>2, <2>3 DEF SumFunction, Sum
<1>3. items = {d \in dues : d.paid < d.amount} /\ items \subseteq dues /\ IsFiniteSet(items)
  BY <1>2, StatementIs, FS_Subset DEF OpenItems
<1>4. \A d \in dues : open[d] \in Int /\ key[d] \in 0..4
  BY <1>1 DEF Bucket, Overdue
<1>5. ASSUME NEW k \in 0..4
      PROVE  aged[k] = Sum(open, {d \in items : key[d] = k})
  <2> DEFINE some == {d \in items : Bucket(Overdue(d.due, today)) = k}
             g == [d \in some |-> d.amount - d.paid]
  <2>1. aged[k] = SumFunction(g)
    BY DEF Aged, Amount
  <2>2. some = {d \in items : key[d] = k} /\ IsFiniteSet(some)
    BY <1>3, FS_Subset
  <2>3. DOMAIN g = some /\ \A d \in some : g[d] = open[d]
    BY <1>3
  <2> HIDE DEF g, some, open
  <2>4. QED
    BY <2>1, <2>2, <2>3, TotalIsSum
<1>6. DOMAIN aged = 0..4 /\ IsFiniteSet(0..4)
  <2>1. DOMAIN aged = 0..4
    BY DEF Aged
  <2>2. \A n \in Int : IsFiniteSet(0..n)
    BY RangeFinite
  <2>3. 4 \in Int
    OBVIOUS
  <2>4. IsFiniteSet(0..4)
    BY <2>2, <2>3, Zenon
  <2>5. QED
    BY <2>1, <2>4
<1>7. Sum(aged, 0..4) = Sum(open, items)
  <2>1. (\A d \in items : open[d] \in Int) /\ (\A d \in items : key[d] \in 0..4)
    BY <1>3, <1>4
  <2> DEFINE class == [k \in 0..4 |-> {d \in items : key[d] = k}]
  <2>2. \A k \in 0..4 : \A x : x \in class[k] <=> x \in items /\ key[x] = k
    OBVIOUS
  <2>3. \A k \in 0..4 : aged[k] = Sum(open, class[k])
    BY <1>5
  <2> DEFINE K == 0..4
  <2>4. /\ IsFiniteSet(K) /\ \A d \in items : key[d] \in K
        /\ \A k \in K : \A x : x \in class[k] <=> x \in items /\ key[x] = k
        /\ \A k \in K : aged[k] = Sum(open, class[k])
    BY <1>6, <2>1, <2>2, <2>3
  <2> HIDE DEF items, open, key, aged, class, K
  <2>5. Sum(aged, K) = Sum(open, items)
    BY <1>3, <2>1, <2>4, SumByClass
  <2>6. QED
    BY <2>5 DEF K
<1>8. Sum(open, items) = Sum(open, dues)
  <2>1. \A d \in items : open[d] \in Int /\ open[d] = open[d]
    BY <1>3, <1>4
  <2>2. \A d \in dues \ items : open[d] = 0
    BY <1>1, <1>3
  <2> HIDE DEF items, open, dues
  <2>3. QED
    BY <1>2, <1>3, <2>1, <2>2, SumFiltered
<1>10. SumFunction([k \in 0..4 |-> aged[k]]) = Sum(aged, 0..4)
  <2> HIDE DEF aged
  <2>1. QED
    BY <1>6, TotalIsSum
<1> HIDE DEF dues, open, key
<1>11. QED
  BY <1>2, <1>7, <1>8, <1>10 DEF Amount

NetOf(lines) == Sum(Nets(lines), lines)

\* Rows made from some things, one each, with ids of a kind of their own.
LEMMA AccountOfImages ==
    ASSUME NEW X, IsFiniteSet(X), NEW n, NEW m, NEW g,
           \A x \in X : m[x] \in Line /\ m[x].id = <<n, x>> /\ g[x] = m[x].debit - m[x].credit,
           NEW I, \A x \in X : m[x] \in I, \A r \in I : \E x \in X : r = m[x]
    PROVE  Account(I) /\ NetOf(I) = Sum(g, X) /\ \A r \in I : r.id[1] = n
<1>1. \A x, y \in X : m[x] = m[y] => x = y
  <2>1. \A x, y \in X : <<n, x>> = <<n, y>> => x = y
    OBVIOUS
  <2>2. QED
    BY <2>1
<1>2. \A x \in X : g[x] \in Int /\ Nets(I)[m[x]] = g[x]
  BY DEF Line, Nets
<1>3. Sum(Nets(I), I) = Sum(g, X) /\ IsFiniteSet(I)
  <2>1. \A x \in X : m[x] \in I
    OBVIOUS
  <2>2. \A y \in I : \E x \in X : y = m[x]
    OBVIOUS
  <2> DEFINE f == Nets(I)
  <2>3. \A x \in X : g[x] \in Int /\ f[m[x]] = g[x]
    BY <1>2
  <2> HIDE DEF f
  <2>4. Sum(f, I) = Sum(g, X) /\ IsFiniteSet(I)
    BY <1>1, <2>1, <2>2, <2>3, SumImage
  <2>5. QED
    BY <2>4 DEF f
<1>4. \A a, b \in I : a.id = b.id => a = b
  <2>1. \A x, y \in X : <<n, x>> = <<n, y>> => x = y
    OBVIOUS
  <2>2. QED
    BY <2>1
<1>5. \A r \in I : r.id[1] = n
  OBVIOUS
<1>6. QED
  BY <1>3, <1>4, <1>5 DEF Account, NetOf

LEMMA AccountsJoined ==
    ASSUME NEW A, NEW B, Account(A), Account(B), \A a \in A, b \in B : a.id # b.id
    PROVE  Account(A \cup B) /\ NetOf(A \cup B) = NetOf(A) + NetOf(B)
<1>1. Account(A \cup B)
  BY FS_Union DEF Account
<1>2. A \cap B = {} /\ IsFiniteSet(A) /\ IsFiniteSet(B)
  BY DEF Account
<1>3. \A r \in A \cup B : Nets(A \cup B)[r] \in Int
  BY <1>1 DEF Account, Line, Nets
<1>4. Sum(Nets(A \cup B), A \cup B) = Sum(Nets(A \cup B), A) + Sum(Nets(A \cup B), B)
  BY <1>2, <1>3, SumUnion
<1>5. (\A r \in A : Nets(A \cup B)[r] = Nets(A)[r]) /\ (\A r \in B : Nets(A \cup B)[r] = Nets(B)[r])
  BY DEF Nets
<1>6. Sum(Nets(A \cup B), A) = Sum(Nets(A), A) /\ Sum(Nets(A \cup B), B) = Sum(Nets(B), B)
  BY <1>2, <1>5, SumEqual
<1>7. QED
  BY <1>1, <1>4, <1>6 DEF NetOf

----------------------------------------------------------------------------
(***************************************************************************)
(* The accounts of customers and suppliers: their statements and balances. *)
(***************************************************************************)
SaleCredit == [o \in Sales |-> SaleOf[o].credit]
EntrySign == [e \in Entries |-> IF EntryOf[e].type = "PAYMENT" THEN -EntryOf[e].amount ELSE EntryOf[e].amount]
BillDebt == [b \in Bills |-> Qty(b) - BillOf[b].paid]
ReturnQty == [x \in Returns |-> ret[x].qty]

SoldTo(c) == {o \in Sales : sale[o].status = "COMPLETED" /\ sale[o].customer = c}
NotesOf(c) == {o \in Sales : sale[o].refund = "CREDIT" /\ sale[o].customer = c}
Posted(table, party) ==
    {e \in Entries : entry[e].status = "live" /\ EntryOf[e].table = table /\ entry[e].party = party}
BoughtFrom(s) == {b \in Bills : Live(b) /\ BillOf[b].supplier = s}
SentBackTo(s) == {x \in Returns : ret[x].status = "SETTLED" /\ Live(ret[x].bill) /\ BillOf[ret[x].bill].supplier = s}

\* What is known of the rows of the books.
BookRows ==
    /\ IsFiniteSet(Sales) /\ IsFiniteSet(Entries) /\ IsFiniteSet(Bills) /\ IsFiniteSet(Returns)
    /\ Sales \subseteq Nat /\ Entries \subseteq Nat /\ Bills \subseteq Nat /\ Returns \subseteq Nat
    /\ \A o \in Sales : /\ SaleOf[o].credit \in Nat /\ SaleOf[o].cash \in Nat
                        /\ sale[o].at \in Nat /\ sale[o].refundAt \in Nat /\ sale[o].customer \in Customers
                        /\ sale[o].refund \in {"none", "CASH", "CREDIT"}
    /\ \A e \in Entries : /\ EntryOf[e].table \in {"customer", "supplier"} /\ EntryOf[e].type \in {"PAYMENT", "OPENING"}
                          /\ EntryOf[e].type = "PAYMENT" => EntryOf[e].kind \in Kinds
                          /\ EntryOf[e].amount \in Nat /\ EntryOf[e].due \in Nat /\ entry[e].at \in Nat
                          /\ EntryOf[e].table = "customer" => entry[e].party \in Customers
                          /\ EntryOf[e].table = "supplier" => entry[e].party \in Suppliers
    /\ \A b \in Bills : /\ Qty(b) \in Nat /\ Qty(b) > 0 /\ BillOf[b].paid \in Nat /\ BillOf[b].date \in Nat
                        /\ BillOf[b].due \in Nat /\ bill[b].day \in Nat
                        /\ BillOf[b].supplier \in Suppliers /\ BillOf[b].kind \in Kinds
    /\ \A x \in Returns : /\ ret[x].qty \in Nat /\ ret[x].day \in Nat
                          /\ ret[x].status # "none" => ret[x].bill \in Bills
    /\ IsFiniteSet(Expenses) /\ IsFiniteSet(CashEntries) /\ IsFiniteSet(Customers) /\ IsFiniteSet(Suppliers)
    /\ \A x \in Expenses : expense[x].at \in Nat /\ expense[x].kind \in Kinds /\ expense[x].amount \in Nat
    /\ \A c \in CashEntries : cash[c].at \in Nat /\ CashOf[c].amount \in Nat

LEMMA RowsOfBooks ==
    ASSUME PurchaseInv, BookInv
    PROVE  BookRows
<1>1. IsFiniteSet(Sales) /\ IsFiniteSet(Entries) /\ IsFiniteSet(Bills) /\ IsFiniteSet(Returns)
  BY BooksAssumption
<1>2. Sales \subseteq Nat /\ Entries \subseteq Nat /\ Bills \subseteq Nat /\ Returns \subseteq Nat
  BY BooksAssumption
<1>3. 0..MaxDay \subseteq Nat
  BY ConstantsHold
<1>4. ASSUME NEW o \in Sales
      PROVE  /\ SaleOf[o].credit \in Nat /\ SaleOf[o].cash \in Nat
             /\ sale[o].at \in Nat /\ sale[o].refundAt \in Nat /\ sale[o].customer \in Customers
             /\ sale[o].refund \in {"none", "CASH", "CREDIT"}
  <2>1. sale[o] \in SaleRow
    BY DEF BookInv, RecordTypes
  <2>2. QED
    BY <1>3, <2>1, BooksAssumption DEF SaleRow
<1>5. ASSUME NEW e \in Entries
      PROVE  /\ EntryOf[e].table \in {"customer", "supplier"} /\ EntryOf[e].type \in {"PAYMENT", "OPENING"}
             /\ EntryOf[e].type = "PAYMENT" => EntryOf[e].kind \in Kinds
             /\ EntryOf[e].amount \in Nat /\ EntryOf[e].due \in Nat /\ entry[e].at \in Nat
             /\ EntryOf[e].table = "customer" => entry[e].party \in Customers
             /\ EntryOf[e].table = "supplier" => entry[e].party \in Suppliers
  <2>1. entry[e] \in EntryRow /\ PartyFits(e, entry[e].party)
    BY DEF BookInv, RecordTypes
  <2>2. QED
    BY <1>3, <2>1, BooksAssumption DEF EntryRow, PartyFits
<1>6. ASSUME NEW b \in Bills
      PROVE  /\ Qty(b) \in Nat /\ Qty(b) > 0 /\ BillOf[b].paid \in Nat /\ BillOf[b].date \in Nat
             /\ BillOf[b].due \in Nat /\ bill[b].day \in Nat
             /\ BillOf[b].supplier \in Suppliers /\ BillOf[b].kind \in Kinds
  <2>1. bill[b] \in BillRow
    BY DEF PurchaseInv, BooksTyped
  <2>2. QED
    BY <1>3, <2>1, BooksAssumption, ConstantsHold DEF BillRow
<1>7. ASSUME NEW x \in Returns
      PROVE  ret[x].qty \in Nat /\ ret[x].day \in Nat /\ (ret[x].status # "none" => ret[x].bill \in Bills)
  <2>1. ret[x] \in ReturnRow /\ (ret[x].status # "none" => ret[x].bill \in Bills)
    BY DEF PurchaseInv, BooksTyped, Blank
  <2>2. QED
    BY <1>3, <2>1 DEF ReturnRow
<1>8. IsFiniteSet(Expenses) /\ IsFiniteSet(CashEntries) /\ IsFiniteSet(Customers) /\ IsFiniteSet(Suppliers)
  BY BooksAssumption
<1>9. 0..day \subseteq Nat
  OBVIOUS
<1>10. ASSUME NEW x \in Expenses
       PROVE  expense[x].at \in Nat /\ expense[x].kind \in Kinds /\ expense[x].amount \in Nat
  <2>1. expense[x] \in ExpenseRow(day)
    BY DEF BookInv, RecordTypes
  <2>2. QED
    BY <1>9, <2>1 DEF ExpenseRow
<1>11. ASSUME NEW c \in CashEntries PROVE cash[c].at \in Nat /\ CashOf[c].amount \in Nat
  <2>1. cash[c] \in CashRow(day)
    BY DEF BookInv, RecordTypes
  <2>2. QED
    BY <1>9, <2>1, BooksAssumption DEF CashRow
<1>12. QED
  BY <1>1, <1>2, <1>4, <1>5, <1>6, <1>7, <1>8, <1>10, <1>11 DEF BookRows

LEMMA EntryRowsPost ==
    ASSUME BookRows, NEW table, NEW party
    PROVE  /\ Account(EntryRows(table, party))
           /\ NetOf(EntryRows(table, party)) = Sum(EntrySign, Posted(table, party))
           /\ \A r \in EntryRows(table, party) : r.id[1] = 2
<1> DEFINE m == [e \in Posted(table, party) |->
                    Row(<<2, e>>, entry[e].at,
                        IF EntryOf[e].type = "PAYMENT" THEN 0 ELSE EntryOf[e].amount,
                        IF EntryOf[e].type = "PAYMENT" THEN EntryOf[e].amount ELSE 0,
                        EntryOf[e].due)]
<1>1. IsFiniteSet(Posted(table, party)) /\ Posted(table, party) \subseteq Entries
  BY FS_Subset DEF Posted, BookRows
<1>2. ASSUME NEW e \in Posted(table, party)
      PROVE  m[e] \in Line /\ m[e].id = <<2, e>> /\ EntrySign[e] = m[e].debit - m[e].credit
  <2>1. /\ e \in Entries /\ e \in Nat /\ EntryOf[e].type \in {"PAYMENT", "OPENING"}
        /\ EntryOf[e].amount \in Nat /\ EntryOf[e].due \in Nat /\ entry[e].at \in Nat
    BY <1>1 DEF BookRows
  <2> DEFINE debit == IF EntryOf[e].type = "PAYMENT" THEN 0 ELSE EntryOf[e].amount
             credit == IF EntryOf[e].type = "PAYMENT" THEN EntryOf[e].amount ELSE 0
  <2>2. debit \in Nat /\ credit \in Nat /\ EntrySign[e] = debit - credit
    BY <2>1 DEF EntrySign
  <2>3. m[e] = [id |-> <<2, e>>, at |-> entry[e].at, debit |-> debit, credit |-> credit, due |-> EntryOf[e].due]
    BY DEF Row
  <2> HIDE DEF debit, credit, m
  <2>4. QED
    BY <2>1, <2>2, <2>3 DEF Line
<1>3. /\ \A e \in Posted(table, party) : m[e] \in EntryRows(table, party)
      /\ \A r \in EntryRows(table, party) : \E e \in Posted(table, party) : r = m[e]
  BY DEF EntryRows, Posted
<1> HIDE DEF m
<1>4. QED
  BY <1>1, <1>2, <1>3, AccountOfImages


\* The balances of the lists as sums over the rows they are read from.
LEMMA CustomerBalanceIs ==
    ASSUME BookRows, NEW c
    PROVE  CustomerBalance(c) = Sum(SaleCredit, SoldTo(c)) + Sum(EntrySign, Posted("customer", c)) - Cardinality(NotesOf(c))
<1>1. IsFiniteSet(SoldTo(c)) /\ SoldTo(c) \subseteq Sales
      /\ IsFiniteSet(Posted("customer", c)) /\ Posted("customer", c) \subseteq Entries
  BY FS_Subset DEF SoldTo, Posted, BookRows
<1>2. SumFunction([o \in SoldTo(c) |-> SaleOf[o].credit]) = Sum(SaleCredit, SoldTo(c))
  <2> DEFINE g == [o \in SoldTo(c) |-> SaleOf[o].credit]
  <2>1. DOMAIN g = SoldTo(c) /\ \A o \in SoldTo(c) : g[o] = SaleCredit[o]
    BY <1>1 DEF SaleCredit
  <2> HIDE DEF g
  <2>2. SumFunction(g) = Sum(SaleCredit, SoldTo(c))
    BY <1>1, <2>1, TotalIsSum
  <2>3. QED
    BY <2>2 DEF g
<1>3. SumFunction([e \in Posted("customer", c) |-> IF EntryOf[e].type = "PAYMENT" THEN -EntryOf[e].amount ELSE EntryOf[e].amount])
        = Sum(EntrySign, Posted("customer", c))
  <2> DEFINE g == [e \in Posted("customer", c) |-> IF EntryOf[e].type = "PAYMENT" THEN -EntryOf[e].amount ELSE EntryOf[e].amount]
  <2>1. DOMAIN g = Posted("customer", c) /\ \A e \in Posted("customer", c) : g[e] = EntrySign[e]
    BY <1>1 DEF EntrySign
  <2> HIDE DEF g
  <2>2. SumFunction(g) = Sum(EntrySign, Posted("customer", c))
    BY <1>1, <2>1, TotalIsSum
  <2>3. QED
    BY <2>2 DEF g
<1>4. QED
  BY <1>2, <1>3 DEF CustomerBalance, Amount, SoldTo, NotesOf, Posted

LEMMA SupplierBalanceIs ==
    ASSUME BookRows, NEW s
    PROVE  SupplierBalance(s) = Sum(BillDebt, BoughtFrom(s)) + Sum(EntrySign, Posted("supplier", s)) - Sum(ReturnQty, SentBackTo(s))
<1>1. /\ IsFiniteSet(BoughtFrom(s)) /\ BoughtFrom(s) \subseteq Bills
      /\ IsFiniteSet(Posted("supplier", s)) /\ Posted("supplier", s) \subseteq Entries
      /\ IsFiniteSet(SentBackTo(s)) /\ SentBackTo(s) \subseteq Returns
  BY FS_Subset DEF BoughtFrom, SentBackTo, Posted, BookRows
<1>2. SumFunction([b \in BoughtFrom(s) |-> Qty(b) - BillOf[b].paid]) = Sum(BillDebt, BoughtFrom(s))
  <2> DEFINE g == [b \in BoughtFrom(s) |-> Qty(b) - BillOf[b].paid]
  <2>1. DOMAIN g = BoughtFrom(s) /\ \A b \in BoughtFrom(s) : g[b] = BillDebt[b]
    BY <1>1 DEF BillDebt
  <2> HIDE DEF g
  <2>2. SumFunction(g) = Sum(BillDebt, BoughtFrom(s))
    BY <1>1, <2>1, TotalIsSum
  <2>3. QED
    BY <2>2 DEF g
<1>3. SumFunction([e \in Posted("supplier", s) |-> IF EntryOf[e].type = "PAYMENT" THEN -EntryOf[e].amount ELSE EntryOf[e].amount])
        = Sum(EntrySign, Posted("supplier", s))
  <2> DEFINE g == [e \in Posted("supplier", s) |-> IF EntryOf[e].type = "PAYMENT" THEN -EntryOf[e].amount ELSE EntryOf[e].amount]
  <2>1. DOMAIN g = Posted("supplier", s) /\ \A e \in Posted("supplier", s) : g[e] = EntrySign[e]
    BY <1>1 DEF EntrySign
  <2> HIDE DEF g
  <2>2. SumFunction(g) = Sum(EntrySign, Posted("supplier", s))
    BY <1>1, <2>1, TotalIsSum
  <2>3. QED
    BY <2>2 DEF g
<1>4. SumFunction([x \in SentBackTo(s) |-> ret[x].qty]) = Sum(ReturnQty, SentBackTo(s))
  <2> DEFINE g == [x \in SentBackTo(s) |-> ret[x].qty]
  <2>1. DOMAIN g = SentBackTo(s) /\ \A x \in SentBackTo(s) : g[x] = ReturnQty[x]
    BY <1>1 DEF ReturnQty
  <2> HIDE DEF g
  <2>2. SumFunction(g) = Sum(ReturnQty, SentBackTo(s))
    BY <1>1, <2>1, TotalIsSum
  <2>3. QED
    BY <2>2 DEF g
<1>5. QED
  BY <1>2, <1>3, <1>4 DEF SupplierBalance, Amount, BoughtFrom, SentBackTo, Posted

\* Each account's rows, and what they add up to.
SaleLines(c) ==
    {Row(<<1, o>>, sale[o].at, SaleOf[o].credit, 0, sale[o].at) :
        o \in {o \in {o \in Sales : sale[o].customer = c} : sale[o].status = "COMPLETED" /\ SaleOf[o].credit > 0}}
NoteLines(c) ==
    {Row(<<3, o>>, sale[o].refundAt, 0, 1, 0) : o \in {o \in {o \in Sales : sale[o].customer = c} : sale[o].refund = "CREDIT"}}
CustomerLines(c) == (SaleLines(c) \cup NoteLines(c)) \cup EntryRows("customer", c)

LEMMA SaleLinesPost ==
    ASSUME BookRows, NEW c
    PROVE  /\ Account(SaleLines(c)) /\ NetOf(SaleLines(c)) = Sum(SaleCredit, SoldTo(c))
           /\ \A r \in SaleLines(c) : r.id[1] = 1
<1> DEFINE X == {o \in SoldTo(c) : SaleOf[o].credit > 0}
           m == [o \in X |-> Row(<<1, o>>, sale[o].at, SaleOf[o].credit, 0, sale[o].at)]
<1>1. IsFiniteSet(SoldTo(c)) /\ IsFiniteSet(X) /\ SoldTo(c) \subseteq Sales /\ X \subseteq SoldTo(c)
  BY FS_Subset DEF SoldTo, BookRows
<1>2. ASSUME NEW o \in X
      PROVE  m[o] \in Line /\ m[o].id = <<1, o>> /\ SaleCredit[o] = m[o].debit - m[o].credit
  <2>1. o \in Nat /\ SaleOf[o].credit \in Nat /\ sale[o].at \in Nat /\ SaleCredit[o] = SaleOf[o].credit
    BY <1>1 DEF BookRows, SaleCredit
  <2>2. m[o] = [id |-> <<1, o>>, at |-> sale[o].at, debit |-> SaleOf[o].credit, credit |-> 0, due |-> sale[o].at]
    BY DEF Row
  <2> HIDE DEF m
  <2>3. QED
    BY <2>1, <2>2 DEF Line
<1>3. (\A o \in X : m[o] \in SaleLines(c)) /\ \A r \in SaleLines(c) : \E o \in X : r = m[o]
  BY DEF SaleLines, SoldTo
<1>4. Sum(SaleCredit, SoldTo(c)) = Sum(SaleCredit, X)
  <2>1. ASSUME NEW o \in SoldTo(c) PROVE SaleCredit[o] \in Int /\ (o \notin X => SaleCredit[o] = 0)
    <3>1. SaleCredit[o] = SaleOf[o].credit /\ SaleOf[o].credit \in Nat
      BY <1>1 DEF BookRows, SaleCredit
    <3>2. o \in X <=> SaleOf[o].credit > 0
      OBVIOUS
    <3> HIDE DEF X
    <3>3. QED
      BY <3>1, <3>2
  <2> HIDE DEF X
  <2>2. QED
    BY <1>1, <2>1, SumOfRest
<1> HIDE DEF m, X
<1>5. Account(SaleLines(c)) /\ NetOf(SaleLines(c)) = Sum(SaleCredit, X) /\ \A r \in SaleLines(c) : r.id[1] = 1
  <2>1. IsFiniteSet(X)
    BY <1>1
  <2>2. QED
    BY <2>1, <1>2, <1>3, AccountOfImages
<1>6. QED
  BY <1>4, <1>5

LEMMA NoteLinesPost ==
    ASSUME BookRows, NEW c
    PROVE  /\ Account(NoteLines(c)) /\ NetOf(NoteLines(c)) = -Cardinality(NotesOf(c))
           /\ \A r \in NoteLines(c) : r.id[1] = 3
           /\ Cardinality(NotesOf(c)) \in Nat
<1> DEFINE m == [o \in NotesOf(c) |-> Row(<<3, o>>, sale[o].refundAt, 0, 1, 0)]
           one == [o \in NotesOf(c) |-> 1]
           less == [o \in NotesOf(c) |-> -1]
<1>1. IsFiniteSet(NotesOf(c)) /\ NotesOf(c) \subseteq Sales /\ Cardinality(NotesOf(c)) \in Nat
  BY FS_Subset, FS_CardinalityType DEF NotesOf, BookRows
<1>2. ASSUME NEW o \in NotesOf(c)
      PROVE  m[o] \in Line /\ m[o].id = <<3, o>> /\ less[o] = m[o].debit - m[o].credit
  <2>1. o \in Nat /\ sale[o].refundAt \in Nat
    BY <1>1 DEF BookRows
  <2>2. m[o] = [id |-> <<3, o>>, at |-> sale[o].refundAt, debit |-> 0, credit |-> 1, due |-> 0]
    BY DEF Row
  <2> HIDE DEF m
  <2>3. QED
    BY <2>1, <2>2 DEF Line
<1>3. (\A o \in NotesOf(c) : m[o] \in NoteLines(c)) /\ \A r \in NoteLines(c) : \E o \in NotesOf(c) : r = m[o]
  BY DEF NoteLines, NotesOf
<1>4. \A o \in NotesOf(c) : one[o] = 1 /\ less[o] = -one[o] /\ one[o] \in Int
  OBVIOUS
<1> HIDE DEF m, one, less
<1>5. Sum(one, NotesOf(c)) = Cardinality(NotesOf(c)) /\ Sum(less, NotesOf(c)) = -Sum(one, NotesOf(c))
  BY <1>1, <1>4, SumOfOnes, SumNegated
<1>6. Account(NoteLines(c)) /\ NetOf(NoteLines(c)) = Sum(less, NotesOf(c)) /\ \A r \in NoteLines(c) : r.id[1] = 3
  BY <1>1, <1>2, <1>3, AccountOfImages
<1>7. QED
  BY <1>1, <1>5, <1>6

\* An account agrees with a balance that is what its rows add up to.
LEMMA AccountAgrees ==
    ASSUME NEW lines, Account(lines), day \in Nat, NEW balance, NetOf(lines) = balance
    PROVE  AgreesWith(Statement(lines), balance)
<1>1. Statement(lines).balance = balance
  BY StatementIs DEF NetOf
<1>2. Statement(lines).open - Statement(lines).advance = balance /\ (Statement(lines).open = 0 \/ Statement(lines).advance = 0)
  BY <1>1, StatementBalances
<1>3. \A d, e \in Statement(lines).dues : (e.paid > 0 /\ d.at < e.at) => d.paid = d.amount
  BY StatementInOrder
<1>4. LET aged == Aged(OpenItems(Statement(lines)), day)
      IN  Amount(LAMBDA k : aged[k], 0..4) = Statement(lines).open
  BY StatementAges
<1>5. QED
  BY <1>1, <1>2, <1>3, <1>4 DEF AgreesWith

LEMMA CustomersAgree ==
    ASSUME BookRows, day \in Nat, NEW c
    PROVE  AgreesWith(CustomerStatement(c), CustomerBalance(c))
<1>1. CustomerStatement(c) = Statement(CustomerLines(c))
  BY DEF CustomerStatement, CustomerLines, SaleLines, NoteLines
<1>2. \A a \in SaleLines(c), b \in NoteLines(c) : a.id # b.id
  BY SaleLinesPost, NoteLinesPost
<1>3. /\ Account(SaleLines(c) \cup NoteLines(c))
      /\ NetOf(SaleLines(c) \cup NoteLines(c)) = NetOf(SaleLines(c)) + NetOf(NoteLines(c))
  BY <1>2, SaleLinesPost, NoteLinesPost, AccountsJoined
<1>4. \A a \in SaleLines(c) \cup NoteLines(c), b \in EntryRows("customer", c) : a.id # b.id
  BY SaleLinesPost, NoteLinesPost, EntryRowsPost
<1>5. /\ Account(CustomerLines(c))
      /\ NetOf(CustomerLines(c)) = NetOf(SaleLines(c) \cup NoteLines(c)) + NetOf(EntryRows("customer", c))
  BY <1>3, <1>4, EntryRowsPost, AccountsJoined DEF CustomerLines
<1>6. NetOf(CustomerLines(c)) = CustomerBalance(c)
  <2>1. CustomerBalance(c) = Sum(SaleCredit, SoldTo(c)) + Sum(EntrySign, Posted("customer", c)) - Cardinality(NotesOf(c))
    BY CustomerBalanceIs
  <2>2. Sum(SaleCredit, SoldTo(c)) \in Int /\ Sum(EntrySign, Posted("customer", c)) \in Int /\ Cardinality(NotesOf(c)) \in Nat
    <3>1. IsFiniteSet(SoldTo(c)) /\ IsFiniteSet(Posted("customer", c))
      BY FS_Subset DEF SoldTo, Posted, BookRows
    <3>2. (\A o \in SoldTo(c) : SaleCredit[o] \in Int) /\ \A e \in Posted("customer", c) : EntrySign[e] \in Int
      BY DEF SoldTo, Posted, BookRows, SaleCredit, EntrySign
    <3>3. QED
      BY <3>1, <3>2, SumInt, NoteLinesPost
  <2>3. QED
    BY <1>3, <1>5, <2>1, <2>2, SaleLinesPost, NoteLinesPost, EntryRowsPost
<1>7. QED
  BY <1>1, <1>5, <1>6, AccountAgrees

BillQty == [b \in Bills |-> Qty(b)]
BillPaid == [b \in Bills |-> BillOf[b].paid]

BillLines(s) == {Row(<<1, b>>, BillAt(b), Qty(b), 0, BillOf[b].due) : b \in BoughtFrom(s)}
PaidLines(s) == {Row(<<3, b>>, BillAt(b), 0, BillOf[b].paid, 0) : b \in {b \in BoughtFrom(s) : BillOf[b].paid > 0}}
ReturnLines(s) ==
    {Row(<<4, x>>, ret[x].day, 0, ret[x].qty, 0) :
        x \in {x \in Returns : ret[x].status = "SETTLED" /\ ret[x].bill \in BoughtFrom(s)}}
SupplierLines(s) == ((BillLines(s) \cup PaidLines(s)) \cup ReturnLines(s)) \cup EntryRows("supplier", s)

LEMMA BoughtRows ==
    ASSUME BookRows, NEW s, NEW b \in BoughtFrom(s)
    PROVE  /\ b \in Bills /\ b \in Nat /\ BillAt(b) \in Nat /\ Qty(b) \in Nat /\ BillOf[b].due \in Nat /\ BillOf[b].paid \in Nat
           /\ BillQty[b] = Qty(b) /\ BillPaid[b] = BillOf[b].paid /\ BillDebt[b] = Qty(b) - BillOf[b].paid
<1>1. b \in Bills
  BY DEF BoughtFrom
<1>2. BillOf[b].date \in Nat /\ bill[b].day \in Nat
  BY <1>1 DEF BookRows
<1>3. BillAt(b) \in Nat
  BY <1>2 DEF BillAt, Least
<1>4. QED
  BY <1>1, <1>3 DEF BookRows, BillQty, BillPaid, BillDebt

LEMMA BillLinesPost ==
    ASSUME BookRows, NEW s
    PROVE  /\ Account(BillLines(s)) /\ NetOf(BillLines(s)) = Sum(BillQty, BoughtFrom(s))
           /\ \A r \in BillLines(s) : r.id[1] = 1
<1> DEFINE m == [b \in BoughtFrom(s) |-> Row(<<1, b>>, BillAt(b), Qty(b), 0, BillOf[b].due)]
<1>1. IsFiniteSet(BoughtFrom(s))
  BY FS_Subset DEF BoughtFrom, BookRows
<1>2. ASSUME NEW b \in BoughtFrom(s)
      PROVE  m[b] \in Line /\ m[b].id = <<1, b>> /\ BillQty[b] = m[b].debit - m[b].credit
  <2>1. m[b] = [id |-> <<1, b>>, at |-> BillAt(b), debit |-> Qty(b), credit |-> 0, due |-> BillOf[b].due]
    BY DEF Row
  <2> HIDE DEF m
  <2>2. QED
    BY <2>1, BoughtRows DEF Line
<1>3. (\A b \in BoughtFrom(s) : m[b] \in BillLines(s)) /\ \A r \in BillLines(s) : \E b \in BoughtFrom(s) : r = m[b]
  BY DEF BillLines
<1> HIDE DEF m
<1>4. QED
  BY <1>1, <1>2, <1>3, AccountOfImages

LEMMA PaidLinesPost ==
    ASSUME BookRows, NEW s
    PROVE  /\ Account(PaidLines(s)) /\ NetOf(PaidLines(s)) = -Sum(BillPaid, BoughtFrom(s))
           /\ \A r \in PaidLines(s) : r.id[1] = 3
<1> DEFINE X == {b \in BoughtFrom(s) : BillOf[b].paid > 0}
           m == [b \in X |-> Row(<<3, b>>, BillAt(b), 0, BillOf[b].paid, 0)]
           less == [b \in Bills |-> -BillOf[b].paid]
<1>1. IsFiniteSet(BoughtFrom(s)) /\ IsFiniteSet(X)
  BY FS_Subset DEF BoughtFrom, BookRows
<1>2. ASSUME NEW b \in X
      PROVE  m[b] \in Line /\ m[b].id = <<3, b>> /\ less[b] = m[b].debit - m[b].credit
  <2>1. m[b] = [id |-> <<3, b>>, at |-> BillAt(b), debit |-> 0, credit |-> BillOf[b].paid, due |-> 0]
    BY DEF Row
  <2>2. less[b] = -BillOf[b].paid /\ b \in Nat /\ BillAt(b) \in Nat /\ BillOf[b].paid \in Nat
    BY BoughtRows
  <2> HIDE DEF m, less, X
  <2>3. QED
    BY <2>1, <2>2 DEF Line
<1>3. (\A b \in X : m[b] \in PaidLines(s)) /\ \A r \in PaidLines(s) : \E b \in X : r = m[b]
  BY DEF PaidLines
<1>4. Sum(BillPaid, BoughtFrom(s)) = Sum(BillPaid, X)
  <2>1. ASSUME NEW b \in BoughtFrom(s) PROVE BillPaid[b] \in Int /\ (b \notin X => BillPaid[b] = 0)
    <3>1. b \in X <=> BillOf[b].paid > 0
      OBVIOUS
    <3> HIDE DEF X
    <3>2. QED
      BY <3>1, BoughtRows
  <2>2. X \subseteq BoughtFrom(s)
    OBVIOUS
  <2> HIDE DEF X
  <2>3. QED
    BY <1>1, <2>1, <2>2, SumOfRest
<1>5. Sum(less, X) = -Sum(BillPaid, X)
  <2>1. \A b \in X : BillPaid[b] \in Int /\ less[b] = -BillPaid[b]
    BY BoughtRows
  <2>2. IsFiniteSet(X)
    BY <1>1
  <2> HIDE DEF X, less
  <2>3. QED
    BY <2>1, <2>2, SumNegated
<1> HIDE DEF m, X, less
<1>6. Account(PaidLines(s)) /\ NetOf(PaidLines(s)) = Sum(less, X) /\ \A r \in PaidLines(s) : r.id[1] = 3
  <2>1. IsFiniteSet(X)
    BY <1>1
  <2>2. QED
    BY <2>1, <1>2, <1>3, AccountOfImages
<1>7. QED
  BY <1>4, <1>5, <1>6

LEMMA ReturnLinesPost ==
    ASSUME BookRows, NEW s
    PROVE  /\ Account(ReturnLines(s)) /\ NetOf(ReturnLines(s)) = -Sum(ReturnQty, SentBackTo(s))
           /\ \A r \in ReturnLines(s) : r.id[1] = 4
<1> DEFINE m == [x \in SentBackTo(s) |-> Row(<<4, x>>, ret[x].day, 0, ret[x].qty, 0)]
           less == [x \in Returns |-> -ret[x].qty]
<1>1. IsFiniteSet(SentBackTo(s)) /\ SentBackTo(s) \subseteq Returns
  BY FS_Subset DEF SentBackTo, BookRows
<1>2. ASSUME NEW x \in SentBackTo(s)
      PROVE  m[x] \in Line /\ m[x].id = <<4, x>> /\ less[x] = m[x].debit - m[x].credit
  <2>1. m[x] = [id |-> <<4, x>>, at |-> ret[x].day, debit |-> 0, credit |-> ret[x].qty, due |-> 0]
    BY DEF Row
  <2>2. x \in Nat /\ ret[x].day \in Nat /\ ret[x].qty \in Nat /\ less[x] = -ret[x].qty
    BY <1>1 DEF BookRows
  <2> HIDE DEF m, less
  <2>3. QED
    BY <2>1, <2>2 DEF Line
<1>3. (\A x \in SentBackTo(s) : m[x] \in ReturnLines(s)) /\ \A r \in ReturnLines(s) : \E x \in SentBackTo(s) : r = m[x]
  <2>1. SentBackTo(s) = {x \in Returns : ret[x].status = "SETTLED" /\ ret[x].bill \in BoughtFrom(s)}
    BY DEF SentBackTo, BoughtFrom, BookRows
  <2>2. QED
    BY <2>1 DEF ReturnLines
<1>4. Sum(less, SentBackTo(s)) = -Sum(ReturnQty, SentBackTo(s))
  <2>1. ASSUME NEW x \in SentBackTo(s) PROVE ReturnQty[x] \in Int /\ less[x] = -ReturnQty[x]
    <3>1. x \in Returns /\ ret[x].qty \in Nat
      BY <1>1 DEF BookRows
    <3>2. ReturnQty[x] = ret[x].qty /\ less[x] = -ret[x].qty
      BY <3>1 DEF ReturnQty
    <3>3. QED
      BY <3>1, <3>2
  <2> HIDE DEF less
  <2>2. QED
    BY <1>1, <2>1, SumNegated
<1> HIDE DEF m, less
<1>5. Account(ReturnLines(s)) /\ NetOf(ReturnLines(s)) = Sum(less, SentBackTo(s)) /\ \A r \in ReturnLines(s) : r.id[1] = 4
  <2>1. IsFiniteSet(SentBackTo(s))
    BY <1>1
  <2>2. QED
    BY <2>1, <1>2, <1>3, AccountOfImages
<1>6. QED
  BY <1>4, <1>5

LEMMA DebtIsBoughtLessPaid ==
    ASSUME BookRows, NEW some \in SUBSET Bills
    PROVE  /\ Sum(BillDebt, some) = Sum(BillQty, some) - Sum(BillPaid, some)
           /\ Sum(BillDebt, some) \in Int /\ Sum(BillQty, some) \in Int /\ Sum(BillPaid, some) \in Int
<1>1. IsFiniteSet(some)
  BY FS_Subset DEF BookRows
<1>2. \A b \in some : /\ BillDebt[b] \in Int /\ BillPaid[b] \in Int /\ BillQty[b] \in Int
                      /\ BillQty[b] = BillDebt[b] + BillPaid[b]
  BY DEF BookRows, BillDebt, BillPaid, BillQty
<1>3. Sum(BillQty, some) = Sum(BillDebt, some) + Sum(BillPaid, some)
  BY <1>1, <1>2, SumPlus
<1>4. Sum(BillDebt, some) \in Int /\ Sum(BillQty, some) \in Int /\ Sum(BillPaid, some) \in Int
  BY <1>1, <1>2, SumInt
<1>5. QED
  BY <1>3, <1>4

LEMMA SuppliersAgree ==
    ASSUME BookRows, day \in Nat, NEW s
    PROVE  AgreesWith(SupplierStatement(s), SupplierBalance(s))
<1> DEFINE A == BillLines(s)
           B == PaidLines(s)
           C == ReturnLines(s)
           E == EntryRows("supplier", s)
<1>1. SupplierStatement(s) = Statement(SupplierLines(s))
  BY DEF SupplierStatement, SupplierLines, BillLines, PaidLines, ReturnLines, BoughtFrom
<1>2. Account(A \cup B) /\ NetOf(A \cup B) = NetOf(A) + NetOf(B)
  <2>1. \A a \in A, b \in B : a.id # b.id
    BY BillLinesPost, PaidLinesPost
  <2>2. QED
    BY <2>1, BillLinesPost, PaidLinesPost, AccountsJoined
<1>3. Account((A \cup B) \cup C) /\ NetOf((A \cup B) \cup C) = NetOf(A \cup B) + NetOf(C)
  <2>1. \A a \in A \cup B, b \in C : a.id # b.id
    BY BillLinesPost, PaidLinesPost, ReturnLinesPost
  <2>2. QED
    BY <1>2, <2>1, ReturnLinesPost, AccountsJoined
<1>4. Account(SupplierLines(s)) /\ NetOf(SupplierLines(s)) = NetOf((A \cup B) \cup C) + NetOf(E)
  <2>1. \A a \in (A \cup B) \cup C, b \in E : a.id # b.id
    BY BillLinesPost, PaidLinesPost, ReturnLinesPost, EntryRowsPost
  <2>2. QED
    BY <1>3, <2>1, EntryRowsPost, AccountsJoined DEF SupplierLines
<1>5. NetOf(SupplierLines(s)) = SupplierBalance(s)
  <2>1. SupplierBalance(s) = Sum(BillDebt, BoughtFrom(s)) + Sum(EntrySign, Posted("supplier", s)) - Sum(ReturnQty, SentBackTo(s))
    BY SupplierBalanceIs
  <2>2. Sum(EntrySign, Posted("supplier", s)) \in Int /\ Sum(ReturnQty, SentBackTo(s)) \in Int
    <3>1. IsFiniteSet(SentBackTo(s)) /\ IsFiniteSet(Posted("supplier", s))
      BY FS_Subset DEF SentBackTo, Posted, BookRows
    <3>2. (\A x \in SentBackTo(s) : ReturnQty[x] \in Int) /\ \A e \in Posted("supplier", s) : EntrySign[e] \in Int
      BY DEF SentBackTo, Posted, BookRows, ReturnQty, EntrySign
    <3>3. QED
      BY <3>1, <3>2, SumInt
  <2>3. /\ Sum(BillDebt, BoughtFrom(s)) = Sum(BillQty, BoughtFrom(s)) - Sum(BillPaid, BoughtFrom(s))
        /\ Sum(BillQty, BoughtFrom(s)) \in Int /\ Sum(BillPaid, BoughtFrom(s)) \in Int
    BY DebtIsBoughtLessPaid DEF BoughtFrom
  <2>4. /\ NetOf(A) = Sum(BillQty, BoughtFrom(s)) /\ NetOf(B) = -Sum(BillPaid, BoughtFrom(s))
        /\ NetOf(C) = -Sum(ReturnQty, SentBackTo(s)) /\ NetOf(E) = Sum(EntrySign, Posted("supplier", s))
    BY BillLinesPost, PaidLinesPost, ReturnLinesPost, EntryRowsPost
  <2> HIDE DEF A, B, C, E
  <2>5. QED
    BY <1>2, <1>3, <1>4, <2>1, <2>2, <2>3, <2>4
<1>6. QED
  BY <1>1, <1>4, <1>5, AccountAgrees

----------------------------------------------------------------------------
(***************************************************************************)
(* The drawer: what a day closes at.                                       *)
(***************************************************************************)
AmountsOf(moves) == [m \in moves |-> m.amount]
OnDay(start, moves, d) == IF d < start.day THEN {} ELSE {m \in moves : m.at = d}
StartsAt(start, moves, from) ==
    IF from < start.day THEN 0
    ELSE start.amount + SumFunction([m \in Carried(start, moves, from) |-> m.amount])
ClosesBy(start, moves, from, g, d) ==
    IF d = from - 1 THEN StartsAt(start, moves, from)
    ELSE (IF d = start.day /\ from < start.day THEN start.amount ELSE g[d - 1])
         + SumFunction([m \in OnDay(start, moves, d) |-> m.amount])
Closings(start, moves, from, to) ==
    CHOOSE g : g = [d \in (from - 1)..to |-> ClosesBy(start, moves, from, g, d)]

LEMMA CashBookIs ==
    ASSUME NEW start, NEW moves, NEW from, NEW to
    PROVE  CashBook(start, moves, from, to) = [d \in from..to |-> Closings(start, moves, from, to)[d]]
  BY Zenon DEF CashBook, Amount, Closings, ClosesBy, StartsAt, OnDay

\* What the book of a drawer closes at on a day: nothing before its opening day.
ClosedAt(start, moves, d) ==
    IF d < start.day THEN 0
    ELSE start.amount + Sum(AmountsOf(moves), {m \in moves : start.day <= m.at /\ m.at <= d})

Drawer(start, moves) ==
    /\ start.day \in Nat /\ start.amount \in Int
    /\ IsFiniteSet(moves) /\ \A m \in moves : m.at \in Int /\ m.amount \in Int

LEMMA SomeMoves ==
    ASSUME NEW start, NEW moves, Drawer(start, moves), NEW some \in SUBSET moves
    PROVE  /\ SumFunction([m \in some |-> m.amount]) = Sum(AmountsOf(moves), some)
           /\ Sum(AmountsOf(moves), some) \in Int /\ IsFiniteSet(some)
<1> DEFINE g == [m \in some |-> m.amount]
<1>1. DOMAIN g = some /\ (\A m \in some : g[m] = AmountsOf(moves)[m] /\ AmountsOf(moves)[m] \in Int) /\ IsFiniteSet(some)
  BY FS_Subset DEF AmountsOf, Drawer
<1> HIDE DEF g
<1>2. SumFunction(g) = Sum(AmountsOf(moves), some) /\ Sum(AmountsOf(moves), some) \in Int
  BY <1>1, TotalIsSum, SumInt
<1>3. QED
  BY <1>1, <1>2 DEF g

\* The closings of a range, day by day.
ClosingOf(start, moves, from, d) ==
    IF d = from - 1 THEN StartsAt(start, moves, from) ELSE ClosedAt(start, moves, d)

LEMMA ClosedNext ==
    ASSUME NEW start, NEW moves, Drawer(start, moves), NEW from \in Nat \ {0}, NEW d \in Nat, from <= d,
           NEW g, g[d - 1] = ClosingOf(start, moves, from, d - 1)
    PROVE  ClosesBy(start, moves, from, g, d) = ClosedAt(start, moves, d)
<1> DEFINE all == AmountsOf(moves)
           upTo(n) == {m \in moves : start.day <= m.at /\ m.at <= n}
<1>1. start.day \in Nat /\ start.amount \in Int /\ IsFiniteSet(moves) /\ \A m \in moves : m.at \in Int /\ m.amount \in Int
  BY DEF Drawer
<1>2. d # from - 1
  OBVIOUS
<1>3. CASE d < start.day
  <2>1. OnDay(start, moves, d) = {}
    BY <1>3 DEF OnDay
  <2>2. SumFunction([m \in OnDay(start, moves, d) |-> m.amount]) = 0
    BY <2>1, TotalEmpty
  <2>3. g[d - 1] = 0 /\ ~(d = start.day)
    BY <1>1, <1>3 DEF ClosingOf, StartsAt, ClosedAt
  <2>4. QED
    BY <1>2, <1>3, <2>2, <2>3 DEF ClosesBy, ClosedAt
<1>4. CASE start.day <= d
  <2>1. OnDay(start, moves, d) = {m \in moves : m.at = d}
    BY <1>1, <1>4 DEF OnDay
  <2>2. SumFunction([m \in OnDay(start, moves, d) |-> m.amount]) = Sum(all, OnDay(start, moves, d)) /\ Sum(all, OnDay(start, moves, d)) \in Int
    BY <2>1, SomeMoves
  <2>3. /\ upTo(d) = upTo(d - 1) \cup OnDay(start, moves, d) /\ upTo(d - 1) \cap OnDay(start, moves, d) = {}
        /\ upTo(d) \in SUBSET moves /\ upTo(d - 1) \in SUBSET moves /\ OnDay(start, moves, d) \in SUBSET moves
    BY <1>1, <1>4, <2>1
  <2>4. Sum(all, upTo(d)) = Sum(all, upTo(d - 1)) + Sum(all, OnDay(start, moves, d))
    <3> DEFINE A == upTo(d - 1)
               B == OnDay(start, moves, d)
    <3>1. IsFiniteSet(A) /\ IsFiniteSet(B) /\ A \cap B = {} /\ upTo(d) = A \cup B
      BY <2>3, SomeMoves
    <3>2. \A m \in A \cup B : all[m] \in Int
      BY <1>1, <2>3 DEF AmountsOf
    <3> HIDE DEF A, B, all, upTo
    <3>3. Sum(all, A \cup B) = Sum(all, A) + Sum(all, B)
      BY <3>1, <3>2, SumUnion
    <3>4. QED
      BY <3>1, <3>3 DEF A, B
  <2>5. Sum(all, upTo(d - 1)) \in Int
    BY <2>3, SomeMoves
  <2>6. (IF d = start.day /\ from < start.day THEN start.amount ELSE g[d - 1]) = start.amount + Sum(all, upTo(d - 1))
    <3>1. CASE d = start.day
      <4>1. upTo(d - 1) = {}
        BY <1>1, <3>1
      <4>2. Sum(all, upTo(d - 1)) = 0
        BY <4>1, SumEmpty
      <4>3. CASE from < start.day
        BY <1>1, <3>1, <4>2, <4>3
      <4>4. CASE ~(from < start.day)
        <5>1. from = start.day /\ d - 1 = from - 1 /\ Carried(start, moves, from) = {}
          BY <1>1, <3>1, <4>4 DEF Carried
        <5>2. SumFunction([m \in Carried(start, moves, from) |-> m.amount]) = 0
          BY <5>1, TotalEmpty
        <5>3. QED
          BY <1>1, <4>2, <4>4, <5>1, <5>2 DEF ClosingOf, StartsAt
      <4>5. QED
        BY <4>3, <4>4
    <3>2. CASE d # start.day /\ d - 1 = from - 1
      <4>1. Carried(start, moves, from) = upTo(d - 1)
        BY <1>1, <3>2 DEF Carried
      <4>2. SumFunction([m \in Carried(start, moves, from) |-> m.amount]) = Sum(all, upTo(d - 1))
        BY <2>3, <4>1, SomeMoves
      <4>3. ~(from < start.day)
        BY <1>1, <1>4, <3>2
      <4>4. QED
        BY <3>2, <4>2, <4>3 DEF ClosingOf, StartsAt
    <3>3. CASE d # start.day /\ d - 1 # from - 1
      <4>1. ~(d - 1 < start.day)
        BY <1>1, <1>4, <3>3
      <4>2. QED
        BY <3>3, <4>1 DEF ClosingOf, ClosedAt
    <3>4. QED
      BY <3>1, <3>2, <3>3
  <2> HIDE DEF all, upTo
  <2>7. ClosesBy(start, moves, from, g, d) = start.amount + Sum(all, upTo(d))
    BY <1>1, <1>2, <2>2, <2>4, <2>5, <2>6 DEF ClosesBy
  <2>8. ClosedAt(start, moves, d) = start.amount + Sum(all, upTo(d))
    BY <1>1, <1>4 DEF ClosedAt, all, upTo
  <2>9. QED
    BY <2>7, <2>8
<1>5. QED
  BY <1>1, <1>3, <1>4

LEMMA ClosingsAre ==
    ASSUME NEW start, NEW moves, Drawer(start, moves), NEW from \in Nat \ {0}, NEW to \in Nat
    PROVE  \A d \in from..to : Closings(start, moves, from, to)[d] = ClosedAt(start, moves, d)
<1> DEFINE days == (from - 1)..to
           Follows(g) == g = [d \in days |-> ClosesBy(start, moves, from, g, d)]
           g == Closings(start, moves, from, to)
<1>1. \E h : Follows(h)
  <2> DEFINE h == [d \in days |-> ClosingOf(start, moves, from, d)]
  <2>1. ASSUME NEW d \in days PROVE ClosingOf(start, moves, from, d) = ClosesBy(start, moves, from, h, d)
    <3>1. CASE d = from - 1
      BY <3>1 DEF ClosingOf, ClosesBy
    <3>2. CASE d # from - 1
      <4>1. d \in Nat /\ from <= d /\ d - 1 \in days
        BY <3>2
      <4>2. h[d - 1] = ClosingOf(start, moves, from, d - 1)
        BY <4>1
      <4> HIDE DEF h
      <4>3. ClosesBy(start, moves, from, h, d) = ClosedAt(start, moves, d)
        BY <4>1, <4>2, ClosedNext
      <4>4. QED
        BY <3>2, <4>3 DEF ClosingOf
    <3>3. QED
      BY <3>1, <3>2
  <2>2. Follows(h)
    BY <2>1, Zenon
  <2>3. QED
    BY <2>2
<1>2. g = [d \in days |-> ClosesBy(start, moves, from, g, d)]
  <2>1. g = CHOOSE h : Follows(h)
    BY Zenon DEF Closings
  <2>2. Follows(g)
    BY <1>1, <2>1, Zenon
  <2>3. QED
    BY <2>2
<1> HIDE DEF g
<1> DEFINE P == {n \in Nat : from - 1 + n <= to => g[from - 1 + n] = ClosingOf(start, moves, from, from - 1 + n)}
<1>3. 0 \in P
  <2>1. ASSUME from - 1 <= to PROVE g[from - 1] = ClosingOf(start, moves, from, from - 1)
    <3>1. from - 1 \in days
      BY <2>1
    <3>2. g[from - 1] = ClosesBy(start, moves, from, g, from - 1)
      BY <1>2, <3>1, Zenon
    <3>3. QED
      BY <3>2 DEF ClosingOf, ClosesBy
  <2>2. from - 1 + 0 = from - 1
    OBVIOUS
  <2>3. QED
    BY <2>1, <2>2
<1>4. ASSUME NEW n \in Nat, n \in P PROVE n + 1 \in P
  <2> DEFINE d == from - 1 + (n + 1)
  <2>1. ASSUME d <= to PROVE g[d] = ClosingOf(start, moves, from, d)
    <3>1. d \in Nat /\ from <= d /\ d \in days /\ d - 1 = from - 1 + n /\ d - 1 <= to /\ d # from - 1
      BY <2>1
    <3>2. g[d - 1] = ClosingOf(start, moves, from, d - 1)
      BY <1>4, <3>1
    <3> HIDE DEF d
    <3>3. g[d] = ClosesBy(start, moves, from, g, d)
      BY <1>2, <3>1, Zenon
    <3>4. ClosesBy(start, moves, from, g, d) = ClosedAt(start, moves, d)
      BY <3>1, <3>2, ClosedNext
    <3>5. QED
      BY <3>1, <3>3, <3>4 DEF ClosingOf
  <2>2. QED
    BY <2>1
<1> HIDE DEF P
<1>5. Nat \subseteq P
  BY <1>3, <1>4, NatSetInduction
<1>6. ASSUME NEW d \in from..to PROVE g[d] = ClosedAt(start, moves, d)
  <2> DEFINE n == d - from + 1
  <2>1. n \in Nat /\ from - 1 + n = d /\ d <= to /\ d # from - 1
    OBVIOUS
  <2>2. n \in P
    BY <1>5, <2>1
  <2> HIDE DEF n
  <2>3. g[d] = ClosingOf(start, moves, from, d)
    BY <2>1, <2>2 DEF P
  <2>4. QED
    BY <2>1, <2>3 DEF ClosingOf
<1>7. QED
  BY <1>6 DEF g

\* A drawer's days close at the same balance in every range.
LEMMA DaysCloseAlike ==
    ASSUME NEW start, NEW moves, Drawer(start, moves), NEW from \in Nat \ {0}, NEW to \in Nat, NEW d \in from..to
    PROVE  CashBook(start, moves, from, to)[d] = CashBook(start, moves, d, d)[d]
<1>1. d \in Nat \ {0} /\ d \in d..d
  OBVIOUS
<1>2. /\ Closings(start, moves, from, to)[d] = ClosedAt(start, moves, d)
      /\ Closings(start, moves, d, d)[d] = ClosedAt(start, moves, d)
  BY <1>1, ClosingsAre
<1>3. CashBook(start, moves, from, to)[d] = Closings(start, moves, from, to)[d]
  BY CashBookIs
<1>4. CashBook(start, moves, d, d)[d] = Closings(start, moves, d, d)[d]
  BY <1>1, CashBookIs
<1>5. QED
  BY <1>2, <1>3, <1>4

----------------------------------------------------------------------------
(***************************************************************************)
(* The moves of the drawer, and the whole of the books.                    *)
(***************************************************************************)
Moves(some) == IsFiniteSet(some) /\ \A m \in some : m.at \in Int /\ m.amount \in Int
InAll(some) == Sum(AmountsOf(some), some)

LEMMA MovesOfImages ==
    ASSUME NEW X, IsFiniteSet(X), NEW src, NEW m, NEW g,
           \A x \in X : /\ m[x].source = src /\ m[x].id = x /\ m[x].at \in Int
                        /\ m[x].amount = g[x] /\ g[x] \in Int,
           NEW I, \A x \in X : m[x] \in I, \A r \in I : \E x \in X : r = m[x]
    PROVE  Moves(I) /\ InAll(I) = Sum(g, X) /\ \A r \in I : r.source = src
<1>1. \A x, y \in X : m[x] = m[y] => x = y
  OBVIOUS
<1>2. \A x \in X : g[x] \in Int /\ AmountsOf(I)[m[x]] = g[x]
  BY DEF AmountsOf
<1>3. Sum(AmountsOf(I), I) = Sum(g, X) /\ IsFiniteSet(I)
  BY <1>1, <1>2, SumImage
<1>4. \A r \in I : r.source = src /\ r.at \in Int /\ r.amount \in Int
  OBVIOUS
<1>5. QED
  BY <1>3, <1>4 DEF Moves, InAll

LEMMA MovesJoined ==
    ASSUME NEW A, NEW B, Moves(A), Moves(B), \A a \in A, b \in B : a.source # b.source
    PROVE  Moves(A \cup B) /\ InAll(A \cup B) = InAll(A) + InAll(B) /\ InAll(A) \in Int /\ InAll(B) \in Int
<1>1. Moves(A \cup B)
  <2>1. IsFiniteSet(A) /\ IsFiniteSet(B)
    BY DEF Moves
  <2>2. IsFiniteSet(A \cup B)
    BY <2>1, FS_Union
  <2>3. QED
    BY <2>2 DEF Moves
<1>2. A \cap B = {} /\ IsFiniteSet(A) /\ IsFiniteSet(B)
  BY DEF Moves
<1>3. \A r \in A \cup B : AmountsOf(A \cup B)[r] \in Int
  BY <1>1 DEF Moves, AmountsOf
<1>4. Sum(AmountsOf(A \cup B), A \cup B) = Sum(AmountsOf(A \cup B), A) + Sum(AmountsOf(A \cup B), B)
  BY <1>2, <1>3, SumUnion
<1>5. /\ \A r \in A : AmountsOf(A \cup B)[r] = AmountsOf(A)[r] /\ AmountsOf(A)[r] \in Int
      /\ \A r \in B : AmountsOf(A \cup B)[r] = AmountsOf(B)[r] /\ AmountsOf(B)[r] \in Int
  BY DEF AmountsOf, Moves
<1>6. Sum(AmountsOf(A \cup B), A) = Sum(AmountsOf(A), A) /\ Sum(AmountsOf(A \cup B), B) = Sum(AmountsOf(B), B)
  <2>1. Sum(AmountsOf(A \cup B), A) = Sum(AmountsOf(A), A)
    <3>1. \A r \in A : AmountsOf(A \cup B)[r] = AmountsOf(A)[r]
      BY <1>5
    <3>2. QED
      BY <1>2, <3>1, SumEqual
  <2>2. Sum(AmountsOf(A \cup B), B) = Sum(AmountsOf(B), B)
    <3>1. \A r \in B : AmountsOf(A \cup B)[r] = AmountsOf(B)[r]
      BY <1>5
    <3>2. QED
      BY <1>2, <3>1, SumEqual
  <2>3. QED
    BY <2>1, <2>2
<1>7. Sum(AmountsOf(A), A) \in Int /\ Sum(AmountsOf(B), B) \in Int
  BY <1>2, <1>5, SumInt
<1>8. QED
  BY <1>1, <1>4, <1>6, <1>7 DEF InAll

CashMove(source, id, at, amount) == [source |-> source, id |-> id, at |-> at, amount |-> amount]
PaidIn(kinds, table) ==
    {e \in Entries : /\ entry[e].status = "live" /\ EntryOf[e].type = "PAYMENT" /\ EntryOf[e].kind \in kinds
                     /\ EntryOf[e].table = table}
SaleMoves(kinds) ==
    {CashMove("sale", o, sale[o].at, SaleOf[o].cash) : o \in {o \in Sales : sale[o].status = "COMPLETED" /\ "CASH" \in kinds}}
RefundMoves(kinds) ==
    {CashMove("refund", o, sale[o].refundAt, -1) : o \in {o \in Sales : sale[o].refund \in kinds}}
PaymentMoves(kinds) ==
    {CashMove("customer_payment", e, entry[e].at, EntryOf[e].amount) : e \in PaidIn(kinds, "customer")}
ExpenseMoves(kinds) ==
    {CashMove("expense", x, expense[x].at, -expense[x].amount) :
        x \in {x \in Expenses : expense[x].status = "live" /\ expense[x].kind \in kinds}}
SupplierMoves(kinds) ==
    {CashMove("supplier_payment", e, entry[e].at, -EntryOf[e].amount) : e \in PaidIn(kinds, "supplier")}
PurchaseMoves(kinds) ==
    {CashMove("purchase", b, bill[b].day, -BillOf[b].paid) :
        b \in {b \in Bills : Live(b) /\ BillOf[b].paid > 0 /\ BillOf[b].kind \in kinds}}
ManualMoves(kinds) ==
    {CashMove("manual", c, cash[c].at, IF CashOf[c].type = "IN" THEN CashOf[c].amount ELSE -CashOf[c].amount) :
        c \in {c \in CashEntries : cash[c].status = "live" /\ "CASH" \in kinds}}

LEMMA CashMovesAre ==
    ASSUME NEW kinds
    PROVE  CashMoves(kinds) =
              (((((SaleMoves(kinds) \cup RefundMoves(kinds)) \cup PaymentMoves(kinds)) \cup ExpenseMoves(kinds))
               \cup SupplierMoves(kinds)) \cup PurchaseMoves(kinds)) \cup ManualMoves(kinds)
<1>1. PaidIn(kinds, "customer") = {e \in Entries : (entry[e].status = "live" /\ EntryOf[e].type = "PAYMENT" /\ EntryOf[e].kind \in kinds) /\ EntryOf[e].table = "customer"}
  BY DEF PaidIn
<1>2. PaidIn(kinds, "supplier") = {e \in Entries : (entry[e].status = "live" /\ EntryOf[e].type = "PAYMENT" /\ EntryOf[e].kind \in kinds) /\ EntryOf[e].table = "supplier"}
  BY DEF PaidIn
<1>3. QED
  BY <1>1, <1>2, Zenon DEF CashMoves, SaleMoves, RefundMoves, PaymentMoves, ExpenseMoves, SupplierMoves, PurchaseMoves, ManualMoves, CashMove

\* What each of the drawer's sources adds to it.
SaleCash == [o \in Sales |-> SaleOf[o].cash]
LessOne == [o \in Sales |-> -1]
EntryAmount == [e \in Entries |-> EntryOf[e].amount]
LessEntry == [e \in Entries |-> -EntryOf[e].amount]
LessExpense == [x \in Expenses |-> -expense[x].amount]
LessPaid == [b \in Bills |-> -BillOf[b].paid]
ByHand == [c \in CashEntries |-> IF CashOf[c].type = "IN" THEN CashOf[c].amount ELSE -CashOf[c].amount]

SoldFor(kinds) == {o \in Sales : sale[o].status = "COMPLETED" /\ "CASH" \in kinds}
RefundedBy(kinds) == {o \in Sales : sale[o].refund \in kinds}
SpentBy(kinds) == {x \in Expenses : expense[x].status = "live" /\ expense[x].kind \in kinds}
PaidBy(kinds) == {b \in Bills : Live(b) /\ BillOf[b].paid > 0 /\ BillOf[b].kind \in kinds}
PutInFor(kinds) == {c \in CashEntries : cash[c].status = "live" /\ "CASH" \in kinds}

LEMMA SaleMovesPost ==
    ASSUME BookRows, NEW kinds
    PROVE  /\ Moves(SaleMoves(kinds)) /\ InAll(SaleMoves(kinds)) = Sum(SaleCash, SoldFor(kinds))
           /\ \A r \in SaleMoves(kinds) : r.source = "sale"
<1> DEFINE m == [x \in SoldFor(kinds) |-> CashMove("sale", x, sale[x].at, SaleOf[x].cash)]
<1>1. IsFiniteSet(SoldFor(kinds)) /\ SoldFor(kinds) \subseteq Sales
  BY FS_Subset DEF SoldFor, BookRows
<1>2. ASSUME NEW x \in SoldFor(kinds)
      PROVE  /\ m[x].source = "sale" /\ m[x].id = x /\ m[x].at \in Int /\ m[x].amount = SaleCash[x]
             /\ SaleCash[x] \in Int
  <2>1. x \in Sales
    BY <1>1
  <2>2. sale[x].at \in Nat /\ SaleOf[x].cash \in Nat
    BY <2>1 DEF BookRows
  <2>3. m[x] = CashMove("sale", x, sale[x].at, SaleOf[x].cash)
    OBVIOUS
  <2> HIDE DEF m
  <2>4. SaleCash[x] = SaleOf[x].cash
    BY <2>1 DEF SaleCash
  <2>5. sale[x].at \in Int /\ SaleCash[x] \in Int
    BY <2>2, <2>4
  <2>6. QED
    BY <2>3, <2>4, <2>5 DEF CashMove
<1>3. (\A x \in SoldFor(kinds) : m[x] \in SaleMoves(kinds)) /\ \A r \in SaleMoves(kinds) : \E x \in SoldFor(kinds) : r = m[x]
  BY DEF SaleMoves, SoldFor
<1> HIDE DEF m
<1>4. QED
  BY <1>1, <1>2, <1>3, MovesOfImages

LEMMA RefundMovesPost ==
    ASSUME BookRows, NEW kinds
    PROVE  /\ Moves(RefundMoves(kinds)) /\ InAll(RefundMoves(kinds)) = Sum(LessOne, RefundedBy(kinds))
           /\ \A r \in RefundMoves(kinds) : r.source = "refund"
<1> DEFINE m == [x \in RefundedBy(kinds) |-> CashMove("refund", x, sale[x].refundAt, -1)]
<1>1. IsFiniteSet(RefundedBy(kinds)) /\ RefundedBy(kinds) \subseteq Sales
  BY FS_Subset DEF RefundedBy, BookRows
<1>2. ASSUME NEW x \in RefundedBy(kinds)
      PROVE  /\ m[x].source = "refund" /\ m[x].id = x /\ m[x].at \in Int /\ m[x].amount = LessOne[x]
             /\ LessOne[x] \in Int
  <2>1. x \in Sales
    BY <1>1
  <2>2. sale[x].refundAt \in Nat /\ -1 \in Int
    BY <2>1 DEF BookRows
  <2>3. m[x] = CashMove("refund", x, sale[x].refundAt, -1)
    OBVIOUS
  <2> HIDE DEF m
  <2>4. LessOne[x] = -1
    BY <2>1 DEF LessOne
  <2>5. sale[x].refundAt \in Int /\ LessOne[x] \in Int
    BY <2>2, <2>4
  <2>6. QED
    BY <2>3, <2>4, <2>5 DEF CashMove
<1>3. (\A x \in RefundedBy(kinds) : m[x] \in RefundMoves(kinds)) /\ \A r \in RefundMoves(kinds) : \E x \in RefundedBy(kinds) : r = m[x]
  BY DEF RefundMoves, RefundedBy
<1> HIDE DEF m
<1>4. QED
  BY <1>1, <1>2, <1>3, MovesOfImages

LEMMA PaymentMovesPost ==
    ASSUME BookRows, NEW kinds
    PROVE  /\ Moves(PaymentMoves(kinds)) /\ InAll(PaymentMoves(kinds)) = Sum(EntryAmount, PaidIn(kinds, "customer"))
           /\ \A r \in PaymentMoves(kinds) : r.source = "customer_payment"
<1> DEFINE m == [x \in PaidIn(kinds, "customer") |-> CashMove("customer_payment", x, entry[x].at, EntryOf[x].amount)]
<1>1. IsFiniteSet(PaidIn(kinds, "customer")) /\ PaidIn(kinds, "customer") \subseteq Entries
  BY FS_Subset DEF PaidIn, BookRows
<1>2. ASSUME NEW x \in PaidIn(kinds, "customer")
      PROVE  /\ m[x].source = "customer_payment" /\ m[x].id = x /\ m[x].at \in Int /\ m[x].amount = EntryAmount[x]
             /\ EntryAmount[x] \in Int
  <2>1. x \in Entries
    BY <1>1
  <2>2. entry[x].at \in Nat /\ EntryOf[x].amount \in Nat
    BY <2>1 DEF BookRows
  <2>3. m[x] = CashMove("customer_payment", x, entry[x].at, EntryOf[x].amount)
    OBVIOUS
  <2> HIDE DEF m
  <2>4. EntryAmount[x] = EntryOf[x].amount
    BY <2>1 DEF EntryAmount
  <2>5. entry[x].at \in Int /\ EntryAmount[x] \in Int
    BY <2>2, <2>4
  <2>6. QED
    BY <2>3, <2>4, <2>5 DEF CashMove
<1>3. (\A x \in PaidIn(kinds, "customer") : m[x] \in PaymentMoves(kinds)) /\ \A r \in PaymentMoves(kinds) : \E x \in PaidIn(kinds, "customer") : r = m[x]
  BY DEF PaymentMoves
<1> HIDE DEF m
<1>4. QED
  BY <1>1, <1>2, <1>3, MovesOfImages

LEMMA ExpenseMovesPost ==
    ASSUME BookRows, NEW kinds
    PROVE  /\ Moves(ExpenseMoves(kinds)) /\ InAll(ExpenseMoves(kinds)) = Sum(LessExpense, SpentBy(kinds))
           /\ \A r \in ExpenseMoves(kinds) : r.source = "expense"
<1> DEFINE m == [x \in SpentBy(kinds) |-> CashMove("expense", x, expense[x].at, -expense[x].amount)]
<1>1. IsFiniteSet(SpentBy(kinds)) /\ SpentBy(kinds) \subseteq Expenses
  BY FS_Subset DEF SpentBy, BookRows
<1>2. ASSUME NEW x \in SpentBy(kinds)
      PROVE  /\ m[x].source = "expense" /\ m[x].id = x /\ m[x].at \in Int /\ m[x].amount = LessExpense[x]
             /\ LessExpense[x] \in Int
  <2>1. x \in Expenses
    BY <1>1
  <2>2. expense[x].at \in Nat /\ expense[x].amount \in Nat
    BY <2>1 DEF BookRows
  <2>3. m[x] = CashMove("expense", x, expense[x].at, -expense[x].amount)
    OBVIOUS
  <2> HIDE DEF m
  <2>4. LessExpense[x] = -expense[x].amount
    BY <2>1 DEF LessExpense
  <2>5. expense[x].at \in Int /\ LessExpense[x] \in Int
    BY <2>2, <2>4
  <2>6. QED
    BY <2>3, <2>4, <2>5 DEF CashMove
<1>3. (\A x \in SpentBy(kinds) : m[x] \in ExpenseMoves(kinds)) /\ \A r \in ExpenseMoves(kinds) : \E x \in SpentBy(kinds) : r = m[x]
  BY DEF ExpenseMoves, SpentBy
<1> HIDE DEF m
<1>4. QED
  BY <1>1, <1>2, <1>3, MovesOfImages

LEMMA SupplierMovesPost ==
    ASSUME BookRows, NEW kinds
    PROVE  /\ Moves(SupplierMoves(kinds)) /\ InAll(SupplierMoves(kinds)) = Sum(LessEntry, PaidIn(kinds, "supplier"))
           /\ \A r \in SupplierMoves(kinds) : r.source = "supplier_payment"
<1> DEFINE m == [x \in PaidIn(kinds, "supplier") |-> CashMove("supplier_payment", x, entry[x].at, -EntryOf[x].amount)]
<1>1. IsFiniteSet(PaidIn(kinds, "supplier")) /\ PaidIn(kinds, "supplier") \subseteq Entries
  BY FS_Subset DEF PaidIn, BookRows
<1>2. ASSUME NEW x \in PaidIn(kinds, "supplier")
      PROVE  /\ m[x].source = "supplier_payment" /\ m[x].id = x /\ m[x].at \in Int /\ m[x].amount = LessEntry[x]
             /\ LessEntry[x] \in Int
  <2>1. x \in Entries
    BY <1>1
  <2>2. entry[x].at \in Nat /\ EntryOf[x].amount \in Nat
    BY <2>1 DEF BookRows
  <2>3. m[x] = CashMove("supplier_payment", x, entry[x].at, -EntryOf[x].amount)
    OBVIOUS
  <2> HIDE DEF m
  <2>4. LessEntry[x] = -EntryOf[x].amount
    BY <2>1 DEF LessEntry
  <2>5. entry[x].at \in Int /\ LessEntry[x] \in Int
    BY <2>2, <2>4
  <2>6. QED
    BY <2>3, <2>4, <2>5 DEF CashMove
<1>3. (\A x \in PaidIn(kinds, "supplier") : m[x] \in SupplierMoves(kinds)) /\ \A r \in SupplierMoves(kinds) : \E x \in PaidIn(kinds, "supplier") : r = m[x]
  BY DEF SupplierMoves
<1> HIDE DEF m
<1>4. QED
  BY <1>1, <1>2, <1>3, MovesOfImages

LEMMA PurchaseMovesPost ==
    ASSUME BookRows, NEW kinds
    PROVE  /\ Moves(PurchaseMoves(kinds)) /\ InAll(PurchaseMoves(kinds)) = Sum(LessPaid, PaidBy(kinds))
           /\ \A r \in PurchaseMoves(kinds) : r.source = "purchase"
<1> DEFINE m == [x \in PaidBy(kinds) |-> CashMove("purchase", x, bill[x].day, -BillOf[x].paid)]
<1>1. IsFiniteSet(PaidBy(kinds)) /\ PaidBy(kinds) \subseteq Bills
  BY FS_Subset DEF PaidBy, BookRows
<1>2. ASSUME NEW x \in PaidBy(kinds)
      PROVE  /\ m[x].source = "purchase" /\ m[x].id = x /\ m[x].at \in Int /\ m[x].amount = LessPaid[x]
             /\ LessPaid[x] \in Int
  <2>1. x \in Bills
    BY <1>1
  <2>2. bill[x].day \in Nat /\ BillOf[x].paid \in Nat
    BY <2>1 DEF BookRows
  <2>3. m[x] = CashMove("purchase", x, bill[x].day, -BillOf[x].paid)
    OBVIOUS
  <2> HIDE DEF m
  <2>4. LessPaid[x] = -BillOf[x].paid
    BY <2>1 DEF LessPaid
  <2>5. bill[x].day \in Int /\ LessPaid[x] \in Int
    BY <2>2, <2>4
  <2>6. QED
    BY <2>3, <2>4, <2>5 DEF CashMove
<1>3. (\A x \in PaidBy(kinds) : m[x] \in PurchaseMoves(kinds)) /\ \A r \in PurchaseMoves(kinds) : \E x \in PaidBy(kinds) : r = m[x]
  BY DEF PurchaseMoves, PaidBy
<1> HIDE DEF m
<1>4. QED
  BY <1>1, <1>2, <1>3, MovesOfImages

LEMMA ManualMovesPost ==
    ASSUME BookRows, NEW kinds
    PROVE  /\ Moves(ManualMoves(kinds)) /\ InAll(ManualMoves(kinds)) = Sum(ByHand, PutInFor(kinds))
           /\ \A r \in ManualMoves(kinds) : r.source = "manual"
<1> DEFINE m == [x \in PutInFor(kinds) |-> CashMove("manual", x, cash[x].at, IF CashOf[x].type = "IN" THEN CashOf[x].amount ELSE -CashOf[x].amount)]
<1>1. IsFiniteSet(PutInFor(kinds)) /\ PutInFor(kinds) \subseteq CashEntries
  BY FS_Subset DEF PutInFor, BookRows
<1>2. ASSUME NEW x \in PutInFor(kinds)
      PROVE  /\ m[x].source = "manual" /\ m[x].id = x /\ m[x].at \in Int /\ m[x].amount = ByHand[x]
             /\ ByHand[x] \in Int
  <2>1. x \in CashEntries
    BY <1>1
  <2>2. cash[x].at \in Nat /\ CashOf[x].amount \in Nat
    BY <2>1 DEF BookRows
  <2>3. m[x] = CashMove("manual", x, cash[x].at, IF CashOf[x].type = "IN" THEN CashOf[x].amount ELSE -CashOf[x].amount)
    OBVIOUS
  <2> HIDE DEF m
  <2>4. ByHand[x] = (IF CashOf[x].type = "IN" THEN CashOf[x].amount ELSE -CashOf[x].amount)
    BY <2>1 DEF ByHand
  <2>5. cash[x].at \in Int /\ ByHand[x] \in Int
    BY <2>2, <2>4
  <2>6. QED
    BY <2>3, <2>4, <2>5 DEF CashMove
<1>3. (\A x \in PutInFor(kinds) : m[x] \in ManualMoves(kinds)) /\ \A r \in ManualMoves(kinds) : \E x \in PutInFor(kinds) : r = m[x]
  BY DEF ManualMoves, PutInFor
<1> HIDE DEF m
<1>4. QED
  BY <1>1, <1>2, <1>3, MovesOfImages

\* The drawer holds what its sources add up to.
LEMMA MovesPost ==
    ASSUME BookRows, NEW kinds
    PROVE  /\ Moves(CashMoves(kinds))
           /\ InAll(CashMoves(kinds)) =
                Sum(SaleCash, SoldFor(kinds)) + Sum(LessOne, RefundedBy(kinds))
                + Sum(EntryAmount, PaidIn(kinds, "customer")) + Sum(LessExpense, SpentBy(kinds))
                + Sum(LessEntry, PaidIn(kinds, "supplier")) + Sum(LessPaid, PaidBy(kinds)) + Sum(ByHand, PutInFor(kinds))
<1> DEFINE A == SaleMoves(kinds)
           B == RefundMoves(kinds)
           C == PaymentMoves(kinds)
           D == ExpenseMoves(kinds)
           E == SupplierMoves(kinds)
           F == PurchaseMoves(kinds)
           G == ManualMoves(kinds)
           AB == A \cup B
           ABC == AB \cup C
           ABCD == ABC \cup D
           ABCDE == ABCD \cup E
           ABCDEF == ABCDE \cup F
<1>1. /\ Moves(A) /\ Moves(B) /\ Moves(C) /\ Moves(D) /\ Moves(E) /\ Moves(F) /\ Moves(G)
      /\ \A r \in A : r.source = "sale"
      /\ \A r \in B : r.source = "refund"
      /\ \A r \in C : r.source = "customer_payment"
      /\ \A r \in D : r.source = "expense"
      /\ \A r \in E : r.source = "supplier_payment"
      /\ \A r \in F : r.source = "purchase"
      /\ \A r \in G : r.source = "manual"
  BY SaleMovesPost, RefundMovesPost, PaymentMovesPost, ExpenseMovesPost, SupplierMovesPost, PurchaseMovesPost, ManualMovesPost
<1>2. /\ InAll(A) = Sum(SaleCash, SoldFor(kinds)) /\ InAll(B) = Sum(LessOne, RefundedBy(kinds))
      /\ InAll(C) = Sum(EntryAmount, PaidIn(kinds, "customer")) /\ InAll(D) = Sum(LessExpense, SpentBy(kinds))
      /\ InAll(E) = Sum(LessEntry, PaidIn(kinds, "supplier")) /\ InAll(F) = Sum(LessPaid, PaidBy(kinds))
      /\ InAll(G) = Sum(ByHand, PutInFor(kinds))
  BY SaleMovesPost, RefundMovesPost, PaymentMovesPost, ExpenseMovesPost, SupplierMovesPost, PurchaseMovesPost, ManualMovesPost
<1>3. CashMoves(kinds) = ABCDEF \cup G
  BY CashMovesAre
<1> HIDE DEF A, B, C, D, E, F, G
<1>4. Moves(AB) /\ InAll(AB) = InAll(A) + InAll(B)
  <2>1. \A a \in A, b \in B : a.source # b.source
    BY <1>1
  <2>2. QED
    BY <1>1, <2>1, MovesJoined
<1>5. Moves(ABC) /\ InAll(ABC) = InAll(AB) + InAll(C)
  <2>1. \A a \in AB, b \in C : a.source # b.source
    BY <1>1
  <2> HIDE DEF AB
  <2>2. QED
    BY <1>1, <1>4, <2>1, MovesJoined
<1>6. Moves(ABCD) /\ InAll(ABCD) = InAll(ABC) + InAll(D)
  <2>1. \A a \in ABC, b \in D : a.source # b.source
    BY <1>1
  <2> HIDE DEF ABC
  <2>2. QED
    BY <1>1, <1>5, <2>1, MovesJoined
<1>7. Moves(ABCDE) /\ InAll(ABCDE) = InAll(ABCD) + InAll(E)
  <2>1. \A a \in ABCD, b \in E : a.source # b.source
    BY <1>1
  <2> HIDE DEF ABCD
  <2>2. QED
    BY <1>1, <1>6, <2>1, MovesJoined
<1>8. Moves(ABCDEF) /\ InAll(ABCDEF) = InAll(ABCDE) + InAll(F)
  <2>1. \A a \in ABCDE, b \in F : a.source # b.source
    BY <1>1
  <2> HIDE DEF ABCDE
  <2>2. QED
    BY <1>1, <1>7, <2>1, MovesJoined
<1>9. Moves(ABCDEF \cup G) /\ InAll(ABCDEF \cup G) = InAll(ABCDEF) + InAll(G)
  <2>1. \A a \in ABCDEF, b \in G : a.source # b.source
    BY <1>1
  <2> HIDE DEF ABCDEF
  <2>2. QED
    BY <1>1, <1>8, <2>1, MovesJoined
<1> HIDE DEF AB, ABC, ABCD, ABCDE, ABCDEF
<1>10. InAll(ABCDEF \cup G) = ((((((InAll(A) + InAll(B)) + InAll(C)) + InAll(D)) + InAll(E)) + InAll(F)) + InAll(G))
  BY <1>4, <1>5, <1>6, <1>7, <1>8, <1>9
<1>11. InAll(CashMoves(kinds)) = ((((((InAll(A) + InAll(B)) + InAll(C)) + InAll(D)) + InAll(E)) + InAll(F)) + InAll(G))
  BY <1>3, <1>10
<1>12. QED
  BY <1>2, <1>3, <1>9, <1>11, Zenon

\* A day closes alike whatever it is asked for with.
LEMMA DrawersClose ==
    ASSUME BookRows, opening.day \in Nat, opening.amount \in Nat, MaxDay \in Nat
    PROVE  DrawerCloses
<1> DEFINE all == CashMoves({"CASH"})
           alone == [d \in 1..MaxDay |-> CashBook(opening, all, d, d)[d]]
<1>1. Drawer(opening, all)
  BY MovesPost DEF Moves, Drawer
<1> HIDE DEF all
<1>2. ASSUME NEW from \in 1..MaxDay, NEW to \in (from + 1)..MaxDay, NEW d \in from..to
      PROVE  CashBook(opening, all, from, to)[d] = alone[d]
  <2>1. from \in Nat \ {0} /\ to \in Nat /\ d \in 1..MaxDay
    OBVIOUS
  <2>2. CashBook(opening, all, from, to)[d] = CashBook(opening, all, d, d)[d]
    BY <1>1, <2>1, DaysCloseAlike
  <2>3. alone[d] = CashBook(opening, all, d, d)[d]
    BY <2>1
  <2>4. QED
    BY <2>2, <2>3
<1> HIDE DEF alone
<1>3. \A from \in 1..MaxDay : \A to \in (from + 1)..MaxDay : \A d \in from..to : CashBook(opening, all, from, to)[d] = alone[d]
  BY <1>2
<1>4. QED
  BY <1>3, Zenon DEF DrawerCloses, all, alone

\* All the rows of the books, of every party.
SoldRows == {o \in Sales : sale[o].status = "COMPLETED"}
CreditNotes == {o \in Sales : sale[o].refund = "CREDIT"}
PostedTo(table) == {e \in Entries : entry[e].status = "live" /\ EntryOf[e].table = table}
OpeningsOf(table) == {e \in PostedTo(table) : EntryOf[e].type = "OPENING"}
BoughtBills == {b \in Bills : Live(b)}
SentBack == {x \in Returns : ret[x].status = "SETTLED" /\ Live(ret[x].bill)}

LEMMA AllRowsFinite ==
    ASSUME BookRows
    PROVE  /\ IsFiniteSet(SoldRows) /\ IsFiniteSet(CreditNotes) /\ IsFiniteSet(BoughtBills) /\ IsFiniteSet(SentBack)
           /\ \A table : IsFiniteSet(PostedTo(table)) /\ IsFiniteSet(OpeningsOf(table))
<1>1. IsFiniteSet(SoldRows) /\ IsFiniteSet(CreditNotes) /\ IsFiniteSet(BoughtBills) /\ IsFiniteSet(SentBack)
  BY FS_Subset DEF SoldRows, CreditNotes, BoughtBills, SentBack, BookRows
<1>2. ASSUME NEW table PROVE IsFiniteSet(PostedTo(table)) /\ IsFiniteSet(OpeningsOf(table))
  <2>1. IsFiniteSet(PostedTo(table)) /\ OpeningsOf(table) \subseteq PostedTo(table)
    BY FS_Subset DEF PostedTo, OpeningsOf, BookRows
  <2>2. QED
    BY <2>1, FS_Subset
<1>3. QED
  BY <1>1, <1>2

LEMMA LessOnes ==
    ASSUME NEW some \in SUBSET Sales, IsFiniteSet(some)
    PROVE  Sum(LessOne, some) = -Cardinality(some) /\ Cardinality(some) \in Nat
<1> DEFINE one == [o \in some |-> 1]
<1>1. \A o \in some : one[o] = 1 /\ one[o] \in Int /\ LessOne[o] = -one[o]
  BY DEF LessOne
<1> HIDE DEF one
<1>2. Sum(one, some) = Cardinality(some) /\ Sum(LessOne, some) = -Sum(one, some)
  BY <1>1, SumOfOnes, SumNegated
<1>3. QED
  BY <1>2, FS_CardinalityType

LEMMA EntrySigned ==
    ASSUME BookRows, NEW e \in Entries
    PROVE  EntrySign[e] \in Int /\ EntryAmount[e] \in Int /\ LessEntry[e] = -EntryAmount[e]
           /\ EntrySign[e] = IF EntryOf[e].type = "PAYMENT" THEN -EntryAmount[e] ELSE EntryAmount[e]
<1>1. EntryOf[e].amount \in Nat
  BY DEF BookRows
<1>2. /\ EntrySign[e] = (IF EntryOf[e].type = "PAYMENT" THEN -EntryOf[e].amount ELSE EntryOf[e].amount)
      /\ EntryAmount[e] = EntryOf[e].amount /\ LessEntry[e] = -EntryOf[e].amount
  BY DEF EntrySign, EntryAmount, LessEntry
<1>3. QED
  BY <1>1, <1>2

\* What all customers owe.
LEMMA CustomersOwe ==
    ASSUME BookRows
    PROVE  /\ SumFunction([c \in Customers |-> CustomerBalance(c)]) =
                Sum(SaleCredit, SoldRows) + Sum(EntrySign, PostedTo("customer")) - Cardinality(CreditNotes)
           /\ Sum(SaleCredit, SoldRows) \in Int /\ Sum(EntrySign, PostedTo("customer")) \in Int /\ Cardinality(CreditNotes) \in Nat
<1> DEFINE customerOf == [o \in Sales |-> sale[o].customer]
           partyOf == [e \in Entries |-> entry[e].party]
           sold1 == [c \in Customers |-> Sum(SaleCredit, SoldTo(c))]
           posted1 == [c \in Customers |-> Sum(EntrySign, Posted("customer", c))]
           noted1 == [c \in Customers |-> Sum(LessOne, NotesOf(c))]
           both == [c \in Customers |-> sold1[c] + posted1[c]]
           all == [c \in Customers |-> CustomerBalance(c)]
           soldTo == [c \in Customers |-> SoldTo(c)]
           postedFor == [c \in Customers |-> Posted("customer", c)]
           notesOf == [c \in Customers |-> NotesOf(c)]
<1>1. IsFiniteSet(Customers) /\ IsFiniteSet(SoldRows) /\ IsFiniteSet(CreditNotes) /\ IsFiniteSet(PostedTo("customer"))
  BY AllRowsFinite DEF BookRows
<1>2. /\ \A o \in SoldRows : SaleCredit[o] \in Int /\ customerOf[o] \in Customers
      /\ \A o \in CreditNotes : LessOne[o] \in Int /\ customerOf[o] \in Customers
  BY DEF SoldRows, CreditNotes, BookRows, SaleCredit, LessOne
<1>3. \A e \in PostedTo("customer") : EntrySign[e] \in Int /\ partyOf[e] \in Customers
  <2>1. ASSUME NEW e \in PostedTo("customer") PROVE EntrySign[e] \in Int /\ partyOf[e] \in Customers
    <3>1. e \in Entries /\ EntryOf[e].table = "customer"
      BY DEF PostedTo
    <3>2. entry[e].party \in Customers
      BY <3>1 DEF BookRows
    <3>3. QED
      BY <3>1, <3>2, EntrySigned
  <2>2. QED
    BY <2>1
<1>4. /\ \A c \in Customers : \A o : o \in soldTo[c] <=> o \in SoldRows /\ customerOf[o] = c
      /\ \A c \in Customers : \A o : o \in notesOf[c] <=> o \in CreditNotes /\ customerOf[o] = c
      /\ \A c \in Customers : \A e : e \in postedFor[c] <=> e \in PostedTo("customer") /\ partyOf[e] = c
  BY DEF SoldTo, SoldRows, NotesOf, CreditNotes, Posted, PostedTo
<1>5. /\ \A c \in Customers : sold1[c] = Sum(SaleCredit, soldTo[c])
      /\ \A c \in Customers : noted1[c] = Sum(LessOne, notesOf[c])
      /\ \A c \in Customers : posted1[c] = Sum(EntrySign, postedFor[c])
  OBVIOUS
<1>6. \A c \in Customers : sold1[c] \in Int /\ posted1[c] \in Int /\ noted1[c] \in Int
                           /\ both[c] = sold1[c] + posted1[c] /\ all[c] = both[c] + noted1[c]
  <2>1. ASSUME NEW c \in Customers
        PROVE  sold1[c] \in Int /\ posted1[c] \in Int /\ noted1[c] \in Int /\ all[c] = (sold1[c] + posted1[c]) + noted1[c]
    <3>1. SoldTo(c) \subseteq SoldRows /\ NotesOf(c) \subseteq CreditNotes /\ Posted("customer", c) \subseteq PostedTo("customer")
          /\ NotesOf(c) \in SUBSET Sales
      BY DEF SoldTo, SoldRows, NotesOf, CreditNotes, Posted, PostedTo
    <3>2. IsFiniteSet(SoldTo(c)) /\ IsFiniteSet(NotesOf(c)) /\ IsFiniteSet(Posted("customer", c))
      BY <1>1, <3>1, FS_Subset
    <3>3. sold1[c] = Sum(SaleCredit, SoldTo(c)) /\ noted1[c] = Sum(LessOne, NotesOf(c)) /\ posted1[c] = Sum(EntrySign, Posted("customer", c))
          /\ all[c] = CustomerBalance(c)
      OBVIOUS
    <3>4. /\ \A o \in SoldTo(c) : SaleCredit[o] \in Int
          /\ \A e \in Posted("customer", c) : EntrySign[e] \in Int
      BY <1>2, <1>3, <3>1
    <3> HIDE DEF sold1, noted1, posted1, both, all
    <3>5. Sum(SaleCredit, SoldTo(c)) \in Int /\ Sum(EntrySign, Posted("customer", c)) \in Int
      BY <3>2, <3>4, SumInt
    <3>6. Sum(LessOne, NotesOf(c)) = -Cardinality(NotesOf(c)) /\ Cardinality(NotesOf(c)) \in Nat
      BY <3>1, <3>2, LessOnes
    <3>7. CustomerBalance(c) = Sum(SaleCredit, SoldTo(c)) + Sum(EntrySign, Posted("customer", c)) - Cardinality(NotesOf(c))
      BY CustomerBalanceIs
    <3>8. QED
      BY <3>3, <3>5, <3>6, <3>7
  <2>2. QED
    BY <2>1
<1>7. DOMAIN all = Customers
  OBVIOUS
<1> HIDE DEF customerOf, partyOf, sold1, posted1, noted1, both, all, soldTo, postedFor, notesOf
<1>8. Sum(sold1, Customers) = Sum(SaleCredit, SoldRows)
  BY <1>1, <1>2, <1>4, <1>5, SumByClass
<1>9. Sum(noted1, Customers) = Sum(LessOne, CreditNotes)
  BY <1>1, <1>2, <1>4, <1>5, SumByClass
<1>10. Sum(posted1, Customers) = Sum(EntrySign, PostedTo("customer"))
  BY <1>1, <1>3, <1>4, <1>5, SumByClass
<1>11. Sum(both, Customers) = Sum(sold1, Customers) + Sum(posted1, Customers)
  BY <1>1, <1>6, SumPlus
<1>12. Sum(all, Customers) = Sum(both, Customers) + Sum(noted1, Customers)
  <2>1. \A c \in Customers : both[c] \in Int /\ noted1[c] \in Int /\ all[c] = both[c] + noted1[c]
    BY <1>6
  <2>2. QED
    BY <1>1, <2>1, SumPlus
<1>13. Sum(LessOne, CreditNotes) = -Cardinality(CreditNotes) /\ Cardinality(CreditNotes) \in Nat
  <2>1. CreditNotes \in SUBSET Sales
    BY DEF CreditNotes
  <2>2. QED
    BY <1>1, <2>1, LessOnes
<1>14. Sum(SaleCredit, SoldRows) \in Int /\ Sum(EntrySign, PostedTo("customer")) \in Int
  BY <1>1, <1>2, <1>3, SumInt
<1>15. SumFunction(all) = Sum(all, Customers)
  BY <1>7 DEF SumFunction, Sum
<1>16. SumFunction(all) = Sum(SaleCredit, SoldRows) + Sum(EntrySign, PostedTo("customer")) - Cardinality(CreditNotes)
  BY <1>8, <1>9, <1>10, <1>11, <1>12, <1>13, <1>14, <1>15
<1>17. QED
  BY <1>13, <1>14, <1>16 DEF all

\* What all suppliers are owed.
LEMMA SuppliersOwed ==
    ASSUME BookRows
    PROVE  /\ SumFunction([s \in Suppliers |-> SupplierBalance(s)]) =
                Sum(BillDebt, BoughtBills) + Sum(EntrySign, PostedTo("supplier")) - Sum(ReturnQty, SentBack)
           /\ Sum(BillDebt, BoughtBills) \in Int /\ Sum(EntrySign, PostedTo("supplier")) \in Int /\ Sum(ReturnQty, SentBack) \in Int
<1> DEFINE supplierOf == [b \in Bills |-> BillOf[b].supplier]
           partyOf == [e \in Entries |-> entry[e].party]
           returnedTo == [x \in Returns |-> BillOf[ret[x].bill].supplier]
           less == [x \in Returns |-> -ret[x].qty]
           bought1 == [s \in Suppliers |-> Sum(BillDebt, BoughtFrom(s))]
           posted1 == [s \in Suppliers |-> Sum(EntrySign, Posted("supplier", s))]
           sent1 == [s \in Suppliers |-> Sum(less, SentBackTo(s))]
           both == [s \in Suppliers |-> bought1[s] + posted1[s]]
           all == [s \in Suppliers |-> SupplierBalance(s)]
           boughtFrom == [s \in Suppliers |-> BoughtFrom(s)]
           postedFor == [s \in Suppliers |-> Posted("supplier", s)]
           sentTo == [s \in Suppliers |-> SentBackTo(s)]
<1>1. IsFiniteSet(Suppliers) /\ IsFiniteSet(BoughtBills) /\ IsFiniteSet(SentBack) /\ IsFiniteSet(PostedTo("supplier"))
  BY AllRowsFinite DEF BookRows
<1>2. \A b \in BoughtBills : BillDebt[b] \in Int /\ supplierOf[b] \in Suppliers
  <2>1. ASSUME NEW b \in BoughtBills PROVE BillDebt[b] \in Int /\ supplierOf[b] \in Suppliers
    <3>1. b \in Bills
      BY DEF BoughtBills
    <3>2. Qty(b) \in Nat /\ BillOf[b].paid \in Nat /\ BillOf[b].supplier \in Suppliers
      BY <3>1 DEF BookRows
    <3>3. BillDebt[b] = Qty(b) - BillOf[b].paid /\ supplierOf[b] = BillOf[b].supplier
      BY <3>1 DEF BillDebt
    <3>4. QED
      BY <3>2, <3>3
  <2>2. QED
    BY <2>1
<1>3. \A e \in PostedTo("supplier") : EntrySign[e] \in Int /\ partyOf[e] \in Suppliers
  <2>1. ASSUME NEW e \in PostedTo("supplier") PROVE EntrySign[e] \in Int /\ partyOf[e] \in Suppliers
    <3>1. e \in Entries /\ EntryOf[e].table = "supplier"
      BY DEF PostedTo
    <3>2. entry[e].party \in Suppliers
      BY <3>1 DEF BookRows
    <3>3. QED
      BY <3>1, <3>2, EntrySigned
  <2>2. QED
    BY <2>1
<1>4. \A x \in SentBack : ReturnQty[x] \in Int /\ less[x] = -ReturnQty[x] /\ less[x] \in Int /\ returnedTo[x] \in Suppliers
  <2>1. ASSUME NEW x \in SentBack
        PROVE  ReturnQty[x] \in Int /\ less[x] = -ReturnQty[x] /\ less[x] \in Int /\ returnedTo[x] \in Suppliers
    <3>1. x \in Returns /\ ret[x].status # "none"
      BY DEF SentBack
    <3>2. ret[x].qty \in Nat /\ ret[x].bill \in Bills
      BY <3>1 DEF BookRows
    <3>3. BillOf[ret[x].bill].supplier \in Suppliers
      BY <3>2 DEF BookRows
    <3>4. ReturnQty[x] = ret[x].qty /\ less[x] = -ret[x].qty /\ returnedTo[x] = BillOf[ret[x].bill].supplier
      BY <3>1 DEF ReturnQty
    <3> HIDE DEF less, returnedTo
    <3>5. QED
      BY <3>2, <3>3, <3>4
  <2>2. QED
    BY <2>1
<1>5. /\ \A s \in Suppliers : \A b : b \in boughtFrom[s] <=> b \in BoughtBills /\ supplierOf[b] = s
      /\ \A s \in Suppliers : \A x : x \in sentTo[s] <=> x \in SentBack /\ returnedTo[x] = s
      /\ \A s \in Suppliers : \A e : e \in postedFor[s] <=> e \in PostedTo("supplier") /\ partyOf[e] = s
  BY DEF BoughtFrom, BoughtBills, SentBackTo, SentBack, Posted, PostedTo
<1>6. /\ \A s \in Suppliers : bought1[s] = Sum(BillDebt, boughtFrom[s])
      /\ \A s \in Suppliers : sent1[s] = Sum(less, sentTo[s])
      /\ \A s \in Suppliers : posted1[s] = Sum(EntrySign, postedFor[s])
  OBVIOUS
<1>7. \A s \in Suppliers : bought1[s] \in Int /\ posted1[s] \in Int /\ sent1[s] \in Int
                           /\ both[s] = bought1[s] + posted1[s] /\ all[s] = both[s] + sent1[s]
  <2>1. ASSUME NEW s \in Suppliers
        PROVE  bought1[s] \in Int /\ posted1[s] \in Int /\ sent1[s] \in Int /\ all[s] = (bought1[s] + posted1[s]) + sent1[s]
    <3>1. BoughtFrom(s) \subseteq BoughtBills /\ SentBackTo(s) \subseteq SentBack /\ Posted("supplier", s) \subseteq PostedTo("supplier")
      BY DEF BoughtFrom, BoughtBills, SentBackTo, SentBack, Posted, PostedTo
    <3>2. IsFiniteSet(BoughtFrom(s)) /\ IsFiniteSet(SentBackTo(s)) /\ IsFiniteSet(Posted("supplier", s))
      BY <1>1, <3>1, FS_Subset
    <3>3. bought1[s] = Sum(BillDebt, BoughtFrom(s)) /\ sent1[s] = Sum(less, SentBackTo(s)) /\ posted1[s] = Sum(EntrySign, Posted("supplier", s))
          /\ all[s] = SupplierBalance(s)
      OBVIOUS
    <3> HIDE DEF bought1, posted1, sent1, both, all, less
    <3>4. (\A b \in BoughtFrom(s) : BillDebt[b] \in Int) /\ (\A e \in Posted("supplier", s) : EntrySign[e] \in Int)
      BY <1>2, <1>3, <3>1
    <3>5. Sum(BillDebt, BoughtFrom(s)) \in Int /\ Sum(EntrySign, Posted("supplier", s)) \in Int
      BY <3>2, <3>4, SumInt
    <3>6. \A x \in SentBackTo(s) : ReturnQty[x] \in Int /\ less[x] = -ReturnQty[x]
      BY <1>4, <3>1
    <3>7. Sum(less, SentBackTo(s)) = -Sum(ReturnQty, SentBackTo(s)) /\ Sum(ReturnQty, SentBackTo(s)) \in Int
      BY <3>2, <3>6, SumNegated, SumInt
    <3>8. SupplierBalance(s) = Sum(BillDebt, BoughtFrom(s)) + Sum(EntrySign, Posted("supplier", s)) - Sum(ReturnQty, SentBackTo(s))
      BY SupplierBalanceIs
    <3>9. QED
      BY <3>3, <3>5, <3>7, <3>8
  <2>2. QED
    BY <2>1
<1>8. DOMAIN all = Suppliers
  OBVIOUS
<1> HIDE DEF supplierOf, partyOf, returnedTo, less, bought1, posted1, sent1, both, all, boughtFrom, postedFor, sentTo
<1>9. Sum(bought1, Suppliers) = Sum(BillDebt, BoughtBills)
  BY <1>1, <1>2, <1>5, <1>6, SumByClass
<1>10. Sum(sent1, Suppliers) = Sum(less, SentBack)
  BY <1>1, <1>4, <1>5, <1>6, SumByClass
<1>11. Sum(posted1, Suppliers) = Sum(EntrySign, PostedTo("supplier"))
  BY <1>1, <1>3, <1>5, <1>6, SumByClass
<1>12. Sum(both, Suppliers) = Sum(bought1, Suppliers) + Sum(posted1, Suppliers)
  BY <1>1, <1>7, SumPlus
<1>13. Sum(all, Suppliers) = Sum(both, Suppliers) + Sum(sent1, Suppliers)
  <2>1. \A s \in Suppliers : both[s] \in Int /\ sent1[s] \in Int /\ all[s] = both[s] + sent1[s]
    BY <1>7
  <2>2. QED
    BY <1>1, <2>1, SumPlus
<1>14. Sum(less, SentBack) = -Sum(ReturnQty, SentBack) /\ Sum(ReturnQty, SentBack) \in Int
  BY <1>1, <1>4, SumNegated, SumInt
<1>15. Sum(BillDebt, BoughtBills) \in Int /\ Sum(EntrySign, PostedTo("supplier")) \in Int
  BY <1>1, <1>2, <1>3, SumInt
<1>16. SumFunction(all) = Sum(all, Suppliers)
  BY <1>8 DEF SumFunction, Sum
<1>17. SumFunction(all) = Sum(BillDebt, BoughtBills) + Sum(EntrySign, PostedTo("supplier")) - Sum(ReturnQty, SentBack)
  BY <1>9, <1>10, <1>11, <1>12, <1>13, <1>14, <1>15, <1>16
<1>18. QED
  BY <1>14, <1>15, <1>17 DEF all

\* What is posted to a table is carried over less what was paid.
LEMMA PostedIs ==
    ASSUME BookRows, NEW table
    PROVE  /\ Sum(EntrySign, PostedTo(table)) = Sum(EntryAmount, OpeningsOf(table)) - Sum(EntryAmount, PaidIn(Kinds, table))
           /\ Sum(LessEntry, PaidIn(Kinds, table)) = -Sum(EntryAmount, PaidIn(Kinds, table))
           /\ Sum(EntryAmount, OpeningsOf(table)) \in Int /\ Sum(EntryAmount, PaidIn(Kinds, table)) \in Int
<1> DEFINE O == OpeningsOf(table)
           P == PaidIn(Kinds, table)
<1>1. ASSUME NEW e \in Entries
      PROVE  e \in PostedTo(table) <=> e \in O \/ e \in P
  <2>1. EntryOf[e].type \in {"PAYMENT", "OPENING"} /\ (EntryOf[e].type = "PAYMENT" => EntryOf[e].kind \in Kinds)
    BY DEF BookRows
  <2>2. QED
    BY <2>1 DEF PostedTo, OpeningsOf, PaidIn
<1>2. PostedTo(table) \subseteq Entries /\ O \subseteq Entries /\ P \subseteq Entries
  BY DEF PostedTo, OpeningsOf, PaidIn
<1>3. PostedTo(table) = O \cup P
  BY <1>1, <1>2
<1>4. O \cap P = {}
  BY DEF OpeningsOf, PaidIn
<1>5. IsFiniteSet(O) /\ IsFiniteSet(P)
  BY <1>2, FS_Subset DEF BookRows
<1>6. \A e \in O \cup P : EntrySign[e] \in Int /\ EntryAmount[e] \in Int /\ LessEntry[e] = -EntryAmount[e]
  BY <1>2, EntrySigned
<1>7. (\A e \in O : EntrySign[e] = EntryAmount[e]) /\ \A e \in P : EntrySign[e] = LessEntry[e]
  <2>1. ASSUME NEW e \in O PROVE EntrySign[e] = EntryAmount[e]
    <3>1. EntryOf[e].type = "OPENING" /\ e \in Entries
      BY DEF OpeningsOf, PostedTo
    <3>2. QED
      BY <3>1, EntrySigned
  <2>2. ASSUME NEW e \in P PROVE EntrySign[e] = LessEntry[e]
    <3>1. EntryOf[e].type = "PAYMENT" /\ e \in Entries
      BY DEF PaidIn
    <3>2. QED
      BY <3>1, EntrySigned
  <2>3. QED
    BY <2>1, <2>2
<1> HIDE DEF O, P
<1>8. Sum(EntrySign, O \cup P) = Sum(EntrySign, O) + Sum(EntrySign, P)
  BY <1>4, <1>5, <1>6, SumUnion
<1>9. Sum(EntrySign, O) = Sum(EntryAmount, O)
  BY <1>5, <1>7, SumEqual
<1>10. Sum(EntrySign, P) = Sum(LessEntry, P)
  BY <1>5, <1>7, SumEqual
<1>11. Sum(LessEntry, P) = -Sum(EntryAmount, P)
  BY <1>5, <1>6, SumNegated
<1>12. Sum(EntryAmount, O) \in Int /\ Sum(EntryAmount, P) \in Int
  BY <1>5, <1>6, SumInt
<1>13. Sum(EntrySign, PostedTo(table)) = Sum(EntryAmount, O) - Sum(EntryAmount, P)
  BY <1>3, <1>8, <1>9, <1>10, <1>11, <1>12
<1>14. QED
  BY <1>11, <1>12, <1>13 DEF O, P

\* The drawer of every kind of payment, source by source.
CashNotes == {o \in Sales : sale[o].refund = "CASH"}
Spent == {x \in Expenses : expense[x].status = "live"}
PutIn == {c \in CashEntries : cash[c].status = "live"}
SpentAmount == [x \in Expenses |-> expense[x].amount]

LEMMA DrawerHolds ==
    ASSUME BookRows
    PROVE  /\ SumFunction([m \in CashMoves(Kinds) |-> m.amount]) =
                Sum(SaleCash, SoldRows) - Cardinality(CashNotes)
                + Sum(EntryAmount, PaidIn(Kinds, "customer")) - Sum(SpentAmount, Spent)
                - Sum(EntryAmount, PaidIn(Kinds, "supplier")) - Sum(BillPaid, BoughtBills) + Sum(ByHand, PutIn)
           /\ Sum(SaleCash, SoldRows) \in Int /\ Sum(SpentAmount, Spent) \in Int /\ Sum(ByHand, PutIn) \in Int
           /\ IsFiniteSet(Spent) /\ IsFiniteSet(PutIn) /\ Cardinality(CashNotes) \in Nat
<1>1. SoldFor(Kinds) = SoldRows /\ PutInFor(Kinds) = PutIn
  BY DEF SoldFor, SoldRows, PutInFor, PutIn, Kinds
<1>2. RefundedBy(Kinds) = CashNotes
  BY DEF RefundedBy, CashNotes, Kinds, BookRows
<1>3. SpentBy(Kinds) = Spent
  BY DEF SpentBy, Spent, BookRows
<1>4. IsFiniteSet(Spent) /\ IsFiniteSet(PutIn) /\ IsFiniteSet(CashNotes) /\ IsFiniteSet(SoldRows) /\ IsFiniteSet(BoughtBills)
  <2>1. Spent \subseteq Expenses /\ PutIn \subseteq CashEntries /\ CashNotes \subseteq Sales
    BY DEF Spent, PutIn, CashNotes
  <2>2. IsFiniteSet(Expenses) /\ IsFiniteSet(CashEntries) /\ IsFiniteSet(Sales)
    BY DEF BookRows
  <2>3. IsFiniteSet(Spent) /\ IsFiniteSet(PutIn) /\ IsFiniteSet(CashNotes)
    BY <2>1, <2>2, FS_Subset
  <2>4. QED
    BY <2>3, AllRowsFinite
<1>5. \A o \in SoldRows : SaleCash[o] \in Int
  BY DEF SoldRows, SaleCash, BookRows
<1>6. Sum(LessOne, CashNotes) = -Cardinality(CashNotes) /\ Cardinality(CashNotes) \in Nat
  <2>1. CashNotes \in SUBSET Sales
    BY DEF CashNotes
  <2>2. QED
    BY <1>4, <2>1, LessOnes
<1>7. Sum(LessExpense, Spent) = -Sum(SpentAmount, Spent) /\ Sum(SpentAmount, Spent) \in Int
  <2>1. ASSUME NEW x \in Spent PROVE SpentAmount[x] \in Int /\ LessExpense[x] = -SpentAmount[x]
    <3>1. x \in Expenses
      BY DEF Spent
    <3>2. expense[x].amount \in Nat
      BY <3>1 DEF BookRows
    <3>3. SpentAmount[x] = expense[x].amount /\ LessExpense[x] = -expense[x].amount
      BY <3>1 DEF SpentAmount, LessExpense
    <3>4. QED
      BY <3>2, <3>3
  <2>2. QED
    BY <1>4, <2>1, SumNegated, SumInt
<1>8. Sum(LessPaid, PaidBy(Kinds)) = -Sum(BillPaid, BoughtBills)
  <2>1. PaidBy(Kinds) \subseteq BoughtBills
    BY DEF PaidBy, BoughtBills
  <2>2. ASSUME NEW b \in BoughtBills
        PROVE  BillPaid[b] \in Int /\ LessPaid[b] = -BillPaid[b] /\ (b \notin PaidBy(Kinds) => BillPaid[b] = 0)
    <3>1. b \in Bills
      BY DEF BoughtBills
    <3>2. BillOf[b].paid \in Nat /\ BillOf[b].kind \in Kinds
      BY <3>1 DEF BookRows
    <3>3. BillPaid[b] = BillOf[b].paid /\ LessPaid[b] = -BillOf[b].paid
      BY <3>1 DEF BillPaid, LessPaid
    <3>4. b \in PaidBy(Kinds) <=> BillOf[b].paid > 0
      BY <3>2 DEF PaidBy, BoughtBills
    <3>5. QED
      BY <3>2, <3>3, <3>4
  <2>3. Sum(BillPaid, BoughtBills) = Sum(BillPaid, PaidBy(Kinds))
    BY <1>4, <2>1, <2>2, SumOfRest
  <2>4. IsFiniteSet(PaidBy(Kinds)) /\ \A b \in PaidBy(Kinds) : BillPaid[b] \in Int /\ LessPaid[b] = -BillPaid[b]
    BY <1>4, <2>1, <2>2, FS_Subset
  <2>5. Sum(LessPaid, PaidBy(Kinds)) = -Sum(BillPaid, PaidBy(Kinds))
    BY <2>4, SumNegated
  <2>6. QED
    BY <2>3, <2>5
<1>9. \A c \in PutIn : ByHand[c] \in Int
  <2>1. ASSUME NEW c \in PutIn PROVE ByHand[c] \in Int
    <3>1. c \in CashEntries
      BY DEF PutIn
    <3>2. CashOf[c].amount \in Nat
      BY <3>1 DEF BookRows
    <3>3. QED
      BY <3>1, <3>2 DEF ByHand
  <2>2. QED
    BY <2>1
<1>10. Sum(SaleCash, SoldRows) \in Int /\ Sum(ByHand, PutIn) \in Int
  BY <1>4, <1>5, <1>9, SumInt
<1>11. SumFunction([m \in CashMoves(Kinds) |-> m.amount]) = InAll(CashMoves(Kinds))
  BY Zenon DEF InAll, AmountsOf, SumFunction, Sum
<1>12. InAll(CashMoves(Kinds)) =
         Sum(SaleCash, SoldFor(Kinds)) + Sum(LessOne, RefundedBy(Kinds))
         + Sum(EntryAmount, PaidIn(Kinds, "customer")) + Sum(LessExpense, SpentBy(Kinds))
         + Sum(LessEntry, PaidIn(Kinds, "supplier")) + Sum(LessPaid, PaidBy(Kinds)) + Sum(ByHand, PutInFor(Kinds))
  BY MovesPost
<1>13. /\ Sum(LessEntry, PaidIn(Kinds, "supplier")) = -Sum(EntryAmount, PaidIn(Kinds, "supplier"))
       /\ Sum(EntryAmount, PaidIn(Kinds, "supplier")) \in Int /\ Sum(EntryAmount, PaidIn(Kinds, "customer")) \in Int
  BY PostedIs
<1>14. Sum(BillPaid, BoughtBills) \in Int
  BY DebtIsBoughtLessPaid DEF BoughtBills
<1>15. SumFunction([m \in CashMoves(Kinds) |-> m.amount]) =
         Sum(SaleCash, SoldRows) + (-Cardinality(CashNotes))
         + Sum(EntryAmount, PaidIn(Kinds, "customer")) + (-Sum(SpentAmount, Spent))
         + (-Sum(EntryAmount, PaidIn(Kinds, "supplier"))) + (-Sum(BillPaid, BoughtBills)) + Sum(ByHand, PutIn)
  BY <1>1, <1>2, <1>3, <1>6, <1>7, <1>8, <1>11, <1>12, <1>13, Zenon
<1>16. SumFunction([m \in CashMoves(Kinds) |-> m.amount]) =
         Sum(SaleCash, SoldRows) - Cardinality(CashNotes)
         + Sum(EntryAmount, PaidIn(Kinds, "customer")) - Sum(SpentAmount, Spent)
         - Sum(EntryAmount, PaidIn(Kinds, "supplier")) - Sum(BillPaid, BoughtBills) + Sum(ByHand, PutIn)
  <2> DEFINE total == SumFunction([m \in CashMoves(Kinds) |-> m.amount])
  <2>1. total = Sum(SaleCash, SoldRows) + (-Cardinality(CashNotes))
         + Sum(EntryAmount, PaidIn(Kinds, "customer")) + (-Sum(SpentAmount, Spent))
         + (-Sum(EntryAmount, PaidIn(Kinds, "supplier"))) + (-Sum(BillPaid, BoughtBills)) + Sum(ByHand, PutIn)
    BY <1>15
  <2> HIDE DEF total
  <2>2. total = Sum(SaleCash, SoldRows) - Cardinality(CashNotes)
         + Sum(EntryAmount, PaidIn(Kinds, "customer")) - Sum(SpentAmount, Spent)
         - Sum(EntryAmount, PaidIn(Kinds, "supplier")) - Sum(BillPaid, BoughtBills) + Sum(ByHand, PutIn)
    BY <1>6, <1>7, <1>10, <1>13, <1>14, <2>1
  <2>3. QED
    BY <2>2 DEF total
<1>17. QED
  BY <1>4, <1>6, <1>7, <1>10, <1>16

\* The sums of the double entry, each over a set of rows.
SoldSum == SumFunction([o \in SoldRows |-> SaleOf[o].credit + SaleOf[o].cash])
LEMMA SoldIs ==
    ASSUME BookRows
    PROVE  SoldSum = Sum(SaleCredit, SoldRows) + Sum(SaleCash, SoldRows)
<1> DEFINE g == [o \in SoldRows |-> SaleOf[o].credit + SaleOf[o].cash]
<1>1. IsFiniteSet(SoldRows) /\ SoldRows \subseteq Sales
  BY AllRowsFinite DEF SoldRows
<1>2. \A o \in SoldRows : SaleCredit[o] \in Int /\ SaleCash[o] \in Int /\ g[o] = SaleCredit[o] + SaleCash[o]
  BY <1>1 DEF BookRows, SaleCredit, SaleCash
<1>3. DOMAIN g = SoldRows
  OBVIOUS
<1> HIDE DEF g
<1>4. Sum(g, SoldRows) = Sum(SaleCredit, SoldRows) + Sum(SaleCash, SoldRows)
  BY <1>1, <1>2, SumPlus
<1>5. SumFunction(g) = Sum(g, SoldRows)
  BY <1>3 DEF SumFunction, Sum
<1>6. QED
  BY <1>4, <1>5, Zenon DEF g, SoldSum

CarriedSum ==
    SumFunction([e \in {e \in Entries : entry[e].status = "live" /\ EntryOf[e].type = "OPENING"} |->
                    IF EntryOf[e].table = "customer" THEN EntryOf[e].amount ELSE -EntryOf[e].amount])
LEMMA CarriedIs ==
    ASSUME BookRows
    PROVE  CarriedSum = Sum(EntryAmount, OpeningsOf("customer")) - Sum(EntryAmount, OpeningsOf("supplier"))
<1> DEFINE O == {e \in Entries : entry[e].status = "live" /\ EntryOf[e].type = "OPENING"}
           C == OpeningsOf("customer")
           S == OpeningsOf("supplier")
           g == [e \in O |-> IF EntryOf[e].table = "customer" THEN EntryOf[e].amount ELSE -EntryOf[e].amount]
<1>1. O \subseteq Entries /\ C \subseteq Entries /\ S \subseteq Entries
  BY DEF OpeningsOf, PostedTo
<1>2. ASSUME NEW e \in Entries PROVE e \in O <=> e \in C \/ e \in S
  <2>1. EntryOf[e].table \in {"customer", "supplier"}
    BY DEF BookRows
  <2>2. QED
    BY <2>1 DEF OpeningsOf, PostedTo
<1>3. O = C \cup S
  BY <1>1, <1>2
<1>4. C \cap S = {} /\ IsFiniteSet(C) /\ IsFiniteSet(S)
  <2>1. C \cap S = {}
    BY DEF OpeningsOf, PostedTo
  <2>2. QED
    BY <2>1, AllRowsFinite
<1>5. (\A e \in C : EntryOf[e].table = "customer") /\ \A e \in S : EntryOf[e].table = "supplier"
  BY DEF OpeningsOf, PostedTo
<1>6. ASSUME NEW e \in O
      PROVE  g[e] = (IF EntryOf[e].table = "customer" THEN EntryAmount[e] ELSE LessEntry[e])
             /\ EntryAmount[e] \in Int /\ LessEntry[e] = -EntryAmount[e]
  <2>1. e \in Entries /\ EntryAmount[e] = EntryOf[e].amount /\ LessEntry[e] = -EntryOf[e].amount
    BY <1>1 DEF EntryAmount, LessEntry
  <2>2. g[e] = IF EntryOf[e].table = "customer" THEN EntryOf[e].amount ELSE -EntryOf[e].amount
    OBVIOUS
  <2> HIDE DEF g
  <2>3. QED
    BY <2>1, <2>2, EntrySigned
<1>7. DOMAIN g = O
  OBVIOUS
<1> HIDE DEF g, O, C, S
<1>8. SumFunction(g) = Sum(g, O)
  BY <1>7 DEF SumFunction, Sum
<1>9. \A e \in C \cup S : g[e] \in Int
  BY <1>3, <1>6
<1>10. Sum(g, C \cup S) = Sum(g, C) + Sum(g, S)
  BY <1>4, <1>9, SumUnion
<1>11. /\ \A e \in C : g[e] = EntryAmount[e] /\ EntryAmount[e] \in Int
       /\ \A e \in S : g[e] = -EntryAmount[e] /\ EntryAmount[e] \in Int
  BY <1>3, <1>5, <1>6
<1>12. Sum(g, C) = Sum(EntryAmount, C)
  <2>1. \A e \in C : g[e] = EntryAmount[e]
    BY <1>11
  <2>2. QED
    BY <1>4, <2>1, SumEqual
<1>13. Sum(g, S) = -Sum(EntryAmount, S)
  BY <1>4, <1>11, SumNegated
<1>14. Sum(EntryAmount, C) \in Int /\ Sum(EntryAmount, S) \in Int
  BY <1>4, <1>11, SumInt
<1>15. SumFunction(g) = Sum(EntryAmount, C) - Sum(EntryAmount, S)
  BY <1>3, <1>8, <1>10, <1>12, <1>13, <1>14
<1>16. QED
  BY <1>15, Zenon DEF g, O, C, S, CarriedSum

LEMMA NotesIn ==
    ASSUME BookRows
    PROVE  Cardinality({o \in Sales : sale[o].refund # "none"}) = Cardinality(CashNotes) + Cardinality(CreditNotes)
<1> DEFINE all == {o \in Sales : sale[o].refund # "none"}
<1>1. all \in SUBSET Sales /\ CashNotes \in SUBSET Sales /\ CreditNotes \in SUBSET Sales
  BY DEF CashNotes, CreditNotes
<1>2. ASSUME NEW o \in Sales PROVE o \in all <=> o \in CashNotes \/ o \in CreditNotes
  BY DEF BookRows, CashNotes, CreditNotes
<1>3. all = CashNotes \cup CreditNotes
  BY <1>1, <1>2
<1>4. CashNotes \cap CreditNotes = {}
  BY DEF CashNotes, CreditNotes
<1> HIDE DEF all
<1>5. IsFiniteSet(all) /\ IsFiniteSet(CashNotes) /\ IsFiniteSet(CreditNotes)
  BY <1>1, FS_Subset DEF BookRows
<1>6. \A o \in CashNotes \cup CreditNotes : LessOne[o] \in Int
  BY <1>1 DEF LessOne
<1>7. Sum(LessOne, CashNotes \cup CreditNotes) = Sum(LessOne, CashNotes) + Sum(LessOne, CreditNotes)
  BY <1>4, <1>5, <1>6, SumUnion
<1>8. /\ Sum(LessOne, all) = -Cardinality(all) /\ Cardinality(all) \in Nat
      /\ Sum(LessOne, CashNotes) = -Cardinality(CashNotes) /\ Cardinality(CashNotes) \in Nat
      /\ Sum(LessOne, CreditNotes) = -Cardinality(CreditNotes) /\ Cardinality(CreditNotes) \in Nat
  BY <1>1, <1>5, LessOnes
<1>9. Cardinality(all) = Cardinality(CashNotes) + Cardinality(CreditNotes)
  BY <1>3, <1>7, <1>8
<1>10. QED
  BY <1>9 DEF all

LEMMA OtherSums ==
    ASSUME BookRows
    PROVE  /\ SumFunction([x \in Spent |-> expense[x].amount]) = Sum(SpentAmount, Spent)
           /\ SumFunction([b \in BoughtBills |-> Qty(b)]) = Sum(BillQty, BoughtBills)
           /\ SumFunction([x \in SentBack |-> ret[x].qty]) = Sum(ReturnQty, SentBack)
           /\ SumFunction([c \in PutIn |-> IF CashOf[c].type = "IN" THEN CashOf[c].amount ELSE -CashOf[c].amount]) = Sum(ByHand, PutIn)
<1>1. IsFiniteSet(Spent) /\ IsFiniteSet(PutIn) /\ IsFiniteSet(BoughtBills) /\ IsFiniteSet(SentBack)
  BY DrawerHolds, AllRowsFinite
<1>2. SumFunction([x \in Spent |-> expense[x].amount]) = Sum(SpentAmount, Spent)
  <2> DEFINE g == [x \in Spent |-> expense[x].amount]
  <2>1. DOMAIN g = Spent /\ \A x \in Spent : g[x] = SpentAmount[x]
    BY DEF SpentAmount, Spent
  <2> HIDE DEF g
  <2>2. SumFunction(g) = Sum(SpentAmount, Spent)
    BY <1>1, <2>1, TotalIsSum
  <2>3. QED
    BY <2>2 DEF g
<1>3. SumFunction([b \in BoughtBills |-> Qty(b)]) = Sum(BillQty, BoughtBills)
  <2> DEFINE g == [b \in BoughtBills |-> Qty(b)]
  <2>1. DOMAIN g = BoughtBills /\ \A b \in BoughtBills : g[b] = BillQty[b]
    BY DEF BillQty, BoughtBills
  <2> HIDE DEF g
  <2>2. SumFunction(g) = Sum(BillQty, BoughtBills)
    BY <1>1, <2>1, TotalIsSum
  <2>3. QED
    BY <2>2 DEF g
<1>4. SumFunction([x \in SentBack |-> ret[x].qty]) = Sum(ReturnQty, SentBack)
  <2> DEFINE g == [x \in SentBack |-> ret[x].qty]
  <2>1. DOMAIN g = SentBack /\ \A x \in SentBack : g[x] = ReturnQty[x]
    BY DEF ReturnQty, SentBack
  <2> HIDE DEF g
  <2>2. SumFunction(g) = Sum(ReturnQty, SentBack)
    BY <1>1, <2>1, TotalIsSum
  <2>3. QED
    BY <2>2 DEF g
<1>5. SumFunction([c \in PutIn |-> IF CashOf[c].type = "IN" THEN CashOf[c].amount ELSE -CashOf[c].amount]) = Sum(ByHand, PutIn)
  <2> DEFINE g == [c \in PutIn |-> IF CashOf[c].type = "IN" THEN CashOf[c].amount ELSE -CashOf[c].amount]
  <2>1. DOMAIN g = PutIn /\ \A c \in PutIn : g[c] = ByHand[c]
    BY DEF ByHand, PutIn
  <2> HIDE DEF g
  <2>2. SumFunction(g) = Sum(ByHand, PutIn)
    BY <1>1, <2>1, TotalIsSum
  <2>3. QED
    BY <2>2 DEF g
<1>6. QED
  BY <1>2, <1>3, <1>4, <1>5

\* The double entry: what is in hand and owed is what was sold, bought and put in.
LEMMA EntriesDouble ==
    ASSUME BookRows
    PROVE  DoubleEntry
<1> DEFINE inHand == SumFunction([m \in CashMoves(Kinds) |-> m.amount])
           owed == SumFunction([c \in Customers |-> CustomerBalance(c)])
           owing == SumFunction([s \in Suppliers |-> SupplierBalance(s)])
           notes == Cardinality({o \in Sales : sale[o].refund # "none"})
           spent == SumFunction([x \in Spent |-> expense[x].amount])
           bought == SumFunction([b \in BoughtBills |-> Qty(b)])
           sentBack == SumFunction([x \in SentBack |-> ret[x].qty])
           putIn == SumFunction([c \in PutIn |-> IF CashOf[c].type = "IN" THEN CashOf[c].amount ELSE -CashOf[c].amount])
           sc == Sum(SaleCredit, SoldRows)
           sh == Sum(SaleCash, SoldRows)
           oc == Sum(EntryAmount, OpeningsOf("customer"))
           os == Sum(EntryAmount, OpeningsOf("supplier"))
           pc == Sum(EntryAmount, PaidIn(Kinds, "customer"))
           ps == Sum(EntryAmount, PaidIn(Kinds, "supplier"))
           x == Sum(SpentAmount, Spent)
           bq == Sum(BillQty, BoughtBills)
           bp == Sum(BillPaid, BoughtBills)
           rq == Sum(ReturnQty, SentBack)
           mh == Sum(ByHand, PutIn)
           cn == Cardinality(CashNotes)
           un == Cardinality(CreditNotes)
<1>1. /\ sc \in Int /\ sh \in Int /\ oc \in Int /\ os \in Int /\ pc \in Int /\ ps \in Int /\ x \in Int /\ bq \in Int
      /\ bp \in Int /\ rq \in Int /\ mh \in Int /\ cn \in Int /\ un \in Int
  <2>1. bq \in Int /\ bp \in Int
    BY DebtIsBoughtLessPaid DEF BoughtBills
  <2>2. oc \in Int /\ os \in Int /\ pc \in Int /\ ps \in Int
    BY PostedIs
  <2>3. sc \in Int /\ un \in Nat /\ rq \in Int
    BY CustomersOwe, SuppliersOwed
  <2>4. sh \in Int /\ x \in Int /\ mh \in Int /\ cn \in Nat
    BY DrawerHolds
  <2> HIDE DEF sc, sh, oc, os, pc, ps, x, bq, bp, rq, mh, cn, un
  <2>5. QED
    BY <2>1, <2>2, <2>3, <2>4
<1>2. inHand = sh - cn + pc - x - ps - bp + mh
  BY DrawerHolds
<1>3. owed = sc + (oc - pc) - un
  BY CustomersOwe, PostedIs
<1>4. owing = (bq - bp) + (os - ps) - rq
  <2>1. Sum(BillDebt, BoughtBills) = bq - bp
    BY DebtIsBoughtLessPaid DEF BoughtBills
  <2>2. QED
    BY <2>1, SuppliersOwed, PostedIs
<1>5. SoldSum = sc + sh /\ CarriedSum = oc - os /\ notes = cn + un
  BY SoldIs, CarriedIs, NotesIn
<1>6. spent = x /\ bought = bq /\ sentBack = rq /\ putIn = mh
  BY OtherSums
<1>7. DoubleEntry <=> inHand + (owed - owing) = SoldSum - notes + CarriedSum - spent - bought + sentBack + putIn
  BY Zenon DEF DoubleEntry, Amount, UnitsOf, SoldSum, CarriedSum, SoldRows, Spent, BoughtBills, SentBack, PutIn
<1> HIDE DEF inHand, owed, owing, notes, spent, bought, sentBack, putIn, sc, sh, oc, os, pc, ps, x, bq, bp, rq, mh, cn, un
<1>8. inHand + (owed - owing) = SoldSum - notes + CarriedSum - spent - bought + sentBack + putIn
  BY <1>1, <1>2, <1>3, <1>4, <1>5, <1>6
<1>9. QED
  BY <1>7, <1>8

\* The lists, the statements, the aging reports and the cash book tell one
\* story, however many customers, suppliers, bills and entries there are, in
\* whatever order they come, and whoever is merged (services/books.ts).
THEOREM BooksBalances == BooksSpec => []BooksBalance
<1>1. PurchaseInv /\ BookInv => BooksBalance
  <2> SUFFICES ASSUME PurchaseInv, BookInv PROVE BooksBalance
    OBVIOUS
  <2>1. BookRows
    BY RowsOfBooks
  <2>2. day \in Nat /\ MaxDay \in Nat /\ opening.day \in Nat /\ opening.amount \in Nat
    BY ConstantsHold DEF PurchaseInv, BooksTyped, BookInv, RecordTypes
  <2>3. \A c \in Customers : AgreesWith(CustomerStatement(c), CustomerBalance(c))
    BY <2>1, <2>2, CustomersAgree
  <2>4. \A s \in Suppliers : AgreesWith(SupplierStatement(s), SupplierBalance(s))
    BY <2>1, <2>2, SuppliersAgree
  <2>5. DrawerCloses
    BY <2>1, <2>2, DrawersClose
  <2>6. DoubleEntry
    BY <2>1, EntriesDouble
  <2>7. KeptCustomersStay /\ NothingLeftBehind
    <3>1. KeptCustomersStay
      BY DEF BookInv, DuplicatesFit, FoundFor, KeptCustomersStay
    <3>2. NothingLeftBehind
      BY DEF BookInv, RowsFit, SaleFits, EntryFits, RowFits, NothingLeftBehind, LeftBehind
    <3>3. QED
      BY <3>1, <3>2
  <2>8. QED
    BY <2>3, <2>4, <2>5, <2>6, <2>7 DEF BooksBalance
<1>2. QED
  BY <1>1, BooksKeepInv, PTL

=============================================================================
