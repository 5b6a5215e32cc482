--------------------------- MODULE BillingProofs ---------------------------
(***************************************************************************)
(* Theorems about Billing for every number of bills, counters, products    *)
(* and requests.                                                           *)
(***************************************************************************)
EXTENDS Billing, Calculations, BatchesProofs

\* A return in hand, together with what its handler read as returned before,
\* stays within what the bill sold.
RequestsFit ==
    \A r \in Requests : req[r].op = "return" =>
        \A p \in Products :
            req[r].seen[p] + req[r].qty[p] <= bill[req[r].order].qty[p]

IInv ==
    /\ TypeOK
    /\ RequestsFit
    /\ ReturnedWithinSold
    /\ InvoiceSeries
    /\ RefundsMatchReturns

----------------------------------------------------------------------------
\* The fields a request has, by its operation.
LEMMA RequestFields ==
    ASSUME TypeOK, NEW r \in Requests
    PROVE  /\ req[r] # Idle => req[r].order \in Orders
           /\ req[r].op = "return" =>
                /\ req[r] # Idle
                /\ req[r].qty \in Quantities
                /\ req[r].seen \in Quantities
           /\ req[r].op \in {"create", "sync", "cancel"} => req[r] # Idle
  BY DEF TypeOK, Request, Idle

\* A return that is not refused as changed keeps every item within what was
\* sold, and items that are not in it keep what had been returned of them.
LEMMA ReturnFits ==
    ASSUME TypeOK, RequestsFit, ReturnedWithinSold,
           NEW r \in Requests, req[r].op = "return", ~Changed(r)
    PROVE  /\ ItemsAfter(r) \in Quantities
           /\ \A p \in Products : ItemsAfter(r)[p] <= bill[req[r].order].qty[p]
           /\ Plus(req[r].seen, req[r].qty) \in Quantities
<1> DEFINE o == req[r].order
           back == returnedQty[o]
           sold == bill[o].qty
<1>1. /\ o \in Orders
      /\ req[r].qty \in Quantities
      /\ req[r].seen \in Quantities
  BY RequestFields
<1>2. sold \in Quantities /\ back \in Quantities
  BY <1>1 DEF TypeOK, BillBody
<1>3. \A p \in Products :
          /\ req[r].seen[p] + req[r].qty[p] <= sold[p]
          /\ back[p] <= sold[p]
          /\ req[r].qty[p] > 0 => back[p] = req[r].seen[p]
  BY <1>1 DEF RequestsFit, ReturnedWithinSold, Changed
<1>4. ASSUME NEW p \in Products
      PROVE  /\ back[p] + req[r].qty[p] \in 0..MaxQty
             /\ back[p] + req[r].qty[p] <= sold[p]
             /\ req[r].seen[p] + req[r].qty[p] \in 0..MaxQty
  <2>1. /\ req[r].qty[p] \in 0..MaxQty /\ req[r].seen[p] \in 0..MaxQty
        /\ back[p] \in 0..MaxQty /\ sold[p] \in 0..MaxQty /\ MaxQty \in Nat
    BY <1>1, <1>2, ConstantTypes DEF Quantities
  <2> HIDE DEF o, back, sold
  <2>2. QED
    BY <1>3, <2>1
<1>5. ItemsAfter(r) = [p \in Products |-> back[p] + req[r].qty[p]]
  BY DEF ItemsAfter, Plus
<1>6. QED
  BY <1>4, <1>5 DEF Quantities, Plus

\* What is paid back by such a return is the change in what all the returned
\* items are worth.
LEMMA PayoutIsChange ==
    ASSUME TypeOK, RequestsFit, ReturnedWithinSold,
           NEW r \in Requests, req[r].op = "return", ~Changed(r)
    PROVE  LET o == req[r].order
           IN  Payout(bill[o].qty, req[r].seen, req[r].qty)
                 = Worth[bill[o].qty][ItemsAfter(r)] - Worth[bill[o].qty][returnedQty[o]]
<1> DEFINE o == req[r].order
           sold == bill[o].qty
           a == req[r].seen
           b == returnedQty[o]
           c == Plus(a, req[r].qty)
           d == ItemsAfter(r)
<1>1. /\ o \in Orders /\ sold \in Quantities
      /\ req[r].qty \in Quantities /\ a \in Quantities /\ b \in Quantities
  BY RequestFields DEF TypeOK, BillBody
<1>2. c \in Quantities /\ d \in Quantities
  BY ReturnFits
<1>3. \A p \in Products : c[p] = a[p] + req[r].qty[p] /\ d[p] = b[p] + req[r].qty[p]
  BY DEF Plus, ItemsAfter
<1>4. \A p \in Products : req[r].qty[p] > 0 => b[p] = a[p]
  BY DEF Changed
<1>5. \A p \in Products :
          a[p] \in Int /\ b[p] \in Int /\ req[r].qty[p] \in Int /\ req[r].qty[p] >= 0
  BY <1>1, ConstantTypes DEF Quantities
<1>6. /\ \A p \in Products : c[p] - a[p] = d[p] - b[p]
      /\ \A p \in Products : c[p] # a[p] => a[p] = b[p]
  <2> HIDE DEF a, b, c, d
  <2>1. QED
    BY <1>3, <1>4, <1>5
<1>7. Worth[sold][c] - Worth[sold][a] = Worth[sold][d] - Worth[sold][b]
  <2> HIDE DEF a, b, c, d, sold
  <2>1. QED
    BY <1>1, <1>2, <1>6, WorthByLine
<1>8. QED
  BY <1>7 DEF Payout

----------------------------------------------------------------------------
LEMMA InitIInv == Init => IInv
<1> SUFFICES ASSUME Init PROVE IInv
  OBVIOUS
<1>1. Nothing \in Quantities
  BY ConstantTypes DEF Nothing, Quantities
<1>2. TypeOK
  BY <1>1, ConstantTypes DEF Init, TypeOK, Request, Idle
<1>3. bill \in [Orders -> BillBody]
  BY <1>2 DEF TypeOK
<1>4. RequestsFit
  BY DEF Init, RequestsFit, Idle
<1>5. ReturnedWithinSold
  <2>1. \A o \in Orders, p \in Products : bill[o].qty[p] \in 0..MaxQty
    BY <1>3 DEF BillBody, Quantities
  <2>2. QED
    BY <2>1 DEF Init, ReturnedWithinSold, Nothing
<1>6. InvoiceSeries
  BY DEF Init, InvoiceSeries, Saved
<1>7. RefundsMatchReturns
  <2>1. \A o \in Orders : bill[o].qty \in Quantities
    BY <1>3 DEF BillBody
  <2>2. QED
    BY <2>1, WorthByLine DEF Init, RefundsMatchReturns, Nothing
<1>8. QED
  BY <1>2, <1>4, <1>5, <1>6, <1>7 DEF IInv

\* A step that changes nothing but a request, which it closes or replaces by
\* one that is not a return, keeps the invariant.
LEMMA OnlyRequests ==
    ASSUME IInv, NEW r \in Requests, NEW request \in Request,
           req' = [req EXCEPT ![r] = request],
           request.op = "return" =>
               \A p \in Products :
                   request.seen[p] + request.qty[p] <= bill[request.order].qty[p],
           UNCHANGED <<bill, orderVars, counterVars, creditNotes, stock>>
    PROVE  IInv'
<1> USE DEF orderVars, counterVars
<1>1. TypeOK'
  BY DEF IInv, TypeOK
<1>2. RequestsFit'
  BY DEF IInv, TypeOK, RequestsFit
<1>3. ReturnedWithinSold'
  BY DEF IInv, ReturnedWithinSold
<1>4. InvoiceSeries'
  BY DEF IInv, InvoiceSeries, Saved
<1>5. RefundsMatchReturns'
  BY DEF IInv, RefundsMatchReturns
<1>6. QED
  BY <1>1, <1>2, <1>3, <1>4, <1>5 DEF IInv

LEMMA CloseKeeps ==
    ASSUME IInv, NEW r \in Requests, CloseUnchanged(r)
    PROVE  IInv'
<1>1. Idle \in Request /\ Idle.op # "return"
  BY DEF Request, Idle
<1>2. QED
  BY <1>1, OnlyRequests DEF CloseUnchanged, Close

LEMMA BeginKeeps ==
    ASSUME IInv, NEW r \in Requests, NEW o \in Orders,
           BeginCreate(r, o) \/ BeginSync(r, o) \/ BeginCancel(r, o)
    PROVE  IInv'
<1>1. PICK op \in {"create", "sync", "cancel"} :
          /\ req' = [req EXCEPT ![r] = [op |-> op, order |-> o]]
          /\ UNCHANGED <<bill, orderVars, counterVars, creditNotes, stock>>
  BY DEF BeginCreate, BeginSync, BeginCancel, Take
<1>2. [op |-> op, order |-> o] \in Request /\ op # "return"
  BY DEF Request
<1>3. QED
  BY <1>1, <1>2, OnlyRequests

LEMMA BeginReturnKeeps ==
    ASSUME IInv, NEW r \in Requests, NEW o \in Orders, NEW qty \in Quantities,
           BeginReturn(r, o, qty)
    PROVE  IInv'
<1> DEFINE request == [op |-> "return", order |-> o, qty |-> qty, seen |-> returnedQty[o]]
<1>1. returnedQty[o] \in Quantities /\ bill[o].qty \in Quantities
  BY DEF IInv, TypeOK, BillBody
<1>2. request \in Request
  BY <1>1 DEF Request
<1>3. \A p \in Products : request.seen[p] + request.qty[p] <= bill[o].qty[p]
  <2>1. \A p \in Products : qty[p] <= bill[o].qty[p] - returnedQty[o][p]
    BY DEF BeginReturn, Returnable
  <2>2. \A p \in Products :
            qty[p] \in Int /\ bill[o].qty[p] \in Int /\ returnedQty[o][p] \in Int
    BY <1>1, ConstantTypes DEF Quantities
  <2>3. QED
    BY <2>1, <2>2
<1>4. /\ req' = [req EXCEPT ![r] = request]
      /\ UNCHANGED <<bill, orderVars, counterVars, creditNotes, stock>>
  BY DEF BeginReturn, Take
<1>5. QED
  BY <1>2, <1>3, <1>4, OnlyRequests

\* The counter is ahead of the new bill's number and of where it was.
LEMMA NextAfterAhead ==
    ASSUME TypeOK, NEW o \in Orders
    PROVE  /\ bill[o].counter \in Counters
           /\ NumberFor(o) \in Nat /\ NextAfter(o) \in Nat
           /\ NumberFor(o) < NextAfter(o)
           /\ nextInvoiceNumber[bill[o].counter] <= NextAfter(o)
<1>1. /\ bill[o].counter \in Counters /\ bill[o].seq \in Nat
      /\ nextInvoiceNumber[bill[o].counter] \in Nat
  BY DEF TypeOK, BillBody
<1>2. NumberFor(o) \in Nat
  BY <1>1 DEF NumberFor
<1>3. QED
  BY <1>1, <1>2 DEF NextAfter

LEMMA CommitCreateKeeps ==
    ASSUME IInv, NEW r \in Requests, CommitCreate(r)
    PROVE  IInv'
<1> DEFINE o == req[r].order
           c == bill[o].counter
<1>0. TypeOK /\ o \in Orders
  BY RequestFields DEF IInv, CommitCreate
<1>1. /\ status[o] = "none" /\ ~NumberTaken(o)
      /\ status' = [status EXCEPT ![o] = "COMPLETED"]
      /\ invoiceNumber' = [invoiceNumber EXCEPT ![o] = NumberFor(o)]
      /\ nextInvoiceNumber' = [nextInvoiceNumber EXCEPT ![c] = NextAfter(o)]
      /\ stock' = [p \in Products |-> stock[p] - bill[o].qty[p]]
      /\ req' = [req EXCEPT ![r] = Idle]
      /\ UNCHANGED <<bill, returnedQty, returnedTotal, nextCreditNoteNumber, creditNotes>>
  BY DEF CommitCreate, TakeStock, Close
<1>2. /\ c \in Counters /\ NumberFor(o) \in Nat /\ NextAfter(o) \in Nat
      /\ NumberFor(o) < NextAfter(o) /\ nextInvoiceNumber[c] <= NextAfter(o)
  BY <1>0, NextAfterAhead
<1>3. TypeOK'
  <2>1. \A p \in Products : bill[o].qty[p] \in Int
    BY <1>0, ConstantTypes DEF TypeOK, BillBody, Quantities
  <2>2. stock' \in [Products -> Int]
    BY <1>0, <1>1, <2>1 DEF TypeOK
  <2>3. status' \in [Orders -> {"none", "COMPLETED", "CANCELLED"}]
    BY <1>0, <1>1 DEF TypeOK
  <2>4. invoiceNumber' \in [Orders -> Nat] /\ nextInvoiceNumber' \in [Counters -> Nat]
    BY <1>0, <1>1, <1>2 DEF TypeOK
  <2>5. req' \in [Requests -> Request]
    BY <1>0, <1>1 DEF TypeOK, Request
  <2>6. QED
    BY <1>0, <1>1, <2>2, <2>3, <2>4, <2>5 DEF TypeOK
<1>4. RequestsFit'
  BY <1>0, <1>1 DEF IInv, RequestsFit, TypeOK, Idle
<1>5. ReturnedWithinSold' /\ RefundsMatchReturns'
  BY <1>1 DEF IInv, ReturnedWithinSold, RefundsMatchReturns
<1>6. InvoiceSeries'
  <2> SUFFICES ASSUME NEW a \in Saved'
               PROVE  /\ invoiceNumber'[a] < nextInvoiceNumber'[bill[a].counter]
                      /\ \A b \in Saved' :
                            /\ bill[b].counter = bill[a].counter
                            /\ invoiceNumber'[b] = invoiceNumber'[a]
                            => b = a
    BY <1>1 DEF InvoiceSeries
  <2>1. Saved' = Saved \cup {o}
    BY <1>0, <1>1 DEF Saved, TypeOK
  <2>2. /\ invoiceNumber'[o] = NumberFor(o) /\ nextInvoiceNumber'[c] = NextAfter(o)
        /\ \A b \in Saved : b # o /\ invoiceNumber'[b] = invoiceNumber[b]
        /\ \A b \in Saved : invoiceNumber[b] \in Nat
    BY <1>0, <1>1, <1>2 DEF Saved, TypeOK
  <2>3. \A b \in Saved : bill[b].counter = c => invoiceNumber[b] # NumberFor(o)
    BY <1>1 DEF NumberTaken
  <2>4. ASSUME NEW b \in Saved
        PROVE  invoiceNumber[b] < nextInvoiceNumber'[bill[b].counter]
    <3>1. /\ invoiceNumber[b] < nextInvoiceNumber[bill[b].counter]
          /\ bill[b].counter \in Counters
          /\ nextInvoiceNumber[bill[b].counter] \in Nat
      BY <1>0 DEF IInv, InvoiceSeries, TypeOK, BillBody, Saved
    <3>2. CASE bill[b].counter = c
      BY <1>2, <2>2, <3>1, <3>2
    <3>3. CASE bill[b].counter # c
      BY <1>0, <1>1, <3>1, <3>3 DEF TypeOK
    <3>4. QED
      BY <3>2, <3>3
  <2>5. invoiceNumber'[a] < nextInvoiceNumber'[bill[a].counter]
    BY <1>2, <2>1, <2>2, <2>4
  <2>6. ASSUME NEW b \in Saved', bill[b].counter = bill[a].counter,
               invoiceNumber'[b] = invoiceNumber'[a]
        PROVE  b = a
    BY <2>1, <2>2, <2>3, <2>6 DEF IInv, InvoiceSeries
  <2>7. QED
    BY <2>5, <2>6
<1>7. QED
  BY <1>3, <1>4, <1>5, <1>6 DEF IInv

LEMMA CommitCancelKeeps ==
    ASSUME IInv, NEW r \in Requests, CommitCancel(r)
    PROVE  IInv'
<1> DEFINE o == req[r].order
<1>0. TypeOK /\ o \in Orders
  BY RequestFields DEF IInv, CommitCancel, Handling
<1>1. /\ status[o] = "COMPLETED"
      /\ status' = [status EXCEPT ![o] = "CANCELLED"]
      /\ stock' = [p \in Products |-> stock[p] + bill[o].qty[p]]
      /\ req' = [req EXCEPT ![r] = Idle]
      /\ UNCHANGED <<bill, invoiceNumber, returnedQty, returnedTotal, counterVars, creditNotes>>
  BY DEF CommitCancel, AddStock, Close, StillCancellable
<1>2. TypeOK'
  <2>1. \A p \in Products : bill[o].qty[p] \in Int
    BY <1>0, ConstantTypes DEF TypeOK, BillBody, Quantities
  <2>2. stock' \in [Products -> Int]
    BY <1>0, <1>1, <2>1 DEF TypeOK
  <2>3. status' \in [Orders -> {"none", "COMPLETED", "CANCELLED"}]
    BY <1>0, <1>1 DEF TypeOK
  <2>4. req' \in [Requests -> Request]
    BY <1>0, <1>1 DEF TypeOK, Request
  <2>5. QED
    BY <1>0, <1>1, <2>2, <2>3, <2>4 DEF TypeOK, counterVars
<1>3. RequestsFit'
  BY <1>0, <1>1 DEF IInv, RequestsFit, TypeOK, Idle
<1>4. ReturnedWithinSold' /\ RefundsMatchReturns'
  BY <1>1 DEF IInv, ReturnedWithinSold, RefundsMatchReturns
<1>5. InvoiceSeries'
  <2>1. Saved' = Saved
    BY <1>0, <1>1 DEF Saved, TypeOK
  <2>2. QED
    BY <1>1, <2>1 DEF IInv, InvoiceSeries, counterVars
<1>6. QED
  BY <1>2, <1>3, <1>4, <1>5 DEF IInv

LEMMA CommitReturnKeeps ==
    ASSUME IInv, NEW r \in Requests, NEW c \in Counters, CommitReturn(r, c)
    PROVE  IInv'
<1> DEFINE o == req[r].order
           sold == bill[o].qty
           total == Payout(sold, req[r].seen, req[r].qty)
<1>0. /\ TypeOK /\ RequestsFit /\ ReturnedWithinSold /\ RefundsMatchReturns
      /\ req[r].op = "return" /\ ~Changed(r)
  BY DEF IInv, CommitReturn, Handling
<1>1. /\ o \in Orders /\ sold \in Quantities
      /\ req[r].qty \in Quantities /\ req[r].seen \in Quantities
  BY <1>0, RequestFields DEF TypeOK, BillBody
<1>2. /\ ItemsAfter(r) \in Quantities
      /\ \A p \in Products : ItemsAfter(r)[p] <= sold[p]
      /\ Plus(req[r].seen, req[r].qty) \in Quantities
  BY <1>0, ReturnFits
<1>3. /\ returnedTotal' = [returnedTotal EXCEPT ![o] = @ + total]
      /\ returnedQty' = [returnedQty EXCEPT ![o] = ItemsAfter(r)]
      /\ creditNotes' = creditNotes \cup
            {[order |-> o, counter |-> c, number |-> nextCreditNoteNumber[c],
              qty |-> req[r].qty, total |-> total]}
      /\ nextCreditNoteNumber' = [nextCreditNoteNumber EXCEPT ![c] = @ + 1]
      /\ stock' = [p \in Products |-> stock[p] + req[r].qty[p]]
      /\ req' = [req EXCEPT ![r] = Idle]
      /\ UNCHANGED <<bill, status, invoiceNumber, nextInvoiceNumber>>
  BY DEF CommitReturn, AddStock, Close
<1>4. total \in Int
  BY <1>1, <1>2, ConstantTypes DEF Payout
<1>5. TypeOK'
  <2>1. returnedTotal' \in [Orders -> Int] /\ returnedQty' \in [Orders -> Quantities]
    <3>1. returnedTotal[o] + total \in Int
      <4>1. returnedTotal[o] \in Int
        BY <1>0, <1>1 DEF TypeOK
      <4> HIDE DEF total
      <4>2. QED
        BY <1>4, <4>1
    <3>2. returnedTotal' = [returnedTotal EXCEPT ![o] = returnedTotal[o] + total]
      BY <1>3
    <3> HIDE DEF total
    <3>3. QED
      BY <1>0, <1>2, <1>3, <3>1, <3>2 DEF TypeOK
  <2>2. creditNotes' \subseteq CreditNote
    <3> HIDE DEF total
    <3>1. QED
      BY <1>0, <1>1, <1>3, <1>4 DEF TypeOK, CreditNote
  <2>3. stock' \in [Products -> Int]
    <3>1. \A p \in Products : req[r].qty[p] \in Int /\ stock[p] \in Int
      BY <1>0, <1>1, ConstantTypes DEF Quantities, TypeOK
    <3>2. QED
      BY <1>3, <3>1
  <2>4. nextCreditNoteNumber' \in [Counters -> Nat] /\ req' \in [Requests -> Request]
    BY <1>0, <1>3 DEF TypeOK, Request
  <2>5. QED
    BY <1>0, <1>3, <2>1, <2>2, <2>3, <2>4 DEF TypeOK
<1>6. RequestsFit'
  BY <1>0, <1>3 DEF RequestsFit, TypeOK, Idle
<1>7. ReturnedWithinSold'
  BY <1>0, <1>1, <1>2, <1>3 DEF ReturnedWithinSold, TypeOK
<1>8. RefundsMatchReturns'
  <2> SUFFICES ASSUME NEW a \in Orders
               PROVE  returnedTotal'[a] = Worth[bill[a].qty][returnedQty'[a]]
    BY <1>3 DEF RefundsMatchReturns
  <2>1. CASE a = o
    <3>1. total = Worth[sold][ItemsAfter(r)] - Worth[sold][returnedQty[o]]
      BY <1>0, PayoutIsChange
    <3>2. returnedTotal[o] = Worth[sold][returnedQty[o]]
      BY <1>0, <1>1 DEF RefundsMatchReturns
    <3>3. Worth[sold][ItemsAfter(r)] \in Int /\ Worth[sold][returnedQty[o]] \in Int
      BY <1>0, <1>1, <1>2, ConstantTypes DEF TypeOK
    <3>4. returnedTotal'[o] = returnedTotal[o] + total /\ returnedQty'[o] = ItemsAfter(r)
      BY <1>0, <1>1, <1>3 DEF TypeOK
    <3> HIDE DEF total, sold, o
    <3>5. returnedTotal'[o] = Worth[sold][ItemsAfter(r)]
      BY <3>1, <3>2, <3>3, <3>4
    <3>6. QED
      BY <2>1, <3>4, <3>5 DEF sold
  <2>2. CASE a # o
    BY <1>0, <1>3, <2>2 DEF RefundsMatchReturns, TypeOK
  <2>3. QED
    BY <2>1, <2>2
<1>9. InvoiceSeries'
  BY <1>3 DEF IInv, InvoiceSeries, Saved
<1>10. QED
  BY <1>5, <1>6, <1>7, <1>8, <1>9 DEF IInv

LEMMA StepIInv == IInv /\ [Next]_vars => IInv'
<1> SUFFICES ASSUME IInv, [Next]_vars PROVE IInv'
  OBVIOUS
<1>1. CASE UNCHANGED vars
  BY <1>1 DEF vars, orderVars, counterVars, IInv, TypeOK, RequestsFit,
              ReturnedWithinSold, InvoiceSeries, Saved, RefundsMatchReturns
<1>2. CASE \E o \in Orders : Replay(o)
  BY <1>1, <1>2 DEF Replay
<1>3. ASSUME NEW r \in Requests,
             \E o \in Orders : BeginCreate(r, o) \/ BeginSync(r, o) \/ BeginCancel(r, o)
      PROVE  IInv'
  BY <1>3, BeginKeeps
<1>4. ASSUME NEW r \in Requests, \E o \in Orders, qty \in Quantities : BeginReturn(r, o, qty)
      PROVE  IInv'
  BY <1>4, BeginReturnKeeps
<1>5. ASSUME NEW r \in Requests, CommitCreate(r) \/ CommitCancel(r)
      PROVE  IInv'
  BY <1>5, CommitCreateKeeps, CommitCancelKeeps
<1>6. ASSUME NEW r \in Requests, \E c \in Counters : CommitReturn(r, c)
      PROVE  IInv'
  BY <1>6, CommitReturnKeeps
<1>7. ASSUME NEW r \in Requests, RefuseOutOfStock(r) \/ SavedMeanwhile(r)
                 \/ RefuseNumberUsed(r) \/ RefuseCancelled(r) \/ RefuseChanged(r) \/ Fail(r)
      PROVE  IInv'
  BY <1>7, CloseKeeps DEF RefuseOutOfStock, SavedMeanwhile, RefuseNumberUsed,
                          RefuseCancelled, RefuseChanged, Fail
<1>8. QED
  BY <1>1, <1>2, <1>3, <1>4, <1>5, <1>6, <1>7 DEF Next

----------------------------------------------------------------------------
\* The inductive invariant holds in every reachable state.
THEOREM Inductive == Spec => []IInv
  BY InitIInv, StepIInv, PTL DEF Spec

\* Every variable keeps its type, for every assignment of bodies to bills.
THEOREM TypeCorrect == Spec => []TypeOK
<1>1. IInv => TypeOK
  BY DEF IInv
<1>2. QED
  BY <1>1, Inductive, PTL

\* The numbers of a counter's bills never repeat and its next number is free,
\* with any mix of device numbers, server numbers, retries and late syncs.
THEOREM InvoiceSeriesHolds == Spec => []InvoiceSeries
<1>1. IInv => InvoiceSeries
  BY DEF IInv
<1>2. QED
  BY <1>1, Inductive, PTL

\* No item is returned more often than it was sold, however returns interleave.
THEOREM NoOverReturn == Spec => []ReturnedWithinSold
<1>1. IInv => ReturnedWithinSold
  BY DEF IInv
<1>2. QED
  BY <1>1, Inductive, PTL

\* What a bill has paid back is what its returned items are worth.
THEOREM RefundsHold == Spec => []RefundsMatchReturns
<1>1. IInv => RefundsMatchReturns
  BY DEF IInv
<1>2. QED
  BY <1>1, Inductive, PTL


----------------------------------------------------------------------------
\* Without offline sync every bill in hand is an online one.
OnlineOnly ==
    "sync" \notin Ops => \A r \in Requests : req[r].op # "sync"

LEMMA OnlineOnlyStep == TypeOK /\ OnlineOnly /\ [Next]_vars => OnlineOnly'
<1> SUFFICES ASSUME TypeOK, OnlineOnly, [Next]_vars PROVE OnlineOnly'
  OBVIOUS
<1> USE DEF TypeOK, OnlineOnly
<1>1. CASE UNCHANGED vars
  BY <1>1 DEF vars
<1>2. CASE \E o \in Orders : Replay(o)
  BY <1>2 DEF Replay, vars
<1>3. ASSUME NEW r \in Requests, Close(r)
      PROVE  OnlineOnly'
  BY <1>3 DEF Close, Idle
<1>4. ASSUME NEW r \in Requests, NEW o \in Orders,
             BeginCreate(r, o) \/ BeginSync(r, o) \/ BeginCancel(r, o)
      PROVE  OnlineOnly'
  BY <1>4 DEF BeginCreate, BeginSync, BeginCancel, Take
<1>5. ASSUME NEW r \in Requests, NEW o \in Orders, NEW qty \in Quantities,
             BeginReturn(r, o, qty)
      PROVE  OnlineOnly'
  BY <1>5 DEF BeginReturn, Take
<1>6. QED
  BY <1>1, <1>2, <1>3, <1>4, <1>5
     DEF Next, CommitCreate, CommitCancel, CommitReturn, CloseUnchanged,
         RefuseOutOfStock, SavedMeanwhile, RefuseNumberUsed, RefuseCancelled,
         RefuseChanged, Fail

LEMMA OversoldStep ==
    TypeOK /\ OnlineOnly /\ NeverOversold /\ [Next]_vars => NeverOversold'
<1> SUFFICES ASSUME TypeOK, OnlineOnly, NeverOversold, [Next]_vars,
                    "sync" \notin Ops, ~AllowNegative,
                    NEW p \in Products, InitStock[p] >= 0
             PROVE  stock'[p] >= 0
  BY DEF NeverOversold
<1>1. stock[p] >= 0 /\ stock[p] \in Int
  BY DEF NeverOversold, TypeOK
<1>2. CASE UNCHANGED stock
  BY <1>1, <1>2
<1>3. ASSUME NEW r \in Requests, CommitCreate(r)
      PROVE  stock'[p] >= 0
  <2> DEFINE qty == bill[req[r].order].qty
  <2>1. req[r].order \in Orders /\ req[r].op = "create"
    BY <1>3, RequestFields DEF CommitCreate, OnlineOnly
  <2>2. qty \in Quantities
    BY <2>1 DEF TypeOK, BillBody
  <2>3. qty[p] \in Int /\ (qty[p] > 0 => ~(stock[p] < qty[p]))
    BY <1>3, <2>1, <2>2, ConstantTypes
       DEF CommitCreate, Blocked, Handling, OutOfStock, Quantities
  <2>4. stock'[p] = stock[p] - qty[p]
    BY <1>3 DEF CommitCreate, TakeStock
  <2> HIDE DEF qty
  <2>5. QED
    BY <1>1, <2>3, <2>4
<1>4. ASSUME NEW qty \in Quantities, AddStock(qty)
      PROVE  stock'[p] >= 0
  <2>1. qty[p] \in Int /\ qty[p] >= 0
    BY ConstantTypes DEF Quantities
  <2>2. QED
    BY <1>1, <1>4, <2>1 DEF AddStock
<1>5. ASSUME NEW r \in Requests,
             CommitCancel(r) \/ \E c \in Counters : CommitReturn(r, c)
      PROVE  stock'[p] >= 0
  <2>1. req[r].order \in Orders
    BY <1>5, RequestFields DEF CommitCancel, CommitReturn, Handling
  <2>2. bill[req[r].order].qty \in Quantities
    BY <2>1 DEF TypeOK, BillBody
  <2>3. req[r].op = "return" => req[r].qty \in Quantities
    BY RequestFields
  <2>4. QED
    BY <1>4, <1>5, <2>2, <2>3 DEF CommitCancel, CommitReturn, Handling
<1>6. QED
  BY <1>2, <1>3, <1>5
     DEF Next, Replay, vars, BeginCreate, BeginSync, BeginCancel, BeginReturn,
         CloseUnchanged, RefuseOutOfStock, SavedMeanwhile, RefuseNumberUsed,
         RefuseCancelled, RefuseChanged, Fail

\* Online bills alone never take a product below zero when the account forbids
\* it, however many of them race.
THEOREM NoOversell == Spec => []NeverOversold
<1>1. Init => OnlineOnly /\ NeverOversold
  BY ConstantTypes DEF Init, OnlineOnly, NeverOversold, Idle
<1>2. QED
  BY <1>1, OnlineOnlyStep, OversoldStep, TypeCorrect, PTL DEF Spec

----------------------------------------------------------------------------
\* Only a commit changes anything but the requests in hand.
LEMMA CommitOrQuiet ==
    ASSUME [Next]_vars
    PROVE  \/ \E r \in Requests : CommitCreate(r) \/ CommitCancel(r)
           \/ \E r \in Requests, c \in Counters : CommitReturn(r, c)
           \/ UNCHANGED <<bill, orderVars, counterVars, creditNotes, stock>>
  BY DEF Next, Replay, vars, BeginCreate, BeginSync, BeginCancel, BeginReturn,
         CloseUnchanged, RefuseOutOfStock, SavedMeanwhile, RefuseNumberUsed,
         RefuseCancelled, RefuseChanged, Fail

----------------------------------------------------------------------------
(***************************************************************************)
(* The credit notes.                                                       *)
(***************************************************************************)
NotesOf(o) == {n \in creditNotes : n.order = o}

\* Every note has a number its counter has passed; there are finitely many.
NotesNumbered ==
    /\ IsFiniteSet(creditNotes)
    /\ \A n \in creditNotes : n.number < nextCreditNoteNumber[n.counter]

NotesInv == NotesNumbered /\ NotesExplainReturns

LEMMA NotesInit == Init => NotesInv
<1> SUFFICES ASSUME Init PROVE NotesInv
  OBVIOUS
<1>1. NotesNumbered
  BY FS_EmptySet DEF Init, NotesNumbered
<1>2. ASSUME NEW o \in Orders
      PROVE  /\ returnedTotal[o] = SumFunction([n \in NotesOf(o) |-> n.total])
             /\ \A p \in Products :
                   returnedQty[o][p] = SumFunction([n \in NotesOf(o) |-> n.qty[p]])
  <2>1. NotesOf(o) = {}
    BY DEF Init, NotesOf
  <2>2. SumFunction([n \in {} |-> n.total]) = 0
    BY TotalEmpty
  <2>3. \A p \in Products : SumFunction([n \in {} |-> n.qty[p]]) = 0
    BY TotalEmpty
  <2>4. QED
    BY <2>1, <2>2, <2>3 DEF Init, Nothing
<1>3. QED
  BY <1>1, <1>2 DEF Init, NotesInv, NotesExplainReturns, NotesOf

\* A return writes one note, with a number of its own, for what it takes back.
LEMMA NotesReturn ==
    ASSUME IInv, NotesInv, NEW r \in Requests, NEW c \in Counters, CommitReturn(r, c)
    PROVE  NotesInv'
<1> DEFINE o == req[r].order
           total == Payout(bill[o].qty, req[r].seen, req[r].qty)
           note == [order |-> o, counter |-> c, number |-> nextCreditNoteNumber[c],
                    qty |-> req[r].qty, total |-> total]
<1>0. TypeOK /\ RequestsFit /\ ReturnedWithinSold /\ req[r].op = "return" /\ ~Changed(r)
  BY DEF IInv, CommitReturn, Handling
<1>1. o \in Orders /\ req[r].qty \in Quantities /\ req[r].seen \in Quantities
  BY <1>0, RequestFields
<1>2. /\ returnedTotal' = [returnedTotal EXCEPT ![o] = @ + total]
      /\ returnedQty' = [returnedQty EXCEPT ![o] = Plus(@, req[r].qty)]
      /\ creditNotes' = creditNotes \cup {note}
      /\ nextCreditNoteNumber' = [nextCreditNoteNumber EXCEPT ![c] = @ + 1]
  BY DEF CommitReturn, ItemsAfter
<1>3. total \in Int
  <2>1. bill[o].qty \in Quantities
    BY <1>0, <1>1 DEF TypeOK, BillBody
  <2>2. QED
    BY <1>0, <1>1, <2>1, ReturnFits, ConstantTypes DEF Payout
<1>4. \A n \in creditNotes : n.total \in Int /\ n.qty \in Quantities /\ n.counter \in Counters
  BY <1>0 DEF TypeOK, CreditNote
<1>5. \A n \in creditNotes : n.counter = c => n.number # nextCreditNoteNumber[c]
  <2>1. \A n \in creditNotes : n.number \in Nat /\ n.number < nextCreditNoteNumber[n.counter]
    BY <1>0 DEF NotesInv, NotesNumbered, TypeOK, CreditNote
  <2>2. nextCreditNoteNumber[c] \in Nat
    BY <1>0 DEF TypeOK
  <2>3. QED
    BY <2>1, <2>2
<1>6. note \notin creditNotes
  BY <1>5
<1>7. NotesNumbered'
  <2>1. IsFiniteSet(creditNotes')
    BY <1>2, FS_AddElement DEF NotesInv, NotesNumbered
  <2>2. note.number < nextCreditNoteNumber'[note.counter]
    BY <1>0, <1>2 DEF TypeOK
  <2>3. ASSUME NEW n \in creditNotes
        PROVE  n.number < nextCreditNoteNumber'[n.counter]
    <3>1. /\ n.number < nextCreditNoteNumber[n.counter] /\ n.counter \in Counters
          /\ n.number \in Nat /\ nextCreditNoteNumber[n.counter] \in Nat
      BY <1>0 DEF NotesInv, NotesNumbered, TypeOK, CreditNote
    <3>2. nextCreditNoteNumber[n.counter] <= nextCreditNoteNumber'[n.counter]
      BY <1>0, <1>2, <3>1 DEF TypeOK
    <3>3. nextCreditNoteNumber'[n.counter] \in Nat
      BY <1>0, <1>2, <3>1 DEF TypeOK
    <3>4. QED
      BY <3>1, <3>2, <3>3
  <2>4. QED
    BY <1>2, <2>1, <2>2, <2>3 DEF NotesNumbered
<1>8. ASSUME NEW m \in creditNotes', NEW n \in creditNotes',
             m.counter = n.counter, m.number = n.number
      PROVE  m = n
  BY <1>2, <1>5, <1>8 DEF NotesInv, NotesExplainReturns
<1>9. ASSUME NEW a \in Orders
      PROVE  /\ returnedTotal'[a] = SumFunction([n \in NotesOf(a)' |-> n.total])
             /\ \A p \in Products :
                   returnedQty'[a][p] = SumFunction([n \in NotesOf(a)' |-> n.qty[p]])
  <2>0. /\ returnedTotal[a] = SumFunction([n \in NotesOf(a) |-> n.total])
        /\ \A p \in Products :
              returnedQty[a][p] = SumFunction([n \in NotesOf(a) |-> n.qty[p]])
        /\ IsFiniteSet(NotesOf(a))
    BY FS_Subset DEF NotesInv, NotesNumbered, NotesExplainReturns, NotesOf
  <2>1. CASE a # o
    <3>1. NotesOf(a)' = NotesOf(a)
      BY <1>2, <2>1 DEF NotesOf
    <3>2. returnedTotal'[a] = returnedTotal[a] /\ returnedQty'[a] = returnedQty[a]
      BY <1>2, <2>1, <1>0 DEF TypeOK
    <3>3. QED
      BY <2>0, <3>1, <3>2
  <2>2. CASE a = o
    <3>1. NotesOf(a)' = NotesOf(a) \cup {note} /\ note \notin NotesOf(a)
      BY <1>2, <1>6, <2>2 DEF NotesOf
    <3>2. returnedTotal'[a] = returnedTotal[a] + note.total
      BY <1>0, <1>1, <1>2, <2>2 DEF TypeOK
    <3>3. \A p \in Products : returnedQty'[a][p] = returnedQty[a][p] + note.qty[p]
      BY <1>0, <1>1, <1>2, <2>2 DEF TypeOK, Plus
    <3>4. \A n \in NotesOf(a) \cup {note} : n.total \in Int /\ n.qty \in Quantities
      BY <1>1, <1>3, <1>4 DEF NotesOf
    <3> HIDE DEF note
    <3>5. SumFunction([n \in NotesOf(a) \cup {note} |-> n.total])
            = SumFunction([n \in NotesOf(a) |-> n.total]) + note.total
      <4> DEFINE f == [n \in NotesOf(a) |-> n.total]
                 g == [n \in NotesOf(a) \cup {note} |-> n.total]
      <4>1. /\ DOMAIN f = NotesOf(a) /\ DOMAIN g = NotesOf(a) \cup {note}
            /\ \A n \in DOMAIN g : g[n] \in Int
            /\ \A n \in DOMAIN f : f[n] = g[n]
            /\ g[note] = note.total
        BY <3>4
      <4>2. SumFunction(g) = SumFunction(f) + g[note]
        <5> HIDE DEF f, g
        <5>1. QED
          BY <2>0, <3>1, <4>1, TotalGrows
      <4>3. QED
        BY <4>1, <4>2
    <3>6. ASSUME NEW p \in Products
          PROVE  SumFunction([n \in NotesOf(a) \cup {note} |-> n.qty[p]])
                   = SumFunction([n \in NotesOf(a) |-> n.qty[p]]) + note.qty[p]
      <4> DEFINE f == [n \in NotesOf(a) |-> n.qty[p]]
                 g == [n \in NotesOf(a) \cup {note} |-> n.qty[p]]
      <4>1. /\ DOMAIN f = NotesOf(a) /\ DOMAIN g = NotesOf(a) \cup {note}
            /\ \A n \in DOMAIN g : g[n] \in Int
            /\ \A n \in DOMAIN f : f[n] = g[n]
            /\ g[note] = note.qty[p]
        BY <3>4, ConstantTypes DEF Quantities
      <4>2. SumFunction(g) = SumFunction(f) + g[note]
        <5> HIDE DEF f, g
        <5>1. QED
          BY <2>0, <3>1, <4>1, TotalGrows
      <4>3. QED
        BY <4>1, <4>2
    <3>7. QED
      BY <2>0, <3>1, <3>2, <3>3, <3>5, <3>6
  <2>3. QED
    BY <2>1, <2>2
<1>10. QED
  BY <1>7, <1>8, <1>9 DEF NotesInv, NotesExplainReturns, NotesOf

LEMMA NotesStep == IInv /\ NotesInv /\ [Next]_vars => NotesInv'
<1> SUFFICES ASSUME IInv, NotesInv, [Next]_vars PROVE NotesInv'
  OBVIOUS
<1>1. ASSUME UNCHANGED <<returnedQty, returnedTotal, nextCreditNoteNumber, creditNotes>>
      PROVE  NotesInv'
  BY <1>1 DEF NotesInv, NotesNumbered, NotesExplainReturns
<1>2. CASE UNCHANGED <<bill, orderVars, counterVars, creditNotes, stock>>
  BY <1>1, <1>2 DEF orderVars, counterVars
<1>3. CASE \E r \in Requests : CommitCreate(r) \/ CommitCancel(r)
  BY <1>1, <1>3 DEF CommitCreate, CommitCancel, counterVars
<1>4. CASE \E r \in Requests, c \in Counters : CommitReturn(r, c)
  BY <1>4, NotesReturn
<1>5. QED
  BY <1>2, <1>3, <1>4, CommitOrQuiet

\* The credit notes account for every item and every rupee paid back, and no
\* two notes of a counter share a number, for any number of concurrent returns.
THEOREM NotesHold == Spec => []NotesExplainReturns
<1>1. NotesInv => NotesExplainReturns
  BY DEF NotesInv
<1>2. QED
  BY <1>1, Inductive, NotesInit, NotesStep, PTL DEF Spec

----------------------------------------------------------------------------
(***************************************************************************)
(* The invoice numbers that are never refused.                             *)
(***************************************************************************)

\* The bills of a counter bring numbers that all differ, or bring none.
NumbersApart ==
    \A b \in Bills : \A o, s \in Orders :
        o # s /\ b[o].counter = b[s].counter =>
            \/ b[o].seq = 0 /\ b[s].seq = 0
            \/ b[o].seq # 0 /\ b[s].seq # 0 /\ b[o].seq # b[s].seq

\* A bill that brought a number was saved with it.
OwnNumberKept ==
    /\ bill \in Bills
    /\ \A o \in Saved : bill[o].seq # 0 => invoiceNumber[o] = bill[o].seq

LEMMA OwnNumberStep == TypeOK /\ OwnNumberKept /\ [Next]_vars => OwnNumberKept'
<1> SUFFICES ASSUME TypeOK, OwnNumberKept, [Next]_vars PROVE OwnNumberKept'
  OBVIOUS
<1>1. CASE UNCHANGED <<bill, orderVars, counterVars, creditNotes, stock>>
  BY <1>1 DEF OwnNumberKept, Saved, orderVars
<1>2. ASSUME NEW r \in Requests, CommitCreate(r)
      PROVE  OwnNumberKept'
  <2> DEFINE o == req[r].order
  <2>1. o \in Orders
    BY <1>2, RequestFields DEF CommitCreate
  <2>2. /\ UNCHANGED bill
        /\ status' = [status EXCEPT ![o] = "COMPLETED"]
        /\ invoiceNumber' = [invoiceNumber EXCEPT ![o] = NumberFor(o)]
    BY <1>2 DEF CommitCreate
  <2>3. bill[o].seq # 0 => NumberFor(o) = bill[o].seq
    BY DEF NumberFor
  <2>4. QED
    BY <2>1, <2>2, <2>3 DEF OwnNumberKept, Saved, TypeOK
<1>3. ASSUME NEW r \in Requests, CommitCancel(r)
      PROVE  OwnNumberKept'
  <2>1. req[r].order \in Orders
    BY <1>3, RequestFields DEF CommitCancel, Handling
  <2>2. QED
    BY <1>3, <2>1 DEF CommitCancel, StillCancellable, OwnNumberKept, Saved, TypeOK
<1>4. ASSUME NEW r \in Requests, NEW c \in Counters, CommitReturn(r, c)
      PROVE  OwnNumberKept'
  BY <1>4 DEF CommitReturn, OwnNumberKept, Saved
<1>5. QED
  BY <1>1, <1>2, <1>3, <1>4, CommitOrQuiet

\* The number a bill would get is on no other bill of its counter.
LEMMA NumberIsFree ==
    ASSUME NumbersApart, TypeOK, InvoiceSeries, OwnNumberKept,
           NEW o \in Orders, status[o] = "none"
    PROVE  ~NumberTaken(o)
<1> SUFFICES ASSUME NEW s \in Saved, bill[s].counter = bill[o].counter
             PROVE  invoiceNumber[s] # NumberFor(o)
  BY DEF NumberTaken
<1>1. s \in Orders /\ s # o /\ invoiceNumber[s] \in Nat
  BY DEF Saved, TypeOK
<1>2. invoiceNumber[s] < nextInvoiceNumber[bill[o].counter]
  BY DEF InvoiceSeries
<1>3. CASE bill[o].seq = 0 /\ bill[s].seq = 0
  BY <1>1, <1>2, <1>3 DEF NumberFor
<1>4. CASE bill[o].seq # 0 /\ bill[s].seq # 0 /\ bill[o].seq # bill[s].seq
  BY <1>4 DEF NumberFor, OwnNumberKept
<1>5. QED
  BY <1>1, <1>3, <1>4 DEF NumbersApart, OwnNumberKept

\* When the bills of each counter bring distinct numbers, or are all numbered
\* by the server, no bill is ever refused for its number, however late it comes.
THEOREM NumbersHold == NumbersApart => (Spec => NumbersNeverClash)
<1> SUFFICES ASSUME NumbersApart PROVE Spec => NumbersNeverClash
  OBVIOUS
<1>1. Init => OwnNumberKept
  BY DEF Init, OwnNumberKept, Saved
<1>2. IInv /\ OwnNumberKept => [\A r \in Requests : ~RefuseNumberUsed(r)]_vars
  <2> SUFFICES ASSUME IInv, OwnNumberKept, NEW r \in Requests, RefuseNumberUsed(r)
               PROVE  FALSE
    OBVIOUS
  <2>1. req[r].order \in Orders
    BY RequestFields DEF IInv, RefuseNumberUsed
  <2>2. QED
    BY <2>1, NumberIsFree DEF IInv, RefuseNumberUsed
<1>3. IInv => TypeOK
  BY DEF IInv
<1>4. QED
  BY <1>1, <1>2, <1>3, Inductive, OwnNumberStep, PTL DEF Spec, NumbersNeverClash

----------------------------------------------------------------------------
(***************************************************************************)
(* How far the plan's limit can be passed.                                 *)
(***************************************************************************)
Creating == {r \in Requests : req[r].op = "create"}

\* Each request that creates a bill may save one more, and when the last of
\* them began there was room for one.
OvershootInv ==
    "sync" \notin Ops =>
        IF MaxOrders = 0 THEN Saved = {} /\ Creating = {}
        ELSE Cardinality(Saved) + Cardinality(Creating)
                <= MaxOrders + Cardinality(Requests) - 1

LEMMA Countable ==
    /\ IsFiniteSet(Saved) /\ Cardinality(Saved) \in Nat
    /\ IsFiniteSet(Creating) /\ Cardinality(Creating) \in Nat
    /\ Cardinality(Requests) \in Nat /\ Cardinality(Creating) <= Cardinality(Requests)
<1>1. Saved \subseteq Orders /\ Creating \subseteq Requests
  BY DEF Saved, Creating
<1>2. QED
  BY <1>1, FiniteAssumption, FS_Subset, FS_CardinalityType

LEMMA OvershootInit == Init => OvershootInv
<1> SUFFICES ASSUME Init PROVE OvershootInv
  OBVIOUS
<1>1. Saved = {} /\ Creating = {}
  BY DEF Init, Saved, Creating, Idle
<1>2. Cardinality({}) = 0
  BY FS_EmptySet
<1>3. Cardinality(Requests) \in Nat /\ MaxOrders \in Nat
  BY Countable, ConstantTypes
<1>4. QED
  BY <1>1, <1>2, <1>3 DEF OvershootInv

\* A step after which no request creates that did not before keeps the bound.
LEMMA FewerCreating ==
    ASSUME OvershootInv, Saved' = Saved, Creating' \subseteq Creating
    PROVE  OvershootInv'
<1>1. Cardinality(Creating') <= Cardinality(Creating) /\ Cardinality(Creating') \in Nat
  BY Countable, FS_Subset, FS_CardinalityType
<1>2. Cardinality(Creating) \in Nat /\ Cardinality(Saved) \in Nat /\ Cardinality(Requests) \in Nat
  BY Countable
<1>3. CASE MaxOrders = 0
  BY <1>3 DEF OvershootInv
<1>4. CASE MaxOrders # 0
  BY <1>1, <1>2, <1>4, ConstantTypes DEF OvershootInv
<1>5. QED
  BY <1>3, <1>4

LEMMA OvershootBegin ==
    ASSUME TypeOK, OvershootInv, NEW r \in Requests, NEW o \in Orders, BeginCreate(r, o)
    PROVE  OvershootInv'
<1>1. Saved' = Saved /\ Cardinality(Saved) < MaxOrders
  BY DEF BeginCreate, UnderPlanLimit, Saved, orderVars
<1>2. /\ Cardinality(Creating') <= Cardinality(Requests) /\ Cardinality(Creating') \in Nat
      /\ Cardinality(Requests) \in Nat
  <2>1. Creating' \subseteq Requests
    BY DEF Creating
  <2>2. QED
    BY <2>1, FiniteAssumption, FS_Subset, FS_CardinalityType
<1>3. Cardinality(Saved) \in Nat /\ MaxOrders \in Nat
  BY Countable, ConstantTypes
<1>4. Cardinality(Saved)' = Cardinality(Saved)
  BY <1>1
<1>5. QED
  BY <1>1, <1>2, <1>3, <1>4 DEF OvershootInv

LEMMA OvershootCommit ==
    ASSUME TypeOK, OnlineOnly, OvershootInv, "sync" \notin Ops,
           NEW r \in Requests, CommitCreate(r)
    PROVE  OvershootInv'
<1> DEFINE o == req[r].order
<1>1. req[r].op = "create" /\ o \in Orders
  BY RequestFields DEF CommitCreate, OnlineOnly
<1>2. /\ status[o] = "none" /\ status' = [status EXCEPT ![o] = "COMPLETED"]
      /\ req' = [req EXCEPT ![r] = Idle]
  BY DEF CommitCreate, Close
<1>3. Saved' = Saved \cup {o} /\ o \notin Saved
  BY <1>1, <1>2 DEF Saved, TypeOK
<1>4. Creating' = Creating \ {r} /\ r \in Creating
  BY <1>1, <1>2 DEF Creating, TypeOK, Idle
<1>5. Cardinality(Saved') = Cardinality(Saved) + 1
  BY <1>3, Countable, FS_AddElement
<1>6. Cardinality(Creating') = Cardinality(Creating) - 1
  BY <1>4, Countable, FS_RemoveElement
<1>7. MaxOrders # 0
  BY <1>4 DEF OvershootInv
<1>8. QED
  BY <1>5, <1>6, <1>7, Countable, ConstantTypes DEF OvershootInv

LEMMA OvershootStep ==
    TypeOK /\ OnlineOnly /\ OvershootInv /\ [Next]_vars => OvershootInv'
<1> SUFFICES ASSUME TypeOK, OnlineOnly, OvershootInv, [Next]_vars, "sync" \notin Ops
             PROVE  OvershootInv'
  BY DEF OvershootInv
<1>1. CASE UNCHANGED vars
  <2>1. Saved' = Saved /\ Creating' = Creating
    BY <1>1 DEF vars, orderVars, Saved, Creating
  <2>2. QED
    BY <2>1, FewerCreating
<1>2. CASE \E o \in Orders : Replay(o)
  BY <1>1, <1>2 DEF Replay
<1>3. ASSUME NEW r \in Requests, NEW request \in Request, request.op # "create",
             req' = [req EXCEPT ![r] = request], UNCHANGED Saved
      PROVE  OvershootInv'
  <2>1. Creating' \subseteq Creating
    BY <1>3 DEF Creating, TypeOK
  <2>2. QED
    BY <1>3, <2>1, FewerCreating
<1>4. ASSUME NEW r \in Requests, Close(r), UNCHANGED Saved
      PROVE  OvershootInv'
  BY <1>3, <1>4 DEF Close, Request, Idle
<1>5. ASSUME NEW r \in Requests, CloseUnchanged(r)
      PROVE  OvershootInv'
  BY <1>4, <1>5 DEF CloseUnchanged, orderVars, Saved
<1>6. ASSUME NEW r \in Requests, NEW o \in Orders, BeginSync(r, o) \/ BeginCancel(r, o)
      PROVE  OvershootInv'
  <2>1. /\ [op |-> "cancel", order |-> o] \in Request
        /\ [op |-> "cancel", order |-> o].op # "create"
        /\ req' = [req EXCEPT ![r] = [op |-> "cancel", order |-> o]]
    BY <1>6 DEF BeginSync, BeginCancel, Take, Request
  <2>2. UNCHANGED Saved
    BY <1>6 DEF BeginSync, BeginCancel, orderVars, Saved
  <2>3. QED
    BY <1>3, <2>1, <2>2
<1>7. ASSUME NEW r \in Requests, NEW o \in Orders, NEW qty \in Quantities,
             BeginReturn(r, o, qty)
      PROVE  OvershootInv'
  <2> DEFINE request == [op |-> "return", order |-> o, qty |-> qty, seen |-> returnedQty[o]]
  <2>1. request \in Request /\ request.op # "create"
    BY DEF Request, TypeOK
  <2>2. req' = [req EXCEPT ![r] = request] /\ UNCHANGED Saved
    BY <1>7 DEF BeginReturn, Take, orderVars, Saved
  <2> HIDE DEF request
  <2>3. QED
    BY <1>3, <2>1, <2>2
<1>8. ASSUME NEW r \in Requests, CommitCancel(r)
      PROVE  OvershootInv'
  <2>1. req[r].order \in Orders
    BY <1>8, RequestFields DEF CommitCancel, Handling
  <2>2. UNCHANGED Saved /\ Close(r)
    BY <1>8, <2>1 DEF CommitCancel, StillCancellable, Saved, TypeOK
  <2>3. QED
    BY <1>4, <2>2
<1>9. ASSUME NEW r \in Requests, NEW c \in Counters, CommitReturn(r, c)
      PROVE  OvershootInv'
  <2>1. UNCHANGED Saved /\ Close(r)
    BY <1>9 DEF CommitReturn, Saved
  <2>2. QED
    BY <1>4, <2>1
<1>10. ASSUME NEW r \in Requests,
              \/ \E o \in Orders : BeginCreate(r, o)
              \/ CommitCreate(r)
       PROVE  OvershootInv'
  BY <1>10, OvershootBegin, OvershootCommit
<1>11. QED
  BY <1>1, <1>2, <1>5, <1>6, <1>7, <1>8, <1>9, <1>10
     DEF Next, RefuseOutOfStock, SavedMeanwhile, RefuseNumberUsed, RefuseCancelled,
         RefuseChanged, Fail

\* Online bills pass the plan's monthly limit by fewer bills than the server
\* handles requests at a time, for every limit and every number of requests.
THEOREM OvershootHolds == Spec => []PlanOvershootBounded
<1>1. Init => OnlineOnly
  BY DEF Init, OnlineOnly, Idle
<1>2. OvershootInv => PlanOvershootBounded
  <2>1. /\ Cardinality(Saved) \in Nat /\ Cardinality(Creating) \in Nat
        /\ Cardinality(Requests) \in Nat /\ MaxOrders \in Nat
    BY Countable, ConstantTypes
  <2>2. Cardinality({}) = 0
    BY FS_EmptySet
  <2>3. QED
    BY <2>1, <2>2 DEF OvershootInv, PlanOvershootBounded
<1>3. QED
  BY <1>1, <1>2, TypeCorrect, OnlineOnlyStep, OvershootInit, OvershootStep, PTL DEF Spec

----------------------------------------------------------------------------
(***************************************************************************)
(* A shop that never cancels bills, or never takes returns, or handles one *)
(* request at a time and gives nothing away, never cancels a bill items of *)
(* which came back.  Then the requests of Billing implement the ledger,    *)
(* each commit one step of it, and the stock matches the bills.  A cancel  *)
(* and a return at the same time break both (the run                       *)
(* billing_cancel_return_race).                                            *)
(***************************************************************************)

OneKindOfReversal == "cancel" \notin Ops \/ "return" \notin Ops

OneAtATime == \A r, s \in Requests : r = s

\* Returning something pays something.
NothingFree ==
    \A sold, back \in Quantities :
        (\A p \in Products : back[p] <= sold[p]) /\ Worth[sold][back] = 0
        => back = Nothing

NoReversalRace == OneKindOfReversal \/ (OneAtATime /\ NothingFree)

\* What the operations a shop does not use can never have done.
Unused ==
    /\ \A r \in Requests :
          /\ req[r].op \in {"cancel", "return"} => req[r].op \in Ops
          /\ req[r].op = "return" => status[req[r].order] # "none"
    /\ \A o \in Orders : status[o] = "none" => returnedQty[o] = Nothing
    /\ "cancel" \notin Ops => \A o \in Orders : status[o] # "CANCELLED"
    /\ "return" \notin Ops => \A o \in Orders : returnedQty[o] = Nothing

\* No bill is cancelled of which items came back or are coming back.
Exclusive ==
    /\ \A r \in Requests :
          /\ req[r].op = "cancel" => returnedQty[req[r].order] = Nothing
          /\ req[r].op = "return" => status[req[r].order] = "COMPLETED"
    /\ CancelledHasNoReturns

LEMMA UnusedInit == Init => Unused
  BY DEF Init, Unused, Idle

\* A commit of any kind, seen by Unused.
LEMMA UnusedStep == TypeOK /\ Unused /\ [Next]_vars => Unused'
<1> SUFFICES ASSUME TypeOK, Unused, [Next]_vars PROVE Unused'
  OBVIOUS
<1> USE DEF Unused, TypeOK, orderVars, counterVars, Idle
<1>1. CASE UNCHANGED vars
  BY <1>1 DEF vars
<1>2. CASE \E o \in Orders : Replay(o)
  BY <1>2 DEF Replay, vars
<1>3. ASSUME NEW r \in Requests, NEW o \in Orders,
             BeginCreate(r, o) \/ BeginSync(r, o) \/ BeginCancel(r, o)
      PROVE  Unused'
  BY <1>3 DEF BeginCreate, BeginSync, BeginCancel, Take
<1>4. ASSUME NEW r \in Requests, NEW o \in Orders, NEW qty \in Quantities,
             BeginReturn(r, o, qty)
      PROVE  Unused'
  BY <1>4 DEF BeginReturn, Take
<1>5. ASSUME NEW r \in Requests, CommitCreate(r)
      PROVE  Unused'
  BY <1>5 DEF CommitCreate, Close
<1>6. ASSUME NEW r \in Requests, CommitCancel(r)
      PROVE  Unused'
  <2>1. "cancel" \in Ops
    BY <1>6 DEF CommitCancel, Handling
  <2>2. QED
    BY <1>6, <2>1 DEF CommitCancel, Close, counterVars
<1>7. ASSUME NEW r \in Requests, NEW c \in Counters, CommitReturn(r, c)
      PROVE  Unused'
  <2>1. "return" \in Ops
    BY <1>7 DEF CommitReturn, Handling
  <2>2. /\ UNCHANGED status /\ req' = [req EXCEPT ![r] = Idle]
        /\ returnedQty' = [returnedQty EXCEPT ![req[r].order] = ItemsAfter(r)]
        /\ status[req[r].order] # "none"
    BY <1>7 DEF CommitReturn, Close, Handling
  <2>3. QED
    BY <2>1, <2>2
<1>8. ASSUME NEW r \in Requests, CloseUnchanged(r)
      PROVE  Unused'
  BY <1>8 DEF CloseUnchanged, Close
<1>9. QED
  BY <1>1, <1>2, <1>3, <1>4, <1>5, <1>6, <1>7, <1>8
     DEF Next, RefuseOutOfStock, SavedMeanwhile, RefuseNumberUsed, RefuseCancelled,
         RefuseChanged, Fail

----------------------------------------------------------------------------
LEMMA OneKindExcludes ==
    ASSUME OneKindOfReversal, TypeOK, Unused
    PROVE  Exclusive
<1>1. \A r \in Requests : req[r].op \in {"cancel", "return"} => req[r].order \in Orders
  BY RequestFields
<1>2. CASE "cancel" \notin Ops
  BY <1>1, <1>2 DEF Unused, Exclusive, CancelledHasNoReturns, TypeOK
<1>3. CASE "return" \notin Ops
  BY <1>1, <1>3 DEF Unused, Exclusive, CancelledHasNoReturns
<1>4. QED
  BY <1>2, <1>3 DEF OneKindOfReversal

LEMMA AloneExcludes ==
    OneAtATime /\ NothingFree /\ IInv /\ Exclusive /\ [Next]_vars => Exclusive'
<1> SUFFICES ASSUME OneAtATime, NothingFree, IInv, Exclusive, [Next]_vars
             PROVE  Exclusive'
  OBVIOUS
<1>0. TypeOK
  BY DEF IInv
<1> USE DEF Exclusive, CancelledHasNoReturns
<1>1. CASE UNCHANGED vars
  BY <1>1 DEF vars, orderVars
<1>2. CASE \E o \in Orders : Replay(o)
  BY <1>1, <1>2 DEF Replay
<1>3. ASSUME NEW r \in Requests, CloseUnchanged(r)
      PROVE  Exclusive'
  BY <1>0, <1>3 DEF CloseUnchanged, Close, Idle, orderVars, TypeOK
<1>4. ASSUME NEW r \in Requests, NEW o \in Orders, BeginCreate(r, o) \/ BeginSync(r, o)
      PROVE  Exclusive'
  BY <1>0, <1>4 DEF BeginCreate, BeginSync, Take, orderVars, TypeOK
<1>5. ASSUME NEW r \in Requests, NEW o \in Orders, BeginCancel(r, o)
      PROVE  Exclusive'
  <2>1. Worth[bill[o].qty][returnedQty[o]] = 0
    BY <1>5 DEF BeginCancel, NothingPaidBack, IInv, RefundsMatchReturns
  <2>2. /\ bill[o].qty \in Quantities /\ returnedQty[o] \in Quantities
        /\ \A p \in Products : returnedQty[o][p] <= bill[o].qty[p]
    BY <1>0 DEF TypeOK, BillBody, IInv, ReturnedWithinSold
  <2>3. returnedQty[o] = Nothing
    BY <2>1, <2>2 DEF NothingFree
  <2>4. /\ req' = [req EXCEPT ![r] = [op |-> "cancel", order |-> o]]
        /\ UNCHANGED <<status, returnedQty>>
    BY <1>5 DEF BeginCancel, Take, orderVars
  <2>5. QED
    BY <1>0, <2>3, <2>4 DEF TypeOK
<1>6. ASSUME NEW r \in Requests, NEW o \in Orders, NEW qty \in Quantities,
             BeginReturn(r, o, qty)
      PROVE  Exclusive'
  BY <1>0, <1>6 DEF BeginReturn, Take, orderVars, TypeOK
<1>7. ASSUME NEW r \in Requests, Close(r)
      PROVE  \A s \in Requests : req'[s] = Idle
  BY <1>0, <1>7 DEF Close, OneAtATime, TypeOK
<1>8. ASSUME NEW r \in Requests, CommitCreate(r)
      PROVE  Exclusive'
  <2>1. req[r].order \in Orders
    BY <1>0, <1>8, RequestFields DEF CommitCreate
  <2>2. QED
    BY <1>0, <1>7, <1>8, <2>1 DEF CommitCreate, TypeOK, Idle
<1>9. ASSUME NEW r \in Requests, CommitCancel(r)
      PROVE  Exclusive'
  <2>1. req[r].order \in Orders
    BY <1>0, <1>9, RequestFields DEF CommitCancel, Handling
  <2>2. QED
    BY <1>0, <1>7, <1>9, <2>1 DEF CommitCancel, Handling, TypeOK, Idle
<1>10. ASSUME NEW r \in Requests, NEW c \in Counters, CommitReturn(r, c)
       PROVE  Exclusive'
  <2>1. /\ status[req[r].order] = "COMPLETED" /\ UNCHANGED status /\ Close(r)
        /\ returnedQty' = [returnedQty EXCEPT ![req[r].order] = ItemsAfter(r)]
    BY <1>10 DEF CommitReturn, Handling
  <2>2. QED
    BY <1>0, <1>7, <2>1 DEF TypeOK, Idle
<1>11. QED
  BY <1>1, <1>2, <1>3, <1>4, <1>5, <1>6, <1>8, <1>9, <1>10
     DEF Next, RefuseOutOfStock, SavedMeanwhile, RefuseNumberUsed, RefuseCancelled,
         RefuseChanged, Fail

LEMMA Excludes == NoReversalRace => (Spec => [](Unused /\ Exclusive))
<1> SUFFICES ASSUME NoReversalRace PROVE Spec => [](Unused /\ Exclusive)
  OBVIOUS
<1>1. IInv => TypeOK
  BY DEF IInv
<1>2. Spec => []Unused
  BY <1>1, UnusedInit, UnusedStep, Inductive, PTL DEF Spec
<1>3. CASE OneKindOfReversal
  <2>1. TypeOK /\ Unused => Exclusive
    BY <1>3, OneKindExcludes
  <2>2. QED
    BY <1>1, <1>2, <2>1, Inductive, PTL
<1>4. CASE OneAtATime /\ NothingFree
  <2>1. Init => Exclusive
    BY DEF Init, Exclusive, CancelledHasNoReturns, Idle
  <2>2. IInv /\ Exclusive /\ [Next]_vars => Exclusive'
    BY <1>4, AloneExcludes
  <2>3. QED
    BY <1>2, <2>1, <2>2, Inductive, PTL DEF Spec
<1>5. QED
  BY <1>3, <1>4 DEF NoReversalRace

\* A shop in which cancels and returns cannot race keeps its word that the rest
\* of a bill with returned items is returned, never cancelled.
THEOREM CancelledHold == NoReversalRace => (Spec => []CancelledHasNoReturns)
<1> SUFFICES ASSUME NoReversalRace PROVE Spec => []CancelledHasNoReturns
  OBVIOUS
<1>1. Exclusive => CancelledHasNoReturns
  BY DEF Exclusive
<1>2. QED
  BY <1>1, Excludes, PTL

----------------------------------------------------------------------------
\* What the ledger sees of the bills.
Live == {o \in Orders : status[o] = "COMPLETED"}
Void == {o \in Orders : status[o] = "CANCELLED"}
Sold == [o \in Orders |-> IF status[o] = "none" THEN Nothing ELSE bill[o].qty]

LEMMA LedgerInit == Init => Book!Init
  BY DEF Init, Book!Init, Nothing, Book!Nothing

\* Saving a bill sells it.
LEMMA CreateSells ==
    ASSUME TypeOK, NEW r \in Requests, CommitCreate(r)
    PROVE  Book!Next
<1>0. PICK o \in Orders : o = req[r].order
  BY RequestFields DEF CommitCreate
<1>1. PICK qty \in Quantities : qty = bill[o].qty
  BY DEF TypeOK, BillBody
<1>2. /\ status[o] = "none" /\ status' = [status EXCEPT ![o] = "COMPLETED"]
      /\ stock' = [p \in Products |-> stock[p] - qty[p]]
      /\ UNCHANGED <<bill, returnedQty>>
  BY <1>0, <1>1 DEF CommitCreate, TakeStock
<1>3. o \notin Live \cup Void
  BY <1>2 DEF Live, Void
<1>4. Live' = Live \cup {o} /\ Void' = Void
  BY <1>1, <1>2 DEF TypeOK, Live, Void
<1>5. Sold' = [Sold EXCEPT ![o] = qty]
  BY <1>1, <1>2 DEF TypeOK, Sold
<1>6. Book!Sell(o, qty)
  BY <1>2, <1>3, <1>4, <1>5 DEF Book!Sell, Live, Void, Sold
<1>7. QED
  BY <1>6 DEF Book!Next

\* Cancelling voids a bill of which nothing came back.
LEMMA CancelVoids ==
    ASSUME TypeOK, Exclusive, NEW r \in Requests, CommitCancel(r)
    PROVE  Book!Next
<1>0. PICK o \in Orders : o = req[r].order
  BY RequestFields DEF CommitCancel, Handling
<1>2. /\ status[o] = "COMPLETED" /\ status' = [status EXCEPT ![o] = "CANCELLED"]
      /\ stock' = [p \in Products |-> stock[p] + bill[o].qty[p]]
      /\ UNCHANGED <<bill, returnedQty>>
  BY <1>0 DEF CommitCancel, StillCancellable, AddStock
<1>3. returnedQty[o] = Nothing
  BY <1>0 DEF Exclusive, CommitCancel, Handling
<1>4. Live' = Live \ {o} /\ Void' = Void \cup {o} /\ o \in Live
  BY <1>2 DEF TypeOK, Live, Void
<1>5. Sold' = Sold /\ Sold[o] = bill[o].qty
  BY <1>2 DEF TypeOK, Sold
<1>6. stock' = [p \in Products |-> stock[p] + Sold[o][p]]
  BY <1>2, <1>5
<1>7. Book!Cancel(o)
  BY <1>2, <1>3, <1>4, <1>5, <1>6
     DEF Book!Cancel, Live, Void, Sold, Nothing, Book!Nothing
<1>8. QED
  BY <1>7 DEF Book!Next

\* A committed return takes items of a live bill back, within what it sold.
LEMMA ReturnTakesBack ==
    ASSUME IInv, Exclusive,
           NEW r \in Requests, NEW c \in Counters, CommitReturn(r, c)
    PROVE  Book!Next
<1> DEFINE o == req[r].order
           qty == req[r].qty
<1>1. /\ TypeOK /\ RequestsFit /\ ReturnedWithinSold
      /\ req[r].op = "return" /\ ~Changed(r)
  BY DEF IInv, CommitReturn, Handling
<1>2. o \in Orders /\ qty \in Quantities
  BY <1>1, RequestFields
<1>3. /\ returnedQty' = [returnedQty EXCEPT ![o] = ItemsAfter(r)]
      /\ stock' = [p \in Products |-> stock[p] + qty[p]]
      /\ UNCHANGED <<bill, status>>
  BY DEF CommitReturn, AddStock
<1>4. status[o] = "COMPLETED"
  BY <1>1 DEF Exclusive
<1>5. o \in Live /\ Live' = Live /\ Void' = Void /\ Sold' = Sold /\ Sold[o] = bill[o].qty
  BY <1>2, <1>3, <1>4 DEF Live, Void, Sold
<1>6. ItemsAfter(r) = [p \in Products |-> returnedQty[o][p] + qty[p]]
  BY DEF ItemsAfter, Plus
<1>7. \A p \in Products : returnedQty[o][p] + qty[p] <= Sold[o][p]
  BY <1>1, <1>5, <1>6, ReturnFits
<1>8. returnedQty' = [returnedQty EXCEPT ![o] = [p \in Products |-> @[p] + qty[p]]]
  BY <1>3, <1>6
<1>9. Book!TakeBack(o, qty)
  BY <1>3, <1>5, <1>7, <1>8 DEF Book!TakeBack, Live, Void, Sold
<1>10. QED
  BY <1>2, <1>9 DEF Book!Next

LEMMA LedgerStep ==
    IInv /\ Exclusive /\ [Next]_vars => [Book!Next]_(Book!vars)
<1> SUFFICES ASSUME IInv, Exclusive, [Next]_vars
             PROVE  [Book!Next]_(Book!vars)
  OBVIOUS
<1>1. ASSUME UNCHANGED <<bill, status, returnedQty, stock>>
      PROVE  UNCHANGED Book!vars
  BY <1>1 DEF Book!vars
<1>2. CASE UNCHANGED vars
  BY <1>1, <1>2 DEF vars, orderVars
<1>3. CASE \E o \in Orders : Replay(o)
  BY <1>1, <1>3 DEF Replay, vars, orderVars
<1>4. ASSUME NEW r \in Requests,
             \/ \E o \in Orders : BeginCreate(r, o) \/ BeginSync(r, o) \/ BeginCancel(r, o)
             \/ \E o \in Orders, qty \in Quantities : BeginReturn(r, o, qty)
             \/ CloseUnchanged(r)
      PROVE  UNCHANGED Book!vars
  BY <1>1, <1>4 DEF BeginCreate, BeginSync, BeginCancel, BeginReturn, CloseUnchanged, orderVars
<1>5. ASSUME NEW r \in Requests,
             CommitCreate(r) \/ CommitCancel(r) \/ \E c \in Counters : CommitReturn(r, c)
      PROVE  Book!Next
  BY <1>5, CreateSells, CancelVoids, ReturnTakesBack DEF IInv
<1>6. QED
  BY <1>2, <1>3, <1>4, <1>5
     DEF Next, RefuseOutOfStock, SavedMeanwhile, RefuseNumberUsed, RefuseCancelled,
         RefuseChanged, Fail

\* A shop in which cancels and returns cannot race keeps the ledger's promise:
\* stock moves exactly once for every sale, return and cancel.
THEOREM LedgerKept == NoReversalRace => (Spec => KeepsLedger)
<1> SUFFICES ASSUME NoReversalRace PROVE Spec => KeepsLedger
  OBVIOUS
<1>1. QED
  BY LedgerInit, LedgerStep, Inductive, Excludes, PTL DEF Spec, KeepsLedger, Book!Spec

----------------------------------------------------------------------------
(***************************************************************************)
(* The stock that the bills leave.                                         *)
(***************************************************************************)
Kept(p) == [o \in Orders |-> Outstanding(o, p)]

KeptTypes == \A p \in Products, o \in Orders : Outstanding(o, p) \in Int

LEMMA KeptInt == TypeOK => KeptTypes
<1> SUFFICES ASSUME TypeOK PROVE KeptTypes
  OBVIOUS
<1>1. \A p \in Products, o \in Orders :
          bill[o].qty[p] \in Int /\ returnedQty[o][p] \in Int
  BY ConstantTypes DEF TypeOK, BillBody, Quantities
<1>2. QED
  BY <1>1 DEF Outstanding, KeptTypes

LEMMA KeptIntNext == TypeOK' => KeptTypes'
  BY KeptInt, PTL

LEMMA StockInit == Init => StockMatchesBills
<1> SUFFICES ASSUME Init, NEW p \in Products
             PROVE  stock[p] = InitStock[p] - SumFunction(Kept(p))
  BY DEF StockMatchesBills, Kept
<1>1. SumFunction(Kept(p)) = 0
  <2>1. DOMAIN Kept(p) = Orders /\ \A o \in Orders : Kept(p)[o] = 0
    BY DEF Init, Kept, Outstanding
  <2>2. QED
    BY <2>1, FiniteAssumption, TotalZero
<1>2. QED
  BY <1>1, ConstantTypes DEF Init

\* A commit that moves the stock of a product by what its bill's customer gives
\* back, and touches no other bill.
LEMMA StockMoves ==
    ASSUME TypeOK, TypeOK', StockMatchesBills, NEW p \in Products, NEW o \in Orders,
           \A s \in Orders : s # o => Outstanding(s, p)' = Outstanding(s, p),
           stock'[p] = stock[p] + (Outstanding(o, p) - Outstanding(o, p)')
    PROVE  stock'[p] = InitStock[p] - SumFunction(Kept(p)')
<1>1. \A s \in Orders : Outstanding(s, p) \in Int /\ Outstanding(s, p)' \in Int
  BY KeptInt, KeptIntNext DEF KeptTypes
<1> DEFINE f == Kept(p)
           g == Kept(p)'
<1>2. /\ DOMAIN f = Orders /\ DOMAIN g = Orders
      /\ \A s \in Orders : f[s] = Outstanding(s, p) /\ g[s] = Outstanding(s, p)'
  BY DEF Kept
<1>3. SumFunction(g) = SumFunction(f) + (g[o] - f[o]) /\ SumFunction(f) \in Int
  <2> HIDE DEF f, g
  <2>1. QED
    BY <1>1, <1>2, FiniteAssumption, TotalChanged, TotalInt
<1>4. stock[p] = InitStock[p] - SumFunction(f)
  BY DEF StockMatchesBills, Kept
<1>5. InitStock[p] \in Int /\ g[o] \in Int /\ f[o] \in Int
  BY <1>1, <1>2, ConstantTypes
<1>6. stock'[p] = stock[p] + (f[o] - g[o])
  BY <1>2
<1> HIDE DEF f, g
<1>7. stock'[p] = InitStock[p] - SumFunction(g)
  BY <1>3, <1>4, <1>5, <1>6
<1>8. QED
  BY <1>7 DEF g

LEMMA StockStep ==
    IInv /\ IInv' /\ Unused /\ Exclusive /\ StockMatchesBills /\ [Next]_vars
        => StockMatchesBills'
<1> SUFFICES ASSUME IInv, IInv', Unused, Exclusive, StockMatchesBills, [Next]_vars,
                    NEW p \in Products
             PROVE  stock'[p] = InitStock[p] - SumFunction(Kept(p)')
  BY DEF StockMatchesBills, Kept
<1>0. TypeOK /\ TypeOK'
  BY DEF IInv
<1>1. CASE UNCHANGED <<bill, orderVars, counterVars, creditNotes, stock>>
  BY <1>1 DEF StockMatchesBills, Kept, Outstanding, orderVars
<1>2. ASSUME NEW r \in Requests,
             CommitCreate(r) \/ CommitCancel(r) \/ \E c \in Counters : CommitReturn(r, c)
      PROVE  \E o \in Orders :
                /\ \A s \in Orders : s # o => Outstanding(s, p)' = Outstanding(s, p)
                /\ stock'[p] = stock[p] + (Outstanding(o, p) - Outstanding(o, p)')
  <2>0. PICK o \in Orders : o = req[r].order
    BY <1>0, <1>2, RequestFields DEF CommitCreate, CommitCancel, CommitReturn, Handling
  <2>1. /\ bill[o].qty[p] \in Int /\ stock[p] \in Int /\ returnedQty[o][p] \in Int
        /\ UNCHANGED bill
    BY <1>0, <1>2, ConstantTypes
       DEF TypeOK, BillBody, Quantities, CommitCreate, CommitCancel, CommitReturn
  <2>2. CASE CommitCreate(r)
    <3>1. /\ status[o] = "none" /\ status' = [status EXCEPT ![o] = "COMPLETED"]
          /\ UNCHANGED returnedQty /\ stock'[p] = stock[p] - bill[o].qty[p]
      BY <2>0, <2>2 DEF CommitCreate, TakeStock
    <3>2. returnedQty[o][p] = 0
      BY <3>1 DEF Unused, Nothing
    <3>3. /\ Outstanding(o, p) = 0 /\ Outstanding(o, p)' = bill[o].qty[p]
          /\ \A s \in Orders : s # o => Outstanding(s, p)' = Outstanding(s, p)
      BY <1>0, <2>1, <3>1, <3>2 DEF Outstanding, TypeOK
    <3>4. QED
      BY <2>1, <3>1, <3>3
  <2>3. CASE CommitCancel(r)
    <3>1. /\ status[o] = "COMPLETED" /\ status' = [status EXCEPT ![o] = "CANCELLED"]
          /\ UNCHANGED returnedQty /\ stock'[p] = stock[p] + bill[o].qty[p]
      BY <2>0, <2>3 DEF CommitCancel, StillCancellable, AddStock
    <3>2. returnedQty[o][p] = 0
      BY <2>0, <2>3 DEF CommitCancel, Handling, Exclusive, Nothing
    <3>3. /\ Outstanding(o, p)' = 0 /\ Outstanding(o, p) = bill[o].qty[p]
          /\ \A s \in Orders : s # o => Outstanding(s, p)' = Outstanding(s, p)
      BY <1>0, <2>1, <3>1, <3>2 DEF Outstanding, TypeOK
    <3>4. QED
      BY <2>1, <3>1, <3>3
  <2>4. ASSUME NEW c \in Counters, CommitReturn(r, c)
        PROVE  /\ \A s \in Orders : s # o => Outstanding(s, p)' = Outstanding(s, p)
               /\ stock'[p] = stock[p] + (Outstanding(o, p) - Outstanding(o, p)')
    <3>1. /\ status[o] = "COMPLETED" /\ UNCHANGED status
          /\ returnedQty' = [returnedQty EXCEPT ![o] = ItemsAfter(r)]
          /\ stock'[p] = stock[p] + req[r].qty[p]
      BY <2>0, <2>4 DEF CommitReturn, Handling, Exclusive, AddStock
    <3>2. returnedQty'[o][p] = returnedQty[o][p] + req[r].qty[p]
      BY <1>0, <2>0, <3>1 DEF ItemsAfter, Plus, TypeOK
    <3>3. req[r].qty[p] \in Int
      BY <1>0, <2>4, RequestFields, ConstantTypes DEF CommitReturn, Handling, Quantities
    <3>4. \A s \in Orders : s # o => Outstanding(s, p)' = Outstanding(s, p)
      BY <1>0, <2>1, <3>1 DEF Outstanding, TypeOK
    <3>5. /\ Outstanding(o, p) = bill[o].qty[p] - returnedQty[o][p]
          /\ Outstanding(o, p)' = bill[o].qty[p] - (returnedQty[o][p] + req[r].qty[p])
      BY <2>1, <3>1, <3>2 DEF Outstanding
    <3>6. QED
      BY <2>1, <3>1, <3>3, <3>4, <3>5
  <2>5. QED
    BY <1>2, <2>2, <2>3, <2>4
<1>3. QED
  BY <1>0, <1>1, <1>2, CommitOrQuiet, StockMoves

\* The branch's stock is the opening stock less what the customers of live bills
\* keep, in every shop in which cancels and returns cannot race.
THEOREM StockHolds == NoReversalRace => (Spec => []StockMatchesBills)
<1> SUFFICES ASSUME NoReversalRace PROVE Spec => []StockMatchesBills
  OBVIOUS
<1>1. QED
  BY StockInit, StockStep, Inductive, Excludes, PTL DEF Spec

----------------------------------------------------------------------------
(***************************************************************************)
(* The amounts of a bill.                                                  *)
(***************************************************************************)
\* Multiplying keeps an order.
LEMMA TimesKeepsOrder ==
    ASSUME NEW a \in Int, NEW b \in Int, NEW q \in Nat, a <= b
    PROVE  a * q <= b * q /\ q * a <= q * b
  OBVIOUS

\* What a quotient and a remainder are.
LEMMA Quotient ==
    ASSUME NEW x \in Int, NEW d \in Nat \ {0}
    PROVE  /\ x \div d \in Int /\ x % d \in 0..(d - 1)
           /\ x = (x \div d) * d + (x % d)
<1>1. x \div d \in Int
  OBVIOUS
<1>2. x % d \in 0..(d - 1)
  OBVIOUS
<1>3. x = (x \div d) * d + (x % d)
  OBVIOUS
<1>4. QED
  BY <1>1, <1>2, <1>3

\* A quotient is between those that its number is between.
LEMMA QuotientBetween ==
    ASSUME NEW x \in Int, NEW d \in Nat \ {0}, NEW m \in Int
    PROVE  /\ d * m <= x => m <= x \div d
           /\ x < d * m + d => x \div d <= m
  BY Quotient

\* Rounding keeps a number between whole ones it is between.
LEMMA RoundedBetween ==
    ASSUME NEW x \in Int, NEW y \in Nat \ {0}, NEW m \in Int
    PROVE  /\ Rounded(x, y) \in Int
           /\ m * y <= x => m <= Rounded(x, y)
           /\ x <= m * y => Rounded(x, y) <= m
  BY QuotientBetween DEF Rounded

\* A multiple of a function has the multiple of its sum.
LEMMA SumTimes ==
    ASSUME NEW f, NEW h, NEW c \in Int, NEW S, IsFiniteSet(S), \A x \in S : f[x] \in Int /\ h[x] = c * f[x]
    PROVE  Sum(h, S) = c * Sum(f, S)
<1> DEFINE P == {T \in SUBSET S : Sum(h, T) = c * Sum(f, T)}
<1>1. ASSUME NEW T \in SUBSET S, \A U \in SUBSET T : U # T => U \in P
      PROVE  T \in P
  <2>1. CASE T = {}
    BY <2>1, SumEmpty
  <2>2. CASE T # {}
    <3> DEFINE x == CHOOSE x \in T : TRUE
    <3>1. x \in T /\ IsFiniteSet(T) /\ IsFiniteSet(T \ {x})
      BY <2>2, FS_Subset
    <3>2. Sum(h, T \ {x}) = c * Sum(f, T \ {x})
      BY <1>1, <3>1
    <3>3. /\ Sum(f, T) = f[x] + Sum(f, T \ {x})
          /\ Sum(h, T) = h[x] + Sum(h, T \ {x})
      BY <2>2, <3>1, SumStep
    <3>4. Sum(f, T \ {x}) \in Int
      BY <3>1, SumInt
    <3>5. f[x] \in Int /\ h[x] = c * f[x]
      BY <3>1
    <3> HIDE DEF x
    <3>6. c * (f[x] + Sum(f, T \ {x})) = c * f[x] + c * Sum(f, T \ {x})
      BY <3>4, <3>5
    <3>7. QED
      BY <3>2, <3>3, <3>5, <3>6
  <2>3. QED
    BY <2>1, <2>2
<1>2. QED
  <2> HIDE DEF P
  <2>1. SUBSET S \subseteq P
    BY <1>1, SubsetInduction
  <2>2. QED
    BY <2>1 DEF P

\* Those that stand before i: more of a rest, or as much and earlier.
Preceding(rest, i) == {j \in DOMAIN rest : rest[j] > rest[i] \/ (rest[j] = rest[i] /\ j < i)}

\* As many have fewer than k before them as k says.
LEMMA RanksCount ==
    ASSUME NEW rest, DOMAIN rest \subseteq Int, IsFiniteSet(DOMAIN rest), \A i \in DOMAIN rest : rest[i] \in Int,
           NEW k \in 0..Cardinality(DOMAIN rest)
    PROVE  /\ \A i \in DOMAIN rest : Cardinality(Preceding(rest, i)) \in Nat
           /\ Cardinality({i \in DOMAIN rest : Cardinality(Preceding(rest, i)) < k}) = k
<1> DEFINE D == DOMAIN rest
           N == Cardinality(D)
           below == [i \in D |-> Preceding(rest, i)]
           place == [i \in D |-> Cardinality(below[i])]
<1>1. N \in Nat /\ k \in 0..N
  BY FS_CardinalityType
<1>2. \A i, j \in D : j \in below[i] <=> rest[j] > rest[i] \/ (rest[j] = rest[i] /\ j < i)
  BY DEF Preceding
<1>3. \A i \in D : below[i] \subseteq D /\ IsFiniteSet(below[i]) /\ Cardinality(below[i]) \in Nat
  BY FS_Subset, FS_CardinalityType DEF Preceding
<1>4. \A i \in D : rest[i] \in Int /\ i \in Int
  OBVIOUS
<1> HIDE DEF below
<1>5. \A i \in D : place[i] \in 0..(N - 1)
  <2> SUFFICES ASSUME NEW i \in D PROVE place[i] \in 0..(N - 1)
    OBVIOUS
  <2> DEFINE b == below[i]
  <2>1. b \subseteq D /\ b # D /\ Cardinality(b) \in Nat
    BY <1>2, <1>3, <1>4
  <2>2. place[i] = Cardinality(b)
    OBVIOUS
  <2> HIDE DEF b, N, place
  <2>3. Cardinality(b) <= N /\ (Cardinality(b) = N => b = D)
    BY <2>1, FS_Subset DEF N
  <2>4. QED
    BY <1>1, <2>1, <2>2, <2>3
<1>6. \A i, j \in D : j \in below[i] => place[j] < place[i]
  <2> SUFFICES ASSUME NEW i \in D, NEW j \in D, j \in below[i] PROVE place[j] < place[i]
    OBVIOUS
  <2> DEFINE a == below[i]
             b == below[j]
  <2>1. b \subseteq a /\ b # a
    <3>1. ASSUME NEW x \in b PROVE x \in a
      BY <1>2, <1>3, <1>4, <3>1
    <3>2. j \notin b /\ j \in a
      BY <1>2, <1>4
    <3>3. QED
      BY <3>1, <3>2
  <2>2. IsFiniteSet(a) /\ Cardinality(a) \in Nat /\ Cardinality(b) \in Nat /\ place[i] = Cardinality(a) /\ place[j] = Cardinality(b)
    BY <1>3
  <2> HIDE DEF a, b, place
  <2>3. Cardinality(b) <= Cardinality(a) /\ (Cardinality(b) = Cardinality(a) => b = a)
    BY <2>1, <2>2, FS_Subset
  <2>4. QED
    BY <2>1, <2>2, <2>3
<1>7. \A i, j \in D : i # j => j \in below[i] \/ i \in below[j]
  BY <1>2, <1>4
<1>8. \A i, j \in D : place[i] = place[j] => i = j
  <2> SUFFICES ASSUME NEW i \in D, NEW j \in D, place[i] = place[j], i # j PROVE FALSE
    OBVIOUS
  <2>1. place[i] \in Int /\ place[j] \in Int
    BY <1>5
  <2>2. place[i] < place[j] \/ place[j] < place[i]
    <3> HIDE DEF place
    <3>1. QED
      BY <1>6, <1>7
  <2> HIDE DEF place
  <2>3. QED
    BY <2>1, <2>2
<1> DEFINE R == 0..(N - 1)
<1>9. IsFiniteSet(R) /\ Cardinality(R) = N
  <2> HIDE DEF N
  <2>1. QED
    BY <1>1, FS_Interval
<1>10. place \in Injection(D, R)
  <2>1. place \in [D -> R]
    BY <1>5
  <2>2. QED
    BY <1>8, <2>1 DEF Injection, IsInjective
<1>11. place \in Surjection(D, R)
  <2> HIDE DEF place, D, R
  <2>1. Cardinality(D) = Cardinality(R)
    BY <1>9 DEF N
  <2>2. QED
    BY <1>9, <1>10, <2>1, FS_Injection
<1>12. \A m \in R : \E i \in D : place[i] = m
  <2> HIDE DEF place, R
  <2>1. QED
    BY <1>11 DEF Surjection
<1> DEFINE chosen == {i \in D : place[i] < k}
           few == 0..(k - 1)
           short == [i \in chosen |-> place[i]]
<1>13. short \in [chosen -> few]
  <2> SUFFICES ASSUME NEW i \in chosen PROVE place[i] \in few
    OBVIOUS
  <2>1. i \in D /\ place[i] < k /\ place[i] \in 0..(N - 1) /\ k \in Int /\ N \in Int
    BY <1>1, <1>5
  <2> HIDE DEF place, N
  <2>2. QED
    BY <2>1
<1>14. short \in Bijection(chosen, few)
  <2>1. \A x, y \in chosen : short[x] = short[y] => x = y
    <3> HIDE DEF place
    <3>1. QED
      BY <1>8
  <2>2. \A m \in few : \E i \in chosen : short[i] = m
    <3> SUFFICES ASSUME NEW m \in few PROVE \E i \in chosen : short[i] = m
      OBVIOUS
    <3>1. m \in R /\ m < k
      <4> HIDE DEF N
      <4>1. QED
        BY <1>1
    <3>2. PICK i \in D : place[i] = m
      BY <1>12, <3>1
    <3> HIDE DEF place
    <3>3. QED
      BY <3>1, <3>2
  <2> HIDE DEF short, chosen, few
  <2>3. QED
    BY <1>13, <2>1, <2>2 DEF Bijection, Injection, IsInjective, Surjection
<1>15. Cardinality(chosen) = k
  <2>1. IsFiniteSet(chosen)
    <3> HIDE DEF place
    <3>1. chosen \subseteq D
      OBVIOUS
    <3> HIDE DEF chosen
    <3>2. QED
      BY <3>1, FS_Subset
  <2>2. ExistsBijection(chosen, few)
    <3> HIDE DEF short, chosen, few
    <3>1. QED
      BY <1>14 DEF ExistsBijection
  <2>3. Cardinality(few) = k
    <3>1. k \in Nat
      BY <1>1
    <3>2. 0 \in Int /\ k - 1 \in Int
      BY <3>1
    <3>3. Cardinality(0..(k - 1)) = IF 0 > k - 1 THEN 0 ELSE (k - 1) - 0 + 1
      BY <3>2, FS_Interval
    <3>4. QED
      BY <3>1, <3>3
  <2> HIDE DEF chosen, few
  <2>4. QED
    BY <2>1, <2>2, <2>3, FS_Bijection
<1>16. \A i \in D : place[i] = Cardinality(Preceding(rest, i))
  BY DEF below
<1>17. chosen = {i \in D : Cardinality(Preceding(rest, i)) < k}
  <2> HIDE DEF place
  <2>1. QED
    BY <1>16
<1>18. \A i \in D : Cardinality(Preceding(rest, i)) \in Nat
  BY <1>3 DEF below
<1>19. QED
  BY <1>15, <1>17, <1>18

\* What Allocate works with: what each gets rounded down, and what is left over.
DownOf(amount, weights) == [i \in DOMAIN weights |-> (amount * weights[i]) \div SumFunction(weights)]
RestOf(amount, weights) == [i \in DOMAIN weights |-> (amount * weights[i]) % SumFunction(weights)]
LeftOf(amount, weights) == amount - SumFunction(DownOf(amount, weights))

\* Allocate gives the shares rounded down, and one more where the rest is largest.
LEMMA AllocateParts ==
    ASSUME NEW amount, NEW weights, SumFunction(weights) # 0
    PROVE  Allocate(amount, weights)
             = [i \in DOMAIN weights |->
                  DownOf(amount, weights)[i]
                    + IF Cardinality(Preceding(RestOf(amount, weights), i)) < LeftOf(amount, weights) THEN 1 ELSE 0]
<1> DEFINE sum == SumFunction(weights)
           down == [i \in DOMAIN weights |-> (amount * weights[i]) \div sum]
           rest(i) == (amount * weights[i]) % sum
           before(i) == {j \in DOMAIN weights : rest(j) > rest(i) \/ (rest(j) = rest(i) /\ j < i)}
           left == amount - SumFunction(down)
<1>1. Allocate(amount, weights)
        = [i \in DOMAIN weights |-> down[i] + IF Cardinality(before(i)) < left THEN 1 ELSE 0]
  BY DEF Allocate
<1>2. \A i \in DOMAIN weights : before(i) = Preceding(RestOf(amount, weights), i)
  <2> SUFFICES ASSUME NEW i \in DOMAIN weights PROVE before(i) = Preceding(RestOf(amount, weights), i)
    OBVIOUS
  <2>1. DOMAIN RestOf(amount, weights) = DOMAIN weights /\ \A j \in DOMAIN weights : RestOf(amount, weights)[j] = rest(j)
    BY DEF RestOf
  <2> HIDE DEF rest
  <2>2. QED
    BY <2>1 DEF Preceding
<1>3. down = DownOf(amount, weights) /\ left = LeftOf(amount, weights)
  BY DEF DownOf, LeftOf
<1> HIDE DEF down, left, before
<1>4. QED
  BY <1>1, <1>2, <1>3

\* What is left over after rounding down is less than there are with a rest.
LEMMA LeftOver ==
    ASSUME NEW amount \in Nat, NEW weights, IsFiniteSet(DOMAIN weights),
           \A i \in DOMAIN weights : weights[i] \in Nat, SumFunction(weights) \in Nat \ {0}
    PROVE  LET rest == RestOf(amount, weights)
               some == {i \in DOMAIN weights : rest[i] # 0}
           IN  /\ \A i \in DOMAIN weights : /\ rest[i] \in 0..(SumFunction(weights) - 1)
                                            /\ DownOf(amount, weights)[i] \in Int
                                            /\ amount * weights[i] = DownOf(amount, weights)[i] * SumFunction(weights) + rest[i]
               /\ SumFunction(DownOf(amount, weights)) \in Int
               /\ Cardinality(some) \in Nat
               /\ LeftOf(amount, weights) \in 0..Cardinality(some)
               /\ LeftOf(amount, weights) > 0 => LeftOf(amount, weights) < Cardinality(some)
<1> DEFINE D == DOMAIN weights
           s == SumFunction(weights)
           rest == RestOf(amount, weights)
           down == DownOf(amount, weights)
           some == {i \in D : rest[i] # 0}
           n == Cardinality(some)
           left == LeftOf(amount, weights)
<1>1. s \in Nat \ {0} /\ s \in Int
  OBVIOUS
<1>2. ASSUME NEW i \in D
      PROVE  /\ rest[i] \in 0..(s - 1) /\ down[i] \in Int
             /\ amount * weights[i] = down[i] * s + rest[i] /\ amount * weights[i] \in Int
  <2>1. weights[i] \in Nat /\ amount * weights[i] \in Int
    OBVIOUS
  <2>2. rest[i] = (amount * weights[i]) % s /\ down[i] = (amount * weights[i]) \div s
    BY DEF RestOf, DownOf
  <2> DEFINE x == amount * weights[i]
  <2> HIDE DEF x, rest, down, s
  <2>3. /\ x \div s \in Int /\ x % s \in 0..(s - 1)
        /\ x = (x \div s) * s + (x % s)
    BY <1>1, <2>1, Quotient DEF x
  <2>4. QED
    BY <2>1, <2>2, <2>3 DEF x
<1>3. DOMAIN rest = D /\ DOMAIN down = D /\ IsFiniteSet(D)
  BY DEF RestOf, DownOf
<1>4. \A i \in D : weights[i] \in Nat
  OBVIOUS
<1>5. s = Sum(weights, D)
  BY DEF SumFunction, Sum
<1>6. left = amount - SumFunction(down) /\ SumFunction(down) = Sum(down, D)
  BY <1>3 DEF LeftOf, SumFunction, Sum
<1> HIDE DEF s, rest, down, left, D
<1> DEFINE parts == [i \in D |-> amount * weights[i]]
           wholes == [i \in D |-> s * down[i]]
           most == [i \in some |-> s - 1]
           ones == [i \in some |-> 1]
<1>7. \A i \in D : parts[i] = amount * weights[i] /\ wholes[i] = s * down[i] /\ wholes[i] \in Int
  BY <1>1, <1>2
<1>8. \A i \in some : most[i] = (s - 1) * ones[i] /\ ones[i] = 1 /\ most[i] = s - 1
  BY <1>1
<1>9. some \subseteq D /\ IsFiniteSet(some) /\ \A i \in D : i \notin some => rest[i] = 0
  <2>1. some \subseteq D
    OBVIOUS
  <2>2. IsFiniteSet(some)
    <3> HIDE DEF some
    <3>1. QED
      BY <1>3, <2>1, FS_Subset
  <2>3. QED
    BY <2>1, <2>2
<1> HIDE DEF parts, wholes, most, ones, some
<1>10. Sum(parts, D) = amount * s
  <2>1. \A i \in D : weights[i] \in Int /\ parts[i] = amount * weights[i]
    BY <1>4, <1>7
  <2>2. QED
    BY <1>3, <1>5, <2>1, SumTimes
<1>11. Sum(wholes, D) = s * Sum(down, D)
  <2>1. \A i \in D : down[i] \in Int /\ wholes[i] = s * down[i]
    BY <1>2, <1>7
  <2>2. QED
    BY <1>1, <1>3, <2>1, SumTimes
<1>12. Sum(parts, D) = Sum(wholes, D) + Sum(rest, D)
  <2>1. \A i \in D : wholes[i] \in Int /\ rest[i] \in Int /\ parts[i] = wholes[i] + rest[i]
    <3> SUFFICES ASSUME NEW i \in D PROVE wholes[i] \in Int /\ rest[i] \in Int /\ parts[i] = wholes[i] + rest[i]
      OBVIOUS
    <3>1. down[i] * s = s * down[i]
      BY <1>1, <1>2
    <3>2. QED
      BY <1>1, <1>2, <1>7, <3>1
  <2>2. QED
    BY <1>3, <2>1, SumPlus
<1>13. Sum(rest, D) \in Nat
  <2>1. \A i \in D : rest[i] \in Nat
    BY <1>1, <1>2
  <2>2. QED
    BY <1>3, <2>1, SumNat
<1>14. n \in Nat /\ Sum(ones, some) = n
  BY <1>8, <1>9, SumOfOnes, FS_CardinalityType
<1>15. Sum(rest, D) = Sum(rest, some)
  <2>1. \A i \in D : rest[i] \in Int
    BY <1>1, <1>2
  <2>2. \A i \in D \ some : rest[i] = 0
    BY <1>9
  <2>3. QED
    BY <1>3, <1>9, <2>1, <2>2, SumOfRest
<1>16. Sum(rest, some) <= Sum(most, some)
  <2>1. \A i \in some : rest[i] \in Int /\ most[i] \in Int /\ rest[i] <= most[i]
    BY <1>1, <1>2, <1>8, <1>9
  <2>2. QED
    BY <1>9, <2>1, SumAtLeast
<1>17. Sum(most, some) = (s - 1) * n
  <2>1. \A i \in some : ones[i] \in Int /\ most[i] = (s - 1) * ones[i]
    BY <1>8
  <2>2. s - 1 \in Int
    BY <1>1
  <2>3. QED
    BY <1>9, <1>14, <2>1, <2>2, SumTimes
<1>18. Sum(down, D) \in Int
  BY <1>2, <1>3, SumInt
<1>19. left \in Int /\ left * s = Sum(rest, D)
  <2> DEFINE d == Sum(down, D)
  <2> HIDE DEF d
  <2>1. amount * s = s * d + Sum(rest, D)
    BY <1>10, <1>11, <1>12 DEF d
  <2>2. left = amount - d /\ d \in Int
    BY <1>6, <1>18 DEF d
  <2>3. (amount - d) * s = amount * s - s * d
    BY <1>1, <2>2
  <2>4. QED
    BY <1>1, <1>13, <2>1, <2>2, <2>3
<1>20. 0 <= left * s /\ left * s <= (s - 1) * n
  BY <1>13, <1>15, <1>16, <1>17, <1>19
<1>21. left >= 0
  <2> HIDE DEF n
  <2> SUFFICES ASSUME left <= -1 PROVE FALSE
    BY <1>19
  <2>1. left * s <= (-1) * s
    BY <1>1, <1>19, TimesKeepsOrder
  <2>2. QED
    BY <1>1, <1>19, <1>20, <2>1
<1>22. n > 0 => left < n
  <2> HIDE DEF n
  <2> SUFFICES ASSUME n > 0, n <= left PROVE FALSE
    BY <1>14, <1>19
  <2>1. n * s <= left * s
    BY <1>1, <1>14, <1>19, TimesKeepsOrder
  <2>2. (s - 1) * n = n * s - n
    BY <1>1, <1>14
  <2>3. QED
    BY <1>1, <1>14, <1>19, <1>20, <2>1, <2>2
<1>23. n = 0 => left = 0
  <2> HIDE DEF n
  <2> SUFFICES ASSUME n = 0, left >= 1 PROVE FALSE
    BY <1>19, <1>21
  <2>1. 1 * s <= left * s
    BY <1>1, <1>19, TimesKeepsOrder
  <2>2. QED
    BY <1>1, <1>14, <1>19, <1>20, <2>1
<1>24. left \in 0..n /\ (left > 0 => left < n)
  <2> HIDE DEF n
  <2>1. QED
    BY <1>14, <1>19, <1>21, <1>22, <1>23
<1>25. SumFunction(down) \in Int
  BY <1>6, <1>18
<1>26. QED
  BY <1>2, <1>14, <1>24, <1>25 DEF s, rest, down, left, D, some

\* Allocate gives away the whole amount, to none more than its weight.
LEMMA AllocateAllocates ==
    ASSUME NEW amount \in Nat, NEW weights, IsFiniteSet(DOMAIN weights), DOMAIN weights \subseteq Int,
           \A i \in DOMAIN weights : weights[i] \in Nat, amount <= SumFunction(weights)
    PROVE  /\ DOMAIN Allocate(amount, weights) = DOMAIN weights
           /\ \A i \in DOMAIN weights : Allocate(amount, weights)[i] \in 0..weights[i]
           /\ SumFunction(Allocate(amount, weights)) = amount
<1> DEFINE D == DOMAIN weights
           s == SumFunction(weights)
           shares == Allocate(amount, weights)
           rest == RestOf(amount, weights)
           down == DownOf(amount, weights)
           left == LeftOf(amount, weights)
           some == {i \in D : rest[i] # 0}
           first == {i \in D : Cardinality(Preceding(rest, i)) < left}
           extra == [i \in D |-> IF Cardinality(Preceding(rest, i)) < left THEN 1 ELSE 0]
<1>1. s \in Nat /\ s = Sum(weights, D)
  BY SumNat DEF SumFunction, Sum
<1>2. CASE s = 0
  <2>1. shares = [i \in D |-> 0]
    BY <1>2 DEF Allocate
  <2>2. amount = 0
    BY <1>1, <1>2
  <2>3. SumFunction(shares) = 0
    <3>1. DOMAIN shares = D /\ \A i \in D : shares[i] = 0
      BY <2>1
    <3> HIDE DEF shares
    <3>2. QED
      BY <3>1, TotalZero
  <2>4. QED
    BY <2>1, <2>2, <2>3
<1>3. CASE s # 0
  <2>1. s \in Nat \ {0}
    BY <1>1, <1>3
  <2>2. /\ \A i \in D : /\ rest[i] \in 0..(s - 1) /\ down[i] \in Int
                        /\ amount * weights[i] = down[i] * s + rest[i]
        /\ SumFunction(down) \in Int
        /\ Cardinality(some) \in Nat
        /\ left \in 0..Cardinality(some)
        /\ left > 0 => left < Cardinality(some)
    BY <2>1, LeftOver
  <2>3. DOMAIN rest = D /\ DOMAIN down = D /\ left = amount - SumFunction(down)
    BY DEF RestOf, DownOf, LeftOf
  <2>4. shares = [i \in D |-> down[i] + IF Cardinality(Preceding(rest, i)) < left THEN 1 ELSE 0]
    BY <2>1, AllocateParts
  <2>5. \A i \in D : weights[i] \in Nat
    OBVIOUS
  <2> HIDE DEF s, shares, rest, down, left, some
  <2>6. \A i \in D : extra[i] \in 0..1 /\ shares[i] = down[i] + extra[i] /\ (extra[i] = 1 <=> i \in first)
    BY <2>4
  <2>7. DOMAIN shares = D /\ DOMAIN extra = D
    BY <2>4
  <2>8. IsFiniteSet(D) /\ D \subseteq Int /\ IsFiniteSet(first) /\ first \subseteq D /\ IsFiniteSet(some) /\ some \subseteq D
    <3>1. first \subseteq D /\ some \subseteq D
      BY DEF some
    <3> HIDE DEF first
    <3>2. QED
      BY <3>1, FS_Subset
  <2>9. Cardinality(some) <= Cardinality(D) /\ Cardinality(D) \in Nat
    BY <2>8, FS_Subset, FS_CardinalityType
  <2>10. \A i \in D : rest[i] \in Int
    BY <2>1, <2>2
  <2>11. left \in 0..Cardinality(D) /\ left \in Int
    <3> HIDE DEF D
    <3>1. QED
      BY <2>2, <2>9
  <2>12. /\ \A i \in D : Cardinality(Preceding(rest, i)) \in Nat
         /\ Cardinality(first) = left
    <3> HIDE DEF D
    <3>1. DOMAIN rest \subseteq Int /\ IsFiniteSet(DOMAIN rest) /\ (\A i \in DOMAIN rest : rest[i] \in Int)
          /\ left \in 0..Cardinality(DOMAIN rest)
      BY <2>3, <2>8, <2>10, <2>11
    <3>2. (\A i \in DOMAIN rest : Cardinality(Preceding(rest, i)) \in Nat)
          /\ Cardinality({i \in DOMAIN rest : Cardinality(Preceding(rest, i)) < left}) = left
      BY <3>1, RanksCount
    <3>3. QED
      BY <2>3, <3>2
  <2> HIDE DEF D, extra, first
  <2>13. \A i \in D : rest[i] = 0 => i \notin first
    <3> SUFFICES ASSUME NEW i \in D, rest[i] = 0, i \in first PROVE FALSE
      OBVIOUS
    <3>1. some \subseteq Preceding(rest, i)
      <4> SUFFICES ASSUME NEW j \in some PROVE j \in Preceding(rest, i)
        OBVIOUS
      <4>1. j \in D /\ rest[j] # 0
        BY DEF some
      <4>2. rest[j] > rest[i]
        BY <2>1, <2>2, <4>1
      <4>3. QED
        BY <2>3, <4>1, <4>2 DEF Preceding
    <3>2. IsFiniteSet(Preceding(rest, i))
      <4>1. Preceding(rest, i) \subseteq D
        BY <2>3 DEF Preceding
      <4>2. QED
        BY <2>8, <4>1, FS_Subset
    <3>3. Cardinality(some) <= Cardinality(Preceding(rest, i))
      BY <3>1, <3>2, FS_Subset
    <3>4. Cardinality(Preceding(rest, i)) < left /\ Cardinality(Preceding(rest, i)) \in Nat
      BY <2>12 DEF first
    <3>5. QED
      BY <2>2, <2>11, <3>3, <3>4
  <2>14. ASSUME NEW i \in D PROVE shares[i] \in 0..weights[i]
    <3> DEFINE w == weights[i]
               d == down[i]
               r == rest[i]
    <3>1. w \in Nat /\ d \in Int /\ r \in 0..(s - 1) /\ amount * w = d * s + r /\ amount \in Nat /\ amount <= s
      BY <2>2, <2>5 DEF s
    <3>2. extra[i] \in 0..1 /\ shares[i] = d + extra[i] /\ (r = 0 => extra[i] = 0)
      BY <2>6, <2>13
    <3> HIDE DEF w, d, r
    <3>3. d >= 0
      <4> SUFFICES ASSUME d <= -1 PROVE FALSE
        BY <3>1
      <4>1. d * s <= (-1) * s
        BY <2>1, <3>1, TimesKeepsOrder
      <4>2. 0 * w <= amount * w
        BY <3>1, TimesKeepsOrder
      <4>3. QED
        BY <2>1, <3>1, <4>1, <4>2
    <3>4. amount * w <= s * w /\ s * w = w * s
      BY <2>1, <3>1, TimesKeepsOrder
    <3>5. d + extra[i] <= w
      <4>1. CASE d <= w - 1
        BY <3>1, <3>2, <4>1
      <4>2. CASE d >= w
        <5>1. w * s <= d * s
          BY <2>1, <3>1, <4>2, TimesKeepsOrder
        <5>2. d * s + r <= w * s
          BY <3>1, <3>4
        <5>3. w * s \in Int /\ d * s \in Int
          BY <2>1, <3>1
        <5>4. r = 0 /\ d * s = w * s
          BY <2>1, <3>1, <5>1, <5>2, <5>3
        <5>5. d <= w
          <6> SUFFICES ASSUME w + 1 <= d PROVE FALSE
            BY <3>1
          <6>1. (w + 1) * s <= d * s
            BY <2>1, <3>1, TimesKeepsOrder
          <6>2. (w + 1) * s = w * s + s
            BY <2>1, <3>1
          <6>3. QED
            BY <2>1, <5>3, <5>4, <6>1, <6>2
        <5>6. QED
          BY <3>1, <3>2, <5>4, <5>5
      <4>3. QED
        BY <3>1, <4>1, <4>2
    <3>6. shares[i] \in 0..w
      BY <3>1, <3>2, <3>3, <3>5
    <3>7. QED
      BY <3>6 DEF w
  <2>15. SumFunction(shares) = amount
    <3>1. SumFunction(shares) = Sum(shares, D) /\ SumFunction(down) = Sum(down, D)
      BY <2>3, <2>7 DEF SumFunction, Sum
    <3>2. Sum(shares, D) = Sum(down, D) + Sum(extra, D)
      <4>1. \A i \in D : down[i] \in Int /\ extra[i] \in Int /\ shares[i] = down[i] + extra[i]
        BY <2>2, <2>6
      <4>2. IsFiniteSet(D)
        BY <2>8
      <4>3. QED
        BY <4>1, <4>2, SumPlus
    <3>3. Sum(extra, D) = Sum(extra, first)
      <4>1. \A i \in D : extra[i] \in Int
        BY <2>6
      <4>2. \A i \in D \ first : extra[i] = 0
        BY <2>6
      <4>3. QED
        BY <2>8, <4>1, <4>2, SumOfRest
    <3>4. Sum(extra, first) = Cardinality(first)
      <4>1. \A i \in first : extra[i] = 1
        BY <2>6, <2>8
      <4>2. QED
        BY <2>8, <4>1, SumOfOnes
    <3>5. QED
      BY <2>2, <2>3, <2>11, <2>12, <3>1, <3>2, <3>3, <3>4
  <2>16. QED
    BY <2>7, <2>14, <2>15 DEF D, shares
<1>4. QED
  BY <1>2, <1>3

LineInput == [unitPrice : Nat, qtyMilli : Nat \ {0}, gstRateBp : Nat, taxInclusive : BOOLEAN]
Discount == [type : {"flat", "percent"}, value : Nat]

\* Rounding a number of nothing below zero gives nothing below zero.
LEMMA RoundedNat ==
    ASSUME NEW x \in Nat, NEW y \in Nat \ {0}
    PROVE  Rounded(x, y) \in Nat
<1>1. 0 * y <= x
  OBVIOUS
<1>2. Rounded(x, y) \in Int /\ 0 <= Rounded(x, y)
  BY <1>1, RoundedBetween
<1>3. QED
  BY <1>2

\* The price of a line is a natural number.
LEMMA GrossFits ==
    ASSUME NEW l \in LineInput
    PROVE  LineGross(l) \in Nat
<1>1. l.unitPrice \in Nat /\ l.qtyMilli \in Nat
  BY DEF LineInput
<1>2. l.unitPrice * l.qtyMilli \in Nat
  BY <1>1
<1>3. QED
  BY <1>2, RoundedNat DEF LineGross

\* A discount takes off no more than there is.
LEMMA DiscountFits ==
    ASSUME NEW subtotal \in Nat, NEW discount \in Discount
    PROVE  DiscountAmount(subtotal, discount) \in 0..subtotal
<1>1. discount.value \in Nat /\ discount.type \in {"flat", "percent"}
  BY DEF Discount
<1>2. CASE discount.type = "percent"
  <2> DEFINE v == IF discount.value < 10000 THEN discount.value ELSE 10000
  <2>1. DiscountAmount(subtotal, discount) = Rounded(subtotal * v, 10000)
    BY <1>2 DEF DiscountAmount
  <2>2. v \in 0..10000
    <3> DEFINE d == discount.value
    <3>1. d \in Nat /\ v = IF d < 10000 THEN d ELSE 10000
      BY <1>1
    <3> HIDE DEF d, v
    <3>2. QED
      BY <3>1
  <2> HIDE DEF v
  <2>3. subtotal * v \in Nat /\ subtotal * v <= subtotal * 10000
    BY <2>2, TimesKeepsOrder
  <2>4. Rounded(subtotal * v, 10000) \in Nat /\ Rounded(subtotal * v, 10000) <= subtotal
    <3>1. Rounded(subtotal * v, 10000) \in Nat
      BY <2>3, RoundedNat
    <3>2. Rounded(subtotal * v, 10000) <= subtotal
      BY <2>3, RoundedBetween
    <3>3. QED
      BY <3>1, <3>2
  <2>5. QED
    BY <2>1, <2>4
<1>3. CASE discount.type # "percent"
  BY <1>1, <1>3 DEF DiscountAmount
<1>4. QED
  BY <1>2, <1>3

\* What a line is taxed on and its tax: the tax inside a price is part of it,
\* and a tax on a price comes on top of it.
LEMMA TaxFits ==
    ASSUME NEW net \in Nat, NEW l \in LineInput, NEW taxEnabled \in BOOLEAN
    PROVE  LET t == TaxOf(net, l, taxEnabled)
           IN  /\ t.taxable \in 0..net /\ t.tax \in Nat
               /\ t.taxable + t.tax >= net
               /\ ~taxEnabled \/ l.taxInclusive => t.taxable + t.tax = net
<1> DEFINE rate == l.gstRateBp
           out == Rounded(net * 10000, 10000 + rate)
           on == Rounded(net * rate, 10000)
           t == TaxOf(net, l, taxEnabled)
<1>1. rate \in Nat /\ l.taxInclusive \in BOOLEAN
  BY DEF LineInput
<1>2. on \in Nat
  <2> HIDE DEF rate
  <2>1. net * rate \in Nat
    BY <1>1
  <2>2. QED
    BY <2>1, RoundedNat
<1>3. out \in 0..net
  <2> HIDE DEF rate
  <2>1. net * 10000 \in Nat /\ 10000 + rate \in Nat \ {0} /\ net * 10000 <= net * (10000 + rate)
    BY <1>1, TimesKeepsOrder
  <2> DEFINE up == net * 10000
             by == 10000 + rate
  <2>2. up \in Nat /\ by \in Nat \ {0} /\ up <= net * by
    BY <2>1
  <2>3. out = Rounded(up, by)
    OBVIOUS
  <2> HIDE DEF up, by, out
  <2>4. out \in Nat
    BY <2>2, <2>3, RoundedNat
  <2>5. out <= net
    BY <2>2, <2>3, RoundedBetween
  <2>6. QED
    BY <2>4, <2>5
<1> DEFINE Fits ==
               /\ t.taxable \in 0..net /\ t.tax \in Nat
               /\ t.taxable + t.tax >= net
               /\ ~taxEnabled \/ l.taxInclusive => t.taxable + t.tax = net
<1>4. CASE ~taxEnabled \/ rate = 0
  <2>1. t = [taxable |-> net, tax |-> 0]
    BY <1>4 DEF TaxOf
  <2> HIDE DEF t
  <2>2. t.taxable = net /\ t.tax = 0
    BY <2>1
  <2>3. Fits
    BY <2>2
  <2>4. QED
    BY <2>3 DEF t
<1>5. CASE ~(~taxEnabled \/ rate = 0) /\ l.taxInclusive
  <2>1. t = [taxable |-> net - (net - out), tax |-> net - out]
    BY <1>5 DEF TaxOf
  <2> HIDE DEF t, out
  <2>2. t.taxable = net - (net - out) /\ t.tax = net - out
    BY <2>1
  <2>3. Fits
    BY <1>3, <2>2
  <2>4. QED
    BY <2>3 DEF t
<1>6. CASE ~(~taxEnabled \/ rate = 0) /\ ~l.taxInclusive
  <2>1. t = [taxable |-> net, tax |-> on]
    BY <1>6 DEF TaxOf
  <2> HIDE DEF t, on
  <2>2. t.taxable = net /\ t.tax = on
    BY <2>1
  <2>3. Fits
    BY <1>2, <1>6, <2>2
  <2>4. QED
    BY <2>3 DEF t
<1>7. QED
  BY <1>1, <1>4, <1>5, <1>6

\* The amounts of one line.
LineAddsUp(taxed, interState, i) ==
    LET a == WithHalves(taxed, interState)[i]
        odd == Cardinality({j \in 1..(i - 1) : Odd(taxed[j].tax)})
    IN  /\ a = [taxable |-> a.taxable, cgst |-> a.cgst, sgst |-> a.sgst, igst |-> a.igst, total |-> a.total]
        /\ a.taxable = taxed[i].taxable /\ a.total = taxed[i].taxable + taxed[i].tax
        /\ a.cgst \in Nat /\ a.sgst \in Nat /\ a.igst \in Nat
        /\ a.cgst + a.sgst + a.igst = taxed[i].tax
        /\ interState => a.cgst = 0 /\ a.sgst = 0
        /\ ~interState => a.igst = 0
        /\ a.sgst - a.cgst = IF ~interState /\ Odd(taxed[i].tax) THEN (IF Odd(odd) THEN -1 ELSE 1) ELSE 0

\* The halves of a tax are it, and differ by its odd paisa.
LEMMA HalvesOfLine ==
    ASSUME NEW taxed, NEW interState, NEW i \in DOMAIN taxed, taxed[i].taxable \in Nat, taxed[i].tax \in Nat
    PROVE  LineAddsUp(taxed, interState, i)
<1> DEFINE tax == taxed[i].tax
           odd == Cardinality({j \in 1..(i - 1) : Odd(taxed[j].tax)})
           cgst == Half(tax) + IF Odd(tax) /\ Odd(odd) THEN 1 ELSE 0
           a == WithHalves(taxed, interState)[i]
<1>1. a = [taxable |-> taxed[i].taxable,
           cgst |-> IF interState THEN 0 ELSE cgst,
           sgst |-> IF interState THEN 0 ELSE tax - cgst,
           igst |-> IF interState THEN tax ELSE 0,
           total |-> taxed[i].taxable + tax]
  BY DEF WithHalves
<1>2. tax \in Nat /\ taxed[i].taxable \in Nat
  OBVIOUS
<1>3. /\ cgst \in 0..tax
      /\ (tax - cgst) - cgst = IF Odd(tax) THEN (IF Odd(odd) THEN -1 ELSE 1) ELSE 0
  <2> HIDE DEF odd, tax
  <2>1. tax = 2 * Half(tax) + (IF Odd(tax) THEN 1 ELSE 0) /\ Half(tax) \in Nat
    BY <1>2 DEF Half, Odd
  <2>2. cgst = Half(tax) + IF Odd(tax) /\ Odd(odd) THEN 1 ELSE 0
    OBVIOUS
  <2> DEFINE h == Half(tax)
  <2> HIDE DEF cgst, h
  <2>3. tax = 2 * h + (IF Odd(tax) THEN 1 ELSE 0) /\ h \in Nat
    BY <2>1 DEF h
  <2>4. cgst = h + IF Odd(tax) /\ Odd(odd) THEN 1 ELSE 0
    BY <2>2 DEF h
  <2>5. CASE Odd(tax)
    BY <1>2, <2>3, <2>4, <2>5
  <2>6. CASE ~Odd(tax)
    BY <1>2, <2>3, <2>4, <2>6
  <2>7. QED
    BY <2>5, <2>6
<1> HIDE DEF tax, odd, cgst, a
<1>4. /\ a.taxable = taxed[i].taxable /\ a.total = taxed[i].taxable + tax
      /\ a.cgst = (IF interState THEN 0 ELSE cgst) /\ a.sgst = (IF interState THEN 0 ELSE tax - cgst)
      /\ a.igst = (IF interState THEN tax ELSE 0)
  BY <1>1
<1>5. a = [taxable |-> a.taxable, cgst |-> a.cgst, sgst |-> a.sgst, igst |-> a.igst, total |-> a.total]
  BY <1>1
<1>6. CASE interState
  <2>1. a.cgst = 0 /\ a.sgst = 0 /\ a.igst = tax
    BY <1>4, <1>6
  <2>2. /\ a.cgst \in Nat /\ a.sgst \in Nat /\ a.igst \in Nat /\ a.cgst + a.sgst + a.igst = tax
        /\ a.sgst - a.cgst = 0
    BY <1>2, <2>1
  <2>3. QED
    BY <1>4, <1>5, <1>6, <2>1, <2>2 DEF LineAddsUp, a, tax
<1>7. CASE ~interState
  <2>1. a.cgst = cgst /\ a.sgst = tax - cgst /\ a.igst = 0
    BY <1>4, <1>7
  <2>2. /\ a.cgst \in Nat /\ a.sgst \in Nat /\ a.cgst + a.sgst + a.igst = tax
        /\ a.sgst - a.cgst = IF Odd(tax) THEN (IF Odd(odd) THEN -1 ELSE 1) ELSE 0
    BY <1>2, <1>3, <2>1
  <2>3. QED
    BY <1>4, <1>5, <1>7, <2>1, <2>2 DEF LineAddsUp, a, tax, odd
<1>8. QED
  BY <1>6, <1>7

\* How many of the first k lines have an odd tax.
OddsUpTo(taxed, k) == Cardinality({j \in 1..k : Odd(taxed[j].tax)})

\* One more line, one more odd tax at most.
LEMMA OddsCount ==
    ASSUME NEW taxed, NEW k \in Nat
    PROVE  /\ OddsUpTo(taxed, 0) = 0 /\ OddsUpTo(taxed, k) \in Nat
           /\ OddsUpTo(taxed, k + 1) = OddsUpTo(taxed, k) + IF Odd(taxed[k + 1].tax) THEN 1 ELSE 0
<1> DEFINE Odds(m) == {j \in 1..m : Odd(taxed[j].tax)}
<1>1. Odds(0) = {}
  OBVIOUS
<1>2. IsFiniteSet(Odds(k)) /\ Cardinality(Odds(k)) \in Nat
  <2>1. IsFiniteSet(1..k)
    BY FS_Interval
  <2>2. QED
    BY <2>1, FS_Subset, FS_CardinalityType
<1>3. Odds(k + 1) = IF Odd(taxed[k + 1].tax) THEN Odds(k) \cup {k + 1} ELSE Odds(k)
  <2>1. 1..(k + 1) = (1..k) \cup {k + 1}
    OBVIOUS
  <2>2. QED
    BY <2>1
<1>4. k + 1 \notin Odds(k)
  OBVIOUS
<1>5. Cardinality(Odds(k + 1)) = Cardinality(Odds(k)) + IF Odd(taxed[k + 1].tax) THEN 1 ELSE 0
  <2> DEFINE O == Odds(k)
  <2>1. IsFiniteSet(O) /\ Cardinality(O) \in Nat /\ k + 1 \notin O
    BY <1>2, <1>4
  <2>2. Odds(k + 1) = IF Odd(taxed[k + 1].tax) THEN O \cup {k + 1} ELSE O
    BY <1>3
  <2> HIDE DEF Odds, O
  <2>3. Cardinality(O \cup {k + 1}) = Cardinality(O) + 1
    BY <2>1, FS_AddElement
  <2>4. CASE Odd(taxed[k + 1].tax)
    BY <2>2, <2>3, <2>4 DEF O
  <2>5. CASE ~Odd(taxed[k + 1].tax)
    BY <2>1, <2>2, <2>5 DEF O
  <2>6. QED
    BY <2>4, <2>5
<1>6. OddsUpTo(taxed, 0) = Cardinality(Odds(0)) /\ OddsUpTo(taxed, k) = Cardinality(Odds(k))
      /\ OddsUpTo(taxed, k + 1) = Cardinality(Odds(k + 1))
  BY DEF OddsUpTo
<1> HIDE DEF Odds
<1>7. QED
  BY <1>1, <1>2, <1>5, <1>6, FS_EmptySet

\* After an odd number comes an even one, and after an even one an odd one.
LEMMA NextParity ==
    ASSUME NEW o \in Nat
    PROVE  /\ Odd(o) => o % 2 = 1 /\ (o + 1) % 2 = 0
           /\ ~Odd(o) => o % 2 = 0 /\ (o + 1) % 2 = 1
<1>1. o % 2 \in {0, 1}
  OBVIOUS
<1>2. o % 2 = 1 => (o + 1) % 2 = 0
  OBVIOUS
<1>3. o % 2 = 0 => (o + 1) % 2 = 1
  OBVIOUS
<1>4. QED
  BY <1>1, <1>2, <1>3 DEF Odd

\* Odd paise go to SGST and to CGST in turn: all but one cancel out.
LEMMA HalvesCancel ==
    ASSUME NEW n \in Nat, NEW taxed, \A i \in 1..n : taxed[i].tax \in Nat, NEW d,
           \A i \in 1..n : d[i] = IF Odd(taxed[i].tax) THEN (IF Odd(OddsUpTo(taxed, i - 1)) THEN -1 ELSE 1) ELSE 0
    PROVE  Sum(d, 1..n) \in {0, 1}
<1> DEFINE P == {k \in Nat : k <= n => Sum(d, 1..k) = OddsUpTo(taxed, k) % 2}
<1>1. 0 \in P
  <2>1. 1..0 = {}
    OBVIOUS
  <2>2. QED
    BY <2>1, SumEmpty, OddsCount
<1>2. ASSUME NEW k \in Nat, k \in P PROVE k + 1 \in P
  <2> SUFFICES ASSUME k + 1 <= n PROVE Sum(d, 1..(k + 1)) = OddsUpTo(taxed, k + 1) % 2
    OBVIOUS
  <2> DEFINE o == OddsUpTo(taxed, k)
  <2>1. Sum(d, 1..k) = o % 2
    BY <1>2
  <2>2. 1..(k + 1) = (1..k) \cup {k + 1} /\ k + 1 \notin 1..k /\ 1..(k + 1) \subseteq 1..n /\ k + 1 \in 1..n
    OBVIOUS
  <2>3. o \in Nat /\ OddsUpTo(taxed, k + 1) = o + IF Odd(taxed[k + 1].tax) THEN 1 ELSE 0
    BY OddsCount
  <2>4. d[k + 1] = IF Odd(taxed[k + 1].tax) THEN (IF Odd(o) THEN -1 ELSE 1) ELSE 0
    <3>1. (k + 1) - 1 = k
      OBVIOUS
    <3>2. d[k + 1] = IF Odd(taxed[k + 1].tax) THEN (IF Odd(OddsUpTo(taxed, (k + 1) - 1)) THEN -1 ELSE 1) ELSE 0
      BY <2>2
    <3>3. QED
      BY <3>1, <3>2
  <2>5. Sum(d, 1..(k + 1)) = d[k + 1] + Sum(d, 1..k)
    <3>1. \A i \in (1..k) \cup {k + 1} : d[i] \in Int
      <4> SUFFICES ASSUME NEW i \in 1..n PROVE d[i] \in Int
        BY <2>2
      <4>1. d[i] = IF Odd(taxed[i].tax) THEN (IF Odd(OddsUpTo(taxed, i - 1)) THEN -1 ELSE 1) ELSE 0
        OBVIOUS
      <4>2. QED
        BY <4>1
    <3>2. IsFiniteSet(1..k)
      BY FS_Interval
    <3>3. QED
      BY <2>2, <3>1, <3>2, SumAdded
  <2> HIDE DEF P, o
  <2>6. CASE Odd(taxed[k + 1].tax)
    <3>1. OddsUpTo(taxed, k + 1) = o + 1 /\ d[k + 1] = (IF Odd(o) THEN -1 ELSE 1)
      BY <2>3, <2>4, <2>6
    <3>2. o \in Nat
      BY <2>3
    <3>3. CASE Odd(o)
      <4>1. o % 2 = 1 /\ (o + 1) % 2 = 0 /\ d[k + 1] = -1
        BY <3>1, <3>2, <3>3, NextParity
      <4>2. QED
        BY <2>1, <2>5, <3>1, <4>1
    <3>4. CASE ~Odd(o)
      <4>1. o % 2 = 0 /\ (o + 1) % 2 = 1 /\ d[k + 1] = 1
        BY <3>1, <3>2, <3>4, NextParity
      <4>2. QED
        BY <2>1, <2>5, <3>1, <4>1
    <3>5. QED
      BY <3>3, <3>4
  <2>7. CASE ~Odd(taxed[k + 1].tax)
    <3>1. OddsUpTo(taxed, k + 1) = o /\ d[k + 1] = 0
      BY <2>3, <2>4, <2>7
    <3>2. o % 2 \in Int
      BY <2>3
    <3>3. QED
      BY <2>1, <2>5, <3>1, <3>2
  <2>8. QED
    BY <2>6, <2>7
<1>3. n \in P
  <2> HIDE DEF P
  <2>1. Nat \subseteq P
    BY <1>1, <1>2, NatSetInduction
  <2>2. QED
    BY <2>1
<1>4. Sum(d, 1..n) = OddsUpTo(taxed, n) % 2 /\ OddsUpTo(taxed, n) \in Nat
  BY <1>3, OddsCount
<1>5. QED
  BY <1>4

\* Lines to tax, and what each is taxed on together with its tax.
Taxable(taxed) == \A i \in DOMAIN taxed : taxed[i].taxable \in Nat /\ taxed[i].tax \in Nat
TaxablesOf(taxed) == [i \in DOMAIN taxed |-> taxed[i].taxable]
TotalsOf(taxed) == [i \in DOMAIN taxed |-> taxed[i].taxable + taxed[i].tax]

\* The sum of a part is that over the lines.
LEMMA PartSum ==
    ASSUME NEW amounts, NEW part
    PROVE  SumOf(part, amounts) = Sum([i \in DOMAIN amounts |-> amounts[i][part]], DOMAIN amounts)
  BY DEF SumOf, SumFunction, Sum

\* The amounts of taxed lines add up, line by line and for the whole bill.
LEMMA HalvesAddUp ==
    ASSUME NEW n \in Nat, NEW taxed, DOMAIN taxed = 1..n, Taxable(taxed), NEW interState \in BOOLEAN
    PROVE  LET billed == WithHalves(taxed, interState)
           IN  /\ DOMAIN billed = 1..n
               /\ PartsAddUp(billed)
               /\ SumOf("total", billed) = Sum(TotalsOf(taxed), 1..n)
               /\ SumOf("total", billed) - (SumOf("cgst", billed) + SumOf("sgst", billed) + SumOf("igst", billed))
                    = Sum(TaxablesOf(taxed), 1..n)
<1> DEFINE D == 1..n
           billed == WithHalves(taxed, interState)
           of(part) == [i \in D |-> billed[i][part]]
           dif == [i \in D |-> billed[i].sgst - billed[i].cgst]
           taxes == [i \in D |-> billed[i].cgst + billed[i].sgst]
           all == [i \in D |-> taxes[i] + billed[i].igst]
           taxables == TaxablesOf(taxed)
           totals == TotalsOf(taxed)
<1>1. DOMAIN billed = D /\ IsFiniteSet(D)
  BY FS_Interval DEF WithHalves
<1>2. ASSUME NEW i \in D
      PROVE  /\ billed[i] = [taxable |-> billed[i].taxable, cgst |-> billed[i].cgst, sgst |-> billed[i].sgst,
                           igst |-> billed[i].igst, total |-> billed[i].total]
             /\ billed[i].taxable = taxed[i].taxable /\ billed[i].total = taxed[i].taxable + taxed[i].tax
             /\ billed[i].cgst \in Nat /\ billed[i].sgst \in Nat /\ billed[i].igst \in Nat
             /\ billed[i].cgst + billed[i].sgst + billed[i].igst = taxed[i].tax
             /\ interState => billed[i].cgst = 0 /\ billed[i].sgst = 0
             /\ ~interState => billed[i].igst = 0
             /\ billed[i].sgst - billed[i].cgst
                  = IF ~interState /\ Odd(taxed[i].tax) THEN (IF Odd(OddsUpTo(taxed, i - 1)) THEN -1 ELSE 1) ELSE 0
             /\ taxed[i].taxable \in Nat /\ taxed[i].tax \in Nat
  <2>1. i \in DOMAIN taxed /\ taxed[i].taxable \in Nat /\ taxed[i].tax \in Nat
    BY DEF Taxable
  <2> DEFINE a == WithHalves(taxed, interState)[i]
             odd == Cardinality({j \in 1..(i - 1) : Odd(taxed[j].tax)})
  <2>2. LineAddsUp(taxed, interState, i)
    BY <2>1, HalvesOfLine
  <2>3. /\ a = [taxable |-> a.taxable, cgst |-> a.cgst, sgst |-> a.sgst, igst |-> a.igst, total |-> a.total]
        /\ a.taxable = taxed[i].taxable /\ a.total = taxed[i].taxable + taxed[i].tax
        /\ a.cgst \in Nat /\ a.sgst \in Nat /\ a.igst \in Nat
        /\ a.cgst + a.sgst + a.igst = taxed[i].tax
        /\ interState => a.cgst = 0 /\ a.sgst = 0
        /\ ~interState => a.igst = 0
        /\ a.sgst - a.cgst = IF ~interState /\ Odd(taxed[i].tax) THEN (IF Odd(odd) THEN -1 ELSE 1) ELSE 0
    BY <2>2, Zenon DEF LineAddsUp
  <2>4. odd = OddsUpTo(taxed, i - 1) /\ billed[i] = a
    BY DEF OddsUpTo
  <2> HIDE DEF billed, odd, a
  <2>5. QED
    BY <2>1, <2>3, <2>4
<1>3. \A i \in D : /\ taxables[i] = taxed[i].taxable /\ totals[i] = taxed[i].taxable + taxed[i].tax
  BY DEF TaxablesOf, TotalsOf
<1> HIDE DEF billed, taxables, totals
<1>4. \A i \in D : /\ billed[i].taxable \in Nat /\ billed[i].cgst \in Nat /\ billed[i].sgst \in Nat
                   /\ billed[i].igst \in Nat /\ billed[i].total \in Nat
                   /\ billed[i].total = billed[i].taxable + billed[i].cgst + billed[i].sgst + billed[i].igst
  <2> SUFFICES ASSUME NEW i \in D
               PROVE  /\ billed[i].taxable \in Nat /\ billed[i].cgst \in Nat /\ billed[i].sgst \in Nat
                      /\ billed[i].igst \in Nat /\ billed[i].total \in Nat
                      /\ billed[i].total = billed[i].taxable + billed[i].cgst + billed[i].sgst + billed[i].igst
    OBVIOUS
  <2>1. /\ billed[i].taxable = taxed[i].taxable /\ billed[i].total = taxed[i].taxable + taxed[i].tax
        /\ billed[i].cgst \in Nat /\ billed[i].sgst \in Nat /\ billed[i].igst \in Nat
        /\ billed[i].cgst + billed[i].sgst + billed[i].igst = taxed[i].tax
        /\ taxed[i].taxable \in Nat /\ taxed[i].tax \in Nat
    BY <1>2
  <2> DEFINE net == billed[i].taxable
             inState == billed[i].cgst
             ofState == billed[i].sgst
             across == billed[i].igst
  <2>2. /\ net \in Nat /\ inState \in Nat /\ ofState \in Nat /\ across \in Nat
        /\ billed[i].total = net + (inState + ofState + across)
    BY <2>1
  <2> HIDE DEF net, inState, ofState, across
  <2>3. net + (inState + ofState + across) \in Nat /\ net + (inState + ofState + across) = net + inState + ofState + across
    BY <2>2
  <2>4. QED
    BY <2>2, <2>3, Zenon DEF net, inState, ofState, across
<1>5. \A i \in D : \A part \in Parts : billed[i][part] >= 0
  <2> SUFFICES ASSUME NEW i \in D, NEW part \in Parts PROVE billed[i][part] >= 0
    OBVIOUS
  <2>1. /\ billed[i].taxable >= 0 /\ billed[i].cgst >= 0 /\ billed[i].sgst >= 0
        /\ billed[i].igst >= 0 /\ billed[i].total >= 0
    BY <1>4
  <2>2. part \in {"taxable", "cgst", "sgst", "igst", "total"}
    BY DEF Parts
  <2>3. QED
    BY <2>1, <2>2
<1>6. /\ \A i \in D : /\ of("cgst")[i] = billed[i].cgst /\ of("sgst")[i] = billed[i].sgst
                      /\ of("igst")[i] = billed[i].igst /\ of("total")[i] = billed[i].total
      /\ \A i \in D : dif[i] = billed[i].sgst - billed[i].cgst /\ taxes[i] = billed[i].cgst + billed[i].sgst
                      /\ all[i] = taxes[i] + billed[i].igst
  OBVIOUS
<1>7. /\ SumOf("cgst", billed) = Sum(of("cgst"), D) /\ SumOf("sgst", billed) = Sum(of("sgst"), D)
      /\ SumOf("igst", billed) = Sum(of("igst"), D) /\ SumOf("total", billed) = Sum(of("total"), D)
  BY <1>1, PartSum
<1> DEFINE c == of("cgst")
           s == of("sgst")
           g == of("igst")
           t == of("total")
<1> HIDE DEF dif, taxes, all, D, c, s, g, t
<1>8. /\ \A i \in D : /\ c[i] = billed[i].cgst /\ s[i] = billed[i].sgst /\ g[i] = billed[i].igst /\ t[i] = billed[i].total
      /\ \A i \in D : c[i] \in Int /\ s[i] \in Int /\ g[i] \in Int /\ t[i] \in Int
      /\ SumOf("cgst", billed) = Sum(c, D) /\ SumOf("sgst", billed) = Sum(s, D)
      /\ SumOf("igst", billed) = Sum(g, D) /\ SumOf("total", billed) = Sum(t, D)
  BY <1>4, <1>6, <1>7 DEF c, s, g, t
<1> HIDE DEF of
<1>9. Sum(c, D) \in Int /\ Sum(s, D) \in Int /\ Sum(g, D) \in Int /\ Sum(t, D) \in Int
  BY <1>1, <1>8, SumInt
<1>10. Sum(taxes, D) = Sum(c, D) + Sum(s, D)
  <2>1. \A i \in D : c[i] \in Int /\ s[i] \in Int /\ taxes[i] = c[i] + s[i]
    BY <1>6, <1>8
  <2>2. QED
    BY <1>1, <2>1, SumPlus
<1>11. Sum(all, D) = Sum(taxes, D) + Sum(g, D)
  <2>1. \A i \in D : taxes[i] \in Int /\ g[i] \in Int /\ all[i] = taxes[i] + g[i]
    BY <1>4, <1>6, <1>8
  <2>2. QED
    BY <1>1, <2>1, SumPlus
<1>12. Sum(t, D) = Sum(taxables, D) + Sum(all, D)
  <2>1. \A i \in D : taxables[i] \in Int /\ all[i] \in Int /\ t[i] = taxables[i] + all[i]
    <3> SUFFICES ASSUME NEW i \in D PROVE taxables[i] \in Int /\ all[i] \in Int /\ t[i] = taxables[i] + all[i]
      OBVIOUS
    <3>1. /\ taxables[i] = billed[i].taxable /\ t[i] = billed[i].total
          /\ all[i] = (billed[i].cgst + billed[i].sgst) + billed[i].igst
      BY <1>2, <1>3, <1>6, <1>8 DEF D
    <3>2. /\ billed[i].taxable \in Nat /\ billed[i].cgst \in Nat /\ billed[i].sgst \in Nat
          /\ billed[i].igst \in Nat /\ billed[i].total \in Nat
          /\ billed[i].total = billed[i].taxable + billed[i].cgst + billed[i].sgst + billed[i].igst
      BY <1>4
    <3>3. QED
      BY <3>1, <3>2
  <2>2. QED
    BY <1>1, <2>1, SumPlus
<1>13. Sum(t, D) = Sum(totals, D)
  <2>1. \A i \in D : t[i] = totals[i]
    BY <1>2, <1>3, <1>8 DEF D
  <2>2. QED
    BY <1>1, <2>1, SumEqual
<1>14. Sum(s, D) = Sum(c, D) + Sum(dif, D) /\ Sum(dif, D) \in Int
  <2>1. \A i \in D : c[i] \in Int /\ dif[i] \in Int /\ s[i] = c[i] + dif[i]
    <3> SUFFICES ASSUME NEW i \in D PROVE c[i] \in Int /\ dif[i] \in Int /\ s[i] = c[i] + dif[i]
      OBVIOUS
    <3>1. c[i] \in Int /\ s[i] \in Int /\ dif[i] = s[i] - c[i]
      BY <1>6, <1>8
    <3>2. QED
      BY <3>1
  <2>2. \A i \in D : dif[i] \in Int
    BY <2>1
  <2>3. QED
    BY <1>1, <2>1, <2>2, SumPlus, SumInt
<1>15. Sum(s, D) - Sum(c, D) \in {0, 1}
  <2>1. Sum(dif, D) \in {0, 1}
    <3>1. CASE interState
      <4>1. \A i \in D : dif[i] = 0
        BY <1>2, <1>6, <3>1 DEF D
      <4>2. QED
        BY <1>1, <4>1, SumZero
    <3>2. CASE ~interState
      <4>1. \A i \in 1..n : dif[i] = IF Odd(taxed[i].tax) THEN (IF Odd(OddsUpTo(taxed, i - 1)) THEN -1 ELSE 1) ELSE 0
        <5> SUFFICES ASSUME NEW i \in 1..n
                     PROVE  dif[i] = IF Odd(taxed[i].tax) THEN (IF Odd(OddsUpTo(taxed, i - 1)) THEN -1 ELSE 1) ELSE 0
          OBVIOUS
        <5>1. i \in D
          BY DEF D
        <5>2. billed[i].sgst - billed[i].cgst
                = IF Odd(taxed[i].tax) THEN (IF Odd(OddsUpTo(taxed, i - 1)) THEN -1 ELSE 1) ELSE 0
          BY <1>2, <3>2, <5>1
        <5>3. QED
          BY <1>6, <5>1, <5>2, Zenon
      <4>2. \A i \in 1..n : taxed[i].tax \in Nat
        BY DEF Taxable
      <4>3. QED
        BY <4>1, <4>2, HalvesCancel DEF D
    <3>3. QED
      BY <3>1, <3>2
  <2>2. QED
    BY <1>9, <1>14, <2>1
<1>16. Sum(g, D) # 0 => Sum(c, D) + Sum(s, D) = 0
  <2>1. CASE interState
    <3>1. \A i \in D : c[i] = 0 /\ s[i] = 0
      BY <1>2, <1>8, <2>1 DEF D
    <3>2. Sum(c, D) = 0 /\ Sum(s, D) = 0
      BY <1>1, <3>1, SumZero
    <3>3. QED
      BY <3>2
  <2>2. CASE ~interState
    <3>1. \A i \in D : g[i] = 0
      BY <1>2, <1>8, <2>2 DEF D
    <3>2. QED
      BY <1>1, <3>1, SumZero
  <2>3. QED
    BY <2>1, <2>2
<1>17. PartsAddUp(billed)
  <2>1. \A i \in D : billed[i].total = billed[i].taxable + billed[i].cgst + billed[i].sgst + billed[i].igst
    BY <1>4
  <2>2. QED
    BY <1>1, <1>5, <1>8, <1>15, <1>16, <2>1 DEF PartsAddUp
<1>18. SumOf("total", billed) - (SumOf("cgst", billed) + SumOf("sgst", billed) + SumOf("igst", billed)) = Sum(taxables, D)
  <2>1. Sum(taxables, D) \in Int
    <3>1. \A i \in D : taxed[i].taxable \in Nat
      BY <1>2 DEF D
    <3>2. \A i \in D : taxables[i] \in Int
      BY <1>3, <3>1 DEF D
    <3>3. QED
      BY <1>1, <3>2, SumInt
  <2>2. QED
    BY <1>8, <1>9, <1>10, <1>11, <1>12, <2>1
<1>19. QED
  BY <1>1, <1>8, <1>13, <1>17, <1>18 DEF D, billed, taxables, totals

\* What the first of a line's units are worth: nothing at first, in the end
\* what the line cost.
LEMMA CumulativeEnds ==
    ASSUME NEW amounts, NEW q \in Nat \ {0}, NEW m \in Int,
           \A part \in Parts : amounts[part] \in Int,
           amounts["total"] = amounts["taxable"] + amounts["cgst"] + amounts["sgst"] + amounts["igst"]
    PROVE  \A part \in Parts : /\ Cumulative(amounts, q, m)[part] \in Int
                               /\ Cumulative(amounts, q, 0)[part] = 0
                               /\ Cumulative(amounts, q, q)[part] = amounts[part]
<1> DEFINE f(part, k) == Rounded(amounts[part] * k, q)
<1>1. ASSUME NEW k \in Int
      PROVE  \A part \in Parts :
                Cumulative(amounts, q, k)[part]
                  = IF part = "sgst" THEN f("total", k) - f("taxable", k) - f("cgst", k) - f("igst", k) ELSE f(part, k)
  BY DEF Cumulative
<1>2. \A part \in Parts : \A k \in Int : f(part, k) \in Int
  <2> SUFFICES ASSUME NEW part \in Parts, NEW k \in Int PROVE f(part, k) \in Int
    OBVIOUS
  <2>1. amounts[part] * k \in Int
    OBVIOUS
  <2>2. QED
    BY <2>1, RoundedBetween
<1>3. \A part \in Parts : f(part, 0) = 0 /\ f(part, q) = amounts[part]
  <2> SUFFICES ASSUME NEW part \in Parts PROVE f(part, 0) = 0 /\ f(part, q) = amounts[part]
    OBVIOUS
  <2> DEFINE a == amounts[part]
  <2>1. a \in Int /\ a * 0 = 0 /\ a * q \in Int /\ 0 \in Int /\ 0 * q = 0
    OBVIOUS
  <2> HIDE DEF a
  <2>2. Rounded(0, q) \in Int /\ 0 <= Rounded(0, q) /\ Rounded(0, q) <= 0
    BY <2>1, RoundedBetween
  <2>3. Rounded(a * q, q) \in Int /\ a <= Rounded(a * q, q) /\ Rounded(a * q, q) <= a
    BY <2>1, RoundedBetween
  <2>4. Rounded(a * 0, q) = 0 /\ Rounded(a * q, q) = a
    BY <2>1, <2>2, <2>3
  <2>5. QED
    BY <2>4 DEF a
<1>4. q \in Int /\ 0 \in Int /\ {"taxable", "cgst", "sgst", "igst", "total"} = Parts
  BY DEF Parts
<1> HIDE DEF f
<1> SUFFICES ASSUME NEW part \in Parts
             PROVE  /\ Cumulative(amounts, q, m)[part] \in Int
                    /\ Cumulative(amounts, q, 0)[part] = 0
                    /\ Cumulative(amounts, q, q)[part] = amounts[part]
  OBVIOUS
<1>5. ASSUME NEW k \in Int PROVE Cumulative(amounts, q, k)[part] \in Int
  <2>1. f("total", k) \in Int /\ f("taxable", k) \in Int /\ f("cgst", k) \in Int /\ f("igst", k) \in Int /\ f(part, k) \in Int
    BY <1>2, <1>4
  <2>2. QED
    BY <1>1, <2>1
<1>6. CASE part # "sgst"
  <2>1. Cumulative(amounts, q, 0)[part] = f(part, 0) /\ Cumulative(amounts, q, q)[part] = f(part, q)
    BY <1>1, <1>4, <1>6
  <2>2. QED
    BY <1>3, <1>5, <2>1
<1>7. CASE part = "sgst"
  <2>1. /\ Cumulative(amounts, q, 0)[part] = f("total", 0) - f("taxable", 0) - f("cgst", 0) - f("igst", 0)
        /\ Cumulative(amounts, q, q)[part] = f("total", q) - f("taxable", q) - f("cgst", q) - f("igst", q)
    BY <1>1, <1>4, <1>7
  <2>2. /\ f("total", 0) = 0 /\ f("taxable", 0) = 0 /\ f("cgst", 0) = 0 /\ f("igst", 0) = 0
        /\ f("total", q) = amounts["total"] /\ f("taxable", q) = amounts["taxable"]
        /\ f("cgst", q) = amounts["cgst"] /\ f("igst", q) = amounts["igst"]
    BY <1>3, <1>4
  <2>3. /\ amounts["total"] \in Int /\ amounts["taxable"] \in Int /\ amounts["cgst"] \in Int
        /\ amounts["sgst"] \in Int /\ amounts["igst"] \in Int
    BY <1>4
  <2>4. QED
    BY <1>5, <1>7, <2>1, <2>2, <2>3
<1>8. QED
  BY <1>6, <1>7

\* Two returns that give a line back between them are worth what it cost.
LEMMA ReturnsTelescope ==
    ASSUME NEW amounts, NEW q \in Nat \ {0}, \A part \in Parts : amounts[part] \in Int,
           amounts["total"] = amounts["taxable"] + amounts["cgst"] + amounts["sgst"] + amounts["igst"]
    PROVE  ReturnsAddUp(amounts, q)
<1> SUFFICES ASSUME NEW m \in {1, q \div 3, q - 1}, NEW part \in Parts
             PROVE  ReturnAmounts(amounts, q, 0, m)[part] + ReturnAmounts(amounts, q, m, q - m)[part] = amounts[part]
  BY DEF ReturnsAddUp
<1>1. m \in Int /\ 0 + m = m /\ m + (q - m) = q
  OBVIOUS
<1>2. /\ Cumulative(amounts, q, m)[part] \in Int
      /\ Cumulative(amounts, q, 0)[part] = 0
      /\ Cumulative(amounts, q, q)[part] = amounts[part]
  BY <1>1, CumulativeEnds
<1>3. /\ ReturnAmounts(amounts, q, 0, m)[part] = Cumulative(amounts, q, 0 + m)[part] - Cumulative(amounts, q, 0)[part]
      /\ ReturnAmounts(amounts, q, m, q - m)[part]
           = Cumulative(amounts, q, m + (q - m))[part] - Cumulative(amounts, q, m)[part]
  BY DEF ReturnAmounts
<1>4. amounts[part] \in Int
  OBVIOUS
<1>5. QED
  BY <1>1, <1>2, <1>3, <1>4

\* A supplier's bill adds up.
LEMMA PurchaseAddsUp ==
    ASSUME NEW n \in Nat, NEW some, DOMAIN some = 1..n, \A i \in 1..n : some[i] \in LineInput,
           NEW interState \in BOOLEAN
    PROVE  PartsAddUp(ComputePurchase(some, interState))
<1> DEFINE taxed == [i \in DOMAIN some |->
                        LET taxable == LineGross(some[i])
                        IN  [taxable |-> taxable, tax |-> Rounded(taxable * some[i].gstRateBp, 10000)]]
<1>1. \A i \in 1..n : taxed[i].taxable \in Nat /\ taxed[i].tax \in Nat
  <2> SUFFICES ASSUME NEW i \in 1..n PROVE taxed[i].taxable \in Nat /\ taxed[i].tax \in Nat
    OBVIOUS
  <2> DEFINE gross == LineGross(some[i])
             rate == some[i].gstRateBp
  <2>1. gross \in Nat /\ rate \in Nat
    BY GrossFits DEF LineInput
  <2>2. taxed[i].taxable = gross /\ taxed[i].tax = Rounded(gross * rate, 10000)
    OBVIOUS
  <2> HIDE DEF gross, rate, taxed
  <2>3. gross * rate \in Nat
    BY <2>1
  <2>4. QED
    BY <2>1, <2>2, <2>3, RoundedNat
<1>2. DOMAIN taxed = 1..n /\ ComputePurchase(some, interState) = WithHalves(taxed, interState)
  BY DEF ComputePurchase
<1> HIDE DEF taxed
<1>3. Taxable(taxed)
  BY <1>1, <1>2 DEF Taxable
<1>4. PartsAddUp(WithHalves(taxed, interState))
  BY <1>2, <1>3, HalvesAddUp
<1>5. QED
  BY <1>2, <1>4

\* A customer's bill adds up, to the price less the discount, and its lines
\* come back for what they cost.
LEMMA CustomerBillAddsUp ==
    ASSUME NEW n \in Nat, NEW some, DOMAIN some = 1..n, \A i \in 1..n : some[i] \in LineInput,
           NEW discount \in Discount, NEW taxEnabled \in BOOLEAN, NEW interState \in BOOLEAN
    PROVE  LET subtotal == SumFunction([i \in DOMAIN some |-> LineGross(some[i])])
               billed == ComputeBill(some, discount, taxEnabled, interState)
               off == DiscountAmount(subtotal, discount)
               net == SumOf("total", billed) - (SumOf("cgst", billed) + SumOf("sgst", billed) + SumOf("igst", billed))
               priced == taxEnabled /\ \E i \in DOMAIN some : ~some[i].taxInclusive
           IN  /\ PartsAddUp(billed)
               /\ IF priced THEN net <= subtotal - off /\ SumOf("total", billed) >= subtotal - off
                  ELSE SumOf("total", billed) = subtotal - off
               /\ \A i \in DOMAIN some : ReturnsAddUp(billed[i], some[i].qtyMilli)
<1> DEFINE D == 1..n
           gross == [i \in DOMAIN some |-> LineGross(some[i])]
           subtotal == SumFunction(gross)
           off == DiscountAmount(subtotal, discount)
           shares == Allocate(off, gross)
           taxed == [i \in DOMAIN some |-> TaxOf(gross[i] - shares[i], some[i], taxEnabled)]
           billed == ComputeBill(some, discount, taxEnabled, interState)
           net == SumOf("total", billed) - (SumOf("cgst", billed) + SumOf("sgst", billed) + SumOf("igst", billed))
           priced == taxEnabled /\ \E i \in DOMAIN some : ~some[i].taxInclusive
           paid == [i \in D |-> gross[i] - shares[i]]
<1>1. IsFiniteSet(D) /\ D \subseteq Int /\ DOMAIN some = D
  BY FS_Interval
<1>2. \A i \in D : some[i] \in LineInput
  OBVIOUS
<1>3. DOMAIN gross = D /\ \A i \in D : gross[i] \in Nat
  <2> SUFFICES ASSUME NEW i \in D PROVE LineGross(some[i]) \in Nat
    OBVIOUS
  <2>1. QED
    BY GrossFits
<1>4. billed = WithHalves(taxed, interState)
  BY DEF ComputeBill
<1>5. DOMAIN taxed = D /\ \A i \in D : taxed[i] = TaxOf(gross[i] - shares[i], some[i], taxEnabled)
  BY <1>1
<1>6. \A i \in D : paid[i] = gross[i] - shares[i]
  OBVIOUS
<1> HIDE DEF D, gross, billed, taxed, paid, shares
<1>7. subtotal \in Nat /\ subtotal = Sum(gross, D)
  <2>1. subtotal = Sum(gross, D)
    BY <1>3 DEF SumFunction, Sum
  <2>2. QED
    BY <1>1, <1>3, <2>1, SumNat
<1>8. off \in 0..subtotal
  BY <1>7, DiscountFits
<1>9. /\ DOMAIN shares = D
      /\ \A i \in D : shares[i] \in 0..gross[i]
      /\ SumFunction(shares) = off
  <2> DEFINE o == off
  <2>1. o \in Nat /\ o <= SumFunction(gross)
    BY <1>7, <1>8
  <2> HIDE DEF o
  <2>2. /\ DOMAIN Allocate(o, gross) = DOMAIN gross
        /\ \A i \in DOMAIN gross : Allocate(o, gross)[i] \in 0..gross[i]
        /\ SumFunction(Allocate(o, gross)) = o
    BY <1>1, <1>3, <2>1, AllocateAllocates
  <2>3. QED
    BY <1>3, <2>2 DEF shares, o
<1> HIDE DEF off, subtotal
<1>10. \A i \in D : paid[i] \in Nat
  <2> SUFFICES ASSUME NEW i \in D PROVE paid[i] \in Nat
    OBVIOUS
  <2>1. paid[i] = gross[i] - shares[i] /\ gross[i] \in Nat /\ shares[i] \in 0..gross[i]
    BY <1>3, <1>6, <1>9
  <2>2. QED
    BY <2>1
<1>11. ASSUME NEW i \in D
       PROVE  /\ taxed[i].taxable \in 0..paid[i] /\ taxed[i].tax \in Nat
              /\ taxed[i].taxable + taxed[i].tax >= paid[i]
              /\ ~taxEnabled \/ some[i].taxInclusive => taxed[i].taxable + taxed[i].tax = paid[i]
  <2>1. taxed[i] = TaxOf(paid[i], some[i], taxEnabled) /\ paid[i] \in Nat /\ some[i] \in LineInput
    BY <1>2, <1>5, <1>6, <1>10
  <2>2. QED
    BY <2>1, TaxFits
<1>12. Taxable(taxed)
  <2> SUFFICES ASSUME NEW i \in D PROVE taxed[i].taxable \in Nat /\ taxed[i].tax \in Nat
    BY <1>5 DEF Taxable
  <2>1. taxed[i].taxable \in 0..paid[i] /\ taxed[i].tax \in Nat /\ paid[i] \in Nat
    BY <1>10, <1>11
  <2>2. QED
    BY <2>1
<1>13. /\ DOMAIN billed = D
       /\ PartsAddUp(billed)
       /\ SumOf("total", billed) = Sum(TotalsOf(taxed), D)
       /\ net = Sum(TaxablesOf(taxed), D)
  <2>1. DOMAIN taxed = 1..n
    BY <1>5 DEF D
  <2>2. LET halved == WithHalves(taxed, interState)
        IN  /\ DOMAIN halved = 1..n
            /\ PartsAddUp(halved)
            /\ SumOf("total", halved) = Sum(TotalsOf(taxed), 1..n)
            /\ SumOf("total", halved) - (SumOf("cgst", halved) + SumOf("sgst", halved) + SumOf("igst", halved))
                 = Sum(TaxablesOf(taxed), 1..n)
    BY <1>12, <2>1, HalvesAddUp
  <2>3. QED
    BY <1>4, <2>2 DEF D
<1>14. Sum(gross, D) = Sum(paid, D) + off
  <2>1. Sum(shares, D) = off
    BY <1>9 DEF SumFunction, Sum
  <2>2. \A i \in D : paid[i] \in Int /\ shares[i] \in Int /\ gross[i] = paid[i] + shares[i]
    <3> SUFFICES ASSUME NEW i \in D PROVE paid[i] \in Int /\ shares[i] \in Int /\ gross[i] = paid[i] + shares[i]
      OBVIOUS
    <3>1. paid[i] = gross[i] - shares[i] /\ gross[i] \in Nat /\ shares[i] \in 0..gross[i]
      BY <1>3, <1>6, <1>9
    <3>2. QED
      BY <3>1
  <2>3. Sum(gross, D) = Sum(paid, D) + Sum(shares, D)
    BY <1>1, <2>2, SumPlus
  <2>4. QED
    BY <2>1, <2>3
<1> DEFINE totals == TotalsOf(taxed)
           taxables == TaxablesOf(taxed)
<1>15. \A i \in D : totals[i] = taxed[i].taxable + taxed[i].tax /\ taxables[i] = taxed[i].taxable
  BY <1>5 DEF TotalsOf, TaxablesOf
<1> HIDE DEF totals, taxables
<1>16. \A i \in D : /\ totals[i] \in Int /\ taxables[i] \in Int /\ paid[i] \in Int
                    /\ taxables[i] <= paid[i] /\ paid[i] <= totals[i]
                    /\ (~taxEnabled \/ some[i].taxInclusive => totals[i] = paid[i])
  <2> SUFFICES ASSUME NEW i \in D
               PROVE  /\ totals[i] \in Int /\ taxables[i] \in Int /\ paid[i] \in Int
                      /\ taxables[i] <= paid[i] /\ paid[i] <= totals[i]
                      /\ (~taxEnabled \/ some[i].taxInclusive => totals[i] = paid[i])
    OBVIOUS
  <2>1. paid[i] \in Nat /\ totals[i] = taxed[i].taxable + taxed[i].tax /\ taxables[i] = taxed[i].taxable
    BY <1>10, <1>15
  <2>2. /\ taxed[i].taxable \in 0..paid[i] /\ taxed[i].tax \in Nat
        /\ taxed[i].taxable + taxed[i].tax >= paid[i]
    BY <1>11
  <2>3. ~taxEnabled \/ some[i].taxInclusive => totals[i] = paid[i]
    BY <1>11, <2>1
  <2>4. QED
    BY <2>1, <2>2, <2>3
<1>17. Sum(totals, D) \in Int /\ Sum(taxables, D) \in Int /\ Sum(paid, D) \in Int
  BY <1>1, <1>16, SumInt
<1>18. Sum(taxables, D) <= Sum(paid, D) /\ Sum(paid, D) <= Sum(totals, D)
  <2>1. Sum(taxables, D) <= Sum(paid, D)
    BY <1>1, <1>16, SumAtLeast
  <2>2. Sum(paid, D) <= Sum(totals, D)
    BY <1>1, <1>16, SumAtLeast
  <2>3. QED
    BY <2>1, <2>2
<1>19. Sum(paid, D) = subtotal - off
  BY <1>7, <1>8, <1>14, <1>17
<1>20. IF priced THEN net <= subtotal - off /\ SumOf("total", billed) >= subtotal - off
       ELSE SumOf("total", billed) = subtotal - off
  <2>1. net = Sum(taxables, D) /\ SumOf("total", billed) = Sum(totals, D)
    BY <1>13 DEF totals, taxables
  <2> HIDE DEF net
  <2>2. CASE priced
    <3>1. net <= subtotal - off /\ SumOf("total", billed) >= subtotal - off
      BY <1>17, <1>18, <1>19, <2>1
    <3>2. QED
      BY <2>2, <3>1
  <2>3. CASE ~priced
    <3>1. \A i \in D : ~taxEnabled \/ some[i].taxInclusive
      BY <1>1, <2>3
    <3>2. \A i \in D : totals[i] = paid[i]
      BY <1>16, <3>1
    <3>3. Sum(totals, D) = Sum(paid, D)
      BY <1>1, <3>2, SumEqual
    <3>4. SumOf("total", billed) = subtotal - off
      BY <1>19, <2>1, <3>3
    <3>5. QED
      BY <2>3, <3>4
  <2>4. QED
    BY <2>2, <2>3
<1>21. ASSUME NEW i \in DOMAIN some PROVE ReturnsAddUp(billed[i], some[i].qtyMilli)
  <2>1. i \in DOMAIN taxed /\ taxed[i].taxable \in Nat /\ taxed[i].tax \in Nat /\ i \in D
    BY <1>1, <1>5, <1>12 DEF Taxable
  <2>2. LineAddsUp(taxed, interState, i)
    BY <2>1, HalvesOfLine
  <2> DEFINE a == billed[i]
  <2>3. /\ a.taxable = taxed[i].taxable /\ a.total = taxed[i].taxable + taxed[i].tax
        /\ a.cgst \in Nat /\ a.sgst \in Nat /\ a.igst \in Nat
        /\ a.cgst + a.sgst + a.igst = taxed[i].tax
    BY <1>4, <2>2 DEF LineAddsUp
  <2> HIDE DEF a
  <2>4. /\ \A part \in Parts : a[part] \in Int
        /\ a["total"] = a["taxable"] + a["cgst"] + a["sgst"] + a["igst"]
    BY <2>1, <2>3 DEF Parts
  <2>5. some[i].qtyMilli \in Nat \ {0}
    BY <1>2, <2>1 DEF LineInput
  <2>6. ReturnsAddUp(a, some[i].qtyMilli)
    BY <2>4, <2>5, ReturnsTelescope
  <2>7. QED
    BY <2>6 DEF a
<1>22. QED
  BY <1>13, <1>20, <1>21 DEF subtotal, gross, off, billed

----------------------------------------------------------------------------
\* The inputs of a bill stay lines, a discount and a shop.
BillInputsOK == basket \in Seq(LineInput) /\ deal \in Discount /\ registered \in BOOLEAN

\* What a run computes from is what the handlers let through.
LEMMA BillInputsFit == CalculationsSpec => []BillInputsOK
<1> USE CalculationsAssumption
<1>1. LineInputs \subseteq LineInput /\ Discounts \subseteq Discount /\ Discounts # {} /\ BillLines \in Nat
  BY DEF LineInput, Discount
<1>2. CalculationsInit => BillInputsOK
  <2> SUFFICES ASSUME CalculationsInit PROVE BillInputsOK
    OBVIOUS
  <2>1. CASE NoBill
    <3>1. (CHOOSE d \in Discounts : TRUE) \in Discounts
      BY <1>1
    <3>2. basket = <<>> /\ deal \in Discounts /\ registered = FALSE
      BY <2>1, <3>1 DEF NoBill
    <3>3. <<>> \in Seq(LineInput)
      OBVIOUS
    <3>4. deal \in Discount
      BY <1>1, <3>2
    <3>5. QED
      BY <3>2, <3>3, <3>4 DEF BillInputsOK
  <2>2. CASE Bill
    <3>1. PICK n \in 1..BillLines : basket \in [1..n -> LineInputs]
      BY <2>2 DEF Bill
    <3>2. basket \in [1..n -> LineInput] /\ n \in Nat
      BY <1>1, <3>1
    <3>3. basket \in Seq(LineInput)
      BY <3>2
    <3>4. QED
      BY <1>1, <2>2, <3>3 DEF Bill, BillInputsOK
  <2>3. QED
    BY <2>1, <2>2 DEF CalculationsInit
<1>3. BillInputsOK /\ [CalculationsNext]_<<planInputs, billInputs>> => BillInputsOK'
  BY DEF BillInputsOK, CalculationsNext, Ask, Reckon, planInputs, billInputs
<1>4. QED
  BY <1>2, <1>3, PTL DEF CalculationsSpec

\* BillAddsUp, for lines of any prices, quantities and rates, however many,
\* and any discount: the paise of a discount, a tax and its halves are all
\* somewhere, and returns give back what was paid.
THEOREM BillsAddUp == CalculationsSpec => []BillAddsUp
<1>1. BillInputsOK => BillAddsUp
  <2> SUFFICES ASSUME BillInputsOK PROVE BillAddsUp
    OBVIOUS
  <2> DEFINE n == Len(basket)
             interState == InterState(IF registered THEN "KA" ELSE "", customerState)
  <2>1. n \in Nat /\ DOMAIN basket = 1..n /\ \A i \in 1..n : basket[i] \in LineInput
    BY DEF BillInputsOK
  <2>2. deal \in Discount /\ registered \in BOOLEAN /\ interState \in BOOLEAN
    BY DEF BillInputsOK, InterState
  <2> HIDE DEF n
  <2>3. PartsAddUp(ComputePurchase(basket, interState))
    BY <2>1, <2>2, PurchaseAddsUp
  <2>4. LET subtotal == SumFunction([i \in DOMAIN basket |-> LineGross(basket[i])])
            billed == ComputeBill(basket, deal, registered, interState)
            off == DiscountAmount(subtotal, deal)
            net == SumOf("total", billed) - (SumOf("cgst", billed) + SumOf("sgst", billed) + SumOf("igst", billed))
            priced == registered /\ \E i \in DOMAIN basket : ~basket[i].taxInclusive
        IN  /\ PartsAddUp(billed)
            /\ IF priced THEN net <= subtotal - off /\ SumOf("total", billed) >= subtotal - off
               ELSE SumOf("total", billed) = subtotal - off
            /\ \A i \in DOMAIN basket : ReturnsAddUp(billed[i], basket[i].qtyMilli)
    <3> HIDE DEF interState
    <3>1. QED
      BY <2>1, <2>2, CustomerBillAddsUp
  <2>5. QED
    BY <2>3, <2>4, Zenon DEF BillAddsUp
<1>2. QED
  BY <1>1, BillInputsFit, PTL

============================================================================
