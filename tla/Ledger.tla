------------------------------- MODULE Ledger -------------------------------
(***************************************************************************)
(* What the bills of a branch promise, without requests, transactions,     *)
(* counters or money: a bill is sold once, for good; its items come back   *)
(* at most once; it is cancelled as a whole, when nothing came back; and   *)
(* each of these moves the branch's stock by exactly its items.            *)
(***************************************************************************)
EXTENDS Integers

CONSTANTS Orders, Products, Quantities, InitStock

VARIABLES
    live,   \* the bills that stand
    void,   \* the cancelled bills
    sold,   \* what each bill sold, nothing before it is made
    back,   \* what came back of it
    stock

vars == <<live, void, sold, back, stock>>

Nothing == [p \in Products |-> 0]

Init ==
    /\ live = {} /\ void = {}
    /\ sold = [o \in Orders |-> Nothing]
    /\ back = [o \in Orders |-> Nothing]
    /\ stock = InitStock

Sell(o, qty) ==
    /\ o \notin live \cup void
    /\ live' = live \cup {o}
    /\ sold' = [sold EXCEPT ![o] = qty]
    /\ stock' = [p \in Products |-> stock[p] - qty[p]]
    /\ UNCHANGED <<void, back>>

TakeBack(o, qty) ==
    /\ o \in live
    /\ \A p \in Products : back[o][p] + qty[p] <= sold[o][p]
    /\ back' = [back EXCEPT ![o] = [p \in Products |-> @[p] + qty[p]]]
    /\ stock' = [p \in Products |-> stock[p] + qty[p]]
    /\ UNCHANGED <<live, void, sold>>

Cancel(o) ==
    /\ o \in live
    /\ back[o] = Nothing
    /\ live' = live \ {o}
    /\ void' = void \cup {o}
    /\ stock' = [p \in Products |-> stock[p] + sold[o][p]]
    /\ UNCHANGED <<sold, back>>

Next ==
    \E o \in Orders :
        \/ Cancel(o)
        \/ \E qty \in Quantities : Sell(o, qty) \/ TakeBack(o, qty)

Spec == Init /\ [][Next]_vars
=============================================================================
