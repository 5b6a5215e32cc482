------------------------------ MODULE Freight ------------------------------
(***************************************************************************)
(* What transfers between branches promise, without requests, batches or   *)
(* numbers: units leave a branch once, and everything that left arrives,   *)
(* goes back to where it came from, or is written off, once.               *)
(***************************************************************************)
EXTENDS Integers

CONSTANTS
    Branches, Transfers, InitStock,
    Units      \* the quantities a load may have

VARIABLES
    stock,     \* units of the product at each branch
    transit,   \* what is under way: none, a load, or "settled"
    lost       \* units written off

vars == <<stock, transit, lost>>

None == [state |-> "none"]
Settled == [state |-> "settled"]
Load(from, to, qty) == [state |-> "sent", from |-> from, to |-> to, qty |-> qty]

Init ==
    /\ stock = InitStock
    /\ transit = [t \in Transfers |-> None]
    /\ lost = 0

Send(t, from, to, qty) ==
    /\ transit[t] = None
    /\ transit' = [transit EXCEPT ![t] = Load(from, to, qty)]
    /\ stock' = [stock EXCEPT ![from] = @ - qty]
    /\ UNCHANGED lost

\* `got` units arrive, `back` units return to the sender, the rest is lost.
Settle(t, got, back) ==
    /\ transit[t].state = "sent"
    /\ got + back <= transit[t].qty
    /\ transit' = [transit EXCEPT ![t] = Settled]
    /\ stock' = [b \in Branches |->
          stock[b] + (IF b = transit[t].to THEN got ELSE 0)
                   + (IF b = transit[t].from THEN back ELSE 0)]
    /\ lost' = lost + (transit[t].qty - got - back)

\* A unit is sold at a branch.
Sell(b) ==
    /\ stock[b] > 0
    /\ stock' = [stock EXCEPT ![b] = @ - 1]
    /\ UNCHANGED <<transit, lost>>

Next ==
    \/ \E t \in Transfers, from, to \in Branches, qty \in Units \ {0} :
          from # to /\ Send(t, from, to, qty)
    \/ \E t \in Transfers, got, back \in Units : Settle(t, got, back)
    \/ \E b \in Branches : Sell(b)

Spec == Init /\ [][Next]_vars
=============================================================================
