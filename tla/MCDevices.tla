----------------------------- MODULE MCDevices -----------------------------
(***************************************************************************)
(* Devices with three deliveries of a change, and two devices with two     *)
(* scripts of what they make offline.                                      *)
(***************************************************************************)
EXTENDS Devices

CONSTANTS r1, r2, r3

Made(kind, customer) == [kind |-> kind, customer |-> customer]

\* A customer with a bill, and one for whoever; a customer who pays.
TwoScripts == {<<Made("customer", 0), Made("bill", 1), Made("bill", 0)>>,
               <<Made("customer", 0), Made("money", 1)>>}
=============================================================================
