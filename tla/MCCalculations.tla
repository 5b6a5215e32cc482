--------------------------- MODULE MCCalculations ---------------------------
(***************************************************************************)
(* The pure calculations for every shelf of up to three batches, and for   *)
(* every bill of up to three small lines with a discount.                  *)
(***************************************************************************)
EXTENDS Calculations

SmallLines ==
    [unitPrice : {5, 33}, qtyMilli : {1500}, gstRateBp : {500, 1800}, taxInclusive : BOOLEAN]
    \cup {[unitPrice |-> 7, qtyMilli |-> 2000, gstRateBp |-> 0, taxInclusive |-> FALSE]}

SmallDiscounts ==
    [type : {"flat"}, value : {0, 1, 10, 500}] \cup [type : {"percent"}, value : {1250, 10000}]
=============================================================================
