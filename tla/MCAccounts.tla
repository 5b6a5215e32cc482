---------------------------- MODULE MCAccounts ----------------------------
(***************************************************************************)
(* Accounts with two of the staff, two branches, two kinds of keys, and    *)
(* two requests at a time.  A part that does not move stays as it began,   *)
(* and is begun in one way.                                                *)
(***************************************************************************)
EXTENDS Accounts, TLC

CONSTANTS r1, r2

\* What happens together.
WorkMixes == {{}, {"staff"}, {"sign", "refresh"}, {"sign", "reset"}, {"sign", "keep"}}
PaidMixes == {{}, {"redeem", "keys", "grant"}, {"grant", "remind"}, {"lock", "remind", "hand"}}

ById == [u \in Staff |-> IF u = "s1" THEN 1 ELSE 2]
Room == [p \in Plans |-> IF p = "small" THEN 1 ELSE 2]

\* A key of two days on a dear plan, and one of a day on the customer's own.
PlanOf == [k \in Keys |-> IF k = "custom"
                          THEN [plan |-> "custom", price |-> 0, days |-> 1, custom |-> TRUE]
                          ELSE [plan |-> "gold", price |-> 2, days |-> 2, custom |-> FALSE]]
TwoDays == [plan |-> "basic", price |-> 1, days |-> 2, custom |-> FALSE]

MCInit == AccountsInit /\ (mix = {} => plan = "big" /\ status["s2"] = "none")

MCSpec == MCInit /\ [][AccountsNext]_<<vars, subscriptionVars, allAdminVars>>

Symmetry == Permutations(Requests)
=============================================================================
