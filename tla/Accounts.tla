------------------------------- MODULE Accounts -------------------------------
(***************************************************************************)
(* An account is three parts that share no state in the model: who may     *)
(* work in it (Access), what it has paid for (Subscriptions), and the      *)
(* member of the Setu team who looks after it (AdminAccess).  Here they    *)
(* are side by side; what both kinds of sign-in promise is stated once.    *)
(*                                                                         *)
(* One part moves in a behaviour: Access when its mix is not empty, or     *)
(* Subscriptions when its mix is not, or else AdminAccess.  As the parts   *)
(* share nothing, every behaviour of each of them is met.                  *)
(***************************************************************************)
EXTENDS Access, AdminAccess, Subscriptions

AccountsInit ==
    /\ Init /\ PlanInit /\ AdminInit
    /\ mix = {} \/ planMix = {}

AccountsNext ==
    \/ mix # {} /\ Next /\ UNCHANGED <<subscriptionVars, allAdminVars>>
    \/ planMix # {} /\ PlanNext /\ UNCHANGED <<vars, allAdminVars>>
    \/ mix = {} /\ planMix = {} /\ AdminNext /\ UNCHANGED <<vars, subscriptionVars>>

AccountsSpec == AccountsInit /\ [][AccountsNext]_<<vars, subscriptionVars, allAdminVars>>

----------------------------------------------------------------------------
\* The types of the three parts.
AccountsTypeOK == TypeOK /\ PlanTypeOK /\ AdminTypeOK

\* Access and AdminAccess: nobody who was turned off returns on their own.
DisabledStayOut == [][BackOnlyIfTurnedOn /\ AdminBackOnlyIfTurnedOn]_<<vars, allAdminVars>>

\* Access and AdminAccess: a replaced password's sessions have ended.
OldPasswordsAreOut == OldPasswordIsOut /\ OldAdminPasswordIsOut
=============================================================================
