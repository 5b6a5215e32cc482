------------------------------ MODULE Devices ------------------------------
(***************************************************************************)
(* What a device sends: one change under its Idempotency-Key, when it is   *)
(* online (Idempotency), and what it made offline (OfflineSync).  The two  *)
(* share no state; `part` says which of them moves, the other stays as it  *)
(* began.  Weak fairness is as in the two specifications, of the part that *)
(* moves.                                                                  *)
(***************************************************************************)
EXTENDS Idempotency, OfflineSync

VARIABLE part

DevicesInit ==
    /\ part \in {"key", "sync"}
    /\ Init /\ SyncInit
    /\ part = "key" => script = CHOOSE s \in Scripts : TRUE

KeyStep(A) == part = "key" /\ A /\ UNCHANGED <<part, syncVars>>
SyncStep(A) == part = "sync" /\ A /\ UNCHANGED <<part, script, vars>>

DevicesNext == KeyStep(Next) \/ SyncStep(SyncNext)

DevicesSpec ==
    /\ DevicesInit
    /\ [][DevicesNext]_<<part, vars, syncVars>>
    /\ \A r \in Requests : WF_vars(KeyStep(Handle(r))) /\ WF_vars(KeyStep(Send(r)))
    /\ WF_vars(KeyStep(Prune))
    /\ WF_syncVars(SyncStep(Renew))
    /\ \A d \in Devices : WF_syncVars(SyncStep(DeviceActs(d)))

----------------------------------------------------------------------------
\* The types of the two parts.
DevicesTypeOK == TypeOK /\ SyncTypeOK

\* Idempotency: a device that keeps sending its change hears an answer.
AnswerIsHeard == part = "key" => EventuallyHeard
=============================================================================
