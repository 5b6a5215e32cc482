---------------------------- MODULE Idempotency ----------------------------
(***************************************************************************)
(* One Idempotency-Key: a change a device saved locally and sends, over    *)
(* and over and from several tabs, until it hears an answer                *)
(* (http/idempotency.ts around any handler that changes something).        *)
(*                                                                         *)
(* The row of the key is looked up, then created; the handler runs; its    *)
(* answer leaves; only then is the answer written into the row.  The       *)
(* device is not part of the repository: it sends again while it has heard *)
(* neither a success nor a refusal.                                        *)
(***************************************************************************)
EXTENDS Integers

CONSTANTS
    Requests,   \* deliveries of the change the server handles at a time
    Faults,     \* what goes wrong in this instance
    MaxFaults   \* bound: how often

ASSUME IdempotencyAssumption ==
    /\ Faults \subseteq {"error", "lateError", "crash", "hangup", "lost"}
    /\ MaxFaults \in Nat

VARIABLES
    row,       \* the key's row: absent, running (status null) or its answer
    applied,   \* how often the change was applied
    forgotten, \* history: how many of those when the row was last deleted
    req,       \* what each delivery is doing
    heard,     \* what the device has heard
    faults

vars == <<row, applied, forgotten, req, heard, faults>>

Answer == {"ok", "refused", "error"}
At(place) == [at |-> place, answer |-> "none"]
With(place, answer) == [at |-> place, answer |-> answer]

\* What a delivery is doing; it works on the change from the row to the answer.
Working == {"running", "saved", "answer", "finish"}
Delivery == [at : {"idle", "arrived", "absent"} \cup Working, answer : Answer \cup {"none"}]

TypeOK ==
    /\ row \in {"absent", "running", "ok", "refused"}
    /\ applied \in Nat /\ forgotten \in 0..applied
    /\ req \in [Requests -> Delivery]
    /\ heard \in {"none", "ok", "refused"}
    /\ faults \in 0..MaxFaults

Init ==
    /\ row = "absent" /\ applied = 0 /\ forgotten = 0
    /\ req = [r \in Requests |-> At("idle")]
    /\ heard = "none" /\ faults = 0

Goto(r, from, to) == req[r] = from /\ req' = [req EXCEPT ![r] = to]

Fault(kind) == kind \in Faults /\ faults < MaxFaults /\ faults' = faults + 1

\* The row becomes `value`; deleting it forgets what was applied under it.
Write(value) ==
    /\ row' = value
    /\ forgotten' = IF value = "absent" THEN applied ELSE forgotten

\* The device hears an answer, or it is lost on the way and the device will
\* send the change again; a server error tells it nothing.
Hear(answer) ==
    \/ UNCHANGED faults /\ heard' = IF answer = "error" THEN heard ELSE answer
    \/ Fault("lost") /\ UNCHANGED heard

----------------------------------------------------------------------------
\* The device sends the change while it has heard nothing final.
Send(r) ==
    /\ heard = "none"
    /\ Goto(r, At("idle"), At("arrived"))
    /\ UNCHANGED <<row, applied, forgotten, heard, faults>>

\* The lookup finds no row.
FindNothing(r) ==
    /\ row = "absent"
    /\ Goto(r, At("arrived"), At("absent"))
    /\ UNCHANGED <<row, applied, forgotten, heard, faults>>

\* The lookup finds an answer: it is sent again.
ReplayAnswer(r) ==
    /\ row \in {"ok", "refused"}
    /\ Goto(r, At("arrived"), At("idle"))
    /\ Hear(row)
    /\ UNCHANGED <<row, applied, forgotten>>

\* The lookup finds a row without an answer: 409 in_progress.
FindRunning(r) ==
    /\ row = "running"
    /\ Goto(r, At("arrived"), At("idle"))
    /\ UNCHANGED <<row, applied, forgotten, heard, faults>>

\* Wrong: the row is written whether or not there is one.
FreeAlways == TRUE

\* The primary key of the row.
Free == row = "absent"

Claim(r) ==
    /\ Free
    /\ Goto(r, At("absent"), At("running"))
    /\ Write("running")
    /\ UNCHANGED <<applied, heard, faults>>

\* Another delivery made the row first: 409 in_progress.
ClaimTaken(r) ==
    /\ ~Free
    /\ Goto(r, At("absent"), At("idle"))
    /\ UNCHANGED <<row, applied, forgotten, heard, faults>>

----------------------------------------------------------------------------
(***************************************************************************)
(* The handler: its transaction commits, it refuses (4xx), or it fails     *)
(* (5xx); where it still writes its audit row after the transaction it can *)
(* also fail then.                                                         *)
(***************************************************************************)
Apply(r) ==
    /\ Goto(r, At("running"), At("saved"))
    /\ applied' = applied + 1
    /\ UNCHANGED <<row, forgotten, heard, faults>>

Refuse(r) ==
    /\ Goto(r, At("running"), With("answer", "refused"))
    /\ UNCHANGED <<row, applied, forgotten, heard, faults>>

Error(r) ==
    /\ Goto(r, At("running"), With("answer", "error"))
    /\ Fault("error")
    /\ UNCHANGED <<row, applied, forgotten, heard>>

Succeed(r) ==
    /\ Goto(r, At("saved"), With("answer", "ok"))
    /\ UNCHANGED <<row, applied, forgotten, heard, faults>>

ErrorAfterCommit(r) ==
    /\ Goto(r, At("saved"), With("answer", "error"))
    /\ Fault("lateError")
    /\ UNCHANGED <<row, applied, forgotten, heard>>

\* The answer leaves the server.
Respond(r, a) ==
    /\ Goto(r, With("answer", a), With("finish", a))
    /\ Hear(a)
    /\ UNCHANGED <<row, applied, forgotten>>

\* Wrong: a refusal is forgotten, so a retry runs again; and: a server error
\* is remembered.
RememberSuccess(answer) == IF answer = "ok" THEN "ok" ELSE "absent"
RememberAll(answer) == answer

\* What the row becomes once the answer is sent: a 5xx is not remembered.
Remember(answer) == IF answer = "error" THEN "absent" ELSE answer

Finish(r, a) ==
    /\ Goto(r, With("finish", a), At("idle"))
    /\ Write(Remember(a))
    /\ UNCHANGED <<applied, heard, faults>>

\* The connection closed before the answer was handed over, so "finish" is
\* never emitted, or the write of the row failed (its error is dropped).
NeverFinish(r, a) ==
    /\ Goto(r, With("finish", a), At("idle"))
    /\ Fault("hangup")
    /\ UNCHANGED <<row, applied, forgotten, heard>>

\* The process dies; the rows stay.
Crash ==
    /\ \E r \in Requests : req[r] # At("idle")
    /\ req' = [r \in Requests |-> At("idle")]
    /\ Fault("crash")
    /\ UNCHANGED <<row, applied, forgotten, heard>>

\* Wrong: only rows with an answer are pruned.
PrunedAnswered == row \in {"ok", "refused"}

Pruned == row # "absent"

(***************************************************************************)
(* Seven days later: the delivery that made the row is gone, and those     *)
(* sent before the device heard its answer are too.                        *)
(***************************************************************************)
Prune ==
    /\ Pruned
    /\ \A r \in Requests :
          \/ req[r] = At("idle")
          \/ heard = "none" /\ req[r] \in {At("arrived"), At("absent")}
    /\ Write("absent")
    /\ UNCHANGED <<applied, req, heard, faults>>

Handle(r) ==
    \/ FindNothing(r) \/ ReplayAnswer(r) \/ FindRunning(r)
    \/ Claim(r) \/ ClaimTaken(r)
    \/ Apply(r) \/ Refuse(r) \/ Error(r) \/ Succeed(r) \/ ErrorAfterCommit(r)
    \/ \E a \in Answer : Respond(r, a) \/ Finish(r, a) \/ NeverFinish(r, a)

Next == Crash \/ Prune \/ \E r \in Requests : Send(r) \/ Handle(r)

(***************************************************************************)
(* The server works on what it has received, the device sends again as     *)
(* long as it has not heard, and the daily job runs.                       *)
(***************************************************************************)
Spec ==
    /\ Init /\ [][Next]_vars
    /\ \A r \in Requests : WF_vars(Handle(r)) /\ WF_vars(Send(r))
    /\ WF_vars(Prune)

----------------------------------------------------------------------------
\* "With the same key, the first answer is returned again instead of applying
\* the change twice": however often and in however many tabs it is sent.
AppliedAtMostOnce == applied <= 1

\* It is applied again only once the row that stood for it was deleted, by a
\* server error or by the daily job, not by a crash, a lost answer or a race.
AppliedOncePerRow == applied <= forgotten + 1

\* What the device hears is what happened: a success was applied, and unless
\* the row was deleted in between a refusal was not, and will not be.
HeardIsTrue ==
    /\ heard = "ok" => applied >= 1
    /\ heard = "refused" => applied = forgotten

\* A device that keeps sending its change hears an answer, at the latest when
\* the row of a delivery that died was pruned.
EventuallyHeard == <>(heard # "none")
=============================================================================
