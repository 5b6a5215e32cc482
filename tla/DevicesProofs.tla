--------------------------- MODULE DevicesProofs ---------------------------
(***************************************************************************)
(* Theorems about Idempotency for every number of deliveries and faults,   *)
(* about OfflineSync for every number of devices, every script and every   *)
(* number of faults, and about Devices, which puts one beside the other.   *)
(***************************************************************************)
EXTENDS Devices, FiniteSetTheorems, WellFoundedInduction, TLAPS

LessThan == {pair \in Nat \X Nat : pair[1] < pair[2]}

\* The natural numbers are well-founded under it.
LEMMA LessThanWellFounded == IsWellFoundedOn(LessThan, Nat)
  BY NatLessThanWellFounded DEF OpToRel, LessThan

\* Every non-empty set of natural numbers has a least element.
LEMMA LeastNat ==
    ASSUME NEW T, T \subseteq Nat, T # {}
    PROVE  \E n \in T : \A m \in T : n <= m
<1>1. PICK n \in T : \A m \in T : <<m, n>> \notin LessThan
  BY LessThanWellFounded, WFMin
<1>2. \A m \in T : ~(m < n)
  BY <1>1 DEF LessThan
<1>3. QED
  BY <1>2

----------------------------------------------------------------------------
(***************************************************************************)
(* One idempotency key.                                                    *)
(***************************************************************************)

Busy(r) == req[r].at \in Working

\* One delivery at a time works on the change, and the row says so.
OneWorker ==
    \A r \in Requests : Busy(r) =>
        /\ row = "running"
        /\ \A s \in Requests : Busy(s) => s = r

\* Where the change has been applied since the row was last deleted.
Counted ==
    /\ applied <= forgotten + 1
    /\ row \in {"absent", "refused"} => applied = forgotten
    /\ row = "ok" => applied >= 1
    /\ \A r \in Requests :
          /\ req[r].at \in {"answer", "finish"} => req[r].answer \in Answer
          /\ req[r].at = "running" => applied = forgotten
          /\ req[r].at = "saved" => applied >= 1
          /\ req[r].at \in {"answer", "finish"} =>
                /\ req[r].answer = "refused" => applied = forgotten
                /\ req[r].answer = "ok" => applied >= 1

\* A refusal that was heard is settled: nothing will be applied any more.
RefusalSettled ==
    /\ heard = "ok" => applied >= 1
    /\ heard = "refused" =>
          /\ applied = forgotten
          /\ \/ row = "refused"
             \/ /\ row = "running"
                /\ \A r \in Requests : Busy(r) => req[r] = With("finish", "refused")
             \/ row = "absent" /\ \A r \in Requests : req[r] = At("idle")

IInv == TypeOK /\ OneWorker /\ Counted /\ RefusalSettled

----------------------------------------------------------------------------
LEMMA InitIInv == Init => IInv
<1> SUFFICES ASSUME Init PROVE IInv
  OBVIOUS
<1>1. \A r \in Requests : req[r] = At("idle") /\ ~Busy(r)
  BY DEF Init, Busy, At, Working
<1>2. At("idle") \in Delivery
  BY DEF At, Delivery
<1>3. TypeOK
  BY <1>2, IdempotencyAssumption DEF Init, TypeOK
<1>4. OneWorker
  BY <1>1 DEF OneWorker
<1>5. Counted
  BY <1>1 DEF Init, Counted, At
<1>6. RefusalSettled
  BY DEF Init, RefusalSettled
<1>7. QED
  BY <1>3, <1>4, <1>5, <1>6 DEF IInv

\* What changes when delivery r goes from one place to the next.
LEMMA Gone ==
    ASSUME TypeOK, NEW r \in Requests, NEW from, NEW to \in Delivery, Goto(r, from, to)
    PROVE  /\ req[r] = from /\ req'[r] = to
           /\ req' \in [Requests -> Delivery]
           /\ \A s \in Requests : s # r => req'[s] = req[s]
  BY DEF Goto, TypeOK

\* Steps of a delivery that does not work on the change yet, nor then.
LEMMA LooksOnly ==
    ASSUME IInv, NEW r \in Requests,
           NEW from \in {"idle", "arrived", "absent"}, NEW to \in {"idle", "arrived", "absent"},
           Goto(r, At(from), At(to)),
           from = "idle" => heard = "none",
           UNCHANGED <<row, applied, forgotten, heard, faults>>
    PROVE  IInv'
<1>1. At(to) \in Delivery
  BY DEF At, Delivery
<1>2. /\ req[r] = At(from) /\ req'[r] = At(to)
      /\ req' \in [Requests -> Delivery]
      /\ \A s \in Requests : s # r => req'[s] = req[s]
  BY <1>1, Gone DEF IInv
<1>3. TypeOK'
  BY <1>2 DEF IInv, TypeOK
<1>4. \A s \in Requests : Busy(s)' => s # r /\ Busy(s) /\ req'[s] = req[s]
  BY <1>2 DEF Busy, Working, At
<1>5. OneWorker'
  BY <1>4 DEF IInv, OneWorker
<1>6. Counted'
  BY <1>4, <1>2 DEF IInv, Counted, Busy, Working, At
<1>7. RefusalSettled'
  <2>1. CASE heard = "refused" /\ row = "absent"
    BY <2>1, <1>2 DEF IInv, RefusalSettled, At
  <2>2. CASE ~(heard = "refused" /\ row = "absent")
    BY <2>2, <1>4 DEF IInv, RefusalSettled
  <2>3. QED
    BY <2>1, <2>2
<1>8. QED
  BY <1>3, <1>5, <1>6, <1>7 DEF IInv

\* A place the working delivery may be at, given what was applied.
MayBeAt(place, n, m) ==
    /\ place.at \in {"answer", "finish"} => place.answer \in Answer
    /\ place.at = "running" => n = m
    /\ place.at = "saved" => n >= 1
    /\ place.at \in {"answer", "finish"} =>
          /\ place.answer = "refused" => n = m
          /\ place.answer = "ok" => n >= 1

\* Steps of the delivery that works on the change, up to its answer.
LEMMA WorksOn ==
    ASSUME IInv, NEW r \in Requests, NEW from, NEW to \in Delivery, Goto(r, from, to),
           from.at \in Working \ {"finish"}, to.at \in Working,
           UNCHANGED <<row, forgotten>>,
           applied' \in Nat, applied' <= forgotten + 1, forgotten <= applied',
           applied <= applied',
           MayBeAt(to, applied', forgotten),
           heard' \in {"none", "ok", "refused"}, faults' \in 0..MaxFaults,
           heard' = "ok" => applied' >= 1,
           heard' = "refused" /\ heard # "refused" =>
               applied' = forgotten /\ to = With("finish", "refused")
    PROVE  IInv'
<1>1. /\ req[r] = from /\ req'[r] = to
      /\ req' \in [Requests -> Delivery]
      /\ \A s \in Requests : s # r => req'[s] = req[s]
  BY Gone DEF IInv
<1>2. row = "running" /\ \A s \in Requests : Busy(s) => s = r
  BY <1>1 DEF IInv, OneWorker, Busy
<1>3. heard # "refused"
  BY <1>1, <1>2 DEF IInv, RefusalSettled, Busy, With
<1>4. \A s \in Requests : Busy(s)' => s = r
  BY <1>1, <1>2 DEF Busy
<1>5. TypeOK'
  BY <1>1 DEF IInv, TypeOK
<1>6. OneWorker'
  BY <1>2, <1>4 DEF OneWorker
<1>7. Counted'
  BY <1>1, <1>2, <1>4 DEF Counted, Busy, Working, MayBeAt
<1>8. RefusalSettled'
  BY <1>1, <1>2, <1>3, <1>4 DEF RefusalSettled
<1>9. QED
  BY <1>5, <1>6, <1>7, <1>8 DEF IInv

\* The row changes hands: to the delivery that claims it, or from the one that
\* has answered.
LEMMA ClaimKeeps ==
    ASSUME IInv, NEW r \in Requests, Claim(r)
    PROVE  IInv'
<1>1. At("running") \in Delivery
  BY DEF At, Delivery, Working
<1>2. /\ req[r] = At("absent") /\ req'[r] = At("running")
      /\ req' \in [Requests -> Delivery]
      /\ \A s \in Requests : s # r => req'[s] = req[s]
  BY <1>1, Gone DEF IInv, Claim
<1>3. row = "absent" /\ row' = "running" /\ forgotten' = forgotten
      /\ UNCHANGED <<applied, heard, faults>>
  BY DEF Claim, Free, Write
<1>4. \A s \in Requests : ~Busy(s)
  BY <1>3 DEF IInv, OneWorker
<1>5. \A s \in Requests : Busy(s)' => s = r
  BY <1>2, <1>4 DEF Busy
<1>6. heard # "refused"
  BY <1>2, <1>3 DEF IInv, RefusalSettled, At
<1>7. TypeOK'
  BY <1>2, <1>3 DEF IInv, TypeOK
<1>8. OneWorker'
  BY <1>3, <1>5 DEF OneWorker
<1>9. Counted'
  BY <1>2, <1>3, <1>5 DEF IInv, Counted, Busy, Working, At
<1>10. RefusalSettled'
  BY <1>3, <1>6 DEF IInv, RefusalSettled
<1>11. QED
  BY <1>7, <1>8, <1>9, <1>10 DEF IInv

LEMMA LeavesWork ==
    ASSUME IInv, NEW r \in Requests, NEW a \in Answer,
           Finish(r, a) \/ NeverFinish(r, a)
    PROVE  IInv'
<1>1. At("idle") \in Delivery
  BY DEF At, Delivery
<1>2. /\ req[r] = With("finish", a) /\ req'[r] = At("idle")
      /\ req' \in [Requests -> Delivery]
      /\ \A s \in Requests : s # r => req'[s] = req[s]
  BY <1>1, Gone DEF IInv, Finish, NeverFinish
<1>3. /\ row = "running" /\ \A s \in Requests : Busy(s) => s = r
      /\ a = "refused" => applied = forgotten
      /\ a = "ok" => applied >= 1
  BY <1>2 DEF IInv, OneWorker, Counted, Busy, Working, With
<1>4. \A s \in Requests : ~Busy(s)'
  BY <1>2, <1>3 DEF Busy, Working, At
<1>5. heard = "refused" => a = "refused"
  BY <1>2, <1>3 DEF IInv, RefusalSettled, Busy, Working, With
<1>6. /\ UNCHANGED <<applied, heard>> /\ faults' \in 0..MaxFaults
      /\ \/ row' = "running" /\ forgotten' = forgotten
         \/ row' = a /\ a # "error" /\ forgotten' = forgotten
         \/ row' = "absent" /\ a = "error" /\ forgotten' = applied
  <2>1. CASE Finish(r, a)
    BY <2>1 DEF Finish, Write, Remember, Answer, IInv, TypeOK
  <2>2. CASE NeverFinish(r, a)
    BY <2>2, <1>3, IdempotencyAssumption DEF NeverFinish, Fault, IInv, TypeOK
  <2>3. QED
    BY <2>1, <2>2
<1>7. TypeOK'
  BY <1>2, <1>6 DEF IInv, TypeOK, Answer
<1>8. OneWorker'
  BY <1>4 DEF OneWorker
<1>9. Counted'
  <2>1. \A s \in Requests : req'[s].at \notin {"running", "saved", "answer", "finish"}
    BY <1>4 DEF Busy, Working
  <2>2. /\ applied' <= forgotten' + 1
        /\ row' \in {"absent", "refused"} => applied' = forgotten'
        /\ row' = "ok" => applied' >= 1
    BY <1>3, <1>6 DEF IInv, TypeOK, Counted, Answer
  <2>3. QED
    BY <2>1, <2>2 DEF Counted
<1>10. RefusalSettled'
  BY <1>3, <1>4, <1>5, <1>6 DEF IInv, RefusalSettled
<1>11. QED
  BY <1>7, <1>8, <1>9, <1>10 DEF IInv

\* An answer that is sent again.
LEMMA ReplayKeeps ==
    ASSUME IInv, NEW r \in Requests, ReplayAnswer(r)
    PROVE  IInv'
<1>1. At("idle") \in Delivery
  BY DEF At, Delivery
<1>2. /\ req[r] = At("arrived") /\ req'[r] = At("idle")
      /\ req' \in [Requests -> Delivery]
      /\ \A s \in Requests : s # r => req'[s] = req[s]
  BY <1>1, Gone DEF IInv, ReplayAnswer
<1>3. /\ UNCHANGED <<row, applied, forgotten>> /\ faults' \in 0..MaxFaults
      /\ row \in {"ok", "refused"} /\ heard' \in {heard, row}
  BY IdempotencyAssumption DEF ReplayAnswer, Hear, Fault, IInv, TypeOK
<1>4. \A s \in Requests : ~Busy(s)' /\ ~Busy(s)
  BY <1>2, <1>3 DEF IInv, OneWorker, Busy, Working, At
<1>5. TypeOK'
  BY <1>2, <1>3 DEF IInv, TypeOK
<1>6. OneWorker'
  BY <1>4 DEF OneWorker
<1>7. Counted'
  BY <1>3, <1>4 DEF IInv, Counted, Busy, Working
<1>8. RefusalSettled'
  BY <1>3 DEF IInv, RefusalSettled, Counted
<1>9. QED
  BY <1>5, <1>6, <1>7, <1>8 DEF IInv

\* The process dies.
LEMMA CrashKeeps == ASSUME IInv, Crash PROVE IInv'
<1>1. At("idle") \in Delivery
  BY DEF At, Delivery
<1>2. \A r \in Requests : req'[r] = At("idle") /\ ~Busy(r)'
  BY DEF Crash, Busy, Working, At
<1>3. TypeOK'
  <2>1. req' \in [Requests -> Delivery]
    BY <1>1 DEF Crash
  <2>2. QED
    BY <2>1, IdempotencyAssumption DEF IInv, TypeOK, Crash, Fault
<1>4. OneWorker'
  BY <1>2 DEF OneWorker
<1>5. Counted'
  BY <1>2 DEF IInv, Counted, Crash, At
<1>6. RefusalSettled'
  BY <1>2 DEF IInv, RefusalSettled, Crash
<1>7. QED
  BY <1>3, <1>4, <1>5, <1>6 DEF IInv

\* The row is pruned.
LEMMA PruneKeeps == ASSUME IInv, Prune PROVE IInv'
<1>1. \A r \in Requests : ~Busy(r) /\ ~Busy(r)'
  BY DEF Prune, Busy, Working, At
<1>2. heard = "refused" => \A r \in Requests : req'[r] = At("idle")
  BY DEF Prune
<1>3. row' = "absent" /\ forgotten' = applied /\ UNCHANGED <<applied, req, heard, faults>>
  BY DEF Prune, Write
<1>4. TypeOK'
  BY <1>3 DEF IInv, TypeOK
<1>5. OneWorker'
  BY <1>1 DEF OneWorker
<1>6. Counted'
  BY <1>1, <1>3 DEF IInv, TypeOK, Counted, Busy, Working
<1>7. RefusalSettled'
  BY <1>2, <1>3 DEF IInv, RefusalSettled
<1>8. QED
  BY <1>4, <1>5, <1>6, <1>7 DEF IInv

----------------------------------------------------------------------------
LEMMA StepIInv == IInv /\ [Next]_vars => IInv'
<1> SUFFICES ASSUME IInv, [Next]_vars PROVE IInv'
  OBVIOUS
<1>1. /\ applied \in Nat /\ forgotten <= applied /\ applied <= forgotten + 1
      /\ forgotten \in Nat
      /\ heard \in {"none", "ok", "refused"} /\ faults \in 0..MaxFaults
      /\ heard = "ok" => applied >= 1
  BY DEF IInv, TypeOK, Counted, RefusalSettled
<1>2. \A kind : Fault(kind) => faults' \in 0..MaxFaults
  BY <1>1, IdempotencyAssumption DEF Fault
<1>3. CASE Crash
  BY <1>3, CrashKeeps
<1>4. CASE Prune
  BY <1>4, PruneKeeps
<1>5. ASSUME NEW r \in Requests, Send(r) \/ Handle(r) PROVE IInv'
  <2>1. CASE Send(r)
    BY <2>1, LooksOnly DEF Send
  <2>2. CASE FindNothing(r)
    BY <2>2, LooksOnly DEF FindNothing
  <2>3. CASE FindRunning(r)
    BY <2>3, LooksOnly DEF FindRunning
  <2>4. CASE ClaimTaken(r)
    BY <2>4, LooksOnly DEF ClaimTaken
  <2>5. CASE ReplayAnswer(r)
    BY <2>5, ReplayKeeps
  <2>6. CASE Claim(r)
    BY <2>6, ClaimKeeps
  <2>7. CASE Apply(r)
    <3>1. /\ req[r].at = "running" /\ Goto(r, At("running"), At("saved"))
          /\ UNCHANGED <<row, forgotten, heard, faults>> /\ applied' = applied + 1
      BY <2>7 DEF Apply, Goto, At
    <3>2. applied = forgotten
      BY <3>1 DEF IInv, Counted
    <3>3. At("saved") \in Delivery /\ At("running").at = "running" /\ At("saved").at = "saved"
      BY DEF At, Delivery, Working
    <3>4. MayBeAt(At("saved"), applied', forgotten)
      BY <3>1, <3>3, <1>1 DEF MayBeAt
    <3>5. QED
      BY <1>1, <3>1, <3>2, <3>3, <3>4, WorksOn DEF Working
  <2>8. CASE Refuse(r)
    <3>1. req[r].at = "running"
      BY <2>8 DEF Refuse, Goto, At
    <3>2. applied = forgotten
      BY <3>1 DEF IInv, Counted
    <3>3. /\ With("answer", "refused") \in Delivery /\ At("running").at = "running"
          /\ With("answer", "refused").at = "answer"
          /\ With("answer", "refused").answer = "refused"
      BY DEF At, With, Delivery, Working, Answer
    <3>4. MayBeAt(With("answer", "refused"), applied', forgotten)
      BY <2>8, <3>2, <3>3 DEF MayBeAt, Refuse, Answer
    <3>5. QED
      BY <2>8, <1>1, <3>3, <3>4, WorksOn DEF Refuse, Working
  <2>9. CASE Error(r) \/ ErrorAfterCommit(r)
    <3>1. /\ With("answer", "error") \in Delivery
          /\ At("running").at = "running" /\ At("saved").at = "saved"
          /\ With("answer", "error").at = "answer"
          /\ With("answer", "error").answer = "error"
      BY DEF At, With, Delivery, Working, Answer
    <3>2. MayBeAt(With("answer", "error"), applied', forgotten)
      BY <3>1 DEF MayBeAt, Answer
    <3>3. /\ UNCHANGED <<row, applied, forgotten, heard>> /\ faults' \in 0..MaxFaults
      BY <2>9, <1>2 DEF Error, ErrorAfterCommit
    <3>4. \E from \in {At("running"), At("saved")} : Goto(r, from, With("answer", "error"))
      BY <2>9 DEF Error, ErrorAfterCommit
    <3>5. QED
      BY <1>1, <3>1, <3>2, <3>3, <3>4, WorksOn DEF Working
  <2>10. CASE Succeed(r)
    <3>1. req[r].at = "saved"
      BY <2>10 DEF Succeed, Goto, At
    <3>2. applied >= 1
      BY <3>1 DEF IInv, Counted
    <3>3. /\ With("answer", "ok") \in Delivery /\ At("saved").at = "saved"
          /\ With("answer", "ok").at = "answer"
          /\ With("answer", "ok").answer = "ok"
      BY DEF At, With, Delivery, Working, Answer
    <3>4. MayBeAt(With("answer", "ok"), applied', forgotten)
      BY <2>10, <3>2, <3>3 DEF MayBeAt, Succeed, Answer
    <3>5. QED
      BY <2>10, <1>1, <3>3, <3>4, WorksOn DEF Succeed, Working
  <2>11. CASE \E a \in Answer : Respond(r, a)
    <3> PICK a \in Answer : Respond(r, a)
      BY <2>11
    <3>1. req[r].at = "answer" /\ req[r].answer = a
      BY DEF Respond, Goto, With
    <3>2. (a = "refused" => applied = forgotten) /\ (a = "ok" => applied >= 1)
      BY <3>1 DEF IInv, Counted
    <3>3. /\ With("finish", a) \in Delivery /\ With("answer", a).at = "answer"
          /\ With("finish", a).at = "finish" /\ With("finish", a).answer = a
      BY DEF With, Delivery, Working
    <3>4. UNCHANGED <<row, applied, forgotten>> /\ Goto(r, With("answer", a), With("finish", a))
      BY DEF Respond
    <3>5. MayBeAt(With("finish", a), applied', forgotten)
      BY <3>2, <3>3, <3>4 DEF MayBeAt
    <3>6. /\ faults' \in 0..MaxFaults
          /\ heard' = heard \/ (heard' = a /\ a \in {"ok", "refused"})
      BY <1>1, <1>2 DEF Respond, Hear, Answer
    <3>7. QED
      BY <1>1, <3>2, <3>3, <3>4, <3>5, <3>6, WorksOn DEF Working
  <2>12. CASE \E a \in Answer : Finish(r, a) \/ NeverFinish(r, a)
    BY <2>12, LeavesWork
  <2>13. QED
    BY <1>5, <2>1, <2>2, <2>3, <2>4, <2>5, <2>6, <2>7, <2>8, <2>9, <2>10, <2>11, <2>12
       DEF Handle
<1>6. CASE UNCHANGED vars
  BY <1>6 DEF vars, IInv, TypeOK, OneWorker, Counted, RefusalSettled, Busy
<1>7. QED
  BY <1>3, <1>4, <1>5, <1>6 DEF Next

\* Deliveries, faults and the daily job keep the strengthening.
THEOREM Inductive == Spec => []IInv
<1>1. Init => IInv
  BY InitIInv
<1>2. QED
  BY <1>1, StepIInv, PTL DEF Spec

\* Every variable keeps its type.
THEOREM TypeCorrect == Spec => []TypeOK
<1>1. IInv => TypeOK
  BY DEF IInv
<1>2. QED
  BY <1>1, Inductive, PTL

\* A change is applied again only once the row that stood for it was deleted.
THEOREM OncePerRow == Spec => []AppliedOncePerRow
<1>1. IInv => AppliedOncePerRow
  BY DEF IInv, Counted, AppliedOncePerRow
<1>2. QED
  BY <1>1, Inductive, PTL

\* What the device hears is what happened.
THEOREM HeardHolds == Spec => []HeardIsTrue
<1>1. IInv => HeardIsTrue
  BY DEF IInv, RefusalSettled, HeardIsTrue
<1>2. QED
  BY <1>1, Inductive, PTL

----------------------------------------------------------------------------
(***************************************************************************)
(* The devices of a shop.                                                  *)
(***************************************************************************)

Pushers == Devices \cup {"late"}

Status == {"none", "saved", "duplicate", "rejected", "retry"}

\* The items a push has in hand, from its start to its end.
In(p) == IF p = NoPush THEN {} ELSE DOMAIN p.results

Pushing(p) ==
    /\ p = [at |-> p.at, todo |-> p.todo, results |-> p.results]
    /\ p.at \in {"find", "write"}
    /\ p.todo \subseteq DOMAIN p.results
    /\ p.at = "write" => p.todo # {}

\* Each item is in one outbox at most, and a push is of items that were made.
SyncTyped ==
    /\ script \in Scripts
    /\ deviceKey \in Devices
    /\ planNow \in {"on", "ended", "renewed"} /\ cashierHere \in BOOLEAN /\ split \in BOOLEAN
    /\ made \subseteq Items
    /\ saved \subseteq made /\ shown \subseteq made
    /\ outbox \in [Devices -> SUBSET made]
    /\ \A d, e \in Devices : d # e => outbox[d] \cap outbox[e] = {}
    /\ DOMAIN push = Pushers
    /\ push = [q \in Pushers |-> push[q]]
    /\ \A q \in Pushers : In(push[q]) \subseteq made /\ (push[q] # NoPush => Pushing(push[q]))

\* Bills that one device after another numbers are numbered apart: while no two
\* numbered from the same number on, whoever holds the key is ahead of all.
HowMany == Cardinality(made \cap Bills)

Numbered ==
    /\ made = 1..Cardinality(made) /\ HowMany \in Nat
    /\ numberOf \in [Items -> Nat] /\ ownNext \in [Devices -> Nat] /\ nextInvoiceNumber \in Nat
    /\ \A i \in Items : numberOf[i] <= HowMany
    /\ \A d \in Devices : ownNext[d] \in 1..(HowMany + 1)
    /\ nextInvoiceNumber \in 1..(HowMany + 1)
    /\ \A i \in saved \cap Bills : numberOf[i] < nextInvoiceNumber
    /\ ~split =>
          /\ \A e \in Devices : ownNext[e] <= ownNext[deviceKey]
          /\ \A i \in made \cap Bills :
                /\ numberOf[i] < ownNext[deviceKey]
                /\ \A j \in made \cap Bills : numberOf[i] = numberOf[j] => i = j

\* Where an item is: waiting, saved or shown.  What is shown waits no more, and
\* two pushes that have one item in hand are a bill pushed again too early.
Where ==
    /\ \A d \in Devices : In(push[d]) \subseteq outbox[d]
    /\ \A d \in Devices : outbox[d] \cap shown = {}
    /\ \A d \in Devices : In(push[d]) \cap In(push["late"]) \subseteq late
    /\ In(push["late"]) \cap shown \subseteq late
    /\ \A i \in made : i \in saved \cup shown \/ \E d \in Devices : i \in outbox[d]

\* An answer given is true: saved, or refused for a cause.
TrueAnswer(p, i, kept, again, cause) ==
    /\ i \in p.todo <=> p.results[i] = "none"
    /\ p.results[i] \in Status
    /\ p.results[i] \in {"saved", "duplicate"} => i \in kept
    /\ p.results[i] = "rejected" => cause /\ (i \in kept => i \in again)

Cause == ~cashierHere \/ split

Answers ==
    /\ \A q \in Pushers : \A i \in In(push[q]) : TrueAnswer(push[q], i, saved, late, Cause)
    /\ saved \cap shown \subseteq late
    /\ shown # {} => Cause

SyncInv == SyncTyped /\ Numbered /\ Where /\ Answers

----------------------------------------------------------------------------
LEMMA NoItem == In(NoPush) = {}
  BY DEF In

LEMMA SomePush == \A p : p.at \in {"find", "write"} => p # NoPush /\ In(p) = DOMAIN p.results
  BY DEF In, NoPush

LEMMA FiniteItems ==
    ASSUME script \in Scripts
    PROVE  /\ Items \in SUBSET Nat /\ IsFiniteSet(Items) /\ IsFiniteSet(Bills)
           /\ \A i \in Items : Customer(i) \in 0..(i - 1)
<1>1. PICK n \in Nat : Items = 1..n
  BY SyncConstants DEF Items
<1>2. IsFiniteSet(Items)
  BY <1>1, FS_Interval
<1>3. IsFiniteSet(Bills)
  BY <1>2, FS_Subset DEF Bills
<1>4. \A i \in Items : Customer(i) \in 0..(i - 1)
  BY SyncConstants DEF Items, Customer
<1>5. QED
  BY <1>1, <1>2, <1>3, <1>4

\* The item in turn is one of those left.
LEMMA ItemLeft ==
    ASSUME SyncTyped, NEW q \in Pushers, push[q].at \in {"find", "write"}, push[q].todo # {}
    PROVE  /\ Item(q) \in push[q].todo /\ Item(q) \in In(push[q]) /\ Item(q) \in made
           /\ push[q] # NoPush
<1>1. push[q] # NoPush /\ In(push[q]) = DOMAIN push[q].results
  BY SomePush
<1>2. push[q].todo \subseteq DOMAIN push[q].results /\ In(push[q]) \subseteq made
  BY <1>1 DEF SyncTyped, Pushing
<1>3. push[q].todo \in SUBSET Nat
  BY <1>1, <1>2, FiniteItems DEF SyncTyped
<1>4. \E i \in push[q].todo : \A j \in push[q].todo : i <= j
  BY <1>3, LeastNat
<1>5. Item(q) \in push[q].todo
  BY <1>4 DEF Item, Min
<1>6. QED
  BY <1>1, <1>2, <1>5

\* Nothing the numbers depend on changes.
LEMMA NumberedKept ==
    ASSUME Numbered,
           UNCHANGED <<script, made, saved, numberOf, ownNext, nextInvoiceNumber, deviceKey, split>>
    PROVE  Numbered'
  BY DEF Numbered, HowMany, Bills, Items, Kind

\* The push of q after it answered the item in turn.
Answered(p, i, status) ==
    [at |-> "find", todo |-> p.todo \ {i}, results |-> [p.results EXCEPT ![i] = status]]

LEMMA ResultIs ==
    ASSUME SyncTyped, NEW q \in Pushers, NEW status, Result(q, status)
    PROVE  /\ push'[q] = Answered(push[q], Item(q), status)
           /\ \A o \in Pushers \ {q} : push'[o] = push[o]
           /\ DOMAIN push' = Pushers /\ push' = [o \in Pushers |-> push'[o]]
<1>1. push' = [push EXCEPT ![q] = Answered(push[q], Item(q), status)]
  BY DEF Result, Answered
<1>2. DOMAIN push = Pushers
  BY DEF SyncTyped
<1>3. push' = [o \in Pushers |-> IF o = q THEN Answered(push[q], Item(q), status) ELSE push[o]]
  BY <1>1, <1>2
<1>4. QED
  BY <1>3

----------------------------------------------------------------------------
\* The item in turn gets an answer that is true, and may be saved.
LEMMA AnswerKeeps ==
    ASSUME SyncInv, NEW q \in Pushers, NEW status \in Status \ {"none"},
           push[q].at \in {"find", "write"}, push[q].todo # {}, Result(q, status),
           saved' \in {saved, saved \cup {Item(q)}},
           status \in {"saved", "duplicate"} => Item(q) \in saved',
           status = "rejected" => Item(q) \notin saved' /\ Cause,
           UNCHANGED <<script, planNow, cashierHere, deviceKey, deviceVars, late, split>>
    PROVE  SyncTyped' /\ Where' /\ Answers'
<1> DEFINE i == Item(q)
           p == push[q]
           n == push'[q]
<1>1. /\ i \in p.todo /\ i \in In(p) /\ i \in made
      /\ p # NoPush /\ In(p) = DOMAIN p.results /\ Pushing(p)
  BY ItemLeft, SomePush DEF SyncInv, SyncTyped
<1>2. /\ n = Answered(p, i, status)
      /\ \A o \in Pushers \ {q} : push'[o] = push[o]
      /\ DOMAIN push' = Pushers /\ push' = [o \in Pushers |-> push'[o]]
  BY ResultIs DEF SyncInv
<1>3. /\ n.at = "find" /\ n.todo = p.todo \ {i} /\ n.results = [p.results EXCEPT ![i] = status]
      /\ n # NoPush /\ In(n) = In(p)
      /\ n = [at |-> n.at, todo |-> n.todo, results |-> n.results]
  <2>1. /\ n.at = "find" /\ n.todo = p.todo \ {i} /\ n.results = [p.results EXCEPT ![i] = status]
    BY <1>2 DEF Answered
  <2>2. n # NoPush /\ In(n) = DOMAIN n.results
    BY <2>1, SomePush
  <2>3. n = [at |-> n.at, todo |-> n.todo, results |-> n.results]
    BY <1>2 DEF Answered
  <2>4. QED
    BY <1>1, <2>1, <2>2, <2>3
<1>4. \A o \in Pushers : In(push'[o]) = In(push[o])
  BY <1>2, <1>3
<1>5. saved \subseteq saved' /\ saved' \subseteq saved \cup {i} /\ saved' \subseteq made
  BY <1>1 DEF SyncInv, SyncTyped
<1>6. UNCHANGED <<made, outbox, shown, Cause>>
  BY DEF deviceVars, Cause
<1> HIDE DEF i, p, n
\* The item was not saved by this push and told by another, but in the late set.
<1>7. \A o \in Pushers \ {q} : i \in In(push[o]) => i \in late
  <2> SUFFICES ASSUME NEW o \in Pushers \ {q}, i \in In(push[o]) PROVE i \in late
    OBVIOUS
  <2>1. i \in In(push[q]) /\ i \in In(push[o])
    BY <1>1 DEF p
  <2>2. CASE q \in Devices /\ o \in Devices
    <3>1. i \in outbox[q] \cap outbox[o]
      BY <2>1, <2>2 DEF SyncInv, Where
    <3>2. QED
      BY <2>2, <3>1 DEF SyncInv, SyncTyped
  <2>3. CASE q = "late" \/ o = "late"
    BY <2>1, <2>3 DEF SyncInv, Where, Pushers
  <2>4. QED
    BY <2>2, <2>3 DEF Pushers
<1>8. i \in shown => i \in late
  <2>1. i \in In(push[q])
    BY <1>1 DEF p
  <2>2. CASE q \in Devices
    BY <2>1, <2>2 DEF SyncInv, Where
  <2>3. CASE q = "late"
    BY <2>1, <2>3 DEF SyncInv, Where
  <2>4. QED
    BY <2>2, <2>3 DEF Pushers
<1>9. SyncTyped'
  <2>1. \A o \in Pushers : In(push'[o]) \subseteq made /\ (push'[o] # NoPush => Pushing(push'[o]))
    <3> SUFFICES ASSUME NEW o \in Pushers
                 PROVE  In(push'[o]) \subseteq made /\ (push'[o] # NoPush => Pushing(push'[o]))
      OBVIOUS
    <3>1. In(push[o]) \subseteq made /\ (push[o] # NoPush => Pushing(push[o]))
      BY DEF SyncInv, SyncTyped
    <3>2. CASE o = q
      <4>1. Pushing(n)
        BY <1>1, <1>3 DEF Pushing
      <4>2. QED
        BY <3>1, <3>2, <4>1, <1>4 DEF n
    <3>3. CASE o # q
      BY <1>2, <3>1, <3>3
    <3>4. QED
      BY <3>2, <3>3
  <2>2. UNCHANGED Items
    BY DEF Items
  <2>3. QED
    BY <1>2, <1>5, <1>6, <2>1, <2>2 DEF SyncInv, SyncTyped
<1>10. Where'
  BY <1>4, <1>5, <1>6 DEF SyncInv, Where, Pushers
<1>11. \A o \in Pushers : \A j \in In(push'[o]) : TrueAnswer(push'[o], j, saved', late, Cause)
  <2> SUFFICES ASSUME NEW o \in Pushers, NEW j \in In(push'[o]) PROVE TrueAnswer(push'[o], j, saved', late, Cause)
    OBVIOUS
  <2>1. TrueAnswer(push[o], j, saved, late, Cause)
    BY <1>4 DEF SyncInv, Answers
  <2>2. CASE o = q /\ j = i
    BY <1>1, <1>3, <2>2 DEF TrueAnswer, n, p, i
  <2>3. CASE o = q /\ j # i
    <3>1. (j \in n.todo <=> j \in p.todo) /\ n.results[j] = p.results[j] /\ (j \in saved' <=> j \in saved)
      BY <1>1, <1>3, <1>5, <2>3
    <3>2. QED
      BY <2>1, <2>3, <3>1 DEF TrueAnswer, n, p
  <2>4. CASE o # q
    <3>1. push'[o] = push[o]
      BY <1>2, <2>4
    <3>2. j = i => j \in late
      BY <1>7, <2>4, <3>1, <1>4
    <3>3. QED
      BY <1>5, <2>1, <3>1, <3>2 DEF TrueAnswer
  <2>5. QED
    BY <2>2, <2>3, <2>4
<1>12. Answers'
  BY <1>5, <1>6, <1>8, <1>11 DEF SyncInv, Answers, Pushers
<1>13. QED
  BY <1>9, <1>10, <1>12

\* A push ends, or moves on with the same items: nothing else happens.
LEMMA PushKeeps ==
    ASSUME SyncInv, NEW q \in Pushers, NEW n, push' = [push EXCEPT ![q] = n],
           \/ n = NoPush
           \/ /\ push[q] # NoPush /\ Pushing(n) /\ In(n) = In(push[q])
              /\ n.todo = push[q].todo /\ n.results = push[q].results,
           UNCHANGED <<script, serverVars, deviceVars, late, split>>
    PROVE  SyncInv'
<1>1. /\ push'[q] = n /\ \A o \in Pushers \ {q} : push'[o] = push[o]
      /\ DOMAIN push' = Pushers /\ push' = [o \in Pushers |-> push'[o]]
  <2>1. DOMAIN push = Pushers
    BY DEF SyncInv, SyncTyped
  <2>2. push' = [o \in Pushers |-> IF o = q THEN n ELSE push[o]]
    BY <2>1
  <2>3. QED
    BY <2>2
<1>2. \A o \in Pushers : In(push'[o]) = In(push[o]) \/ In(push'[o]) = {}
  BY <1>1, NoItem
<1>3. \A o \in Pushers : \A j \in In(push'[o]) : TrueAnswer(push'[o], j, saved, late, Cause)
  <2> SUFFICES ASSUME NEW o \in Pushers, NEW j \in In(push'[o]) PROVE TrueAnswer(push'[o], j, saved, late, Cause)
    OBVIOUS
  <2>1. j \in In(push[o]) /\ TrueAnswer(push[o], j, saved, late, Cause)
    BY <1>2 DEF SyncInv, Answers
  <2>2. CASE o # q
    BY <1>1, <2>1, <2>2
  <2>3. CASE o = q
    <3>1. n # NoPush
      BY <1>1, <2>3, NoItem
    <3>2. n.todo = push[q].todo /\ n.results = push[q].results
      BY <3>1
    <3>3. QED
      BY <1>1, <2>1, <2>3, <3>2 DEF TrueAnswer
  <2>4. QED
    BY <2>2, <2>3
<1>4. UNCHANGED <<planNow, cashierHere, deviceKey, nextInvoiceNumber, saved, made, numberOf, outbox,
                  ownNext, shown, Items, Cause>>
  BY DEF serverVars, deviceVars, Items, Cause
<1>5. SyncTyped'
  <2>1. \A o \in Pushers : In(push'[o]) \subseteq made /\ (push'[o] # NoPush => Pushing(push'[o]))
    BY <1>1, <1>2 DEF SyncInv, SyncTyped
  <2>2. QED
    BY <1>1, <1>4, <2>1 DEF SyncInv, SyncTyped
<1>6. Where'
  BY <1>2, <1>4 DEF SyncInv, Where, Pushers
<1>7. Answers'
  BY <1>3, <1>4 DEF SyncInv, Answers
<1>8. Numbered'
  BY <1>4, NumberedKept DEF SyncInv
<1>9. QED
  BY <1>5, <1>6, <1>7, <1>8 DEF SyncInv

----------------------------------------------------------------------------
LEMMA NewKeyKeeps ==
    ASSUME SyncInv, NEW d \in Devices, KeyDevice(d), UNCHANGED script
    PROVE  SyncInv'
<1> DEFINE n == ownNext'[d]
<1>1. /\ UNCHANGED <<planNow, cashierHere, nextInvoiceNumber, saved, made, numberOf, outbox, shown, late, push,
                    Items, Bills, HowMany>>
      /\ deviceKey' = d
  BY DEF KeyDevice, Items, Bills, Kind, HowMany
<1>2. /\ ownNext' \in [Devices -> Nat] /\ n \in 1..(HowMany + 1)
      /\ \A e \in Devices \ {d} : ownNext'[e] = ownNext[e]
      /\ ownNext[d] <= n
  <2>1. ownNext[d] \in 1..(HowMany + 1) /\ nextInvoiceNumber \in 1..(HowMany + 1) /\ HowMany \in Nat
    BY DEF SyncInv, Numbered
  <2> DEFINE two == {ownNext[d], nextInvoiceNumber}
  <2>2. n = Max(two) /\ \A e \in Devices \ {d} : ownNext'[e] = ownNext[e]
    BY DEF KeyDevice, SyncInv, Numbered
  <2>3. \E x \in two : \A y \in two : x >= y
    BY <2>1
  <2>4. Max(two) \in two /\ \A y \in two : Max(two) >= y
    BY <2>3 DEF Max
  <2> HIDE DEF n
  <2>5. n \in 1..(HowMany + 1) /\ ownNext[d] <= n
    BY <2>1, <2>2, <2>4
  <2>6. ownNext' = [ownNext EXCEPT ![d] = n] /\ ownNext \in [Devices -> Nat]
    BY DEF KeyDevice, SyncInv, Numbered, n
  <2>7. QED
    BY <2>1, <2>2, <2>5, <2>6
<1>3. split' \in BOOLEAN /\ (~split' => ~split /\ \A e \in Devices \ {d} : ownNext[e] <= n)
  <2>1. split' = (split \/ \E e \in Devices \ {d} : ownNext[e] > n)
    BY DEF KeyDevice
  <2>2. ownNext \in [Devices -> Nat] /\ n \in Int /\ split \in BOOLEAN
    BY <1>2 DEF SyncInv, Numbered, SyncTyped
  <2> HIDE DEF n
  <2>3. \A e \in Devices : ownNext[e] \in Int
    BY <2>2
  <2>4. split' \in BOOLEAN /\ (~split' => ~split /\ ~\E e \in Devices \ {d} : ownNext[e] > n)
    BY <2>1, <2>2, Zenon
  <2>5. (~\E e \in Devices \ {d} : ownNext[e] > n) => \A e \in Devices \ {d} : ownNext[e] <= n
    BY <2>2, <2>3, SMT
  <2>6. QED
    BY <2>4, <2>5, Zenon
<1> HIDE DEF n
<1>4. SyncTyped'
  BY <1>1, <1>3 DEF SyncInv, SyncTyped
<1>5. Where'
  BY <1>1 DEF SyncInv, Where
<1>6. Cause => Cause'
  BY <1>1, <1>3 DEF Cause, SyncInv, SyncTyped
<1>7. Answers'
  <2>1. \A q \in Pushers : \A i \in In(push[q]) : TrueAnswer(push[q], i, saved, late, Cause')
    BY <1>6 DEF SyncInv, Answers, TrueAnswer
  <2>2. QED
    BY <1>1, <1>6, <2>1 DEF SyncInv, Answers
<1>8. ~split' =>
          /\ \A e \in Devices : ownNext'[e] <= ownNext'[d]
          /\ \A i \in made \cap Bills :
                /\ numberOf[i] < ownNext'[d]
                /\ \A j \in made \cap Bills : numberOf[i] = numberOf[j] => i = j
  <2> SUFFICES ASSUME ~split'
               PROVE  /\ \A e \in Devices : ownNext'[e] <= n
                      /\ \A i \in made \cap Bills :
                            /\ numberOf[i] < n
                            /\ \A j \in made \cap Bills : numberOf[i] = numberOf[j] => i = j
    BY DEF n
  <2>1. /\ ~split /\ deviceKey \in Devices
        /\ \A i \in made \cap Bills : numberOf[i] \in Nat /\ numberOf[i] < ownNext[deviceKey]
        /\ \A e \in Devices : ownNext[e] \in Nat
        /\ n \in Nat
    BY <1>2, <1>3 DEF SyncInv, SyncTyped, Numbered
  <2>2. ownNext[deviceKey] <= n
    BY <1>2, <1>3, <2>1
  <2>3. \A e \in Devices : ownNext'[e] <= n
    <3>1. ownNext'[d] = n
      BY DEF n
    <3>2. QED
      BY <1>2, <1>3, <2>1, <3>1
  <2>4. \A i \in made \cap Bills : numberOf[i] < n
    BY <2>1, <2>2
  <2>5. QED
    BY <2>1, <2>3, <2>4 DEF SyncInv, Numbered
<1>9. \A e \in Devices : ownNext'[e] \in 1..(HowMany + 1)
  BY <1>2 DEF n, SyncInv, Numbered
<1>10. Numbered'
  BY <1>1, <1>2, <1>8, <1>9 DEF SyncInv, Numbered
<1>11. QED
  BY <1>4, <1>5, <1>7, <1>10 DEF SyncInv

LEMMA MakeKeeps ==
    ASSUME SyncInv, NEW d \in Devices, NEW i \in Items, Make(d, i), UNCHANGED script
    PROVE  SyncInv'
<1>1. /\ UNCHANGED <<planNow, cashierHere, deviceKey, nextInvoiceNumber, saved, shown, late, push, Items, Bills>>
      /\ made' = made \cup {i} /\ outbox' = [outbox EXCEPT ![d] = @ \cup {i}]
  BY DEF Make, Items, Bills, Kind, serverVars
<1>2. /\ made = 1..Cardinality(made) /\ Cardinality(made) \in Nat /\ i = Cardinality(made) + 1
      /\ IsFiniteSet(made) /\ IsFiniteSet(made \cap Bills)
  <2>1. IsFiniteSet(made) /\ IsFiniteSet(made \cap Bills)
    BY FiniteItems, FS_Subset DEF SyncInv, SyncTyped
  <2>2. QED
    BY <2>1, FS_CardinalityType DEF Make, SyncInv, Numbered
<1>3. i \notin made /\ made' = 1..Cardinality(made')
  <2>1. i \notin made
    BY <1>2
  <2>2. Cardinality(made') = i
    BY <1>1, <1>2, <2>1, FS_AddElement
  <2>3. made' = 1..i
    BY <1>1, <1>2
  <2>4. QED
    BY <2>1, <2>2, <2>3
<1>4. /\ HowMany \in Nat
      /\ HowMany' = IF i \in Bills THEN HowMany + 1 ELSE HowMany
  <2>1. HowMany \in Nat
    BY DEF SyncInv, Numbered
  <2>2. CASE i \in Bills
    <3>1. made' \cap Bills' = (made \cap Bills) \cup {i} /\ i \notin made \cap Bills
      BY <1>1, <1>3, <2>2
    <3>2. QED
      BY <1>2, <2>1, <2>2, <3>1, FS_AddElement DEF HowMany
  <2>3. CASE i \notin Bills
    <3>1. made' \cap Bills' = made \cap Bills
      BY <1>1, <2>3
    <3>2. QED
      BY <2>1, <2>3, <3>1 DEF HowMany
  <2>4. QED
    BY <2>1, <2>2, <2>3
<1>5. SyncTyped'
  <2>1. split' \in BOOLEAN
    BY DEF Make, SyncInv, SyncTyped
  <2>2. /\ outbox' \in [Devices -> SUBSET made']
        /\ \A e, f \in Devices : e # f => outbox'[e] \cap outbox'[f] = {}
    BY <1>1, <1>3 DEF SyncInv, SyncTyped
  <2>3. QED
    BY <1>1, <2>1, <2>2 DEF SyncInv, SyncTyped
<1>6. Where'
  <2>1. \A e \in Devices : outbox[e] \subseteq outbox'[e] /\ outbox'[e] \subseteq outbox[e] \cup {i}
    BY <1>1 DEF SyncInv, SyncTyped
  <2>2. i \in outbox'[d] /\ i \notin shown
    BY <1>1, <1>3 DEF SyncInv, SyncTyped
  <2>3. QED
    BY <1>1, <2>1, <2>2 DEF SyncInv, Where
<1>7. ~split' => ~split
  BY DEF Make, SyncInv, SyncTyped
<1>8. Cause => Cause'
  BY <1>1, <1>7 DEF Cause
<1>9. Answers'
  <2>1. \A q \in Pushers : \A j \in In(push[q]) : TrueAnswer(push[q], j, saved, late, Cause')
    BY <1>8 DEF SyncInv, Answers, TrueAnswer
  <2>2. QED
    BY <1>1, <1>8, <2>1 DEF SyncInv, Answers
<1>10. CASE i \notin Bills
  <2>1. UNCHANGED <<numberOf, ownNext, split>> /\ made' \cap Bills' = made \cap Bills
    BY <1>1, <1>10 DEF Make
  <2>2. HowMany' = HowMany
    BY <1>4, <1>10
  <2>3. Numbered'
    BY <1>1, <1>3, <2>1, <2>2 DEF SyncInv, Numbered
  <2>4. QED
    BY <1>5, <1>6, <1>9, <2>3 DEF SyncInv
<1>11. CASE i \in Bills
  <2>1. /\ numberOf' = [numberOf EXCEPT ![i] = ownNext[d]]
        /\ ownNext' = [ownNext EXCEPT ![d] = @ + 1]
        /\ split' = (split \/ deviceKey # d)
        /\ HowMany' = HowMany + 1
    BY <1>4, <1>11 DEF Make
  <2>2. /\ \A j \in made : numberOf'[j] = numberOf[j]
        /\ numberOf'[i] = ownNext[d] /\ ownNext[d] \in 1..(HowMany + 1)
        /\ numberOf' \in [Items -> Nat] /\ ownNext' \in [Devices -> Nat]
        /\ ownNext'[d] = ownNext[d] + 1
        /\ \A e \in Devices \ {d} : ownNext'[e] = ownNext[e]
    BY <1>3, <1>4, <2>1 DEF SyncInv, SyncTyped, Numbered
  <2>3. \A j \in Items : numberOf'[j] <= HowMany'
    BY <1>4, <2>1, <2>2 DEF SyncInv, Numbered
  <2>4. \A e \in Devices : ownNext'[e] \in 1..(HowMany' + 1)
    BY <1>4, <2>1, <2>2 DEF SyncInv, Numbered
  <2>5. nextInvoiceNumber' \in 1..(HowMany' + 1)
    BY <1>1, <1>4, <2>1 DEF SyncInv, Numbered
  <2>6. \A j \in saved' \cap Bills' : numberOf'[j] < nextInvoiceNumber'
    BY <1>1, <2>2 DEF SyncInv, SyncTyped, Numbered
  <2>7. ~split' =>
          /\ \A e \in Devices : ownNext'[e] <= ownNext'[deviceKey']
          /\ \A k \in made' \cap Bills' :
                /\ numberOf'[k] < ownNext'[deviceKey']
                /\ \A j \in made' \cap Bills' : numberOf'[k] = numberOf'[j] => k = j
    <3> SUFFICES ASSUME ~split'
                 PROVE  /\ \A e \in Devices : ownNext'[e] <= ownNext'[d]
                        /\ \A k \in made' \cap Bills :
                            /\ numberOf'[k] < ownNext'[d]
                            /\ \A j \in made' \cap Bills : numberOf'[k] = numberOf'[j] => k = j
      BY <1>1, <2>1
    <3>1. /\ ~split /\ deviceKey = d /\ ownNext[d] \in Nat
          /\ \A e \in Devices : ownNext[e] \in Nat /\ ownNext[e] <= ownNext[d]
          /\ \A k \in made \cap Bills : numberOf[k] \in Nat /\ numberOf[k] < ownNext[d]
      BY <2>1 DEF SyncInv, SyncTyped, Numbered
    <3>2. \A e \in Devices : ownNext'[e] <= ownNext'[d]
      BY <2>2, <3>1
    <3>3. \A k \in made' \cap Bills : numberOf'[k] < ownNext'[d]
      BY <1>1, <2>2, <3>1
    <3>4. \A k, j \in made' \cap Bills : numberOf'[k] = numberOf'[j] => k = j
      <4>1. \A k, j \in made \cap Bills : numberOf[k] = numberOf[j] => k = j
        BY <3>1 DEF SyncInv, Numbered
      <4>2. \A k \in made \cap Bills : numberOf'[k] # numberOf'[i]
        BY <2>2, <3>1
      <4>3. QED
        BY <1>1, <2>2, <4>1, <4>2
    <3>5. QED
      BY <3>2, <3>3, <3>4
  <2>8. HowMany' \in Nat /\ nextInvoiceNumber' \in Nat
    BY <1>1, <1>4, <2>1 DEF SyncInv, Numbered
  <2>9. Numbered'
    BY <1>1, <1>3, <2>2, <2>3, <2>4, <2>5, <2>6, <2>7, <2>8 DEF Numbered
  <2>10. QED
    BY <1>5, <1>6, <1>9, <2>9 DEF SyncInv
<1>12. QED
  BY <1>10, <1>11

----------------------------------------------------------------------------
LEMMA PushBegins ==
    ASSUME SyncInv, NEW d \in Devices, Push(d), UNCHANGED script
    PROVE  SyncInv'
<1>1. PICK batch : /\ batch \subseteq outbox[d]
                   /\ push' = [push EXCEPT ![d] = [at |-> "find", todo |-> batch,
                                                   results |-> [i \in batch |-> "none"]]]
                   /\ late' = late \cup (IF push["late"] # NoPush THEN batch ELSE {})
  BY DEF Push, Waiting
<1> DEFINE n == [at |-> "find", todo |-> batch, results |-> [i \in batch |-> "none"]]
<1>2. n # NoPush /\ In(n) = batch /\ Pushing(n)
  <2>1. n.at = "find" /\ n.todo = batch /\ DOMAIN n.results = batch
    OBVIOUS
  <2>2. n # NoPush /\ In(n) = DOMAIN n.results
    BY <2>1, SomePush
  <2>3. QED
    BY <2>1, <2>2 DEF Pushing
<1>3. \A i \in batch : \A kept, again, cause : TrueAnswer(n, i, kept, again, cause)
  BY DEF TrueAnswer, Status
<1> HIDE DEF n
<1>4. d \in Pushers /\ d # "late" /\ DOMAIN push = Pushers
  BY SyncConstants DEF SyncInv, SyncTyped, Pushers
<1>5. /\ push' = [o \in Pushers |-> IF o = d THEN n ELSE push[o]]
  BY <1>1, <1>4 DEF n
<1>6. /\ push'[d] = n /\ \A o \in Pushers \ {d} : push'[o] = push[o]
      /\ push' = [o \in Pushers |-> push'[o]] /\ DOMAIN push' = Pushers
      /\ push'["late"] = push["late"]
  BY <1>4, <1>5 DEF Pushers
<1>7. /\ UNCHANGED <<script, planNow, cashierHere, deviceKey, nextInvoiceNumber, saved, made, numberOf,
                    outbox, ownNext, shown, split, Items, Cause>>
      /\ late \subseteq late'
  BY <1>1 DEF Push, Items, Cause, serverVars
<1>8. SyncTyped'
  <2>1. \A o \in Pushers : In(push'[o]) \subseteq made /\ (push'[o] # NoPush => Pushing(push'[o]))
    <3>1. outbox[d] \subseteq made
      BY DEF SyncInv, SyncTyped
    <3>2. QED
      BY <1>1, <1>2, <1>6, <3>1 DEF SyncInv, SyncTyped
  <2>2. QED
    BY <1>6, <1>7, <2>1 DEF SyncInv, SyncTyped
<1>9. Where'
  <2>1. \A e \in Devices : In(push'[e]) \subseteq outbox[e]
    BY <1>1, <1>2, <1>6 DEF SyncInv, Where, Pushers
  <2>2. \A e \in Devices : In(push'[e]) \cap In(push'["late"]) \subseteq late'
    <3>1. In(push["late"]) # {} => batch \subseteq late'
      BY <1>1, NoItem
    <3>2. QED
      BY <1>2, <1>6, <1>7, <3>1 DEF SyncInv, Where, Pushers
  <2>3. QED
    BY <1>6, <1>7, <2>1, <2>2 DEF SyncInv, Where
<1>10. Answers'
  <2>1. \A o \in Pushers : \A i \in In(push'[o]) : TrueAnswer(push'[o], i, saved, late', Cause)
    <3> SUFFICES ASSUME NEW o \in Pushers, NEW i \in In(push'[o])
                 PROVE  TrueAnswer(push'[o], i, saved, late', Cause)
      OBVIOUS
    <3>1. CASE o = d
      BY <1>2, <1>3, <1>6, <3>1
    <3>2. CASE o # d
      <4>1. TrueAnswer(push[o], i, saved, late, Cause)
        BY <1>6, <3>2 DEF SyncInv, Answers
      <4>2. QED
        BY <1>6, <1>7, <3>2, <4>1 DEF TrueAnswer
    <3>3. QED
      BY <3>1, <3>2
  <2>2. QED
    BY <1>7, <2>1 DEF SyncInv, Answers
<1>11. Numbered'
  BY <1>7, NumberedKept DEF SyncInv
<1>12. QED
  BY <1>8, <1>9, <1>10, <1>11 DEF SyncInv

\* The device hears what became of its items, and keeps the rest.
LEMMA HearKeeps ==
    ASSUME SyncInv, NEW d \in Devices, HearPush(d), UNCHANGED script
    PROVE  SyncInv'
<1> DEFINE p == push[d]
           kept == {i \in DOMAIN p.results : p.results[i] \in {"saved", "duplicate", "rejected"}}
           refused == {i \in DOMAIN p.results : p.results[i] \in {"rejected"}}
<1>1. p # NoPush /\ In(p) = DOMAIN p.results /\ d \in Pushers /\ d # "late"
  BY SomePush, SyncConstants DEF HearPush, Pushers
<1>2. /\ outbox' = [outbox EXCEPT ![d] = @ \ kept]
      /\ shown' = shown \cup refused
      /\ push' = [push EXCEPT ![d] = NoPush]
  BY DEF HearPush
<1>3. /\ \A i \in kept : i \in In(p) /\ i \in saved \cup refused
      /\ \A i \in refused : i \in In(p) /\ i \in kept /\ (i \in saved => i \in late) /\ Cause
  <2>1. \A i \in In(p) : TrueAnswer(p, i, saved, late, Cause)
    BY <1>1 DEF SyncInv, Answers
  <2>2. QED
    BY <1>1, <2>1 DEF TrueAnswer
<1> HIDE DEF p, kept, refused
<1>4. /\ push'[d] = NoPush /\ \A o \in Pushers \ {d} : push'[o] = push[o]
      /\ push' = [o \in Pushers |-> push'[o]] /\ DOMAIN push' = Pushers
      /\ push'["late"] = push["late"]
  <2>1. DOMAIN push = Pushers
    BY DEF SyncInv, SyncTyped
  <2>2. push' = [o \in Pushers |-> IF o = d THEN NoPush ELSE push[o]]
    BY <1>2, <2>1
  <2>3. QED
    BY <1>1, <2>2 DEF Pushers
<1>5. UNCHANGED <<script, planNow, cashierHere, deviceKey, nextInvoiceNumber, saved, made, numberOf,
                  ownNext, late, split, Items, Cause>>
  BY DEF HearPush, Items, Cause, serverVars
<1>6. /\ In(p) \subseteq outbox[d] /\ In(p) \subseteq made
      /\ outbox \in [Devices -> SUBSET made]
      /\ outbox'[d] = outbox[d] \ kept /\ \A e \in Devices \ {d} : outbox'[e] = outbox[e]
      /\ \A e \in Devices \ {d} : outbox[e] \cap outbox[d] = {}
  BY <1>1, <1>2 DEF SyncInv, SyncTyped, Where, p
<1>7. SyncTyped'
  <2>1. \A o \in Pushers : In(push'[o]) \subseteq made /\ (push'[o] # NoPush => Pushing(push'[o]))
    BY <1>4, NoItem DEF SyncInv, SyncTyped
  <2>2. outbox' \in [Devices -> SUBSET made] /\ shown' \subseteq made
    BY <1>2, <1>3, <1>6 DEF SyncInv, SyncTyped
  <2>3. \A e, f \in Devices : e # f => outbox'[e] \cap outbox'[f] = {}
    BY <1>6 DEF SyncInv, SyncTyped
  <2>4. QED
    BY <1>4, <1>5, <2>1, <2>2, <2>3 DEF SyncInv, SyncTyped
<1>8. Where'
  <2>1. \A e \in Devices : In(push'[e]) \subseteq outbox'[e]
    BY <1>4, <1>6, NoItem DEF SyncInv, Where, Pushers
  <2>2. \A e \in Devices : outbox'[e] \cap shown' = {}
    <3>1. \A e \in Devices : outbox'[e] \cap refused = {}
      BY <1>3, <1>6
    <3>2. \A e \in Devices : outbox'[e] \subseteq outbox[e]
      BY <1>6
    <3>3. QED
      BY <1>2, <3>1, <3>2 DEF SyncInv, Where
  <2>3. \A e \in Devices : In(push'[e]) \cap In(push'["late"]) \subseteq late
    BY <1>4, NoItem DEF SyncInv, Where, Pushers
  <2>4. In(push'["late"]) \cap shown' \subseteq late
    <3>1. In(p) \cap In(push["late"]) \subseteq late
      BY DEF SyncInv, Where, p
    <3>2. QED
      BY <1>2, <1>3, <1>4, <3>1 DEF SyncInv, Where
  <2>5. \A i \in made : i \in saved \cup shown' \/ \E e \in Devices : i \in outbox'[e]
    BY <1>2, <1>3, <1>6 DEF SyncInv, Where
  <2>6. QED
    BY <1>5, <2>1, <2>2, <2>3, <2>4, <2>5 DEF Where
<1>9. Answers'
  <2>1. \A o \in Pushers : \A i \in In(push'[o]) : TrueAnswer(push'[o], i, saved, late, Cause)
    BY <1>4, NoItem DEF SyncInv, Answers
  <2>2. saved \cap shown' \subseteq late /\ (shown' # {} => Cause)
    BY <1>2, <1>3 DEF SyncInv, Answers
  <2>3. QED
    BY <1>5, <2>1, <2>2 DEF Answers
<1>10. Numbered'
  BY <1>5, NumberedKept DEF SyncInv
<1>11. QED
  BY <1>7, <1>8, <1>9, <1>10 DEF SyncInv

\* The device stops waiting; its push goes on.
LEMMA GiveUpKeeps ==
    ASSUME SyncInv, NEW d \in Devices, GiveUpWaiting(d), UNCHANGED script
    PROVE  SyncInv'
<1> DEFINE p == push[d]
<1>1. p # NoPush /\ push["late"] = NoPush /\ d \in Pushers /\ "late" \in Pushers /\ d # "late"
  BY SyncConstants DEF GiveUpWaiting, Pushers
<1>2. /\ push'[d] = NoPush /\ push'["late"] = p
      /\ \A e \in Devices \ {d} : push'[e] = push[e]
      /\ push' = [o \in Pushers |-> push'[o]] /\ DOMAIN push' = Pushers
  <2>1. DOMAIN push = Pushers
    BY DEF SyncInv, SyncTyped
  <2>2. push' = [o \in Pushers |-> IF o = d THEN NoPush ELSE IF o = "late" THEN p ELSE push[o]]
    BY <1>1, <2>1 DEF GiveUpWaiting
  <2> HIDE DEF p
  <2>3. QED
    BY <1>1, <2>2, SyncConstants DEF Pushers
<1>3. UNCHANGED <<script, planNow, cashierHere, deviceKey, nextInvoiceNumber, saved, made, numberOf, outbox,
                  ownNext, shown, late, split, Items, Cause>>
  BY DEF GiveUpWaiting, Items, Cause, serverVars, deviceVars
<1>4. /\ In(p) \subseteq outbox[d] /\ In(p) \subseteq made /\ Pushing(p)
      /\ \A i \in In(p) : TrueAnswer(p, i, saved, late, Cause)
  BY <1>1 DEF SyncInv, SyncTyped, Where, Answers
<1> HIDE DEF p
<1>5. SyncTyped'
  <2>1. \A o \in Pushers : In(push'[o]) \subseteq made /\ (push'[o] # NoPush => Pushing(push'[o]))
    BY <1>2, <1>4, NoItem DEF SyncInv, SyncTyped, Pushers
  <2>2. QED
    BY <1>2, <1>3, <2>1 DEF SyncInv, SyncTyped
<1>6. Where'
  <2>1. \A e \in Devices : In(push'[e]) \subseteq outbox[e]
    BY <1>2, NoItem DEF SyncInv, Where
  <2>2. \A e \in Devices : In(push'[e]) \cap In(push'["late"]) \subseteq late
    <3>1. \A e \in Devices \ {d} : In(push[e]) \cap In(p) = {}
      BY <1>4 DEF SyncInv, SyncTyped, Where
    <3>2. QED
      BY <1>2, <3>1, NoItem
  <2>3. In(push'["late"]) \cap shown \subseteq late
    BY <1>2, <1>4 DEF SyncInv, Where
  <2>4. QED
    BY <1>3, <2>1, <2>2, <2>3 DEF SyncInv, Where
<1>7. Answers'
  <2>1. \A o \in Pushers : \A i \in In(push'[o]) : TrueAnswer(push'[o], i, saved, late, Cause)
    BY <1>2, <1>4, NoItem DEF SyncInv, Answers, Pushers
  <2>2. QED
    BY <1>3, <2>1 DEF SyncInv, Answers
<1>8. Numbered'
  BY <1>3, NumberedKept DEF SyncInv
<1>9. QED
  BY <1>5, <1>6, <1>7, <1>8 DEF SyncInv

----------------------------------------------------------------------------
\* An answer without a write.
LEMMA ToldKeeps ==
    ASSUME SyncInv, NEW q \in Pushers, NEW status \in Status \ {"none"},
           push[q].at \in {"find", "write"}, push[q].todo # {}, Result(q, status),
           status \in {"saved", "duplicate"} => Item(q) \in saved,
           status = "rejected" => Item(q) \notin saved /\ Cause,
           UNCHANGED <<script, serverVars, deviceVars, late, split>>
    PROVE  SyncInv'
<1>1. UNCHANGED <<planNow, cashierHere, deviceKey, nextInvoiceNumber, saved, made, numberOf, ownNext>>
  BY DEF serverVars, deviceVars
<1>2. SyncTyped' /\ Where' /\ Answers'
  BY <1>1, AnswerKeeps
<1>3. Numbered'
  BY <1>1, NumberedKept DEF SyncInv
<1>4. QED
  BY <1>2, <1>3 DEF SyncInv

LEMMA FindKeeps ==
    ASSUME SyncInv, NEW q \in Pushers, Find(q), UNCHANGED script
    PROVE  SyncInv'
<1> DEFINE i == Item(q)
<1>1. /\ push[q].at = "find" /\ push[q].todo # {}
      /\ UNCHANGED <<script, serverVars, deviceVars, late, split>>
  BY DEF Find
<1>2. CASE i \in saved
  BY <1>1, <1>2, ToldKeeps DEF Find, IfSaved, Status
<1>3. CASE i \notin saved /\ Kind(i) # "customer" /\ ~cashierHere
  BY <1>1, <1>3, ToldKeeps DEF Find, Status, Cause
<1>4. CASE i \notin saved /\ ~(Kind(i) # "customer" /\ ~cashierHere) /\ Customer(i) \notin saved \cup {0}
  BY <1>1, <1>4, ToldKeeps DEF Find, Status
<1>5. CASE /\ i \notin saved /\ ~(Kind(i) # "customer" /\ ~cashierHere)
           /\ Customer(i) \in saved \cup {0}
  <2>1. push' = [push EXCEPT ![q] = [push[q] EXCEPT !.at = "write"]]
    BY <1>5 DEF Find
  <2> DEFINE p == push[q]
             n == [p EXCEPT !.at = "write"]
  <2>2. p # NoPush /\ In(p) = DOMAIN p.results /\ Pushing(p)
    BY <1>1, SomePush DEF SyncInv, SyncTyped
  <2>3. n = [at |-> "write", todo |-> p.todo, results |-> p.results]
    <3> DEFINE t == p.todo
               a == p.results
    <3>1. p = [at |-> p.at, todo |-> t, results |-> a]
      BY <2>2 DEF Pushing
    <3> HIDE DEF t, a
    <3>2. QED
      BY <3>1
  <2>4. n.at = "write" /\ n.todo = p.todo /\ n.results = p.results
    BY <2>3
  <2>5. n = [at |-> n.at, todo |-> n.todo, results |-> n.results]
    BY <2>3, <2>4
  <2>6. p.todo # {}
    BY <1>1
  <2> HIDE DEF p, n
  <2>7. In(n) = In(p) /\ Pushing(n)
    BY <2>2, <2>4, <2>5, <2>6, SomePush DEF Pushing
  <2>8. push' = [push EXCEPT ![q] = n]
    BY <2>1 DEF n, p
  <2>9. push[q] # NoPush /\ In(n) = In(push[q]) /\ n.todo = push[q].todo /\ n.results = push[q].results
    BY <2>2, <2>4, <2>7 DEF p
  <2>10. QED
    BY <1>1, <2>7, <2>8, <2>9, PushKeeps
<1>6. QED
  BY <1>2, <1>3, <1>4, <1>5

LEMMA SaveKeeps ==
    ASSUME SyncInv, NEW q \in Pushers, Save(q), UNCHANGED script
    PROVE  SyncInv'
<1> DEFINE i == Item(q)
<1>1. /\ push[q].at = "write" /\ i \notin saved /\ (i \in Bills => ~NumberTaken(i))
      /\ saved' = saved \cup {i} /\ Result(q, "saved")
      /\ nextInvoiceNumber' = IF i \in Bills THEN NumberAfter(numberOf[i]) ELSE nextInvoiceNumber
      /\ UNCHANGED <<script, planNow, cashierHere, deviceKey, deviceVars, late, split>>
  BY DEF Save
<1>2. push[q].todo # {}
  BY <1>1, SomePush DEF SyncInv, SyncTyped, Pushing
<1>3. SyncTyped' /\ Where' /\ Answers'
  BY <1>1, <1>2, AnswerKeeps DEF Status
<1>4. i \in made
  BY <1>1, <1>2, ItemLeft DEF SyncInv
<1> HIDE DEF i
<1>5. UNCHANGED <<made, numberOf, ownNext, deviceKey, split, Items, Bills, HowMany>>
  BY <1>1 DEF deviceVars, Items, Bills, Kind, HowMany
<1>6. /\ nextInvoiceNumber' \in 1..(HowMany + 1) /\ nextInvoiceNumber <= nextInvoiceNumber'
      /\ i \in Bills => numberOf[i] < nextInvoiceNumber'
  <2>1. nextInvoiceNumber \in 1..(HowMany + 1) /\ HowMany \in Nat
    BY DEF SyncInv, Numbered
  <2>2. CASE i \notin Bills
    BY <1>1, <2>1, <2>2
  <2>3. CASE i \in Bills
    <3> DEFINE m == numberOf[i] + 1
               two == {nextInvoiceNumber, m}
    <3>1. numberOf[i] \in Nat /\ m \in 1..(HowMany + 1)
      BY <1>4, <2>3 DEF SyncInv, SyncTyped, Numbered
    <3>2. nextInvoiceNumber' = Max(two)
      BY <1>1, <2>3 DEF NumberAfter
    <3> HIDE DEF m
    <3>3. \E x \in two : \A y \in two : x >= y
      BY <2>1, <3>1
    <3>4. Max(two) \in two /\ \A y \in two : Max(two) >= y
      BY <3>3 DEF Max
    <3>5. nextInvoiceNumber' \in 1..(HowMany + 1) /\ nextInvoiceNumber <= nextInvoiceNumber'
          /\ m <= nextInvoiceNumber'
      BY <2>1, <3>1, <3>2, <3>4
    <3>6. numberOf[i] < nextInvoiceNumber'
      BY <3>1, <3>5 DEF m
    <3>7. QED
      BY <3>5, <3>6
  <2>4. QED
    BY <2>2, <2>3
<1>7. \A j \in saved' \cap Bills : numberOf[j] < nextInvoiceNumber'
  <2>1. \A j \in saved \cap Bills : numberOf[j] \in Nat /\ numberOf[j] < nextInvoiceNumber
    BY DEF SyncInv, SyncTyped, Numbered
  <2>2. nextInvoiceNumber \in Nat /\ nextInvoiceNumber' \in Nat
    BY <1>6 DEF SyncInv, Numbered
  <2>3. \A j \in saved \cap Bills : numberOf[j] < nextInvoiceNumber'
    BY <1>6, <2>1, <2>2
  <2>4. QED
    BY <1>1, <1>6, <2>3
<1>8. Numbered'
  <2>1. nextInvoiceNumber' \in Nat
    BY <1>6
  <2>2. QED
    BY <1>5, <1>6, <1>7, <2>1 DEF SyncInv, Numbered
<1>9. QED
  BY <1>3, <1>8 DEF SyncInv

\* A bill's number can be taken only when two devices numbered from one on.
LEMMA RefuseNumberKeeps ==
    ASSUME SyncInv, NEW q \in Pushers, RefuseNumber(q), UNCHANGED script
    PROVE  SyncInv'
<1>1. /\ push[q].at = "write" /\ Item(q) \in Bills \ saved /\ NumberTaken(Item(q))
      /\ Result(q, "rejected")
      /\ UNCHANGED <<script, serverVars, deviceVars, late, split>>
  BY DEF RefuseNumber
<1>2. push[q].todo # {}
  BY <1>1, SomePush DEF SyncInv, SyncTyped, Pushing
<1>3. Item(q) \in made \cap Bills
  BY <1>1, <1>2, ItemLeft DEF SyncInv
<1>4. split
  <2>1. PICK j \in saved \cap Bills : numberOf[j] = numberOf[Item(q)]
    BY <1>1 DEF NumberTaken
  <2>2. j \in made \cap Bills /\ j # Item(q)
    BY <1>1, <2>1 DEF SyncInv, SyncTyped
  <2>3. QED
    BY <1>3, <2>1, <2>2 DEF SyncInv, Numbered
<1>5. QED
  BY <1>1, <1>2, <1>4, ToldKeeps DEF Status, Cause

LEMMA SavedMeanwhileKeeps ==
    ASSUME SyncInv, NEW q \in Pushers, SavedMeanwhile(q), UNCHANGED script
    PROVE  SyncInv'
<1>1. /\ push[q].at = "write" /\ Item(q) \in saved
      /\ \/ Result(q, "duplicate") \/ Result(q, "retry") \/ push' = [push EXCEPT ![q] = NoPush]
      /\ UNCHANGED <<script, serverVars, deviceVars, late, split>>
  BY DEF SavedMeanwhile, AfterFailure
<1>2. push[q].todo # {}
  BY <1>1, SomePush DEF SyncInv, SyncTyped, Pushing
<1>3. CASE Result(q, "duplicate")
  BY <1>1, <1>2, <1>3, ToldKeeps DEF Status
<1>4. CASE Result(q, "retry")
  BY <1>1, <1>2, <1>4, ToldKeeps DEF Status
<1>5. CASE push' = [push EXCEPT ![q] = NoPush]
  BY <1>1, <1>5, PushKeeps
<1>6. QED
  BY <1>1, <1>3, <1>4, <1>5

LEMMA WriteFailsKeeps ==
    ASSUME SyncInv, NEW q \in Pushers, WriteFails(q), UNCHANGED script
    PROVE  SyncInv'
<1>1. /\ push[q].at = "write"
      /\ Result(q, "retry") \/ push' = [push EXCEPT ![q] = NoPush]
      /\ UNCHANGED <<script, serverVars, deviceVars, late, split>>
  BY DEF WriteFails, AfterFailure
<1>2. push[q].todo # {}
  BY <1>1, SomePush DEF SyncInv, SyncTyped, Pushing
<1>3. CASE Result(q, "retry")
  BY <1>1, <1>2, <1>3, ToldKeeps DEF Status
<1>4. CASE push' = [push EXCEPT ![q] = NoPush]
  BY <1>1, <1>4, PushKeeps
<1>5. QED
  BY <1>1, <1>3, <1>4

LEMMA OwnerKeeps ==
    ASSUME SyncInv, PlanEnds \/ Renew \/ CashierMoves, UNCHANGED script
    PROVE  SyncInv'
<1>1. /\ UNCHANGED <<script, deviceKey, nextInvoiceNumber, saved, deviceVars, late, split, push>>
      /\ planNow' \in {"on", "ended", "renewed"} /\ cashierHere' \in BOOLEAN
      /\ cashierHere' => cashierHere
  <2>1. CASE PlanEnds
    BY <2>1 DEF PlanEnds, SyncInv, SyncTyped
  <2>2. CASE Renew
    BY <2>2 DEF Renew, SyncInv, SyncTyped
  <2>3. CASE CashierMoves
    BY <2>3 DEF CashierMoves, SyncInv, SyncTyped
  <2>4. QED
    BY <2>1, <2>2, <2>3
<1>2. UNCHANGED <<made, numberOf, outbox, ownNext, shown, Items>> /\ (Cause => Cause')
  BY <1>1 DEF deviceVars, Items, Cause
<1>3. SyncTyped' /\ Where'
  BY <1>1, <1>2 DEF SyncInv, SyncTyped, Where
<1>4. Answers'
  <2>1. \A q \in Pushers : \A i \in In(push[q]) : TrueAnswer(push[q], i, saved, late, Cause')
    BY <1>2 DEF SyncInv, Answers, TrueAnswer
  <2>2. QED
    BY <1>1, <1>2, <2>1 DEF SyncInv, Answers
<1>5. Numbered'
  BY <1>1, <1>2, NumberedKept DEF SyncInv
<1>6. QED
  BY <1>3, <1>4, <1>5 DEF SyncInv

----------------------------------------------------------------------------
LEMMA SyncInvInit == SyncInit => SyncInv
<1> SUFFICES ASSUME SyncInit PROVE SyncInv
  OBVIOUS
<1>1. deviceKey \in Devices
  BY SyncConstants DEF SyncInit
<1>2. push = [q \in Pushers |-> NoPush]
  BY DEF SyncInit, Pushers
<1>3. SyncTyped
  BY <1>1, <1>2, NoItem DEF SyncInit, SyncTyped
<1>4. Cardinality(made) = 0 /\ HowMany = 0
  BY FS_EmptySet DEF SyncInit, HowMany
<1>5. Numbered
  BY <1>1, <1>4 DEF SyncInit, Numbered
<1>6. Where
  BY <1>2, NoItem DEF SyncInit, Where, Pushers
<1>7. Answers
  BY <1>2, NoItem DEF SyncInit, Answers
<1>8. QED
  BY <1>3, <1>5, <1>6, <1>7 DEF SyncInv

LEMMA SyncInvStep == SyncInv /\ [SyncNext]_syncVars => SyncInv'
<1> SUFFICES ASSUME SyncInv, [SyncNext]_syncVars PROVE SyncInv'
  OBVIOUS
<1>1. CASE UNCHANGED syncVars
  <2>1. UNCHANGED <<script, serverVars, deviceVars, late, split, push>>
    BY <1>1 DEF syncVars
  <2>2. UNCHANGED <<planNow, cashierHere, deviceKey, nextInvoiceNumber, saved, made, numberOf, outbox,
                    ownNext, shown, Items, Bills, HowMany, Cause>>
    BY <2>1 DEF serverVars, deviceVars, Items, Bills, Kind, HowMany, Cause
  <2>3. QED
    BY <2>1, <2>2 DEF SyncInv, SyncTyped, Where, Answers, Numbered
<1>2. CASE SyncNext
  <2>1. UNCHANGED script
    BY <1>2 DEF SyncNext
  <2>2. CASE PlanEnds \/ Renew \/ CashierMoves
    BY <2>1, <2>2, OwnerKeeps
  <2>3. CASE \E d \in Devices : KeyDevice(d) \/ GiveUpWaiting(d) \/ Push(d) \/ HearPush(d)
    BY <2>1, <2>3, NewKeyKeeps, GiveUpKeeps, PushBegins, HearKeeps
  <2>4. CASE \E d \in Devices : \E i \in Items : Make(d, i)
    BY <2>1, <2>4, MakeKeeps
  <2>5. CASE \E q \in Pushers : HandleItem(q) \/ WriteFails(q)
    BY <2>1, <2>5, FindKeeps, SaveKeeps, RefuseNumberKeeps, SavedMeanwhileKeeps, WriteFailsKeeps
       DEF HandleItem
  <2>6. CASE EndLate \/ \E q \in Pushers : LoseAnswer(q)
    <3>1. PICK q \in Pushers : push' = [push EXCEPT ![q] = NoPush]
                               /\ UNCHANGED <<serverVars, deviceVars, late, split>>
      BY <2>6 DEF EndLate, LoseAnswer, Pushers
    <3>2. QED
      BY <2>1, <3>1, PushKeeps
  <2>7. QED
    BY <1>2, <2>2, <2>3, <2>4, <2>5, <2>6 DEF SyncNext, DeviceActs, Pushers
<1>3. QED
  BY <1>1, <1>2

\* Whatever fails, whenever the plan ends, and however often the counter is
\* keyed again: what a device no longer keeps is saved or was rejected, and it
\* is rejected only for a cause (routes/sync.ts).
THEOREM NothingIsLostHolds == SyncSpec => []NothingIsLost
<1>1. SyncInv => NothingIsLost
  BY DEF SyncInv, Where, Answers, Cause, NothingIsLost
<1>2. QED
  BY <1>1, SyncInvInit, SyncInvStep, PTL DEF SyncSpec

LEMMA SyncInvTypes == SyncInv => SyncTypeOK
<1> SUFFICES ASSUME SyncInv PROVE SyncTypeOK
  OBVIOUS
<1>1. IsFiniteSet(Bills) /\ made \cap Bills \subseteq Bills
  BY FiniteItems DEF SyncInv, SyncTyped
<1>2. HowMany <= Cardinality(Bills) /\ HowMany \in Nat /\ Cardinality(Bills) \in Nat
  BY <1>1, FS_Subset, FS_CardinalityType DEF HowMany
<1>3. 1..(HowMany + 1) \subseteq Numbers
  BY <1>2 DEF Numbers
<1>4. numberOf \in [Items -> {0} \cup Numbers]
  <2>1. \A i \in Items : numberOf[i] \in {0} \cup 1..(HowMany + 1)
    BY <1>2 DEF SyncInv, Numbered
  <2>2. numberOf = [i \in Items |-> numberOf[i]]
    BY DEF SyncInv, Numbered
  <2>3. QED
    BY <1>3, <2>1, <2>2
<1>5. ownNext \in [Devices -> Numbers] /\ nextInvoiceNumber \in Numbers
  BY <1>3 DEF SyncInv, Numbered
<1>6. saved \subseteq Items /\ made \subseteq Items /\ outbox \in [Devices -> SUBSET Items]
  BY DEF SyncInv, SyncTyped
<1>7. QED
  BY <1>4, <1>5, <1>6 DEF SyncInv, SyncTyped, Numbered, SyncTypeOK

\* Both parts of Devices behave as their own specifications say, but for the
\* fairness, so what is proved of a part holds of the whole.
LEMMA DevicesInvInit == DevicesInit => IInv /\ SyncInv
  BY InitIInv, SyncInvInit DEF DevicesInit

LEMMA DevicesInvStep == IInv /\ SyncInv /\ [DevicesNext]_<<part, vars, syncVars>> => IInv' /\ SyncInv'
<1>1. DevicesNext => [Next]_vars /\ [SyncNext]_syncVars
  BY DEF DevicesNext, KeyStep, SyncStep
<1>2. UNCHANGED <<part, vars, syncVars>> => UNCHANGED vars /\ UNCHANGED syncVars
  OBVIOUS
<1>3. QED
  BY <1>1, <1>2, StepIInv, SyncInvStep

\* DevicesSpec side by side: the types, one more application per deleted key row
\* (lib/idempotency.ts), true answers, and no bill lost by offline sync.
THEOREM DevicesHold ==
    DevicesSpec => [](DevicesTypeOK /\ AppliedOncePerRow /\ HeardIsTrue /\ NothingIsLost)
<1>1. IInv => TypeOK /\ AppliedOncePerRow /\ HeardIsTrue
  BY DEF IInv, Counted, RefusalSettled, AppliedOncePerRow, HeardIsTrue
<1>2. SyncInv => SyncTypeOK /\ NothingIsLost
  BY SyncInvTypes DEF SyncInv, Where, Answers, Cause, NothingIsLost
<1>3. IInv /\ SyncInv => DevicesTypeOK /\ AppliedOncePerRow /\ HeardIsTrue /\ NothingIsLost
  BY <1>1, <1>2 DEF DevicesTypeOK
<1>4. QED
  BY <1>3, DevicesInvInit, DevicesInvStep, PTL DEF DevicesSpec
=============================================================================
