---------------------------- MODULE OfflineSync ----------------------------
(***************************************************************************)
(* Devices that bill at one counter without a connection, and push what    *)
(* they made when they have one (routes/sync.ts, auth/device.ts): new      *)
(* customers, bills, and money in and out.                                 *)
(*                                                                         *)
(* The device is not in the repository.  It keeps what it made until the   *)
(* answer to a push settles it, pushes one batch at a time, customers      *)
(* first, and pushes again when an answer does not come.                   *)
(***************************************************************************)
EXTENDS Integers, Sequences, FiniteSets, FiniteSetsExt

CONSTANTS
    Devices,
    Scripts,     \* what is made, in order: its kind, and which one is its customer
    MaxKeys,     \* bound: device keys given out
    MaxSyncFaults \* bound: lost answers, timeouts and failed writes

\* A script names a customer of its own before a bill or a payment for them.
ASSUME SyncConstants ==
    /\ Devices # {} /\ "late" \notin Devices
    /\ MaxKeys \in Nat /\ MaxSyncFaults \in Nat
    /\ \A s \in Scripts :
          /\ DOMAIN s = 1..Len(s) /\ Len(s) \in Nat
          /\ \A i \in DOMAIN s : s[i].customer \in 0..(i - 1)

Kinds == <<"customer", "bill", "money">>

VARIABLES
    script,      \* one of Scripts; never changes
    planNow,     \* "on", then "ended", then "renewed"
    cashierHere, \* the cashier of the bills works in the counter's branch
    deviceKey,   \* the device whose key is the counter's
    nextInvoiceNumber,
    saved,       \* the items in the database
    made,        \* history: the items made
    numberOf,    \* the number a bill was made with
    outbox, ownNext, lastPushed, \* of each device
    shown,       \* items a device was told are rejected
    late,        \* history: bills pushed again while an earlier push was handled
    split,       \* history: two devices numbered bills from the same number on
    keys, syncFaults,
    push         \* by device, and "late" for one whose device gave up waiting

serverVars == <<planNow, cashierHere, deviceKey, nextInvoiceNumber, saved>>
deviceVars == <<made, numberOf, outbox, ownNext, lastPushed, shown>>
syncVars == <<script, serverVars, deviceVars, late, split, keys, syncFaults, push>>

Items == DOMAIN script
Kind(i) == script[i].kind
Customer(i) == script[i].customer
Bills == {i \in Items : Kind(i) = "bill"}

NoPush == [at |-> "none"]
Numbers == 1..(Cardinality(Bills) + 1)

SyncTypeOK ==
    /\ planNow \in {"on", "ended", "renewed"} /\ cashierHere \in BOOLEAN
    /\ deviceKey \in Devices
    /\ nextInvoiceNumber \in Numbers
    /\ saved \subseteq Items
    /\ made \subseteq Items
    /\ numberOf \in [Items -> {0} \cup Numbers]
    /\ outbox \in [Devices -> SUBSET Items]
    /\ ownNext \in [Devices -> Numbers]
    /\ \A i \in saved \cap Bills : numberOf[i] < nextInvoiceNumber

SyncInit ==
    /\ script \in Scripts
    /\ planNow = "on" /\ cashierHere = TRUE
    /\ deviceKey = CHOOSE d \in Devices : TRUE
    /\ nextInvoiceNumber = 1
    /\ saved = {}
    /\ made = {}
    /\ numberOf = [i \in Items |-> 0]
    /\ outbox = [d \in Devices |-> {}]
    /\ ownNext = [d \in Devices |-> 1]
    /\ lastPushed = [d \in Devices |-> 3]
    /\ shown = {} /\ late = {}
    /\ split = FALSE
    /\ keys = 1 /\ syncFaults = 0
    /\ push = [q \in Devices \cup {"late"} |-> NoPush]

----------------------------------------------------------------------------
SyncFault == syncFaults < MaxSyncFaults /\ syncFaults' = syncFaults + 1

PlanEnds ==
    /\ planNow = "on" /\ planNow' = "ended"
    /\ UNCHANGED <<cashierHere, deviceKey, nextInvoiceNumber, saved, deviceVars, late, split, keys, syncFaults, push>>

Renew ==
    /\ planNow = "ended" /\ planNow' = "renewed"
    /\ UNCHANGED <<cashierHere, deviceKey, nextInvoiceNumber, saved, deviceVars, late, split, keys, syncFaults, push>>

CashierMoves ==
    /\ cashierHere /\ cashierHere' = FALSE
    /\ UNCHANGED <<planNow, deviceKey, nextInvoiceNumber, saved, deviceVars, late, split, keys, syncFaults, push>>

\* POST /counters/:id/device-key replaces the key, whoever holds it; then
\* GET /sync/pack tells the device where the counter's numbers are.
KeyDevice(d) ==
    /\ planNow # "ended" /\ deviceKey # d /\ keys < MaxKeys
    /\ deviceKey' = d
    /\ ownNext' = [ownNext EXCEPT ![d] = Max({@, nextInvoiceNumber})]
    /\ split' = (split \/ \E e \in Devices \ {d} : ownNext[e] > ownNext'[d])
    /\ keys' = keys + 1
    /\ UNCHANGED <<planNow, cashierHere, nextInvoiceNumber, saved, made, numberOf, outbox, lastPushed, shown,
                   late, syncFaults, push>>

\* A bill, a customer or a payment is made, with no server asked.
Make(d, i) ==
    /\ i = Cardinality(made) + 1
    /\ Customer(i) # 0 => Customer(i) \in saved \cup outbox[d]
    /\ made' = made \cup {i}
    /\ outbox' = [outbox EXCEPT ![d] = @ \cup {i}]
    /\ IF i \in Bills
       THEN /\ numberOf' = [numberOf EXCEPT ![i] = ownNext[d]]
            /\ ownNext' = [ownNext EXCEPT ![d] = @ + 1]
            /\ split' = (split \/ deviceKey # d)
       ELSE UNCHANGED <<numberOf, ownNext, split>>
    /\ UNCHANGED <<serverVars, lastPushed, shown, late, keys, syncFaults, push>>

----------------------------------------------------------------------------
(* A push *)

Waiting(d, kind) == {i \in outbox[d] : Kind(i) = kind}

\* The kinds take turns.
NextKind(d) ==
    LET turn(n) == Kinds[((lastPushed[d] + n - 1) % 3) + 1]
    IN  CHOOSE n \in 1..3 : /\ Waiting(d, turn(n)) # {}
                            /\ \A m \in 1..(n - 1) : Waiting(d, turn(m)) = {}

\* deviceAuth, the plan, and the body.
Push(d) ==
    /\ push[d] = NoPush /\ outbox[d] # {}
    /\ deviceKey = d /\ planNow # "ended"
    /\ LET k == ((lastPushed[d] + NextKind(d) - 1) % 3) + 1
           batch == Waiting(d, Kinds[k])
       IN  /\ lastPushed' = [lastPushed EXCEPT ![d] = k]
           /\ push' = [push EXCEPT ![d] = [at |-> "find", todo |-> batch, results |-> [i \in batch |-> "none"]]]
           /\ late' = late \cup (IF push["late"] # NoPush THEN batch ELSE {})
    /\ UNCHANGED <<serverVars, made, numberOf, outbox, ownNext, shown, split, keys, syncFaults>>

Item(q) == Min(push[q].todo)

Result(q, status) ==
    push' = [push EXCEPT ![q] =
                [at |-> "find", todo |-> @.todo \ {Item(q)}, results |-> [@.results EXCEPT ![Item(q)] = status]]]

\* Wrong: what is already saved is left for the next push.
IfSavedRetry(i) == "retry"

IfSaved(i) == "duplicate"

\* Each of the batch in turn: already there, refused, or to be written.
Find(q) ==
    /\ push[q].at = "find" /\ push[q].todo # {}
    /\ LET i == Item(q)
       IN  IF i \in saved THEN Result(q, IfSaved(i))
           ELSE IF Kind(i) # "customer" /\ ~cashierHere THEN Result(q, "rejected")
           ELSE IF Customer(i) \notin saved \cup {0} THEN Result(q, "retry")
           ELSE push' = [push EXCEPT ![q].at = "write"]
    /\ UNCHANGED <<serverVars, deviceVars, late, split, keys, syncFaults>>

\* Wrong: the counter moves to the bill's number, not past it.
NumberAfterLast(number) == Max({nextInvoiceNumber, number})

NumberAfter(number) == Max({nextInvoiceNumber, number + 1})

NumberTaken(i) == \E j \in saved \cap Bills : numberOf[j] = numberOf[i]

Save(q) ==
    /\ push[q].at = "write"
    /\ LET i == Item(q)
       IN  /\ i \notin saved
           /\ i \in Bills => ~NumberTaken(i)
           /\ saved' = saved \cup {i}
           /\ nextInvoiceNumber' = IF i \in Bills THEN NumberAfter(numberOf[i]) ELSE nextInvoiceNumber
    /\ Result(q, "saved")
    /\ UNCHANGED <<planNow, cashierHere, deviceKey, deviceVars, late, split, keys, syncFaults>>

\* A second bill of this number.
RefuseNumber(q) ==
    /\ push[q].at = "write"
    /\ Item(q) \in Bills \ saved /\ NumberTaken(Item(q))
    /\ Result(q, "rejected")
    /\ UNCHANGED <<serverVars, deviceVars, late, split, keys, syncFaults>>

\* Wrong: whatever goes wrong with a write, the item is refused.
AfterFailureRefused(i) == "rejected"

\* A bill that cannot be written now is to be pushed again.
AfterFailure(i) == "retry"

\* Saved meanwhile by another push: the primary key refuses it.  A payment is
\* then known to be saved; a customer fails its whole batch.
SavedMeanwhile(q) ==
    /\ push[q].at = "write" /\ Item(q) \in saved
    /\ CASE Kind(Item(q)) = "money" -> Result(q, "duplicate")
         [] Kind(Item(q)) = "bill" -> Result(q, AfterFailure(Item(q)))
         [] OTHER -> push' = [push EXCEPT ![q] = NoPush]
    /\ UNCHANGED <<serverVars, deviceVars, late, split, keys, syncFaults>>

WriteFails(q) ==
    /\ push[q].at = "write" /\ SyncFault
    /\ IF Kind(Item(q)) = "customer" THEN push' = [push EXCEPT ![q] = NoPush]
       ELSE Result(q, AfterFailure(Item(q)))
    /\ UNCHANGED <<serverVars, deviceVars, late, split, keys>>

\* The device hears the answer.
HearPush(d) ==
    /\ push[d].at = "find" /\ push[d].todo = {}
    /\ LET told(status) == {i \in DOMAIN push[d].results : push[d].results[i] \in status}
       IN  /\ outbox' = [outbox EXCEPT ![d] = @ \ told({"saved", "duplicate", "rejected"})]
           /\ shown' = shown \cup told({"rejected"})
    /\ push' = [push EXCEPT ![d] = NoPush]
    /\ UNCHANGED <<serverVars, made, numberOf, ownNext, lastPushed, late, split, keys, syncFaults>>

\* The answer is lost, or the process died before it gave one.
LoseAnswer(q) ==
    /\ push[q] # NoPush /\ SyncFault
    /\ push' = [push EXCEPT ![q] = NoPush]
    /\ UNCHANGED <<serverVars, deviceVars, late, split, keys>>

\* The device stops waiting; the server goes on with what it was sent.
GiveUpWaiting(d) ==
    /\ push[d] # NoPush /\ push["late"] = NoPush /\ SyncFault
    /\ push' = [push EXCEPT ![d] = NoPush, !["late"] = push[d]]
    /\ UNCHANGED <<serverVars, deviceVars, late, split, keys>>

EndLate ==
    /\ push["late"].at = "find" /\ push["late"].todo = {}
    /\ push' = [push EXCEPT !["late"] = NoPush]
    /\ UNCHANGED <<serverVars, deviceVars, late, split, keys, syncFaults>>

HandleItem(q) == Find(q) \/ Save(q) \/ RefuseNumber(q) \/ SavedMeanwhile(q)

DeviceActs(d) == Push(d) \/ HandleItem(d) \/ HearPush(d)

SyncNext ==
    /\ \/ PlanEnds \/ Renew \/ CashierMoves
       \/ \E d \in Devices : \/ KeyDevice(d) \/ GiveUpWaiting(d) \/ DeviceActs(d)
                             \/ \E i \in Items : Make(d, i)
       \/ \E q \in Devices \cup {"late"} : WriteFails(q) \/ LoseAnswer(q)
       \/ HandleItem("late") \/ EndLate
    /\ UNCHANGED script

\* The owner renews the plan in the end; a device pushes while something
\* waits, and the server handles what it was sent.
SyncFairness ==
    /\ WF_syncVars(Renew /\ UNCHANGED script)
    /\ \A d \in Devices : WF_syncVars(DeviceActs(d) /\ UNCHANGED script)

SyncSpec == SyncInit /\ [][SyncNext]_syncVars /\ SyncFairness

----------------------------------------------------------------------------
\* What a device no longer keeps is in the database, or the device was told
\* that it never will be; what it was told so about is in the database only if
\* an earlier push of it, which the device gave up, was still being handled.
\* And it is refused only when the cashier has left the branch, or two devices
\* numbered bills from the same number on: "each counter has its own series".
NothingIsLost ==
    /\ \A i \in made :
          /\ (\A d \in Devices : i \notin outbox[d]) => i \in saved \cup shown
          /\ i \in saved \cap shown => i \in late
    /\ shown # {} => ~cashierHere \/ split

\* Whatever fails and whenever the plan ends, a device that holds the counter's
\* key has nothing left to push in the end: "Bills wait on this counter and sync
\* once it's renewed".
Settled == \A d \in Devices : []<>(outbox[d] = {} \/ deviceKey # d)
=============================================================================
