--------------------------- MODULE Subscriptions ---------------------------
(***************************************************************************)
(* The plan timeline of one account: the trial that starts when the owner  *)
(* proves their email, licence keys redeemed (routes/account.ts), free     *)
(* days, keys and locks of the Setu team (routes/admin.ts), and the        *)
(* reminders that the plan ends (services/reminders.ts).                   *)
(*                                                                         *)
(* A redemption loads the timeline in its transaction without locking it;  *)
(* free days lock the account's row, which a redemption never touches.     *)
(***************************************************************************)
EXTENDS PlanTimeline, FiniteSets

CONSTANTS
    Keys,            \* licence keys
    KeyOf,           \* KeyOf[k]: its plan, price, days, and whether it is custom
    Trial,           \* TRIAL_PLAN and TRIAL_MONTHS, as a key is
    REMINDER_STEPS,
    PlanRequests,
    PlanMixes,       \* the operations performed together, see PlanNext
    MaxTime,         \* bound on the clock
    MaxSegments      \* bound on the timeline

ASSUME PlanConstants ==
    /\ DAY_MS \in Nat \ {0} /\ MaxTime \in Nat
    /\ \A k \in Keys : KeyOf[k].price \in Nat /\ KeyOf[k].days \in Nat
    /\ Trial.price \in Nat /\ Trial.days \in Nat
    /\ IsFiniteSet(REMINDER_STEPS) /\ REMINDER_STEPS # {} /\ REMINDER_STEPS \subseteq Nat

VARIABLES
    now,
    segments,
    verified,    \* the owner's emailVerifiedAt is set
    link,        \* there is a VERIFY_EMAIL link that can be used
    locked,      \* lockedBySetuAt is set
    issued,      \* the custom keys of issuedKey
    revoked,     \* those with revokedAt
    redeemed,    \* licenseRedemption.keyId
    reminders,   \* expiryReminder rows; step 0 is one sent by hand
    mails,       \* history: the automatic reminders that were mailed
    raced,       \* history: a timeline was changed after another request read it
    planMix,         \* one of PlanMixes; never changes
    planReq

keyVars == <<issued, revoked, redeemed>>
ownerVars == <<verified, link, locked>>
mailVars == <<reminders, mails>>
subscriptionVars == <<now, segments, ownerVars, keyVars, mailVars, raced, planMix, planReq>>

NoRequest == [op |-> "idle"]
NoOne == [r \in PlanRequests |-> NoRequest]
Asked == {"none", "now", "later"}

PlanTypeOK ==
    /\ now \in 0..MaxTime
    /\ \A i \in DOMAIN segments :
          /\ segments[i].source \in Sources
          /\ segments[i].startsAt <= segments[i].endsAt
    /\ verified \in BOOLEAN /\ link \in BOOLEAN /\ locked \in BOOLEAN
    /\ revoked \subseteq issued /\ issued \subseteq Keys /\ redeemed \subseteq Keys
    /\ reminders \subseteq [endsAt : Nat, step : REMINDER_STEPS \cup {0}, sentAt : 0..MaxTime]
    /\ raced \in BOOLEAN

\* The owner has just signed up: an account without a plan, a link in the mail.
PlanInit ==
    /\ now = 0
    /\ segments = <<>>
    /\ verified = FALSE /\ link = TRUE /\ locked = FALSE
    /\ issued = {} /\ revoked = {} /\ redeemed = {}
    /\ reminders = {} /\ mails = <<>>
    /\ raced = FALSE
    /\ planMix \in PlanMixes
    /\ planReq = NoOne

----------------------------------------------------------------------------
PlanTake(r, request) == planReq[r] = NoRequest /\ planReq' = [planReq EXCEPT ![r] = request]
PlanClose(r) == planReq' = [planReq EXCEPT ![r] = NoRequest]
RoomToGrow == Len(segments) < MaxSegments

\* Somebody else has read the timeline and not written yet.
ReadByOthers(r) == \E q \in PlanRequests \ {r} : planReq[q].op \in {"redeeming", "granting"}

ChangeTimeline(r, after) ==
    /\ segments' = after
    /\ raced' = (raced \/ ReadByOthers(r))

----------------------------------------------------------------------------
(* routes/auth.ts: proving the email *)

\* Wrong: whoever opens a link starts a trial.
TrialAlwaysDue == TRUE

TrialDue == segments = <<>>

BeginVerify(r) ==
    /\ link
    /\ PlanTake(r, [op |-> "verify"])
    /\ UNCHANGED <<now, segments, ownerVars, keyVars, mailVars, raced>>

\* The update of the owner's row makes two of these wait for each other, so the
\* count of segments sees what the first one did.
CommitVerify(r) ==
    /\ planReq[r].op = "verify" /\ RoomToGrow
    /\ verified' = TRUE /\ link' = FALSE
    /\ IF TrialDue THEN ChangeTimeline(r, Append(segments, Segment(Trial, "TRIAL", now, Trial.days)))
       ELSE UNCHANGED <<segments, raced>>
    /\ PlanClose(r)
    /\ UNCHANGED <<now, locked, keyVars, mailVars>>

ResendVerification ==
    /\ ~verified /\ ~link
    /\ link' = TRUE
    /\ UNCHANGED <<now, segments, verified, locked, keyVars, mailVars, raced, planReq>>

\* A password reset proves the email too, and starts nothing.
ResetProvesEmail ==
    /\ ~verified
    /\ verified' = TRUE
    /\ UNCHANGED <<now, segments, link, locked, keyVars, mailVars, raced, planReq>>

----------------------------------------------------------------------------
(* routes/account.ts: redeeming a key *)

\* resolveKey: not redeemed; a custom key must be issued and not revoked.
Resolves(k) ==
    /\ k \notin redeemed
    /\ KeyOf[k].custom => k \in issued \ revoked

\* A custom key never cuts a paid plan short.
ChoiceOf(k, asked) ==
    IF ~KeyOf[k].custom THEN asked
    ELSE IF ~Expired(segments, now) /\ segments[Current(segments, now)].source = "KEY"
         THEN "later" ELSE "now"

BeginRedeem(r, k, choice) ==
    /\ verified /\ ~locked
    /\ Resolves(k)
    /\ PlanTake(r, [op |-> "redeem", key |-> k, choice |-> choice])
    /\ UNCHANGED <<now, segments, ownerVars, keyVars, mailVars, raced>>

\* The transaction: the timeline is read...
LoadTimeline(r) ==
    /\ planReq[r].op = "redeem"
    /\ LET k == planReq[r].key
           choice == ChoiceOf(k, planReq[r].choice)
       IN  IF choice = "none" /\ DifferentPlan(segments, now, KeyOf[k])
           THEN PlanClose(r)  \* choice_required
           ELSE planReq' = [planReq EXCEPT ![r] = [op |-> "redeeming", key |-> k,
                            after |-> Redeemed(segments, now, KeyOf[k], choice),
                            read |-> segments]]
    /\ UNCHANGED <<now, segments, ownerVars, keyVars, mailVars, raced>>

\* Wrong: the redemption's key is not unique.
KeyFreeUnchecked(k) == TRUE

KeyFree(k) == k \notin redeemed

\* A segment somebody else changed meanwhile keeps their change unless this
\* redemption moves it too; segments they added stay.
Merged(before, after) ==
    [i \in DOMAIN segments |->
        IF i <= Len(before) /\ after[i] # before[i]
        THEN [segments[i] EXCEPT !.endsAt = after[i].endsAt, !.startsAt = after[i].startsAt]
        ELSE segments[i]]

\* ... and written.  The unique keyId refuses a key redeemed meanwhile.
CommitRedeem(r) ==
    /\ planReq[r].op = "redeeming" /\ RoomToGrow
    /\ KeyFree(planReq[r].key)
    /\ redeemed' = redeemed \cup {planReq[r].key}
    /\ ChangeTimeline(r, Append(Merged(planReq[r].read, planReq[r].after), Last(planReq[r].after)))
    /\ PlanClose(r)
    /\ UNCHANGED <<now, ownerVars, issued, revoked, mailVars>>

KeyUsed(r) ==
    /\ planReq[r].op = "redeeming"
    /\ ~KeyFree(planReq[r].key)
    /\ PlanClose(r)
    /\ UNCHANGED <<now, segments, ownerVars, keyVars, mailVars, raced>>

----------------------------------------------------------------------------
(* routes/admin.ts: the Setu team *)

\* Wrong: free days follow the current segment, not the whole timeline.
FreeDaysFromCurrent(t) ==
    IF Expired(segments, t) THEN LastEnd(segments, t) ELSE segments[Current(segments, t)].endsAt

FreeDaysFrom(t) == LastEnd(segments, t)

\* The transaction has locked the account's row; one of these at a time.
BeginAddDays(r) ==
    /\ segments # <<>> /\ RoomToGrow
    /\ \A q \in PlanRequests : planReq[q].op # "granting"
    /\ PlanTake(r, [op |-> "granting",
                segment |->
                    LET last == CHOOSE i \in DOMAIN segments :
                                    \A j \in DOMAIN segments : segments[j].startsAt <= segments[i].startsAt
                        of   == IF Expired(segments, now) THEN last ELSE Current(segments, now)
                        days == 1
                    IN  Segment([plan |-> segments[of].plan, price |-> segments[of].price],
                                "GRANT", FreeDaysFrom(now), days)])
    /\ UNCHANGED <<now, segments, ownerVars, keyVars, mailVars, raced>>

CommitAddDays(r) ==
    /\ planReq[r].op = "granting" /\ RoomToGrow
    /\ ChangeTimeline(r, Append(segments, planReq[r].segment))
    /\ PlanClose(r)
    /\ UNCHANGED <<now, ownerVars, keyVars, mailVars>>

LockOrUnlock ==
    /\ locked' = ~locked
    /\ UNCHANGED <<now, segments, verified, link, keyVars, mailVars, raced, planReq>>

IssueKey(k) ==
    /\ KeyOf[k].custom /\ k \notin issued
    /\ issued' = issued \cup {k}
    /\ UNCHANGED <<now, segments, ownerVars, revoked, redeemed, mailVars, raced, planReq>>

BeginRevoke(r, k) ==
    /\ k \in issued \ (revoked \cup redeemed)
    /\ PlanTake(r, [op |-> "revoke", key |-> k])
    /\ UNCHANGED <<now, segments, ownerVars, keyVars, mailVars, raced>>

CommitRevoke(r) ==
    /\ planReq[r].op = "revoke"
    /\ revoked' = revoked \cup {planReq[r].key}
    /\ PlanClose(r)
    /\ UNCHANGED <<now, segments, ownerVars, issued, redeemed, mailVars, raced>>

----------------------------------------------------------------------------
(* services/reminders.ts *)

FirstStep == Max(REMINDER_STEPS)

\* Is the account on a plan now, with a timeline that ends within these days?
EndingWithin(days) ==
    /\ ~locked /\ ~Expired(segments, now)
    /\ LastEnd(segments, now) <= now + days * DAY_MS

ReminderStep(daysLeft) == Min({s \in REMINDER_STEPS : daysLeft <= s})

BeginReminders(r) ==
    /\ EndingWithin(FirstStep)
    /\ LET end == LastEnd(segments, now)
       IN  PlanTake(r, [op |-> "remind", endsAt |-> end, step |-> ReminderStep(DaysTo(end, now)), at |-> now])
    /\ UNCHANGED <<now, segments, ownerVars, keyVars, mailVars, raced>>

\* Wrong: the claim is looked for when the job starts only.
ClaimedUnchecked(end, step) == FALSE

Claimed(end, step) == \E x \in reminders : x.endsAt = end /\ x.step = step

Claim(r) ==
    /\ planReq[r].op = "remind"
    /\ IF Claimed(planReq[r].endsAt, planReq[r].step)
       THEN PlanClose(r) /\ UNCHANGED reminders
       ELSE /\ reminders' = reminders \cup
                  {[endsAt |-> planReq[r].endsAt, step |-> planReq[r].step, sentAt |-> planReq[r].at]}
            /\ planReq' = [planReq EXCEPT ![r].op = "mail"]
    /\ UNCHANGED <<now, segments, ownerVars, keyVars, mails, raced>>

\* mailOwner sends nothing to an owner without a proven email.
Mail(r) ==
    /\ planReq[r].op = "mail"
    /\ mails' = IF verified THEN Append(mails, [endsAt |-> planReq[r].endsAt, step |-> planReq[r].step]) ELSE mails
    /\ PlanClose(r)
    /\ UNCHANGED <<now, segments, ownerVars, keyVars, reminders, raced>>

\* The mail fails and the claim is taken back, for tomorrow's run.
MailFails(r) ==
    /\ planReq[r].op = "mail" /\ verified
    /\ reminders' = {x \in reminders : x.endsAt # planReq[r].endsAt \/ x.step # planReq[r].step}
    /\ PlanClose(r)
    /\ UNCHANGED <<now, segments, ownerVars, keyVars, mails, raced>>

\* The process dies: a transaction rolls back, a claim stays.
PlanRequestDies(r) ==
    /\ planReq[r] # NoRequest
    /\ PlanClose(r)
    /\ UNCHANGED <<now, segments, ownerVars, keyVars, mailVars, raced>>

\* By hand: to one account, or to all that end soon and heard nothing for a day.
RemindNow ==
    /\ verified
    /\ reminders' = reminders \cup {[endsAt |-> LastEnd(segments, 0), step |-> 0, sentAt |-> now]}
    /\ UNCHANGED <<now, segments, ownerVars, keyVars, mails, raced, planReq>>

RemindAll ==
    /\ EndingWithin(FirstStep) /\ verified
    /\ \A x \in reminders : x.sentAt <= now - DAY_MS
    /\ reminders' = reminders \cup {[endsAt |-> LastEnd(segments, now), step |-> 0, sentAt |-> now]}
    /\ UNCHANGED <<now, segments, ownerVars, keyVars, mails, raced, planReq>>

\* A day passes, not while a request of somebody waiting for its answer is
\* handled; a link that was not used in a day is no good.
Tick ==
    /\ now < MaxTime
    /\ \A r \in PlanRequests : planReq[r].op \in {"idle", "remind", "mail"}
    /\ now' = now + 1
    /\ link' = FALSE
    /\ UNCHANGED <<segments, verified, locked, keyVars, mailVars, raced, planReq>>

Verifies(r) == BeginVerify(r) \/ CommitVerify(r)

Redeems(r) ==
    \/ \E k \in Keys, choice \in Asked : BeginRedeem(r, k, choice)
    \/ LoadTimeline(r) \/ CommitRedeem(r) \/ KeyUsed(r)

Grants(r) == BeginAddDays(r) \/ CommitAddDays(r)

Revokes(r) == (\E k \in Keys : BeginRevoke(r, k)) \/ CommitRevoke(r)

Reminds(r) == BeginReminders(r) \/ Claim(r) \/ Mail(r) \/ MailFails(r)

PlanNext ==
    /\ \/ \E r \in PlanRequests :
             \/ Verifies(r) \/ PlanRequestDies(r)
             \/ "redeem" \in planMix /\ Redeems(r)
             \/ "grant" \in planMix /\ Grants(r)
             \/ "keys" \in planMix /\ Revokes(r)
             \/ "remind" \in planMix /\ Reminds(r)
       \/ "keys" \in planMix /\ \E k \in Keys : IssueKey(k)
       \/ "hand" \in planMix /\ (RemindNow \/ RemindAll)
       \/ "lock" \in planMix /\ LockOrUnlock
       \/ ResendVerification \/ ResetProvesEmail
       \/ Tick
    /\ UNCHANGED planMix

PlanSpec == PlanInit /\ [][PlanNext]_subscriptionVars

----------------------------------------------------------------------------
Overlap(a, b) == a.startsAt < b.endsAt /\ b.startsAt < a.endsAt

\* Unless two changes overlapped, no two segments do and there is no hole
\* before the end: the owner is on one plan at every moment that was paid for
\* (planRedemption, add-days).
TimelineInOrder ==
    \/ raced
    \/ /\ \A i, j \in DOMAIN segments : i # j => ~Overlap(segments[i], segments[j])
       /\ \A t \in now..(LastEnd(segments, now) - 1) : ~Expired(segments, t)

\* The trial starts once and a key gives its days once, however many requests
\* try at the same time (verify-email, licenseRedemption.keyId).
GivenOnce ==
    /\ Cardinality({i \in DOMAIN segments : segments[i].source = "TRIAL"}) <= 1
    /\ Cardinality({i \in DOMAIN segments : segments[i].source = "KEY"}) = Cardinality(redeemed)

\* An automatic reminder of one step before one end date is mailed at most
\* once, though jobs overlap and mails fail (sendAutomaticReminders).
RemindedOnce ==
    \A i, j \in DOMAIN mails : mails[i] = mails[j] => i = j

\* Both: a trial, a key and a reminder count once each.
OnceEach == GivenOnce /\ RemindedOnce
=============================================================================
