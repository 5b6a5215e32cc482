------------------------------- MODULE Access -------------------------------
(***************************************************************************)
(* Who may work in a shop: passwords and sessions (routes/auth.ts,         *)
(* auth/session.ts), staff and branches (routes/staff.ts, branches.ts),    *)
(* and who stays within the plan (services/withinPlan.ts, routes/          *)
(* account.ts).  authenticate looks all of it up on every request.         *)
(*                                                                         *)
(* What a handler has read is in its request (saw, rows); every write that *)
(* is not in the same transaction as the read is a step of its own.        *)
(***************************************************************************)
EXTENDS Integers, FiniteSets, FiniteSetsExt

CONSTANTS
    Staff, Owner,
    Seniority,      \* Seniority[u]: the order in which staff were created
    Branches,       \* numbers: 1 is the one every account starts with
    Sessions,       \* bound: sessions ever started
    Requests,
    Plans,          \* the plans the account may be on
    MaxBranches, MaxStaff,  \* and their limits
    MaxPasswords,   \* bound: passwords a user ever has
    MaxTokens,      \* bound: refreshes of one session
    Mixes           \* the operations performed together, see Next

Users == Staff \cup {Owner}

ASSUME AccessConstants ==
    /\ Owner \notin Staff /\ "none" \notin Users
    /\ Sessions # {} /\ 0 \notin Sessions
    /\ 1 \in Branches /\ Branches \subseteq Nat
    /\ IsFiniteSet(Staff) /\ IsFiniteSet(Branches)
    /\ Seniority \in [Staff -> Nat] /\ \A u, v \in Staff : Seniority[u] = Seniority[v] => u = v
    /\ MaxBranches \in [Plans -> Nat \ {0}] /\ MaxStaff \in [Plans -> Nat]
    /\ MaxPasswords \in Nat \ {0} /\ MaxTokens \in Nat \ {0}

VARIABLES
    plan,       \* the plan now, or "ended", or "locked" by the Setu team
    status,     \* "none" until invited
    password,   \* 0 until the invite is accepted
    branchOf,   \* where each of the staff works
    within,     \* withinPlan of the staff
    branch,     \* "none", "on" (within the plan) or "off" (read-only)
    review,     \* keepActiveReviewPending
    links,      \* the one-time tokens that can be used
    session,    \* the rows; "none" until started
    left,       \* history: users who got a new password while their sessions were
                \* left alone (a process died, an invite link was used twice)
    mix,        \* one of Mixes; never changes
    req

staffVars == <<status, password, branchOf, links>>
planVars == <<plan, within, branch, review>>
vars == <<staffVars, planVars, session, left, mix, req>>

Idle == [op |-> "idle"]
NoSession == [user |-> "none"]
NewSession(u, pw, stale) ==
    [user |-> u, token |-> 1, previous |-> 0, revoked |-> FALSE, password |-> pw, stale |-> stale]

Purposes == {"INVITE", "RESET_PASSWORD"}
Statuses == {"none", "INVITED", "ACTIVE", "DISABLED"}

\* password and stale are history: the password the sign-in was made with, and
\* whether it had been replaced by the time the session started.
Session ==
    [user : Users, token : 1..MaxTokens, previous : 0..MaxTokens, revoked : BOOLEAN,
     password : 1..MaxPasswords, stale : BOOLEAN]

TypeOK ==
    /\ plan \in Plans \cup {"ended", "locked"}
    /\ status \in [Users -> Statuses]
    /\ password \in [Users -> 0..MaxPasswords]
    /\ branchOf \in [Staff -> Branches]
    /\ within \in [Staff -> BOOLEAN]
    /\ branch \in [Branches -> {"none", "on", "off"}]
    /\ review \in BOOLEAN
    /\ links \subseteq Users \X Purposes
    /\ session \in [Sessions -> Session \cup {NoSession}]
    /\ \A u \in Users : status[u] = "ACTIVE" => password[u] > 0

\* The owner is signed in, and the shop has one branch; the first of the staff
\* is working, the others may be invited or were disabled.
FirstSession == CHOOSE s \in Sessions : TRUE

Init ==
    /\ plan \in Plans
    /\ status \in {f \in [Users -> {"none", "ACTIVE", "DISABLED"}] :
                     /\ f[Owner] = "ACTIVE"
                     /\ \A u \in Staff : Seniority[u] = 1 => f[u] = "ACTIVE"
                     /\ \A u \in Staff : f[u] = "ACTIVE" => Seniority[u] = 1}
    /\ password = [u \in Users |-> IF status[u] = "none" THEN 0 ELSE 1]
    /\ branchOf = [u \in Staff |-> 1]
    /\ within = [u \in Staff |-> TRUE]
    /\ branch = [b \in Branches |-> IF b = 1 THEN "on" ELSE "none"]
    /\ review = FALSE
    /\ links = {}
    /\ session = [s \in Sessions |-> IF s = FirstSession THEN NewSession(Owner, 1, FALSE) ELSE NoSession]
    /\ left = {}
    /\ mix \in Mixes
    /\ req = [r \in Requests |-> Idle]

----------------------------------------------------------------------------
Take(r, request) == req[r] = Idle /\ req' = [req EXCEPT ![r] = request]
Go(r, op) == req' = [req EXCEPT ![r].op = op]
Close(r) == req' = [req EXCEPT ![r] = Idle]

OnAPlan == plan \in Plans
Employed == {u \in Staff : status[u] \in {"INVITED", "ACTIVE"}}
Open == {b \in Branches : branch[b] # "none"}

\* authenticate: does a request of this session get through?
Served(s) ==
    /\ session[s] # NoSession /\ ~session[s].revoked
    /\ LET u == session[s].user
       IN  /\ status[u] = "ACTIVE"
           /\ IF u = Owner THEN plan # "locked" ELSE within[u] /\ OnAPlan

\* requireActivePlan and requireRole: the owner changes staff and branches.
OwnerServed == OnAPlan /\ \E s \in Sessions : session[s] # NoSession /\ session[s].user = Owner /\ Served(s)

----------------------------------------------------------------------------
(* services/withinPlan.ts *)

\* The first n of some rows, oldest first.
Oldest(some, n, age) == {x \in some : Cardinality({y \in some : age[y] < age[x]}) < n}

\* Wrong: the limit is not an upper bound but the first number too many.
ChooseBelow(rows, kept, limit, age) ==
    IF Cardinality(rows) < limit THEN rows ELSE Oldest(kept, limit - 1, age)

\* chooseWithinPlan: those kept already, oldest first, then others if there is
\* room.
Choose(rows, kept, limit, age) ==
    IF Cardinality(rows) <= limit THEN rows
    ELSE IF Cardinality(kept) > limit THEN Oldest(kept, limit, age)
    ELSE kept \cup Oldest(rows \ kept, limit - Cardinality(kept), age)

BranchAge == [b \in Branches |-> b]

\* reconcileWithinPlan: the rows are read...
ReadRows ==
    [plan |-> plan, branches |-> Open, branchesOn |-> {b \in Open : branch[b] = "on"},
     staff |-> Employed, staffOn |-> {u \in Employed : within[u]}]

\* ... and only those whose place changes are written.
Reconcile(rows) ==
    LET b == Choose(rows.branches, rows.branchesOn, MaxBranches[rows.plan], BranchAge)
        s == Choose(rows.staff, rows.staffOn, MaxStaff[rows.plan], Seniority)
    IN  /\ branch' = [x \in Branches |->
                          IF x \in b \ rows.branchesOn THEN "on"
                          ELSE IF x \in rows.branchesOn \ b THEN "off" ELSE branch[x]]
        /\ within' = [u \in Staff |->
                          IF u \in s \ rows.staffOn THEN TRUE
                          ELSE IF u \in rows.staffOn \ s THEN FALSE ELSE within[u]]
        /\ review' = (review \/ Cardinality(rows.branchesOn) > MaxBranches[rows.plan]
                             \/ Cardinality(rows.staffOn) > MaxStaff[rows.plan])

----------------------------------------------------------------------------
(* assertCanHoldSession, for a sign-in ("login") or a refresh: the user as    *)
(* the handler read it, then the plan, then the user again.                   *)

MayAsk(u) == status[u] = "ACTIVE" /\ plan # "locked" /\ (u # Owner => OnAPlan)

\* POST /auth/login with the right password.
BeginLogin(r, u) ==
    /\ MayAsk(u)
    /\ Take(r, [op |-> IF OnAPlan THEN "read rows" ELSE "start", user |-> u, saw |-> password[u],
                session |-> 0])
    /\ UNCHANGED <<staffVars, planVars, session>>

ReadPlan(r) ==
    /\ req[r].op = "read rows"
    /\ IF OnAPlan
       THEN req' = [req EXCEPT ![r] = [op |-> "reconcile", rows |-> ReadRows, then |-> req[r]]]
       ELSE Close(r)
    /\ UNCHANGED <<staffVars, planVars, session>>

WritePlan(r) ==
    /\ req[r].op = "reconcile"
    /\ Reconcile(req[r].rows)
    /\ req' = [req EXCEPT ![r] = [req[r].then EXCEPT !.op = "look again"]]
    /\ UNCHANGED <<staffVars, plan, session>>

LookAgain(r) ==
    /\ req[r].op = "look again"
    /\ LET u == req[r].user
       IN  IF u = Owner \/ (within[u] /\ branch[branchOf[u]] = "on") THEN Go(r, "start") ELSE Close(r)
    /\ UNCHANGED <<staffVars, planVars, session>>

StartSession(r) ==
    /\ req[r].op = "start" /\ req[r].session = 0
    /\ \E s \in Sessions :
          /\ session[s] = NoSession
          /\ session' = [session EXCEPT ![s] =
                NewSession(req[r].user, req[r].saw, req[r].saw # password[req[r].user])]
    /\ Close(r)
    /\ UNCHANGED <<staffVars, planVars>>

\* POST /auth/refresh: the cookie holds a token of the session, maybe an old one.
BeginRefresh(r, s, token) ==
    /\ session[s] # NoSession
    /\ token = session[s].token /\ ~session[s].revoked
    /\ MayAsk(session[s].user)
    /\ Take(r, [op |-> IF OnAPlan THEN "read rows" ELSE "start", user |-> session[s].user, saw |-> token,
                session |-> s])
    /\ UNCHANGED <<staffVars, planVars, session>>

\* A token that was rotated away by the last refresh ends the session.
Replayed(s, token) ==
    /\ session[s] # NoSession
    /\ token = session[s].previous /\ ~session[s].revoked
    /\ session' = [session EXCEPT ![s].revoked = TRUE]
    /\ UNCHANGED <<staffVars, planVars, req>>

\* Wrong: the whole row is written back as it was read.
RotatedWhole(row, seen) ==
    [row EXCEPT !.token = row.token + 1, !.previous = seen, !.revoked = FALSE]

Rotated(row, seen) == [row EXCEPT !.token = row.token + 1, !.previous = seen]

CommitRefresh(r) ==
    /\ req[r].op = "start" /\ req[r].session # 0
    /\ LET s == req[r].session
       IN  /\ session[s].token < MaxTokens
           /\ session' = [session EXCEPT ![s] = Rotated(session[s], req[r].saw)]
    /\ Close(r)
    /\ UNCHANGED <<staffVars, planVars>>

\* POST /auth/logout
Logout(s) ==
    /\ session[s] # NoSession /\ ~session[s].revoked
    /\ session' = [session EXCEPT ![s].revoked = TRUE]
    /\ UNCHANGED <<staffVars, planVars, req>>

Revoked(who) ==
    [s \in Sessions |-> IF session[s].user \in who THEN [session[s] EXCEPT !.revoked = TRUE] ELSE session[s]]

RevokeAllSessions(r) ==
    /\ req[r].op = "revoke"
    /\ session' = Revoked({req[r].user})
    /\ Close(r)
    /\ UNCHANGED <<staffVars, planVars>>

----------------------------------------------------------------------------
(* Links in the mail: a new password, or the first one *)

ForgotPassword(u) ==
    /\ status[u] = "ACTIVE"
    /\ links' = links \cup {<<u, "RESET_PASSWORD">>}
    /\ UNCHANGED <<status, password, branchOf, planVars, session, req>>

\* POST /auth/reset-password and /auth/accept-invite look the link up...
OpenLink(r, u, purpose) ==
    /\ <<u, purpose>> \in links
    /\ password[u] < MaxPasswords
    /\ purpose = "INVITE" => status[u] # "DISABLED"
    /\ Take(r, [op |-> purpose, user |-> u, saw |-> status[u]])
    /\ UNCHANGED <<staffVars, planVars, session>>

\* ... and use it later, without asking again whether it is still good.
NewPassword(u) ==
    /\ password[u] < MaxPasswords
    /\ password' = [password EXCEPT ![u] = @ + 1]

\* Wrong: the sessions are ended before the password changes.
AfterResetEarly(r) == /\ Close(r)
                      /\ session' = session

AfterReset(r) == /\ Go(r, "revoke")
                 /\ session' = session

ResetPassword(r) ==
    /\ req[r].op = "RESET_PASSWORD"
    /\ NewPassword(req[r].user)
    /\ links' = links \ {<<req[r].user, "RESET_PASSWORD">>}
    /\ AfterReset(r)
    /\ UNCHANGED <<status, branchOf, planVars>>

AcceptInvite(r) ==
    /\ req[r].op = "INVITE"
    /\ NewPassword(req[r].user)
    /\ status' = [status EXCEPT ![req[r].user] = "ACTIVE"]
    /\ links' = links \ {<<req[r].user, "INVITE">>}
    /\ left' = IF password[req[r].user] > 0 THEN left \cup {req[r].user} ELSE left
    /\ Close(r)
    /\ UNCHANGED <<branchOf, planVars, session>>

----------------------------------------------------------------------------
(* routes/staff.ts and routes/branches.ts *)

\* The account's row is locked for the limit, so this is one step.
Invite(u) ==
    /\ OwnerServed /\ status[u] = "none"
    /\ Cardinality(Employed) < MaxStaff[plan]
    /\ status' = [status EXCEPT ![u] = "INVITED"]
    /\ links' = links \cup {<<u, "INVITE">>}
    /\ UNCHANGED <<password, branchOf, planVars, session, req>>

ResendInvite(u) ==
    /\ OwnerServed /\ status[u] = "INVITED"
    /\ links' = links \cup {<<u, "INVITE">>}
    /\ UNCHANGED <<status, password, branchOf, planVars, session, req>>

Edits == {"disable", "enable", "rename", "move"}

\* PATCH /staff/:id reads the member; "move" gives other branches.
BeginPatch(r, u, edit, to) ==
    /\ OwnerServed /\ status[u] # "none"
    /\ IF edit = "move" THEN branch[to] = "on" ELSE to = branchOf[u]
    /\ Take(r, [op |-> IF edit = "enable" /\ status[u] = "DISABLED" THEN "count" ELSE "patch",
                user |-> u, edit |-> edit, to |-> to, saw |-> status[u], max |-> MaxStaff[plan]])
    /\ UNCHANGED <<staffVars, planVars, session>>

\* Turning someone back on counts the staff, without the lock of Invite.
CountStaff(r) ==
    /\ req[r].op = "count"
    /\ IF Cardinality(Employed) < req[r].max THEN Go(r, "patch") ELSE Close(r)
    /\ UNCHANGED <<staffVars, planVars, session>>

\* Wrong: to turn on is to activate, invited or not.
StatusAfterActive(q) ==
    IF q.edit = "disable" THEN "DISABLED" ELSE IF q.edit = "enable" THEN "ACTIVE" ELSE q.saw

\* Wrong: whatever the edit, a member with a password is active.
StatusAfterAny(q) ==
    IF q.edit = "disable" THEN "DISABLED" ELSE IF password[q.user] > 0 THEN "ACTIVE" ELSE "INVITED"

\* Every edit writes the status, most of them the one it read.
StatusAfter(q) ==
    IF q.edit = "disable" THEN "DISABLED"
    ELSE IF q.edit = "enable" /\ q.saw = "DISABLED"
         THEN IF password[q.user] > 0 THEN "ACTIVE" ELSE "INVITED"
    ELSE q.saw

CommitPatch(r) ==
    /\ req[r].op = "patch"
    /\ status' = [status EXCEPT ![req[r].user] = StatusAfter(req[r])]
    /\ branchOf' = [branchOf EXCEPT ![req[r].user] = IF req[r].edit = "move" THEN req[r].to ELSE @]
    /\ IF req[r].edit \in {"disable", "move"} THEN Go(r, "revoke") ELSE Close(r)
    /\ UNCHANGED <<password, links, planVars, session>>

\* The account's row is locked for the limit and the next number.
CreateBranch(b) ==
    /\ OwnerServed /\ branch[b] = "none"
    /\ \A x \in Branches : x < b => x \in Open
    /\ Cardinality(Open) < MaxBranches[plan]
    /\ branch' = [branch EXCEPT ![b] = "on"]
    /\ UNCHANGED <<staffVars, plan, within, review, session, req>>

----------------------------------------------------------------------------
(* POST /account/keep-active: the owner's own choice *)

BeginKeepActive(r, keepB, keepS) ==
    /\ OwnerServed
    /\ keepB # {} /\ keepB \subseteq Open /\ Cardinality(keepB) <= MaxBranches[plan]
    /\ keepS \subseteq Employed /\ Cardinality(keepS) <= MaxStaff[plan]
    /\ Take(r, [op |-> "keep", branches |-> keepB, staff |-> keepS])
    /\ UNCHANGED <<staffVars, planVars, session>>

CommitKeepActive(r) ==
    /\ req[r].op = "keep"
    /\ branch' = [b \in Branches |-> IF branch[b] = "none" THEN "none"
                                     ELSE IF b \in req[r].branches THEN "on" ELSE "off"]
    /\ within' = [u \in Staff |-> u \in req[r].staff]
    /\ review' = FALSE
    /\ session' = Revoked(Staff \ req[r].staff)
    /\ Close(r)
    /\ UNCHANGED <<staffVars, plan>>

\* A key is redeemed, the plan ends, the account is locked (Subscriptions).
PlanChanges ==
    /\ plan' \in (Plans \cup {"ended", "locked"}) \ {plan}
    /\ UNCHANGED <<staffVars, within, branch, review, session, req>>

\* A process dies, and with it what it had not written yet.
Dies(r) ==
    /\ req[r] # Idle
    /\ left' = IF req[r].op = "revoke" THEN left \cup {req[r].user} ELSE left
    /\ Close(r)
    /\ UNCHANGED <<staffVars, planVars, session>>

Signs(r) ==
    \/ \E u \in Users : BeginLogin(r, u)
    \/ ReadPlan(r) \/ WritePlan(r) \/ LookAgain(r) \/ StartSession(r)

Refreshes(r) ==
    \/ \E s \in Sessions, token \in 1..MaxTokens : BeginRefresh(r, s, token)
    \/ CommitRefresh(r)

Resets(r) ==
    \/ \E u \in Users : OpenLink(r, u, "RESET_PASSWORD")
    \/ ResetPassword(r)

Hires(r) ==
    \/ (\E u \in Staff : OpenLink(r, u, "INVITE")) /\ UNCHANGED left
    \/ AcceptInvite(r)

Edit(r) ==
    \/ \E u \in Staff, edit \in Edits, to \in Branches : BeginPatch(r, u, edit, to)
    \/ CountStaff(r) \/ CommitPatch(r)

Keeps(r) ==
    \/ \E keepB \in SUBSET Branches, keepS \in SUBSET Staff : BeginKeepActive(r, keepB, keepS)
    \/ CommitKeepActive(r)

Works(r) ==
    \/ RevokeAllSessions(r)
    \/ "sign" \in mix /\ Signs(r)
    \/ "refresh" \in mix /\ Refreshes(r)
    \/ "reset" \in mix /\ Resets(r)
    \/ "staff" \in mix /\ Edit(r)
    \/ "keep" \in mix /\ Keeps(r)

AtOnce ==
    \/ "refresh" \in mix /\ \E s \in Sessions, token \in 1..MaxTokens : Replayed(s, token) \/ Logout(s)
    \/ "reset" \in mix /\ \E u \in Users : ForgotPassword(u)
    \/ "staff" \in mix /\ \E u \in Staff : Invite(u) \/ ResendInvite(u)
    \/ "keep" \in mix /\ (PlanChanges \/ \E b \in Branches : CreateBranch(b))

Next ==
    /\ \/ (AtOnce \/ \E r \in Requests : Works(r)) /\ UNCHANGED left
       \/ \E r \in Requests : Dies(r) \/ ("staff" \in mix /\ Hires(r))
    /\ UNCHANGED mix

Spec == Init /\ [][Next]_vars

----------------------------------------------------------------------------
\* Somebody who was disabled comes back only when the owner turns them on, or
\* by a request that had read them before they were disabled (PATCH /staff/:id,
\* accept-invite): everything that starts after the disabling respects it.
BackOnlyIfTurnedOn ==
    \A u \in Staff :
        status[u] = "DISABLED" /\ status'[u] # "DISABLED" =>
            \E r \in Requests : /\ req[r] # Idle /\ req'[r] # req[r]
                                /\ req[r].user = u
                                /\ (req[r].saw # "DISABLED" \/ req[r].edit = "enable")

DisabledStaysOut == [][BackOnlyIfTurnedOn]_vars

\* When a password reset has been answered, a session of the old password is
\* alive only if its sign-in was overtaken by the reset: it had checked the old
\* password, and started after the new one was saved (reset-password), or if
\* the process died before it ended the sessions.
OldPasswordIsOut ==
    \A s \in Sessions :
        /\ session[s] # NoSession /\ ~session[s].revoked
        /\ session[s].password < password[session[s].user]
        /\ \A r \in Requests : req[r] # Idle => ~(req[r].op = "revoke" /\ req[r].user = session[s].user)
        => session[s].stale \/ session[s].user \in left

\* A session that was ended is never served again, though refreshes of it are
\* still in hand (revokeAllSessions, Replayed, logout).
EndedStaysEnded ==
    [][\A s \in Sessions :
          session[s] # NoSession /\ session[s].revoked => session'[s] # NoSession /\ session'[s].revoked]_vars

\* Right after reconcileWithinPlan, if nobody changed the rows while it worked,
\* as many branches and staff are within the plan as it has room for, and only
\* younger staff had to go.
PlacesFit ==
    [][\A r \in Requests :
          req[r].op = "reconcile" /\ req'[r] # req[r] /\ req'[r] # Idle /\ req[r].rows = ReadRows =>
              LET on == {u \in Employed : within'[u]}
              IN  /\ Cardinality(on) = Min({Cardinality(Employed), MaxStaff[plan]})
                  /\ \A u \in Employed \ on, w \in on :
                        within[u] /\ within[w] => Seniority[w] < Seniority[u]
                  /\ Cardinality({b \in Open : branch'[b] = "on"})
                       = Min({Cardinality(Open), MaxBranches[plan]})]_vars
=============================================================================
