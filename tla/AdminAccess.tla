---------------------------- MODULE AdminAccess ----------------------------
(***************************************************************************)
(* One member of the Setu team: password, authenticator app and sessions   *)
(* (routes/adminAuth.ts, auth/admin.ts), and what another member may do to *)
(* them (routes/admin.ts: invite, reset, disable, enable).                 *)
(*                                                                         *)
(* A sign-in is two requests: the password gives a token for the second    *)
(* step, and the second step a code of the app.                            *)
(***************************************************************************)
EXTENDS Integers, FiniteSets

CONSTANTS
    AdminSessions,   \* bound: sessions ever started
    AdminRequests,
    MaxAdminPasswords,
    MaxSteps         \* bound: the codes of the app, one for every 30 seconds

ASSUME AdminConstants == MaxAdminPasswords \in Nat /\ MaxSteps \in Nat

VARIABLES
    adminStatus,
    adminPassword,   \* which password it is, 0: none
    totpSecretEnc,   \* an app is linked
    totpLastStep,    \* 0: none
    adminLink,       \* there is a link to set a password
    handed,          \* the tokens for a second step that were given out
    adminSession,
    adminReq

adminVars == <<adminStatus, adminPassword, totpSecretEnc, totpLastStep, adminLink>>
allAdminVars == <<adminVars, handed, adminSession, adminReq>>

AdminIdle == [op |-> "idle"]
NoAdminSession == [revoked |-> TRUE]

\* password and stale are history, as in Access.
StartedSession(pw, stale) ==
    [token |-> 1, previous |-> 0, revoked |-> FALSE, password |-> pw, stale |-> stale]

AdminTypeOK ==
    /\ adminStatus \in {"INVITED", "ACTIVE", "DISABLED"}
    /\ adminPassword \in 0..MaxAdminPasswords
    /\ totpSecretEnc \in BOOLEAN /\ totpLastStep \in 0..MaxSteps
    /\ adminLink \in BOOLEAN
    /\ \A s \in AdminSessions : adminSession[s].revoked \in BOOLEAN

\* Just invited.
AdminInit ==
    /\ adminStatus = "INVITED" /\ adminPassword = 0
    /\ totpSecretEnc = FALSE /\ totpLastStep = 0
    /\ adminLink = TRUE
    /\ handed = {}
    /\ adminSession = [s \in AdminSessions |-> NoAdminSession]
    /\ adminReq = [r \in AdminRequests |-> AdminIdle]

----------------------------------------------------------------------------
AdminTake(r, request) == adminReq[r] = AdminIdle /\ adminReq' = [adminReq EXCEPT ![r] = request]
AdminClose(r) == adminReq' = [adminReq EXCEPT ![r] = AdminIdle]

Unstarted(s) == adminSession[s] = NoAdminSession

\* authenticateAdmin
AdminServed(s) ==
    ~adminSession[s].revoked /\ adminStatus = "ACTIVE" /\ totpSecretEnc

AllRevoked == [s \in AdminSessions |-> [adminSession[s] EXCEPT !.revoked = TRUE]]

\* POST /admin/auth/login with the right password.  Without an app, a new
\* secret is handed out with the token.
AdminLogin ==
    /\ adminStatus = "ACTIVE"
    /\ handed' = handed \cup
          {[purpose |-> IF totpSecretEnc THEN "mfa" ELSE "setup", password |-> adminPassword]}
    /\ UNCHANGED <<adminVars, adminSession, adminReq>>

\* verifyTotp: a code later than the last used.  Which of them the app shows
\* is left to the run.
Matching(last) == {s \in 1..MaxSteps : s > last}

\* POST /admin/auth/setup-2fa
BeginSetup(r, t) ==
    /\ t \in handed /\ t.purpose = "setup"
    /\ adminStatus = "ACTIVE" /\ ~totpSecretEnc
    /\ \E code \in Matching(0) :
          AdminTake(r, [op |-> "setup", code |-> code, password |-> t.password])
    /\ UNCHANGED <<adminVars, handed, adminSession>>

\* Saved as it is, even if another app was linked meanwhile.
SaveSecret(r) ==
    /\ adminReq[r].op = "setup"
    /\ totpSecretEnc' = TRUE
    /\ totpLastStep' = adminReq[r].code
    /\ adminReq' = [adminReq EXCEPT ![r].op = "start"]
    /\ UNCHANGED <<adminStatus, adminPassword, adminLink, handed, adminSession>>

\* POST /admin/auth/verify
BeginCode(r, t) ==
    /\ t \in handed /\ t.purpose = "mfa"
    /\ adminStatus = "ACTIVE" /\ totpSecretEnc
    /\ \E code \in Matching(totpLastStep) :
          AdminTake(r, [op |-> "code", code |-> code, password |-> t.password])
    /\ UNCHANGED <<adminVars, handed, adminSession>>

StepFree(code) == totpLastStep < code

ClaimStep(r) ==
    /\ adminReq[r].op = "code"
    /\ IF StepFree(adminReq[r].code)
       THEN /\ totpLastStep' = adminReq[r].code
            /\ adminReq' = [adminReq EXCEPT ![r].op = "start"]
       ELSE AdminClose(r) /\ UNCHANGED totpLastStep
    /\ UNCHANGED <<adminStatus, adminPassword, totpSecretEnc, adminLink, handed, adminSession>>

\* signedIn
StartAdminSession(r) ==
    /\ adminReq[r].op = "start"
    /\ \E s \in AdminSessions :
          /\ Unstarted(s)
          /\ adminSession' = [adminSession EXCEPT ![s] =
                StartedSession(adminReq[r].password, adminReq[r].password # adminPassword)]
    /\ AdminClose(r)
    /\ UNCHANGED <<adminVars, handed>>

\* POST /admin/auth/refresh: read, then rotate; a token rotated away ends it.
BeginAdminRefresh(r, s) ==
    /\ ~Unstarted(s) /\ ~adminSession[s].revoked /\ adminStatus = "ACTIVE"
    /\ adminSession[s].token = 1
    /\ AdminTake(r, [op |-> "refresh", session |-> s])
    /\ UNCHANGED <<adminVars, handed, adminSession>>

CommitAdminRefresh(r) ==
    /\ adminReq[r].op = "refresh"
    /\ adminSession' = [adminSession EXCEPT ![adminReq[r].session].token = 2,
                                            ![adminReq[r].session].previous = 1]
    /\ AdminClose(r)
    /\ UNCHANGED <<adminVars, handed>>

AdminReplayed(s) ==
    /\ ~Unstarted(s) /\ ~adminSession[s].revoked /\ adminSession[s].previous = 1
    /\ adminSession' = [adminSession EXCEPT ![s].revoked = TRUE]
    /\ UNCHANGED <<adminVars, handed, adminReq>>

AdminLogout(s) ==
    /\ ~Unstarted(s) /\ ~adminSession[s].revoked
    /\ adminSession' = [adminSession EXCEPT ![s].revoked = TRUE]
    /\ UNCHANGED <<adminVars, handed, adminReq>>

----------------------------------------------------------------------------
\* POST /admin/auth/accept looks the link up and uses it in a transaction.
BeginAccept(r) ==
    /\ adminLink /\ adminStatus # "DISABLED" /\ adminPassword < MaxAdminPasswords
    /\ AdminTake(r, [op |-> "accept", saw |-> adminStatus])
    /\ UNCHANGED <<adminVars, handed, adminSession>>

\* Wrong: the sessions of the old password go on.
SessionsAfterAcceptKept == adminSession

SessionsAfterAccept == AllRevoked

Accept(r) ==
    /\ adminReq[r].op = "accept" /\ adminPassword < MaxAdminPasswords
    /\ adminPassword' = adminPassword + 1
    /\ adminStatus' = "ACTIVE"
    /\ totpSecretEnc' = FALSE /\ totpLastStep' = 0
    /\ adminLink' = FALSE
    /\ adminSession' = SessionsAfterAccept
    /\ AdminClose(r)
    /\ UNCHANGED <<handed>>

\* Wrong: a disabled admin may be reset.
ManageableAny(what) == what = "enable" => adminStatus = "DISABLED"

Manageable(what) ==
    CASE what = "reset" -> adminStatus # "DISABLED"
      [] what = "enable" -> adminStatus = "DISABLED"
      [] what = "disable" -> TRUE

\* Another member reads this one; what follows is one transaction.  The
\* link comes after it and takes the place of an older one.
BeginManage(r, what) ==
    /\ Manageable(what)
    /\ AdminTake(r, [op |-> what, saw |-> adminStatus])
    /\ UNCHANGED <<adminVars, handed, adminSession>>

ResetAdmin(r) ==
    /\ adminReq[r].op = "reset"
    /\ adminStatus' = "INVITED"
    /\ adminSession' = AllRevoked
    /\ totpSecretEnc' = FALSE /\ totpLastStep' = 0
    /\ adminReq' = [adminReq EXCEPT ![r].op = "link"]
    /\ UNCHANGED <<adminPassword, adminLink, handed>>

\* sendAdminLink, a transaction of its own
SendAdminLink(r) ==
    /\ adminReq[r].op = "link"
    /\ adminLink' = TRUE
    /\ AdminClose(r)
    /\ UNCHANGED <<adminStatus, adminPassword, totpSecretEnc, totpLastStep, handed, adminSession>>

DisableAdmin(r) ==
    /\ adminReq[r].op = "disable"
    /\ adminStatus' = "DISABLED"
    /\ adminSession' = AllRevoked
    /\ adminLink' = FALSE
    /\ AdminClose(r)
    /\ UNCHANGED <<adminPassword, totpSecretEnc, totpLastStep, handed>>

EnableAdmin(r) ==
    /\ adminReq[r].op = "enable"
    /\ adminStatus' = "INVITED"
    /\ totpSecretEnc' = FALSE /\ totpLastStep' = 0
    /\ adminReq' = [adminReq EXCEPT ![r].op = "link"]
    /\ UNCHANGED <<adminPassword, adminLink, handed, adminSession>>

AdminNext ==
    \/ \E r \in AdminRequests :
          \/ \E t \in handed : BeginSetup(r, t) \/ BeginCode(r, t)
          \/ SaveSecret(r) \/ ClaimStep(r) \/ StartAdminSession(r)
          \/ \E s \in AdminSessions : BeginAdminRefresh(r, s)
          \/ CommitAdminRefresh(r)
          \/ BeginAccept(r) \/ Accept(r)
          \/ \E what \in {"reset", "disable", "enable"} : BeginManage(r, what)
          \/ ResetAdmin(r) \/ SendAdminLink(r) \/ DisableAdmin(r) \/ EnableAdmin(r)
    \/ AdminLogin
    \/ \E s \in AdminSessions : AdminReplayed(s) \/ AdminLogout(s)

AdminSpec == AdminInit /\ [][AdminNext]_allAdminVars

----------------------------------------------------------------------------
\* A disabled admin works again only after being enabled and setting a new
\* password, or by a request that had read them before (accept, reset).
AdminBackOnlyIfTurnedOn ==
    adminStatus = "DISABLED" /\ adminStatus' # "DISABLED" =>
        \E r \in AdminRequests : /\ adminReq[r] # AdminIdle /\ adminReq'[r] # adminReq[r]
                                 /\ adminReq[r].op = "enable" \/ adminReq[r].saw # "DISABLED"

DisabledAdminStaysOut == [][AdminBackOnlyIfTurnedOn]_allAdminVars

\* A session of an earlier password is served only if its second step was
\* overtaken by the new password (accept, revokeAdminSessions).
OldAdminPasswordIsOut ==
    \A s \in AdminSessions :
        AdminServed(s) /\ adminSession[s].password < adminPassword => adminSession[s].stale
=============================================================================
