------------------------------ MODULE TTDSignIn ------------------------------
(***************************************************************************)
(* Signing in to the TTD server as the super admin (internal/api/          *)
(* superadmin.go) or as an admin (hLogin in handlers.go, adminsecurity.go):*)
(* passwords, the authenticator app (auth/totp.go), the lockout after      *)
(* failures, and the management of the admin account (accounts.go).        *)
(*                                                                         *)
(* Each account has one security row.  A handler reads the row, decides,   *)
(* and writes the whole row back (PutSuperSecurity), without a transaction;*)
(* requests are served concurrently, the save can fail, and the server can *)
(* stop between any two calls of the store.                                *)
(***************************************************************************)
EXTENDS Integers, FiniteSets

CONSTANTS Requests,       \* requests in flight at a time
          saMaxFailures, saLockFor, saStepTTL, AccessTTL,   \* times in TOTP steps
          Drift,          \* how far clients' clocks are off
          MaxSecrets,     \* bound on the authenticator secrets generated
          MaxNow,         \* bound on the clock, in TOTP steps
          MaxFaults,      \* bound on failed saves and restarts
          MaxRequests     \* bound on the requests that write a security row

ASSUME SignInAssumption == saMaxFailures \in Nat \ {0} /\ saLockFor \in Nat \ {0}

VARIABLES now,       \* the current TOTP step
          account,   \* account[a]: its status in accounts, or "absent" or "deleted"
          sec,       \* sec[a]: its security row, or NoRow
          expires,   \* expires[k]: when the newest token of kind k expires, 0 for none
          secrets,   \* how many authenticator secrets have been generated
          req,       \* req[r]: a request between two of its calls of the store
          faults, begun,
          h          \* history, read by the properties only: see Init

store == <<account, sec>>
vars == <<now, account, sec, expires, secrets, req, faults, begun, h>>

SA == "superadmin"
AD == "admin"
Accounts == {SA, AD}

\* The super admin's step tokens and session, the admin's step token and session;
\* each kind is signed with a key of its own or names its role.
Kinds == {"setup", "totp", "sa-access", "admin-totp", "ad-access"}

NoRow == [row |-> "none"]
Idle == [delete |-> "no"]
NoCode == [secret |-> 0, step |-> 0]

\* store.SuperSecurity{}: secret 0 is "no secret yet", lockedUntil 0 is not locked.
EmptyRow == [secret |-> 0, enabled |-> FALSE, mustChange |-> FALSE,
             lastStep |-> 0, failed |-> 0, lockedUntil |-> 0]

Init ==
    /\ now = 1 /\ account = [a \in Accounts |-> "absent"] /\ sec = [a \in Accounts |-> NoRow]
    /\ expires = [k \in Kinds |-> 0] /\ secrets = 0 /\ req = [r \in Requests |-> Idle] /\ faults = 0 /\ begun = 0
    /\ h = [used |-> {},          \* codes that opened a session
            replayed |-> {},      \* accounts for which one of them opened another
            lost |-> {},          \* accounts whose row a save missed, or put over a newer one
            proven |-> {},        \* secrets of which a right code was given on enrolment
            replaced |-> FALSE,   \* the super admin's first password has been replaced
            unforced |-> FALSE,   \* the super admin's first security row was not written
            removed |-> FALSE]    \* the admin's deletion was answered, and not undone since

-----------------------------------------------------------------------------
(* Tokens, codes and rows *)

TTL(k) == IF k \in {"sa-access", "ad-access"} THEN AccessTTL ELSE saStepTTL

\* Signer.Issue, and whether Signer.Parse accepts a token of the kind: if any, the newest.
Issue(kinds) == expires' = [k \in Kinds |-> IF k \in kinds THEN now + TTL(k) ELSE expires[k]]
Parse(k) == now < expires[k]

\* A faulty variant that takes the step of the last code again.
VerifyTOTPAgain(row, code) ==
    {step \in {now - 1, now, now + 1} : code = [secret |-> row.secret, step |-> step] /\ step >= row.lastStep}

\* The step the code is for, if VerifyTOTP accepts it: one of the three around
\* now, and after the last one accepted.
VerifyTOTP(row, code) ==
    {step \in {now - 1, now, now + 1} : code = [secret |-> row.secret, step |-> step] /\ step > row.lastStep}

\* What a client can type: a wrong code, or one its app shows for a secret, with a
\* clock at most Drift steps off.
Codes == {NoCode} \cup [secret : 1..secrets, step : (now - 1 - Drift)..(now + Drift)]

\* SuperSecurity, with the default that loadSA and the admin handlers use.
Read(a) == IF sec[a] = NoRow THEN EmptyRow ELSE sec[a]

Exists(a) == account[a] \in {"active", "disabled"}
Active(a) == account[a] = "active"

saLocked(row) == row.lockedUntil > now

saFail(row) ==
    IF row.failed + 1 >= saMaxFailures
    THEN [row EXCEPT !.failed = 0, !.lockedUntil = now + saLockFor]
    ELSE [row EXCEPT !.failed = @ + 1]

saSuccess(row, step) ==
    [row EXCEPT !.failed = 0, !.lockedUntil = 0, !.lastStep = IF step > 0 THEN step ELSE @]

\* An admin's row is counted in the same way; what differs is what follows a save
\* that fails.
adminSecurityFail(row) == saFail(row)
adminSecuritySuccess(row, step) == saSuccess(row, step)

\* The request has read the row, and will write it back and then give its answer;
\* strict says that a failed save is an error of the request.
Pending(a, row, gives, code, strict) ==
    [a |-> a, read |-> sec[a], row |-> row, gives |-> gives, code |-> code, strict |-> strict]

Nothing == {}

Begin(r, p) ==
    /\ req[r] = Idle /\ req' = [req EXCEPT ![r] = p]
    /\ begun < MaxRequests /\ begun' = begun + 1

-----------------------------------------------------------------------------
(* Startup *)

FirstRow == [EmptyRow EXCEPT !.mustChange = TRUE]

\* ensureSuperAdmin: the account, then its row; the second save can fail, or the
\* server stop before it.
ensureSuperAdmin(saved) ==
    /\ account[SA] = "absent"
    /\ account' = [account EXCEPT ![SA] = "active"]
    /\ IF saved
       THEN sec' = [sec EXCEPT ![SA] = FirstRow] /\ UNCHANGED <<faults, h>>
       ELSE faults < MaxFaults /\ faults' = faults + 1 /\ h' = [h EXCEPT !.unforced = TRUE] /\ UNCHANGED sec
    /\ UNCHANGED <<now, expires, secrets, begun, req>>

\* ensureBootstrapAdmin, at startup, and hCreateAdmin.
CreateAdmin ==
    /\ account[SA] # "absent" /\ account[AD] = "absent"
    /\ account' = [account EXCEPT ![AD] = "active"]
    /\ UNCHANGED <<now, sec, expires, secrets, begun, req, faults, h>>

\* The server stops; what was in flight is forgotten.
Restart ==
    /\ faults < MaxFaults /\ faults' = faults + 1
    /\ \E r \in Requests : req[r] # Idle
    /\ req' = [r \in Requests |-> Idle]
    /\ UNCHANGED <<now, account, sec, expires, secrets, begun, h>>

Tick ==
    /\ now < MaxNow /\ now' = now + 1
    /\ UNCHANGED <<account, sec, expires, secrets, begun, req, faults, h>>

-----------------------------------------------------------------------------
(* The super admin *)

hSALogin(r, right) ==
    LET row == Read(SA)
        step == IF ~ row.enabled \/ row.mustChange THEN "setup" ELSE "totp"
    IN  /\ Active(SA) /\ ~ saLocked(row) /\ req[r] = Idle
        /\ IF right
           THEN Issue({step}) /\ UNCHANGED <<req, begun>>
           ELSE Begin(r, Pending(SA, saFail(row), Nothing, NoCode, FALSE)) /\ UNCHANGED expires
        /\ UNCHANGED <<now, account, sec, secrets, faults, h>>

\* A faulty variant that leaves the enabled flag of the old secret.
NewSecretKeepsEnabled(row) == [row EXCEPT !.secret = secrets + 1]

\* A new secret is not enabled until a code of it is given.
NewSecret(row) == [row EXCEPT !.secret = secrets + 1, !.enabled = FALSE]

\* changes: the client sends a new password that checkNewPassword accepts; it is
\* stored before the row.
hSASetupBegin(r, changes) ==
    LET row == Read(SA)
    IN  /\ Parse("setup")
        /\ Active(SA) /\ secrets < MaxSecrets
        /\ row.mustChange => changes
        /\ h' = [h EXCEPT !.replaced = @ \/ changes]
        /\ secrets' = secrets + 1
        /\ Begin(r, Pending(SA, [NewSecret(row) EXCEPT !.mustChange = @ /\ ~ changes], Nothing, NoCode, TRUE))
        /\ UNCHANGED <<now, store, expires, faults>>

\* Compares the code with the row read, then writes back a failure or a success.
CheckCode(r, a, row, code, success, gives, strict) ==
    IF VerifyTOTP(row, code) = {} THEN Begin(r, Pending(a, saFail(row), Nothing, NoCode, FALSE))
    ELSE \E step \in VerifyTOTP(row, code) :
            Begin(r, Pending(a, saSuccess(success, step), gives, code, strict))

hSASetupConfirm(r, code) ==
    LET row == Read(SA)
    IN  /\ Parse("setup")
        /\ Active(SA) /\ ~ row.mustChange /\ row.secret # 0 /\ ~ row.enabled /\ ~ saLocked(row)
        /\ CheckCode(r, SA, row, code, [row EXCEPT !.enabled = TRUE], {"sa-access"}, TRUE)
        /\ h' = IF VerifyTOTP(row, code) = {} THEN h ELSE [h EXCEPT !.proven = @ \cup {row.secret}]
        /\ UNCHANGED <<now, store, expires, secrets, faults>>

hSAVerify(r, code) ==
    LET row == Read(SA)
    IN  /\ Parse("totp")
        /\ Active(SA) /\ row.enabled /\ ~ saLocked(row)
        /\ CheckCode(r, SA, row, code, row, {"sa-access"}, TRUE)
        /\ UNCHANGED <<now, store, expires, secrets, faults, h>>

\* The superadmin middleware: an access token, and the account as it is now.
superadmin == Active(SA) /\ Parse("sa-access")

hSAChangePassword ==
    /\ superadmin
    /\ h' = [h EXCEPT !.replaced = TRUE]
    /\ UNCHANGED <<now, store, expires, secrets, begun, req, faults>>

-----------------------------------------------------------------------------
(* The admin *)

\* With an authenticator the password gives a step token, without one a session.
hLogin(r, right) ==
    LET row == Read(AD)
        gives == IF row.enabled THEN "admin-totp" ELSE "ad-access"
    IN  /\ Exists(AD) /\ ~ saLocked(row)
        /\ IF ~ right THEN Begin(r, Pending(AD, adminSecurityFail(row), Nothing, NoCode, FALSE))
           ELSE Active(AD) /\ Begin(r, Pending(AD, adminSecuritySuccess(row, 0), {gives}, NoCode, FALSE))
        /\ UNCHANGED <<now, store, expires, secrets, faults, h>>

hLoginTOTP(r, code) ==
    LET row == Read(AD)
    IN  /\ Parse("admin-totp")
        /\ Active(AD) /\ row.enabled /\ ~ saLocked(row)
        /\ CheckCode(r, AD, row, code, row, {"ad-access"}, FALSE)
        /\ UNCHANGED <<now, store, expires, secrets, faults, h>>

\* The admin middleware looks at the token only.
admin == Parse("ad-access")

hAdminTOTPBegin(r) ==
    /\ admin /\ Exists(AD) /\ secrets < MaxSecrets /\ secrets' = secrets + 1
    /\ Begin(r, Pending(AD, NewSecret(Read(AD)), Nothing, NoCode, TRUE))
    /\ UNCHANGED <<now, store, expires, faults, h>>

\* A wrong code is not counted here.
hAdminTOTPConfirm(r, code) ==
    /\ admin /\ sec[AD] # NoRow /\ sec[AD].secret # 0 /\ ~ sec[AD].enabled
    /\ \E step \in VerifyTOTP(sec[AD], code) :
          Begin(r, Pending(AD, [sec[AD] EXCEPT !.enabled = TRUE, !.lastStep = step], Nothing, NoCode, TRUE))
    /\ h' = [h EXCEPT !.proven = @ \cup {sec[AD].secret}]
    /\ UNCHANGED <<now, store, expires, secrets, faults>>

hAdminTOTPDisable(r, code) ==
    /\ admin /\ sec[AD] # NoRow /\ sec[AD].enabled /\ VerifyTOTP(sec[AD], code) # {}
    /\ Begin(r, Pending(AD, [sec[AD] EXCEPT !.enabled = FALSE, !.secret = 0], Nothing, NoCode, TRUE))
    /\ UNCHANGED <<now, store, expires, secrets, faults, h>>

-----------------------------------------------------------------------------
(* Writing the row back *)

\* The codes with which the answer opens a session.
CodesOf(p) == IF p.gives # Nothing THEN {p.code} \ {NoCode} ELSE {}

Opened(p) ==
    [h EXCEPT !.used = @ \cup CodesOf(p),
              !.replayed = IF CodesOf(p) \cap h.used = {} THEN @ ELSE @ \cup {p.a}]

\* A row that has changed since it was read is overwritten.
PutSuperSecurity(r) ==
    LET p == req[r]
    IN  /\ "row" \in DOMAIN p /\ Exists(p.a)
        /\ sec' = [sec EXCEPT ![p.a] = p.row]
        /\ Issue(p.gives)
        /\ h' = [Opened(p) EXCEPT !.lost = IF sec[p.a] = p.read THEN @ ELSE @ \cup {p.a}]
        /\ req' = [req EXCEPT ![r] = Idle]
        /\ UNCHANGED <<now, account, secrets, begun, faults>>

\* The save fails: always once the account is gone, since the row refers to it.
\* The super admin then gets no session; an admin does.
PutFails(r) ==
    LET p == req[r]
    IN  /\ "row" \in DOMAIN p
        /\ IF Exists(p.a) THEN faults < MaxFaults /\ faults' = faults + 1 ELSE UNCHANGED faults
        /\ Issue(IF p.strict THEN Nothing ELSE p.gives)
        /\ h' = [(IF p.strict THEN h ELSE Opened(p)) EXCEPT !.lost = @ \cup {p.a}]
        /\ req' = [req EXCEPT ![r] = Idle]
        /\ UNCHANGED <<now, store, secrets, begun>>

-----------------------------------------------------------------------------
(* The admin account, managed by the super admin *)

\* Resetting the password, which hUpdateAdmin also does, changes nothing else.
hUpdateAdmin(status) ==
    /\ superadmin /\ Exists(AD)
    /\ account' = [account EXCEPT ![AD] = status]
    /\ h' = [h EXCEPT !.removed = @ /\ status = "disabled"]
    /\ UNCHANGED <<now, sec, expires, secrets, begun, req, faults>>

\* PutSuperSecurity of an empty row, whatever the row is.
hResetAdminSecurity ==
    /\ superadmin /\ Exists(AD)
    /\ sec' = [sec EXCEPT ![AD] = EmptyRow]
    /\ UNCHANGED <<now, account, expires, secrets, begun, req, faults, h>>

\* hDeleteAdmin: DELETE of the row, DELETE of the account, which the database refuses
\* when a sign-in has written the row again, and then the account is disabled.
DeleteSecurity(r) ==
    /\ superadmin /\ Exists(AD)
    /\ sec' = [sec EXCEPT ![AD] = NoRow]
    /\ Begin(r, [delete |-> "account"])
    /\ UNCHANGED <<now, account, expires, secrets, faults, h>>

DeleteAccount(r) ==
    /\ req[r] = [delete |-> "account"]
    /\ IF sec[AD] = NoRow /\ Exists(AD)
       THEN /\ account' = [account EXCEPT ![AD] = "deleted"] /\ h' = [h EXCEPT !.removed = TRUE]
            /\ req' = [req EXCEPT ![r] = Idle]
       ELSE req' = [req EXCEPT ![r] = [delete |-> "refused"]] /\ UNCHANGED <<account, h>>
    /\ UNCHANGED <<now, sec, expires, secrets, begun, faults>>

\* A faulty variant that answers without disabling the account.
TombstoneOnly(r) ==
    /\ req[r] = [delete |-> "refused"] /\ req' = [req EXCEPT ![r] = Idle]
    /\ h' = [h EXCEPT !.removed = TRUE]
    /\ UNCHANGED <<now, account, sec, expires, secrets, begun, faults>>

Tombstone(r) ==
    /\ req[r] = [delete |-> "refused"] /\ req' = [req EXCEPT ![r] = Idle]
    /\ account' = IF Exists(AD) THEN [account EXCEPT ![AD] = "disabled"] ELSE account
    /\ h' = [h EXCEPT !.removed = TRUE]
    /\ UNCHANGED <<now, sec, expires, secrets, begun, faults>>

-----------------------------------------------------------------------------
Next ==
    \/ \E saved \in BOOLEAN : ensureSuperAdmin(saved)
    \/ CreateAdmin \/ Restart \/ Tick
    \/ \E r \in Requests :
          \/ \E b \in BOOLEAN : hSALogin(r, b) \/ hSASetupBegin(r, b) \/ hLogin(r, b)
          \/ \E code \in Codes :
                \/ hSASetupConfirm(r, code) \/ hSAVerify(r, code) \/ hLoginTOTP(r, code)
                \/ hAdminTOTPConfirm(r, code) \/ hAdminTOTPDisable(r, code)
          \/ hAdminTOTPBegin(r)
          \/ PutSuperSecurity(r) \/ PutFails(r)
          \/ DeleteSecurity(r) \/ DeleteAccount(r) \/ Tombstone(r)
    \/ hSAChangePassword \/ hResetAdminSecurity
    \/ \E status \in {"active", "disabled"} : hUpdateAdmin(status)

Spec == Init /\ [][Next]_vars

-----------------------------------------------------------------------------
(* Properties *)

\* An authenticator is only ever required with a secret for which its owner has
\* given a right code: whatever requests overlap, whole rows are written back, so
\* the enabled flag never meets another secret (hSASetupBegin, hAdminTOTPBegin).
\* And "the first login must replace it and enrol an authenticator app"
\* (superadmin.go): no session of the super admin before a secret was proven and the
\* first password replaced, unless the first security row was never written.
SecondFactorIsProven ==
    /\ \A a \in Accounts : Read(a).enabled => Read(a).secret \in h.proven
    /\ expires["sa-access"] > 0 => (h.replaced \/ h.unforced) /\ h.proven # {}

\* "so a code can never be used twice" (totp.go): a code opens a second session
\* only if a save of that account's row failed or overwrote a newer row.
CodeOpensOneSession == h.replayed \subseteq h.lost

\* Once the deletion of an admin has been answered, the account is gone or disabled
\* until the super admin enables it, even if a sign-in wrote its security row between
\* the two DELETE statements (hDeleteAdmin, Postgres.DeleteAccount).
RemovedStaysOut == h.removed => account[AD] \in {"deleted", "disabled"}
=============================================================================
