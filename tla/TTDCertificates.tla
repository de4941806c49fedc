-------------------------- MODULE TTDCertificates --------------------------
(***************************************************************************)
(* Accounts, devices and certificates of the TTD server                    *)
(* (ttd/server/internal/api accounts.go, certificates.go, devissue.go and  *)
(* the device half of handlers.go) with an online CA (module CaAdmin):     *)
(* enrolment issues a certificate when the account is active, disabling or *)
(* deleting an account revokes all of its certificates in the database and *)
(* at the CA and takes over a new CRL.                                     *)
(*                                                                         *)
(* A handler is a sequence of database calls and ca-admin commands without *)
(* a transaction or a lock around them; the errors of most are ignored.    *)
(***************************************************************************)
EXTENDS CaAdmin

CONSTANTS
    Accounts, Devices,
    Owner,        \* the account of a device
    MaxEvents,    \* bound: handlers started and kinds of failure met
    FaultKinds    \* the failures that happen: subset of AllFaults

AllFaults == {"issue", "insert", "row", "revoke", "crl", "crash"}

\* The rows of the certificates table.
Certificate == [device : Devices, status : {"active", "revoked"}]

ASSUME CertificatesAssumption ==
    /\ Owner \in [Devices -> Accounts]
    /\ None \notin Certificate \cup {"pending", "active", "disabled"}
    /\ FaultKinds \subseteq AllFaults
    /\ MaxEvents \in Nat

VARIABLES
    account,    \* pending, active, disabled, or None for a deleted row
    device,     \* None, active or lost
    enrolled,   \* devices with an enrollment (a CSR)
    cert,       \* certificate rows: [device, status], or None
    crl,        \* s.crl
    run,        \* the handlers in progress
    late,       \* auxiliary: certificates bound when their account was not active
    cascaded,   \* auxiliary: certificates a cascade has taken up
    starts,     \* handlers started (bound only)
    faults      \* auxiliary: the kinds of failure that happened

rowVars == <<account, device, enrolled, cert>>
vars == <<caVars, rowVars, crl, run, late, cascaded, starts, faults>>

Idle == [pc |-> "idle", account |-> None, device |-> None, serial |-> None,
         todo |-> {}, revoked |-> 0, delete |-> FALSE, crl |-> Empty]

Init ==
    /\ CaInit
    /\ account = [a \in Accounts |-> "pending"]
    /\ device = [d \in Devices |-> None]
    /\ enrolled = {}
    /\ cert = [s \in Serials |-> None]
    /\ crl = Empty
    /\ run = [p \in Commands |-> Idle]
    /\ late = {}
    /\ cascaded = {}
    /\ starts = 0
    /\ faults = {}

At(p, pc) == run[p].pc = pc
Goto(p, pc) == run' = [run EXCEPT ![p].pc = pc]
Done(p) == run' = [run EXCEPT ![p] = Idle]

Begin(p, handler) ==
    /\ At(p, "idle") /\ starts + Cardinality(faults) < MaxEvents
    /\ starts' = starts + 1
    /\ run' = [run EXCEPT ![p] = handler]

Fault(kind) ==
    /\ kind \in FaultKinds
    /\ faults' = faults \cup {kind}
    /\ starts + Cardinality(faults') <= MaxEvents

\* The error of a database call is ignored.
Ignored(call, row) ==
    \/ call /\ UNCHANGED faults
    \/ Fault("row") /\ UNCHANGED row

CertificatesOf(a) == {s \in Serials : cert[s] # None /\ Owner[cert[s].device] = a}

-----------------------------------------------------------------------------
(* Handlers that are one call *)

\* hApproveAccount and hEnableAccount: any other status becomes active.
hEnableAccount(a) ==
    /\ account[a] \in {"pending", "disabled"}
    /\ account' = [account EXCEPT ![a] = "active"]
    /\ UNCHANGED <<caVars, device, enrolled, cert, crl, run, late, cascaded, starts, faults>>

\* A session token outlives the account's status, not its row.
hCreateDevice(d) ==
    /\ device[d] = None
    /\ account[Owner[d]] # None
    /\ device' = [device EXCEPT ![d] = "active"]
    /\ UNCHANGED <<caVars, account, enrolled, cert, crl, run, late, cascaded, starts, faults>>

\* hRevoke changes the row only; the CA's operator has to follow.
hRevoke(s) ==
    /\ cert[s] # None
    /\ cert' = [cert EXCEPT ![s].status = "revoked"]
    /\ UNCHANGED <<caVars, account, device, enrolled, crl, run, late, cascaded, starts, faults>>

\* An operator imports what the CA has published.
hImportCRL ==
    /\ crl' = public
    /\ UNCHANGED <<caVars, rowVars, run, late, cascaded, starts, faults>>

-----------------------------------------------------------------------------
(* Enrolment *)

\* hSubmitCSR: the enrollment is created; with an active account it goes on to
\* the CA.
hSubmitCSR(p, d) ==
    /\ device[d] # None
    /\ enrolled' = enrolled \cup {d}
    /\ IF account[Owner[d]] = "active"
       THEN Begin(p, [Idle EXCEPT !.pc = "issue", !.device = d])
       ELSE UNCHANGED <<run, starts>>
    /\ UNCHANGED <<caVars, account, device, cert, crl, late, cascaded, faults>>

\* hLabIssue, and with a certificate made by hand hIssueCertificate, of a new
\* enrollment or of one that hRenewCertificate copied.
hLabIssue(p, d) ==
    /\ d \in enrolled
    /\ Begin(p, [Idle EXCEPT !.pc = "issue", !.device = d])
    /\ UNCHANGED <<caVars, rowVars, crl, late, cascaded, faults>>

issueViaCA(p, s) ==
    /\ At(p, "issue")
    /\ cmdIssue(s)
    /\ run' = [run EXCEPT ![p].pc = "bind", ![p].serial = s]
    /\ UNCHANGED <<rowVars, crl, late, cascaded, starts, faults>>

issueViaCAFails(p) ==
    /\ At(p, "issue") /\ Fault("issue")
    /\ Done(p)
    /\ UNCHANGED <<caVars, rowVars, crl, late, cascaded, starts>>

bindIssuedCert(p) ==
    /\ At(p, "bind")
    /\ cert' = [cert EXCEPT ![run[p].serial] = [device |-> run[p].device, status |-> "active"]]
    /\ late' = IF account[Owner[run[p].device]] = "active" THEN late ELSE late \cup {run[p].serial}
    /\ Done(p)
    /\ UNCHANGED <<caVars, account, device, enrolled, crl, cascaded, starts, faults>>

\* The error of CreateCertificate is ignored.
bindIssuedCertFails(p) ==
    /\ At(p, "bind") /\ Fault("insert")
    /\ Done(p)
    /\ UNCHANGED <<caVars, rowVars, crl, late, cascaded, starts>>

-----------------------------------------------------------------------------
(* hDisableAccount, hDeleteAccount and disableCascade *)

hDisableAccount(p, a, delete) ==
    /\ account[a] # None
    /\ Begin(p, [Idle EXCEPT !.pc = "list", !.account = a, !.delete = delete])
    /\ Ignored(account' = [account EXCEPT ![a] = "disabled"], account)
    /\ UNCHANGED <<caVars, device, enrolled, cert, crl, late, cascaded>>

\* A faulty variant, off by one.
AfterLoopOne(r) == IF r.revoked > 1 THEN "crl" ELSE "end"

\* After the loop: a new CRL if anything was revoked.
AfterLoop(r) == IF r.revoked > 0 THEN "crl" ELSE "end"

\* A faulty variant that revokes one certificate of the account.
listFirst(p) ==
    /\ At(p, "list")
    /\ LET active == {s \in CertificatesOf(run[p].account) : cert[s].status = "active"}
           todo == IF active = {} THEN {} ELSE {CHOOSE s \in active : TRUE}
       IN  run' = [run EXCEPT ![p].todo = todo, ![p].pc = IF todo = {} THEN "end" ELSE "row"]
    /\ UNCHANGED <<caVars, rowVars, crl, late, cascaded, starts, faults>>

\* CertificatesByAccount, and the active ones of it.
list(p) ==
    /\ At(p, "list")
    /\ LET todo == {s \in CertificatesOf(run[p].account) : cert[s].status = "active"}
       IN  run' = [run EXCEPT ![p].todo = todo, ![p].pc = IF todo = {} THEN "end" ELSE "row"]
    /\ UNCHANGED <<caVars, rowVars, crl, late, cascaded, starts, faults>>

\* A failed query is an empty list.
listFails(p) ==
    /\ At(p, "list") /\ Fault("row")
    /\ Goto(p, "end")
    /\ UNCHANGED <<caVars, rowVars, crl, late, cascaded, starts>>

RevokeCertificate(p, s) ==
    /\ At(p, "row") /\ s \in run[p].todo
    /\ Ignored(cert' = [cert EXCEPT ![s].status = "revoked"], cert)
    /\ cascaded' = cascaded \cup {s}
    /\ run' = [run EXCEPT ![p].pc = "revoke", ![p].serial = s, ![p].todo = @ \ {s},
                          ![p].revoked = @ + 1]
    /\ UNCHANGED <<caVars, account, device, enrolled, crl, late, starts>>

revokeViaCALoad(p) ==
    /\ At(p, "revoke") /\ loadLedger(p)
    /\ Goto(p, "revokeSave")
    /\ UNCHANGED <<rowVars, crl, late, cascaded, starts, faults>>

revokeViaCASave(p) ==
    /\ At(p, "revokeSave") /\ cmdRevoke(p, run[p].serial)
    /\ Goto(p, "lost")
    /\ UNCHANGED <<rowVars, crl, late, cascaded, starts, faults>>

\* The error of revokeViaCA is ignored.
revokeViaCAFails(p) ==
    /\ run[p].pc \in {"revoke", "revokeSave"} /\ Fault("revoke")
    /\ Killed(p)
    /\ Goto(p, "lost")
    /\ UNCHANGED <<rowVars, crl, late, cascaded, starts>>

\* SetDeviceStatus, and on to the next certificate.
setLost(p) ==
    /\ At(p, "lost")
    /\ Ignored(device' = [device EXCEPT ![cert[run[p].serial].device] = "lost"], device)
    /\ Goto(p, IF run[p].todo = {} THEN AfterLoop(run[p]) ELSE "row")
    /\ UNCHANGED <<caVars, account, enrolled, cert, crl, late, cascaded, starts>>

publishCRLLoad(p) ==
    /\ At(p, "crl") /\ loadLedger(p)
    /\ Goto(p, "crlPublish")
    /\ UNCHANGED <<rowVars, crl, late, cascaded, starts, faults>>

publishCRL(p) ==
    /\ At(p, "crlPublish") /\ cmdCRLPublish(p)
    /\ run' = [run EXCEPT ![p].pc = "crlSave", ![p].crl = NextCRL(loaded[p])]
    /\ UNCHANGED <<rowVars, crl, late, cascaded, starts, faults>>

publishCRLSave(p) ==
    /\ At(p, "crlSave") /\ cmdCRLSave(p)
    /\ Goto(p, "swap")
    /\ UNCHANGED <<rowVars, crl, late, cascaded, starts, faults>>

\* The old CRL stays when the command fails, be it after it has saved.
publishCRLFails(p) ==
    /\ run[p].pc \in {"crl", "crlPublish", "crlSave", "swap"} /\ Fault("crl")
    /\ Killed(p)
    /\ Goto(p, "end")
    /\ UNCHANGED <<rowVars, crl, late, cascaded, starts>>

\* s.crl = crl
swapCRL(p) ==
    /\ At(p, "swap")
    /\ crl' = run[p].crl
    /\ Goto(p, "end")
    /\ UNCHANGED <<caVars, rowVars, late, cascaded, starts, faults>>

\* DeleteAccount fails while a device refers to the account: a tombstone.
finishAccount(p) ==
    /\ At(p, "end")
    /\ LET a == run[p].account
       IN  account' = IF run[p].delete /\ \A d \in Devices : Owner[d] = a => device[d] = None
                      THEN [account EXCEPT ![a] = None] ELSE account
    /\ Done(p)
    /\ UNCHANGED <<caVars, device, enrolled, cert, crl, late, cascaded, starts, faults>>

\* The server is restarted, with the commands it runs; it reads its CRL from the
\* file of the first start, or from the published one if the operator copied it.
Crash ==
    /\ Fault("crash")
    /\ run' = [p \in Commands |-> Idle]
    /\ loaded' = [p \in Commands |-> None]
    /\ crl' \in {Empty, public}
    /\ UNCHANGED <<issued, ledger, public, overlap, rowVars, late, cascaded, starts>>

-----------------------------------------------------------------------------
Enrol(p) ==
    \/ \E d \in Devices : hSubmitCSR(p, d) \/ hLabIssue(p, d)
    \/ \E s \in Serials : issueViaCA(p, s)
    \/ bindIssuedCert(p)
    \/ issueViaCAFails(p) \/ bindIssuedCertFails(p)

disableCascade(p) ==
    \/ list(p) \/ listFails(p)
    \/ \E s \in Serials : RevokeCertificate(p, s)
    \/ revokeViaCALoad(p) \/ revokeViaCASave(p) \/ revokeViaCAFails(p)
    \/ setLost(p)
    \/ publishCRLLoad(p) \/ publishCRL(p) \/ publishCRLSave(p) \/ publishCRLFails(p)
    \/ swapCRL(p)

Next ==
    \/ \E a \in Accounts : hEnableAccount(a)
    \/ \E d \in Devices : hCreateDevice(d)
    \/ \E s \in Serials : hRevoke(s)
    \/ \E p \in Commands :
          \/ Enrol(p) \/ disableCascade(p) \/ finishAccount(p)
          \/ \E a \in Accounts, delete \in BOOLEAN : hDisableAccount(p, a, delete)
    \/ hImportCRL
    \/ Crash

Spec == Init /\ [][Next]_vars

-----------------------------------------------------------------------------
(* Properties *)

\* A disabled account whose cascade is over.
Disabled(a) == account[a] = "disabled" /\ \A p \in Commands : run[p].account # a

\* "cascades to every device certificate the account holds": after disabling,
\* with handlers of the same account, enabling and enrolments in between, only a
\* certificate that was bound when the account was already disabled is active,
\* unless the server died or the database refused.
CascadeIsComplete ==
    faults \cap {"crash", "row"} = {} =>
        \A a \in Accounts : Disabled(a) =>
            \A s \in CertificatesOf(a) : cert[s].status = "revoked" \/ s \in late

\* What a cascade revoked, the CA has in its ledger, so that every later CRL
\* lists it: unless ca-admin failed, or two commands overlapped, when the one
\* that saves last erases what the other has saved.
RevocationReachesCA ==
    faults \cap {"crash", "revoke"} = {} /\ ~ overlap =>
        \A s \in cascaded :
            \/ s \in ledger.revoked
            \/ \E p \in Commands : run[p].serial = s /\ run[p].pc \in {"revoke", "revokeSave"}

\* The newest CRL lists every certificate whose cascade is over: only an older
\* one that a slower cascade or an operator has put back lacks any.
NewestCRLIsComplete ==
    faults \cap {"crash", "revoke", "crl"} = {} /\ ~ overlap /\ crl.number = ledger.number =>
        \A s \in cascaded :
            \/ s \in crl.revoked
            \/ \E p \in Commands : run[p].account = Owner[cert[s].device]

=============================================================================
