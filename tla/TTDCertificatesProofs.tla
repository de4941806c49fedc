----------------------- MODULE TTDCertificatesProofs ------------------------
(***************************************************************************)
(* The properties of TTDCertificates for any accounts, devices, serials,   *)
(* handlers and number of events, by one inductive invariant: what a       *)
(* handler knows at its step, that every certificate of a disabled account *)
(* is revoked or still ahead of a cascade, that a ca-admin command which   *)
(* is alone works on the ledger as it is, and that the newest CRL lists    *)
(* all revocations but those of cascades that have yet to publish one.     *)
(***************************************************************************)
EXTENDS TTDCertificates, TLAPS

\* The steps of disableCascade and of its caller.
Cascading == {"list", "row", "revoke", "revokeSave", "lost", "crl", "crlPublish", "crlSave", "swap", "end"}

\* The steps of the loop over the certificates, after the choice of one.
Revoking == {"revoke", "revokeSave", "lost"}

\* The steps with a ca-admin command that has loaded the ledger.
AtWork == {"revokeSave", "crlPublish", "crlSave"}

Handler ==
    [pc : {"idle", "issue", "bind"} \cup Cascading, account : Accounts \cup {None},
     device : Devices \cup {None}, serial : Serials \cup {None}, todo : SUBSET Serials,
     revoked : Nat, delete : BOOLEAN, crl : Ledger]

TypeInv ==
    /\ issued \subseteq Serials
    /\ ledger \in Ledger /\ public \in Ledger /\ crl \in Ledger
    /\ loaded \in [Commands -> Ledger \cup {None}]
    /\ overlap \in BOOLEAN
    /\ account \in [Accounts -> {"pending", "active", "disabled", None}]
    /\ cert \in [Serials -> Certificate \cup {None}]
    /\ run \in [Commands -> Handler]

-----------------------------------------------------------------------------
(* The handlers in progress *)

\* What is known of a handler in progress at its step.
HandlerInv(r) ==
    /\ r.pc \in {"issue", "bind"} => r.device \in Devices
    /\ r.pc = "bind" => r.serial \in issued /\ cert[r.serial] = None
    /\ r.pc \in Cascading => r.account \in Accounts
    /\ \A s \in r.todo : cert[s] # None /\ Owner[cert[s].device] = r.account
    /\ r.todo # {} => r.pc \in Revoking \cup {"row"}
    /\ r.pc = "row" => r.todo # {}
    /\ r.pc \in Revoking => /\ r.revoked > 0
                            /\ r.serial \in cascaded
                            /\ cert[r.serial] # None
                            /\ Owner[cert[r.serial].device] = r.account

HandlersInv ==
    /\ \A s \in Serials : cert[s] # None => s \in issued
    /\ \A s \in cascaded : s \in Serials /\ cert[s] # None
    /\ \A p \in Commands : HandlerInv(run[p])
    /\ \A p, q \in Commands :
          run[p].pc = "bind" /\ run[q].pc = "bind" /\ run[p].serial = run[q].serial => p = q
    /\ \A p \in Commands : loaded[p] # None <=> run[p].pc \in AtWork

(* A cascade takes up every certificate *)

\* A cascade of account a that has yet to list the certificates or to reach s.
Ahead(a, s) ==
    \E p \in Commands : run[p].account = a /\ (run[p].pc = "list" \/ s \in run[p].todo)

CascadeInv ==
    faults \cap {"crash", "row"} = {} =>
        \A a \in Accounts : account[a] = "disabled" =>
            \A s \in CertificatesOf(a) : cert[s].status = "revoked" \/ s \in late \/ Ahead(a, s)

(* The CA's ledger *)

\* Commands that do not overlap work on the ledger as it is, one at a time.
AloneInv ==
    ~ overlap =>
        /\ \A p \in Commands : loaded[p] # None => loaded[p] = ledger
        /\ \A p, q \in Commands : loaded[p] # None /\ loaded[q] # None => p = q

(* The CRLs *)

\* A cascade that revokes s, or has revoked it, and is to publish a CRL.
Pending(s) ==
    \E p \in Commands :
        /\ run[p].account = Owner[cert[s].device]
        /\ run[p].pc \in {"row", "revoke", "revokeSave", "lost", "crl", "crlPublish", "crlSave"}

\* A CRL is one of the past, or the one whose number is about to be saved; and
\* the newest one lists everything, but what is still pending.
Covers(c) ==
    /\ \/ c.number <= ledger.number
       \/ c = NextCRL(ledger) /\ \E p \in Commands : run[p].pc = "crlSave"
    /\ c.number = ledger.number => \A s \in cascaded : s \in c.revoked \/ Pending(s)

CRLInv ==
    faults \cap {"crash", "revoke", "crl"} = {} /\ ~ overlap =>
        /\ Covers(crl) /\ Covers(public)
        /\ \A p \in Commands : run[p].pc \in {"crlSave", "swap"} => Covers(run[p].crl)

CertificatesInv ==
    TypeInv /\ HandlersInv /\ CascadeInv /\ AloneInv /\ RevocationReachesCA /\ CRLInv

-----------------------------------------------------------------------------
(* Steps of a handler *)

\* A step of one handler leaves the others alone.
LEMMA OneRun ==
    ASSUME TypeInv, NEW p \in Commands, NEW q \in Handler, run' = [run EXCEPT ![p] = q]
    PROVE  /\ run'[p] = q /\ run' \in [Commands -> Handler]
           /\ \A u \in Commands : u # p => run'[u] = run[u]
  BY Zenon DEF TypeInv

\* The fields of a handler.
LEMMA HandlerFields ==
    ASSUME TypeInv, NEW p \in Commands
    PROVE  /\ run[p] \in Handler /\ run[p].todo \subseteq Serials /\ run[p].revoked \in Nat
           /\ run[p].crl \in Ledger /\ run[p].serial \in Serials \cup {None}
  BY Zenon DEF TypeInv, Handler

\* What is known of a handler stays known when rows are only added or revoked.
LEMMA KeepsHandler ==
    ASSUME NEW r \in Handler, HandlerInv(r), cascaded \subseteq Serials,
           issued \subseteq issued', cascaded \subseteq cascaded',
           \A s \in Serials : cert[s] # None => cert'[s] # None /\ cert'[s].device = cert[s].device,
           r.pc = "bind" => cert'[r.serial] = None
    PROVE  HandlerInv(r)'
  <1>1. \A s \in r.todo : s \in Serials
    BY Zenon DEF Handler
  <1>2. \A s \in r.todo : cert'[s] # None /\ Owner[cert'[s].device] = r.account
    BY <1>1, Zenon DEF HandlerInv
  <1>3. r.pc \in Revoking => /\ r.serial \in cascaded'
                             /\ cert'[r.serial] # None
                             /\ Owner[cert'[r.serial].device] = r.account
    BY Zenon DEF HandlerInv
  <1>4. r.pc = "bind" => r.serial \in issued'
    BY Zenon DEF HandlerInv
  <1> QED BY <1>2, <1>3, <1>4, Zenon DEF HandlerInv

\* A handler goes on; the rows and what was issued stay.
LEMMA HandlersStep ==
    ASSUME TypeInv, HandlersInv, NEW p \in Commands, NEW q \in Handler,
           run' = [run EXCEPT ![p] = q], UNCHANGED <<issued, cert, cascaded>>,
           HandlerInv(q), q.pc # "bind", loaded'[p] # None <=> q.pc \in AtWork,
           \A u \in Commands : u # p => loaded'[u] = loaded[u]
    PROVE  HandlersInv'
  <1>1. \A u \in Commands : HandlerInv(run[u])
    BY Zenon DEF HandlersInv
  <1>2. issued' = issued /\ cert' = cert /\ cascaded' = cascaded
    OBVIOUS
  <1>3. ASSUME NEW u \in Commands PROVE HandlerInv(run[u])'
    <2>1. PICK r : r = run'[u]
      BY Zenon
    <2>2. HandlerInv(r)
      BY <1>1, <2>1, OneRun, Zenon
    <2>3. HandlerInv(r)'
      BY <1>2, <2>2, Zenon DEF HandlerInv
    <2> QED BY <2>1, <2>3, Zenon DEF HandlerInv
  <1>4. ASSUME NEW u \in Commands, NEW v \in Commands, run'[u].pc = "bind", run'[v].pc = "bind",
               run'[u].serial = run'[v].serial
        PROVE  u = v
    <2>1. run'[u] = run[u] /\ run'[v] = run[v]
      BY <1>4, OneRun, Zenon
    <2>2. run[u].pc = "bind" /\ run[v].pc = "bind" /\ run[u].serial = run[v].serial
      BY <1>4, <2>1, Zenon
    <2> QED BY <2>2, Zenon DEF HandlersInv
  <1>5. \A u \in Commands : loaded'[u] # None <=> run'[u].pc \in AtWork
    BY OneRun, Zenon DEF HandlersInv
  <1> QED BY <1>2, <1>3, <1>4, <1>5, Zenon DEF HandlersInv

\* Nothing changes for the accounts' certificates, and a handler keeps what it has
\* yet to revoke.
LEMMA CascadeStep ==
    ASSUME TypeInv, CascadeInv, NEW p \in Commands, NEW q \in Handler,
           run' = [run EXCEPT ![p] = q], UNCHANGED cert, late \subseteq late', faults \subseteq faults',
           \A a \in Accounts : account'[a] = "disabled" => account[a] = "disabled",
           run[p].pc # "list",
           run[p].todo = {} \/ (q.todo = run[p].todo /\ q.account = run[p].account)
    PROVE  CascadeInv'
  <1>1. ASSUME NEW a, NEW s, Ahead(a, s) PROVE Ahead(a, s)'
    <2>1. PICK u \in Commands : run[u].account = a /\ (run[u].pc = "list" \/ s \in run[u].todo)
      BY <1>1, Zenon DEF Ahead
    <2>2. run'[u].account = a /\ (run'[u].pc = "list" \/ s \in run'[u].todo)
      <3>1. CASE u = p
        <4>1. run'[u] = q /\ s \in run[p].todo
          BY <2>1, <3>1, OneRun, Zenon
        <4> QED BY <2>1, <3>1, <4>1, Zenon
      <3>2. CASE u # p
        BY <2>1, <3>2, OneRun, Zenon
      <3> QED BY <3>1, <3>2, Zenon
    <2> QED BY <2>2, Zenon DEF Ahead
  <1>2. \A a \in Accounts : CertificatesOf(a)' = CertificatesOf(a)
    BY Zenon DEF CertificatesOf
  <1> QED BY <1>1, <1>2, Zenon DEF CascadeInv

\* The ledger loses no revocation, and the handlers keep what they are about to
\* revoke.
LEMMA RevocationStep ==
    ASSUME TypeInv, RevocationReachesCA, NEW p \in Commands, NEW q \in Handler,
           run' = [run EXCEPT ![p] = q], cascaded' = cascaded, faults \subseteq faults',
           overlap => overlap', ~ overlap' => ledger.revoked \subseteq ledger'.revoked,
           run[p].pc \in {"revoke", "revokeSave"} =>
               q.pc \in {"revoke", "revokeSave"} /\ q.serial = run[p].serial
    PROVE  RevocationReachesCA'
  <1>1. ASSUME NEW s, \E u \in Commands : run[u].serial = s /\ run[u].pc \in {"revoke", "revokeSave"}
        PROVE  \E u \in Commands : run'[u].serial = s /\ run'[u].pc \in {"revoke", "revokeSave"}
    <2>1. PICK u \in Commands : run[u].serial = s /\ run[u].pc \in {"revoke", "revokeSave"}
      BY <1>1, Zenon
    <2>2. CASE u = p
      <3>1. run'[u] = q /\ q.pc \in {"revoke", "revokeSave"} /\ q.serial = s
        BY <2>1, <2>2, OneRun, Zenon
      <3> QED BY <3>1, Zenon
    <2>3. CASE u # p
      BY <2>1, <2>3, OneRun, Zenon
    <2> QED BY <2>2, <2>3, Zenon
  <1>2. ASSUME faults' \cap {"crash", "revoke"} = {}, ~ overlap', NEW s \in cascaded
        PROVE  \/ s \in ledger'.revoked
               \/ \E u \in Commands : run'[u].serial = s /\ run'[u].pc \in {"revoke", "revokeSave"}
    <2>1. faults \cap {"crash", "revoke"} = {} /\ ~ overlap
      BY <1>2, Zenon
    <2>2. \/ s \in ledger.revoked
          \/ \E u \in Commands : run[u].serial = s /\ run[u].pc \in {"revoke", "revokeSave"}
      BY <2>1, Zenon DEF RevocationReachesCA
    <2>3. s \in ledger.revoked => s \in ledger'.revoked
      BY <1>2, Zenon
    <2>4. CASE s \in ledger.revoked
      BY <2>3, <2>4, Zenon
    <2>5. CASE \E u \in Commands : run[u].serial = s /\ run[u].pc \in {"revoke", "revokeSave"}
      BY ONLY <1>1, <2>5, Zenon
    <2> QED BY <2>2, <2>4, <2>5, Zenon
  <1> QED BY <1>2, Zenon DEF RevocationReachesCA

PendingSteps == {"row", "revoke", "revokeSave", "lost", "crl", "crlPublish", "crlSave"}

\* A cascade that is pending stays so.
LEMMA PendingStep ==
    ASSUME TypeInv, NEW p \in Commands, NEW q \in Handler,
           run' = [run EXCEPT ![p] = q], NEW s, cert'[s].device = cert[s].device, Pending(s),
           run[p].pc \in PendingSteps => q.pc \in PendingSteps /\ q.account = run[p].account
    PROVE  Pending(s)'
  <1>1. PICK u \in Commands : run[u].account = Owner[cert[s].device] /\ run[u].pc \in PendingSteps
    BY Zenon DEF Pending, PendingSteps
  <1>2. run'[u].account = Owner[cert'[s].device] /\ run'[u].pc \in PendingSteps
    BY <1>1, OneRun, Zenon
  <1> QED BY <1>2, Zenon DEF Pending, PendingSteps

\* The ledger stays, no new CRL is made, and the handlers keep what is pending.
LEMMA CRLStep ==
    ASSUME TypeInv, CRLInv, NEW p \in Commands, NEW q \in Handler,
           run' = [run EXCEPT ![p] = q], UNCHANGED <<ledger, public>>, faults \subseteq faults',
           overlap => overlap', cascaded' = cascaded,
           \A s \in cascaded : cert'[s].device = cert[s].device,
           \/ crl' = crl
           \/ crl' = run[p].crl /\ run[p].pc = "swap",
           run[p].pc \in PendingSteps => q.pc \in PendingSteps /\ q.account = run[p].account,
           run[p].pc = "crlSave" => q.pc = "crlSave",
           q.pc \in {"crlSave", "swap"} => run[p].pc \in {"crlSave", "swap"} /\ q.crl = run[p].crl
    PROVE  CRLInv'
  <1> SUFFICES ASSUME faults' \cap {"crash", "revoke", "crl"} = {} /\ ~ overlap'
               PROVE  /\ Covers(crl)' /\ Covers(public)'
                      /\ \A u \in Commands : run'[u].pc \in {"crlSave", "swap"} => Covers(run[u].crl)'
    BY Zenon DEF CRLInv
  <1>1. /\ Covers(crl) /\ Covers(public)
        /\ \A u \in Commands : run[u].pc \in {"crlSave", "swap"} => Covers(run[u].crl)
    BY Zenon DEF CRLInv
  <1>2. ASSUME NEW c, Covers(c) PROVE Covers(c)'
    <2>1. \A s \in cascaded : Pending(s) => Pending(s)'
      BY PendingStep, Zenon
    <2>2. (\E u \in Commands : run[u].pc = "crlSave") => \E u \in Commands : run'[u].pc = "crlSave"
      BY OneRun, Zenon
    <2>3. NextCRL(ledger)' = NextCRL(ledger)
      BY Zenon DEF NextCRL
    <2> QED BY <1>2, <2>1, <2>2, <2>3, Zenon DEF Covers
  <1>3. Covers(crl)' /\ Covers(public)'
    <2>1. PICK c : c = crl'
      BY Zenon
    <2>2. PICK d : d = public
      BY Zenon
    <2>3. Covers(c) /\ Covers(d)
      BY <1>1, <2>1, <2>2, Zenon
    <2>4. Covers(c)' /\ Covers(d)'
      BY <1>2, <2>3, Zenon
    <2> QED BY <2>1, <2>2, <2>4, Zenon DEF Covers
  <1>4. ASSUME NEW u \in Commands, run'[u].pc \in {"crlSave", "swap"} PROVE Covers(run[u].crl)'
    <2>1. PICK c : c = run'[u].crl
      BY Zenon
    <2>2. Covers(c)
      BY <1>1, <1>4, <2>1, OneRun, Zenon
    <2>3. Covers(c)'
      BY <1>2, <2>2, Zenon
    <2> QED BY <2>1, <2>3, Zenon DEF Covers
  <1> QED BY <1>3, <1>4, Zenon

\* Commands work on the ledger as it is, one at a time, and stay so when one of
\* them ends without saving.
LEMMA AloneStep ==
    ASSUME AloneInv, ledger' = ledger, overlap => overlap',
           \A u \in Commands : loaded'[u] = loaded[u] \/ loaded'[u] = None
    PROVE  AloneInv'
  <1>1. ASSUME ~ overlap', NEW u \in Commands, loaded'[u] # None
        PROVE  loaded'[u] = loaded[u] /\ loaded[u] # None /\ loaded[u] = ledger
    BY <1>1, Zenon DEF AloneInv
  <1> QED BY <1>1, Zenon DEF AloneInv

\* A ca-admin command loads the ledger.
LEMMA LoadStep ==
    ASSUME TypeInv, AloneInv, NEW p \in Commands, loadLedger(p)
    PROVE  /\ AloneInv' /\ loaded' \in [Commands -> Ledger \cup {None}] /\ overlap' \in BOOLEAN
           /\ loaded'[p] # None /\ \A u \in Commands : u # p => loaded'[u] = loaded[u]
           /\ overlap => overlap'
           /\ UNCHANGED <<issued, ledger, public>>
  <1>1. loaded' = [loaded EXCEPT ![p] = ledger] /\ ledger \in Ledger
    BY Zenon DEF loadLedger, TypeInv
  <1>2. loaded'[p] = ledger /\ \A u \in Commands : u # p => loaded'[u] = loaded[u]
    BY <1>1, Zenon DEF TypeInv
  <1>3. loaded'[p] # None
    BY <1>1, <1>2, CaAssumption, Zenon DEF CaAssumption
  <1>4. loaded' \in [Commands -> Ledger \cup {None}]
    BY <1>1, Zenon DEF TypeInv
  <1>5. overlap' = (overlap \/ \E u \in Commands : loaded[u] # None)
    BY Zenon DEF loadLedger
  <1>6. overlap' \in BOOLEAN /\ (overlap => overlap')
    BY <1>5, Zenon DEF TypeInv
  <1>7. ~ overlap' => \A u \in Commands : loaded[u] = None
    BY <1>5, Zenon
  <1>8. UNCHANGED <<issued, ledger, public>>
    BY Zenon DEF loadLedger
  <1>9. AloneInv'
    BY <1>2, <1>7, <1>8, Zenon DEF AloneInv
  <1> QED BY <1>2, <1>3, <1>4, <1>6, <1>8, <1>9, Zenon

\* A ca-admin command that is alone saves the ledger.
LEMMA SaveStep ==
    ASSUME TypeInv, AloneInv, NEW p \in Commands, loaded[p] # None, NEW l \in Ledger, saveLedger(p, l)
    PROVE  /\ AloneInv' /\ loaded' \in [Commands -> Ledger \cup {None}] /\ ledger' = l
           /\ loaded'[p] = None /\ \A u \in Commands : u # p => loaded'[u] = loaded[u]
           /\ UNCHANGED <<issued, overlap>>
  <1>1. loaded' = [loaded EXCEPT ![p] = None] /\ ledger' = l /\ UNCHANGED <<issued, overlap>>
    BY Zenon DEF saveLedger
  <1>2. loaded'[p] = None /\ \A u \in Commands : u # p => loaded'[u] = loaded[u]
    BY <1>1, Zenon DEF TypeInv
  <1>3. loaded' \in [Commands -> Ledger \cup {None}]
    BY <1>1, Zenon DEF TypeInv
  <1>4. ~ overlap' => \A u \in Commands : loaded'[u] = None
    BY <1>1, <1>2, Zenon DEF AloneInv
  <1>5. AloneInv'
    BY <1>4, Zenon DEF AloneInv
  <1> QED BY <1>1, <1>2, <1>3, <1>5, Zenon

\* A ca-admin command is killed.
LEMMA KilledStep ==
    ASSUME TypeInv, AloneInv, NEW p \in Commands, Killed(p)
    PROVE  /\ AloneInv' /\ loaded' \in [Commands -> Ledger \cup {None}]
           /\ loaded'[p] = None /\ \A u \in Commands : u # p => loaded'[u] = loaded[u]
           /\ UNCHANGED <<issued, ledger, public, overlap>>
  <1>1. loaded' = [loaded EXCEPT ![p] = None] /\ UNCHANGED <<issued, ledger, public, overlap>>
    BY Zenon DEF Killed
  <1>2. loaded'[p] = None /\ \A u \in Commands : u # p => loaded'[u] = loaded[u]
    BY <1>1, Zenon DEF TypeInv
  <1>3. loaded' \in [Commands -> Ledger \cup {None}]
    BY <1>1, Zenon DEF TypeInv
  <1>4. AloneInv'
    BY <1>1, <1>2, AloneStep, Zenon
  <1> QED BY <1>1, <1>2, <1>3, <1>4, Zenon

\* A handler goes on, and changes neither the rows nor the ledger.
LEMMA QuietStep ==
    ASSUME CertificatesInv, NEW p \in Commands, NEW q \in Handler, run' = [run EXCEPT ![p] = q],
           UNCHANGED <<caVars, cert, cascaded>>, late' = late,
           account' = account \/ \E a \in Accounts : account' = [account EXCEPT ![a] = None],
           faults \subseteq faults', HandlerInv(q), q.pc # "bind",
           q.pc \in AtWork <=> run[p].pc \in AtWork,
           run[p].pc # "list",
           run[p].todo = {} \/ (q.todo = run[p].todo /\ q.account = run[p].account),
           run[p].pc \in {"revoke", "revokeSave"} => q.pc \in {"revoke", "revokeSave"} /\ q.serial = run[p].serial,
           \/ crl' = crl
           \/ crl' = run[p].crl /\ run[p].pc = "swap",
           run[p].pc \in PendingSteps => q.pc \in PendingSteps /\ q.account = run[p].account,
           run[p].pc = "crlSave" => q.pc = "crlSave",
           q.pc \in {"crlSave", "swap"} => run[p].pc \in {"crlSave", "swap"} /\ q.crl = run[p].crl
    PROVE  CertificatesInv'
  <1>1. TypeInv /\ HandlersInv /\ CascadeInv /\ AloneInv /\ RevocationReachesCA /\ CRLInv
    BY Zenon DEF CertificatesInv
  <1>2. UNCHANGED <<issued, ledger, public, loaded, overlap, cert, cascaded>>
    BY Zenon DEF caVars
  <1>3. /\ account' \in [Accounts -> {"pending", "active", "disabled", None}]
        /\ \A a \in Accounts : account'[a] = "disabled" => account[a] = "disabled"
    BY <1>1, CertificatesAssumption, Zenon DEF TypeInv, CertificatesAssumption
  <1>4. TypeInv'
    <2>1. run' \in [Commands -> Handler]
      BY <1>1, OneRun, Zenon
    <2>2. crl' \in Ledger
      BY <1>1, HandlerFields, Zenon DEF TypeInv
    <2> QED BY <1>1, <1>2, <1>3, <2>1, <2>2, Zenon DEF TypeInv
  <1>5. HandlersInv'
    <2>1. loaded'[p] # None <=> q.pc \in AtWork
      BY <1>1, <1>2, Zenon DEF HandlersInv
    <2> QED BY <1>1, <1>2, <2>1, HandlersStep, Zenon
  <1>6. CascadeInv'
    BY <1>1, <1>2, <1>3, CascadeStep, Zenon
  <1>7. AloneInv'
    BY <1>1, <1>2, AloneStep, Zenon
  <1>8. RevocationReachesCA'
    BY <1>1, <1>2, RevocationStep, Zenon
  <1>9. CRLInv'
    BY <1>1, <1>2, CRLStep, Zenon
  <1> QED BY <1>4, <1>5, <1>6, <1>7, <1>8, <1>9, Zenon DEF CertificatesInv

-----------------------------------------------------------------------------
(* Enrolment *)

\* A handler that is not at work.
LEMMA IdleFacts ==
    /\ Idle \in Handler /\ Idle.pc = "idle" /\ Idle.todo = {} /\ Idle.account = None
    /\ Idle.revoked = 0 /\ Idle.crl = Empty /\ Empty \in Ledger
  <1>1. Empty \in Ledger /\ 0 \in Nat
    BY DEF Empty, Ledger
  <1> QED BY <1>1 DEF Idle, Handler

\* Nothing is known of it.
LEMMA IdleHandler ==
    ASSUME NEW q, q.pc = "idle", q.todo = {}
    PROVE  HandlerInv(q)
  BY DEF HandlerInv, Cascading, Revoking

\* A handler that goes to another step.
LEMMA Moves ==
    ASSUME NEW r \in Handler, NEW x \in {"idle", "issue", "bind"} \cup Cascading,
           NEW q, q = [r EXCEPT !.pc = x]
    PROVE  /\ q \in Handler /\ q.pc = x /\ q.account = r.account /\ q.device = r.device
           /\ q.serial = r.serial /\ q.todo = r.todo /\ q.revoked = r.revoked
           /\ q.delete = r.delete /\ q.crl = r.crl
  BY Zenon DEF Handler

\* Only other rows change.
LEMMA OtherRows ==
    ASSUME CertificatesInv, UNCHANGED <<caVars, account, cert, crl, run, late, cascaded, faults>>
    PROVE  CertificatesInv'
  <1>1. /\ issued' = issued /\ ledger' = ledger /\ public' = public /\ loaded' = loaded
        /\ overlap' = overlap /\ account' = account /\ cert' = cert /\ crl' = crl /\ run' = run
        /\ late' = late /\ cascaded' = cascaded /\ faults' = faults
    BY Zenon DEF caVars
  <1>2. TypeInv'
    BY <1>1, Zenon DEF CertificatesInv, TypeInv
  <1>3. HandlersInv'
    BY <1>1 DEF CertificatesInv, HandlersInv, HandlerInv
  <1>4. CascadeInv'
    BY <1>1 DEF CertificatesInv, CascadeInv, CertificatesOf, Ahead
  <1>5. AloneInv' /\ RevocationReachesCA'
    BY <1>1 DEF CertificatesInv, AloneInv, RevocationReachesCA
  <1>6. CRLInv'
    BY <1>1 DEF CertificatesInv, CRLInv, Covers, Pending, NextCRL
  <1> QED BY <1>2, <1>3, <1>4, <1>5, <1>6, Zenon DEF CertificatesInv

\* A handler that has nothing in hand ends, or begins.
LEMMA EndsOrBegins ==
    ASSUME CertificatesInv, NEW p \in Commands, run[p].pc \in {"idle", "issue", "bind", "end"},
           NEW q \in Handler, run' = [run EXCEPT ![p] = q], HandlerInv(q), q.pc \in {"idle", "issue"},
           account' = account \/ \E a \in Accounts : account' = [account EXCEPT ![a] = None],
           q.todo = {}, UNCHANGED <<caVars, cert, cascaded, late, crl>>, faults \subseteq faults'
    PROVE  CertificatesInv'
  <1>1. HandlerInv(run[p])
    BY Zenon DEF CertificatesInv, HandlersInv
  <1>2. /\ run[p].pc \notin AtWork /\ run[p].pc \notin PendingSteps /\ run[p].pc # "list"
        /\ run[p].pc \notin {"revoke", "revokeSave"} /\ run[p].pc # "crlSave"
        /\ run[p].pc \notin Revoking \cup {"row"}
    BY DEF AtWork, PendingSteps, Revoking
  <1>3. q.pc \notin AtWork /\ q.pc \notin {"crlSave", "swap"} /\ q.pc # "bind"
    BY DEF AtWork
  <1>4. run[p].todo = {}
    BY <1>1, <1>2, Zenon DEF HandlerInv
  <1> QED BY <1>2, <1>3, <1>4, QuietStep, Zenon

\* hSubmitCSR and hLabIssue, up to the call of the CA.
LEMMA EnrolStep ==
    ASSUME CertificatesInv, NEW p \in Commands, NEW d \in Devices, hSubmitCSR(p, d) \/ hLabIssue(p, d)
    PROVE  CertificatesInv'
  <1>1. PICK q : q = [Idle EXCEPT !.pc = "issue", !.device = d]
    BY Zenon
  <1>2. q \in Handler /\ q.pc = "issue" /\ q.todo = {} /\ q.device = d
    BY <1>1, IdleFacts, Zenon DEF Handler
  <1>3. HandlerInv(q)
    BY <1>2 DEF HandlerInv, Cascading, Revoking
  <1>4. CASE Begin(p, q)
    <2>1. run[p].pc = "idle" /\ run' = [run EXCEPT ![p] = q]
      BY <1>4, Zenon DEF Begin, At
    <2>2. UNCHANGED <<caVars, account, cert, cascaded, late, crl>> /\ faults' = faults
      BY Zenon DEF hSubmitCSR, hLabIssue, rowVars
    <2> QED BY <1>2, <1>3, <2>1, <2>2, EndsOrBegins, Zenon
  <1>5. CASE UNCHANGED run
    BY <1>5, OtherRows, Zenon DEF hSubmitCSR, hLabIssue, rowVars
  <1> QED BY <1>1, <1>4, <1>5, Zenon DEF hSubmitCSR, hLabIssue

\* The call of the CA, or of CreateCertificate, fails.
LEMMA EnrolFails ==
    ASSUME CertificatesInv, NEW p \in Commands, issueViaCAFails(p) \/ bindIssuedCertFails(p)
    PROVE  CertificatesInv'
  <1>1. run[p].pc \in {"issue", "bind"} /\ run' = [run EXCEPT ![p] = Idle] /\ faults \subseteq faults'
    BY Zenon DEF issueViaCAFails, bindIssuedCertFails, At, Done, Fault
  <1>2. UNCHANGED <<caVars, account, cert, cascaded, late, crl>>
    BY Zenon DEF issueViaCAFails, bindIssuedCertFails, rowVars
  <1> QED BY <1>1, <1>2, IdleFacts, IdleHandler, EndsOrBegins, Zenon

\* The CA issues a certificate.
LEMMA IssueStep ==
    ASSUME CertificatesInv, NEW p \in Commands, NEW s \in Serials, issueViaCA(p, s)
    PROVE  CertificatesInv'
  <1>1. PICK q : q = [run[p] EXCEPT !.pc = "bind", !.serial = s]
    BY Zenon
  <1>2. run[p].pc = "issue" /\ run' = [run EXCEPT ![p] = q] /\ s \notin issued /\ issued' = issued \cup {s}
    BY <1>1, Zenon DEF issueViaCA, At, cmdIssue
  <1>3. TypeInv /\ HandlersInv /\ CascadeInv /\ AloneInv /\ RevocationReachesCA /\ CRLInv
    BY Zenon DEF CertificatesInv
  <1>4. run[p] \in Handler /\ HandlerInv(run[p]) /\ run[p].todo = {}
    <2>1. run[p].pc \notin Revoking \cup {"row"}
      BY <1>2 DEF Revoking
    <2> QED BY <1>3, <2>1, HandlerFields, Zenon DEF HandlersInv, HandlerInv
  <1>5. /\ q \in Handler /\ q.pc = "bind" /\ q.serial = s /\ q.todo = {} /\ q.device = run[p].device
        /\ q.account = run[p].account
    BY <1>1, <1>4, Zenon DEF Handler
  <1>6. /\ UNCHANGED <<ledger, public, loaded, overlap, account, cert, cascaded, late, crl, faults>>
    BY Zenon DEF issueViaCA, cmdIssue, rowVars
  <1>7. run'[p] = q /\ run' \in [Commands -> Handler] /\ \A u \in Commands : u # p => run'[u] = run[u]
    BY <1>2, <1>3, <1>5, OneRun, Zenon
  <1>8. TypeInv'
    BY <1>2, <1>3, <1>6, <1>7, Zenon DEF TypeInv
  <1>9. cert[s] = None /\ \A u \in Commands : run[u].pc = "bind" => run[u].serial # s
    BY <1>2, <1>3, Zenon DEF HandlersInv, HandlerInv
  <1>10. /\ run[p].pc \notin AtWork /\ run[p].pc \notin PendingSteps /\ run[p].pc # "list"
         /\ run[p].pc \notin {"revoke", "revokeSave"} /\ run[p].pc # "crlSave"
         /\ q.pc \notin AtWork /\ q.pc \notin {"crlSave", "swap"}
         /\ q.pc \notin Cascading /\ q.pc \notin Revoking /\ q.pc # "row"
    BY <1>2, <1>5 DEF AtWork, PendingSteps, Cascading, Revoking
  <1>11. HandlersInv'
    <2>1. ASSUME NEW u \in Commands PROVE HandlerInv(run[u])'
      <3>1. PICK r : r = run'[u]
        BY Zenon
      <3>2. CASE u = p
        <4>1. run'[u] = q
          BY <3>2, <1>7, Zenon
        <4>2. HandlerInv(q)'
          BY <1>2, <1>4, <1>5, <1>6, <1>9, <1>10, Zenon DEF HandlerInv
        <4> QED BY <4>1, <4>2, Zenon DEF HandlerInv
      <3>3. CASE u # p
        <4>1. HandlerInv(r)
          BY <3>1, <3>3, <1>3, <1>7, Zenon DEF HandlersInv
        <4>2. HandlerInv(r)'
          BY <1>2, <1>6, <4>1, Zenon DEF HandlerInv
        <4> QED BY <3>1, <4>2, Zenon DEF HandlerInv
      <3> QED BY <3>2, <3>3, Zenon
    <2>2. ASSUME NEW u \in Commands, NEW v \in Commands, run'[u].pc = "bind", run'[v].pc = "bind",
                 run'[u].serial = run'[v].serial
          PROVE  u = v
      <3>1. CASE u # p /\ v # p
        BY <2>2, <3>1, <1>3, <1>7, Zenon DEF HandlersInv
      <3>2. CASE u = p
        BY <2>2, <3>2, <1>5, <1>7, <1>9, Zenon
      <3>3. CASE v = p
        BY <2>2, <3>3, <1>5, <1>7, <1>9, Zenon
      <3> QED BY <3>1, <3>2, <3>3, Zenon
    <2>3. \A u \in Commands : loaded'[u] # None <=> run'[u].pc \in AtWork
      BY <1>3, <1>6, <1>7, <1>10, Zenon DEF HandlersInv
    <2>4. \A t \in Serials : cert'[t] # None => t \in issued'
      BY <1>2, <1>3, <1>6, Zenon DEF HandlersInv
    <2>5. \A t \in cascaded' : t \in Serials /\ cert'[t] # None
      BY <1>3, <1>6, Zenon DEF HandlersInv
    <2> QED BY <2>1, <2>2, <2>3, <2>4, <2>5, Zenon DEF HandlersInv
  <1>12. CascadeInv'
    BY <1>2, <1>3, <1>4, <1>5, <1>6, <1>10, CascadeStep, Zenon
  <1>13. AloneInv' /\ RevocationReachesCA'
    BY <1>2, <1>3, <1>5, <1>6, <1>10, AloneStep, RevocationStep, Zenon
  <1>14. CRLInv'
    BY <1>2, <1>3, <1>5, <1>6, <1>10, CRLStep, Zenon
  <1> QED BY <1>8, <1>11, <1>12, <1>13, <1>14, Zenon DEF CertificatesInv

\* The row of a certificate is made.
LEMMA BindStep ==
    ASSUME CertificatesInv, NEW p \in Commands, bindIssuedCert(p)
    PROVE  CertificatesInv'
  <1>1. PICK s : s = run[p].serial
    BY Zenon
  <1>2. PICK d : d = run[p].device
    BY Zenon
  <1>3. PICK row : row = [device |-> d, status |-> "active"]
    BY Zenon
  <1>4. /\ run[p].pc = "bind" /\ run' = [run EXCEPT ![p] = Idle]
        /\ cert' = [cert EXCEPT ![s] = row]
        /\ late' = IF account[Owner[d]] = "active" THEN late ELSE late \cup {s}
    BY <1>1, <1>2, <1>3, Zenon DEF bindIssuedCert, At, Done
  <1>5. TypeInv /\ HandlersInv /\ CascadeInv /\ AloneInv /\ RevocationReachesCA /\ CRLInv
    BY Zenon DEF CertificatesInv
  <1>6. /\ s \in issued /\ s \in Serials /\ cert[s] = None /\ d \in Devices /\ run[p].todo = {}
    <2>1. HandlerInv(run[p]) /\ run[p].pc \notin Revoking \cup {"row"}
      <3>1. run[p].pc \notin Revoking \cup {"row"}
        BY <1>4 DEF Revoking
      <3> QED BY <3>1, <1>5, Zenon DEF HandlersInv
    <2>2. s \in issued /\ cert[s] = None /\ d \in Devices /\ run[p].todo = {}
      BY <1>1, <1>2, <1>4, <2>1, Zenon DEF HandlerInv
    <2> QED BY <2>2, <1>5, Zenon DEF TypeInv
  <1>7. row \in Certificate /\ row # None /\ row.device = d /\ row.status = "active"
    <2>1. row \in Certificate /\ row.device = d /\ row.status = "active"
      BY <1>3, <1>6, Zenon DEF Certificate
    <2> QED BY <2>1, CertificatesAssumption, Zenon DEF CertificatesAssumption
  <1>8. cert'[s] = row /\ \A t \in Serials : t # s => cert'[t] = cert[t]
    BY <1>4, <1>5, <1>6, Zenon DEF TypeInv
  <1>9. UNCHANGED <<issued, ledger, public, loaded, overlap, account, cascaded, crl, faults>>
    BY Zenon DEF bindIssuedCert, caVars
  <1>10. run'[p] = Idle /\ run' \in [Commands -> Handler] /\ \A u \in Commands : u # p => run'[u] = run[u]
    BY <1>4, <1>5, IdleFacts, OneRun, Zenon
  <1>11. TypeInv'
    <2>1. cert' \in [Serials -> Certificate \cup {None}]
      BY <1>4, <1>5, <1>7, Zenon DEF TypeInv
    <2> QED BY <1>5, <1>9, <1>10, <2>1, Zenon DEF TypeInv
  <1>12. \A t \in Serials : cert[t] # None => cert'[t] # None /\ cert'[t].device = cert[t].device
    BY <1>6, <1>8, Zenon
  <1>13. cascaded \subseteq Serials /\ \A t \in cascaded : cert[t] # None
    BY <1>5, Zenon DEF HandlersInv
  <1>14. HandlersInv'
    <2>1. ASSUME NEW u \in Commands PROVE HandlerInv(run[u])'
      <3>1. CASE u = p
        <4>1. HandlerInv(Idle)'
          BY IdleFacts DEF HandlerInv, Cascading, Revoking
        <4>2. run'[u] = Idle
          BY <3>1, <1>10, Zenon
        <4> QED BY <4>1, <4>2, Zenon DEF HandlerInv
      <3>2. CASE u # p
        <4>1. PICK r \in Handler : r = run'[u]
          BY <1>10, Zenon
        <4>2. HandlerInv(r) /\ r = run[u]
          BY <3>2, <4>1, <1>5, <1>10, Zenon DEF HandlersInv
        <4>3. r.pc = "bind" => r.serial # s /\ r.serial \in Serials
          <5>1. r.pc = "bind" => r.serial # s
            BY <3>2, <4>2, <1>1, <1>4, <1>5, Zenon DEF HandlersInv
          <5>2. r.pc = "bind" => r.serial \in Serials
            BY <4>2, <1>5, Zenon DEF HandlerInv, TypeInv
          <5> QED BY <5>1, <5>2, Zenon
        <4>4. r.pc = "bind" => cert'[r.serial] = None
          BY <4>2, <4>3, <1>8, Zenon DEF HandlerInv
        <4>5. HandlerInv(r)'
          BY <4>2, <4>4, <1>9, <1>12, <1>13, KeepsHandler, Zenon
        <4> QED BY <4>1, <4>5, Zenon DEF HandlerInv
      <3> QED BY <3>1, <3>2, Zenon
    <2>2. \A u, v \in Commands :
            run'[u].pc = "bind" /\ run'[v].pc = "bind" /\ run'[u].serial = run'[v].serial => u = v
      <3>1. Idle.pc # "bind"
        BY IdleFacts
      <3> QED BY <3>1, <1>5, <1>10, Zenon DEF HandlersInv
    <2>3. \A u \in Commands : loaded'[u] # None <=> run'[u].pc \in AtWork
      <3>1. Idle.pc \notin AtWork /\ run[p].pc \notin AtWork
        BY <1>4, IdleFacts DEF AtWork
      <3> QED BY <3>1, <1>5, <1>9, <1>10, Zenon DEF HandlersInv
    <2>4. \A t \in Serials : cert'[t] # None => t \in issued'
      BY <1>5, <1>6, <1>8, <1>9, Zenon DEF HandlersInv
    <2>5. \A t \in cascaded' : t \in Serials /\ cert'[t] # None
      BY <1>9, <1>12, <1>13, Zenon
    <2> QED BY <2>1, <2>2, <2>3, <2>4, <2>5, Zenon DEF HandlersInv
  <1>15. CascadeInv'
    <2> SUFFICES ASSUME faults' \cap {"crash", "row"} = {}, NEW a \in Accounts, account'[a] = "disabled",
                        NEW t \in CertificatesOf(a)'
                 PROVE  cert'[t].status = "revoked" \/ t \in late' \/ Ahead(a, t)'
      BY Zenon DEF CascadeInv
    <2>1. t \in Serials /\ cert'[t] # None /\ Owner[cert'[t].device] = a
      BY Zenon DEF CertificatesOf
    <2>2. CASE t = s
      <3>1. Owner[d] = a
        BY <2>1, <2>2, <1>7, <1>8, Zenon
      <3>2. account[Owner[d]] # "active"
        BY <3>1, <1>9
      <3> QED BY <2>2, <3>2, <1>4, Zenon
    <2>3. CASE t # s
      <3>1. cert'[t] = cert[t] /\ t \in CertificatesOf(a)
        BY <2>1, <2>3, <1>8, Zenon DEF CertificatesOf
      <3>2. cert[t].status = "revoked" \/ t \in late \/ Ahead(a, t)
        BY <3>1, <1>5, <1>9, Zenon DEF CascadeInv
      <3>3. Ahead(a, t) => Ahead(a, t)'
        <4>1. run[p].pc # "list"
          BY <1>4
        <4> QED BY <4>1, <1>6, <1>10, Zenon DEF Ahead
      <3> QED BY <3>1, <3>2, <3>3, <1>4, Zenon
    <2> QED BY <2>2, <2>3, Zenon
  <1>16. AloneInv'
    BY <1>5, <1>9, AloneStep, Zenon
  <1>17. /\ run[p].pc \notin PendingSteps /\ run[p].pc \notin {"revoke", "revokeSave"}
         /\ run[p].pc # "crlSave" /\ Idle.pc \notin {"crlSave", "swap"} /\ Idle \in Handler
    BY <1>4, IdleFacts DEF PendingSteps
  <1>18. RevocationReachesCA'
    BY <1>4, <1>5, <1>9, <1>17, RevocationStep, Zenon
  <1>19. CRLInv'
    <2>1. \A t \in cascaded : cert'[t].device = cert[t].device
      BY <1>12, <1>13, Zenon
    <2> QED BY <2>1, <1>4, <1>5, <1>9, <1>17, CRLStep, Zenon
  <1> QED BY <1>11, <1>14, <1>15, <1>16, <1>18, <1>19, Zenon DEF CertificatesInv

-----------------------------------------------------------------------------
(* Accounts *)

\* An account is made active.
LEMMA EnableStep ==
    ASSUME CertificatesInv, NEW a \in Accounts, hEnableAccount(a)
    PROVE  CertificatesInv'
  <1>1. /\ issued' = issued /\ ledger' = ledger /\ public' = public /\ loaded' = loaded
        /\ overlap' = overlap /\ cert' = cert /\ crl' = crl /\ run' = run
        /\ late' = late /\ cascaded' = cascaded /\ faults' = faults
    BY Zenon DEF caVars, hEnableAccount
  <1>2. account' = [account EXCEPT ![a] = "active"]
    BY Zenon DEF hEnableAccount
  <1>3. /\ account' \in [Accounts -> {"pending", "active", "disabled", None}]
        /\ \A b \in Accounts : account'[b] = "disabled" => account[b] = "disabled"
    BY <1>2 DEF CertificatesInv, TypeInv
  <1>4. TypeInv'
    BY <1>1, <1>3, Zenon DEF CertificatesInv, TypeInv
  <1>5. HandlersInv'
    BY <1>1 DEF CertificatesInv, HandlersInv, HandlerInv
  <1>6. CascadeInv'
    BY <1>1, <1>3 DEF CertificatesInv, CascadeInv, CertificatesOf, Ahead
  <1>7. AloneInv' /\ RevocationReachesCA'
    BY <1>1 DEF CertificatesInv, AloneInv, RevocationReachesCA
  <1>8. CRLInv'
    BY <1>1 DEF CertificatesInv, CRLInv, Covers, Pending, NextCRL
  <1> QED BY <1>4, <1>5, <1>6, <1>7, <1>8, Zenon DEF CertificatesInv

\* The end of hDisableAccount and of hDeleteAccount.
LEMMA FinishStep ==
    ASSUME CertificatesInv, NEW p \in Commands, finishAccount(p)
    PROVE  CertificatesInv'
  <1>1. run[p].pc = "end" /\ run' = [run EXCEPT ![p] = Idle]
    BY Zenon DEF finishAccount, At, Done
  <1>2. run[p].account \in Accounts
    <2>1. HandlerInv(run[p]) /\ run[p].pc \in Cascading
      <3>1. run[p].pc \in Cascading
        BY <1>1 DEF Cascading
      <3> QED BY <3>1, Zenon DEF CertificatesInv, HandlersInv
    <2> QED BY <2>1, Zenon DEF HandlerInv
  <1>3. account' = account \/ \E a \in Accounts : account' = [account EXCEPT ![a] = None]
    BY <1>2, Zenon DEF finishAccount
  <1>4. UNCHANGED <<caVars, cert, cascaded, late, crl>> /\ faults' = faults
    BY Zenon DEF finishAccount
  <1>5. run[p].pc \in {"idle", "issue", "bind", "end"} /\ Idle.pc \in {"idle", "issue"}
    BY <1>1, IdleFacts, Zenon
  <1>6. Idle \in Handler /\ Idle.todo = {} /\ HandlerInv(Idle)
    BY IdleFacts, IdleHandler, Zenon
  <1> QED BY <1>1, <1>3, <1>4, <1>5, <1>6, EndsOrBegins, Zenon

\* hDisableAccount, up to the list of certificates.
LEMMA DisableStep ==
    ASSUME CertificatesInv, NEW p \in Commands, NEW a \in Accounts, NEW delete \in BOOLEAN,
           hDisableAccount(p, a, delete)
    PROVE  CertificatesInv'
  <1>1. PICK q : q = [Idle EXCEPT !.pc = "list", !.account = a, !.delete = delete]
    BY Zenon
  <1>2. q \in Handler /\ q.pc = "list" /\ q.todo = {} /\ q.account = a
    <2>1. "list" \in {"idle", "issue", "bind"} \cup Cascading
      BY DEF Cascading
    <2> QED BY <1>1, <2>1, IdleFacts, Zenon DEF Handler
  <1>3. HandlerInv(q)
    BY <1>2 DEF HandlerInv, Cascading, Revoking
  <1>4. run[p].pc = "idle" /\ run' = [run EXCEPT ![p] = q]
    BY <1>1, Zenon DEF hDisableAccount, Begin, At
  <1>5. UNCHANGED <<issued, ledger, public, loaded, overlap, cert, cascaded, late, crl>>
    BY Zenon DEF hDisableAccount, caVars
  <1>6. \/ account' = [account EXCEPT ![a] = "disabled"] /\ faults' = faults
        \/ account' = account /\ faults' = faults \cup {"row"}
    BY Zenon DEF hDisableAccount, Ignored, Fault
  <1>7. TypeInv /\ HandlersInv /\ CascadeInv /\ AloneInv /\ RevocationReachesCA /\ CRLInv
    BY Zenon DEF CertificatesInv
  <1>8. /\ run[p].pc \notin AtWork /\ run[p].pc \notin PendingSteps /\ run[p].pc # "list"
        /\ run[p].pc \notin {"revoke", "revokeSave"} /\ run[p].pc # "crlSave"
        /\ run[p].pc \notin Revoking \cup {"row"}
        /\ q.pc \notin AtWork /\ q.pc \notin {"crlSave", "swap"} /\ q.pc # "bind"
    BY <1>2, <1>4 DEF AtWork, PendingSteps, Revoking
  <1>9. run[p].todo = {}
    BY <1>7, <1>8, Zenon DEF HandlersInv, HandlerInv
  <1>10. faults \subseteq faults' /\ account' \in [Accounts -> {"pending", "active", "disabled", None}]
    BY <1>6, <1>7, Zenon DEF TypeInv
  <1>11. run'[p] = q /\ run' \in [Commands -> Handler] /\ \A u \in Commands : u # p => run'[u] = run[u]
    BY <1>2, <1>4, <1>7, OneRun, Zenon
  <1>12. TypeInv'
    BY <1>5, <1>7, <1>10, <1>11, Zenon DEF TypeInv
  <1>13. HandlersInv'
    <2>1. loaded'[p] # None <=> q.pc \in AtWork
      BY <1>5, <1>7, <1>8, Zenon DEF HandlersInv
    <2> QED BY <1>2, <1>3, <1>4, <1>5, <1>7, <1>8, <2>1, HandlersStep, Zenon
  <1>14. CascadeInv'
    <2> SUFFICES ASSUME faults' \cap {"crash", "row"} = {}, NEW b \in Accounts, account'[b] = "disabled",
                        NEW t \in CertificatesOf(b)'
                 PROVE  cert'[t].status = "revoked" \/ t \in late' \/ Ahead(b, t)'
      BY Zenon DEF CascadeInv
    <2>1. account' = [account EXCEPT ![a] = "disabled"] /\ faults' = faults
      BY <1>6, Zenon
    <2>2. CASE b = a
      BY <2>2, <1>2, <1>11, Zenon DEF Ahead
    <2>3. CASE b # a
      <3>1. account[b] = "disabled" /\ t \in CertificatesOf(b)
        BY <2>1, <2>3, <1>5, <1>7, Zenon DEF TypeInv, CertificatesOf
      <3>2. cert[t].status = "revoked" \/ t \in late \/ Ahead(b, t)
        BY <2>1, <3>1, <1>7, Zenon DEF CascadeInv
      <3>3. Ahead(b, t) => Ahead(b, t)'
        BY <1>8, <1>9, <1>11, Zenon DEF Ahead
      <3> QED BY <3>2, <3>3, <1>5, Zenon
    <2> QED BY <2>2, <2>3, Zenon
  <1>15. AloneInv'
    BY <1>5, <1>7, AloneStep, Zenon
  <1>16. RevocationReachesCA'
    BY <1>2, <1>4, <1>5, <1>7, <1>8, <1>10, RevocationStep, Zenon
  <1>17. CRLInv'
    BY <1>2, <1>4, <1>5, <1>7, <1>8, <1>10, CRLStep, Zenon
  <1> QED BY <1>12, <1>13, <1>14, <1>15, <1>16, <1>17, Zenon DEF CertificatesInv

-----------------------------------------------------------------------------
(* disableCascade: the loop *)

\* The CRLs stay, and what they cover.
LEMMA CRLKept ==
    ASSUME CRLInv, faults \subseteq faults', overlap => overlap', public' = public, crl' \in {crl, public},
           \A u \in Commands : run'[u].pc \in {"crlSave", "swap"} =>
                                   run[u].pc \in {"crlSave", "swap"} /\ run'[u].crl = run[u].crl,
           ~ overlap' => \A c : Covers(c) => Covers(c)'
    PROVE  CRLInv'
  <1> SUFFICES ASSUME faults' \cap {"crash", "revoke", "crl"} = {} /\ ~ overlap'
               PROVE  /\ Covers(crl)' /\ Covers(public)'
                      /\ \A u \in Commands : run'[u].pc \in {"crlSave", "swap"} => Covers(run[u].crl)'
    BY Zenon DEF CRLInv
  <1>1. /\ Covers(crl) /\ Covers(public)
        /\ \A u \in Commands : run[u].pc \in {"crlSave", "swap"} => Covers(run[u].crl)
    BY Zenon DEF CRLInv
  <1>2. Covers(crl)' /\ Covers(public)'
    <2>1. PICK c : c = crl'
      BY Zenon
    <2>2. PICK d : d = public
      BY Zenon
    <2>3. Covers(c) /\ Covers(d)
      BY <1>1, <2>1, <2>2, Zenon
    <2>4. Covers(c)' /\ Covers(d)'
      BY <2>3, Zenon
    <2> QED BY <2>1, <2>2, <2>4, Zenon DEF Covers
  <1>3. ASSUME NEW u \in Commands, run'[u].pc \in {"crlSave", "swap"} PROVE Covers(run[u].crl)'
    <2>1. PICK c : c = run'[u].crl
      BY Zenon
    <2>2. Covers(c)
      BY <1>1, <1>3, <2>1, Zenon
    <2>3. Covers(c)'
      BY <2>2, Zenon
    <2> QED BY <2>1, <2>3, Zenon DEF Covers
  <1> QED BY <1>2, <1>3, Zenon

\* The row of a certificate becomes revoked, or stays as it is.
LEMMA RevokesRow ==
    ASSUME TypeInv, NEW s \in Serials, cert[s] # None,
           cert' = [cert EXCEPT ![s].status = "revoked"] \/ cert' = cert
    PROVE  /\ cert' \in [Serials -> Certificate \cup {None}]
           /\ \A t \in Serials : cert'[t] # None <=> cert[t] # None
           /\ \A t \in Serials : cert[t] # None => cert'[t].device = cert[t].device
           /\ \A t \in Serials : cert[t].status = "revoked" => cert'[t].status = "revoked"
           /\ cert' # cert => cert'[s].status = "revoked"
  <1>1. CASE cert' = cert
    BY <1>1, Zenon DEF TypeInv
  <1>2. CASE cert' = [cert EXCEPT ![s].status = "revoked"]
    <2>1. cert \in [Serials -> Certificate \cup {None}] /\ cert[s] \in Certificate
      BY Zenon DEF TypeInv
    <2>2. PICK row : row = [cert[s] EXCEPT !.status = "revoked"]
      BY Zenon
    <2>3. row \in Certificate /\ row.status = "revoked" /\ row.device = cert[s].device
      BY <2>1, <2>2, Zenon DEF Certificate
    <2>4. cert' = [cert EXCEPT ![s] = row]
      BY <1>2, <2>2, Zenon
    <2>5. cert'[s] = row /\ \A t \in Serials : t # s => cert'[t] = cert[t]
      BY <2>1, <2>4, Zenon
    <2>6. row # None
      BY <2>3, CertificatesAssumption, Zenon DEF CertificatesAssumption
    <2>7. cert' \in [Serials -> Certificate \cup {None}]
      BY <2>1, <2>3, <2>4, Zenon
    <2> QED BY <2>3, <2>5, <2>6, <2>7, Zenon
  <1> QED BY <1>1, <1>2, Zenon

\* Rows become revoked; the handlers keep what is known of them.
LEMMA RowsStep ==
    ASSUME TypeInv, HandlersInv, run' \in [Commands -> Handler],
           issued' = issued, loaded' = loaded, cascaded \subseteq cascaded',
           \A t \in cascaded' : t \in Serials /\ cert[t] # None,
           \A t \in Serials : cert'[t] # None <=> cert[t] # None,
           \A t \in Serials : cert[t] # None => cert'[t].device = cert[t].device,
           \A u \in Commands :
               \/ run'[u] = run[u]
               \/ HandlerInv(run[u])' /\ run'[u].pc # "bind" /\ run'[u].pc \notin AtWork /\ run[u].pc \notin AtWork
    PROVE  HandlersInv'
  <1>1. ASSUME NEW u \in Commands, run'[u] = run[u] PROVE HandlerInv(run[u])'
    <2>1. PICK r \in Handler : r = run'[u]
      BY Zenon
    <2>2. HandlerInv(r)
      BY <1>1, <2>1, Zenon DEF HandlersInv
    <2>3. r.pc = "bind" => cert'[r.serial] = None
      <3>1. r.pc = "bind" => r.serial \in Serials /\ cert[r.serial] = None
        BY <2>2, Zenon DEF HandlerInv, TypeInv
      <3> QED BY <3>1, Zenon
    <2>4. HandlerInv(r)'
      BY <2>2, <2>3, KeepsHandler, Zenon
    <2> QED BY <2>1, <2>4, Zenon DEF HandlerInv
  <1>2. \A u \in Commands : HandlerInv(run[u])'
    BY <1>1, Zenon
  <1>3. \A u, v \in Commands :
          run'[u].pc = "bind" /\ run'[v].pc = "bind" /\ run'[u].serial = run'[v].serial => u = v
    BY Zenon DEF HandlersInv
  <1>4. \A u \in Commands : loaded'[u] # None <=> run'[u].pc \in AtWork
    BY Zenon DEF HandlersInv
  <1>5. \A t \in Serials : cert'[t] # None => t \in issued'
    BY Zenon DEF HandlersInv
  <1>6. \A t \in cascaded' : t \in Serials /\ cert'[t] # None
    BY Zenon
  <1> QED BY <1>2, <1>3, <1>4, <1>5, <1>6, Zenon DEF HandlersInv

\* The certificates of an account stay its own.
LEMMA SameOwners ==
    ASSUME \A t \in Serials : cert'[t] # None <=> cert[t] # None,
           \A t \in Serials : cert[t] # None => cert'[t].device = cert[t].device,
           NEW a, NEW t \in CertificatesOf(a)'
    PROVE  t \in CertificatesOf(a) /\ t \in Serials
  <1>1. t \in Serials /\ cert'[t] # None /\ Owner[cert'[t].device] = a
    BY Zenon DEF CertificatesOf
  <1> QED BY <1>1, Zenon DEF CertificatesOf

\* hRevoke
LEMMA RevokeStep ==
    ASSUME CertificatesInv, NEW s \in Serials, hRevoke(s)
    PROVE  CertificatesInv'
  <1>1. /\ issued' = issued /\ ledger' = ledger /\ public' = public /\ loaded' = loaded
        /\ overlap' = overlap /\ crl' = crl /\ run' = run /\ account' = account
        /\ late' = late /\ cascaded' = cascaded /\ faults' = faults
    BY Zenon DEF caVars, hRevoke
  <1>2. TypeInv /\ HandlersInv /\ CascadeInv /\ AloneInv /\ RevocationReachesCA /\ CRLInv
    BY Zenon DEF CertificatesInv
  <1>3. cert[s] # None /\ cert' = [cert EXCEPT ![s].status = "revoked"]
    BY Zenon DEF hRevoke
  <1>4. /\ cert' \in [Serials -> Certificate \cup {None}]
        /\ \A t \in Serials : cert'[t] # None <=> cert[t] # None
        /\ \A t \in Serials : cert[t] # None => cert'[t].device = cert[t].device
        /\ \A t \in Serials : cert[t].status = "revoked" => cert'[t].status = "revoked"
    BY <1>2, <1>3, RevokesRow, Zenon
  <1>5. TypeInv'
    BY <1>1, <1>2, <1>4, Zenon DEF TypeInv
  <1>6. \A t \in cascaded : t \in Serials /\ cert[t] # None
    BY <1>2, Zenon DEF HandlersInv
  <1>7. HandlersInv'
    <2>1. run' \in [Commands -> Handler]
      BY <1>1, <1>2, Zenon DEF TypeInv
    <2> QED BY <1>1, <1>2, <1>4, <1>6, <2>1, RowsStep, Zenon
  <1>8. CascadeInv'
    <2> SUFFICES ASSUME faults' \cap {"crash", "row"} = {}, NEW a \in Accounts, account'[a] = "disabled",
                        NEW t \in CertificatesOf(a)'
                 PROVE  cert'[t].status = "revoked" \/ t \in late' \/ Ahead(a, t)'
      BY Zenon DEF CascadeInv
    <2>1. t \in CertificatesOf(a) /\ t \in Serials
      BY <1>4, SameOwners, Zenon
    <2>2. cert[t].status = "revoked" \/ t \in late \/ Ahead(a, t)
      BY <2>1, <1>1, <1>2, Zenon DEF CascadeInv
    <2>3. Ahead(a, t) => Ahead(a, t)'
      BY <1>1, Zenon DEF Ahead
    <2> QED BY <2>1, <2>2, <2>3, <1>1, <1>4, Zenon
  <1>9. AloneInv' /\ RevocationReachesCA'
    BY <1>1, <1>2 DEF AloneInv, RevocationReachesCA
  <1>10. CRLInv'
    <2>1. ASSUME NEW c, Covers(c) PROVE Covers(c)'
      <3>1. \A t \in cascaded : cert'[t].device = cert[t].device
        BY <1>4, <1>6, Zenon
      <3>2. \A t \in cascaded : Pending(t) => Pending(t)'
        BY <1>1, <3>1, Zenon DEF Pending
      <3>3. NextCRL(ledger)' = NextCRL(ledger)
        BY <1>1, Zenon DEF NextCRL
      <3> QED BY <2>1, <3>2, <3>3, <1>1, Zenon DEF Covers
    <2> QED BY <1>1, <1>2, <2>1, CRLKept, Zenon
  <1> QED BY <1>5, <1>7, <1>8, <1>9, <1>10, Zenon DEF CertificatesInv

\* hImportCRL
LEMMA ImportStep ==
    ASSUME CertificatesInv, hImportCRL
    PROVE  CertificatesInv'
  <1>1. /\ issued' = issued /\ ledger' = ledger /\ public' = public /\ loaded' = loaded
        /\ overlap' = overlap /\ cert' = cert /\ crl' = public /\ run' = run /\ account' = account
        /\ late' = late /\ cascaded' = cascaded /\ faults' = faults
    BY Zenon DEF caVars, rowVars, hImportCRL
  <1>2. TypeInv'
    BY <1>1, Zenon DEF CertificatesInv, TypeInv
  <1>3. HandlersInv'
    BY <1>1 DEF CertificatesInv, HandlersInv, HandlerInv
  <1>4. CascadeInv'
    BY <1>1 DEF CertificatesInv, CascadeInv, CertificatesOf, Ahead
  <1>5. AloneInv' /\ RevocationReachesCA'
    BY <1>1 DEF CertificatesInv, AloneInv, RevocationReachesCA
  <1>6. CRLInv'
    <2>1. ASSUME NEW c, Covers(c) PROVE Covers(c)'
      BY <1>1, <2>1 DEF Covers, Pending, NextCRL
    <2> QED BY <1>1, <2>1, CRLKept, Zenon DEF CertificatesInv
  <1> QED BY <1>2, <1>3, <1>4, <1>5, <1>6, Zenon DEF CertificatesInv

\* A handler of a cascade goes to another step of it with what it has in hand.
LEMMA GoesOn ==
    ASSUME CertificatesInv, NEW p \in Commands, NEW x \in Cascading, NEW q, q = [run[p] EXCEPT !.pc = x],
           run[p].pc \in Cascading, x = "row" => run[p].todo # {},
           run[p].todo # {} => x \in Revoking \cup {"row"},
           x \in Revoking => run[p].pc \in Revoking
    PROVE  /\ q \in Handler /\ q.pc = x /\ q.account = run[p].account /\ q.serial = run[p].serial
           /\ q.todo = run[p].todo /\ q.revoked = run[p].revoked /\ q.crl = run[p].crl
           /\ HandlerInv(q) /\ q.pc # "bind"
  <1>1. run[p] \in Handler /\ HandlerInv(run[p])
    BY HandlerFields, Zenon DEF CertificatesInv, HandlersInv
  <1>2. /\ q \in Handler /\ q.pc = x /\ q.account = run[p].account /\ q.serial = run[p].serial
        /\ q.todo = run[p].todo /\ q.revoked = run[p].revoked /\ q.crl = run[p].crl
    <2>1. x \in {"idle", "issue", "bind"} \cup Cascading
      BY Zenon
    <2> QED BY <1>1, <2>1, Zenon DEF Handler
  <1>3. x # "bind" /\ x # "issue"
    BY DEF Cascading
  <1>4. HandlerInv(q)
    BY <1>1, <1>2, <1>3, Zenon DEF HandlerInv
  <1> QED BY <1>2, <1>3, <1>4, Zenon

\* CertificatesByAccount
LEMMA ListStep ==
    ASSUME CertificatesInv, NEW p \in Commands, list(p)
    PROVE  CertificatesInv'
  <1>1. PICK todo : todo = {s \in CertificatesOf(run[p].account) : cert[s].status = "active"}
    BY Zenon
  <1>2. PICK x : x = IF todo = {} THEN "end" ELSE "row"
    BY Zenon
  <1>3. PICK q : q = [run[p] EXCEPT !.todo = todo, !.pc = x]
    BY Zenon
  <1>4. run[p].pc = "list" /\ run' = [run EXCEPT ![p] = q]
    BY <1>1, <1>2, <1>3, Zenon DEF list, At
  <1>5. UNCHANGED <<issued, ledger, public, loaded, overlap, account, cert, cascaded, late, crl, faults>>
    BY Zenon DEF list, caVars, rowVars
  <1>6. TypeInv /\ HandlersInv /\ CascadeInv /\ AloneInv /\ RevocationReachesCA /\ CRLInv
    BY Zenon DEF CertificatesInv
  <1>7. /\ todo \subseteq Serials /\ x \in {"end", "row"} /\ (x = "row" <=> todo # {})
        /\ \A s \in todo : cert[s] # None /\ Owner[cert[s].device] = run[p].account
    BY <1>1, <1>2 DEF CertificatesOf
  <1>8. run[p] \in Handler /\ HandlerInv(run[p]) /\ run[p].account \in Accounts
    <2>1. run[p].pc \in Cascading
      BY <1>4 DEF Cascading
    <2> QED BY <1>6, <2>1, HandlerFields, Zenon DEF HandlersInv, HandlerInv
  <1>9. q \in Handler /\ q.pc = x /\ q.todo = todo /\ q.account = run[p].account
    <2>1. x \in {"idle", "issue", "bind"} \cup Cascading
      BY <1>7 DEF Cascading
    <2> QED BY <1>3, <1>7, <1>8, <2>1, Zenon DEF Handler
  <1>10. HandlerInv(q)
    <2>1. x # "issue" /\ x # "bind" /\ x \notin Revoking
      BY <1>7 DEF Revoking
    <2> QED BY <2>1, <1>7, <1>8, <1>9, Zenon DEF HandlerInv
  <1>11. /\ run[p].pc \notin AtWork /\ run[p].pc \notin PendingSteps
         /\ run[p].pc \notin {"revoke", "revokeSave"} /\ run[p].pc # "crlSave"
         /\ q.pc \notin AtWork /\ q.pc \notin {"crlSave", "swap"} /\ q.pc # "bind"
    BY <1>4, <1>7, <1>9 DEF AtWork, PendingSteps
  <1>12. run'[p] = q /\ run' \in [Commands -> Handler] /\ \A u \in Commands : u # p => run'[u] = run[u]
    BY <1>4, <1>6, <1>9, OneRun, Zenon
  <1>13. TypeInv'
    BY <1>5, <1>6, <1>12, Zenon DEF TypeInv
  <1>14. HandlersInv'
    <2>1. loaded'[p] # None <=> q.pc \in AtWork
      BY <1>5, <1>6, <1>11, Zenon DEF HandlersInv
    <2> QED BY <1>4, <1>5, <1>6, <1>9, <1>10, <1>11, <2>1, HandlersStep, Zenon
  <1>15. CascadeInv'
    <2> SUFFICES ASSUME faults' \cap {"crash", "row"} = {}, NEW a \in Accounts, account'[a] = "disabled",
                        NEW t \in CertificatesOf(a)'
                 PROVE  cert'[t].status = "revoked" \/ t \in late' \/ Ahead(a, t)'
      BY Zenon DEF CascadeInv
    <2>1. t \in CertificatesOf(a) /\ t \in Serials /\ cert[t] # None
      BY <1>5, Zenon DEF CertificatesOf
    <2>2. cert[t].status = "revoked" \/ t \in late \/ Ahead(a, t)
      BY <2>1, <1>5, <1>6, Zenon DEF CascadeInv
    <2>3. CASE Ahead(a, t)
      <3>1. PICK u \in Commands : run[u].account = a /\ (run[u].pc = "list" \/ t \in run[u].todo)
        BY <2>3, Zenon DEF Ahead
      <3>2. CASE u # p
        BY <3>1, <3>2, <1>12, Zenon DEF Ahead
      <3>3. CASE u = p
        <4>1. cert[t].status \in {"active", "revoked"}
          <5>1. cert[t] \in Certificate
            BY <2>1, <1>6, Zenon DEF TypeInv
          <5> QED BY <5>1, Zenon DEF Certificate
        <4>2. CASE cert[t].status = "active"
          <5>1. t \in todo /\ run[p].account = a
            BY <2>1, <3>1, <3>3, <4>2, <1>1, Zenon
          <5> QED BY <5>1, <1>9, <1>12, Zenon DEF Ahead
        <4>3. CASE cert[t].status = "revoked"
          BY <4>3, <1>5, Zenon
        <4> QED BY <4>1, <4>2, <4>3, Zenon
      <3> QED BY <3>2, <3>3, Zenon
    <2> QED BY <2>2, <2>3, <1>5, Zenon
  <1>16. AloneInv'
    BY <1>5, <1>6, AloneStep, Zenon
  <1>17. RevocationReachesCA'
    BY <1>4, <1>5, <1>6, <1>9, <1>11, RevocationStep, Zenon
  <1>18. CRLInv'
    BY <1>4, <1>5, <1>6, <1>9, <1>11, CRLStep, Zenon
  <1> QED BY <1>13, <1>14, <1>15, <1>16, <1>17, <1>18, Zenon DEF CertificatesInv

\* CertificatesByAccount fails.
LEMMA ListFails ==
    ASSUME CertificatesInv, NEW p \in Commands, listFails(p)
    PROVE  CertificatesInv'
  <1>1. PICK q : q = [run[p] EXCEPT !.pc = "end"]
    BY Zenon
  <1>2. run[p].pc = "list" /\ run' = [run EXCEPT ![p] = q] /\ faults' = faults \cup {"row"}
    BY <1>1, Zenon DEF listFails, At, Goto, Fault
  <1>3. UNCHANGED <<issued, ledger, public, loaded, overlap, account, cert, cascaded, late, crl>>
    BY Zenon DEF listFails, caVars, rowVars
  <1>4. TypeInv /\ HandlersInv /\ CascadeInv /\ AloneInv /\ RevocationReachesCA /\ CRLInv
    BY Zenon DEF CertificatesInv
  <1>5. /\ run[p].pc \in Cascading /\ "end" \in Cascading /\ "end" # "row" /\ "end" \notin Revoking
        /\ run[p].pc \notin Revoking \cup {"row"}
        /\ run[p].pc \notin AtWork /\ run[p].pc \notin PendingSteps
        /\ run[p].pc \notin {"revoke", "revokeSave"} /\ run[p].pc # "crlSave"
        /\ "end" \notin AtWork /\ "end" \notin {"crlSave", "swap"}
    BY <1>2 DEF Cascading, Revoking, AtWork, PendingSteps
  <1>6. run[p].todo = {}
    BY <1>4, <1>5, Zenon DEF HandlersInv, HandlerInv
  <1>7. q \in Handler /\ q.pc = "end" /\ HandlerInv(q) /\ q.pc # "bind"
    BY <1>1, <1>5, <1>6, GoesOn
  <1>8. TypeInv'
    <2>1. run' \in [Commands -> Handler]
      BY <1>2, <1>4, <1>7, OneRun, Zenon
    <2> QED BY <1>3, <1>4, <2>1, Zenon DEF TypeInv
  <1>9. HandlersInv'
    <2>1. loaded'[p] # None <=> q.pc \in AtWork
      BY <1>3, <1>4, <1>5, <1>7, Zenon DEF HandlersInv
    <2> QED BY <1>2, <1>3, <1>4, <1>7, <2>1, HandlersStep, Zenon
  <1>10. CascadeInv'
    BY <1>2, Zenon DEF CascadeInv
  <1>11. faults \subseteq faults'
    BY <1>2, Zenon
  <1>12. AloneInv' /\ RevocationReachesCA'
    BY <1>2, <1>3, <1>4, <1>5, <1>7, <1>11, AloneStep, RevocationStep, Zenon
  <1>13. CRLInv'
    BY <1>2, <1>3, <1>4, <1>5, <1>7, <1>11, CRLStep, Zenon
  <1> QED BY <1>8, <1>9, <1>10, <1>12, <1>13, Zenon DEF CertificatesInv

\* The row of a certificate that the cascade takes up.
LEMMA TakeUpStep ==
    ASSUME CertificatesInv, NEW p \in Commands, NEW s \in Serials, RevokeCertificate(p, s)
    PROVE  CertificatesInv'
  <1>1. PICK q : q = [run[p] EXCEPT !.pc = "revoke", !.serial = s, !.todo = @ \ {s}, !.revoked = @ + 1]
    BY Zenon
  <1>2. /\ run[p].pc = "row" /\ s \in run[p].todo /\ run' = [run EXCEPT ![p] = q]
        /\ cascaded' = cascaded \cup {s}
    BY <1>1, Zenon DEF RevokeCertificate, At
  <1>3. UNCHANGED <<issued, ledger, public, loaded, overlap, account, late, crl>>
    BY Zenon DEF RevokeCertificate, caVars
  <1>4. \/ cert' = [cert EXCEPT ![s].status = "revoked"] /\ faults' = faults
        \/ cert' = cert /\ faults' = faults \cup {"row"}
    BY Zenon DEF RevokeCertificate, Ignored, Fault
  <1>5. TypeInv /\ HandlersInv /\ CascadeInv /\ AloneInv /\ RevocationReachesCA /\ CRLInv
    BY Zenon DEF CertificatesInv
  <1>6. run[p] \in Handler /\ HandlerInv(run[p]) /\ run[p].todo \subseteq Serials /\ run[p].revoked \in Nat
    BY <1>5, HandlerFields, Zenon DEF HandlersInv
  <1>7. cert[s] # None /\ Owner[cert[s].device] = run[p].account
    BY <1>2, <1>6, Zenon DEF HandlerInv
  <1>8. /\ q \in Handler /\ q.pc = "revoke" /\ q.serial = s /\ q.todo = run[p].todo \ {s}
        /\ q.account = run[p].account /\ q.revoked > 0
    <2>1. "revoke" \in {"idle", "issue", "bind"} \cup Cascading
      BY DEF Cascading
    <2>2. run[p].revoked + 1 \in Nat /\ run[p].revoked + 1 > 0
      BY <1>6
    <2>3. run[p].todo \ {s} \in SUBSET Serials
      BY <1>6, Zenon
    <2> QED BY <1>1, <1>6, <2>1, <2>2, <2>3, Zenon DEF Handler
  <1>9. /\ cert' \in [Serials -> Certificate \cup {None}]
        /\ \A t \in Serials : cert'[t] # None <=> cert[t] # None
        /\ \A t \in Serials : cert[t] # None => cert'[t].device = cert[t].device
        /\ \A t \in Serials : cert[t].status = "revoked" => cert'[t].status = "revoked"
        /\ cert' # cert => cert'[s].status = "revoked"
    BY <1>4, <1>5, <1>7, RevokesRow, Zenon
  <1>10. run'[p] = q /\ run' \in [Commands -> Handler] /\ \A u \in Commands : u # p => run'[u] = run[u]
    BY <1>2, <1>5, <1>8, OneRun, Zenon
  <1>11. TypeInv'
    BY <1>3, <1>5, <1>9, <1>10, Zenon DEF TypeInv
  <1>12. \A t \in cascaded' : t \in Serials /\ cert[t] # None
    BY <1>2, <1>5, <1>7, Zenon DEF HandlersInv
  <1>13. /\ run[p].pc \in Cascading /\ q.pc \notin {"issue", "bind", "row", "crlSave", "swap"}
         /\ q.pc \in Revoking /\ q.pc \in PendingSteps
         /\ q.pc \notin AtWork /\ run[p].pc \notin AtWork /\ run[p].pc \notin {"list", "revoke", "revokeSave", "crlSave"}
    BY <1>2, <1>8 DEF Cascading, Revoking, PendingSteps, AtWork
  <1>14. HandlersInv'
    <2>1. HandlerInv(q)'
      <3>1. \A t \in q.todo : cert'[t] # None /\ Owner[cert'[t].device] = q.account
        <4>1. \A t \in q.todo : t \in Serials /\ cert[t] # None /\ Owner[cert[t].device] = q.account
          BY <1>6, <1>8, Zenon DEF HandlerInv
        <4> QED BY <4>1, <1>9, Zenon
      <3>2. cert'[q.serial] # None /\ Owner[cert'[q.serial].device] = q.account
        BY <1>7, <1>8, <1>9, Zenon
      <3>3. q.serial \in cascaded' /\ q.account \in Accounts
        BY <1>2, <1>6, <1>8, <1>13, Zenon DEF HandlerInv
      <3> QED BY <3>1, <3>2, <3>3, <1>8, <1>13, Zenon DEF HandlerInv
    <2>2. HandlerInv(run[p])' /\ run'[p].pc # "bind" /\ run'[p].pc \notin AtWork
      <3>1. HandlerInv(run[p])'
        BY <2>1, <1>10, Zenon DEF HandlerInv
      <3> QED BY <3>1, <1>10, <1>13, Zenon
    <2>3. cascaded \subseteq cascaded'
      BY <1>2, Zenon
    <2> QED BY <2>2, <2>3, <1>3, <1>5, <1>9, <1>10, <1>12, <1>13, RowsStep, Zenon
  <1>15. CascadeInv'
    <2> SUFFICES ASSUME faults' \cap {"crash", "row"} = {}, NEW a \in Accounts, account'[a] = "disabled",
                        NEW t \in CertificatesOf(a)'
                 PROVE  cert'[t].status = "revoked" \/ t \in late' \/ Ahead(a, t)'
      BY Zenon DEF CascadeInv
    <2>1. t \in CertificatesOf(a) /\ t \in Serials
      BY <1>9, SameOwners, Zenon
    <2>2. cert' = [cert EXCEPT ![s].status = "revoked"] /\ faults' = faults
      BY <1>4, Zenon
    <2>3. cert[t].status = "revoked" \/ t \in late \/ Ahead(a, t)
      BY <2>1, <2>2, <1>3, <1>5, Zenon DEF CascadeInv
    <2>4. cert'[s].status = "revoked"
      <3>1. cert[s] \in Certificate
        BY <1>5, <1>7, Zenon DEF TypeInv
      <3> QED BY <2>2, <3>1, <1>5, Zenon DEF TypeInv, Certificate
    <2>5. CASE t = s
      BY <2>4, <2>5, Zenon
    <2>6. CASE t # s
      <3>1. ASSUME Ahead(a, t) PROVE Ahead(a, t)'
        <4>1. PICK u \in Commands : run[u].account = a /\ (run[u].pc = "list" \/ t \in run[u].todo)
          BY <3>1, Zenon DEF Ahead
        <4>2. CASE u # p
          BY <4>1, <4>2, <1>10, Zenon DEF Ahead
        <4>3. CASE u = p
          <5>1. t \in q.todo /\ q.account = a
            BY <2>6, <4>1, <4>3, <1>8, <1>13, Zenon
          <5> QED BY <5>1, <1>10, Zenon DEF Ahead
        <4> QED BY <4>2, <4>3, Zenon
      <3> QED BY <2>1, <2>3, <3>1, <1>3, <1>9, Zenon
    <2> QED BY <2>5, <2>6, Zenon
  <1>16. AloneInv'
    BY <1>3, <1>5, AloneStep, Zenon
  <1>17. RevocationReachesCA'
    <2> SUFFICES ASSUME faults' \cap {"crash", "revoke"} = {}, ~ overlap', NEW t \in cascaded'
                 PROVE  \/ t \in ledger'.revoked
                        \/ \E u \in Commands : run'[u].serial = t /\ run'[u].pc \in {"revoke", "revokeSave"}
      BY Zenon DEF RevocationReachesCA
    <2>1. CASE t = s
      BY <2>1, <1>8, <1>10, Zenon
    <2>2. CASE t # s
      <3>1. t \in cascaded /\ faults \cap {"crash", "revoke"} = {} /\ ~ overlap
        BY <2>2, <1>2, <1>3, <1>4, Zenon
      <3>2. \/ t \in ledger.revoked
            \/ \E u \in Commands : run[u].serial = t /\ run[u].pc \in {"revoke", "revokeSave"}
        BY <3>1, <1>5, Zenon DEF RevocationReachesCA
      <3> QED BY <3>2, <1>2, <1>3, <1>10, <1>13, Zenon
    <2> QED BY <2>1, <2>2, Zenon
  <1>18. CRLInv'
    <2>1. ASSUME NEW c, Covers(c) PROVE Covers(c)'
      <3>1. \A t \in cascaded : Pending(t) => Pending(t)'
        <4>1. \A t \in cascaded : cert'[t].device = cert[t].device
          BY <1>2, <1>9, <1>12, Zenon
        <4> QED BY <4>1, <1>2, <1>5, <1>8, <1>13, PendingStep, Zenon
      <3>2. Pending(s)'
        <4>1. run'[p].account = Owner[cert'[s].device] /\ run'[p].pc \in PendingSteps
          BY <1>7, <1>8, <1>9, <1>10, <1>13, Zenon
        <4> QED BY <4>1, Zenon DEF Pending, PendingSteps
      <3>3. NextCRL(ledger)' = NextCRL(ledger)
        BY <1>3, Zenon DEF NextCRL
      <3>4. (\E u \in Commands : run[u].pc = "crlSave") => \E u \in Commands : run'[u].pc = "crlSave"
        BY <1>10, <1>13, Zenon
      <3> QED BY <2>1, <3>1, <3>2, <3>3, <3>4, <1>2, <1>3, Zenon DEF Covers
    <2>2. \A u \in Commands : run'[u].pc \in {"crlSave", "swap"} =>
                                  run[u].pc \in {"crlSave", "swap"} /\ run'[u].crl = run[u].crl
      BY <1>10, <1>13, Zenon
    <2>3. faults \subseteq faults'
      BY <1>4, Zenon
    <2> QED BY <2>1, <2>2, <2>3, <1>3, <1>5, CRLKept, Zenon
  <1> QED BY <1>11, <1>14, <1>15, <1>16, <1>17, <1>18, Zenon DEF CertificatesInv

\* SetDeviceStatus; a handler that has revoked something goes on or publishes a
\* CRL.
LEMMA LostStep ==
    ASSUME CertificatesInv, NEW p \in Commands, setLost(p)
    PROVE  CertificatesInv'
  <1>1. PICK x : x = IF run[p].todo = {} THEN AfterLoop(run[p]) ELSE "row"
    BY Zenon
  <1>2. PICK q : q = [run[p] EXCEPT !.pc = x]
    BY Zenon
  <1>3. run[p].pc = "lost" /\ run' = [run EXCEPT ![p] = q] /\ faults \subseteq faults'
    BY <1>1, <1>2, Zenon DEF setLost, At, Goto, Ignored, Fault
  <1>4. UNCHANGED <<caVars, cert, cascaded>> /\ late' = late /\ account' = account /\ crl' = crl
    BY Zenon DEF setLost
  <1>5. run[p].pc \in Revoking /\ run[p].pc \in Cascading
    BY <1>3 DEF Revoking, Cascading
  <1>6. run[p].revoked > 0
    BY <1>5, Zenon DEF CertificatesInv, HandlersInv, HandlerInv
  <1>7. x \in {"row", "crl"} /\ (x = "row" <=> run[p].todo # {})
    BY <1>1, <1>6 DEF AfterLoop
  <1>8. x \in Cascading /\ x \notin Revoking /\ (run[p].todo # {} => x \in Revoking \cup {"row"})
    BY <1>7 DEF Cascading, Revoking
  <1>9. /\ q \in Handler /\ q.pc = x /\ q.account = run[p].account /\ q.todo = run[p].todo
        /\ HandlerInv(q) /\ q.pc # "bind"
    BY <1>2, <1>5, <1>7, <1>8, GoesOn
  <1>10. /\ run[p].pc \notin AtWork /\ q.pc \notin AtWork /\ run[p].pc # "list"
         /\ run[p].pc \notin {"revoke", "revokeSave"} /\ q.pc \in PendingSteps /\ run[p].pc # "crlSave"
         /\ q.pc \notin {"crlSave", "swap"}
    BY <1>3, <1>7, <1>9 DEF AtWork, PendingSteps
  <1> QED BY <1>3, <1>4, <1>9, <1>10, QuietStep, Zenon

-----------------------------------------------------------------------------
(* disableCascade: the ca-admin commands *)

\* revokeViaCA and publishCRL load the ledger.
LEMMA LoadsStep ==
    ASSUME CertificatesInv, NEW p \in Commands, NEW x, NEW y,
           \/ x = "revoke" /\ y = "revokeSave"
           \/ x = "crl" /\ y = "crlPublish",
           run[p].pc = x, loadLedger(p), Goto(p, y),
           UNCHANGED <<rowVars, crl, late, cascaded, faults>>
    PROVE  CertificatesInv'
  <1>1. PICK q : q = [run[p] EXCEPT !.pc = y]
    BY Zenon
  <1>2. run' = [run EXCEPT ![p] = q]
    BY <1>1, Zenon DEF Goto
  <1>3. UNCHANGED <<issued, ledger, public, account, cert, cascaded, late, crl, faults>>
    BY Zenon DEF loadLedger, rowVars
  <1>4. TypeInv /\ HandlersInv /\ CascadeInv /\ AloneInv /\ RevocationReachesCA /\ CRLInv
    BY Zenon DEF CertificatesInv
  <1>5. /\ AloneInv' /\ loaded' \in [Commands -> Ledger \cup {None}] /\ overlap' \in BOOLEAN
        /\ loaded'[p] # None /\ \A u \in Commands : u # p => loaded'[u] = loaded[u]
        /\ overlap => overlap'
    BY <1>4, LoadStep, Zenon
  <1>6. /\ run[p].pc \in Cascading /\ y \in Cascading /\ y # "row"
        /\ y \in Revoking <=> run[p].pc \in Revoking
        /\ run[p].pc # "row" /\ run[p].pc # "list" /\ y \in AtWork
        /\ y \in PendingSteps /\ run[p].pc # "crlSave" /\ y \notin {"crlSave", "swap"}
        /\ run[p].pc \in {"revoke", "revokeSave"} => y \in {"revoke", "revokeSave"}
    BY DEF Cascading, Revoking, AtWork, PendingSteps
  <1>7. run[p].todo # {} => y \in Revoking \cup {"row"}
    BY <1>4, <1>6, Zenon DEF HandlersInv, HandlerInv
  <1>8. /\ q \in Handler /\ q.pc = y /\ q.account = run[p].account /\ q.serial = run[p].serial
        /\ q.todo = run[p].todo /\ HandlerInv(q) /\ q.pc # "bind"
    BY <1>1, <1>6, <1>7, GoesOn
  <1>9. TypeInv'
    <2>1. run' \in [Commands -> Handler]
      BY <1>2, <1>4, <1>8, OneRun, Zenon
    <2> QED BY <1>3, <1>4, <1>5, <2>1, Zenon DEF TypeInv
  <1>10. HandlersInv'
    BY <1>2, <1>3, <1>4, <1>5, <1>6, <1>8, HandlersStep, Zenon
  <1>11. CascadeInv'
    BY <1>2, <1>3, <1>4, <1>6, <1>8, CascadeStep, Zenon
  <1>12. RevocationReachesCA'
    BY <1>2, <1>3, <1>4, <1>5, <1>6, <1>8, RevocationStep, Zenon
  <1>13. CRLInv'
    BY <1>2, <1>3, <1>4, <1>5, <1>6, <1>8, CRLStep, Zenon
  <1> QED BY <1>5, <1>9, <1>10, <1>11, <1>12, <1>13, Zenon DEF CertificatesInv

\* A command fails.
LEMMA CommandFails ==
    ASSUME CertificatesInv, NEW p \in Commands, revokeViaCAFails(p) \/ publishCRLFails(p)
    PROVE  CertificatesInv'
  <1>1. PICK y : y = IF run[p].pc \in {"revoke", "revokeSave"} THEN "lost" ELSE "end"
    BY Zenon
  <1>2. PICK q : q = [run[p] EXCEPT !.pc = y]
    BY Zenon
  <1>3. \/ run[p].pc \in {"revoke", "revokeSave"} /\ "revoke" \in faults'
        \/ run[p].pc \in {"crl", "crlPublish", "crlSave", "swap"} /\ "crl" \in faults'
    BY Zenon DEF revokeViaCAFails, publishCRLFails, Fault
  <1>4. run' = [run EXCEPT ![p] = q]
    <2>1. run[p].pc \in {"crl", "crlPublish", "crlSave", "swap"} => run[p].pc \notin {"revoke", "revokeSave"}
      OBVIOUS
    <2> QED BY <1>1, <1>2, <2>1, Zenon DEF revokeViaCAFails, publishCRLFails, Goto
  <1>5. UNCHANGED <<account, cert, cascaded, late, crl>> /\ Killed(p) /\ faults \subseteq faults'
    BY Zenon DEF revokeViaCAFails, publishCRLFails, rowVars, Fault
  <1>6. TypeInv /\ HandlersInv /\ CascadeInv /\ AloneInv /\ RevocationReachesCA /\ CRLInv
    BY Zenon DEF CertificatesInv
  <1>7. /\ AloneInv' /\ loaded' \in [Commands -> Ledger \cup {None}]
        /\ loaded'[p] = None /\ \A u \in Commands : u # p => loaded'[u] = loaded[u]
        /\ UNCHANGED <<issued, ledger, public, overlap>>
    BY <1>5, <1>6, KilledStep, Zenon
  <1>8. /\ run[p].pc \in Cascading /\ y \in Cascading /\ y # "row" /\ y \notin AtWork
        /\ y \in Revoking <=> run[p].pc \in Revoking
        /\ run[p].pc # "row" /\ run[p].pc # "list"
    BY <1>1, <1>3 DEF Cascading, Revoking, AtWork
  <1>9. run[p].todo # {} => y \in Revoking \cup {"row"}
    BY <1>6, <1>8, Zenon DEF HandlersInv, HandlerInv
  <1>10. /\ q \in Handler /\ q.pc = y /\ q.account = run[p].account /\ q.serial = run[p].serial
         /\ q.todo = run[p].todo /\ HandlerInv(q) /\ q.pc # "bind"
    BY <1>2, <1>8, <1>9, GoesOn
  <1>11. TypeInv'
    <2>1. run' \in [Commands -> Handler]
      BY <1>4, <1>6, <1>10, OneRun, Zenon
    <2> QED BY <1>5, <1>6, <1>7, <2>1, Zenon DEF TypeInv
  <1>12. HandlersInv'
    BY <1>4, <1>5, <1>6, <1>7, <1>8, <1>10, HandlersStep, Zenon
  <1>13. CascadeInv'
    BY <1>4, <1>5, <1>6, <1>8, <1>10, CascadeStep, Zenon
  <1>14. CRLInv'
    BY <1>3, Zenon DEF CRLInv
  <1>15. RevocationReachesCA'
    <2>1. CASE "revoke" \in faults'
      BY <2>1, Zenon DEF RevocationReachesCA
    <2>2. CASE run[p].pc \in {"crl", "crlPublish", "crlSave", "swap"}
      <3>1. run[p].pc \notin {"revoke", "revokeSave"}
        BY <2>2
      <3> QED BY <3>1, <1>4, <1>5, <1>6, <1>7, <1>10, RevocationStep, Zenon
    <2> QED BY <1>3, <2>1, <2>2, Zenon
  <1> QED BY <1>7, <1>11, <1>12, <1>13, <1>14, <1>15, Zenon DEF CertificatesInv

\* revokeViaCA saves the ledger.
LEMMA RevokeSaves ==
    ASSUME CertificatesInv, NEW p \in Commands, revokeViaCASave(p)
    PROVE  CertificatesInv'
  <1>1. PICK q : q = [run[p] EXCEPT !.pc = "lost"]
    BY Zenon
  <1>2. run[p].pc = "revokeSave" /\ run' = [run EXCEPT ![p] = q]
    BY <1>1, Zenon DEF revokeViaCASave, At, Goto
  <1>3. UNCHANGED <<account, cert, cascaded, late, crl, faults, public>>
    BY Zenon DEF revokeViaCASave, cmdRevoke, rowVars
  <1>4. TypeInv /\ HandlersInv /\ CascadeInv /\ AloneInv /\ RevocationReachesCA /\ CRLInv
    BY Zenon DEF CertificatesInv
  <1>5. PICK s : s = run[p].serial
    BY Zenon
  <1>6. PICK l : l = IF s \in loaded[p].revoked THEN ledger ELSE [loaded[p] EXCEPT !.revoked = @ \cup {s}]
    BY Zenon
  <1>7. loaded[p] # None /\ saveLedger(p, l)
    BY <1>5, <1>6, Zenon DEF revokeViaCASave, cmdRevoke
  <1>8. /\ run[p].pc \in Cascading /\ "lost" \in Cascading /\ "lost" # "row" /\ "lost" \in Revoking
        /\ run[p].pc \in Revoking /\ run[p].pc # "list" /\ "lost" \notin AtWork /\ run[p].pc \in AtWork
        /\ "lost" \in PendingSteps /\ run[p].pc # "crlSave" /\ "lost" \notin {"crlSave", "swap"}
        /\ run[p].pc \in PendingSteps /\ "crlSave" \in AtWork /\ "lost" \notin {"revoke", "revokeSave"}
    BY <1>2 DEF Cascading, Revoking, AtWork, PendingSteps
  <1>9. /\ q \in Handler /\ q.pc = "lost" /\ q.account = run[p].account /\ q.serial = s
        /\ q.todo = run[p].todo /\ HandlerInv(q) /\ q.pc # "bind"
    BY <1>1, <1>5, <1>8, GoesOn
  <1>10. s \in Serials
    BY <1>4, <1>5, <1>8, Zenon DEF HandlersInv, HandlerInv
  <1>11. loaded[p] \in Ledger /\ ledger \in Ledger
    BY <1>4, <1>7, Zenon DEF TypeInv
  <1>12. /\ l \in Ledger
         /\ loaded[p] = ledger => l.number = ledger.number /\ l.revoked = ledger.revoked \cup {s}
    <2>1. CASE s \in loaded[p].revoked
      BY <2>1, <1>6, <1>11, Zenon DEF Ledger
    <2>2. CASE s \notin loaded[p].revoked
      <3>1. l = [loaded[p] EXCEPT !.revoked = @ \cup {s}]
        BY <2>2, <1>6, Zenon
      <3> QED BY <3>1, <1>10, <1>11, Zenon DEF Ledger
    <2> QED BY <2>1, <2>2, Zenon
  <1>13. /\ AloneInv' /\ loaded' \in [Commands -> Ledger \cup {None}] /\ ledger' = l
         /\ loaded'[p] = None /\ \A u \in Commands : u # p => loaded'[u] = loaded[u]
         /\ UNCHANGED <<issued, overlap>>
    BY <1>4, <1>7, <1>12, SaveStep, Zenon
  <1>14. run'[p] = q /\ run' \in [Commands -> Handler] /\ \A u \in Commands : u # p => run'[u] = run[u]
    BY <1>2, <1>4, <1>9, OneRun, Zenon
  <1>15. TypeInv'
    BY <1>3, <1>4, <1>12, <1>13, <1>14, Zenon DEF TypeInv
  <1>16. HandlersInv'
    BY <1>2, <1>3, <1>4, <1>8, <1>9, <1>13, HandlersStep, Zenon
  <1>17. CascadeInv'
    BY <1>2, <1>3, <1>4, <1>8, <1>9, CascadeStep, Zenon
  <1>18. ~ overlap' => /\ ledger'.number = ledger.number /\ ledger'.revoked = ledger.revoked \cup {s}
                       /\ \A u \in Commands : run[u].pc # "crlSave"
    <2>1. ~ overlap => loaded[p] = ledger
      BY <1>4, <1>7, Zenon DEF AloneInv
    <2>2. ASSUME ~ overlap, NEW u \in Commands, run[u].pc = "crlSave" PROVE FALSE
      <3>1. loaded[u] # None
        BY <2>2, <1>4, <1>8, Zenon DEF HandlersInv
      <3>2. u = p
        BY <2>2, <3>1, <1>4, <1>7, Zenon DEF AloneInv
      <3> QED BY <2>2, <3>2, <1>8, Zenon
    <2> QED BY <2>1, <2>2, <1>12, <1>13, Zenon
  <1>19. RevocationReachesCA'
    <2> SUFFICES ASSUME faults' \cap {"crash", "revoke"} = {}, ~ overlap', NEW t \in cascaded'
                 PROVE  \/ t \in ledger'.revoked
                        \/ \E u \in Commands : run'[u].serial = t /\ run'[u].pc \in {"revoke", "revokeSave"}
      BY Zenon DEF RevocationReachesCA
    <2>1. \/ t \in ledger.revoked
          \/ \E u \in Commands : run[u].serial = t /\ run[u].pc \in {"revoke", "revokeSave"}
      BY <1>3, <1>4, <1>13, Zenon DEF RevocationReachesCA
    <2>2. ledger'.revoked = ledger.revoked \cup {s}
      BY <1>18, Zenon
    <2> QED BY <2>1, <2>2, <1>5, <1>14, Zenon
  <1>20. CRLInv'
    <2>1. ASSUME ~ overlap', NEW c, Covers(c) PROVE Covers(c)'
      <3>1. \A t \in cascaded : Pending(t) => Pending(t)'
        BY <1>2, <1>3, <1>4, <1>8, <1>9, PendingStep, Zenon
      <3>2. c.number <= ledger.number /\ ledger'.number = ledger.number
        BY <2>1, <1>18, Zenon DEF Covers
      <3> QED BY <2>1, <3>1, <3>2, <1>3, Zenon DEF Covers
    <2>2. \A u \in Commands : run'[u].pc \in {"crlSave", "swap"} =>
                                  run[u].pc \in {"crlSave", "swap"} /\ run'[u].crl = run[u].crl
      BY <1>8, <1>9, <1>14, Zenon
    <2> QED BY <2>1, <2>2, <1>3, <1>4, <1>13, CRLKept, Zenon
  <1> QED BY <1>13, <1>15, <1>16, <1>17, <1>19, <1>20, Zenon DEF CertificatesInv

\* The next CRL has the next number.
LEMMA NextNumber ==
    ASSUME NEW l \in Ledger
    PROVE  /\ NextCRL(l) \in Ledger /\ NextCRL(l).number = l.number + 1 /\ NextCRL(l).revoked = l.revoked
           /\ NextCRL(l).number # l.number /\ l.number \in Nat
           /\ \A n \in Nat : n <= l.number => n <= NextCRL(l).number /\ n # NextCRL(l).number
  <1>1. l.number \in Nat /\ l.number + 1 \in Nat
    BY DEF Ledger
  <1>2. NextCRL(l) \in Ledger /\ NextCRL(l).number = l.number + 1 /\ NextCRL(l).revoked = l.revoked
    BY <1>1, Zenon DEF Ledger, NextCRL
  <1> QED BY <1>1, <1>2

\* publishCRL writes a CRL.
LEMMA PublishStep ==
    ASSUME CertificatesInv, NEW p \in Commands, publishCRL(p)
    PROVE  CertificatesInv'
  <1>1. PICK n : n = NextCRL(loaded[p])
    BY Zenon
  <1>2. PICK q : q = [run[p] EXCEPT !.pc = "crlSave", !.crl = n]
    BY Zenon
  <1>3. run[p].pc = "crlPublish" /\ run' = [run EXCEPT ![p] = q] /\ public' = n /\ loaded[p] # None
    BY <1>1, <1>2, Zenon DEF publishCRL, cmdCRLPublish, At
  <1>4. UNCHANGED <<issued, ledger, loaded, overlap, account, cert, cascaded, late, crl, faults>>
    BY Zenon DEF publishCRL, cmdCRLPublish, rowVars
  <1>5. TypeInv /\ HandlersInv /\ CascadeInv /\ AloneInv /\ RevocationReachesCA /\ CRLInv
    BY Zenon DEF CertificatesInv
  <1>6. loaded[p] \in Ledger /\ n \in Ledger
    <2>1. loaded[p] \in Ledger
      BY <1>3, <1>5, Zenon DEF TypeInv
    <2> QED BY <2>1, <1>1, NextNumber, Zenon
  <1>7. run[p] \in Handler /\ HandlerInv(run[p])
    BY <1>5, HandlerFields, Zenon DEF HandlersInv
  <1>8. /\ run[p].pc \in Cascading /\ "crlSave" \in Cascading /\ run[p].pc \notin Revoking \cup {"row"}
        /\ "crlSave" \notin {"issue", "bind", "row"} /\ "crlSave" \notin Revoking
        /\ "crlSave" \in AtWork /\ run[p].pc \in AtWork /\ run[p].pc # "list"
        /\ run[p].pc \notin {"revoke", "revokeSave"} /\ "crlSave" \in PendingSteps
    BY <1>3 DEF Cascading, Revoking, AtWork, PendingSteps
  <1>9. /\ q \in Handler /\ q.pc = "crlSave" /\ q.crl = n /\ q.account = run[p].account
        /\ q.todo = run[p].todo /\ q.serial = run[p].serial
    BY <1>2, <1>6, <1>7, <1>8, Zenon DEF Handler
  <1>10. HandlerInv(q) /\ run[p].todo = {}
    BY <1>7, <1>8, <1>9, Zenon DEF HandlerInv
  <1>11. run'[p] = q /\ run' \in [Commands -> Handler] /\ \A u \in Commands : u # p => run'[u] = run[u]
    BY <1>3, <1>5, <1>9, OneRun, Zenon
  <1>12. TypeInv'
    BY <1>3, <1>4, <1>5, <1>6, <1>11, Zenon DEF TypeInv
  <1>13. HandlersInv'
    BY <1>3, <1>4, <1>5, <1>8, <1>9, <1>10, HandlersStep, Zenon
  <1>14. CascadeInv'
    BY <1>3, <1>4, <1>5, <1>8, <1>9, <1>10, CascadeStep, Zenon
  <1>15. AloneInv'
    BY <1>4, <1>5, AloneStep, Zenon
  <1>16. RevocationReachesCA'
    BY <1>3, <1>4, <1>5, <1>8, <1>9, RevocationStep, Zenon
  <1>17. CRLInv'
    <2> SUFFICES ASSUME faults' \cap {"crash", "revoke", "crl"} = {} /\ ~ overlap'
                 PROVE  /\ Covers(crl)' /\ Covers(public)'
                        /\ \A u \in Commands : run'[u].pc \in {"crlSave", "swap"} => Covers(run[u].crl)'
      BY Zenon DEF CRLInv
    <2>1. /\ Covers(crl)
          /\ \A u \in Commands : run[u].pc \in {"crlSave", "swap"} => Covers(run[u].crl)
      BY <1>4, <1>5, Zenon DEF CRLInv
    <2>2. ASSUME NEW c, Covers(c) PROVE Covers(c)'
      <3>1. \A t \in cascaded : Pending(t) => Pending(t)'
        BY <1>3, <1>4, <1>5, <1>8, <1>9, PendingStep, Zenon
      <3>2. \E u \in Commands : run'[u].pc = "crlSave"
        BY <1>9, <1>11, Zenon
      <3>3. NextCRL(ledger)' = NextCRL(ledger)
        BY <1>4, Zenon DEF NextCRL
      <3> QED BY <2>2, <3>1, <3>2, <3>3, <1>4, Zenon DEF Covers
    <2>3. Covers(n)'
      <3>1. n = NextCRL(ledger) /\ n.number # ledger.number
        <4>1. loaded[p] = ledger
          BY <1>3, <1>4, <1>5, Zenon DEF AloneInv
        <4> QED BY <4>1, <1>1, <1>6, NextNumber, Zenon
      <3>2. n = NextCRL(ledger)' /\ n.number # ledger'.number
        BY <3>1, <1>4, Zenon DEF NextCRL
      <3>3. \E u \in Commands : run'[u].pc = "crlSave"
        BY <1>9, <1>11, Zenon
      <3> QED BY <3>2, <3>3, Zenon DEF Covers
    <2>4. Covers(crl)'
      <3>1. PICK c : c = crl'
        BY Zenon
      <3>2. Covers(c)'
        BY <2>1, <2>2, <3>1, <1>4, Zenon
      <3> QED BY <3>1, <3>2, Zenon DEF Covers
    <2>5. Covers(public)'
      BY <2>3, <1>3, Zenon DEF Covers
    <2>6. ASSUME NEW u \in Commands, run'[u].pc \in {"crlSave", "swap"} PROVE Covers(run[u].crl)'
      <3>1. PICK c : c = run'[u].crl
        BY Zenon
      <3>2. Covers(c)'
        <4>1. CASE u = p
          BY <2>3, <3>1, <4>1, <1>9, <1>11, Zenon
        <4>2. CASE u # p
          BY <2>1, <2>2, <2>6, <3>1, <4>2, <1>11, Zenon
        <4> QED BY <4>1, <4>2, Zenon
      <3> QED BY <3>1, <3>2, Zenon DEF Covers
    <2> QED BY <2>4, <2>5, <2>6, Zenon
  <1> QED BY <1>12, <1>13, <1>14, <1>15, <1>16, <1>17, Zenon DEF CertificatesInv

\* publishCRL saves the number: the CRL that it has written is the newest one, and
\* lists what no other cascade is revoking.
LEMMA PublishSaves ==
    ASSUME CertificatesInv, NEW p \in Commands, publishCRLSave(p)
    PROVE  CertificatesInv'
  <1>1. PICK q : q = [run[p] EXCEPT !.pc = "swap"]
    BY Zenon
  <1>2. PICK n : n = NextCRL(loaded[p])
    BY Zenon
  <1>3. run[p].pc = "crlSave" /\ run' = [run EXCEPT ![p] = q] /\ loaded[p] # None /\ saveLedger(p, n)
    BY <1>1, <1>2, Zenon DEF publishCRLSave, cmdCRLSave, At, Goto
  <1>4. UNCHANGED <<account, cert, cascaded, late, crl, faults, public>>
    BY Zenon DEF publishCRLSave, cmdCRLSave, rowVars
  <1>5. TypeInv /\ HandlersInv /\ CascadeInv /\ AloneInv /\ RevocationReachesCA /\ CRLInv
    BY Zenon DEF CertificatesInv
  <1>6. loaded[p] \in Ledger /\ n \in Ledger /\ ledger \in Ledger
    <2>1. loaded[p] \in Ledger /\ ledger \in Ledger
      BY <1>3, <1>5, Zenon DEF TypeInv
    <2> QED BY <2>1, <1>2, NextNumber, Zenon
  <1>7. /\ run[p].pc \in Cascading /\ "swap" \in Cascading /\ "swap" # "row" /\ "swap" \notin Revoking
        /\ run[p].pc \notin Revoking \cup {"row"} /\ run[p].pc # "list" /\ "swap" \notin AtWork
        /\ run[p].pc \notin {"revoke", "revokeSave"} /\ {"revoke", "revokeSave"} \subseteq Revoking
        /\ {"revoke", "revokeSave"} \subseteq PendingSteps
    BY <1>3 DEF Cascading, Revoking, AtWork, PendingSteps
  <1>8. run[p].todo = {}
    BY <1>5, <1>7, Zenon DEF HandlersInv, HandlerInv
  <1>9. /\ q \in Handler /\ q.pc = "swap" /\ q.account = run[p].account /\ q.serial = run[p].serial
        /\ q.todo = run[p].todo /\ q.crl = run[p].crl /\ HandlerInv(q) /\ q.pc # "bind"
    BY <1>1, <1>7, <1>8, GoesOn
  <1>10. /\ AloneInv' /\ loaded' \in [Commands -> Ledger \cup {None}] /\ ledger' = n
         /\ loaded'[p] = None /\ \A u \in Commands : u # p => loaded'[u] = loaded[u]
         /\ UNCHANGED <<issued, overlap>>
    BY <1>3, <1>5, <1>6, SaveStep, Zenon
  <1>11. run'[p] = q /\ run' \in [Commands -> Handler] /\ \A u \in Commands : u # p => run'[u] = run[u]
    BY <1>3, <1>5, <1>9, OneRun, Zenon
  <1>12. TypeInv'
    BY <1>4, <1>5, <1>6, <1>10, <1>11, Zenon DEF TypeInv
  <1>13. HandlersInv'
    BY <1>3, <1>4, <1>5, <1>7, <1>9, <1>10, HandlersStep, Zenon
  <1>14. CascadeInv'
    BY <1>3, <1>4, <1>5, <1>7, <1>8, <1>9, CascadeStep, Zenon
  <1>15. ~ overlap' => n = NextCRL(ledger) /\ ledger'.revoked = ledger.revoked
    <2>1. ~ overlap' => loaded[p] = ledger
      BY <1>3, <1>5, <1>10, Zenon DEF AloneInv
    <2> QED BY <2>1, <1>2, <1>6, <1>10, NextNumber, Zenon
  <1>16. RevocationReachesCA'
    BY <1>3, <1>4, <1>5, <1>7, <1>9, <1>10, <1>15, RevocationStep, Zenon
  <1>17. CRLInv'
    <2> SUFFICES ASSUME faults' \cap {"crash", "revoke", "crl"} = {} /\ ~ overlap'
                 PROVE  /\ Covers(crl)' /\ Covers(public)'
                        /\ \A u \in Commands : run'[u].pc \in {"crlSave", "swap"} => Covers(run[u].crl)'
      BY Zenon DEF CRLInv
    <2>1. /\ Covers(crl) /\ Covers(public)
          /\ \A u \in Commands : run[u].pc \in {"crlSave", "swap"} => Covers(run[u].crl)
      BY <1>4, <1>5, <1>10, Zenon DEF CRLInv
    <2>2. ASSUME NEW s \in cascaded, s \notin ledger.revoked PROVE Pending(s)'
      <3>1. faults \cap {"crash", "revoke"} = {} /\ ~ overlap
        BY <1>4, <1>10, Zenon
      <3>2. PICK u \in Commands : run[u].serial = s /\ run[u].pc \in {"revoke", "revokeSave"}
        BY <2>2, <3>1, <1>5, Zenon DEF RevocationReachesCA
      <3>3. u # p
        BY <3>2, <1>7, Zenon
      <3>4. run[u].account = Owner[cert[s].device] /\ run[u].pc \in PendingSteps
        BY <3>2, <1>5, <1>7, Zenon DEF HandlersInv, HandlerInv
      <3>5. run'[u].account = Owner[cert'[s].device] /\ run'[u].pc \in PendingSteps
        BY <3>3, <3>4, <1>4, <1>11, Zenon
      <3> QED BY <3>5, Zenon DEF Pending, PendingSteps
    <2>3. ASSUME NEW c \in Ledger, Covers(c) PROVE Covers(c)'
      <3>1. CASE c.number <= ledger.number
        <4>1. c.number <= ledger'.number /\ c.number # ledger'.number
          <5>1. c.number \in Nat
            BY Zenon DEF Ledger
          <5>2. ledger' = NextCRL(ledger)
            BY <1>10, <1>15, Zenon
          <5>3. c.number <= NextCRL(ledger).number /\ c.number # NextCRL(ledger).number
            BY <3>1, <5>1, <1>6, NextNumber, Zenon
          <5> QED BY <5>2, <5>3, Zenon
        <4> QED BY <4>1, Zenon DEF Covers
      <3>2. CASE c = NextCRL(ledger)
        <4>1. c = ledger' /\ c.revoked = ledger.revoked
          BY <3>2, <1>10, <1>15, Zenon
        <4>2. c.number <= ledger'.number
          BY <4>1 DEF Ledger
        <4> QED BY <2>2, <4>1, <4>2, <1>4, Zenon DEF Covers
      <3> QED BY <2>3, <3>1, <3>2, Zenon DEF Covers
    <2>4. Covers(crl)' /\ Covers(public)'
      <3>1. PICK c \in Ledger : c = crl'
        BY <1>12, Zenon DEF TypeInv
      <3>2. PICK d \in Ledger : d = public'
        BY <1>12, Zenon DEF TypeInv
      <3>3. Covers(c)' /\ Covers(d)'
        BY <2>1, <2>3, <3>1, <3>2, <1>4, Zenon
      <3> QED BY <3>1, <3>2, <3>3, Zenon DEF Covers
    <2>5. ASSUME NEW u \in Commands, run'[u].pc \in {"crlSave", "swap"} PROVE Covers(run[u].crl)'
      <3>1. PICK c : c = run[u].crl
        BY Zenon
      <3>2. c \in Ledger
        BY <3>1, <1>5, HandlerFields, Zenon
      <3>3. run'[u].crl = c /\ run[u].pc \in {"crlSave", "swap"}
        BY <2>5, <3>1, <1>3, <1>9, <1>11, Zenon
      <3>4. Covers(c)'
        BY <2>1, <2>3, <3>1, <3>2, <3>3, Zenon
      <3> QED BY <3>3, <3>4, Zenon DEF Covers
    <2> QED BY <2>4, <2>5, Zenon
  <1> QED BY <1>10, <1>12, <1>13, <1>14, <1>16, <1>17, Zenon DEF CertificatesInv

\* The server takes over the CRL of its command.
LEMMA SwapStep ==
    ASSUME CertificatesInv, NEW p \in Commands, swapCRL(p)
    PROVE  CertificatesInv'
  <1>1. PICK q : q = [run[p] EXCEPT !.pc = "end"]
    BY Zenon
  <1>2. run[p].pc = "swap" /\ run' = [run EXCEPT ![p] = q] /\ crl' = run[p].crl
    BY <1>1, Zenon DEF swapCRL, At, Goto
  <1>3. UNCHANGED <<caVars, cert, cascaded>> /\ late' = late /\ account' = account /\ faults' = faults
    BY Zenon DEF swapCRL, rowVars
  <1>4. /\ run[p].pc \in Cascading /\ "end" \in Cascading /\ "end" # "row" /\ "end" \notin Revoking
        /\ run[p].pc \notin Revoking \cup {"row"}
        /\ run[p].pc \notin AtWork /\ "end" \notin AtWork /\ run[p].pc # "list"
        /\ run[p].pc \notin {"revoke", "revokeSave"} /\ run[p].pc \notin PendingSteps
        /\ run[p].pc # "crlSave" /\ "end" \notin {"crlSave", "swap"}
    BY <1>2 DEF Cascading, Revoking, AtWork, PendingSteps
  <1>5. run[p].todo = {}
    BY <1>4, Zenon DEF CertificatesInv, HandlersInv, HandlerInv
  <1>6. q \in Handler /\ q.pc = "end" /\ HandlerInv(q) /\ q.pc # "bind"
    BY <1>1, <1>4, <1>5, GoesOn
  <1> QED BY <1>2, <1>3, <1>4, <1>5, <1>6, QuietStep, Zenon

-----------------------------------------------------------------------------
(* The invariant *)

\* The server is restarted.
LEMMA CrashStep ==
    ASSUME CertificatesInv, Crash
    PROVE  CertificatesInv'
  <1>1. /\ "crash" \in faults' /\ run' = [p \in Commands |-> Idle] /\ loaded' = [p \in Commands |-> None]
        /\ crl' \in {Empty, public}
        /\ UNCHANGED <<issued, ledger, public, overlap, account, cert, cascaded>>
    BY Zenon DEF Crash, Fault, rowVars
  <1>2. TypeInv /\ HandlersInv
    BY Zenon DEF CertificatesInv
  <1>3. \A u \in Commands : run'[u] = Idle /\ loaded'[u] = None
    BY <1>1, Zenon
  <1>4. TypeInv'
    <2>1. run' \in [Commands -> Handler] /\ loaded' \in [Commands -> Ledger \cup {None}]
      BY <1>1, IdleFacts, Zenon
    <2>2. crl' \in Ledger
      BY <1>1, <1>2, IdleFacts, Zenon DEF TypeInv
    <2> QED BY <1>1, <1>2, <2>1, <2>2, Zenon DEF TypeInv
  <1>5. HandlersInv'
    <2>1. ASSUME NEW u \in Commands PROVE HandlerInv(run[u])'
      <3>1. HandlerInv(Idle)'
        BY IdleFacts DEF HandlerInv, Cascading, Revoking
      <3>2. run'[u] = Idle
        BY <1>3, Zenon
      <3> QED BY <3>1, <3>2, Zenon DEF HandlerInv
    <2>2. Idle.pc # "bind" /\ Idle.pc \notin AtWork
      BY IdleFacts DEF AtWork
    <2> QED BY <1>1, <1>2, <1>3, <2>1, <2>2, Zenon DEF HandlersInv
  <1>6. AloneInv'
    BY <1>3, Zenon DEF AloneInv
  <1>7. CascadeInv' /\ RevocationReachesCA' /\ CRLInv'
    BY <1>1, Zenon DEF CascadeInv, RevocationReachesCA, CRLInv
  <1> QED BY <1>4, <1>5, <1>6, <1>7, Zenon DEF CertificatesInv

\* The invariant holds at the start.
LEMMA StartInv ==
    ASSUME Init
    PROVE  CertificatesInv
  <1>1. /\ issued = {} /\ ledger = Empty /\ public = Empty /\ loaded = [p \in Commands |-> None]
        /\ overlap = FALSE /\ account = [a \in Accounts |-> "pending"] /\ cert = [s \in Serials |-> None]
        /\ crl = Empty /\ run = [p \in Commands |-> Idle] /\ cascaded = {}
    BY Zenon DEF Init, CaInit
  <1>2. \A u \in Commands : run[u] = Idle /\ loaded[u] = None
    BY <1>1, Zenon
  <1>3. \A s \in Serials : cert[s] = None
    BY <1>1, Zenon
  <1>4. TypeInv
    BY <1>1, IdleFacts, Zenon DEF TypeInv
  <1>5. HandlersInv
    <2>1. \A u \in Commands : HandlerInv(run[u])
      BY <1>2, IdleFacts, IdleHandler, Zenon
    <2>2. Idle.pc # "bind" /\ Idle.pc \notin AtWork
      BY IdleFacts DEF AtWork
    <2> QED BY <1>1, <1>2, <1>3, <2>1, <2>2, Zenon DEF HandlersInv
  <1>6. CascadeInv
    BY <1>3, Zenon DEF CascadeInv, CertificatesOf
  <1>7. AloneInv /\ RevocationReachesCA
    BY <1>1, <1>2, Zenon DEF AloneInv, RevocationReachesCA
  <1>8. CRLInv
    <2>1. Covers(Empty)
      <3>1. Empty.number <= ledger.number
        BY <1>1 DEF Empty
      <3> QED BY <1>1, <3>1, Zenon DEF Covers
    <2>2. Idle.pc \notin {"crlSave", "swap"}
      BY IdleFacts
    <2> QED BY <1>1, <1>2, <2>1, <2>2, Zenon DEF CRLInv
  <1> QED BY <1>4, <1>5, <1>6, <1>7, <1>8, Zenon DEF CertificatesInv

\* Every step keeps the invariant.
LEMMA StepInv ==
    ASSUME CertificatesInv, [Next]_vars
    PROVE  CertificatesInv'
  <1>1. CASE UNCHANGED vars
    BY <1>1, OtherRows, Zenon DEF vars, rowVars
  <1>2. CASE \E a \in Accounts : hEnableAccount(a)
    BY <1>2, EnableStep, Zenon
  <1>3. CASE \E d \in Devices : hCreateDevice(d)
    BY <1>3, OtherRows, Zenon DEF hCreateDevice
  <1>4. CASE \E s \in Serials : hRevoke(s)
    BY <1>4, RevokeStep, Zenon
  <1>5. ASSUME NEW p \in Commands, Enrol(p) PROVE CertificatesInv'
    BY <1>5, EnrolStep, IssueStep, BindStep, EnrolFails, Zenon DEF Enrol
  <1>6. ASSUME NEW p \in Commands, disableCascade(p) PROVE CertificatesInv'
    <2>1. CASE list(p) \/ listFails(p) \/ \E s \in Serials : RevokeCertificate(p, s)
      BY <2>1, ListStep, ListFails, TakeUpStep, Zenon
    <2>2. CASE revokeViaCALoad(p)
      <3>1. /\ run[p].pc = "revoke" /\ loadLedger(p) /\ Goto(p, "revokeSave")
            /\ UNCHANGED <<rowVars, crl, late, cascaded, faults>>
        BY <2>2, Zenon DEF revokeViaCALoad, At
      <3> QED BY <3>1, LoadsStep
    <2>3. CASE publishCRLLoad(p)
      <3>1. /\ run[p].pc = "crl" /\ loadLedger(p) /\ Goto(p, "crlPublish")
            /\ UNCHANGED <<rowVars, crl, late, cascaded, faults>>
        BY <2>3, Zenon DEF publishCRLLoad, At
      <3> QED BY <3>1, LoadsStep
    <2>4. CASE revokeViaCASave(p) \/ revokeViaCAFails(p) \/ publishCRLFails(p)
      BY <2>4, RevokeSaves, CommandFails, Zenon
    <2>5. CASE setLost(p) \/ publishCRL(p) \/ publishCRLSave(p) \/ swapCRL(p)
      BY <2>5, LostStep, PublishStep, PublishSaves, SwapStep, Zenon
    <2> QED BY <1>6, <2>1, <2>2, <2>3, <2>4, <2>5, Zenon DEF disableCascade
  <1>7. ASSUME NEW p \in Commands, finishAccount(p) PROVE CertificatesInv'
    BY <1>7, FinishStep, Zenon
  <1>8. ASSUME NEW p \in Commands, NEW a \in Accounts, NEW delete \in BOOLEAN, hDisableAccount(p, a, delete)
        PROVE  CertificatesInv'
    BY <1>8, DisableStep, Zenon
  <1>9. CASE hImportCRL \/ Crash
    BY <1>9, ImportStep, CrashStep, Zenon
  <1> QED BY <1>1, <1>2, <1>3, <1>4, <1>5, <1>6, <1>7, <1>8, <1>9, Zenon DEF Next

\* Accounts, certificates, the CA's ledger and the CRLs keep the invariant.
THEOREM CertificatesInvariant == Spec => []CertificatesInv
  <1>1. Init => CertificatesInv
    BY StartInv, Zenon
  <1>2. CertificatesInv /\ [Next]_vars => CertificatesInv'
    BY StepInv, Zenon
  <1> QED BY <1>1, <1>2, PTL DEF Spec

\* disableCascade, once over, has left no certificate of a disabled account active
\* but one that was bound while the account was not active: with any number of
\* handlers in between.
THEOREM CascadeComplete == Spec => []CascadeIsComplete
  <1>1. CertificatesInv => CascadeIsComplete
    <2> SUFFICES ASSUME CertificatesInv, faults \cap {"crash", "row"} = {}, NEW a \in Accounts, Disabled(a),
                        NEW s \in CertificatesOf(a)
                 PROVE  cert[s].status = "revoked" \/ s \in late
      BY Zenon DEF CascadeIsComplete
    <2>1. account[a] = "disabled" /\ \A p \in Commands : run[p].account # a
      BY Zenon DEF Disabled
    <2>2. cert[s].status = "revoked" \/ s \in late \/ Ahead(a, s)
      BY <2>1, Zenon DEF CertificatesInv, CascadeInv
    <2> QED BY <2>1, <2>2, Zenon DEF Ahead
  <1> QED BY <1>1, CertificatesInvariant, PTL

\* What disableCascade revoked is in the ledger of the CA, or is on its way there:
\* with any number of ca-admin commands that do not overlap and do not fail.
THEOREM RevocationsReachCA == Spec => []RevocationReachesCA
  <1>1. CertificatesInv => RevocationReachesCA
    BY Zenon DEF CertificatesInv
  <1> QED BY <1>1, CertificatesInvariant, PTL

\* The CRL of the server, if it has the last number of the CA's, lists every
\* certificate that a cascade revoked and no cascade of its account is still at.
THEOREM NewestCRLComplete == Spec => []NewestCRLIsComplete
  <1>1. CertificatesInv => NewestCRLIsComplete
    <2> SUFFICES ASSUME CertificatesInv, faults \cap {"crash", "revoke", "crl"} = {}, ~ overlap,
                        crl.number = ledger.number, NEW s \in cascaded
                 PROVE  s \in crl.revoked \/ \E p \in Commands : run[p].account = Owner[cert[s].device]
      BY Zenon DEF NewestCRLIsComplete
    <2>1. Covers(crl)
      BY Zenon DEF CertificatesInv, CRLInv
    <2>2. s \in crl.revoked \/ Pending(s)
      BY <2>1, Zenon DEF Covers
    <2> QED BY <2>2, Zenon DEF Pending
  <1> QED BY <1>1, CertificatesInvariant, PTL
=============================================================================
