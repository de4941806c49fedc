--------------------------- MODULE TTDStoreMemory ---------------------------
(***************************************************************************)
(* store.Memory (ttd/server/internal/store/memory.go): one map per table   *)
(* and an index of the accounts by e-mail, every method under one mutex.   *)
(* m is the struct; a method gives its new contents and an error.          *)
(***************************************************************************)
EXTENDS TTDStore

NewMemory ==
    [accounts |-> Empty, byEmail |-> Empty, devices |-> Empty, enrollments |-> Empty,
     certificates |-> Empty, reservations |-> Empty, signatures |-> Empty,
     audit |-> <<>>, objects |-> Empty, super |-> Empty]

-----------------------------------------------------------------------------
(* accounts *)

CreateAccount(m, a) ==
    IF a.email \in DOMAIN m.byEmail THEN Fails(m, "exists")
    ELSE Ok([m EXCEPT !.accounts = Put(@, a.id, WithDefaults(a)),
                      !.byEmail = Put(@, a.email, a.id)])

ListAccounts(m) == RowsIn(m.accounts)

SetAccountStatus(m, id, status) ==
    IF id \notin DOMAIN m.accounts THEN Fails(m, "not found")
    ELSE Ok([m EXCEPT !.accounts[id].status = status])

UpdateAccountProfile(m, id, profile) ==
    IF id \notin DOMAIN m.accounts THEN Fails(m, "not found")
    ELSE Ok([m EXCEPT !.accounts[id].profile = profile])

SetAccountPassword(m, id, hash) ==
    IF id \notin DOMAIN m.accounts THEN Fails(m, "not found")
    ELSE Ok([m EXCEPT !.accounts[id].password = hash])

\* A faulty variant that leaves the index entry behind.
DeleteAccountKeepIndex(m, id) ==
    IF id \notin DOMAIN m.accounts THEN Fails(m, "not found")
    ELSE Ok([m EXCEPT !.accounts = Del(@, id)])

\* The row of super, and whatever refers to the account, stays.
DeleteAccount(m, id) ==
    IF id \notin DOMAIN m.accounts THEN Fails(m, "not found")
    ELSE Ok([m EXCEPT !.accounts = Del(@, id),
                      !.byEmail = Del(@, m.accounts[id].email)])

\* Reads give the set of rows found.
AccountByEmail(m, email) ==
    IF email \in DOMAIN m.byEmail /\ m.byEmail[email] \in DOMAIN m.accounts
    THEN {m.accounts[m.byEmail[email]]} ELSE {}

Account(m, id) == {a \in RowsIn(m.accounts) : a.id = id}

-----------------------------------------------------------------------------
(* devices and enrollments *)

CreateDevice(m, d) == Ok([m EXCEPT !.devices = Put(@, d.id, d)])

Device(m, id) == {d \in RowsIn(m.devices) : d.id = id}

SetDeviceStatus(m, id, status) ==
    IF id \notin DOMAIN m.devices THEN Fails(m, "not found")
    ELSE Ok([m EXCEPT !.devices[id].status = status])

DevicesByAccount(m, id) == {d \in RowsIn(m.devices) : d.account = id}

CreateEnrollment(m, e) == Ok([m EXCEPT !.enrollments = Put(@, e.id, e)])

Enrollment(m, id) == {e \in RowsIn(m.enrollments) : e.id = id}

ListEnrollments(m) == RowsIn(m.enrollments)

SetEnrollmentStatus(m, id, status) ==
    IF id \notin DOMAIN m.enrollments THEN Fails(m, "not found")
    ELSE Ok([m EXCEPT !.enrollments[id].status = status])

-----------------------------------------------------------------------------
(* certificates *)

CreateCertificate(m, c) == Ok([m EXCEPT !.certificates = Put(@, c.id, c)])

Certificate(m, id) == {c \in RowsIn(m.certificates) : c.id = id}

CertificateByDevice(m, id) == Newest({c \in RowsIn(m.certificates) : c.device = id})

CertificatesByAccount(m, id) == {c \in RowsIn(m.certificates) : c.account = id}

CertificateBySerial(m, serial) == {c \in RowsIn(m.certificates) : c.serial = serial}

RevokeCertificate(m, id) ==
    IF id \notin DOMAIN m.certificates THEN Fails(m, "not found")
    ELSE Ok([m EXCEPT !.certificates[id].status = "revoked"])

-----------------------------------------------------------------------------
(* reservations, signatures and objects *)

CreateReservation(m, r) == Ok([m EXCEPT !.reservations = Put(@, r.id, r)])

Reservation(m, id) == {r \in RowsIn(m.reservations) : r.id = id}

SetReservationStatus(m, id, status) ==
    IF id \notin DOMAIN m.reservations THEN Fails(m, "not found")
    ELSE Ok([m EXCEPT !.reservations[id].status = status])

\* A faulty variant that replaces an existing signature.
CreateSignatureUpsert(m, s) == Ok([m EXCEPT !.signatures = Put(@, s.id, s)])

CreateSignature(m, s) ==
    IF s.id \in DOMAIN m.signatures THEN Fails(m, "exists")
    ELSE Ok([m EXCEPT !.signatures = Put(@, s.id, s)])

Signature(m, id) == {s \in RowsIn(m.signatures) : s.id = id}

SignaturesByAccount(m, id) == {s \in RowsIn(m.signatures) : s.account = id}

PutObject(m, key, data) == Ok([m EXCEPT !.objects = Put(@, key, data)])

GetObject(m, key) == IF key \in DOMAIN m.objects THEN {m.objects[key]} ELSE {}

-----------------------------------------------------------------------------
(* audit events and login security *)

AppendEvent(m, ev) == Ok([m EXCEPT !.audit = Append(@, ev)])

\* The newest limit events, oldest first; all of them when limit is 0 or too large.
AuditEvents(m, limit) ==
    LET n == Len(m.audit)
        k == IF limit <= 0 \/ limit > n THEN n ELSE limit
    IN  SubSeq(m.audit, n - k + 1, n)

SuperSecurity(m, id) == IF id \in DOMAIN m.super THEN {m.super[id]} ELSE {}

PutSuperSecurity(m, id, row) == Ok([m EXCEPT !.super = Put(@, id, row)])
=============================================================================
