-------------------------- MODULE TTDStorePostgres --------------------------
(***************************************************************************)
(* store.Postgres (ttd/server/internal/store/postgres.go) with its tables  *)
(* and constraints (store/migrations): tables are sets of rows, an UPDATE  *)
(* is over the rows its WHERE selects, and an INSERT or DELETE that breaks *)
(* a constraint fails.  db is the database; a method gives its new         *)
(* contents and an error.                                                  *)
(***************************************************************************)
EXTENDS TTDStore

CONSTANT AuditDefault   \* the limit AuditEvents falls back to (500)

applyMigrations ==
    [accounts |-> {}, devices |-> {}, enrollments |-> {}, certificates |-> {},
     reservations |-> {}, signatures |-> {}, audit_events |-> <<>>, objects |-> {},
     superadmin_security |-> {}]

WithId(rows, id) == {r \in rows : r.id = id}

\* affected: an UPDATE or DELETE that selected no row is ErrNotFound.
affected(db, rows, new) == IF rows = {} THEN Fails(db, "not found") ELSE Ok(new)

\* An INSERT whose constraints hold; Go callers see one kind of error otherwise.
Inserted(db, holds, new) == IF holds THEN Ok(new) ELSE Fails(db, "exists")

SetStatus(rows, id, status) ==
    {IF r.id = id THEN [r EXCEPT !.status = status] ELSE r : r \in rows}

-----------------------------------------------------------------------------
(* accounts *)

\* UNIQUE (email), and at most one row with role 'superadmin'.
CreateAccount(db, a) ==
    Inserted(db,
        \A b \in db.accounts : b.email # a.email /\ ~ (a.role = "superadmin" /\ b.role = "superadmin"),
        [db EXCEPT !.accounts = @ \cup {WithDefaults(a)}])

ListAccounts(db) == db.accounts

AccountByEmail(db, email) == {a \in db.accounts : a.email = email}

Account(db, id) == WithId(db.accounts, id)

SetAccountStatus(db, id, status) ==
    affected(db, WithId(db.accounts, id), [db EXCEPT !.accounts = SetStatus(@, id, status)])

UpdateAccountProfile(db, id, profile) ==
    affected(db, WithId(db.accounts, id),
        [db EXCEPT !.accounts = {IF a.id = id THEN [a EXCEPT !.profile = profile] ELSE a : a \in @}])

SetAccountPassword(db, id, hash) ==
    affected(db, WithId(db.accounts, id),
        [db EXCEPT !.accounts = {IF a.id = id THEN [a EXCEPT !.password = hash] ELSE a : a \in @}])

\* DeleteAccount is two statements, each committed by itself.
DeleteSecurity(db, id) ==
    Ok([db EXCEPT !.superadmin_security = {s \in @ : s.account # id}])

References(db, id) ==
    \E row \in db.devices \cup db.enrollments \cup db.certificates \cup db.reservations
                \cup db.signatures \cup db.superadmin_security : row.account = id

DeleteAccount(db, id) ==
    IF References(db, id) THEN Fails(db, "exists")
    ELSE affected(db, WithId(db.accounts, id), [db EXCEPT !.accounts = @ \ WithId(@, id)])

-----------------------------------------------------------------------------
(* login security *)

SuperSecurity(db, id) == {s.row : s \in {t \in db.superadmin_security : t.account = id}}

\* INSERT ... ON CONFLICT (account_id) DO UPDATE; the account is a foreign key.
PutSuperSecurity(db, id, row) ==
    Inserted(db, Account(db, id) # {},
        [db EXCEPT !.superadmin_security =
            {s \in @ : s.account # id} \cup {[account |-> id, row |-> row]}])

-----------------------------------------------------------------------------
(* devices and enrollments *)

CreateDevice(db, d) ==
    Inserted(db, Account(db, d.account) # {}, [db EXCEPT !.devices = @ \cup {d}])

Device(db, id) == WithId(db.devices, id)

SetDeviceStatus(db, id, status) ==
    affected(db, WithId(db.devices, id), [db EXCEPT !.devices = SetStatus(@, id, status)])

DevicesByAccount(db, id) == {d \in db.devices : d.account = id}

CreateEnrollment(db, e) ==
    Inserted(db, Account(db, e.account) # {} /\ Device(db, e.device) # {},
        [db EXCEPT !.enrollments = @ \cup {e}])

Enrollment(db, id) == WithId(db.enrollments, id)

ListEnrollments(db) == db.enrollments

SetEnrollmentStatus(db, id, status) ==
    affected(db, WithId(db.enrollments, id), [db EXCEPT !.enrollments = SetStatus(@, id, status)])

-----------------------------------------------------------------------------
(* certificates *)

\* UNIQUE (serial) and three foreign keys.
CreateCertificate(db, c) ==
    Inserted(db,
        /\ \A d \in db.certificates : d.serial # c.serial
        /\ Account(db, c.account) # {} /\ Device(db, c.device) # {}
        /\ Enrollment(db, c.enrollment) # {},
        [db EXCEPT !.certificates = @ \cup {c}])

Certificate(db, id) == WithId(db.certificates, id)

CertificateByDevice(db, id) == Newest({c \in db.certificates : c.device = id})

CertificateBySerial(db, serial) == {c \in db.certificates : c.serial = serial}

CertificatesByAccount(db, id) == {c \in db.certificates : c.account = id}

RevokeCertificate(db, id) ==
    affected(db, WithId(db.certificates, id),
        [db EXCEPT !.certificates = SetStatus(@, id, "revoked")])

-----------------------------------------------------------------------------
(* reservations, signatures, objects and audit events *)

CreateReservation(db, r) ==
    Inserted(db, Account(db, r.account) # {} /\ Device(db, r.device) # {},
        [db EXCEPT !.reservations = @ \cup {r}])

Reservation(db, id) == WithId(db.reservations, id)

SetReservationStatus(db, id, status) ==
    affected(db, WithId(db.reservations, id), [db EXCEPT !.reservations = SetStatus(@, id, status)])

\* PRIMARY KEY (public_id), which also refers to the reservation.
CreateSignature(db, s) ==
    Inserted(db,
        /\ WithId(db.signatures, s.id) = {} /\ Reservation(db, s.id) # {}
        /\ Account(db, s.account) # {} /\ Device(db, s.device) # {},
        [db EXCEPT !.signatures = @ \cup {s}])

Signature(db, id) == WithId(db.signatures, id)

SignaturesByAccount(db, id) == {s \in db.signatures : s.account = id}

\* dbObjects: INSERT ... ON CONFLICT (key) DO UPDATE.
PutObject(db, key, data) ==
    Ok([db EXCEPT !.objects = {o \in @ : o.key # key} \cup {[key |-> key, data |-> data]}])

GetObject(db, key) == {o.data : o \in {p \in db.objects : p.key = key}}

AppendEvent(db, ev) == Ok([db EXCEPT !.audit_events = Append(@, ev)])

\* ORDER BY ts DESC LIMIT, and turned around to oldest first.
AuditEvents(db, limit) ==
    LET n == Len(db.audit_events)
        k == IF limit <= 0 THEN AuditDefault ELSE limit
        newest == [i \in 1..(IF k > n THEN n ELSE k) |-> db.audit_events[n + 1 - i]]
    IN  [i \in DOMAIN newest |-> newest[Len(newest) + 1 - i]]
=============================================================================
