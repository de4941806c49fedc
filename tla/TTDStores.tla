------------------------------ MODULE TTDStores ------------------------------
(***************************************************************************)
(* The two implementations of the TTD server's Store interface, driven by  *)
(* the same calls: "Both store.Memory and store.Postgres satisfy it, so    *)
(* the backend is chosen at startup and nothing else in the package        *)
(* changes" (internal/api/api.go).  A call is one the handlers make: they  *)
(* take fresh random ids, fresh serials from the CA, a device of the same  *)
(* account, and an account that existed when the session was issued, which *)
(* may have been deleted since.  Postgres deletes an account in two        *)
(* statements, and other calls come between them.                          *)
(***************************************************************************)
EXTENDS Integers, Sequences, FiniteSets

CONSTANTS AccountIds, Emails, DeviceIds, EnrollmentIds, CertificateIds, PublicIds,
          Keys, AuditDefault,
          MaxCalls            \* bound on the calls of one behaviour

VARIABLES mem,      \* the Memory struct
          db,       \* the database
          issued,   \* the ids given to rows so far
          pending,  \* the account Postgres is deleting, between its two statements
          parted,   \* accounts in use that Memory deleted and Postgres refused to, and
                    \* those registered since under such an account's e-mail
          answers,  \* the errors of the last call, <<Memory, Postgres>>
          calls

vars == <<mem, db, issued, pending, parted, answers, calls>>

None == "none"

M == INSTANCE TTDStoreMemory
P == INSTANCE TTDStorePostgres

Init ==
    /\ mem = M!NewMemory /\ db = P!applyMigrations
    /\ issued = {} /\ pending = None /\ parted = {}
    /\ answers = <<"nil", "nil">> /\ calls = 0

Call(m, p) ==
    /\ calls < MaxCalls /\ calls' = calls + 1
    /\ mem' = m.state /\ db' = p.state

\* Whether the call is about an account on which the stores can be compared.
Live(id) == id \in DOMAIN mem.accounts /\ id \notin parted

Both(id, m, p) ==
    /\ Call(m, p)
    /\ answers' = IF Live(id) THEN <<m.err, p.err>> ELSE <<"nil", "nil">>
    /\ UNCHANGED <<pending, parted>>

New(id) == id \notin issued /\ issued' = issued \cup {id}

-----------------------------------------------------------------------------
(* The calls *)

\* An e-mail that only one of the stores may still hold.
HeldByParted(email) ==
    \E a \in M!ListAccounts(mem) \cup P!ListAccounts(db) : a.email = email /\ a.id \in parted

\* hRegister, hCreateAdmin and, when there is no super admin yet, ensureSuperAdmin.
CreateAccount(id, email, role) ==
    LET a == [id |-> id, email |-> email, role |-> role, status |-> "", profile |-> "", password |-> "first"]
        m == M!CreateAccount(mem, a)
        p == P!CreateAccount(db, a)
    IN  /\ New(id)
        /\ role = "superadmin" => \A b \in P!ListAccounts(db) : b.role # "superadmin"
        /\ Call(m, p)
        /\ IF HeldByParted(email)
           THEN parted' = parted \cup {id} /\ answers' = <<"nil", "nil">>
           ELSE UNCHANGED parted /\ answers' = <<m.err, p.err>>
        /\ UNCHANGED pending

SetAccountStatus(id, status) ==
    /\ Both(id, M!SetAccountStatus(mem, id, status), P!SetAccountStatus(db, id, status))
    /\ UNCHANGED issued

UpdateAccountProfile(id) ==
    /\ Both(id, M!UpdateAccountProfile(mem, id, "edited"), P!UpdateAccountProfile(db, id, "edited"))
    /\ UNCHANGED issued

SetAccountPassword(id) ==
    /\ Both(id, M!SetAccountPassword(mem, id, "second"), P!SetAccountPassword(db, id, "second"))
    /\ UNCHANGED issued

\* Postgres.DeleteAccount's first statement.
DeleteSecurity(id) ==
    /\ pending = None /\ pending' = id
    /\ Call(M!Ok(mem), P!DeleteSecurity(db, id))
    /\ answers' = <<"nil", "nil">> /\ UNCHANGED <<issued, parted>>

\* Its second statement, and Memory.DeleteAccount.
DeleteAccount(id) ==
    LET m == M!DeleteAccount(mem, id)
        p == P!DeleteAccount(db, id)
    IN  /\ pending = id /\ pending' = None
        /\ Call(m, p)
        /\ parted' = IF P!References(db, id) THEN parted \cup {id} ELSE parted
        /\ answers' = IF P!References(db, id) \/ ~ Live(id) THEN <<"nil", "nil">> ELSE <<m.err, p.err>>
        /\ UNCHANGED issued

PutSuperSecurity(id, row) ==
    /\ id \in issued
    /\ Both(id, M!PutSuperSecurity(mem, id, row), P!PutSuperSecurity(db, id, row))
    /\ UNCHANGED issued

CreateDevice(id, account) ==
    LET d == [id |-> id, account |-> account, status |-> "active"]
    IN  account \in issued /\ New(id) /\ Both(account, M!CreateDevice(mem, d), P!CreateDevice(db, d))

SetDeviceStatus(id) ==
    /\ \E d \in M!Device(mem, id) :
          Both(d.account, M!SetDeviceStatus(mem, id, "lost"), P!SetDeviceStatus(db, id, "lost"))
    /\ UNCHANGED issued

CreateEnrollment(id, device) ==
    \E d \in M!Device(mem, device) :
        LET e == [id |-> id, device |-> device, account |-> d.account, status |-> "submitted"]
        IN  New(id) /\ Both(d.account, M!CreateEnrollment(mem, e), P!CreateEnrollment(db, e))

SetEnrollmentStatus(id) ==
    /\ \E e \in M!Enrollment(mem, id) :
          Both(e.account, M!SetEnrollmentStatus(mem, id, "approved"), P!SetEnrollmentStatus(db, id, "approved"))
    /\ UNCHANGED issued

\* The serial is the CA's, as fresh as the id.
CreateCertificate(id, enrollment, notBefore) ==
    \E e \in M!Enrollment(mem, enrollment) :
        LET c == [id |-> id, enrollment |-> enrollment, device |-> e.device, account |-> e.account,
                  serial |-> id, notBefore |-> notBefore, status |-> "active"]
        IN  New(id) /\ Both(e.account, M!CreateCertificate(mem, c), P!CreateCertificate(db, c))

RevokeCertificate(id) ==
    /\ \E c \in M!Certificate(mem, id) :
          Both(c.account, M!RevokeCertificate(mem, id), P!RevokeCertificate(db, id))
    /\ UNCHANGED issued

CreateReservation(id, device) ==
    \E d \in M!Device(mem, device) :
        LET r == [id |-> id, device |-> device, account |-> d.account, status |-> "reserved"]
        IN  New(id) /\ Both(d.account, M!CreateReservation(mem, r), P!CreateReservation(db, r))

SetReservationStatus(id) ==
    /\ \E r \in M!Reservation(mem, id) :
          Both(r.account, M!SetReservationStatus(mem, id, "used"), P!SetReservationStatus(db, id, "used"))
    /\ UNCHANGED issued

\* Two submissions of one reservation may both come this far.
CreateSignature(id, digest) ==
    /\ \E r \in M!Reservation(mem, id) :
          LET s == [id |-> id, device |-> r.device, account |-> r.account, digest |-> digest]
          IN  Both(r.account, M!CreateSignature(mem, s), P!CreateSignature(db, s))
    /\ UNCHANGED issued

PutObject(key, data) ==
    /\ Call(M!PutObject(mem, key, data), P!PutObject(db, key, data))
    /\ answers' = <<"nil", "nil">> /\ UNCHANGED <<issued, pending, parted>>

\* Append, of an event that names the call it records.
AppendEvent ==
    /\ Call(M!AppendEvent(mem, calls), P!AppendEvent(db, calls))
    /\ answers' = <<"nil", "nil">> /\ UNCHANGED <<issued, pending, parted>>

Next ==
    \/ \E a \in AccountIds :
          \/ \E e \in Emails, role \in {"user", "superadmin"} : CreateAccount(a, e, role)
          \/ SetAccountStatus(a, "disabled") \/ UpdateAccountProfile(a) \/ SetAccountPassword(a)
          \/ DeleteSecurity(a) \/ DeleteAccount(a)
          \/ \E row \in {1, 2} : PutSuperSecurity(a, row)
          \/ \E d \in DeviceIds : CreateDevice(d, a)
    \/ \E d \in DeviceIds :
          \/ SetDeviceStatus(d)
          \/ \E n \in EnrollmentIds : CreateEnrollment(n, d)
          \/ \E r \in PublicIds : CreateReservation(r, d)
    \/ \E n \in EnrollmentIds :
          \/ SetEnrollmentStatus(n)
          \/ \E c \in CertificateIds, t \in {1, 2} : CreateCertificate(c, n, t)
    \/ \E c \in CertificateIds : RevokeCertificate(c)
    \/ \E r \in PublicIds : SetReservationStatus(r) \/ \E h \in {1, 2} : CreateSignature(r, h)
    \/ \E k \in Keys, data \in {1, 2} : PutObject(k, data)
    \/ AppendEvent

Spec == Init /\ [][Next]_vars

-----------------------------------------------------------------------------
(* Properties *)

Shared(rows) == {a \in rows : a.id \notin parted}

\* Rows of accounts that Memory still has and Postgres did not refuse to delete.
Seen(rows) == {r \in rows : Live(r.account)}

\* Every lookup the Store interface offers finds the same rows in both
\* implementations, after any calls, an account deleted and its e-mail registered
\* again included: memory.go's maps and index against postgres.go's tables and
\* constraints.  The one difference is an account in use, which Postgres keeps.
SameAnswers ==
    /\ \A a \in AccountIds \ parted :
          /\ M!Account(mem, a) = P!Account(db, a)
          /\ M!DevicesByAccount(mem, a) # P!DevicesByAccount(db, a) => ~ Live(a)
          /\ M!CertificatesByAccount(mem, a) # P!CertificatesByAccount(db, a) => ~ Live(a)
          /\ M!SignaturesByAccount(mem, a) # P!SignaturesByAccount(db, a) => ~ Live(a)
          /\ M!SuperSecurity(mem, a) # P!SuperSecurity(db, a) => ~ Live(a) \/ pending = a
    /\ \A e \in Emails : Shared(M!AccountByEmail(mem, e)) = Shared(P!AccountByEmail(db, e))
    /\ Shared(M!ListAccounts(mem)) = Shared(P!ListAccounts(db))
    /\ \A d \in DeviceIds :
          /\ Seen(M!Device(mem, d)) = Seen(P!Device(db, d))
          /\ Seen(M!CertificateByDevice(mem, d)) = Seen(P!CertificateByDevice(db, d))
    /\ Seen(M!ListEnrollments(mem)) = Seen(P!ListEnrollments(db))
    /\ \A n \in EnrollmentIds : Seen(M!Enrollment(mem, n)) = Seen(P!Enrollment(db, n))
    /\ \A c \in CertificateIds :
          /\ Seen(M!Certificate(mem, c)) = Seen(P!Certificate(db, c))
          /\ Seen(M!CertificateBySerial(mem, c)) = Seen(P!CertificateBySerial(db, c))
    /\ \A r \in PublicIds :
          /\ Seen(M!Reservation(mem, r)) = Seen(P!Reservation(db, r))
          /\ Seen(M!Signature(mem, r)) = Seen(P!Signature(db, r))
    /\ \A k \in Keys : M!GetObject(mem, k) = P!GetObject(db, k)
    /\ \A limit \in 1..MaxCalls : M!AuditEvents(mem, limit) = P!AuditEvents(db, limit)

\* A call that changes something fails in one implementation exactly when it fails
\* in the other, with the same error (ErrNotFound, or a duplicate), so that a
\* handler answers the same whichever store was chosen at startup.
SameErrors == answers[1] = answers[2]
=============================================================================
