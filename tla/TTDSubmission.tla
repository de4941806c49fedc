--------------------------- MODULE TTDSubmission ---------------------------
(***************************************************************************)
(* Signing with the TTD server (ttd/server/internal/api/handlers.go        *)
(* hReserve, hSubmitDocument, verify.go strictVerify): one reservation of  *)
(* one device, submissions of signed PDFs to it, and what happens to the   *)
(* device and its certificates meanwhile.                                  *)
(*                                                                         *)
(* A submission is a sequence of separate store calls (reservation,        *)
(* signature, device, certificate, object, signature, reservation); other  *)
(* submissions, revocations, failures and crashes come in between.         *)
(***************************************************************************)
EXTENDS Integers, FiniteSets

CONSTANTS
    Submissions,   \* requests that can be in progress at the same time
    Bodies,        \* the PDFs that clients submit
    Large,         \* those above MaxVerifyBytes
    Valid,         \* those VerifyPDF accepts, that carry this public id and a
                   \* certificate of this device with the right fingerprint
    Certs,         \* certificates of the device
    SignedWith,    \* the certificate in a body
    None,          \* no row, no object, no body
    MaxStarts,     \* bound: submissions altogether
    MaxFailures    \* bound: failing calls and crashes

\* The rows of the signatures table, with the auxiliary revoked.
Signature == [body : Bodies, revoked : SUBSET Certs, status : {"accepted", "stored_unverified"}]

ASSUME SubmissionAssumption ==
    /\ Large \subseteq Bodies /\ Valid \subseteq Bodies
    /\ SignedWith \in [Bodies -> Certs]
    /\ None \notin Bodies \cup {"active", "revoked", "accepted"} \cup Signature
    /\ MaxStarts \in Nat /\ MaxFailures \in Nat

VARIABLES
    device,       \* DeviceActive or DeviceLost
    cert,         \* status of the certificate rows, None before issuance
    newest,       \* the certificate CertificateByDevice returns, or None
    crl,          \* certificates on the CRL the server uses (s.crl)
    reservation,  \* None, reserved or accepted
    signature,    \* the signature row, or None
    object,       \* the PDF under the reservation's storage key, or None
    sub,          \* the submissions in progress
    acks,         \* auxiliary: bodies whose submission was answered with success
    starts,       \* submissions so far (bound only)
    failures      \* failures so far (bound only)

pkiVars == <<device, cert, newest, crl>>
submissionVars == <<pkiVars, reservation, signature, object, sub, acks, starts, failures>>

\* revoked and listed are auxiliary: the certificate in the body if it had been
\* withdrawn when the submission began, or has been on the CRL ever since.
NoSubmission == [pc |-> "idle", body |-> None, revoked |-> {}, listed |-> {}]

SubmissionInit ==
    /\ device = "active"
    /\ cert = [c \in Certs |-> None]
    /\ newest = None
    /\ crl = {}
    /\ reservation = None
    /\ signature = None
    /\ object = None
    /\ sub = [p \in Submissions |-> NoSubmission]
    /\ acks = {}
    /\ starts = 0
    /\ failures = 0

-----------------------------------------------------------------------------
(* The device and its certificates *)

\* bindIssuedCert: the first certificate, or a renewal; older ones stay active.
IssueCertificate(c) ==
    /\ cert[c] = None
    /\ cert' = [cert EXCEPT ![c] = "active"]
    /\ newest' = c
    /\ UNCHANGED <<device, crl, reservation, signature, object, sub, acks, starts, failures>>

hRevoke(c) ==
    /\ cert[c] # None
    /\ cert' = [cert EXCEPT ![c] = "revoked"]
    /\ UNCHANGED <<device, newest, crl, reservation, signature, object, sub, acks, starts, failures>>

\* Any CRL of the CA replaces the one in use, an older one too.
hImportCRL(list) ==
    /\ list \subseteq {c \in Certs : cert[c] # None}
    /\ crl' = list
    /\ sub' = [p \in Submissions |-> [sub[p] EXCEPT !.listed = @ \cap list]]
    /\ UNCHANGED <<device, cert, newest, reservation, signature, object, acks, starts, failures>>

hReportLost ==
    /\ device = "active"
    /\ device' = "lost"
    /\ UNCHANGED <<cert, newest, crl, reservation, signature, object, sub, acks, starts, failures>>

-----------------------------------------------------------------------------
hReserve ==
    /\ reservation = None
    /\ device = "active"
    /\ newest # None /\ cert[newest] = "active"
    /\ reservation' = "reserved"
    /\ UNCHANGED <<pkiVars, signature, object, sub, acks, starts, failures>>

(* hSubmitDocument *)

At(p, pc) == sub[p].pc = pc
Goto(p, pc) == sub' = [sub EXCEPT ![p].pc = pc]
Answered(p) == sub' = [sub EXCEPT ![p] = NoSubmission]
Success(p, body) == Answered(p) /\ acks' = acks \cup {body}

Fault == failures < MaxFailures /\ failures' = failures + 1

\* The reservation and, when it is accepted, the signature are read.
Start(p, b) ==
    /\ At(p, "idle") /\ starts < MaxStarts
    /\ reservation # None
    /\ starts' = starts + 1
    /\ IF reservation = "accepted" /\ signature # None
       THEN Success(p, signature.body)
       ELSE /\ sub' = [sub EXCEPT ![p] =
                  [pc |-> IF b \in Large THEN "put" ELSE "check", body |-> b,
                   revoked |-> {c \in {SignedWith[b]} : device = "lost" \/ cert[c] = "revoked"},
                   listed |-> crl \cap {SignedWith[b]}]]
            /\ UNCHANGED acks
    /\ UNCHANGED <<pkiVars, reservation, signature, object, failures>>

\* strictVerify up to VerifyPDF: one reservation, one document; active device.
CheckReservation(p) ==
    /\ At(p, "check")
    /\ IF signature = None /\ device = "active" THEN Goto(p, "verify") ELSE Answered(p)
    /\ UNCHANGED <<pkiVars, reservation, signature, object, acks, starts, failures>>

\* VerifyPDF with the CRL of the moment.
VerifyPDF(p) ==
    /\ At(p, "verify")
    /\ IF sub[p].body \in Valid /\ SignedWith[sub[p].body] \notin crl
       THEN Goto(p, "cert") ELSE Answered(p)
    /\ UNCHANGED <<pkiVars, reservation, signature, object, acks, starts, failures>>

\* A faulty variant that leaves revocation to the CRL.
CheckCertificateRegistered(p) ==
    /\ At(p, "cert")
    /\ IF cert[SignedWith[sub[p].body]] # None THEN Goto(p, "put") ELSE Answered(p)
    /\ UNCHANGED <<pkiVars, reservation, signature, object, acks, starts, failures>>

\* The rest of strictVerify: the row of the certificate in the PDF.
CheckCertificate(p) ==
    /\ At(p, "cert")
    /\ IF cert[SignedWith[sub[p].body]] = "active" THEN Goto(p, "put") ELSE Answered(p)
    /\ UNCHANGED <<pkiVars, reservation, signature, object, acks, starts, failures>>

\* PutObject or PutObjectFrom replaces what is under the key, which is made of
\* the public id and the month (submissions of one month are modelled).
PutObject(p) ==
    /\ At(p, "put")
    /\ object' = sub[p].body
    /\ Goto(p, "insert")
    /\ UNCHANGED <<pkiVars, reservation, signature, acks, starts, failures>>

PutObjectFails(p) ==
    /\ At(p, "put") /\ Fault
    /\ Answered(p)
    /\ UNCHANGED <<pkiVars, reservation, signature, object, acks, starts>>

Record(p) ==
    [body |-> sub[p].body, revoked |-> sub[p].revoked \cup sub[p].listed,
     status |-> IF sub[p].body \in Large THEN "stored_unverified" ELSE "accepted"]

InsertConflictIgnored(p) ==
    /\ At(p, "insert")
    /\ signature' = IF signature = None THEN Record(p) ELSE signature
    /\ Goto(p, "finish")
    /\ UNCHANGED <<pkiVars, reservation, object, acks, starts, failures>>

\* CreateSignature: public_id is the primary key; a conflict is answered 409.
Insert(p) ==
    /\ At(p, "insert")
    /\ IF signature = None
       THEN signature' = Record(p) /\ Goto(p, "finish")
       ELSE Answered(p) /\ UNCHANGED signature
    /\ UNCHANGED <<pkiVars, reservation, object, acks, starts, failures>>

\* Any other error of the INSERT is answered 409 too; the row may be there.
InsertFails(p) ==
    /\ At(p, "insert") /\ Fault
    /\ signature' = signature \/ (signature = None /\ signature' = Record(p))
    /\ Answered(p)
    /\ UNCHANGED <<pkiVars, reservation, object, acks, starts>>

\* SetReservationStatus and the answer.
Finish(p) ==
    /\ At(p, "finish")
    /\ reservation' = "accepted"
    /\ Success(p, sub[p].body)
    /\ UNCHANGED <<pkiVars, signature, object, starts, failures>>

\* The error of SetReservationStatus is ignored.
FinishFails(p) ==
    /\ At(p, "finish") /\ Fault
    /\ Success(p, sub[p].body)
    /\ UNCHANGED <<pkiVars, reservation, signature, object, starts>>

\* The process dies; every request in progress is gone.
Crash ==
    /\ \E p \in Submissions : ~ At(p, "idle")
    /\ Fault
    /\ sub' = [p \in Submissions |-> NoSubmission]
    /\ UNCHANGED <<pkiVars, reservation, signature, object, acks, starts>>

-----------------------------------------------------------------------------
Step(p) ==
    \/ CheckReservation(p) \/ VerifyPDF(p) \/ CheckCertificate(p) \/ PutObject(p) \/ Insert(p) \/ Finish(p)

SubmissionNext ==
    \/ \E c \in Certs : IssueCertificate(c) \/ hRevoke(c)
    \/ \E list \in SUBSET Certs : hImportCRL(list)
    \/ hReportLost \/ hReserve
    \/ \E p \in Submissions :
          \/ \E b \in Bodies : Start(p, b)
          \/ Step(p) \/ PutObjectFails(p) \/ InsertFails(p) \/ FinishFails(p)
    \/ Crash

SubmissionSpec == SubmissionInit /\ [][SubmissionNext]_submissionVars

-----------------------------------------------------------------------------
(* Properties *)

\* Rows, objects and requests have their types.
TypeOK ==
    /\ device \in {"active", "lost"}
    /\ cert \in [Certs -> {None, "active", "revoked"}]
    /\ newest \in Certs \cup {None}
    /\ crl \subseteq Certs
    /\ reservation \in {None, "reserved", "accepted"}
    /\ signature \in Signature \cup {None}
    /\ object \in Bodies \cup {None}
    /\ sub \in [Submissions -> [pc : {"idle", "check", "verify", "cert", "put", "insert", "finish"},
                                body : Bodies \cup {None},
                                revoked : SUBSET Certs, listed : SUBSET Certs]]
    /\ acks \subseteq Bodies

\* A record that says "accepted" is of a PDF that passed strictVerify, and its
\* certificate was not revoked and its device not lost when the submission began,
\* nor was the certificate on the CRL throughout: however the submission's reads
\* interleave with revocations, new CRLs, renewals and other submissions.
AcceptedIsVerified ==
    signature # None /\ signature.status = "accepted" =>
        /\ signature.body \in Valid \ Large
        /\ SignedWith[signature.body] \notin signature.revoked

\* What the public verifier and the download find recorded is in the store,
\* after whatever failure or crash: the object goes first.
RecordHasObject ==
    /\ signature # None => object # None
    /\ reservation = "accepted" => signature # None

\* A client that was told its submission succeeded was told the hash of the one
\* recorded document, also when it repeated the submission.
AcksAgree == \A b \in acks : signature # None /\ signature.body = b

=============================================================================
