---------------------------- MODULE AssetCustody ----------------------------
(***************************************************************************)
(* Asset custody end to end: the API handlers (api/internal/httpapi/       *)
(* assets.go), the outbox rows they queue, the asset contract and the      *)
(* audit service's verification of an asset                                *)
(* (audit-service/internal/verify).                                        *)
(*                                                                         *)
(* Unlike appendTransactionEvent, RecordCustodyEvent takes no lock: two    *)
(* requests may read the same newest event, and only the UNIQUE            *)
(* constraints of custody_event decide which of them is recorded.  The     *)
(* outbox worker is the one of module Outbox, reduced to what it does to a *)
(* row: any row that is not a dead letter may be submitted, also again     *)
(* after it was sent, since two workers may hold it.                       *)
(***************************************************************************)
EXTENDS AssetContract

CONSTANTS
    Requests,         \* API requests that record custody events
    RequestStatuses,  \* the values of new_status that clients send
    MaxAttempts,      \* OUTBOX_MAX_ATTEMPTS
    MaxRows,          \* bound: outbox rows
    MaxLost           \* bound: submissions whose reply is lost

ASSUME CustodyAssumption ==
    /\ RequestStatuses \subseteq Log!Lifecycle
    /\ MaxAttempts \in Nat \ {0}
    /\ MaxRows \in Nat
    /\ MaxLost \in Nat

VARIABLES
    dbAssets,   \* asset rows
    dbCustody,  \* custody_event rows
    request,    \* request -> the event it is about to insert, or Idle
    queue,      \* outbox rows in created_at order
    lost,       \* submissions whose reply was lost so far
    revoked,    \* signers of whom a key_reference is revoked
    audit       \* the newest verification, or Idle

apiVars == <<dbAssets, dbCustody, request>>
auditVars == <<revoked, audit>>
vars == <<contractVars, apiVars, queue, lost, auditVars>>

Idle == [asset |-> NoAsset]

Row == [fn : {"CreateAsset", "RecordCustodyEvent"}, arg : Assets \cup CustodyEvent,
        attempts : Nat, status : {"pending", "sent", "dead_letter"}]

CustodyInit ==
    /\ Init
    /\ dbAssets = {}
    /\ dbCustody = {}
    /\ request = [r \in Requests |-> Idle]
    /\ queue = <<>>
    /\ lost = 0
    /\ revoked = {}
    /\ audit = Idle

-----------------------------------------------------------------------------
(* API handlers *)

enqueueOutbox(fnName, payload) ==
    /\ Len(queue) < MaxRows
    /\ queue' = Append(queue, [fn |-> fnName, arg |-> payload, attempts |-> 0,
                               status |-> "pending"])

\* CreateAsset: the asset row and its outbox row in one transaction.
ApiCreateAsset(a) ==
    /\ a \notin dbAssets
    /\ dbAssets' = dbAssets \cup {a}
    /\ enqueueOutbox("CreateAsset", a)
    /\ UNCHANGED <<contractVars, dbCustody, request, lost, auditVars>>

RowsOf(a) == {e \in dbCustody : e.asset = a}

\* The newest custody_event row of an asset, as SELECT ... ORDER BY
\* event_sequence DESC LIMIT 1 finds it.
IsLast(e) == e \in dbCustody /\ \A f \in RowsOf(e.asset) : f.seq <= e.seq

\* SignHybrid over the context "ASSET_CUSTODY_" + new_status and the asset id.
SignHybrid(a, new, hash) == [type |-> new, id |-> a, hash |-> hash]

\* The event that follows last (NoAsset: there is none).
Following(last, a, hash, key, new, signer) ==
    [asset |-> a, hash |-> hash, key |-> key, new |-> new, signer |-> signer,
     seq |-> IF last = NoAsset THEN 1 ELSE last.seq + 1,
     prev |-> IF last = NoAsset THEN NoHash ELSE last.hash,
     sig |-> SignHybrid(a, new, hash)]

\* RecordCustodyEvent up to the INSERT: the asset exists, the newest event is
\* read, the event is numbered and signed.  Neither the lifecycle nor the
\* idempotency key is looked at.
ReadLast(r, a, hash, key, new, signer) ==
    /\ request[r] = Idle
    /\ a \in dbAssets
    /\ \E last \in RowsOf(a) \cup {NoAsset} :
          /\ IF last = NoAsset THEN RowsOf(a) = {} ELSE IsLast(last) /\ last.seq < MaxSequence
          /\ request' = [request EXCEPT ![r] = Following(last, a, hash, key, new, signer)]
    /\ UNCHANGED <<contractVars, dbAssets, dbCustody, queue, lost, auditVars>>

\* UNIQUE (asset_id, event_sequence) and UNIQUE (idempotency_key).
Unique(e) ==
    \A f \in dbCustody : f.key # e.key /\ ~ (f.asset = e.asset /\ f.seq = e.seq)

\* A faulty variant without the constraint on the sequence number.
InsertKeyOnly(r) ==
    /\ request[r] # Idle
    /\ \A f \in dbCustody : f.key # request[r].key
    /\ dbCustody' = dbCustody \cup {request[r]}
    /\ enqueueOutbox("RecordCustodyEvent", request[r])
    /\ request' = [request EXCEPT ![r] = Idle]
    /\ UNCHANGED <<contractVars, dbAssets, lost, auditVars>>

\* The INSERT and the outbox row are committed together.
Insert(r) ==
    /\ request[r] # Idle
    /\ Unique(request[r])
    /\ dbCustody' = dbCustody \cup {request[r]}
    /\ enqueueOutbox("RecordCustodyEvent", request[r])
    /\ request' = [request EXCEPT ![r] = Idle]
    /\ UNCHANGED <<contractVars, dbAssets, lost, auditVars>>

\* A constraint is violated, or anything else fails before the commit: the
\* transaction is rolled back and the client gets an error.
RollBack(r) ==
    /\ request[r] # Idle
    /\ request' = [request EXCEPT ![r] = Idle]
    /\ UNCHANGED <<contractVars, dbAssets, dbCustody, queue, lost, auditVars>>

-----------------------------------------------------------------------------
(* The outbox worker *)

Accepts(row) ==
    \/ row.fn = "CreateAsset" /\ asset[row.arg] = NoAsset
    \/ row.fn = "RecordCustodyEvent" /\ RecordAccepts(row.arg)

Invoke(row) ==
    \/ row.fn = "CreateAsset" /\ CreateAsset(row.arg)
    \/ row.fn = "RecordCustodyEvent" /\ RecordCustodyEvent(row.arg)

Submitted(i) == i \in DOMAIN queue /\ queue[i].status # "dead_letter"

markFailed(i) ==
    queue' = [queue EXCEPT
        ![i].status = IF queue[i].attempts + 1 >= MaxAttempts THEN "dead_letter" ELSE "pending",
        ![i].attempts = queue[i].attempts + 1]

SubmitCommitted(i) ==
    /\ Submitted(i)
    /\ Invoke(queue[i])
    /\ queue' = [queue EXCEPT ![i].status = "sent"]
    /\ UNCHANGED <<apiVars, lost, auditVars>>

SubmitRefused(i) ==
    /\ Submitted(i)
    /\ ~ Accepts(queue[i])
    /\ markFailed(i)
    /\ UNCHANGED <<contractVars, apiVars, lost, auditVars>>

\* The invocation commits, the worker sees an error.
SubmitReplyLost(i) ==
    /\ Submitted(i)
    /\ lost < MaxLost
    /\ lost' = lost + 1
    /\ Invoke(queue[i])
    /\ markFailed(i)
    /\ UNCHANGED <<apiVars, auditVars>>

-----------------------------------------------------------------------------
(* The audit service *)

\* A key is marked revoked in key_reference; nothing in the code takes that back.
RevokeKey(s) ==
    /\ s \notin revoked
    /\ revoked' = revoked \cup {s}
    /\ UNCHANGED <<contractVars, apiVars, queue, lost, audit>>

\* The loop has gone through the history: the receipt is returned.
Finished == audit.n > Len(audit.history)

\* Verifier.Asset starts with the whole history, from the ledger.  before is
\* kept to judge the receipt by.
AuditBegin(a) ==
    /\ audit # Idle => Finished
    /\ audit' = [asset |-> a, history |-> GetCustodyHistory(a), n |-> 1,
                 prev |-> NoHash, valid |-> TRUE, before |-> revoked]
    /\ UNCHANGED <<contractVars, apiVars, queue, lost, revoked>>

\* VerifyHybridWithHash recomputes what was signed from the event itself.
SignatureValid(a, e) == e.sig = [type |-> e.new, id |-> a, hash |-> e.hash]

\* A faulty variant: the revocation status is looked up but not used.
EventValidRevoked(a, e, prev) ==
    /\ e.prev = prev
    /\ SignatureValid(a, e)

\* lookupKey: whether a key of the signer is revoked at this moment.
lookupKey(signer) == signer \in revoked

EventValid(a, e, prev) ==
    /\ e.prev = prev
    /\ SignatureValid(a, e)
    /\ ~ lookupKey(e.signer)

\* One turn of the loop: the keys are looked up in Postgres now.
AuditEvent ==
    /\ audit # Idle
    /\ ~ Finished
    /\ LET e == audit.history[audit.n] IN
       audit' = [audit EXCEPT !.n = @ + 1, !.prev = e.hash,
                              !.valid = @ /\ EventValid(audit.asset, e, audit.prev)]
    /\ UNCHANGED <<contractVars, apiVars, queue, lost, revoked>>

-----------------------------------------------------------------------------
CustodyNext ==
    \/ \E a \in Assets : ApiCreateAsset(a) \/ AuditBegin(a)
    \/ \E r \in Requests :
          \/ Insert(r)
          \/ RollBack(r)
          \/ \E a \in Assets, h \in Hashes, k \in Keys, new \in RequestStatuses, s \in Signers :
                ReadLast(r, a, h, k, new, s)
    \/ \E i \in 1..MaxRows : SubmitCommitted(i) \/ SubmitRefused(i) \/ SubmitReplyLost(i)
    \/ \E s \in Signers : RevokeKey(s)
    \/ AuditEvent

CustodySpec == CustodyInit /\ [][CustodyNext]_vars

-----------------------------------------------------------------------------
(* Properties *)

\* Although requests number their events without a lock, Postgres holds one
\* unbroken chain per asset (one event for each number from 1 on, each with the
\* hash of the one before it), and the ledger holds a beginning of that chain,
\* whatever is refused, resubmitted or given up as a dead letter.
LedgerFollowsDatabase ==
    \A a \in Assets :
        /\ \A e, f \in RowsOf(a) : /\ f.seq = e.seq => f = e
                                   /\ f.seq = e.seq + 1 => f.prev = e.hash
        /\ \A e \in RowsOf(a) : \A n \in 1..e.seq : \E f \in RowsOf(a) : f.seq = n
        /\ \A n \in 1..Latest(a) : custody[<<a, n>>] \in RowsOf(a)

\* A receipt says what can be said about the history it covers: a valid one
\* covers no event of a signer who was revoked before the verification began,
\* an invalid one does cover an event of a revoked signer, and what was
\* verified is still how the ledger's history begins.
ReceiptIsJustified ==
    audit # Idle /\ Finished =>
        LET by == {audit.history[n].signer : n \in DOMAIN audit.history}
        IN  /\ audit.valid => by \cap audit.before = {}
            /\ ~ audit.valid => by \cap revoked # {}
            /\ \A n \in DOMAIN audit.history : audit.history[n] = custody[<<audit.asset, n>>]
=============================================================================
