------------------------------- MODULE Outbox -------------------------------
(***************************************************************************)
(* The write path to the ledger: API handlers that write Postgres and an   *)
(* outbox row in one database transaction                                  *)
(* (api/internal/httpapi/transactions.go, events.go, outbox_helper.go),    *)
(* the relay workers (api/internal/outbox/worker.go) and the transaction   *)
(* contract they submit to (TransactionContract).                          *)
(*                                                                         *)
(* A worker claims due rows in a database transaction that it commits      *)
(* BEFORE it submits them, so the row locks are gone while it talks to     *)
(* Fabric: another worker may hold the same rows.  Submitting and writing  *)
(* the outcome back are separate steps; a worker can crash between any two *)
(* of them, and a submission whose reply was lost may still commit later.  *)
(***************************************************************************)
EXTENDS TransactionContract, Sequences

CONSTANTS
    Workers,          \* outbox worker instances
    BatchSize,        \* LIMIT of the claiming query
    MaxAttempts,      \* OUTBOX_MAX_ATTEMPTS
    RequestStatuses,  \* the values of new_status that clients send
    MaxRows,          \* bound: outbox rows written
    MaxFaults         \* bound: crashes, lost replies and failed updates

ASSUME OutboxAssumption ==
    /\ BatchSize \in Nat \ {0}
    /\ MaxAttempts \in Nat \ {0}
    /\ MaxRows \in Nat
    /\ MaxFaults \in Nat
    /\ RequestStatuses \subseteq Statuses \cup {""}
    /\ None \notin Users

VARIABLES
    dbTxn,       \* transaction rows: id -> created_by, or None
    dbEvents,    \* transaction_event rows
    outbox,      \* outbox_event rows, in created_at order
    backoff,     \* rows whose next_attempt_at is still to come
    worker,      \* what each worker is doing
    stamped,     \* transaction_event rows the indexer gave a fabric_tx_id
    inflight,    \* rows whose invocation is with the orderer, reply given up on
    faults       \* faults so far (bound only)

apiVars == <<dbTxn, dbEvents, stamped>>
queueVars == <<outbox, backoff>>
vars == <<contractVars, apiVars, outbox, backoff, worker, inflight, faults>>

\* The arguments of a queued invocation.
CreateArgs == [txn : TxnIds, user : Users]

Arguments == CreateArgs \cup Event \cup Approval

Row == [fn : {"CreateTransaction", "RecordEvent", "Approve"}, arg : Arguments,
        attempts : Nat, status : {"pending", "sent", "dead_letter"}]

\* A claimed row: its position and the attempts read when it was claimed.
Claim == [id : Nat \ {0}, attempts : Nat]

\* locked: the claiming transaction is open; submit: about to submit the
\* first claimed row; ok, err: the reply to that submission.
Worker == [pc : {"idle", "locked", "submit", "ok", "err"}, claim : SUBSET Claim]

OutboxInit ==
    /\ Init
    /\ dbTxn = [t \in TxnIds |-> None]
    /\ dbEvents = {}
    /\ stamped = {}
    /\ outbox = <<>>
    /\ backoff = {}
    /\ worker = [w \in Workers |-> [pc |-> "idle", claim |-> {}]]
    /\ inflight = {}
    /\ faults = 0

-----------------------------------------------------------------------------
(* API handlers: one committed database transaction each. *)

enqueueOutbox(fnName, payload) ==
    /\ Len(outbox) < MaxRows
    /\ outbox' = Append(outbox, [fn |-> fnName, arg |-> payload, attempts |-> 0,
                                 status |-> "pending"])
    /\ UNCHANGED backoff

ApiCreateTransaction(t, user) ==
    /\ dbTxn[t] = None
    /\ dbTxn' = [dbTxn EXCEPT ![t] = user]
    /\ enqueueOutbox("CreateTransaction", [txn |-> t, user |-> user])
    /\ UNCHANGED <<contractVars, dbEvents, stamped, worker, inflight, faults>>

\* e is what appendTransactionEvent makes of a request: it continues the newest
\* transaction_event row of its transaction, or is the first one.
FollowsLast(e) ==
    \/ /\ \A f \in dbEvents : f.txn # e.txn
       /\ e.seq = 1
       /\ e.prev = NoHash
    \/ \E last \in dbEvents :
          /\ last.txn = e.txn
          /\ \A f \in dbEvents : f.txn = e.txn => f.seq <= last.seq
          /\ e.seq = last.seq + 1
          /\ e.prev = last.hash

\* The transaction row is locked FOR UPDATE, so reading the last event and
\* inserting the next one is one step.  A used idempotency key violates the
\* UNIQUE constraint and rolls everything back.  The status asked for is not
\* validated.  SignHybrid fills in the suite and both signatures.
RecordRequest(e) ==
    /\ dbTxn[e.txn] # None
    /\ e.wellFormed
    /\ e.new \in RequestStatuses
    /\ FollowsLast(e)
    /\ \A f \in dbEvents : f.key # e.key

\* Faulty variants: the event and its outbox row are separate writes, and the
\* second one is lost (either order).
ApiRecordEventNoOutbox(e) ==
    /\ RecordRequest(e)
    /\ dbEvents' = dbEvents \cup {e}
    /\ UNCHANGED <<contractVars, dbTxn, stamped, queueVars, worker, inflight, faults>>

ApiRecordEventNoRow(e) ==
    /\ RecordRequest(e)
    /\ enqueueOutbox("RecordEvent", e)
    /\ UNCHANGED <<contractVars, apiVars, worker, inflight, faults>>

ApiRecordEvent(e) ==
    /\ RecordRequest(e)
    /\ dbEvents' = dbEvents \cup {e}
    /\ enqueueOutbox("RecordEvent", e)
    /\ UNCHANGED <<contractVars, dbTxn, stamped, worker, inflight, faults>>

\* ApproveTransaction: the event must be in Postgres; whether it is on the
\* ledger, who created the transaction and earlier decisions are left to the
\* contract.  The approval row is the outbox row's argument.
ApiApproveTransaction(a) ==
    /\ \E e \in dbEvents : e.txn = a.txn /\ e.seq = a.seq
    /\ enqueueOutbox("Approve", a)
    /\ UNCHANGED <<contractVars, apiVars, worker, inflight, faults>>

-----------------------------------------------------------------------------
(* Workers *)

Locked == UNION {{c.id : c \in worker[w].claim} : w \in {v \in Workers : worker[v].pc = "locked"}}

\* SELECT ... WHERE pending AND due ORDER BY created_at LIMIT FOR UPDATE SKIP LOCKED
Due == {i \in DOMAIN outbox : outbox[i].status = "pending"} \ (backoff \cup Locked)

ClaimBatch(w) ==
    /\ worker[w].pc = "idle"
    /\ Due # {}
    /\ worker' = [worker EXCEPT ![w] =
          [pc |-> "locked",
           claim |-> {[id |-> i, attempts |-> outbox[i].attempts] :
                        i \in {j \in Due : Cardinality({k \in Due : k <= j}) <= BatchSize}}]]
    /\ UNCHANGED <<contractVars, apiVars, queueVars, inflight, faults>>

\* tx.Commit: the locks are released, nothing was written.
CommitClaim(w) ==
    /\ worker[w].pc = "locked"
    /\ worker' = [worker EXCEPT ![w].pc = "submit"]
    /\ UNCHANGED <<contractVars, apiVars, queueVars, inflight, faults>>

\* c is the row submitOne is working on: the claimed rows in created_at order.
Current(w, c) ==
    /\ c \in worker[w].claim
    /\ \A d \in worker[w].claim : c.id <= d.id

Accepts(row) ==
    \/ row.fn = "CreateTransaction" /\ header[row.arg.txn] = None
    \/ row.fn = "RecordEvent" /\ RecordEventAccepts(row.arg)
    \/ row.fn = "Approve" /\ ApproveAccepts(row.arg)

\* A faulty variant: a repeated create overwrites the header.
InvokeUpsert(row) ==
    \/ /\ row.fn = "CreateTransaction"
       /\ header' = [header EXCEPT ![row.arg.txn] =
             [createdBy |-> row.arg.user, status |-> "DRAFT", seq |-> 0, hash |-> NoHash]]
       /\ UNCHANGED <<events, idem, approvals>>
    \/ row.fn = "RecordEvent" /\ RecordEvent(row.arg)
    \/ row.fn = "Approve" /\ Approve(row.arg)

Invoke(row) ==
    \/ row.fn = "CreateTransaction" /\ CreateTransaction(row.arg.txn, row.arg.user)
    \/ row.fn = "RecordEvent" /\ RecordEvent(row.arg)
    \/ row.fn = "Approve" /\ Approve(row.arg)

Reply(w, r) == worker' = [worker EXCEPT ![w].pc = r]

\* SubmitTransaction returned nil: endorsed, ordered and committed.
SubmitCommitted(w) ==
    /\ worker[w].pc = "submit"
    /\ \E c \in worker[w].claim : Current(w, c) /\ Invoke(outbox[c.id])
    /\ Reply(w, "ok")
    /\ UNCHANGED <<apiVars, queueVars, inflight, faults>>

\* A faulty variant that ignores the error of SubmitTransaction.
SubmitRefusedIgnored(w) ==
    /\ worker[w].pc = "submit"
    /\ \E c \in worker[w].claim : Current(w, c) /\ ~ Accepts(outbox[c.id])
    /\ Reply(w, "ok")
    /\ UNCHANGED <<contractVars, apiVars, queueVars, inflight, faults>>

\* The contract returned an error.
SubmitRefused(w) ==
    /\ worker[w].pc = "submit"
    /\ \E c \in worker[w].claim : Current(w, c) /\ ~ Accepts(outbox[c.id])
    /\ Reply(w, "err")
    /\ UNCHANGED <<contractVars, apiVars, queueVars, inflight, faults>>

\* No reply: the call failed before anything was ordered, or after, in which
\* case the invocation is still with the orderer.
SubmitFails(w) ==
    /\ worker[w].pc = "submit"
    /\ faults < MaxFaults
    /\ \E c \in worker[w].claim :
          /\ Current(w, c)
          /\ \/ inflight' = inflight
             \/ Accepts(outbox[c.id]) /\ inflight' = inflight \cup {c.id}
    /\ Reply(w, "err")
    /\ faults' = faults + 1
    /\ UNCHANGED <<contractVars, apiVars, queueVars>>

\* An invocation whose caller gave up is validated by the peers after all:
\* committed if what it read is unchanged, marked invalid otherwise.
LateCommit(i) ==
    /\ i \in inflight
    /\ Invoke(outbox[i])
    /\ inflight' = inflight \ {i}
    /\ UNCHANGED <<apiVars, queueVars, worker, faults>>

LateInvalid(i) ==
    /\ i \in inflight
    /\ inflight' = inflight \ {i}
    /\ UNCHANGED <<contractVars, apiVars, queueVars, worker, faults>>

\* On to the next claimed row; the batch ends with the last one.
NextClaimed(w, c) ==
    worker' = [worker EXCEPT ![w] =
        [pc |-> IF worker[w].claim = {c} THEN "idle" ELSE "submit",
         claim |-> worker[w].claim \ {c}]]

\* UPDATE ... SET status = 'sent' WHERE id = $1
MarkSent(w) ==
    /\ worker[w].pc = "ok"
    /\ \E c \in worker[w].claim :
          /\ Current(w, c)
          /\ c.id \notin Locked
          /\ outbox' = [outbox EXCEPT ![c.id].status = "sent"]
          /\ NextClaimed(w, c)
    /\ UNCHANGED <<contractVars, apiVars, backoff, inflight, faults>>

\* Faulty variants of markFailed: the last failure is written as 'sent', or no
\* attempt is ever counted.
MarkFailedAs(w, last, counted) ==
    /\ worker[w].pc = "err"
    /\ \E c \in worker[w].claim :
          /\ Current(w, c)
          /\ outbox' = [outbox EXCEPT
                ![c.id].status = IF c.attempts + counted >= MaxAttempts THEN last ELSE "pending",
                ![c.id].attempts = c.attempts + counted]
          /\ backoff' = backoff \cup {c.id}
          /\ NextClaimed(w, c)
    /\ UNCHANGED <<contractVars, apiVars, inflight, faults>>

markFailedGivesUpSilently(w) == MarkFailedAs(w, "sent", 1)
markFailedUncounted(w) == MarkFailedAs(w, "dead_letter", 0)

\* markFailed with the attempts read at claim time plus one.
markFailed(w) ==
    /\ worker[w].pc = "err"
    /\ \E c \in worker[w].claim :
          /\ Current(w, c)
          /\ c.id \notin Locked
          /\ outbox' = [outbox EXCEPT ![c.id] = [@ EXCEPT
                !.status = IF c.attempts + 1 >= MaxAttempts THEN "dead_letter" ELSE "pending",
                !.attempts = c.attempts + 1]]
          /\ backoff' = backoff \cup {c.id}
          /\ NextClaimed(w, c)
    /\ UNCHANGED <<contractVars, apiVars, inflight, faults>>

\* The UPDATE of MarkSent or markFailed fails: logged, nothing else.
MarkFails(w) ==
    /\ worker[w].pc \in {"ok", "err"}
    /\ faults < MaxFaults
    /\ faults' = faults + 1
    /\ \E c \in worker[w].claim : Current(w, c) /\ NextClaimed(w, c)
    /\ UNCHANGED <<contractVars, apiVars, queueVars, inflight>>

\* The process dies, or the claiming transaction does not commit: the claim is
\* forgotten, the rows are as the database has them.
Crash(w) ==
    /\ worker[w].pc # "idle"
    /\ faults < MaxFaults
    /\ faults' = faults + 1
    /\ worker' = [worker EXCEPT ![w] = [pc |-> "idle", claim |-> {}]]
    /\ UNCHANGED <<contractVars, apiVars, queueVars, inflight>>

\* next_attempt_at <= now() becomes true of a pending row; of other rows it is
\* not looked at.
BackoffElapses(i) ==
    /\ i \in backoff
    /\ outbox[i].status = "pending"
    /\ backoff' = backoff \ {i}
    /\ UNCHANGED <<contractVars, apiVars, outbox, worker, inflight, faults>>

\* The indexer's UPDATE for a TransactionEventRecorded event, matched by
\* idempotency key (module Indexer has the delivery of these events).
Stamp(e) ==
    /\ e \in events \ stamped
    /\ stamped' = stamped \cup {f \in dbEvents : f.key = e.key}
    /\ UNCHANGED <<contractVars, dbTxn, dbEvents, queueVars, worker, inflight, faults>>

-----------------------------------------------------------------------------
ApiStep ==
    \/ \E t \in TxnIds, u \in Users : ApiCreateTransaction(t, u)
    \/ \E e \in Event : ApiRecordEvent(e)
    \/ \E a \in Approval : ApiApproveTransaction(a)

\* What a worker does by itself.
WorkerStep(w) ==
    \/ ClaimBatch(w)
    \/ CommitClaim(w)
    \/ SubmitCommitted(w)
    \/ SubmitRefused(w)
    \/ MarkSent(w)
    \/ markFailed(w)

WorkerFault(w) == SubmitFails(w) \/ MarkFails(w) \/ Crash(w)

OutboxNext ==
    \/ ApiStep
    \/ \E w \in Workers : WorkerStep(w) \/ WorkerFault(w)
    \/ \E i \in 1..MaxRows : LateCommit(i) \/ LateInvalid(i) \/ BackoffElapses(i)
    \/ \E e \in events : Stamp(e)

OutboxSpec == OutboxInit /\ [][OutboxNext]_vars

\* Run polls on a ticker as long as the process lives, a restarted process
\* starts Run again, and time passes: every worker keeps taking its steps and
\* every backoff ends.  Clients, faults and the orderer owe nothing.
FairOutboxSpec ==
    /\ OutboxSpec
    /\ \A w \in Workers : WF_vars(WorkerStep(w))
    /\ \A i \in 1..MaxRows : WF_vars(BackoffElapses(i))

-----------------------------------------------------------------------------
(* Properties *)

\* Every variable has its type.
OutboxTypeOK ==
    /\ TypeOK
    /\ dbTxn \in [TxnIds -> Users \cup {None}]
    /\ dbEvents \subseteq Event
    /\ stamped \subseteq Event
    /\ outbox \in Seq(Row)
    /\ \A i \in DOMAIN outbox :
          /\ outbox[i].fn = "CreateTransaction" => outbox[i].arg \in CreateArgs
          /\ outbox[i].fn = "RecordEvent" => outbox[i].arg \in Event
          /\ outbox[i].fn = "Approve" => outbox[i].arg \in Approval
    /\ backoff \subseteq DOMAIN outbox
    /\ worker \in [Workers -> Worker]
    /\ \A w \in Workers : \A c \in worker[w].claim : c.id \in DOMAIN outbox
    /\ inflight \subseteq DOMAIN outbox
    /\ faults \in Nat

\* The invocation of this row is on the ledger.
Committed(row) ==
    \/ row.fn = "CreateTransaction" /\ header[row.arg.txn] # None
    \/ row.fn = "RecordEvent" /\ row.arg \in events
    \/ row.fn = "Approve" /\ row.arg \in approvals

\* The ledger never gets ahead of Postgres or differs from it: the events of a
\* transaction on the ledger are the first ones of its history in Postgres,
\* whatever was retried, duplicated, delayed or refused.
LedgerIsPrefixOfDatabase ==
    \A t \in TxnIds :
        /\ header[t] = None => EventsOf(t) = {}
        /\ header[t] # None =>
             /\ dbTxn[t] = header[t].createdBy
             /\ EventsOf(t) = {e \in dbEvents : e.txn = t /\ e.seq <= header[t].seq}

\* A row is marked 'sent' only when its invocation is on the ledger.
SentMeansCommitted ==
    \A i \in DOMAIN outbox : outbox[i].status = "sent" => Committed(outbox[i])

\* "a crash between the DB commit and the Fabric submit can never silently lose
\* an event": what Postgres holds is on the ledger, or has an outbox row that
\* is still to be submitted or is reported as a dead letter.
NoSilentLoss ==
    /\ \A e \in dbEvents \ events :
          \E i \in DOMAIN outbox : /\ outbox[i].fn = "RecordEvent"
                                   /\ outbox[i].arg = e
                                   /\ outbox[i].status \in {"pending", "dead_letter"}
    /\ \A t \in TxnIds : dbTxn[t] # None /\ header[t] = None =>
          \E i \in DOMAIN outbox : /\ outbox[i].fn = "CreateTransaction"
                                   /\ outbox[i].arg.txn = t
                                   /\ outbox[i].status \in {"pending", "dead_letter"}

\* ledgerState over the counts that the list, detail and receipt handlers read.
QueuedRows(t) == {i \in DOMAIN outbox : outbox[i].arg.txn = t /\ outbox[i].status = "pending"}
DeadRows(t) == {i \in DOMAIN outbox : outbox[i].arg.txn = t /\ outbox[i].status = "dead_letter"}
ledgerState(t) ==
    IF DeadRows(t) # {} THEN "failed"
    ELSE IF QueuedRows(t) = {} /\ (\E e \in stamped : e.txn = t) THEN "recorded"
    ELSE "queued"

\* A transaction shown as "recorded" has its whole history on the ledger.
RecordedMeansComplete ==
    \A t \in TxnIds : ledgerState(t) = "recorded" => {e \in dbEvents : e.txn = t} \subseteq events

\* Every queued row is eventually 'sent' or a dead letter.
EveryRowSettles ==
    \A i \in 1..MaxRows :
        (i \in DOMAIN outbox) ~>
            (i \in DOMAIN outbox /\ outbox[i].status \in {"sent", "dead_letter"})
=============================================================================
