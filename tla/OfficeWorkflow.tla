--------------------------- MODULE OfficeWorkflow ---------------------------
(***************************************************************************)
(* The office requests (api/internal/httpapi/office.go, office_auth.go):   *)
(* DRAFT, submit, decide with a TTD signature, complete or cancel, and the *)
(* archived uploads, which share tables, outbox and contract with them     *)
(* (archiveFinalize).  Every step is decided on the Postgres row and its   *)
(* invocations are queued for the contract, which checks everything again  *)
(* later, on its own state.                                                *)
(*                                                                         *)
(* A request is authenticated, with the office role read from the          *)
(* database, before its handler locks the row.  The role matters to the    *)
(* decisions only, so these are two steps, officeAuth and the handler; the *)
(* others are one.  A handler is one database transaction under the lock   *)
(* of the transaction row, so it is one step.  The outbox is the FIFO that *)
(* module Outbox implements when nothing is refused.                       *)
(***************************************************************************)
EXTENDS TransactionContract, Sequences

CONSTANTS
    Admins,       \* users whose TTD role is admin or superadmin
    Documents,    \* contents of PDFs
    Signatures,   \* public ids of TTD signatures
    Roles,        \* the office roles that admins give
    MaxInFlight   \* bound: requests between authentication and handler

ASSUME OfficeAssumption ==
    /\ Admins \subseteq Users
    /\ Roles \subseteq {"requester", "approver", "auditor"}
    /\ MaxInFlight \in Nat

\* Hashes and keys are named after the event they belong to; a transaction has
\* at most four.
ASSUME PlaceAssumption ==
    /\ MaxSequence >= 4
    /\ TxnIds \X (1..MaxSequence) \subseteq Hashes
    /\ TxnIds \X (1..MaxSequence) \subseteq Keys

\* A transaction row; doc is the attachment of an office request.
OfficeRow == [createdBy : Users, workflow : {"office", "archive"}, status : Statuses,
              doc : Documents \cup {None}]

ASSUME RowAssumption ==
    /\ None \notin OfficeRow
    /\ None \notin [account : Users, doc : Documents]

VARIABLES
    row,        \* transaction rows: creator, workflow, status, office attachment
    history,    \* transaction_event rows of each transaction, in sequence
    decisions,  \* approval rows
    queue,      \* outbox rows not yet on the ledger
    role,       \* office_role, requester by default
    ttd,        \* accepted signatures of the TTD server, or None
    requests    \* decisions of authenticated approvers on their way

officeVars == <<row, history, decisions, queue>>
vars == <<contractVars, officeVars, role, ttd, requests>>

OfficeInit ==
    /\ Init
    /\ row = [t \in TxnIds |-> None]
    /\ history = [t \in TxnIds |-> <<>>]
    /\ decisions = {}
    /\ queue = <<>>
    /\ role = [u \in Users |-> "requester"]
    /\ ttd = [s \in Signatures |-> None]
    /\ requests = {}

-----------------------------------------------------------------------------
(* appendTransactionEvent and the outbox *)

\* The n-th event of transaction t.  Payload hashes and idempotency keys differ
\* from event to event: the payload names its step and time, the key is fresh.
LedgerEvent(t, n, step) ==
    [txn |-> t, seq |-> n, hash |-> <<t, n>>,
     prev |-> IF n = 1 THEN NoHash ELSE <<t, n - 1>>,
     key |-> <<t, n>>, new |-> step.new, wellFormed |-> TRUE]

Call(fnName, arg) == [fn |-> fnName, arg |-> arg]

\* The row's status is the last one that the steps ask for.
StatusAfter(steps, status) ==
    LET asking == {i \in DOMAIN steps : steps[i].new # ""}
    IN  IF asking = {} THEN status
        ELSE steps[CHOOSE i \in asking : \A j \in asking : j <= i].new

EventCalls(t, steps) ==
    [i \in DOMAIN steps |->
        Call("RecordEvent", LedgerEvent(t, Len(history[t]) + i, steps[i]))]

\* The steps are appended to the history of t and queued, followed by calls.
appendEvents(t, steps, calls) ==
    /\ history' = [history EXCEPT ![t] = @ \o steps]
    /\ queue' = queue \o EventCalls(t, steps) \o calls

Step(type, actor, new) == [type |-> type, actor |-> actor, new |-> new]

-----------------------------------------------------------------------------
(* Creating transactions *)

NewTransaction(t, u, workflow, d, steps) ==
    /\ row[t] = None
    /\ row' = [row EXCEPT ![t] = [createdBy |-> u, workflow |-> workflow,
                                  status |-> StatusAfter(steps, "DRAFT"), doc |-> d]]
    /\ history' = [history EXCEPT ![t] = steps]
    /\ queue' = queue \o <<Call("CreateTransaction", [txn |-> t, user |-> u])>>
                      \o EventCalls(t, steps)
    /\ UNCHANGED <<contractVars, decisions, role, ttd, requests>>

officeCreateTransaction(t, u, d) ==
    NewTransaction(t, u, "office", d, <<Step("CREATED", u, "")>>)

\* The database step of archiveFinalize: the sender's event and two of the
\* system identity.
archiveFinalize(t, u) ==
    NewTransaction(t, u, "archive", None,
        <<Step("UPLOAD_RECEIVED", u, ""), Step("INTEGRITY_VERIFIED", "system", "VERIFIED"),
          Step("ARCHIVED", "system", "ENDORSED")>>)

-----------------------------------------------------------------------------
(* Handlers on an existing transaction *)

officeTransitions(current) ==
    CASE current = "DRAFT"     -> {"VERIFIED", "CANCELLED"}
      [] current = "VERIFIED"  -> {"ENDORSED", "REJECTED", "CANCELLED"}
      [] current = "ENDORSED"  -> {"COMMITTED", "REJECTED"}
      [] current = "COMMITTED" -> {"SETTLED", "REJECTED"}
      [] current = "SETTLED"   -> {"SUPERSEDED"}
      [] OTHER                 -> {}

canTransition(current, next) == next \in officeTransitions(current)

canSeeAll(u) == u \in Admins \/ role[u] \in {"approver", "auditor"}

\* lockTxn finds the row and u may see it.
Found(u, t) ==
    /\ row[t] # None
    /\ row[t].workflow = "office"
    /\ canSeeAll(u) \/ row[t].createdBy = u

Creator(u, t) == row[t].createdBy = u

\* permsFor of the three plain actions, none of which looks at the office role.
CanSubmit(u, t) == Creator(u, t) /\ row[t].status = "DRAFT"
CanCancel(u, t) == Creator(u, t) /\ row[t].status \in {"DRAFT", "VERIFIED"}
CanComplete(u, t) == (Creator(u, t) \/ u \in Admins) /\ row[t].status = "ENDORSED"

\* A faulty variant: the read model is left to somebody else.
simpleStepLedgerOnly(u, t, type, new) ==
    /\ canTransition(row[t].status, new)
    /\ appendEvents(t, <<Step(type, u, new)>>, <<>>)
    /\ UNCHANGED <<contractVars, row, decisions, role, ttd, requests>>

simpleStep(u, t, type, new) ==
    /\ canTransition(row[t].status, new)
    /\ row' = [row EXCEPT ![t].status = new]
    /\ appendEvents(t, <<Step(type, u, new)>>, <<>>)
    /\ UNCHANGED <<contractVars, decisions, role, ttd, requests>>

officeSubmit(u, t) ==
    Found(u, t) /\ CanSubmit(u, t) /\ simpleStep(u, t, "SUBMITTED", "VERIFIED")

officeComplete(u, t) ==
    Found(u, t) /\ CanComplete(u, t) /\ simpleStep(u, t, "COMPLETED", "COMMITTED")

officeCancel(u, t) ==
    Found(u, t) /\ CanCancel(u, t) /\ simpleStep(u, t, "CANCELLED", "CANCELLED")

-----------------------------------------------------------------------------
(* Deciding *)

\* officeAuth finds u to be an approver.  A request of anybody else is refused
\* by the handler whatever it finds.
officeAuth(u, t) ==
    /\ Cardinality(requests) < MaxInFlight
    /\ role[u] = "approver"
    /\ requests' = requests \cup {[user |-> u, txn |-> t]}
    /\ UNCHANGED <<contractVars, officeVars, role, ttd>>

\* A faulty variant: a decision does not rule out the next one.
CanApproveTwice(q) ==
    /\ row[q.txn] # None /\ row[q.txn].workflow = "office"
    /\ ~ Creator(q.user, q.txn)
    /\ row[q.txn].status \in {"VERIFIED", "ENDORSED"}

\* lockTxn finds the row, and the rest of permsFor.
CanApprove(q) ==
    /\ row[q.txn] # None /\ row[q.txn].workflow = "office"
    /\ ~ Creator(q.user, q.txn)
    /\ row[q.txn].status = "VERIFIED"

\* The event decided on is the newest SUBMITTED one.
SubmittedSeq(t) == CHOOSE n \in DOMAIN history[t] :
    /\ history[t][n].type = "SUBMITTED"
    /\ \A m \in DOMAIN history[t] : history[t][m].type = "SUBMITTED" => m <= n

\* The TTD server knows the signature as an accepted one.
verifyTTDApproval(q, sig) ==
    /\ ttd[sig] # None
    /\ ttd[sig].account = q.user
    /\ ttd[sig].doc = row[q.txn].doc

\* idx_event_ttd_public_id: a signature backs one event.
UniqueSignature(sig) == \A d \in decisions : d.sig # sig

Answer(q) == requests' = requests \ {q}

Decide(q, decision, sig, type, new, calls) ==
    /\ row' = [row EXCEPT ![q.txn].status = new]
    /\ appendEvents(q.txn, <<Step(type, q.user, new)>>, calls)
    /\ decisions' = decisions \cup
          {[txn |-> q.txn, approver |-> q.user, decision |-> decision, sig |-> sig]}
    /\ Answer(q)
    /\ UNCHANGED <<contractVars, role, ttd>>

ApproveCall(q, decision) ==
    Call("Approve", [txn |-> q.txn, seq |-> SubmittedSeq(q.txn),
                     approver |-> q.user, decision |-> decision])

\* An approval is also queued for the contract's Approve.
officeDecisionApprove(q, sig) ==
    /\ CanApprove(q)
    /\ verifyTTDApproval(q, sig)
    /\ UniqueSignature(sig)
    /\ Decide(q, "approve", sig, "APPROVED_SIGNED", "ENDORSED", <<ApproveCall(q, "approve")>>)

\* A faulty variant that queues the contract's own rejection too.
officeDecisionRejectTwice(q) ==
    /\ CanApprove(q)
    /\ Decide(q, "reject", None, "REJECTED", "REJECTED", <<ApproveCall(q, "reject")>>)

\* A rejection is not: the contract's Approve would move the status itself.
officeDecisionReject(q) ==
    /\ CanApprove(q)
    /\ Decide(q, "reject", None, "REJECTED", "REJECTED", <<>>)

\* A check refuses, or the database transaction fails and is rolled back.
Refused(q) ==
    /\ Answer(q)
    /\ UNCHANGED <<contractVars, officeVars, role, ttd>>

officeSetRole(admin, u, r) ==
    /\ admin \in Admins
    /\ role' = [role EXCEPT ![u] = r]
    /\ UNCHANGED <<contractVars, officeVars, ttd, requests>>

-----------------------------------------------------------------------------
(* Around the office API *)

\* The TTD server accepts a signature of u over d.
TTDSign(s, u, d) ==
    /\ ttd[s] = None
    /\ ttd' = [ttd EXCEPT ![s] = [account |-> u, doc |-> d]]
    /\ UNCHANGED <<contractVars, officeVars, role, requests>>

\* The outbox worker has the oldest row committed by the contract.
Accepted(call) ==
    CASE call.fn = "CreateTransaction" -> header[call.arg.txn] = None
      [] call.fn = "RecordEvent"       -> RecordEventAccepts(call.arg)
      [] call.fn = "Approve"           -> ApproveAccepts(call.arg)

Invoke(call) ==
    \/ call.fn = "CreateTransaction" /\ CreateTransaction(call.arg.txn, call.arg.user)
    \/ call.fn = "RecordEvent" /\ RecordEvent(call.arg)
    \/ call.fn = "Approve" /\ Approve(call.arg)

Relay ==
    /\ queue # <<>>
    /\ Invoke(Head(queue))
    /\ queue' = Tail(queue)
    /\ UNCHANGED <<row, history, decisions, role, ttd, requests>>

-----------------------------------------------------------------------------
Create ==
    \E t \in TxnIds, u \in Users :
        \/ \E d \in Documents : officeCreateTransaction(t, u, d)
        \/ archiveFinalize(t, u)

Act ==
    \E u \in Users, t \in TxnIds :
        officeSubmit(u, t) \/ officeComplete(u, t) \/ officeCancel(u, t) \/ officeAuth(u, t)

officeDecision ==
    \E q \in requests :
        \/ \E sig \in Signatures : officeDecisionApprove(q, sig)
        \/ officeDecisionReject(q)
        \/ Refused(q)

SetRole == \E admin, u \in Users, r \in Roles : officeSetRole(admin, u, r)

Sign == \E s \in Signatures, u \in Users, d \in Documents : TTDSign(s, u, d)

OfficeNext == Create \/ Act \/ officeDecision \/ SetRole \/ Sign \/ Relay

OfficeSpec == OfficeInit /\ [][OfficeNext]_vars

-----------------------------------------------------------------------------
(* Properties *)

\* Whatever the handlers queue, in whatever order their requests interleave, the
\* contract accepts when its turn comes, although the worker submits it against
\* a ledger state older than the row the handler decided on: officeTransitions
\* mirrors the chaincode's table and appendTransactionEvent its hash chain.
LedgerNeverRefuses == queue # <<>> => Accepted(Head(queue))

\* "the value written is the same one the chaincode will commit": a transaction
\* with nothing left in the outbox has, on the ledger, the creator, the status
\* and the number of events that Postgres has, and the approvals on the ledger
\* are decisions of the approval table, each on a submission.
ReadModelIsLedger ==
    /\ \A t \in TxnIds :
          row[t] # None /\ (\A i \in DOMAIN queue : queue[i].arg.txn # t) =>
              /\ header[t] # None
              /\ header[t].createdBy = row[t].createdBy
              /\ header[t].status = row[t].status
              /\ header[t].seq = Len(history[t])
    /\ \A a \in approvals :
          /\ \E d \in decisions : /\ d.txn = a.txn /\ d.approver = a.approver
                                  /\ d.decision = "approve" /\ a.decision = "approve"
          /\ history[a.txn][a.seq].type = "SUBMITTED"

\* A request that passed VERIFIED was decided exactly once, by somebody else
\* than its creator, however many approvers' requests were in flight; an
\* approval rests on a signature of that approver over the attachment of this
\* very request.
DecidedOnceBySomeoneElse ==
    /\ \A d, e \in decisions : d.txn = e.txn => d = e
    /\ \A d \in decisions :
          /\ d.approver # row[d.txn].createdBy
          /\ d.decision = "reject" => row[d.txn].status = "REJECTED"
          /\ d.decision = "approve" =>
                /\ ttd[d.sig].account = d.approver
                /\ ttd[d.sig].doc = row[d.txn].doc
    /\ \A t \in TxnIds :
          row[t] # None /\ row[t].workflow = "office"
                       /\ row[t].status \in {"ENDORSED", "COMMITTED", "REJECTED"} =>
              \E d \in decisions : d.txn = t
=============================================================================
