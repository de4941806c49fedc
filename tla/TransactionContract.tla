------------------------- MODULE TransactionContract -------------------------
(***************************************************************************)
(* The transaction / approval smart contract                               *)
(* (chaincode/transaction/chaincode/contract.go) as a state machine over   *)
(* the Fabric world state.                                                 *)
(*                                                                         *)
(* A contract invocation is atomic: Fabric commits the whole write set of  *)
(* an invocation that returned nil, after re-validating the versions of    *)
(* what it read, and nothing of one that returned an error.  Every action  *)
(* below is therefore one committed invocation, its guard is the           *)
(* conjunction of the checks the Go function makes (each of them an early  *)
(* return with an error), and a rejected invocation changes nothing.       *)
(***************************************************************************)
EXTENDS Integers, FiniteSets

CONSTANTS
    TxnIds,        \* transaction ids
    Users,         \* identities that create and approve
    Hashes,        \* payload hashes
    NoHash,        \* the empty string, in the place of a hash
    Keys,          \* idempotency keys
    None,          \* "no such key in the world state"
    MaxSequence    \* bound: the largest event_sequence a client sends

Statuses == {"DRAFT", "VERIFIED", "ENDORSED", "COMMITTED", "SETTLED",
             "REJECTED", "CANCELLED", "SUPERSEDED", "REVOKED"}

\* The transaction header; GetTransaction finds it or None.
Header == [createdBy : Users, status : Statuses, seq : 0..MaxSequence,
           hash : Hashes \cup {NoHash}]

\* TransactionEvent.  "" in new means the event asks for no status change.
\* wellFormed stands for the field checks that need no state: ids and
\* idempotency key present, suite allow-listed, both signatures present.
Event == [txn : TxnIds, seq : 1..MaxSequence, hash : Hashes,
          prev : Hashes \cup {NoHash}, key : Keys,
          new : Statuses \cup {""}, wellFormed : BOOLEAN]

Decisions == {"approve", "reject"}

Approval == [txn : TxnIds, seq : 1..MaxSequence, approver : Users,
             decision : Decisions]

ASSUME ConstantsAssumption ==
    /\ MaxSequence \in Nat \ {0}
    /\ NoHash \notin Hashes
    /\ None \notin Header

VARIABLES
    header,      \* transaction key -> header, or None
    events,      \* the values stored under the event keys
    idem,        \* the idempotency keys that have a marker
    approvals    \* the values stored under the approval keys

contractVars == <<header, events, idem, approvals>>

allowedTransitions(current) ==
    CASE current = "DRAFT"     -> {"VERIFIED", "CANCELLED"}
      [] current = "VERIFIED"  -> {"ENDORSED", "REJECTED", "CANCELLED"}
      [] current = "ENDORSED"  -> {"COMMITTED", "REJECTED"}
      [] current = "COMMITTED" -> {"SETTLED", "REJECTED"}
      [] current = "SETTLED"   -> {"SUPERSEDED"}
      [] OTHER                 -> {}

isTransitionAllowed(current, next) ==
    IF next = "REVOKED" THEN current # "REVOKED"
                        ELSE next \in allowedTransitions(current)

Init ==
    /\ header = [t \in TxnIds |-> None]
    /\ events = {}
    /\ idem = {}
    /\ approvals = {}

-----------------------------------------------------------------------------
CreateTransaction(t, user) ==
    /\ header[t] = None
    /\ header' = [header EXCEPT ![t] =
            [createdBy |-> user, status |-> "DRAFT", seq |-> 0, hash |-> NoHash]]
    /\ UNCHANGED <<events, idem, approvals>>

\* Faulty variants of RecordEvent's checks: the idempotency marker is not
\* read; the sequence number is not compared.
RecordEventAcceptsReplay(e) ==
    /\ e.wellFormed
    /\ header[e.txn] # None
    /\ e.new # "" => isTransitionAllowed(header[e.txn].status, e.new)
    /\ e.seq = header[e.txn].seq + 1
    /\ e.prev = header[e.txn].hash

RecordEventAcceptsAnySequence(e) ==
    /\ e.wellFormed
    /\ header[e.txn] # None
    /\ e.new # "" => isTransitionAllowed(header[e.txn].status, e.new)
    /\ e.prev = header[e.txn].hash
    /\ e.key \notin idem

\* Every check RecordEvent makes before its first PutState.
RecordEventAccepts(e) ==
    /\ e.wellFormed
    /\ header[e.txn] # None
    /\ e.new # "" => isTransitionAllowed(header[e.txn].status, e.new)
    /\ e.seq = header[e.txn].seq + 1
    /\ e.prev = header[e.txn].hash
    /\ e.key \notin idem

\* PutState under the event key <<txn, seq>>: replaces what was there.
PutEvent(e) ==
    {f \in events : f.txn # e.txn \/ f.seq # e.seq} \cup {e}

\* A faulty variant: the header's hash is not advanced.
NewHeaderStaleHash(e) ==
    [header[e.txn] EXCEPT !.seq = e.seq, !.status = IF e.new = "" THEN @ ELSE e.new]

NewHeader(e) ==
    [createdBy |-> header[e.txn].createdBy,
     status    |-> IF e.new = "" THEN header[e.txn].status ELSE e.new,
     seq       |-> e.seq,
     hash      |-> e.hash]

RecordEvent(e) ==
    /\ RecordEventAccepts(e)
    /\ events' = PutEvent(e)
    /\ idem' = idem \cup {e.key}
    /\ header' = [header EXCEPT ![e.txn] = NewHeader(e)]
    /\ UNCHANGED approvals

\* A faulty variant: a rejection is recorded without moving the transaction.
ApproveWithoutStatus(a) ==
    /\ header[a.txn] # None
    /\ a.approver # header[a.txn].createdBy
    /\ approvals' = approvals \cup {a}
    /\ UNCHANGED <<header, events, idem>>

\* A reject in a status that cannot be rejected returns an error after the
\* approval's PutState: the invocation fails as a whole.
ApproveAccepts(a) ==
    /\ header[a.txn] # None
    /\ a.approver # header[a.txn].createdBy
    /\ ~ \E b \in approvals : /\ b.txn = a.txn
                              /\ b.seq = a.seq
                              /\ b.approver = a.approver
    /\ a.decision = "reject" => isTransitionAllowed(header[a.txn].status, "REJECTED")

Approve(a) ==
    /\ ApproveAccepts(a)
    /\ approvals' = approvals \cup {a}
    /\ header' = IF a.decision = "reject"
                 THEN [header EXCEPT ![a.txn].status = "REJECTED"]
                 ELSE header
    /\ UNCHANGED <<events, idem>>

Next ==
    \/ \E t \in TxnIds, u \in Users : CreateTransaction(t, u)
    \/ \E e \in Event : RecordEvent(e)
    \/ \E a \in Approval : Approve(a)

Spec == Init /\ [][Next]_contractVars

-----------------------------------------------------------------------------
(* Properties *)

EventsOf(t) == {e \in events : e.txn = t}

\* The world state holds values of the types the contract marshals.
TypeOK ==
    /\ header \in [TxnIds -> Header \cup {None}]
    /\ events \subseteq Event
    /\ idem \subseteq Keys
    /\ approvals \subseteq Approval

\* The events of a transaction are exactly the sequence numbers 1..latest,
\* one event each, every event names the hash of its predecessor (the first
\* one none), and the header carries the hash of the last: what RecordEvent's
\* O(1) check against the header has to add up to for GetEventHistory.
HistoryIsChain ==
    /\ \A e \in events : header[e.txn] # None /\ e.seq <= header[e.txn].seq
    /\ \A t \in TxnIds : header[t] # None =>
          \A n \in 1..header[t].seq : \E e \in EventsOf(t) : e.seq = n
    /\ \A e, f \in events : e.txn = f.txn /\ e.seq = f.seq => e = f
    /\ \A e, f \in events : e.txn = f.txn /\ f.seq = e.seq + 1 => f.prev = e.hash
    /\ \A e \in events : e.seq = 1 => e.prev = NoHash
    /\ \A e \in events : e.seq = header[e.txn].seq => e.hash = header[e.txn].hash
    /\ \A t \in TxnIds : header[t] # None /\ header[t].seq = 0 => header[t].hash = NoHash

\* An idempotency key is committed at most once over ALL transactions, and
\* a key has a marker exactly when an event carries it.
IdempotencyOnce ==
    /\ \A e, f \in events : e.key = f.key => e = f
    /\ idem = {e.key : e \in events}

\* Whoever audits the ledger can recompute the header's status: it is the
\* one asked for by the newest status-changing event, except that a recorded
\* rejection makes it REJECTED until a REVOKED event.
StatusFollowsFromRecords ==
    \A t \in TxnIds : header[t] # None =>
        LET changing == {e \in EventsOf(t) : e.new # ""}
            rejected == \E a \in approvals : a.txn = t /\ a.decision = "reject"
        IN  \/ /\ ~ rejected
               /\ changing = {}
               /\ header[t].status = "DRAFT"
            \/ /\ ~ rejected
               /\ \E e \in changing : /\ header[t].status = e.new
                                      /\ \A f \in changing : f.seq <= e.seq
            \/ /\ rejected
               /\ header[t].status =
                    IF \E e \in changing : e.new = "REVOKED" THEN "REVOKED" ELSE "REJECTED"

\* Nobody's decision is recorded on a transaction that they created, nobody
\* decides twice on one event, and every decision is on a transaction that
\* exists: Approve's checks against the createdBy the header was created with.
ApprovalsAreIndependent ==
    /\ \A a \in approvals : header[a.txn] # None /\ header[a.txn].createdBy # a.approver
    /\ \A a, b \in approvals :
          a.txn = b.txn /\ a.seq = b.seq /\ a.approver = b.approver => a = b

\* Committed events, markers and approvals are never replaced or removed, and
\* a header keeps its creator and never goes back in sequence: the PutState
\* calls never hit an existing event or approval key.
AppendOnly ==
    [][/\ events \subseteq events'
       /\ idem \subseteq idem'
       /\ approvals \subseteq approvals'
       /\ \A t \in TxnIds : header[t] # None =>
             /\ header'[t] # None
             /\ header'[t].createdBy = header[t].createdBy
             /\ header'[t].seq >= header[t].seq]_contractVars
=============================================================================
