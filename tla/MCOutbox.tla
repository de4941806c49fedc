------------------------------ MODULE MCOutbox ------------------------------
(***************************************************************************)
(* Outbox on a small instance.  A behaviour has one relay worker and the   *)
(* full bounds, or a second worker next to it and tighter ones: the faults *)
(* a worker meets and the interleavings of two workers, without their      *)
(* product.                                                                *)
(***************************************************************************)
EXTENDS Outbox

CONSTANTS First,                      \* the worker that always runs
          Creator, k1, k2,            \* the user and the keys used first
          PairRows, PairFaults        \* bounds when there are two workers

VARIABLE second   \* whether the other worker runs, too

mcVars == <<vars, second>>

Runs(w) == second \/ w = First

MCInit == OutboxInit /\ second \in BOOLEAN

\* Users and idempotency keys can be exchanged for one another: Creator creates
\* the transaction and the keys are used in order.
Canonical ==
    /\ \A t \in TxnIds : dbTxn[t] \in {None, Creator}
    /\ \A e \in dbEvents : e.key = <<k1, k2>>[e.seq]

\* The bounds next to a second worker.  Of the decisions only those that move
\* the transaction on the ledger are sent: rejections by another user.
PairBound ==
    /\ Len(outbox) <= PairRows
    /\ faults <= PairFaults
    /\ \A i \in DOMAIN outbox : outbox[i].fn = "Approve" =>
          outbox[i].arg.decision = "reject" /\ outbox[i].arg.approver # Creator

\* While nothing was ever claimed the workers can be exchanged: First begins.
Untouched ==
    /\ worker[First].pc = "idle"
    /\ faults = 0
    /\ \A i \in DOMAIN outbox : outbox[i].status = "pending" /\ outbox[i].attempts = 0

MCNext ==
    /\ OutboxNext
    /\ UNCHANGED second
    /\ Canonical'
    /\ second => PairBound'
    /\ \A w \in Workers \ {First} : (second /\ ~ Untouched) \/ worker'[w] = worker[w]

\* Weaker than FairOutboxSpec about the backoffs: some backoff ends, not each.
MCFairSpec ==
    /\ MCInit /\ [][MCNext]_mcVars
    /\ \A w \in Workers : WF_mcVars(Runs(w) /\ WorkerStep(w) /\ UNCHANGED second)
    /\ WF_mcVars(\E i \in 1..MaxRows : BackoffElapses(i) /\ UNCHANGED second)
=============================================================================
