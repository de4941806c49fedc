------------------------------ MODULE Indexer ------------------------------
(***************************************************************************)
(* The indexer's listener for one chaincode (indexer/main.go runListener): *)
(* it loads the checkpoint, subscribes to the chaincode's events from that *)
(* block, applies every event to the read model (internal/apply) and saves *)
(* the block number as the new checkpoint (internal/checkpoint).           *)
(*                                                                         *)
(* Applying and saving are two database calls, either of which can fail;   *)
(* the stream can close and the process can die at any point.              *)
(***************************************************************************)
EXTENDS Integers, Sequences, FiniteSets

CONSTANTS
    EventKeys,    \* idempotency keys of the events recorded by the chaincode
    Other,        \* stands for an event that applyEvent only logs
    Blocks,       \* what a block may hold of this chaincode: sequences of events
    MaxEvents,    \* bound: events the chaincode emits
    MaxFaults,    \* bound: failures
    FaultKinds    \* the failures that happen: subset of AllFaults

AllFaults == {"subscribe", "close", "apply", "save", "crash"}

ASSUME IndexerAssumption ==
    /\ Other \notin EventKeys
    /\ \A ks \in Blocks :
          /\ ks \in Seq(EventKeys \cup {Other})
          /\ \A i, j \in DOMAIN ks : ks[i] \in EventKeys /\ ks[i] = ks[j] => i = j
    /\ MaxEvents \in Nat
    /\ MaxFaults \in Nat
    /\ FaultKinds \subseteq AllFaults

VARIABLES
    height,      \* number of the newest block
    ledger,      \* this chaincode's events in commit order: [block, key]
    rows,        \* key -> fabric_block_number of its event row, 0 for NULL
    checkpoint,  \* last_block_number, 0 for no row
    pc,          \* load, subscribe, stream, save
    lastBlock,   \* runListener's lastBlock
    pos,         \* the next event the stream delivers
    since,       \* auxiliary: the event whose Save made the first checkpoint
    failed,      \* auxiliary: the events whose UPDATE failed
    faults       \* failures so far (bound only)

listenerVars == <<pc, lastBlock, pos>>
indexerVars == <<height, ledger, rows, checkpoint, listenerVars, since, failed, faults>>

IndexerInit ==
    /\ height = 0
    /\ ledger = <<>>
    /\ rows = [k \in EventKeys |-> 0]
    /\ checkpoint = 0
    /\ pc = "load"
    /\ lastBlock = 0
    /\ pos = 1
    /\ since = 0
    /\ failed = {}
    /\ faults = 0

\* Fabric commits a block that holds events ks of this chaincode.  A key is
\* recorded at most once (TransactionContract!IdempotencyOnce), and its row is
\* in Postgres before (Outbox!LedgerIsPrefixOfDatabase).
CommitBlock(ks) ==
    /\ Len(ledger) + Len(ks) <= MaxEvents
    /\ \A i \in DOMAIN ks, j \in DOMAIN ledger : ks[i] \in EventKeys => ledger[j].key # ks[i]
    /\ height' = height + 1
    /\ ledger' = ledger \o [i \in 1..Len(ks) |-> [block |-> height + 1, key |-> ks[i]]]
    /\ UNCHANGED <<rows, checkpoint, listenerVars, since, faults, failed>>

-----------------------------------------------------------------------------
(* The listener *)

Fault(kind) ==
    /\ kind \in FaultKinds
    /\ faults < MaxFaults
    /\ faults' = faults + 1

\* A failed Load is retried after a pause and changes nothing.
Load ==
    /\ pc = "load"
    /\ lastBlock' = checkpoint
    /\ pc' = "subscribe"
    /\ UNCHANGED <<ledger, height, rows, checkpoint, pos, since, faults, failed>>

\* Where a subscription starts: with WithStartBlock at the first event of that
\* block or later, without it behind everything committed so far.
StartsAt(p) ==
    IF lastBlock > 0
    THEN /\ \A i \in DOMAIN ledger : i < p => ledger[i].block < lastBlock
         /\ p \in DOMAIN ledger => ledger[p].block >= lastBlock
    ELSE p = Len(ledger) + 1

Subscribe ==
    /\ pc = "subscribe"
    /\ \E p \in 1..(Len(ledger) + 1) : StartsAt(p) /\ pos' = p
    /\ pc' = "stream"
    /\ UNCHANGED <<ledger, height, rows, checkpoint, lastBlock, since, faults, failed>>

SubscribeFails ==
    /\ pc = "subscribe"
    /\ Fault("subscribe")
    /\ pc' = "load"
    /\ UNCHANGED <<ledger, height, rows, checkpoint, lastBlock, pos, since, failed>>

StreamCloses ==
    /\ pc = "stream"
    /\ Fault("close")
    /\ pc' = "load"
    /\ UNCHANGED <<ledger, height, rows, checkpoint, lastBlock, pos, since, failed>>

\* UPDATE ... SET fabric_block_number WHERE idempotency_key = the event's.
applyEvent(event) ==
    rows' = [k \in EventKeys |-> IF k = event.key THEN event.block ELSE rows[k]]

Apply ==
    /\ pc = "stream"
    /\ pos \in DOMAIN ledger
    /\ applyEvent(ledger[pos])
    /\ pc' = "save"
    /\ UNCHANGED <<ledger, height, checkpoint, lastBlock, pos, since, faults, failed>>

\* The UPDATE fails: logged, and on to the next event of the stream.
ApplyFails ==
    /\ pc = "stream"
    /\ pos \in DOMAIN ledger
    /\ Fault("apply")
    /\ pos' = pos + 1
    /\ failed' = failed \cup {pos}
    /\ UNCHANGED <<ledger, height, rows, checkpoint, pc, lastBlock, since>>

\* A faulty variant: the checkpoint is the block after the event's.
SaveNextBlock ==
    /\ pc = "save"
    /\ checkpoint' = ledger[pos].block + 1
    /\ since' = IF checkpoint = 0 THEN pos ELSE since
    /\ pos' = pos + 1
    /\ pc' = "stream"
    /\ UNCHANGED <<ledger, height, rows, lastBlock, faults, failed>>

\* GREATEST of the stored block and the event's.
Save ==
    /\ pc = "save"
    /\ checkpoint' = IF ledger[pos].block > checkpoint THEN ledger[pos].block ELSE checkpoint
    /\ since' = IF checkpoint = 0 THEN pos ELSE since
    /\ pos' = pos + 1
    /\ pc' = "stream"
    /\ UNCHANGED <<ledger, height, rows, lastBlock, faults, failed>>

SaveFails ==
    /\ pc = "save"
    /\ Fault("save")
    /\ pos' = pos + 1
    /\ pc' = "stream"
    /\ UNCHANGED <<ledger, height, rows, checkpoint, lastBlock, since, failed>>

\* The process dies and is started again.
Crash ==
    /\ pc # "load"
    /\ Fault("crash")
    /\ pc' = "load"
    /\ UNCHANGED <<ledger, height, rows, checkpoint, lastBlock, pos, since, failed>>

ListenerStep == Load \/ Subscribe \/ Apply \/ Save

Failure == SubscribeFails \/ StreamCloses \/ ApplyFails \/ SaveFails \/ Crash

IndexerNext ==
    \/ \E ks \in Blocks : CommitBlock(ks)
    \/ ListenerStep
    \/ Failure

IndexerSpec == IndexerInit /\ [][IndexerNext]_indexerVars

\* The listener's goroutine runs as long as the process does, a dead process
\* is restarted, and Postgres and the gateway answer.
FairIndexerSpec == IndexerSpec /\ WF_indexerVars(ListenerStep)

-----------------------------------------------------------------------------
(* Properties *)

\* Every variable has its type, and the stream is at an event that exists or at
\* the end.
IndexerTypeOK ==
    /\ height \in Nat
    /\ ledger \in Seq([block : Nat \ {0}, key : EventKeys \cup {Other}])
    /\ rows \in [EventKeys -> Nat]
    /\ checkpoint \in Nat
    /\ pc \in {"load", "subscribe", "stream", "save"}
    /\ lastBlock \in Nat
    /\ pos \in 1..(Len(ledger) + 1)
    /\ since \in 0..Len(ledger)
    /\ failed \subseteq DOMAIN ledger
    /\ faults \in Nat

\* The event has reached the read model.
Applied(i) == ledger[i].key \in EventKeys => rows[ledger[i].key] = ledger[i].block

Handled(i) == Applied(i) \/ i \in failed

\* Restarts, closed streams and failed saves lose nothing: from the event that
\* made the first checkpoint on, everything in blocks before the checkpoint
\* has been applied, unless its own UPDATE failed (the checkpoint's block
\* itself is delivered again).
NoGap ==
    checkpoint > 0 =>
        \A i \in DOMAIN ledger : i >= since /\ ledger[i].block < checkpoint => Handled(i)

\* A row that carries a block number carries the one its event was committed in.
RowsTellTheTruth ==
    \A k \in EventKeys : rows[k] # 0 => \E i \in DOMAIN ledger : ledger[i] = [block |-> rows[k], key |-> k]

\* Applying an event again, as every restart does, changes nothing, and the
\* checkpoint never goes back.
ReplayIsHarmless ==
    [][/\ \A k \in EventKeys : rows[k] # 0 => rows'[k] = rows[k]
       /\ checkpoint' >= checkpoint]_indexerVars

\* Every event committed after the first checkpoint was saved reaches the read
\* model, whatever closes, crashes or is not saved on the way, unless its own
\* UPDATE failed.
EventuallyApplied ==
    \A i \in 1..MaxEvents :
        (i \in DOMAIN ledger /\ checkpoint > 0 /\ i >= since) ~> (i \in DOMAIN ledger /\ Handled(i))
=============================================================================
