---------------------------- MODULE AssetContract ----------------------------
(***************************************************************************)
(* The asset custody smart contract (chaincode/asset/chaincode/contract.go)*)
(* over the Fabric world state.  An invocation is atomic: its guard is the *)
(* conjunction of the checks of the Go function, and a refused invocation  *)
(* changes nothing.                                                        *)
(*                                                                         *)
(* The contract never reads an asset's history: it keeps the newest        *)
(* sequence number, hash and status in the header and compares with those. *)
(* That this adds up to the log of CustodyLog is the refinement below.     *)
(***************************************************************************)
EXTENDS Integers, Sequences

CONSTANTS
    Assets, Hashes, Keys, Signers,
    NoHash,       \* the empty string, in the place of a hash
    NoAsset,      \* "no such key in the world state"
    MaxSequence   \* bound: the largest event_sequence that is sent

VARIABLES
    asset,     \* asset key -> header, or NoAsset
    custody,   \* custody event key <<asset, sequence>> -> event, or NoAsset
    idem       \* the idempotency keys that have a marker

contractVars == <<asset, custody, idem>>

\* The entries GetCustodyHistory returns, in key order, as far as readers of
\* the log tell them apart.
View(e) == [hash |-> e.hash, key |-> e.key, new |-> e.new, signer |-> e.signer]

Latest(a) == IF asset[a] = NoAsset THEN 0 ELSE asset[a].seq

GetCustodyHistory(a) == [n \in 1..Latest(a) |-> custody[<<a, n>>]]

Log == INSTANCE CustodyLog WITH
          created <- {a \in Assets : asset[a] # NoAsset},
          log <- [a \in Assets |-> [n \in 1..Latest(a) |-> View(custody[<<a, n>>])]]

Asset == [status : Log!Lifecycle, seq : 0..MaxSequence, hash : Hashes \cup {NoHash}]

\* sig is what both halves of the hybrid signature cover: the signing context
\* (transaction type and id; the other fields are fixed) and the payload hash.
CustodyEvent == [asset : Assets, seq : 1..MaxSequence, hash : Hashes,
                 prev : Hashes \cup {NoHash}, key : Keys, new : Log!Lifecycle,
                 signer : Signers, sig : [type : Log!Lifecycle, id : Assets, hash : Hashes]]

ASSUME AssetAssumption ==
    /\ MaxSequence \in Nat \ {0}
    /\ NoHash \notin Hashes
    /\ NoAsset \notin Asset
    /\ NoAsset \notin CustodyEvent

Init ==
    /\ asset = [a \in Assets |-> NoAsset]
    /\ custody = [k \in Assets \X (1..MaxSequence) |-> NoAsset]
    /\ idem = {}

CreateAsset(a) ==
    /\ asset[a] = NoAsset
    /\ asset' = [asset EXCEPT ![a] = [status |-> "CREATED", seq |-> 0, hash |-> NoHash]]
    /\ UNCHANGED <<custody, idem>>

\* A faulty variant that leaves the lifecycle to the API.
RecordAcceptsAnyStatus(e) ==
    /\ asset[e.asset] # NoAsset
    /\ e.seq = asset[e.asset].seq + 1
    /\ e.prev = asset[e.asset].hash
    /\ e.key \notin idem

\* The checks of RecordCustodyEvent that need the state; the field checks
\* (ids, suite and signatures present) hold of everything the API queues.
RecordAccepts(e) ==
    /\ asset[e.asset] # NoAsset
    /\ Log!isLifecycleTransitionAllowed(asset[e.asset].status, e.new)
    /\ e.seq = asset[e.asset].seq + 1
    /\ e.prev = asset[e.asset].hash
    /\ e.key \notin idem

\* The event, its marker and the header are written together.
RecordCustodyEvent(e) ==
    /\ RecordAccepts(e)
    /\ custody' = [custody EXCEPT ![<<e.asset, e.seq>>] = e]
    /\ idem' = idem \cup {e.key}
    /\ asset' = [asset EXCEPT ![e.asset] = [status |-> e.new, seq |-> e.seq, hash |-> e.hash]]

Next ==
    \/ \E a \in Assets : CreateAsset(a)
    \/ \E e \in CustodyEvent : RecordCustodyEvent(e)

Spec == Init /\ [][Next]_contractVars

-----------------------------------------------------------------------------
(* Properties *)

\* The contract's O(1) checks against the header implement the append-only log:
\* seen through GetCustodyHistory, every committed invocation registers an asset
\* or appends one entry along an edge of the lifecycle, and nothing that was
\* readable is ever replaced.
ImplementsCustodyLog == Log!LogSpec
=============================================================================
