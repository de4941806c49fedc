------------------------------ MODULE CaAdmin ------------------------------
(***************************************************************************)
(* The CA directory and the ca-admin commands that change it               *)
(* (ttd/tools/ca-admin): issued.jsonl, to which issue appends a line, and  *)
(* ledger.json, which revoke and crl load, change and write back as a      *)
(* whole, without a lock.  Every command is a process of its own; the TTD  *)
(* server starts one per call, so commands overlap, and kills it when its  *)
(* time is up.                                                             *)
(***************************************************************************)
EXTENDS Integers, FiniteSets

CONSTANTS
    Serials,    \* serial numbers, fresh for every certificate
    Commands,   \* who runs commands, one at a time each
    None        \* nothing loaded

\* What ledger.json and a CRL hold.
Ledger == [revoked : SUBSET Serials, number : Nat]

ASSUME CaAssumption == None \notin Ledger

VARIABLES
    issued,     \* serials in issued.jsonl
    ledger,     \* ledger.json: revoked serials and the number of the last CRL
    public,     \* public/crl.pem
    loaded,     \* the ledger a running command works on, or None
    overlap     \* auxiliary: a command began while another one was at work

caVars == <<issued, ledger, public, loaded, overlap>>

Empty == [revoked |-> {}, number |-> 0]

\* Store.Init
CaInit ==
    /\ issued = {}
    /\ ledger = Empty
    /\ public = Empty
    /\ loaded = [p \in Commands |-> None]
    /\ overlap = FALSE

cmdIssue(s) ==
    /\ s \notin issued
    /\ issued' = issued \cup {s}
    /\ UNCHANGED <<ledger, public, loaded, overlap>>

loadLedger(p) ==
    /\ loaded[p] = None
    /\ loaded' = [loaded EXCEPT ![p] = ledger]
    /\ overlap' = (overlap \/ \E q \in Commands : loaded[q] # None)
    /\ UNCHANGED <<issued, ledger, public>>

saveLedger(p, l) ==
    /\ ledger' = l
    /\ loaded' = [loaded EXCEPT ![p] = None]
    /\ UNCHANGED <<issued, overlap>>

\* A faulty variant that saves a new ledger.
cmdRevokeOverwrites(p, s) ==
    /\ loaded[p] # None
    /\ saveLedger(p, [Empty EXCEPT !.revoked = {s}])
    /\ UNCHANGED public

\* The rest of cmdRevoke.  A serial that is revoked already is an error and
\* leaves the file alone.
cmdRevoke(p, s) ==
    /\ loaded[p] # None
    /\ saveLedger(p, IF s \in loaded[p].revoked THEN ledger
                     ELSE [loaded[p] EXCEPT !.revoked = @ \cup {s}])
    /\ UNCHANGED public

\* cmdCRL signs a CRL with the next number, publishes it, then saves the number.
NextCRL(l) == [l EXCEPT !.number = @ + 1]

cmdCRLPublish(p) ==
    /\ loaded[p] # None
    /\ public' = NextCRL(loaded[p])
    /\ UNCHANGED <<issued, ledger, loaded, overlap>>

cmdCRLSave(p) ==
    /\ loaded[p] # None
    /\ saveLedger(p, NextCRL(loaded[p]))
    /\ UNCHANGED public

\* The command is killed or fails.
Killed(p) ==
    /\ loaded' = [loaded EXCEPT ![p] = None]
    /\ UNCHANGED <<issued, ledger, public, overlap>>
=============================================================================
