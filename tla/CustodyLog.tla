----------------------------- MODULE CustodyLog -----------------------------
(***************************************************************************)
(* What the asset ledger promises its readers (PRD 5.2): every asset has   *)
(* one log of custody events, to which events are only ever appended; an   *)
(* event takes the asset along an edge of the lifecycle graph, and an      *)
(* idempotency key is used by one event of one asset.                      *)
(***************************************************************************)
EXTENDS Integers, Sequences

CONSTANTS
    Assets,    \* asset ids
    Hashes,    \* payload hashes
    Keys,      \* idempotency keys
    Signers    \* signing identities

VARIABLES
    created,   \* the assets that exist
    log        \* asset -> its custody events, oldest first

logVars == <<created, log>>

Lifecycle == {"CREATED", "RECEIVED", "INSPECTED", "STORED", "ISSUED",
              "TRANSFERRED", "MAINTENANCE", "RETURNED", "RETIRED"}

\* The graph that allowedLifecycleTransitions spells out; nothing leaves RETIRED.
allowedLifecycleTransitions ==
    {<<"CREATED", "RECEIVED">>, <<"RECEIVED", "INSPECTED">>,
     <<"INSPECTED", "STORED">>, <<"INSPECTED", "MAINTENANCE">>,
     <<"STORED", "ISSUED">>, <<"STORED", "MAINTENANCE">>, <<"STORED", "RETIRED">>,
     <<"ISSUED", "TRANSFERRED">>, <<"ISSUED", "RETURNED">>,
     <<"TRANSFERRED", "RECEIVED">>, <<"TRANSFERRED", "MAINTENANCE">>,
     <<"MAINTENANCE", "RETURNED">>, <<"MAINTENANCE", "STORED">>,
     <<"RETURNED", "STORED">>, <<"RETURNED", "INSPECTED">>}

isLifecycleTransitionAllowed(current, next) == <<current, next>> \in allowedLifecycleTransitions

Entry == [hash : Hashes, key : Keys, new : Lifecycle, signer : Signers]

LogInit ==
    /\ created = {}
    /\ log = [a \in Assets |-> <<>>]

StatusIn(entries) == IF entries = <<>> THEN "CREATED" ELSE entries[Len(entries)].new

\* The entries that may follow when an asset has the given status.
EntriesAfter(status) == {entry \in Entry : isLifecycleTransitionAllowed(status, entry.new)}

UsedKeys == UNION {{log[a][n].key : n \in DOMAIN log[a]} : a \in Assets}

Register(a) ==
    /\ a \notin created
    /\ created' = created \cup {a}
    /\ UNCHANGED log

Extend(a, entry) ==
    /\ a \in created
    /\ entry.key \notin UsedKeys
    /\ log' = [log EXCEPT ![a] = Append(@, entry)]
    /\ UNCHANGED created

LogNext ==
    \E a \in Assets :
        \/ Register(a)
        \/ \E entry \in EntriesAfter(StatusIn(log[a])) : Extend(a, entry)

LogSpec == LogInit /\ [][LogNext]_logVars
=============================================================================
