------------------------- MODULE AssetIndexerProofs -------------------------
(***************************************************************************)
(* The asset contract implements the append-only custody log, and the API, *)
(* its outbox and the audit keep their promises around it, for every set   *)
(* of assets, keys, hashes, signers and requests, every number of events   *)
(* and any number of lost replies.                                         *)
(*                                                                         *)
(* The contract compares an event with the header only.  The refinement    *)
(* needs what ties the header to the stored events: HeaderIsNewest.  The   *)
(* properties of the whole path need what a request knows when it inserts  *)
(* (Numbered), that every queued event is in Postgres (Queued) and how far *)
(* an audit has got (AuditInv).                                            *)
(*                                                                         *)
(* Then the indexer's listener, which follows the events of such a         *)
(* contract, for any ledger, any blocks and any number of failures.        *)
(***************************************************************************)
EXTENDS AssetCustody, Indexer, TLAPS

\* A function on 1..n is a sequence.
LEMMA FunctionSeq ==
    ASSUME NEW S, NEW n \in Nat, NEW s \in [1..n -> S]
    PROVE  s \in Seq(S) /\ Len(s) = n
  OBVIOUS

(* The contract *)

TypeOK ==
    /\ asset \in [Assets -> Asset \cup {NoAsset}]
    /\ custody \in [Assets \X (1..MaxSequence) -> CustodyEvent \cup {NoAsset}]
    /\ idem \subseteq Keys

\* The header carries the status of the newest stored event, the events up to
\* it are there, and their keys have markers.
HeaderIsNewest ==
    \A a \in Assets : asset[a] # NoAsset =>
        /\ asset[a].seq = 0 => asset[a].status = "CREATED"
        /\ asset[a].seq # 0 => asset[a].status = custody[<<a, asset[a].seq>>].new
        /\ \A n \in 1..asset[a].seq : /\ custody[<<a, n>>] \in CustodyEvent
                                      /\ custody[<<a, n>>].key \in idem

IInv == TypeOK /\ HeaderIsNewest

\* A function on 1..k is a sequence of length k.
LEMMA FunctionIsSequence ==
    ASSUME NEW S, NEW k \in Nat, NEW f \in [1..k -> S]
    PROVE  f \in Seq(S) /\ Len(f) = k /\ DOMAIN f = 1..k
  OBVIOUS

\* The invariant holds in the empty world state.
LEMMA InitIInv == Init => IInv
  BY AssetAssumption, Zenon DEF Init, IInv, TypeOK, HeaderIsNewest

\* CreateAsset puts a header with no events behind it.
LEMMA CreateIInv ==
    ASSUME IInv, NEW a \in Assets, CreateAsset(a)
    PROVE  IInv'
  <1>1. "CREATED" \in Log!Lifecycle
    BY Zenon DEF Log!Lifecycle
  <1>2. [status |-> "CREATED", seq |-> 0, hash |-> NoHash] \in Asset
    BY <1>1, AssetAssumption DEF Asset
  <1>3. TypeOK'
    BY <1>2, Zenon DEF IInv, TypeOK, CreateAsset
  <1>4. HeaderIsNewest'
    BY AssetAssumption DEF IInv, TypeOK, HeaderIsNewest, CreateAsset
  <1> QED BY <1>3, <1>4, Zenon DEF IInv

\* RecordCustodyEvent moves the header, the event and the marker together.
LEMMA RecordIInv ==
    ASSUME IInv, NEW e \in CustodyEvent, RecordCustodyEvent(e)
    PROVE  IInv'
  <1>1. /\ e.asset \in Assets /\ e.seq \in 1..MaxSequence /\ e.hash \in Hashes
        /\ e.key \in Keys /\ e.new \in Log!Lifecycle
    BY Zenon DEF CustodyEvent
  <1>2. [status |-> e.new, seq |-> e.seq, hash |-> e.hash] \in Asset
    BY <1>1, AssetAssumption DEF Asset
  <1>3. TypeOK'
    BY <1>1, <1>2, Zenon DEF IInv, TypeOK, RecordCustodyEvent
  <1>4. ASSUME NEW a \in Assets, asset'[a] # NoAsset
        PROVE  /\ asset'[a].seq = 0 => asset'[a].status = "CREATED"
               /\ asset'[a].seq # 0 => asset'[a].status = custody'[<<a, asset'[a].seq>>].new
               /\ \A n \in 1..asset'[a].seq : /\ custody'[<<a, n>>] \in CustodyEvent
                                              /\ custody'[<<a, n>>].key \in idem'
    <2>1. CASE a = e.asset
      <3>1. /\ asset'[a].seq = e.seq /\ asset'[a].status = e.new
            /\ custody'[<<a, e.seq>>] = e /\ e.key \in idem'
        BY <1>1, <2>1, Zenon DEF IInv, TypeOK, RecordCustodyEvent
      <3>2. asset[a] # NoAsset /\ e.seq = asset[a].seq + 1 /\ asset[a].seq \in Nat
        BY <2>1, <1>1, AssetAssumption DEF IInv, TypeOK, RecordCustodyEvent, RecordAccepts, Asset
      <3>3. ASSUME NEW n \in 1..asset[a].seq
            PROVE  custody'[<<a, n>>] \in CustodyEvent /\ custody'[<<a, n>>].key \in idem'
        <4>1. custody'[<<a, n>>] = custody[<<a, n>>]
          BY <3>2, <3>3, <1>1, AssetAssumption DEF IInv, TypeOK, RecordCustodyEvent
        <4>2. idem \subseteq idem'
          BY Zenon DEF RecordCustodyEvent
        <4> QED BY <4>1, <4>2, <3>2, <3>3, Zenon DEF IInv, HeaderIsNewest
      <3> QED BY <3>1, <3>2, <3>3, <1>1
    <2>2. CASE a # e.asset
      <3>1. asset'[a] = asset[a] /\ idem \subseteq idem'
        BY <2>2, <1>1, Zenon DEF IInv, TypeOK, RecordCustodyEvent
      <3>2. \A n : custody'[<<a, n>>] = custody[<<a, n>>]
        BY <2>2, <1>1 DEF IInv, TypeOK, RecordCustodyEvent
      <3> QED BY <3>1, <3>2, <1>4, Zenon DEF IInv, HeaderIsNewest
    <2> QED BY <2>1, <2>2, Zenon
  <1>5. HeaderIsNewest'
    BY <1>4, Zenon DEF HeaderIsNewest
  <1> QED BY <1>3, <1>5, Zenon DEF IInv

\* The invariant is inductive.
LEMMA StepIInv == IInv /\ [Next]_contractVars => IInv'
  <1> SUFFICES ASSUME IInv, [Next]_contractVars PROVE IInv'
    BY Zenon
  <1>1. CASE \E a \in Assets : CreateAsset(a)
    BY <1>1, CreateIInv, Zenon
  <1>2. CASE \E e \in CustodyEvent : RecordCustodyEvent(e)
    BY <1>2, RecordIInv, Zenon
  <1>3. CASE UNCHANGED contractVars
    BY <1>3, Zenon DEF IInv, TypeOK, HeaderIsNewest, contractVars
  <1> QED BY <1>1, <1>2, <1>3, Zenon DEF Next

\* An empty world state holds an empty log.
LEMMA InitRefines == Init => Log!LogInit
  <1> SUFFICES ASSUME Init PROVE Log!LogInit
    BY Zenon
  <1>1. ASSUME NEW a \in Assets PROVE [n \in 1..Latest(a) |-> View(custody[<<a, n>>])] = <<>>
    <2>1. Latest(a) = 0
      BY Zenon DEF Init, Latest
    <2> QED BY <2>1
  <1> QED BY <1>1, Zenon DEF Init, Log!LogInit

\* CreateAsset is Register: the new asset's log is the empty one it had.
LEMMA CreateRefines ==
    ASSUME IInv, NEW a \in Assets, CreateAsset(a)
    PROVE  Log!Register(a)
  <1>1. ASSUME NEW b \in Assets PROVE Latest(b)' = Latest(b)
    BY AssetAssumption, Zenon DEF CreateAsset, Latest, IInv, TypeOK
  <1>2. custody' = custody
    BY Zenon DEF CreateAsset
  <1>3. [b \in Assets |-> [n \in 1..Latest(b)' |-> View(custody'[<<b, n>>])]]
          = [b \in Assets |-> [n \in 1..Latest(b) |-> View(custody[<<b, n>>])]]
    BY <1>1, <1>2, Zenon
  <1>4. {b \in Assets : asset'[b] # NoAsset} = {b \in Assets : asset[b] # NoAsset} \cup {a}
    <2>1. [status |-> "CREATED", seq |-> 0, hash |-> NoHash] \in Asset
      BY AssetAssumption DEF Asset, Log!Lifecycle
    <2> QED BY <2>1, AssetAssumption, Zenon DEF CreateAsset, IInv, TypeOK
  <1>5. a \notin {b \in Assets : asset[b] # NoAsset}
    BY Zenon DEF CreateAsset
  <1> QED BY <1>3, <1>4, <1>5, Zenon DEF Log!Register, View

\* RecordCustodyEvent is Extend: the header it checks against stands for the
\* end of the log, and the markers for the keys in all logs.
LEMMA RecordRefines ==
    ASSUME IInv, NEW e \in CustodyEvent, RecordCustodyEvent(e)
    PROVE  /\ View(e) \in Log!EntriesAfter(Log!StatusIn(
                   [n \in 1..Latest(e.asset) |-> View(custody[<<e.asset, n>>])]))
           /\ Log!Extend(e.asset, View(e))
  <1> DEFINE a == e.asset
             k == asset[a].seq
             L(b) == [n \in 1..Latest(b) |-> View(custody[<<b, n>>])]
  <1>1. /\ a \in Assets /\ e.seq \in 1..MaxSequence /\ e.hash \in Hashes
        /\ e.key \in Keys /\ e.new \in Log!Lifecycle /\ e.signer \in Signers
    BY Zenon DEF CustodyEvent
  <1>2. View(e) \in Log!Entry
    BY <1>1, Zenon DEF View, Log!Entry, Log!Lifecycle
  <1>3. /\ asset[a] # NoAsset /\ k \in Nat /\ e.seq = k + 1 /\ e.key \notin idem
        /\ Log!isLifecycleTransitionAllowed(asset[a].status, e.new)
        /\ Latest(a) = k
    BY <1>1, AssetAssumption
       DEF IInv, TypeOK, Asset, RecordCustodyEvent, RecordAccepts, Latest
  <1>4. Len(L(a)) = k /\ L(a) \in Seq(Log!Entry)
    <2>1. ASSUME NEW n \in 1..k PROVE View(custody[<<a, n>>]) \in Log!Entry
      BY <1>1, <1>3, Zenon DEF IInv, HeaderIsNewest, View, CustodyEvent, Log!Entry, Log!Lifecycle
    <2>2. L(a) = [n \in 1..k |-> View(custody[<<a, n>>])]
      BY <1>3, Zenon
    <2>3. L(a) \in [1..k -> Log!Entry]
      BY <2>1, <2>2, Zenon
    <2>4. k \in Nat
      BY <1>3, Zenon
    <2> HIDE DEF L, k, a
    <2> QED BY ONLY <2>3, <2>4, FunctionSeq
  <1>5. Log!StatusIn(L(a)) = asset[a].status
    <2>1. CASE k = 0
      <3>1. L(a) = <<>>
        BY <2>1, <1>3
      <3> QED BY <3>1, <2>1, <1>1, <1>3, Zenon DEF Log!StatusIn, IInv, HeaderIsNewest
    <2>2. CASE k # 0
      <3>1. L(a) # <<>> /\ L(a)[k] = View(custody[<<a, k>>])
        BY <2>2, <1>3, <1>4
      <3>2. Log!StatusIn(L(a)) = L(a)[k].new
        BY <3>1, <1>4, Zenon DEF Log!StatusIn
      <3>3. View(custody[<<a, k>>]).new = custody[<<a, k>>].new
        BY Zenon DEF View
      <3>4. asset[a].status = custody[<<a, k>>].new
        BY <2>2, <1>1, <1>3, Zenon DEF IInv, HeaderIsNewest
      <3> QED BY <3>1, <3>2, <3>3, <3>4, Zenon
    <2> QED BY <2>1, <2>2, Zenon
  <1>6. ASSUME NEW b \in Assets, NEW n \in DOMAIN L(b) PROVE L(b)[n].key # e.key
    <2>1. n \in 1..Latest(b) /\ L(b)[n] = View(custody[<<b, n>>])
      BY Zenon
    <2>2. asset[b] # NoAsset /\ n \in 1..asset[b].seq
      BY <2>1, AssetAssumption DEF Latest
    <2>3. custody[<<b, n>>].key \in idem
      BY <2>2, Zenon DEF IInv, HeaderIsNewest
    <2> QED BY <2>1, <2>3, <1>3, Zenon DEF View
  <1>7. ASSUME NEW b \in Assets, b # a
        PROVE  [n \in 1..Latest(b)' |-> View(custody'[<<b, n>>])] = L(b)
    <2>1. Latest(b)' = Latest(b)
      BY <1>1, <1>7, Zenon DEF RecordCustodyEvent, Latest, IInv, TypeOK
    <2>2. ASSUME NEW n \in 1..Latest(b) PROVE custody'[<<b, n>>] = custody[<<b, n>>]
      <3>1. n \in 1..MaxSequence
        BY AssetAssumption DEF Latest, IInv, TypeOK, Asset
      <3>2. <<b, n>> \in Assets \X (1..MaxSequence)
        BY <3>1, Zenon
      <3>3. <<b, n>> # <<e.asset, e.seq>>
        BY <1>7, Zenon
      <3> QED BY <3>2, <3>3, Zenon DEF RecordCustodyEvent, IInv, TypeOK
    <2> QED BY <2>1, <2>2, Zenon
  <1>8. [n \in 1..Latest(a)' |-> View(custody'[<<a, n>>])] = Append(L(a), View(e))
    <2>1. Latest(a)' = k + 1
      BY <1>1, <1>3, AssetAssumption DEF RecordCustodyEvent, Latest, IInv, TypeOK, Asset
    <2>2. custody'[<<a, k + 1>>] = e
      BY <1>1, <1>3, Zenon DEF RecordCustodyEvent, IInv, TypeOK
    <2>3. ASSUME NEW n \in 1..k PROVE custody'[<<a, n>>] = custody[<<a, n>>]
      <3>1. n # e.seq
        BY <1>3
      <3>2. <<a, n>> # <<e.asset, e.seq>>
        BY <3>1, Zenon
      <3>3. n \in 1..MaxSequence
        <4> HIDE DEF a, k
        <4> QED BY ONLY <1>1, <1>3, <2>3, AssetAssumption
      <3>4. <<a, n>> \in Assets \X (1..MaxSequence)
        BY <3>3, <1>1, Zenon
      <3> QED BY <3>2, <3>4, Zenon DEF RecordCustodyEvent, IInv, TypeOK
    <2>4. Append(L(a), View(e)) = [n \in 1..(k + 1) |-> IF n = k + 1 THEN View(e) ELSE L(a)[n]]
      BY <1>2, <1>3, <1>4
    <2>5. \A n \in 1..k : L(a)[n] = View(custody[<<a, n>>])
      BY <1>3, Zenon
    <2>6. ASSUME NEW n \in 1..(k + 1)
          PROVE  View(custody'[<<a, n>>]) = (IF n = k + 1 THEN View(e) ELSE L(a)[n])
      <3>1. CASE n = k + 1
        BY <3>1, <2>2, Zenon
      <3>2. CASE n # k + 1
        <4>1. n \in 1..k
          BY <3>2, <1>3
        <4> QED BY <4>1, <3>2, <2>3, <2>5, Zenon
      <3> QED BY <3>1, <3>2, Zenon
    <2> HIDE DEF L
    <2> QED BY <2>1, <2>4, <2>6, Zenon
  <1>9. {b \in Assets : asset'[b] # NoAsset} = {b \in Assets : asset[b] # NoAsset}
    BY <1>1, <1>3, AssetAssumption DEF RecordCustodyEvent, IInv, TypeOK, Asset
  <1>10. [b \in Assets |-> [n \in 1..Latest(b)' |-> View(custody'[<<b, n>>])]]
           = [[b \in Assets |-> L(b)] EXCEPT ![a] = Append(@, View(e))]
    <2> HIDE DEF L
    <2> QED BY <1>1, <1>7, <1>8, Zenon
  <1>11. e.key \notin Log!UsedKeys
    BY <1>6, ZenonT(40) DEF Log!UsedKeys
  <1>12. View(e).new = e.new /\ View(e).key = e.key
    BY Zenon DEF View
  <1>13. a \in {b \in Assets : asset[b] # NoAsset}
    BY <1>1, <1>3, Zenon
  <1>14. View(e) \in Log!EntriesAfter(Log!StatusIn(L(a)))
    BY <1>2, <1>3, <1>5, <1>12, Zenon DEF Log!EntriesAfter
  <1> QED BY <1>1, <1>9, <1>10, <1>11, <1>12, <1>13, <1>14, Zenon DEF Log!Extend

\* Every step of the contract is a step of the log or leaves it as it is.
LEMMA StepRefines == IInv /\ [Next]_contractVars => [Log!LogNext]_(Log!logVars)
  <1> SUFFICES ASSUME IInv, [Next]_contractVars PROVE [Log!LogNext]_(Log!logVars)
    BY Zenon
  <1>1. ASSUME NEW a \in Assets, CreateAsset(a) PROVE Log!LogNext
    BY <1>1, CreateRefines, Zenon DEF Log!LogNext
  <1>2. ASSUME NEW e \in CustodyEvent, RecordCustodyEvent(e) PROVE Log!LogNext
    <2>1. e.asset \in Assets
      BY Zenon DEF CustodyEvent
    <2> QED BY <2>1, <1>2, RecordRefines, Zenon DEF Log!LogNext
  <1>3. CASE UNCHANGED contractVars
    BY <1>3, Zenon DEF contractVars, Log!logVars, Latest, View
  <1> QED BY <1>1, <1>2, <1>3, Zenon DEF Next

\* The asset contract implements the custody log: whatever invocations are
\* committed, GetCustodyHistory shows logs that only grow, by one entry at a
\* time, along the lifecycle graph, with an idempotency key used once.
THEOREM ContractImplementsLog == Spec => ImplementsCustodyLog
  <1>1. Spec => []IInv
    BY InitIInv, StepIInv, PTL DEF Spec
  <1> QED BY <1>1, InitRefines, StepRefines, PTL DEF Spec, ImplementsCustodyLog, Log!LogSpec

-----------------------------------------------------------------------------
(* API, outbox and audit *)

DbTypes ==
    /\ dbAssets \subseteq Assets
    /\ dbCustody \subseteq CustodyEvent
    /\ request \in [Requests -> CustodyEvent \cup {Idle}]
    /\ queue \in Seq(Row)
    /\ revoked \subseteq Signers

\* An event of an API request is signed over itself, and follows a row that is
\* in Postgres or is the first of its asset.
Numbered(e) ==
    /\ e.sig = SignHybrid(e.asset, e.new, e.hash)
    /\ \/ e.seq = 1 /\ e.prev = NoHash
       \/ \E f \in RowsOf(e.asset) : e.seq = f.seq + 1 /\ e.prev = f.hash

\* The unique constraints, and the chain they leave.
DbInv ==
    /\ \A e, f \in dbCustody : e.asset = f.asset /\ e.seq = f.seq => e = f
    /\ \A e \in dbCustody : Numbered(e)
    /\ \A r \in Requests : request[r] # Idle => Numbered(request[r])
    /\ \A e \in dbCustody : \A n \in 1..e.seq : \E f \in RowsOf(e.asset) : f.seq = n

\* A row of the outbox carries an asset, or an event that is in Postgres.
Queued ==
    \A i \in DOMAIN queue :
        /\ queue[i].fn = "CreateAsset" => queue[i].arg \in Assets
        /\ queue[i].fn = "RecordCustodyEvent" => queue[i].arg \in dbCustody

\* The ledger's events are rows of Postgres, chained to the header's hash.
LedgerInv ==
    \A a \in Assets :
        /\ \A n \in 1..Latest(a) : custody[<<a, n>>] \in RowsOf(a) /\ custody[<<a, n>>].seq = n
        /\ asset[a] # NoAsset =>
              asset[a].hash = IF asset[a].seq = 0 THEN NoHash ELSE custody[<<a, asset[a].seq>>].hash
        /\ \A n \in 1..Latest(a) :
              custody[<<a, n>>].prev = IF n = 1 THEN NoHash ELSE custody[<<a, n - 1>>].hash

AuditRecord ==
    [asset : Assets, history : Seq(CustodyEvent), n : Nat \ {0}, prev : Hashes \cup {NoHash},
     valid : BOOLEAN, before : SUBSET Signers]

\* What the loop of Verifier.Asset has established before its n-th turn.
AuditInv ==
    audit # Idle =>
        /\ audit \in AuditRecord
        /\ audit.before \subseteq revoked
        /\ Len(audit.history) <= Latest(audit.asset)
        /\ audit.n <= Len(audit.history) + 1
        /\ \A n \in DOMAIN audit.history : audit.history[n] = custody[<<audit.asset, n>>]
        /\ audit.prev = IF audit.n = 1 THEN NoHash ELSE audit.history[audit.n - 1].hash
        /\ audit.valid => \A m \in 1..(audit.n - 1) : audit.history[m].signer \notin audit.before
        /\ ~ audit.valid => \E m \in 1..(audit.n - 1) : audit.history[m].signer \in revoked

CustodyInv == IInv /\ DbTypes /\ DbInv /\ Queued /\ LedgerInv /\ AuditInv

\* Nothing has happened yet.
LEMMA InitCustodyInv == CustodyInit => CustodyInv
  <1> SUFFICES ASSUME CustodyInit PROVE CustodyInv
    BY Zenon
  <1>1. IInv
    BY InitIInv, Zenon DEF CustodyInit
  <1>2. DbTypes
    BY DEF CustodyInit, DbTypes
  <1>4. DbInv
    BY Zenon DEF CustodyInit, DbInv
  <1>5. Queued
    BY DEF CustodyInit, Queued
  <1>6. LedgerInv
    <2>1. ASSUME NEW a \in Assets PROVE 1..Latest(a) = {} /\ asset[a] = NoAsset
      <3>1. Latest(a) = 0 /\ asset[a] = NoAsset
        BY Zenon DEF CustodyInit, Init, Latest
      <3> QED BY <3>1
    <2> QED BY <2>1, Zenon DEF LedgerInv
  <1>7. AuditInv
    BY Zenon DEF CustodyInit, AuditInv
  <1> QED BY <1>1, <1>2, <1>4, <1>5, <1>6, <1>7, Zenon DEF CustodyInv

\* Appending a row to the outbox keeps it typed, and adds only that row.
LEMMA EnqueueRow ==
    ASSUME DbTypes, NEW f \in {"CreateAsset", "RecordCustodyEvent"},
           NEW x \in Assets \cup CustodyEvent, enqueueOutbox(f, x)
    PROVE  /\ queue' \in Seq(Row)
           /\ \A i \in DOMAIN queue' :
                 \/ i \in DOMAIN queue /\ queue'[i] = queue[i]
                 \/ queue'[i].fn = f /\ queue'[i].arg = x
  <1> DEFINE r == [fn |-> f, arg |-> x, attempts |-> 0, status |-> "pending"]
  <1>1. r \in Row /\ r.fn = f /\ r.arg = x
    BY Zenon DEF Row
  <1>2. queue \in Seq(Row) /\ queue' = Append(queue, r)
    BY Zenon DEF DbTypes, enqueueOutbox
  <1> HIDE DEF r
  <1>3. /\ queue' \in Seq(Row) /\ Len(queue') = Len(queue) + 1
        /\ queue'[Len(queue) + 1] = r
        /\ \A i \in 1..Len(queue) : queue'[i] = queue[i]
    BY <1>1, <1>2
  <1> QED BY <1>1, <1>2, <1>3

\* A submission changes neither the function nor the argument of a row.
LEMMA UpdateRow ==
    ASSUME DbTypes, NEW i \in DOMAIN queue, NEW n \in Nat,
           NEW st \in {"pending", "sent", "dead_letter"},
           queue' = [queue EXCEPT ![i] = [@ EXCEPT !.status = st, !.attempts = n]]
    PROVE  /\ queue' \in Seq(Row)
           /\ DOMAIN queue' = DOMAIN queue
           /\ \A j \in DOMAIN queue : queue'[j].fn = queue[j].fn /\ queue'[j].arg = queue[j].arg
  <1> DEFINE r == [queue[i] EXCEPT !.status = st, !.attempts = n]
  <1>1. queue \in Seq(Row)
    BY Zenon DEF DbTypes
  <1>4. queue[i] \in Row
    BY <1>1
  <1>2. r \in Row /\ r.fn = queue[i].fn /\ r.arg = queue[i].arg
    BY <1>4, Zenon DEF Row
  <1>3. queue' = [queue EXCEPT ![i] = r]
    BY Zenon
  <1> HIDE DEF r
  <1> QED BY <1>1, <1>2, <1>3

\* What a submission does to its row, whatever comes of it.
LEMMA SubmitRow ==
    ASSUME CustodyInv, NEW i \in DOMAIN queue,
           \/ queue' = [queue EXCEPT ![i].status = "sent"]
           \/ markFailed(i)
    PROVE  /\ queue' \in Seq(Row)
           /\ DOMAIN queue' = DOMAIN queue
           /\ \A j \in DOMAIN queue : queue'[j].fn = queue[j].fn /\ queue'[j].arg = queue[j].arg
  <1>1. DbTypes /\ queue[i] \in Row /\ queue[i].attempts \in Nat
    <2>1. DbTypes /\ queue \in Seq(Row)
      BY Zenon DEF CustodyInv, DbTypes
    <2>2. queue[i] \in Row
      BY <2>1
    <2> QED BY <2>1, <2>2, Zenon DEF Row
  <1>2. CASE queue' = [queue EXCEPT ![i].status = "sent"]
    <2>1. [queue[i] EXCEPT !.status = "sent"]
            = [queue[i] EXCEPT !.status = "sent", !.attempts = queue[i].attempts]
      BY <1>1, Zenon DEF Row
    <2>2. queue' = [queue EXCEPT ![i] = [@ EXCEPT !.status = "sent", !.attempts = queue[i].attempts]]
      BY <1>2, <2>1, Zenon
    <2> QED BY <1>1, <2>2, UpdateRow, Zenon
  <1>3. CASE markFailed(i)
    <2> DEFINE st == IF queue[i].attempts + 1 >= MaxAttempts THEN "dead_letter" ELSE "pending"
               n == queue[i].attempts + 1
    <2>1. queue' = [queue EXCEPT ![i] = [@ EXCEPT !.status = st, !.attempts = n]]
      <3>1. queue \in Seq(Row)
        BY <1>1, Zenon DEF DbTypes
      <3> QED BY <1>3, <3>1, Zenon DEF markFailed
    <2>2. st \in {"pending", "sent", "dead_letter"} /\ n \in Nat
      BY <1>1
    <2> HIDE DEF st, n
    <2> QED BY <1>1, <2>1, <2>2, UpdateRow, Zenon
  <1> QED BY <1>2, <1>3, Zenon

-----------------------------------------------------------------------------
(* Steps of the API *)

\* Rows are only added, so what a request has read stays true.
LEMMA NumberedStable ==
    ASSUME NEW e, Numbered(e), dbCustody \subseteq dbCustody'
    PROVE  Numbered(e)'
  BY Zenon DEF Numbered, RowsOf

\* Postgres and the requests as they are, the outbox perhaps not.
LEMMA DbFrame ==
    ASSUME CustodyInv, UNCHANGED <<dbCustody, request>>
    PROVE  DbInv'
  BY ZenonT(40) DEF CustodyInv, DbInv, Numbered, RowsOf

\* The ledger as it is.
LEMMA LedgerFrame ==
    ASSUME CustodyInv, UNCHANGED contractVars, dbCustody \subseteq dbCustody'
    PROVE  IInv' /\ LedgerInv'
  <1>1. IInv'
    BY Zenon DEF CustodyInv, IInv, TypeOK, HeaderIsNewest, contractVars
  <1>2. LedgerInv'
    BY DEF CustodyInv, LedgerInv, Latest, RowsOf, contractVars
  <1> QED BY <1>1, <1>2, Zenon

\* The audit as it is, keys and ledger as they are.
LEMMA AuditFrame ==
    ASSUME CustodyInv, UNCHANGED <<contractVars, auditVars>>
    PROVE  AuditInv'
  BY Zenon DEF CustodyInv, AuditInv, Latest, contractVars, auditVars

\* A new asset is queued.
LEMMA CreateCustodyInv ==
    ASSUME CustodyInv, NEW a \in Assets, ApiCreateAsset(a)
    PROVE  CustodyInv'
  <1>1. /\ enqueueOutbox("CreateAsset", a) /\ dbAssets' = dbAssets \cup {a}
        /\ UNCHANGED <<contractVars, dbCustody, request, auditVars>>
    BY Zenon DEF ApiCreateAsset
  <1>2. /\ queue' \in Seq(Row)
        /\ \A i \in DOMAIN queue' :
              \/ i \in DOMAIN queue /\ queue'[i] = queue[i]
              \/ queue'[i].fn = "CreateAsset" /\ queue'[i].arg = a
    BY <1>1, EnqueueRow, Zenon DEF CustodyInv
  <1>3. DbTypes'
    BY <1>1, <1>2, Zenon DEF CustodyInv, DbTypes, auditVars
  <1>4. Queued'
    BY <1>1, <1>2, Zenon DEF CustodyInv, Queued
  <1> QED BY <1>1, <1>3, <1>4, DbFrame, LedgerFrame, AuditFrame, Zenon DEF CustodyInv

\* A request has numbered its event after the newest row.
LEMMA ReadCustodyInv ==
    ASSUME CustodyInv, NEW r \in Requests, NEW a \in Assets, NEW h \in Hashes, NEW k \in Keys,
           NEW new \in RequestStatuses, NEW s \in Signers, ReadLast(r, a, h, k, new, s)
    PROVE  CustodyInv'
  <1>1. /\ UNCHANGED <<contractVars, dbAssets, dbCustody, queue, auditVars>>
        /\ \E last \in RowsOf(a) \cup {NoAsset} :
              /\ IF last = NoAsset THEN RowsOf(a) = {} ELSE IsLast(last) /\ last.seq < MaxSequence
              /\ request' = [request EXCEPT ![r] = Following(last, a, h, k, new, s)]
    BY Zenon DEF ReadLast
  <1>2. PICK last \in RowsOf(a) \cup {NoAsset} :
           /\ last # NoAsset => last.seq < MaxSequence
           /\ request' = [request EXCEPT ![r] = Following(last, a, h, k, new, s)]
    BY <1>1, Zenon
  <1> DEFINE e == Following(last, a, h, k, new, s)
  <1>3. last # NoAsset => last \in CustodyEvent /\ last \in RowsOf(a)
    BY <1>2, Zenon DEF CustodyInv, DbTypes, RowsOf
  <1>4. /\ e.seq \in 1..MaxSequence /\ e.prev \in Hashes \cup {NoHash}
        /\ e.asset = a /\ e.hash = h /\ e.key = k /\ e.new = new /\ e.signer = s
        /\ e.sig = SignHybrid(a, new, h)
        /\ last = NoAsset => e.seq = 1 /\ e.prev = NoHash
        /\ last # NoAsset => e.seq = last.seq + 1 /\ e.prev = last.hash
    BY <1>2, <1>3, AssetAssumption DEF Following, CustodyEvent
  <1>5. e \in CustodyEvent
    <2>1. new \in Log!Lifecycle
      BY CustodyAssumption, Zenon
    <2>2. SignHybrid(a, new, h) \in [type : Log!Lifecycle, id : Assets, hash : Hashes]
      BY <2>1, Zenon DEF SignHybrid
    <2> QED BY <1>4, <2>1, <2>2, Zenon DEF Following, CustodyEvent
  <1>6. Numbered(e)
    BY <1>3, <1>4, Zenon DEF Numbered
  <1> HIDE DEF e
  <1>7. DbTypes'
    BY <1>1, <1>2, <1>5, Zenon DEF CustodyInv, DbTypes, auditVars, e
  <1>8. ASSUME NEW q \in Requests, request'[q] # Idle PROVE Numbered(request'[q])
    BY <1>2, <1>6, <1>8, Zenon DEF CustodyInv, DbTypes, DbInv, e
  <1>9. DbInv'
    <2>1. \A x : Numbered(x)' <=> Numbered(x)
      BY <1>1, Zenon DEF Numbered, RowsOf
    <2>2. \A b : RowsOf(b)' = RowsOf(b)
      BY <1>1, Zenon DEF RowsOf
    <2> QED BY <1>1, <1>8, <2>1, <2>2, Zenon DEF CustodyInv, DbInv
  <1>10. Queued'
    BY <1>1, Zenon DEF CustodyInv, Queued
  <1> QED BY <1>1, <1>7, <1>9, <1>10, LedgerFrame, AuditFrame, Zenon DEF CustodyInv

\* The constraints let an event in only where the chain ends.
LEMMA InsertDb ==
    ASSUME CustodyInv, NEW r \in Requests, Insert(r)
    PROVE  DbInv'
  <1>1. PICK e \in CustodyEvent : e = request[r] /\ Numbered(e) /\ Unique(e)
    BY Zenon DEF Insert, CustodyInv, DbTypes, DbInv
  <1>2. PICK a \in Assets : a = e.asset /\ e.seq \in Nat /\ e.seq >= 1
    BY <1>1, AssetAssumption DEF CustodyEvent
  <1>3. dbCustody' = dbCustody \cup {e} /\ request' = [request EXCEPT ![r] = Idle]
    BY <1>1, Zenon DEF Insert
  <1>4. ASSUME NEW x, Numbered(x) PROVE Numbered(x)'
    BY <1>3, <1>4, NumberedStable, Zenon
  <1>5. \A b \in Assets : RowsOf(b) \subseteq RowsOf(b)'
    BY <1>3, Zenon DEF RowsOf
  <1>6. e \in RowsOf(a)'
    BY <1>2, <1>3, Zenon DEF RowsOf
  <1>7. ASSUME NEW f \in RowsOf(a)
        PROVE  /\ f \in CustodyEvent /\ f.seq \in Nat
               /\ \A n \in 1..f.seq : \E g \in RowsOf(a) : g.seq = n
    <2>1. f \in dbCustody /\ f.asset = a /\ f \in CustodyEvent
      BY Zenon DEF RowsOf, CustodyInv, DbTypes
    <2>2. f.seq \in Nat
      BY <2>1, AssetAssumption DEF CustodyEvent
    <2> QED BY <2>1, <2>2, Zenon DEF CustodyInv, DbInv
  <1>8. ASSUME NEW n \in 1..e.seq PROVE \E g \in RowsOf(a)' : g.seq = n
    <2>1. CASE n = e.seq
      BY <1>6, <2>1, Zenon
    <2>2. CASE n # e.seq
      <3>1. PICK f \in RowsOf(a) : e.seq = f.seq + 1
        BY <1>1, <1>2, <2>2 DEF Numbered
      <3>2. f.seq \in Nat /\ \A m \in 1..f.seq : \E g \in RowsOf(a) : g.seq = m
        BY <1>7, Zenon
      <3>3. n \in 1..f.seq
        BY <1>2, <2>2, <3>1, <3>2
      <3> QED BY <3>2, <3>3, <1>5, Zenon
    <2> QED BY <2>1, <2>2, Zenon
  <1>11. ASSUME NEW x \in dbCustody', NEW n \in 1..x.seq PROVE \E g \in RowsOf(x.asset)' : g.seq = n
    <2>1. CASE x = e
      BY <2>1, <1>2, <1>8, <1>11, Zenon
    <2>2. CASE x \in dbCustody
      <3>1. x.asset \in Assets
        BY <2>2, Zenon DEF CustodyInv, DbTypes, CustodyEvent
      <3> QED BY <2>2, <3>1, <1>5, <1>11, Zenon DEF CustodyInv, DbInv
    <2> QED BY <1>3, <2>1, <2>2, Zenon
  <1>12. \A x, y \in dbCustody' : x.asset = y.asset /\ x.seq = y.seq => x = y
    BY <1>1, <1>3 DEF CustodyInv, DbInv, Unique
  <1>13. \A x \in dbCustody' : Numbered(x)'
    BY <1>1, <1>3, <1>4, Zenon DEF CustodyInv, DbInv
  <1>14. ASSUME NEW q \in Requests, request'[q] # Idle PROVE Numbered(request[q])'
    <2>1. request'[q] = request[q] /\ request[q] # Idle
      BY <1>3, <1>14, Zenon DEF CustodyInv, DbTypes
    <2>2. PICK x : x = request[q] /\ Numbered(x)
      BY <2>1, Zenon DEF CustodyInv, DbInv
    <2>3. Numbered(x)' /\ request'[q] = x
      BY <1>4, <2>1, <2>2, Zenon
    <2> QED BY <2>3, Zenon DEF Numbered
  <1> QED BY <1>11, <1>12, <1>13, <1>14, Zenon DEF DbInv

\* The event and its outbox row are committed together.
LEMMA InsertCustodyInv ==
    ASSUME CustodyInv, NEW r \in Requests, Insert(r)
    PROVE  CustodyInv'
  <1>1. request[r] \in CustodyEvent
    BY Zenon DEF Insert, CustodyInv, DbTypes
  <1>2. /\ enqueueOutbox("RecordCustodyEvent", request[r])
        /\ dbCustody' = dbCustody \cup {request[r]}
        /\ request' = [request EXCEPT ![r] = Idle]
        /\ UNCHANGED <<contractVars, dbAssets, auditVars>>
    BY Zenon DEF Insert
  <1>3. /\ queue' \in Seq(Row)
        /\ \A i \in DOMAIN queue' :
              \/ i \in DOMAIN queue /\ queue'[i] = queue[i]
              \/ queue'[i].fn = "RecordCustodyEvent" /\ queue'[i].arg = request[r]
    BY <1>1, <1>2, EnqueueRow, Zenon DEF CustodyInv
  <1>4. DbTypes'
    BY <1>1, <1>2, <1>3, Zenon DEF CustodyInv, DbTypes, auditVars
  <1>5. Queued'
    BY <1>2, <1>3, Zenon DEF CustodyInv, Queued
  <1> QED BY <1>2, <1>4, <1>5, InsertDb, LedgerFrame, AuditFrame, Zenon DEF CustodyInv

\* A request that is given up leaves no trace.
LEMMA RollBackCustodyInv ==
    ASSUME CustodyInv, NEW r \in Requests, RollBack(r)
    PROVE  CustodyInv'
  <1>1. /\ request' = [request EXCEPT ![r] = Idle]
        /\ UNCHANGED <<contractVars, dbAssets, dbCustody, queue, auditVars>>
    BY Zenon DEF RollBack
  <1>2. DbTypes'
    BY <1>1, Zenon DEF CustodyInv, DbTypes, auditVars
  <1>3. DbInv'
    <2>1. \A x : Numbered(x)' <=> Numbered(x)
      BY <1>1, Zenon DEF Numbered, RowsOf
    <2>2. \A b : RowsOf(b)' = RowsOf(b)
      BY <1>1, Zenon DEF RowsOf
    <2>3. \A q \in Requests : request'[q] # Idle => request'[q] = request[q]
      BY <1>1, Zenon DEF CustodyInv, DbTypes
    <2> QED BY <1>1, <2>1, <2>2, <2>3, Zenon DEF CustodyInv, DbInv
  <1>4. Queued'
    BY <1>1, Zenon DEF CustodyInv, Queued
  <1> QED BY <1>1, <1>2, <1>3, <1>4, LedgerFrame, AuditFrame, Zenon DEF CustodyInv

-----------------------------------------------------------------------------
(* Submissions *)

\* Latest is a natural number, and a stored event is one.
LEMMA LatestType ==
    ASSUME CustodyInv, NEW a \in Assets
    PROVE  /\ Latest(a) \in 0..MaxSequence /\ Latest(a) \in Nat
           /\ \A n \in 1..Latest(a) : custody[<<a, n>>] \in CustodyEvent
  <1>1. Latest(a) \in 0..MaxSequence
    BY AssetAssumption DEF CustodyInv, IInv, TypeOK, Latest, Asset
  <1>2. \A n \in 1..Latest(a) : custody[<<a, n>>] \in CustodyEvent
    <2>1. CASE asset[a] = NoAsset
      <3>1. 1..Latest(a) = {}
        BY <2>1 DEF Latest
      <3> QED BY <3>1, Zenon
    <2>2. CASE asset[a] # NoAsset
      BY <2>2, Zenon DEF CustodyInv, IInv, HeaderIsNewest, Latest
    <2> QED BY <2>1, <2>2, Zenon
  <1> QED BY <1>1, <1>2, AssetAssumption

\* CreateAsset adds a header without events.
LEMMA CreateLedger ==
    ASSUME CustodyInv, NEW a \in Assets, CreateAsset(a), UNCHANGED <<dbCustody, auditVars>>
    PROVE  IInv' /\ LedgerInv' /\ AuditInv'
  <1>1. IInv'
    BY CreateIInv, Zenon DEF CustodyInv
  <1>2. ASSUME NEW b \in Assets PROVE Latest(b)' = Latest(b)
    BY AssetAssumption, Zenon DEF CreateAsset, Latest, CustodyInv, IInv, TypeOK
  <1>3. custody' = custody /\ \A b \in Assets : RowsOf(b)' = RowsOf(b)
    BY Zenon DEF CreateAsset, RowsOf
  <1>4. ASSUME NEW b \in Assets, asset'[b] # NoAsset
        PROVE  asset'[b].hash = IF asset'[b].seq = 0 THEN NoHash ELSE custody[<<b, asset'[b].seq>>].hash
    <2>1. CASE b = a
      BY <2>1, Zenon DEF CreateAsset, CustodyInv, IInv, TypeOK
    <2>2. CASE b # a
      BY <2>2, <1>4, Zenon DEF CreateAsset, CustodyInv, IInv, TypeOK, LedgerInv
    <2> QED BY <2>1, <2>2, Zenon
  <1>5. LedgerInv'
    <2> SUFFICES ASSUME NEW b \in Assets
                 PROVE  /\ \A n \in 1..Latest(b)' : custody'[<<b, n>>] \in RowsOf(b)' /\ custody'[<<b, n>>].seq = n
                        /\ asset'[b] # NoAsset => asset'[b].hash
                              = IF asset'[b].seq = 0 THEN NoHash ELSE custody'[<<b, asset'[b].seq>>].hash
                        /\ \A n \in 1..Latest(b)' :
                              custody'[<<b, n>>].prev = IF n = 1 THEN NoHash ELSE custody'[<<b, n - 1>>].hash
      BY Zenon DEF LedgerInv
    <2>1. Latest(b)' = Latest(b) /\ RowsOf(b)' = RowsOf(b) /\ custody' = custody
      BY <1>2, <1>3, Zenon
    <2>2. \A n \in 1..Latest(b) : custody[<<b, n>>] \in RowsOf(b) /\ custody[<<b, n>>].seq = n
      BY Zenon DEF CustodyInv, LedgerInv
    <2>3. \A n \in 1..Latest(b) :
              custody[<<b, n>>].prev = IF n = 1 THEN NoHash ELSE custody[<<b, n - 1>>].hash
      BY Zenon DEF CustodyInv, LedgerInv
    <2> QED BY <2>1, <2>2, <2>3, <1>4, Zenon
  <1>6. AuditInv'
    <2> SUFFICES ASSUME audit # Idle PROVE AuditInv'
      BY Zenon DEF AuditInv, auditVars
    <2>1. audit.asset \in Assets
      BY Zenon DEF CustodyInv, AuditInv, AuditRecord
    <2>2. Latest(audit.asset)' = Latest(audit.asset)
      <3>1. PICK b \in Assets : b = audit.asset
        BY <2>1, Zenon
      <3>2. Latest(audit.asset)' = Latest(b)'
        BY <3>1, Zenon DEF Latest, auditVars
      <3> QED BY <3>1, <3>2, <1>2, Zenon
    <2> QED BY <2>2, <1>3, Zenon DEF CustodyInv, AuditInv, auditVars
  <1> QED BY <1>1, <1>5, <1>6, Zenon

\* RecordCustodyEvent of a row of Postgres appends it to the ledger's chain, and
\* leaves alone what an audit has read.
LEMMA RecordLedger ==
    ASSUME CustodyInv, NEW e \in dbCustody, RecordCustodyEvent(e), UNCHANGED <<dbCustody, auditVars>>
    PROVE  IInv' /\ LedgerInv' /\ AuditInv'
  <1>1. e \in CustodyEvent
    BY Zenon DEF CustodyInv, DbTypes
  <1>2. PICK a \in Assets : a = e.asset
    BY <1>1, Zenon DEF CustodyEvent
  <1>3. IInv'
    BY <1>1, RecordIInv, Zenon DEF CustodyInv
  <1>4. e.seq \in 1..MaxSequence /\ e.seq \in Nat
    BY <1>1, AssetAssumption DEF CustodyEvent
  <1>5. PICK k \in Nat :
           /\ k = Latest(a) /\ e.seq = k + 1
           /\ e.prev = IF k = 0 THEN NoHash ELSE custody[<<a, k>>].hash
    BY <1>2, LatestType, AssetAssumption
       DEF RecordCustodyEvent, RecordAccepts, Latest, CustodyInv, LedgerInv, IInv, TypeOK, Asset
  <1>6. /\ custody' = [custody EXCEPT ![<<a, k + 1>>] = e]
        /\ asset' = [asset EXCEPT ![a] = [status |-> e.new, seq |-> e.seq, hash |-> e.hash]]
        /\ a \in Assets /\ <<a, k + 1>> \in Assets \X (1..MaxSequence)
        /\ custody \in [Assets \X (1..MaxSequence) -> CustodyEvent \cup {NoAsset}]
        /\ asset \in [Assets -> Asset \cup {NoAsset}]
    BY <1>2, <1>4, <1>5, Zenon DEF RecordCustodyEvent, CustodyInv, IInv, TypeOK
  <1>7. /\ custody'[<<a, k + 1>>] = e
        /\ \A n \in 1..k : custody'[<<a, n>>] = custody[<<a, n>>]
        /\ \A b \in Assets, n \in Nat : b # a => custody'[<<b, n>>] = custody[<<b, n>>]
    BY <1>5, <1>6
  <1>8. /\ asset'[a] = [status |-> e.new, seq |-> e.seq, hash |-> e.hash]
        /\ \A b \in Assets : b # a => asset'[b] = asset[b]
    BY <1>6, Zenon
  <1>9. Latest(a)' = k + 1
    <2>1. [status |-> e.new, seq |-> e.seq, hash |-> e.hash] \in Asset
      BY <1>1, <1>4, AssetAssumption DEF Asset, CustodyEvent
    <2> QED BY <2>1, <1>5, <1>8, AssetAssumption DEF Latest
  <1>10. \A b \in Assets : b # a => Latest(b)' = Latest(b)
    BY <1>8, Zenon DEF Latest
  <1>11. \A b \in Assets : RowsOf(b)' = RowsOf(b)
    BY Zenon DEF RowsOf
  <1>12. e \in RowsOf(a)
    BY <1>2, Zenon DEF RowsOf
  <1>13. ASSUME NEW b \in Assets
         PROVE  /\ \A n \in 1..Latest(b)' : custody'[<<b, n>>] \in RowsOf(b) /\ custody'[<<b, n>>].seq = n
                /\ asset'[b] # NoAsset => asset'[b].hash
                      = IF asset'[b].seq = 0 THEN NoHash ELSE custody'[<<b, asset'[b].seq>>].hash
                /\ \A n \in 1..Latest(b)' : custody'[<<b, n>>].prev
                      = IF n = 1 THEN NoHash ELSE custody'[<<b, n - 1>>].hash
    <2>1. CASE b = a
      <3>1. \A n \in 1..k : /\ custody[<<a, n>>] \in RowsOf(a) /\ custody[<<a, n>>].seq = n
                            /\ custody[<<a, n>>].prev = IF n = 1 THEN NoHash ELSE custody[<<a, n - 1>>].hash
        BY <1>5, ZenonT(40) DEF CustodyInv, LedgerInv
      <3>2. \A n \in 1..(k + 1) : n = k + 1 \/ n \in 1..k
        OBVIOUS
      <3>3. \A n \in 1..(k + 1) : custody'[<<a, n>>] \in RowsOf(a) /\ custody'[<<a, n>>].seq = n
        BY <3>1, <3>2, <1>5, <1>7, <1>12, Zenon
      <3>4. asset'[a].hash = IF asset'[a].seq = 0 THEN NoHash ELSE custody'[<<a, asset'[a].seq>>].hash
        BY <1>5, <1>7, <1>8
      <3>5. ASSUME NEW n \in 1..(k + 1)
            PROVE  custody'[<<a, n>>].prev = IF n = 1 THEN NoHash ELSE custody'[<<a, n - 1>>].hash
        <4>1. CASE n = k + 1
          <5>1. n # 1 => n - 1 = k /\ k \in 1..k
            BY <4>1
          <5> QED BY <4>1, <5>1, <1>5, <1>7
        <4>2. CASE n \in 1..k
          <5>1. n # 1 => n - 1 \in 1..k
            BY <4>2
          <5> QED BY <4>2, <5>1, <3>1, <1>7, Zenon
        <4> QED BY <3>2, <4>1, <4>2, Zenon
      <3> QED BY <2>1, <3>3, <3>4, <3>5, <1>9, Zenon
    <2>2. CASE b # a
      <3>1. Latest(b)' = Latest(b) /\ asset'[b] = asset[b] /\ Latest(b) \in Nat
        BY <2>2, <1>8, <1>10, LatestType, Zenon
      <3>2. asset[b] # NoAsset => asset[b].seq \in Nat
        BY <1>6, AssetAssumption DEF Asset
      <3>3. \A n \in Nat : custody'[<<b, n>>] = custody[<<b, n>>]
        BY <2>2, <1>7, Zenon
      <3>4. \A n \in 1..Latest(b) : n \in Nat /\ n - 1 \in Nat
        BY <3>1
      <3> QED BY <3>1, <3>2, <3>3, <3>4 DEF CustodyInv, LedgerInv
    <2> QED BY <2>1, <2>2, Zenon
  <1>14. LedgerInv'
    BY <1>11, <1>13, ZenonT(40) DEF LedgerInv
  <1>15. AuditInv'
    <2> SUFFICES ASSUME audit # Idle PROVE AuditInv'
      BY Zenon DEF AuditInv, auditVars
    <2>1. PICK b \in Assets : b = audit.asset
      BY Zenon DEF CustodyInv, AuditInv, AuditRecord
    <2>2. Latest(b) \in Nat /\ audit.history \in Seq(CustodyEvent)
          /\ Len(audit.history) <= Latest(b)
      BY <2>1, LatestType, Zenon DEF CustodyInv, AuditInv, AuditRecord
    <2>3. Latest(b)' \in Nat /\ Latest(b)' >= Latest(b)
      BY <2>2, <1>5, <1>9, <1>10
    <2>4. Len(audit.history) <= Latest(b)'
      BY <2>2, <2>3
    <2>5. \A n \in DOMAIN audit.history : n \in Nat /\ n \in 1..Latest(b)
      BY <2>2
    <2>6. \A n \in DOMAIN audit.history : custody'[<<b, n>>] = custody[<<b, n>>]
      BY <2>5, <1>5, <1>7, Zenon
    <2>7. audit' = audit /\ revoked' = revoked /\ Latest(audit.asset)' = Latest(b)'
      BY <2>1, Zenon DEF auditVars, Latest
    <2> QED BY <2>1, <2>4, <2>6, <2>7, Zenon DEF CustodyInv, AuditInv
  <1> QED BY <1>3, <1>14, <1>15, Zenon

\* A submission that commits, whether or not the worker hears of it.
LEMMA CommitCustodyInv ==
    ASSUME CustodyInv, NEW i \in DOMAIN queue, Invoke(queue[i]),
           \/ queue' = [queue EXCEPT ![i].status = "sent"]
           \/ markFailed(i),
           UNCHANGED <<apiVars, auditVars>>
    PROVE  CustodyInv'
  <1>1. UNCHANGED <<dbAssets, dbCustody, request, auditVars>>
    BY Zenon DEF apiVars
  <1>2. IInv' /\ LedgerInv' /\ AuditInv'
    <2>1. CASE queue[i].fn = "CreateAsset" /\ CreateAsset(queue[i].arg)
      BY <1>1, <2>1, CreateLedger, Zenon DEF CustodyInv, Queued
    <2>2. CASE queue[i].fn = "RecordCustodyEvent" /\ RecordCustodyEvent(queue[i].arg)
      BY <1>1, <2>2, RecordLedger, Zenon DEF CustodyInv, Queued
    <2> QED BY <2>1, <2>2, Zenon DEF Invoke
  <1>3. DbTypes'
    BY <1>1, SubmitRow, Zenon DEF CustodyInv, DbTypes, auditVars
  <1>4. Queued'
    BY <1>1, SubmitRow, Zenon DEF CustodyInv, Queued
  <1> QED BY <1>1, <1>2, <1>3, <1>4, DbFrame, Zenon DEF CustodyInv

\* A refused submission changes its row only.
LEMMA RefusedCustodyInv ==
    ASSUME CustodyInv, NEW i \in DOMAIN queue, markFailed(i),
           UNCHANGED <<contractVars, apiVars, auditVars>>
    PROVE  CustodyInv'
  <1>1. UNCHANGED <<dbAssets, dbCustody, request, auditVars, contractVars>>
    BY Zenon DEF apiVars
  <1>2. DbTypes'
    BY <1>1, SubmitRow, Zenon DEF CustodyInv, DbTypes, auditVars
  <1>3. Queued'
    BY <1>1, SubmitRow, Zenon DEF CustodyInv, Queued
  <1> QED BY <1>1, <1>2, <1>3, DbFrame, LedgerFrame, AuditFrame, Zenon DEF CustodyInv

-----------------------------------------------------------------------------
(* The audit *)

\* A key is revoked.
LEMMA RevokeCustodyInv ==
    ASSUME CustodyInv, NEW s \in Signers, RevokeKey(s)
    PROVE  CustodyInv'
  <1>1. /\ revoked' = revoked \cup {s}
        /\ UNCHANGED <<contractVars, dbAssets, dbCustody, request, queue, audit>>
    BY Zenon DEF RevokeKey, apiVars
  <1>2. DbTypes'
    BY <1>1, Zenon DEF CustodyInv, DbTypes
  <1>3. Queued'
    BY <1>1, Zenon DEF CustodyInv, Queued
  <1>4. AuditInv'
    BY <1>1, Zenon DEF CustodyInv, AuditInv, Latest, contractVars
  <1> QED BY <1>1, <1>2, <1>3, <1>4, DbFrame, LedgerFrame, Zenon DEF CustodyInv

\* A verification begins with the ledger's history.
LEMMA BeginCustodyInv ==
    ASSUME CustodyInv, NEW a \in Assets, AuditBegin(a)
    PROVE  CustodyInv'
  <1>1. UNCHANGED <<contractVars, dbAssets, dbCustody, request, queue, revoked>>
    BY Zenon DEF AuditBegin, apiVars
  <1>2. DbTypes'
    BY <1>1, Zenon DEF CustodyInv, DbTypes
  <1>3. Queued'
    BY <1>1, Zenon DEF CustodyInv, Queued
  <1>4. PICK hist : hist = GetCustodyHistory(a)
    BY Zenon
  <1>5. audit' = [asset |-> a, history |-> hist, n |-> 1, prev |-> NoHash, valid |-> TRUE,
                  before |-> revoked]
    BY <1>4, Zenon DEF AuditBegin
  <1>6. /\ hist \in Seq(CustodyEvent) /\ Len(hist) = Latest(a)
        /\ \A n \in DOMAIN hist : hist[n] = custody[<<a, n>>]
    <2>1. PICK k \in Nat : k = Latest(a)
      BY LatestType, Zenon
    <2>2. \A n \in 1..k : custody[<<a, n>>] \in CustodyEvent
      BY <2>1, LatestType, Zenon
    <2>3. hist = [n \in 1..k |-> custody[<<a, n>>]]
      BY <1>4, <2>1, Zenon DEF GetCustodyHistory
    <2>4. hist \in [1..k -> CustodyEvent]
      BY <2>2, <2>3, Zenon
    <2>5. hist \in Seq(CustodyEvent) /\ Len(hist) = k /\ DOMAIN hist = 1..k
      BY <2>4, FunctionIsSequence, Zenon
    <2> QED BY <2>1, <2>3, <2>5, Zenon
  <1>7. revoked \in SUBSET Signers
    BY Zenon DEF CustodyInv, DbTypes
  <1>8. audit' \in AuditRecord
    BY <1>5, <1>6, <1>7 DEF AuditRecord
  <1>9. Latest(a)' = Latest(a) /\ custody' = custody /\ Latest(a) \in Nat
    BY <1>1, LatestType, Zenon DEF Latest, contractVars
  <1>10. AuditInv'
    <2>1. /\ audit'.asset = a /\ audit'.history = hist /\ audit'.n = 1 /\ audit'.prev = NoHash
          /\ audit'.valid /\ audit'.before = revoked
      BY <1>5, Zenon
    <2>2. Latest(audit.asset)' = Latest(a)
      BY <2>1, <1>9, Zenon DEF Latest
    <2>3. Len(hist) <= Latest(a) /\ 1 <= Len(hist) + 1
      BY <1>6, <1>9
    <2> QED BY <2>1, <2>2, <2>3, <1>1, <1>6, <1>8, <1>9 DEF AuditInv
  <1> QED BY <1>1, <1>2, <1>3, <1>10, DbFrame, LedgerFrame, Zenon DEF CustodyInv

\* One more event is verified; only a revoked key can make it fail.
LEMMA AuditStepCustodyInv ==
    ASSUME CustodyInv, AuditEvent
    PROVE  CustodyInv'
  <1>1. UNCHANGED <<contractVars, dbAssets, dbCustody, request, queue, revoked>>
    BY Zenon DEF AuditEvent, apiVars
  <1>2. DbTypes'
    BY <1>1, Zenon DEF CustodyInv, DbTypes
  <1>3. Queued'
    BY <1>1, Zenon DEF CustodyInv, Queued
  <1>4. audit # Idle /\ ~ Finished /\ AuditInv /\ audit \in AuditRecord
    BY Zenon DEF AuditEvent, CustodyInv, AuditInv
  <1>5. PICK a \in Assets, hist \in Seq(CustodyEvent), k \in Nat \ {0} :
           a = audit.asset /\ hist = audit.history /\ k = audit.n
    BY <1>4, Zenon DEF AuditRecord
  <1>6. k \in 1..Len(hist) /\ k \in DOMAIN hist
    BY <1>4, <1>5 DEF AuditInv, Finished
  <1>7. PICK e \in CustodyEvent : e = hist[k]
    BY <1>6
  <1>8. Len(hist) <= Latest(a) /\ Latest(a) \in Nat
        /\ \A n \in DOMAIN hist : hist[n] = custody[<<a, n>>]
    BY <1>4, <1>5, LatestType, Zenon DEF AuditInv
  <1>9. k \in 1..Latest(a) /\ e = custody[<<a, k>>] /\ (k # 1 => hist[k - 1] = custody[<<a, k - 1>>])
    BY <1>6, <1>7, <1>8
  <1>10. e.prev = audit.prev
    <2>1. e.prev = IF k = 1 THEN NoHash ELSE custody[<<a, k - 1>>].hash
      BY <1>9, Zenon DEF CustodyInv, LedgerInv
    <2>2. audit.prev = IF k = 1 THEN NoHash ELSE hist[k - 1].hash
      BY <1>4, <1>5, Zenon DEF AuditInv
    <2> QED BY <2>1, <2>2, <1>9, Zenon
  <1>11. SignatureValid(a, e)
    <2>1. e \in dbCustody /\ e.asset = a
      BY <1>9, Zenon DEF CustodyInv, LedgerInv, RowsOf
    <2>2. e.sig = SignHybrid(e.asset, e.new, e.hash)
      BY <2>1, Zenon DEF CustodyInv, DbInv, Numbered
    <2> QED BY <2>1, <2>2, Zenon DEF SignHybrid, SignatureValid
  <1>12. EventValid(audit.asset, e, audit.prev) <=> e.signer \notin revoked
    BY <1>5, <1>10, <1>11, Zenon DEF EventValid, lookupKey
  <1>13. audit' = [audit EXCEPT !.n = k + 1, !.prev = e.hash,
                                !.valid = audit.valid /\ EventValid(audit.asset, e, audit.prev)]
    BY <1>5, <1>7, Zenon DEF AuditEvent
  <1>14. EventValid(audit.asset, e, audit.prev) \in BOOLEAN
    BY Zenon DEF EventValid
  <1>15. /\ audit' \in AuditRecord
         /\ audit'.asset = a /\ audit'.history = hist /\ audit'.n = k + 1 /\ audit'.prev = e.hash
         /\ audit'.before = audit.before
         /\ audit'.valid <=> audit.valid /\ e.signer \notin revoked
    <2>1. e.hash \in Hashes /\ k + 1 \in Nat \ {0}
      BY DEF CustodyEvent
    <2>2. PICK v \in BOOLEAN : v = (audit.valid /\ EventValid(audit.asset, e, audit.prev))
      BY <1>14, Zenon
    <2>3. audit' = [audit EXCEPT !.n = k + 1, !.prev = e.hash, !.valid = v]
      BY <1>13, <2>2, Zenon
    <2>4. /\ audit' \in AuditRecord
          /\ audit'.asset = a /\ audit'.history = hist /\ audit'.n = k + 1 /\ audit'.prev = e.hash
          /\ audit'.before = audit.before /\ audit'.valid = v
      BY <1>4, <1>5, <2>1, <2>3, Zenon DEF AuditRecord
    <2>5. v <=> audit.valid /\ e.signer \notin revoked
      BY <2>2, <1>12, Zenon
    <2> QED BY <2>4, <2>5, Zenon
  <1>16. Latest(audit.asset)' = Latest(a) /\ custody' = custody
    BY <1>1, <1>15, Zenon DEF Latest, contractVars
  <1>17. 1..((k + 1) - 1) = (1..(k - 1)) \cup {k} /\ (k + 1) - 1 = k /\ k + 1 # 1
    OBVIOUS
  <1>18. audit'.valid => \A m \in 1..((k + 1) - 1) : hist[m].signer \notin audit.before
    BY <1>4, <1>5, <1>7, <1>15, <1>17, Zenon DEF AuditInv
  <1>19. ~ audit'.valid => \E m \in 1..((k + 1) - 1) : hist[m].signer \in revoked
    BY <1>4, <1>5, <1>7, <1>15, <1>17, Zenon DEF AuditInv
  <1>20. audit.before \subseteq revoked /\ k + 1 <= Len(hist) + 1 /\ hist[(k + 1) - 1].hash = e.hash
    BY <1>4, <1>6, <1>7, <1>17 DEF AuditInv
  <1>21. AuditInv'
    BY <1>1, <1>8, <1>15, <1>16, <1>17, <1>18, <1>19, <1>20, Zenon DEF AuditInv
  <1> QED BY <1>1, <1>2, <1>3, <1>21, DbFrame, LedgerFrame, Zenon DEF CustodyInv

-----------------------------------------------------------------------------
(* The theorems *)

\* Every step of the system preserves the invariant.
LEMMA StepCustodyInv == CustodyInv /\ [CustodyNext]_vars => CustodyInv'
  <1> SUFFICES ASSUME CustodyInv, [CustodyNext]_vars PROVE CustodyInv'
    BY Zenon
  <1>1. ASSUME NEW a \in Assets, ApiCreateAsset(a) PROVE CustodyInv'
    BY <1>1, CreateCustodyInv, Zenon
  <1>2. ASSUME NEW a \in Assets, AuditBegin(a) PROVE CustodyInv'
    BY <1>2, BeginCustodyInv, Zenon
  <1>3. ASSUME NEW r \in Requests, Insert(r) PROVE CustodyInv'
    BY <1>3, InsertCustodyInv, Zenon
  <1>4. ASSUME NEW r \in Requests, RollBack(r) PROVE CustodyInv'
    BY <1>4, RollBackCustodyInv, Zenon
  <1>5. ASSUME NEW r \in Requests, NEW a \in Assets, NEW h \in Hashes, NEW k \in Keys,
               NEW new \in RequestStatuses, NEW s \in Signers, ReadLast(r, a, h, k, new, s)
        PROVE  CustodyInv'
    BY <1>5, ReadCustodyInv, Zenon
  <1>6. ASSUME NEW i \in 1..MaxRows, SubmitCommitted(i) \/ SubmitReplyLost(i) PROVE CustodyInv'
    BY <1>6, CommitCustodyInv, Zenon DEF SubmitCommitted, SubmitReplyLost, Submitted
  <1>7. ASSUME NEW i \in 1..MaxRows, SubmitRefused(i) PROVE CustodyInv'
    BY <1>7, RefusedCustodyInv, Zenon DEF SubmitRefused, Submitted
  <1>8. ASSUME NEW s \in Signers, RevokeKey(s) PROVE CustodyInv'
    BY <1>8, RevokeCustodyInv, Zenon
  <1>9. CASE AuditEvent
    BY <1>9, AuditStepCustodyInv, Zenon
  <1>10. CASE UNCHANGED vars
    <2>1. UNCHANGED <<contractVars, dbAssets, dbCustody, request, queue, revoked, audit, auditVars>>
      BY <1>10, Zenon DEF vars, apiVars, auditVars
    <2>2. DbTypes' /\ Queued'
      BY <2>1, Zenon DEF CustodyInv, DbTypes, Queued
    <2> QED BY <2>1, <2>2, DbFrame, LedgerFrame, AuditFrame, Zenon DEF CustodyInv
  <1> QED BY <1>1, <1>2, <1>3, <1>4, <1>5, <1>6, <1>7, <1>8, <1>9, <1>10, Zenon DEF CustodyNext

\* The invariant holds throughout.
LEMMA CustodyInvariance == CustodySpec => []CustodyInv
  BY InitCustodyInv, StepCustodyInv, PTL DEF CustodySpec

\* The invariant says of the newest audit what the receipt claims.
LEMMA ReceiptFollows == CustodyInv => ReceiptIsJustified
  <1> SUFFICES ASSUME CustodyInv, audit # Idle, Finished PROVE ReceiptIsJustified
    BY Zenon DEF ReceiptIsJustified
  <1>1. AuditInv /\ audit \in AuditRecord
    BY Zenon DEF CustodyInv, AuditInv
  <1>2. PICK k \in Nat \ {0}, hist \in Seq(CustodyEvent) : k = audit.n /\ hist = audit.history
    BY <1>1, Zenon DEF AuditRecord
  <1>3. k = Len(hist) + 1 /\ DOMAIN hist = 1..(k - 1)
    BY <1>1, <1>2 DEF AuditInv, Finished
  <1>4. audit.valid => \A m \in DOMAIN hist : hist[m].signer \notin audit.before
    BY <1>1, <1>2, <1>3, Zenon DEF AuditInv
  <1>5. ~ audit.valid => \E m \in DOMAIN hist : hist[m].signer \in revoked
    BY <1>1, <1>2, <1>3, Zenon DEF AuditInv
  <1>6. \A n \in DOMAIN hist : hist[n] = custody[<<audit.asset, n>>]
    BY <1>1, <1>2, Zenon DEF AuditInv
  <1> QED BY <1>2, <1>4, <1>5, <1>6, ZenonT(40) DEF ReceiptIsJustified

\* Although RecordCustodyEvent of the API takes no lock, the custody_event rows
\* of every asset form one unbroken chain, and the ledger holds a beginning of
\* it, with any number of requests, submissions and lost replies.
THEOREM LedgerFollows == CustodySpec => []LedgerFollowsDatabase
  <1>1. CustodyInv => LedgerFollowsDatabase
    <2> SUFFICES ASSUME CustodyInv PROVE LedgerFollowsDatabase
      BY Zenon
    <2>1. ASSUME NEW a \in Assets
          PROVE  \A e, f \in RowsOf(a) : f.seq = e.seq => f = e
      BY Zenon DEF CustodyInv, DbInv, RowsOf
    <2>2. ASSUME NEW a \in Assets, NEW e \in RowsOf(a), NEW f \in RowsOf(a), f.seq = e.seq + 1
          PROVE  f.prev = e.hash
      <3>1. /\ e \in dbCustody /\ f \in dbCustody /\ e.asset = a /\ f.asset = a
            /\ e.seq \in 1..MaxSequence /\ f.seq \in 1..MaxSequence
        BY Zenon DEF RowsOf, CustodyInv, DbTypes, CustodyEvent
      <3>2. f.seq # 1
        BY <2>2, <3>1
      <3>3. PICK g \in RowsOf(a) : f.seq = g.seq + 1 /\ f.prev = g.hash
        BY <3>1, <3>2, ZenonT(40) DEF CustodyInv, DbInv, Numbered
      <3>4. g \in dbCustody /\ g.asset = a /\ g.seq \in 1..MaxSequence
        BY <3>3, Zenon DEF RowsOf, CustodyInv, DbTypes, CustodyEvent
      <3>5. g.seq = e.seq
        BY <2>2, <3>1, <3>3, <3>4
      <3>6. g = e
        BY <3>1, <3>4, <3>5, Zenon DEF CustodyInv, DbInv
      <3> QED BY <3>3, <3>6, Zenon
    <2>3. ASSUME NEW a \in Assets, NEW e \in RowsOf(a), NEW n \in 1..e.seq
          PROVE  \E f \in RowsOf(a) : f.seq = n
      <3>1. e \in dbCustody /\ e.asset = a
        BY Zenon DEF RowsOf
      <3> QED BY <3>1, Zenon DEF CustodyInv, DbInv
    <2>4. ASSUME NEW a \in Assets, NEW n \in 1..Latest(a)
          PROVE  custody[<<a, n>>] \in RowsOf(a)
      BY Zenon DEF CustodyInv, LedgerInv
    <2> QED BY <2>1, <2>2, <2>3, <2>4, ZenonT(40) DEF LedgerFollowsDatabase
  <1> QED BY <1>1, CustodyInvariance, PTL

\* A receipt of the audit service is justified by the history it covers,
\* whichever keys are revoked and whatever is recorded while it is computed.
THEOREM ReceiptJustified == CustodySpec => []ReceiptIsJustified
  BY CustodyInvariance, ReceiptFollows, PTL

\* The outbox worker, with its resubmissions and lost replies, only ever takes
\* steps of the contract; so the log the auditors read is append-only in the
\* whole system too.
THEOREM SystemUsesContract == CustodySpec => ImplementsCustodyLog
  <1>1. CustodyInit => Init
    BY Zenon DEF CustodyInit
  <1>2. CustodyInv /\ [CustodyNext]_vars => [Next]_contractVars
    <2> SUFFICES ASSUME CustodyInv, [CustodyNext]_vars PROVE [Next]_contractVars
      BY Zenon
    <2>1. ASSUME NEW i \in 1..MaxRows, SubmitCommitted(i) \/ SubmitReplyLost(i)
          PROVE  Next
      <3>1. Invoke(queue[i]) /\ i \in DOMAIN queue
        BY <2>1, Zenon DEF SubmitCommitted, SubmitReplyLost, Submitted
      <3>2. CASE queue[i].fn = "CreateAsset" /\ CreateAsset(queue[i].arg)
        BY <3>1, <3>2, Zenon DEF CustodyInv, Queued, Next
      <3>3. CASE queue[i].fn = "RecordCustodyEvent" /\ RecordCustodyEvent(queue[i].arg)
        BY <3>1, <3>3, Zenon DEF CustodyInv, Queued, DbTypes, Next
      <3> QED BY <3>1, <3>2, <3>3, Zenon DEF Invoke
    <2>2. CASE UNCHANGED contractVars
      BY <2>2, Zenon
    <2>3. CASE UNCHANGED vars
      BY <2>3, Zenon DEF vars
    <2>4. CASE CustodyNext /\ ~ UNCHANGED contractVars
      BY <2>1, <2>4, Zenon DEF CustodyNext, ApiCreateAsset, AuditBegin, Insert, RollBack, ReadLast,
                        SubmitRefused, RevokeKey, AuditEvent
    <2> QED BY <2>2, <2>3, <2>4, Zenon
  <1>3. CustodySpec => Spec
    BY <1>1, <1>2, CustodyInvariance, PTL DEF CustodySpec, Spec
  <1> QED BY <1>3, ContractImplementsLog, PTL


-----------------------------------------------------------------------------
(* The indexer: sequences *)

\* An element of a sequence.
LEMMA SeqElement ==
    ASSUME NEW S, NEW s \in Seq(S), NEW n \in 1..Len(s)
    PROVE  s[n] \in S
  OBVIOUS

\* A sequence as a function.
LEMMA SeqLen ==
    ASSUME NEW S, NEW s \in Seq(S)
    PROVE  Len(s) \in Nat /\ s \in [1..Len(s) -> S] /\ DOMAIN s = 1..Len(s)
  OBVIOUS

\* The elements of a concatenation.
LEMMA SeqConcat ==
    ASSUME NEW S, NEW s \in Seq(S), NEW t \in Seq(S)
    PROVE  /\ s \o t \in Seq(S) /\ Len(s \o t) = Len(s) + Len(t)
           /\ \A i \in 1..(Len(s) + Len(t)) :
                 (s \o t)[i] = IF i <= Len(s) THEN s[i] ELSE t[i - Len(s)]
  OBVIOUS

-----------------------------------------------------------------------------
LedgerEvent == [block : Nat \ {0}, key : EventKeys \cup {Other}]

\* Events are in block order and none is in a block that does not exist yet.
LedgerOrdered ==
    /\ \A i, j \in DOMAIN ledger : i <= j => ledger[i].block <= ledger[j].block
    /\ \A i \in DOMAIN ledger : ledger[i].block <= height

\* A key is on the ledger once.
KeyOnce ==
    \A i, j \in DOMAIN ledger : ledger[i].key \in EventKeys /\ ledger[i].key = ledger[j].key => i = j

\* While an event waits to be saved it is one the ledger has, and it is applied.
SavedIsApplied == pc = "save" => pos \in DOMAIN ledger /\ Applied(pos)

\* The checkpoint is the block of an event, and before it exists none has been
\* saved.
CheckpointSane ==
    /\ checkpoint = 0 => since = 0
    /\ checkpoint > 0 => since \in DOMAIN ledger
    /\ checkpoint <= height
    /\ pc = "subscribe" => lastBlock = checkpoint

BaseInv == IndexerTypeOK /\ LedgerOrdered /\ KeyOnce /\ SavedIsApplied /\ CheckpointSane /\ RowsTellTheTruth

\* What a new block does to the ledger.
LEMMA BlockAppends ==
    ASSUME IndexerTypeOK, NEW ks \in Blocks, CommitBlock(ks)
    PROVE  /\ ledger' \in Seq(LedgerEvent)
           /\ Len(ledger') >= Len(ledger)
           /\ DOMAIN ledger' = 1..Len(ledger')
           /\ \A i \in DOMAIN ledger : i \in DOMAIN ledger' /\ ledger'[i] = ledger[i]
           /\ \A i \in DOMAIN ledger' : i > Len(ledger) =>
                /\ i - Len(ledger) \in DOMAIN ks
                /\ ledger'[i].block = height + 1
                /\ ledger'[i].key = ks[i - Len(ledger)]
<1> DEFINE m == [i \in 1..Len(ks) |-> [block |-> height + 1, key |-> ks[i]]]
<1>1. ks \in Seq(EventKeys \cup {Other})
  BY IndexerAssumption, Zenon
<1>2. Len(ks) \in Nat /\ DOMAIN ks = 1..Len(ks) /\ \A i \in 1..Len(ks) : ks[i] \in EventKeys \cup {Other}
  BY <1>1, SeqLen, SeqElement, Zenon
<1>3. height + 1 \in Nat \ {0}
  BY DEF IndexerTypeOK
<1>4. \A i \in 1..Len(ks) : m[i] \in LedgerEvent /\ m[i].block = height + 1 /\ m[i].key = ks[i]
  BY <1>2, <1>3, Zenon DEF LedgerEvent
<1>5. m \in Seq(LedgerEvent) /\ Len(m) = Len(ks)
  BY <1>2, <1>4
<1>6. ledger' = ledger \o m /\ ledger \in Seq(LedgerEvent)
  BY Zenon DEF CommitBlock, IndexerTypeOK, LedgerEvent
<1> HIDE DEF m
<1>7. /\ ledger' \in Seq(LedgerEvent)
      /\ Len(ledger') = Len(ledger) + Len(ks)
      /\ \A i \in 1..Len(ledger) + Len(ks) :
            ledger'[i] = IF i <= Len(ledger) THEN ledger[i] ELSE m[i - Len(ledger)]
  <2>1. /\ ledger \o m \in Seq(LedgerEvent)
        /\ Len(ledger \o m) = Len(ledger) + Len(m)
        /\ \A i \in 1..Len(ledger) + Len(m) :
              (ledger \o m)[i] = IF i <= Len(ledger) THEN ledger[i] ELSE m[i - Len(ledger)]
    BY <1>5, <1>6, SeqConcat, Zenon
  <2> QED
    BY <1>5, <1>6, <2>1, Zenon
<1>8. /\ Len(ledger) \in Nat
      /\ DOMAIN ledger = 1..Len(ledger)
      /\ DOMAIN ledger' = 1..Len(ledger')
  BY <1>6, <1>7, SeqLen, Zenon
<1>9. ASSUME NEW i \in DOMAIN ledger', i > Len(ledger)
      PROVE  /\ i - Len(ledger) \in 1..Len(ks)
             /\ ledger'[i] = m[i - Len(ledger)]
  BY <1>2, <1>7, <1>8, <1>9
<1> QED
  BY <1>2, <1>4, <1>7, <1>8, <1>9

\* A new block keeps the bookkeeping.
LEMMA BlockKeeps ==
    ASSUME BaseInv, NEW ks \in Blocks, CommitBlock(ks)
    PROVE  BaseInv'
<1> USE DEF BaseInv
<1>1. /\ height' = height + 1
      /\ UNCHANGED <<rows, checkpoint, pc, lastBlock, pos, since, failed, faults>>
  BY Zenon DEF CommitBlock, listenerVars
<1>2. Len(ledger) \in Nat /\ DOMAIN ledger = 1..Len(ledger) /\ Len(ledger') \in Nat
  BY BlockAppends, SeqLen, Zenon DEF IndexerTypeOK
<1>3. IndexerTypeOK'
  <2>1. ledger' \in Seq([block : Nat \ {0}, key : EventKeys \cup {Other}])
    BY BlockAppends, Zenon DEF LedgerEvent
  <2>2. Len(ledger') >= Len(ledger)
    BY BlockAppends, Zenon
  <2>3. height' \in Nat /\ pos' \in 1..(Len(ledger') + 1) /\ since' \in 0..Len(ledger')
    BY <1>1, <1>2, <2>2 DEF IndexerTypeOK
  <2>4. failed' \subseteq DOMAIN ledger'
    BY <1>1, BlockAppends, Zenon DEF IndexerTypeOK
  <2> QED
    BY <1>1, <2>1, <2>3, <2>4, Zenon DEF IndexerTypeOK
<1>4. LedgerOrdered'
  <2>1. \A i \in DOMAIN ledger' :
           IF i > Len(ledger) THEN ledger'[i].block = height + 1
                              ELSE i \in DOMAIN ledger /\ ledger'[i] = ledger[i]
    BY <1>2, BlockAppends
  <2>2. height \in Nat /\ \A i \in DOMAIN ledger : ledger[i].block \in Nat
    <3>1. \A i \in DOMAIN ledger : ledger[i] \in LedgerEvent
      BY <1>2, SeqElement, Zenon DEF IndexerTypeOK, LedgerEvent
    <3> QED
      BY <3>1, Zenon DEF IndexerTypeOK, LedgerEvent
  <2>3. \A i \in DOMAIN ledger' : i \in Nat
    BY BlockAppends
  <2> QED
    BY <1>1, <1>2, <2>1, <2>2, <2>3 DEF LedgerOrdered
<1>5. KeyOnce'
  <2> SUFFICES ASSUME NEW i \in DOMAIN ledger', NEW j \in DOMAIN ledger',
                      ledger'[i].key \in EventKeys, ledger'[i].key = ledger'[j].key
               PROVE  i = j
    BY Zenon DEF KeyOnce
  <2>0. i \in Nat /\ j \in Nat
    BY BlockAppends
  <2>1. CASE i > Len(ledger) /\ j > Len(ledger)
    <3>1. /\ i - Len(ledger) \in DOMAIN ks /\ ledger'[i].key = ks[i - Len(ledger)]
          /\ j - Len(ledger) \in DOMAIN ks /\ ledger'[j].key = ks[j - Len(ledger)]
      BY <2>1, BlockAppends, Zenon
    <3>2. i - Len(ledger) = j - Len(ledger)
      BY <3>1, IndexerAssumption, Zenon
    <3> QED
      BY <1>2, <2>0, <3>2
  <2>2. CASE i <= Len(ledger) /\ j <= Len(ledger)
    <3>1. /\ i \in DOMAIN ledger /\ ledger'[i] = ledger[i]
          /\ j \in DOMAIN ledger /\ ledger'[j] = ledger[j]
      BY <1>2, <2>0, <2>2, BlockAppends
    <3> QED
      BY <3>1, Zenon DEF KeyOnce
  <2>3. CASE i <= Len(ledger) /\ j > Len(ledger)
    <3>1. i \in DOMAIN ledger /\ ledger'[i] = ledger[i]
      BY <1>2, <2>0, <2>3, BlockAppends
    <3>2. j - Len(ledger) \in DOMAIN ks /\ ledger'[j].key = ks[j - Len(ledger)]
      BY <2>3, BlockAppends, Zenon
    <3> QED
      BY <3>1, <3>2, Zenon DEF CommitBlock
  <2>4. CASE i > Len(ledger) /\ j <= Len(ledger)
    <3>1. j \in DOMAIN ledger /\ ledger'[j] = ledger[j]
      BY <1>2, <2>0, <2>4, BlockAppends
    <3>2. i - Len(ledger) \in DOMAIN ks /\ ledger'[i].key = ks[i - Len(ledger)]
      BY <2>4, BlockAppends, Zenon
    <3> QED
      BY <3>1, <3>2, Zenon DEF CommitBlock
  <2> QED
    BY <1>2, <2>0, <2>1, <2>2, <2>3, <2>4
<1>6. SavedIsApplied'
  BY <1>1, BlockAppends, Zenon DEF SavedIsApplied, Applied
<1>7. CheckpointSane'
  BY <1>1, BlockAppends DEF CheckpointSane, IndexerTypeOK
<1>8. RowsTellTheTruth'
  BY <1>1, BlockAppends DEF RowsTellTheTruth
<1> QED
  BY <1>3, <1>4, <1>5, <1>6, <1>7, <1>8, Zenon

\* The facts about the ledger that every listener step uses.
LEMMA LedgerFacts ==
    ASSUME IndexerTypeOK
    PROVE  /\ Len(ledger) \in Nat
           /\ DOMAIN ledger = 1..Len(ledger)
           /\ \A i \in DOMAIN ledger : ledger[i].block \in Nat \ {0} /\ ledger[i].key \in EventKeys \cup {Other}
<1>1. ledger \in Seq(LedgerEvent)
  BY Zenon DEF IndexerTypeOK, LedgerEvent
<1>2. Len(ledger) \in Nat /\ DOMAIN ledger = 1..Len(ledger)
  BY <1>1, SeqLen, Zenon
<1>3. \A i \in DOMAIN ledger : ledger[i] \in LedgerEvent
  BY <1>1, <1>2, SeqElement, Zenon
<1> QED
  BY <1>2, <1>3, Zenon DEF LedgerEvent

\* Applying an event stamps its own row, which had no other block before, and
\* leaves what was applied applied.
LEMMA ApplyOnce ==
    ASSUME BaseInv, Apply
    PROVE  /\ pos \in DOMAIN ledger
           /\ Applied(pos)'
           /\ \A i \in DOMAIN ledger : Applied(i) => Applied(i)'
           /\ \A k \in EventKeys : rows[k] # 0 => rows'[k] = rows[k]
           /\ \A k \in EventKeys : rows'[k] # rows[k] => k = ledger[pos].key /\ rows'[k] = ledger[pos].block
           /\ rows' \in [EventKeys -> Nat]
<1> USE DEF BaseInv
<1>1. /\ pos \in DOMAIN ledger
      /\ ledger' = ledger
      /\ pos' = pos
      /\ rows' = [k \in EventKeys |-> IF k = ledger[pos].key THEN ledger[pos].block ELSE rows[k]]
  BY Zenon DEF Apply, applyEvent
<1>2. ledger[pos].block \in Nat \ {0}
  BY <1>1, LedgerFacts, Zenon
<1>3. rows' \in [EventKeys -> Nat]
  BY <1>1, <1>2, Zenon DEF IndexerTypeOK
<1>4. Applied(pos)'
  BY <1>1, Zenon DEF Applied
<1>5. ASSUME NEW i \in DOMAIN ledger, Applied(i) PROVE Applied(i)'
  <2>1. CASE ledger[i].key \in EventKeys /\ ledger[i].key = ledger[pos].key
    BY <1>1, <1>4, <2>1, Zenon DEF KeyOnce, Applied
  <2>2. CASE ledger[i].key \notin EventKeys \/ ledger[i].key # ledger[pos].key
    BY <1>1, <1>5, <2>2, Zenon DEF Applied
  <2> QED
    BY <2>1, <2>2, Zenon
<1>6. ASSUME NEW k \in EventKeys, rows[k] # 0 PROVE rows'[k] = rows[k]
  <2>1. PICK i \in DOMAIN ledger : ledger[i] = [block |-> rows[k], key |-> k]
    BY <1>6, Zenon DEF RowsTellTheTruth
  <2>2. ledger[i].block = rows[k] /\ ledger[i].key = k
    BY <2>1
  <2>3. CASE k = ledger[pos].key
    BY <1>1, <2>2, <2>3, Zenon DEF KeyOnce
  <2>4. CASE k # ledger[pos].key
    BY <1>1, <2>4, Zenon
  <2> QED
    BY <2>3, <2>4, Zenon
<1> QED
  BY <1>1, <1>3, <1>4, <1>5, <1>6, Zenon

\* A listener's step or failure keeps the bookkeeping.
LEMMA ListenerKeeps ==
    ASSUME BaseInv, ListenerStep \/ Failure
    PROVE  BaseInv'
<1> USE DEF BaseInv
<1>0. ledger' = ledger /\ height' = height
  BY Zenon DEF ListenerStep, Failure, Load, Subscribe, Apply, Save, SubscribeFails, StreamCloses,
         ApplyFails, SaveFails, Crash
<1>1. LedgerOrdered' /\ KeyOnce'
  BY <1>0, Zenon DEF LedgerOrdered, KeyOnce
<1>2. CASE Load
  BY <1>0, <1>1, <1>2, LedgerFacts, Zenon DEF Load, IndexerTypeOK, SavedIsApplied, CheckpointSane, RowsTellTheTruth
<1>3. CASE Subscribe
  BY <1>0, <1>1, <1>3, LedgerFacts, Zenon DEF Subscribe, IndexerTypeOK, SavedIsApplied, CheckpointSane, RowsTellTheTruth
<1>4. CASE Apply
  <2>1. UNCHANGED <<checkpoint, lastBlock, pos, since, failed, faults>> /\ pc' = "save"
    BY <1>4, Zenon DEF Apply
  <2>2. SavedIsApplied'
    BY <1>0, <1>4, <2>1, ApplyOnce, Zenon DEF SavedIsApplied, Applied
  <2>3. RowsTellTheTruth'
    <3> SUFFICES ASSUME NEW k \in EventKeys, rows'[k] # 0
                 PROVE  \E i \in DOMAIN ledger : ledger[i] = [block |-> rows'[k], key |-> k]
      BY <1>0, Zenon DEF RowsTellTheTruth
    <3>1. CASE rows'[k] = rows[k]
      BY <3>1, Zenon DEF RowsTellTheTruth
    <3>2. CASE rows'[k] # rows[k]
      <4>1. pos \in DOMAIN ledger /\ k = ledger[pos].key /\ rows'[k] = ledger[pos].block
        BY <1>4, <3>2, ApplyOnce, Zenon
      <4>2. ledger[pos] \in LedgerEvent
        <5>1. ledger \in Seq(LedgerEvent)
          BY Zenon DEF IndexerTypeOK, LedgerEvent
        <5>2. pos \in 1..Len(ledger)
          BY <4>1, <5>1, SeqLen, Zenon
        <5> QED BY ONLY <5>1, <5>2, SeqElement, Zenon
      <4> QED
        BY <4>1, <4>2, Zenon DEF LedgerEvent
    <3> QED
      BY <3>1, <3>2, Zenon
  <2>4. IndexerTypeOK'
    BY <1>0, <1>4, <2>1, ApplyOnce, Zenon DEF IndexerTypeOK
  <2>5. CheckpointSane'
    BY <1>0, <2>1, Zenon DEF CheckpointSane
  <2> QED
    BY <1>1, <2>2, <2>3, <2>4, <2>5, Zenon
<1>5. CASE Save
  <2>1. /\ checkpoint' = IF ledger[pos].block > checkpoint THEN ledger[pos].block ELSE checkpoint
        /\ since' = IF checkpoint = 0 THEN pos ELSE since
        /\ pos' = pos + 1
        /\ pc' = "stream"
        /\ UNCHANGED <<rows, lastBlock, failed, faults>>
    BY <1>5, Zenon DEF Save
  <2>2. pos \in DOMAIN ledger
    BY <1>5, Zenon DEF Save, SavedIsApplied
  <2>3. ledger[pos].block \in Nat \ {0} /\ ledger[pos].block <= height
    BY <2>2, LedgerFacts, Zenon DEF LedgerOrdered
  <2>4. IndexerTypeOK'
    <3>1. /\ Len(ledger) \in Nat /\ pos \in 1..Len(ledger) /\ checkpoint \in Nat
          /\ since \in 0..Len(ledger)
      BY <2>2, LedgerFacts, Zenon DEF IndexerTypeOK
    <3>2. checkpoint' \in Nat /\ since' \in 0..Len(ledger) /\ pos' \in 1..(Len(ledger) + 1)
      BY <2>1, <2>3, <3>1
    <3> QED BY <1>0, <2>1, <3>2, Zenon DEF IndexerTypeOK
  <2>5. CheckpointSane'
    BY <1>0, <2>1, <2>2, <2>3 DEF CheckpointSane, IndexerTypeOK
  <2> QED
    BY <1>0, <1>1, <2>1, <2>4, <2>5, Zenon DEF SavedIsApplied, RowsTellTheTruth
<1>6. CASE SubscribeFails \/ StreamCloses \/ Crash
  <2>1. UNCHANGED <<rows, checkpoint, lastBlock, pos, since, failed>> /\ pc' = "load" /\ faults' = faults + 1
    BY <1>6, Zenon DEF SubscribeFails, StreamCloses, Crash, Fault
  <2> QED
    BY <1>0, <1>1, <2>1 DEF IndexerTypeOK, SavedIsApplied, CheckpointSane, RowsTellTheTruth
<1>7. CASE ApplyFails \/ SaveFails
  <2>1. /\ UNCHANGED <<rows, checkpoint, lastBlock, since>>
        /\ pc' = "stream" /\ faults' = faults + 1 /\ pos' = pos + 1
        /\ failed' \subseteq failed \cup {pos}
    BY <1>7, Zenon DEF ApplyFails, SaveFails, Fault
  <2>2. pos \in DOMAIN ledger
    BY <1>7, Zenon DEF ApplyFails, SaveFails, SavedIsApplied
  <2>3. IndexerTypeOK'
    <3>1. /\ Len(ledger) \in Nat /\ pos \in 1..Len(ledger) /\ faults \in Nat
          /\ failed \subseteq DOMAIN ledger
      BY <2>2, LedgerFacts DEF IndexerTypeOK
    <3>2. pos' \in 1..(Len(ledger) + 1) /\ faults' \in Nat
      BY <2>1, <3>1
    <3>3. failed' \subseteq DOMAIN ledger
      BY <2>1, <2>2, <3>1, Zenon
    <3> QED BY <1>0, <2>1, <3>2, <3>3, Zenon DEF IndexerTypeOK
  <2> QED
    BY <1>0, <1>1, <2>1, <2>3, Zenon DEF SavedIsApplied, CheckpointSane, RowsTellTheTruth
<1> QED
  BY <1>2, <1>3, <1>4, <1>5, <1>6, <1>7, Zenon DEF ListenerStep, Failure

\* Every step keeps the bookkeeping.
LEMMA BaseStep == BaseInv /\ [IndexerNext]_indexerVars => BaseInv'
<1> SUFFICES ASSUME BaseInv, [IndexerNext]_indexerVars PROVE BaseInv'
  BY Zenon
<1>1. CASE IndexerNext
  BY <1>1, BlockKeeps, ListenerKeeps, Zenon DEF IndexerNext
<1>2. CASE UNCHANGED indexerVars
  BY <1>2, Zenon DEF indexerVars, listenerVars, BaseInv, IndexerTypeOK, LedgerOrdered, KeyOnce, SavedIsApplied, Applied,
              CheckpointSane, RowsTellTheTruth
<1> QED
  BY <1>1, <1>2, Zenon

\* The bookkeeping is right at the start.
LEMMA BaseInit == IndexerInit => BaseInv
<1> SUFFICES ASSUME IndexerInit PROVE BaseInv
  BY Zenon
<1>1. ledger = <<>> /\ Len(ledger) = 0 /\ DOMAIN ledger = {}
  BY DEF IndexerInit
<1>2. ledger \in Seq([block : Nat \ {0}, key : EventKeys \cup {Other}])
  BY <1>1
<1> QED
  BY <1>1, <1>2 DEF IndexerInit, BaseInv, IndexerTypeOK, LedgerOrdered, KeyOnce, SavedIsApplied, CheckpointSane,
                    RowsTellTheTruth

\* The types of the listener's state are kept, whatever fails.
THEOREM IndexerTypeCorrect == IndexerSpec => []IndexerTypeOK
BY BaseInit, BaseStep, PTL DEF IndexerSpec, BaseInv

\* A row that carries a block number carries the one of its own event, whatever
\* fails, is delivered again or is left out.
THEOREM RowsCorrect == IndexerSpec => []RowsTellTheTruth
BY BaseInit, BaseStep, PTL DEF IndexerSpec, BaseInv

-----------------------------------------------------------------------------
\* Replaying events after a restart rewrites no row, and Save never moves the
\* checkpoint back.
THEOREM ReplayCorrect == IndexerSpec => ReplayIsHarmless
<1> DEFINE Harmless == /\ \A k \in EventKeys : rows[k] # 0 => rows'[k] = rows[k]
                       /\ checkpoint' >= checkpoint
<1>1. ASSUME BaseInv, IndexerNext PROVE Harmless
  <2>0. checkpoint \in Nat
    BY <1>1, Zenon DEF BaseInv, IndexerTypeOK
  <2>1. ASSUME NEW ks \in Blocks, CommitBlock(ks) PROVE Harmless
    BY <2>0, <2>1 DEF CommitBlock
  <2>2. CASE Apply
    BY <1>1, <2>0, <2>2, ApplyOnce DEF Apply
  <2>3. CASE Save
    <3>1. ledger[pos].block \in Nat
      BY <1>1, <2>3, LedgerFacts, Zenon DEF Save, BaseInv, SavedIsApplied
    <3> QED
      BY <2>0, <2>3, <3>1 DEF Save
  <2>4. CASE Load \/ Subscribe \/ Failure
    BY <2>0, <2>4 DEF Load, Subscribe, Failure, SubscribeFails, StreamCloses, ApplyFails, SaveFails, Crash
  <2> QED
    BY <1>1, <2>1, <2>2, <2>3, <2>4, Zenon DEF IndexerNext, ListenerStep
<1>2. BaseInv /\ [IndexerNext]_indexerVars => [Harmless]_indexerVars
  BY <1>1, Zenon
<1> HIDE DEF Harmless
<1>3. IndexerSpec => [][Harmless]_indexerVars
  BY <1>2, BaseInit, BaseStep, PTL DEF IndexerSpec
<1> QED
  BY <1>3, Zenon DEF ReplayIsHarmless, Harmless

\* What the stream has passed since the first checkpoint is handled.
PassedIsApplied ==
    checkpoint > 0 /\ pc \in {"stream", "save"} =>
        \A i \in DOMAIN ledger : i >= since /\ i < pos => Handled(i)

GapInv == BaseInv /\ NoGap /\ PassedIsApplied

\* Every step keeps the events behind the checkpoint
\* and behind the stream handled.
LEMMA GapStep ==
    ASSUME GapInv, [IndexerNext]_indexerVars
    PROVE  GapInv'
<1> USE DEF GapInv
<1>0. BaseInv'
  BY BaseStep, Zenon
<1>1. ASSUME NEW ks \in Blocks, CommitBlock(ks) PROVE NoGap' /\ PassedIsApplied'
  <2>1. UNCHANGED <<rows, checkpoint, pc, lastBlock, pos, since, failed>>
    BY <1>1, Zenon DEF CommitBlock, listenerVars
  <2>2. \A i \in DOMAIN ledger' : IF i > Len(ledger) THEN ledger'[i].block = height + 1
                                  ELSE i \in DOMAIN ledger /\ ledger'[i] = ledger[i]
    BY <1>1, BlockAppends, LedgerFacts DEF BaseInv
  <2>3. /\ Len(ledger) \in Nat /\ pos \in Nat /\ pos <= Len(ledger) + 1
        /\ checkpoint \in Nat /\ height \in Nat /\ checkpoint <= height
        /\ \A i \in DOMAIN ledger' : i \in Nat
    BY <1>1, BlockAppends, LedgerFacts DEF BaseInv, IndexerTypeOK, CheckpointSane
  <2>4. NoGap'
    BY <2>1, <2>2, <2>3 DEF NoGap, Handled, Applied
  <2>5. PassedIsApplied'
    BY <2>1, <2>2, <2>3 DEF PassedIsApplied, Handled, Applied
  <2> QED
    BY <2>4, <2>5, Zenon
<1>2. CASE Load \/ SubscribeFails \/ StreamCloses \/ Crash
  <2>1. UNCHANGED <<ledger, rows, checkpoint, pos, since, failed>> /\ pc' \in {"load", "subscribe"}
    BY <1>2, Zenon DEF Load, SubscribeFails, StreamCloses, Crash
  <2> QED
    BY <1>0, <2>1, Zenon DEF NoGap, PassedIsApplied, Handled, Applied
<1>3. CASE Subscribe
  <2>1. UNCHANGED <<ledger, rows, checkpoint, since, failed>> /\ lastBlock = checkpoint /\ StartsAt(pos')
    BY <1>3, Zenon DEF Subscribe, BaseInv, CheckpointSane
  <2>2. checkpoint > 0 => \A i \in DOMAIN ledger : i < pos' => ledger[i].block < checkpoint
    BY <2>1, Zenon DEF StartsAt
  <2> QED
    BY <1>0, <2>1, <2>2, Zenon DEF NoGap, PassedIsApplied, Handled, Applied
<1>4. CASE Apply
  <2>1. UNCHANGED <<ledger, checkpoint, pos, since, failed>> /\ pc = "stream"
    BY <1>4, Zenon DEF Apply
  <2>2. \A i \in DOMAIN ledger : Applied(i) => Applied(i)'
    BY <1>4, ApplyOnce, Zenon
  <2> QED
    BY <1>0, <2>1, <2>2, Zenon DEF NoGap, PassedIsApplied, Handled
<1>5. CASE Save
  <2>1. /\ checkpoint' = IF ledger[pos].block > checkpoint THEN ledger[pos].block ELSE checkpoint
        /\ since' = IF checkpoint = 0 THEN pos ELSE since
        /\ pos' = pos + 1
        /\ pc = "save"
        /\ UNCHANGED <<ledger, rows, failed>>
    BY <1>5, Zenon DEF Save
  <2>2. pos \in DOMAIN ledger /\ Applied(pos)
    BY <2>1, Zenon DEF BaseInv, SavedIsApplied
  <2>3. /\ checkpoint \in Nat /\ since \in Nat /\ \A i \in DOMAIN ledger : i \in Nat /\ ledger[i].block \in Nat \ {0}
    BY LedgerFacts DEF BaseInv, IndexerTypeOK
  <2>4. \A i \in DOMAIN ledger : ledger[i].block < ledger[pos].block => i < pos
    BY <2>2, <2>3 DEF BaseInv, LedgerOrdered
  <2>5. \A i \in DOMAIN ledger : Handled(i)' <=> Handled(i)
    BY <2>1, Zenon DEF Handled, Applied
  <2>6. \A i \in DOMAIN ledger : i >= since' /\ i < pos' => Handled(i)
    BY <2>1, <2>2, <2>3 DEF PassedIsApplied, Handled
  <2>7. PassedIsApplied'
    BY <2>1, <2>5, <2>6, Zenon DEF PassedIsApplied
  <2>8. \A i \in DOMAIN ledger : i >= since' /\ ledger[i].block < checkpoint' => Handled(i)
    <3> SUFFICES ASSUME NEW i \in DOMAIN ledger, i >= since', ledger[i].block < checkpoint' PROVE Handled(i)
      BY Zenon
    <3>1. CASE checkpoint' = ledger[pos].block
      BY <2>1, <2>2, <2>3, <2>4, <2>6, <3>1
    <3>2. CASE checkpoint' = checkpoint
      BY <2>1, <2>2, <2>3, <3>2 DEF NoGap
    <3> QED
      BY <2>1, <3>1, <3>2, Zenon
  <2>9. NoGap'
    BY <2>1, <2>5, <2>8, Zenon DEF NoGap
  <2> QED
    BY <1>0, <2>7, <2>9, Zenon
<1>6. CASE SaveFails
  <2>1. UNCHANGED <<ledger, rows, checkpoint, since, failed>> /\ pos' = pos + 1 /\ pc = "save"
    BY <1>6, Zenon DEF SaveFails
  <2>2. Applied(pos) /\ pos \in Nat /\ \A i \in DOMAIN ledger : i \in Nat
    BY <2>1, LedgerFacts DEF BaseInv, SavedIsApplied, IndexerTypeOK
  <2> QED
    BY <1>0, <2>1, <2>2 DEF NoGap, PassedIsApplied, Handled, Applied
<1>7. CASE ApplyFails
  <2>1. /\ UNCHANGED <<ledger, rows, checkpoint, since>> /\ pos' = pos + 1 /\ pc = "stream"
        /\ failed' = failed \cup {pos}
    BY <1>7, Zenon DEF ApplyFails
  <2>2. pos \in Nat /\ \A i \in DOMAIN ledger : i \in Nat
    BY LedgerFacts DEF BaseInv, IndexerTypeOK
  <2> QED
    BY <1>0, <2>1, <2>2 DEF NoGap, PassedIsApplied, Handled, Applied
<1>8. CASE UNCHANGED indexerVars
  BY <1>0, <1>8, Zenon DEF indexerVars, listenerVars, NoGap, PassedIsApplied, Handled, Applied
<1> QED
  BY <1>0, <1>1, <1>2, <1>3, <1>4, <1>5, <1>6, <1>7, <1>8, Zenon DEF IndexerNext, ListenerStep, Failure

\* Closed streams, failed saves and crashes at any point lose no event that was
\* committed since the first checkpoint; only an event whose own UPDATE failed
\* can be left behind.
THEOREM NoGapCorrect == IndexerSpec => []NoGap
<1>1. IndexerInit => GapInv
  BY BaseInit DEF IndexerInit, GapInv, NoGap, PassedIsApplied
<1>2. GapInv /\ [IndexerNext]_indexerVars => GapInv'
  BY GapStep, Zenon
<1> QED
  BY <1>1, <1>2, PTL DEF IndexerSpec, GapInv

=============================================================================
