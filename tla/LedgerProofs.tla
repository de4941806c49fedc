----------------------------- MODULE LedgerProofs -----------------------------
(***************************************************************************)
(* The transaction contract and the write path to it, proved for every set *)
(* of transactions, users, hashes and keys, and any number of workers, rows, *)
(* attempts and faults.                                                    *)
(*                                                                         *)
(* First the contract by itself (Inv), then that every step of the outbox  *)
(* path is one of the contract's or leaves it alone, and then the safety   *)
(* properties of the path.  Those are not inductive by themselves; SafetyInv *)
(* adds what ties the four places together: the Postgres rows, the outbox  *)
(* rows, the workers' unwritten replies and the ledger.                    *)
(***************************************************************************)
EXTENDS Outbox, TLAPS

(* Sequences *)

\* An element of a sequence.
LEMMA SeqElement ==
    ASSUME NEW S, NEW s \in Seq(S), NEW n \in 1..Len(s)
    PROVE  s[n] \in S
  OBVIOUS

\* The empty sequence, and the others.
LEMMA SeqEmpty ==
    ASSUME NEW S
    PROVE  /\ <<>> \in Seq(S) /\ Len(<<>>) = 0
           /\ \A s \in Seq(S) : s # <<>> => Len(s) \in Nat \ {0}
  <1>1. <<>> \in Seq(S) /\ Len(<<>>) = 0
    OBVIOUS
  <1>2. ASSUME NEW s \in Seq(S), s # <<>> PROVE Len(s) \in Nat \ {0}
    BY <1>2
  <1> QED BY <1>1, <1>2, Zenon

\* A sequence as a function.
LEMMA SeqLen ==
    ASSUME NEW S, NEW s \in Seq(S)
    PROVE  Len(s) \in Nat /\ s \in [1..Len(s) -> S] /\ DOMAIN s = 1..Len(s)
  OBVIOUS

\* Replacing an element of a sequence.
LEMMA SeqReplaced ==
    ASSUME NEW S, NEW s \in Seq(S), NEW i \in 1..Len(s), NEW v \in S
    PROVE  /\ [s EXCEPT ![i] = v] \in Seq(S) /\ Len([s EXCEPT ![i] = v]) = Len(s)
           /\ \A j \in 1..Len(s) : [s EXCEPT ![i] = v][j] = IF j = i THEN v ELSE s[j]
  OBVIOUS

\* Appending to a sequence.
LEMMA SeqAppended ==
    ASSUME NEW S, NEW s \in Seq(S), NEW v \in S
    PROVE  /\ Append(s, v) \in Seq(S) /\ Len(Append(s, v)) = Len(s) + 1
           /\ \A i \in 1..Len(s) : Append(s, v)[i] = s[i]
           /\ Append(s, v)[Len(s) + 1] = v
  OBVIOUS

-----------------------------------------------------------------------------
\* An allowed transition leads from a status to a status.
LEMMA TransitionTarget ==
    ASSUME NEW s \in Statuses, NEW n, isTransitionAllowed(s, n)
    PROVE  n \in Statuses /\ n # "DRAFT"
BY Zenon DEF isTransitionAllowed, allowedTransitions, Statuses

\* The fields of an event.
LEMMA EventFields ==
    ASSUME NEW e \in Event
    PROVE  /\ e.txn \in TxnIds
           /\ e.seq \in 0..MaxSequence /\ e.seq \in Nat /\ e.seq >= 1
           /\ e.hash \in Hashes
           /\ e.key \in Keys
           /\ e.new # "" => e.new \in Statuses
<1>1. e.seq \in 1..MaxSequence
  BY Zenon DEF Event
<1>2. e.seq \in 0..MaxSequence /\ e.seq \in Nat /\ e.seq >= 1
  BY <1>1, ConstantsAssumption
<1>3. e.txn \in TxnIds /\ e.hash \in Hashes /\ e.key \in Keys
  BY Zenon DEF Event
<1>4. e.new # "" => e.new \in Statuses
  BY Zenon DEF Event
<1> QED
  BY <1>2, <1>3, <1>4, Zenon

\* The fields of a header, and that a stored header is not None.
LEMMA HeaderFields ==
    ASSUME NEW h \in Header
    PROVE  h # None /\ h.seq \in Nat /\ h.status \in Statuses
<1>1. h # None
  BY ConstantsAssumption, Zenon
<1>2. h.seq \in 0..MaxSequence /\ h.status \in Statuses
  BY Zenon DEF Header
<1> QED
  BY <1>1, <1>2, ConstantsAssumption

-----------------------------------------------------------------------------
\* Type correctness: CreateTransaction, RecordEvent and Approve only store
\* headers, events and approvals of the declared types.
LEMMA TypeInit == Init => TypeOK
BY Zenon DEF Init, TypeOK

\* Every invocation keeps the types.
LEMMA TypeStep == TypeOK /\ [Next]_contractVars => TypeOK'
<1> SUFFICES ASSUME TypeOK, [Next]_contractVars PROVE TypeOK'
  BY Zenon
<1>1. ASSUME NEW t \in TxnIds, NEW u \in Users, CreateTransaction(t, u)
      PROVE  TypeOK'
  <2>1. [createdBy |-> u, status |-> "DRAFT", seq |-> 0, hash |-> NoHash] \in Header
    BY ConstantsAssumption DEF Header, Statuses
  <2> QED
    BY <1>1, <2>1, Zenon DEF CreateTransaction, TypeOK
<1>2. ASSUME NEW e \in Event, RecordEvent(e)
      PROVE  TypeOK'
  <2>1. header[e.txn] \in Header
    BY <1>2, EventFields, Zenon DEF RecordEvent, RecordEventAccepts, TypeOK
  <2>2. NewHeader(e) \in Header
    BY <2>1, EventFields, Zenon DEF NewHeader, Header
  <2> QED
    BY <1>2, <2>2, EventFields, Zenon DEF RecordEvent, PutEvent, TypeOK
<1>3. ASSUME NEW a \in Approval, Approve(a)
      PROVE  TypeOK'
  <2>1. header[a.txn] \in Header
    BY <1>3, Zenon DEF Approve, ApproveAccepts, TypeOK, Approval
  <2>2. [header[a.txn] EXCEPT !.status = "REJECTED"] \in Header
    BY <2>1, Zenon DEF Header, Statuses
  <2> QED
    BY <1>3, <2>2, Zenon DEF Approve, TypeOK, Approval
<1>4. CASE UNCHANGED contractVars
  BY <1>4, Zenon DEF contractVars, TypeOK
<1> QED
  BY <1>1, <1>2, <1>3, <1>4, Zenon DEF Next

\* The world state always holds headers, events and approvals of their types.
THEOREM TypeCorrect == Spec => []TypeOK
BY TypeInit, TypeStep, PTL DEF Spec

-----------------------------------------------------------------------------
\* What an accepted RecordEvent stores in the header it advances, and that it
\* leaves the other headers alone.
LEMMA RecordedHeader ==
    ASSUME TypeOK, NEW e \in Event, RecordEvent(e)
    PROVE  /\ header[e.txn] \in Header
           /\ header'[e.txn] \in Header
           /\ header'[e.txn].createdBy = header[e.txn].createdBy
           /\ header'[e.txn].seq = e.seq
           /\ header'[e.txn].hash = e.hash
           /\ header'[e.txn].status = IF e.new = "" THEN header[e.txn].status ELSE e.new
           /\ \A s \in TxnIds : s # e.txn => header'[s] = header[s]
<1>1. header[e.txn] \in Header
  BY EventFields, Zenon DEF RecordEvent, RecordEventAccepts, TypeOK
<1>2. NewHeader(e) \in Header
  BY <1>1, EventFields, Zenon DEF NewHeader, Header
<1>3. header'[e.txn] = NewHeader(e)
  BY EventFields, Zenon DEF RecordEvent, TypeOK
<1>4. \A s \in TxnIds : s # e.txn => header'[s] = header[s]
  BY Zenon DEF RecordEvent, TypeOK
<1>5. /\ NewHeader(e).createdBy = header[e.txn].createdBy
      /\ NewHeader(e).seq = e.seq
      /\ NewHeader(e).hash = e.hash
      /\ NewHeader(e).status = IF e.new = "" THEN header[e.txn].status ELSE e.new
  BY Zenon DEF NewHeader
<1> QED
  BY <1>1, <1>2, <1>3, <1>4, <1>5, Zenon

\* What an accepted Approve does to the headers.
LEMMA ApprovedHeader ==
    ASSUME TypeOK, NEW a \in Approval, Approve(a)
    PROVE  /\ a.txn \in TxnIds
           /\ header[a.txn] \in Header
           /\ \A t \in TxnIds :
                /\ header'[t] = None <=> header[t] = None
                /\ header[t] # None =>
                      /\ header'[t].seq = header[t].seq
                      /\ header'[t].hash = header[t].hash
                      /\ header'[t].createdBy = header[t].createdBy
                      /\ header'[t].status = IF t = a.txn /\ a.decision = "reject"
                                             THEN "REJECTED" ELSE header[t].status
<1>1. a.txn \in TxnIds
  BY Zenon DEF Approval
<1>2. header[a.txn] \in Header
  BY <1>1, Zenon DEF Approve, ApproveAccepts, TypeOK
<1>3. CASE a.decision # "reject"
  BY <1>1, <1>2, <1>3, Zenon DEF Approve
<1>4. CASE a.decision = "reject"
  <2> DEFINE h == [header[a.txn] EXCEPT !.status = "REJECTED"]
  <2>1. h \in Header
    BY <1>2, Zenon DEF Header, Statuses
  <2>2. header' = [header EXCEPT ![a.txn] = h]
    BY <1>4, Zenon DEF Approve
  <2>3. header'[a.txn] = h /\ \A t \in TxnIds : t # a.txn => header'[t] = header[t]
    BY <1>1, <2>2, Zenon DEF TypeOK
  <2>4. /\ h.seq = header[a.txn].seq
        /\ h.hash = header[a.txn].hash
        /\ h.createdBy = header[a.txn].createdBy
        /\ h.status = "REJECTED"
    BY <1>2, Zenon DEF Header
  <2>5. h # None /\ header[a.txn] # None
    BY <1>2, <2>1, HeaderFields, Zenon
  <2> HIDE DEF h
  <2> QED
    BY <1>1, <1>2, <1>4, <2>3, <2>4, <2>5, Zenon
<1> QED
  BY <1>3, <1>4, Zenon

-----------------------------------------------------------------------------
\* RecordEvent never replaces an event: under the chain invariant the key
\* <<txn, latest + 1>> it writes is free.
LEMMA PutAppends ==
    ASSUME TypeOK, HistoryIsChain, NEW e \in Event, RecordEventAccepts(e)
    PROVE  PutEvent(e) = events \cup {e}
<1>1. header[e.txn] # None /\ e.seq = header[e.txn].seq + 1
  BY Zenon DEF RecordEventAccepts
<1>2. header[e.txn].seq \in Nat
  BY <1>1, EventFields, HeaderFields, Zenon DEF TypeOK
<1>3. ASSUME NEW f \in events, f.txn = e.txn PROVE f.seq # e.seq
  <2>1. f.seq <= header[e.txn].seq
    BY <1>3, Zenon DEF HistoryIsChain
  <2>2. f.seq \in Nat
    BY EventFields, Zenon DEF TypeOK
  <2> QED
    BY <1>1, <1>2, <2>1, <2>2
<1> QED
  BY <1>3, Zenon DEF PutEvent

\* One step of the contract keeps every history a hash chain.
LEMMA ChainStep ==
    ASSUME TypeOK, TypeOK', HistoryIsChain, [Next]_contractVars
    PROVE  HistoryIsChain'
<1>1. ASSUME NEW t \in TxnIds, NEW u \in Users, CreateTransaction(t, u)
      PROVE  HistoryIsChain'
  <2>1. header'[t] = [createdBy |-> u, status |-> "DRAFT", seq |-> 0, hash |-> NoHash]
    BY <1>1, Zenon DEF CreateTransaction, TypeOK
  <2>2. \A s \in TxnIds : s # t => header'[s] = header[s]
    BY <1>1, Zenon DEF CreateTransaction, TypeOK
  <2>3. \A e \in events : e.txn \in TxnIds /\ e.txn # t
    BY <1>1, EventFields, Zenon DEF CreateTransaction, TypeOK, HistoryIsChain
  <2>4. events' = events
    BY <1>1, Zenon DEF CreateTransaction
  <2> QED
    BY <2>1, <2>2, <2>3, <2>4 DEF HistoryIsChain, EventsOf
<1>2. ASSUME NEW e \in Event, RecordEvent(e)
      PROVE  HistoryIsChain'
  <2>1. events' = events \cup {e}
    BY <1>2, PutAppends, Zenon DEF RecordEvent
  <2>2. /\ header'[e.txn].seq = e.seq
        /\ header'[e.txn].hash = e.hash
        /\ header'[e.txn] # None
    BY <1>2, RecordedHeader, HeaderFields, Zenon
  <2>3. \A s \in TxnIds : s # e.txn => header'[s] = header[s]
    BY <1>2, RecordedHeader, Zenon
  <2>4. /\ header[e.txn] # None
        /\ e.seq = header[e.txn].seq + 1
        /\ e.prev = header[e.txn].hash
    BY <1>2, Zenon DEF RecordEvent, RecordEventAccepts
  <2>5. header[e.txn].seq \in Nat
    BY <2>4, EventFields, HeaderFields, Zenon DEF TypeOK
  <2>6. \A f \in events : f.seq \in Nat /\ f.txn \in TxnIds /\ f.seq >= 1
    BY EventFields, Zenon DEF TypeOK
  <2>7. e.txn \in TxnIds /\ e.seq \in Nat
    BY EventFields, Zenon
  <2>8. (\A f \in events : header[f.txn] # None /\ f.seq <= header[f.txn].seq)'
    BY <2>1, <2>2, <2>3, <2>4, <2>5, <2>6, <2>7 DEF HistoryIsChain
  <2>9. (\A t \in TxnIds : header[t] # None =>
           \A n \in 1..header[t].seq : \E f \in EventsOf(t) : f.seq = n)'
    <3> SUFFICES ASSUME NEW t \in TxnIds, header'[t] # None, NEW n \in 1..(header'[t].seq)
                 PROVE  \E f \in events' : f.txn = t /\ f.seq = n
      BY DEF EventsOf
    <3>1. CASE t # e.txn
      BY <3>1, <2>1, <2>3 DEF HistoryIsChain, EventsOf
    <3>2. CASE t = e.txn /\ n = e.seq
      BY <3>2, <2>1, Zenon
    <3>3. CASE t = e.txn /\ n # e.seq
      <4>1. n \in 1..header[e.txn].seq
        BY <3>3, <2>2, <2>4, <2>5, <2>7
      <4> QED
        BY <3>3, <4>1, <2>1, <2>4, <2>7 DEF HistoryIsChain, EventsOf
    <3> QED
      BY <3>1, <3>2, <3>3, Zenon
  <2>10. (\A f, g \in events : f.txn = g.txn /\ f.seq = g.seq => f = g)'
    BY <2>1, <2>4, <2>5, <2>6, <2>7 DEF HistoryIsChain
  <2>11. (\A f, g \in events : f.txn = g.txn /\ g.seq = f.seq + 1 => g.prev = f.hash)'
    BY <2>1, <2>4, <2>5, <2>6, <2>7 DEF HistoryIsChain
  <2>12. (\A f \in events : f.seq = 1 => f.prev = NoHash)'
    BY <2>1, <2>4, <2>5, <2>6, <2>7 DEF HistoryIsChain
  <2>13. (\A f \in events : f.seq = header[f.txn].seq => f.hash = header[f.txn].hash)'
    BY <2>1, <2>2, <2>3, <2>4, <2>5, <2>6, <2>7 DEF HistoryIsChain
  <2>14. (\A t \in TxnIds : header[t] # None /\ header[t].seq = 0 => header[t].hash = NoHash)'
    BY <2>2, <2>3, <2>4, <2>5, <2>7 DEF HistoryIsChain
  <2> QED
    BY <2>8, <2>9, <2>10, <2>11, <2>12, <2>13, <2>14, Zenon DEF HistoryIsChain
<1>3. ASSUME NEW a \in Approval, Approve(a)
      PROVE  HistoryIsChain'
  <2>1. \A t \in TxnIds : /\ header'[t] # None <=> header[t] # None
                          /\ header[t] # None => /\ header'[t].seq = header[t].seq
                                                 /\ header'[t].hash = header[t].hash
    BY <1>3, ApprovedHeader, Zenon
  <2>2. events' = events /\ \A e \in events : e.txn \in TxnIds
    BY <1>3, EventFields, Zenon DEF Approve, TypeOK
  <2> QED
    BY <2>1, <2>2 DEF HistoryIsChain, EventsOf
<1>4. CASE UNCHANGED contractVars
  BY <1>4, Zenon DEF contractVars, HistoryIsChain, EventsOf
<1> QED
  BY <1>1, <1>2, <1>3, <1>4, Zenon DEF Next

\* One step keeps the markers equal to the keys of the recorded events, each
\* carried once.
LEMMA IdempotencyStep ==
    ASSUME TypeOK, HistoryIsChain, IdempotencyOnce, [Next]_contractVars
    PROVE  IdempotencyOnce'
<1>1. ASSUME NEW e \in Event, RecordEvent(e)
      PROVE  IdempotencyOnce'
  <2>1. events' = events \cup {e} /\ idem' = idem \cup {e.key}
    BY <1>1, PutAppends, Zenon DEF RecordEvent
  <2>2. \A f \in events : f.key # e.key
    BY <1>1, Zenon DEF RecordEvent, RecordEventAccepts, IdempotencyOnce
  <2> QED
    BY <2>1, <2>2, Zenon DEF IdempotencyOnce
<1>2. CASE UNCHANGED <<events, idem>>
  BY <1>2, Zenon DEF IdempotencyOnce
<1> QED
  BY <1>1, <1>2, Zenon DEF Next, CreateTransaction, Approve, contractVars

\* One step keeps every decision made by somebody other than the creator.
LEMMA ApprovalsStep ==
    ASSUME TypeOK, ApprovalsAreIndependent, [Next]_contractVars
    PROVE  ApprovalsAreIndependent'
<1>0. \A a \in approvals : a.txn \in TxnIds
  BY Zenon DEF TypeOK, Approval
<1>1. ASSUME NEW t \in TxnIds, NEW u \in Users, CreateTransaction(t, u)
      PROVE  ApprovalsAreIndependent'
  <2>1. \A s \in TxnIds : s # t => header'[s] = header[s]
    BY <1>1, Zenon DEF CreateTransaction, TypeOK
  <2>2. \A a \in approvals : a.txn # t
    BY <1>1, Zenon DEF CreateTransaction, ApprovalsAreIndependent
  <2> QED
    BY <1>0, <1>1, <2>1, <2>2, Zenon DEF CreateTransaction, ApprovalsAreIndependent
<1>2. ASSUME NEW e \in Event, RecordEvent(e)
      PROVE  ApprovalsAreIndependent'
  <2>1. approvals' = approvals
    BY <1>2, Zenon DEF RecordEvent
  <2>2. \A t \in TxnIds : header[t] # None =>
           header'[t] # None /\ header'[t].createdBy = header[t].createdBy
    BY <1>2, RecordedHeader, HeaderFields, Zenon
  <2> QED
    BY <1>0, <2>1, <2>2, Zenon DEF ApprovalsAreIndependent
<1>3. ASSUME NEW b \in Approval, Approve(b)
      PROVE  ApprovalsAreIndependent'
  <2>1. \A t \in TxnIds : header[t] # None =>
           header'[t] # None /\ header'[t].createdBy = header[t].createdBy
    BY <1>3, ApprovedHeader, Zenon
  <2>2. approvals' = approvals \cup {b} /\ b.txn \in TxnIds
    BY <1>3, ApprovedHeader, Zenon DEF Approve
  <2>3. ApproveAccepts(b)
    BY <1>3, Zenon DEF Approve
  <2> QED
    BY <1>0, <2>1, <2>2, <2>3 DEF ApprovalsAreIndependent, ApproveAccepts
<1>4. CASE UNCHANGED contractVars
  BY <1>4, Zenon DEF contractVars, ApprovalsAreIndependent
<1> QED
  BY <1>1, <1>2, <1>3, <1>4, Zenon DEF Next

-----------------------------------------------------------------------------
(* The status of a header follows from the records. *)

Changing(t) == {e \in EventsOf(t) : e.new # ""}
Rejected(t) == \E a \in approvals : a.txn = t /\ a.decision = "reject"
Revoked(t) == \E e \in Changing(t) : e.new = "REVOKED"

\* StatusFollowsFromRecords for one transaction, with the fact that makes it
\* inductive: once a REVOKED event is recorded the status is REVOKED for good.
StatusOf(t) ==
    /\ Revoked(t) => header[t].status = "REVOKED"
    /\ Rejected(t) => header[t].status = IF Revoked(t) THEN "REVOKED" ELSE "REJECTED"
    /\ ~ Rejected(t) =>
          \/ Changing(t) = {} /\ header[t].status = "DRAFT"
          \/ \E e \in Changing(t) : /\ header[t].status = e.new
                                    /\ \A f \in Changing(t) : f.seq <= e.seq

StatusInv == \A t \in TxnIds : header[t] # None => StatusOf(t)

\* The inductive form of the status property implies the checked one.
LEMMA StatusInvImplies == StatusInv => StatusFollowsFromRecords
BY Zenon DEF StatusInv, StatusOf, StatusFollowsFromRecords, Changing, Rejected, Revoked

\* A transaction no step touches keeps its status explained.
LEMMA StatusFrame ==
    ASSUME NEW t \in TxnIds, StatusOf(t), header'[t].status = header[t].status,
           Changing(t)' = Changing(t), Rejected(t)' <=> Rejected(t)
    PROVE  StatusOf(t)'
BY Zenon DEF StatusOf, Revoked

\* One step keeps every status explained by the records.
LEMMA StatusStep ==
    ASSUME TypeOK, HistoryIsChain, ApprovalsAreIndependent, StatusInv, [Next]_contractVars
    PROVE  StatusInv'
<1>1. ASSUME NEW t \in TxnIds, NEW u \in Users, CreateTransaction(t, u)
      PROVE  StatusInv'
  <2>1. events' = events /\ approvals' = approvals
    BY <1>1, Zenon DEF CreateTransaction
  <2>2. \A s \in TxnIds : Changing(s)' = Changing(s) /\ (Rejected(s)' <=> Rejected(s))
    BY <2>1, Zenon DEF Changing, EventsOf, Rejected
  <2>3. ASSUME NEW s \in TxnIds, s # t, header'[s] # None PROVE StatusOf(s)'
    <3>1. header'[s] = header[s]
      BY <1>1, <2>3, Zenon DEF CreateTransaction, TypeOK
    <3> QED
      BY <2>2, <2>3, <3>1, StatusFrame, Zenon DEF StatusInv
  <2>4. StatusOf(t)'
    <3>1. Changing(t)' = {} /\ ~ Rejected(t)'
      BY <1>1, <2>1, Zenon DEF CreateTransaction, HistoryIsChain, ApprovalsAreIndependent,
                        Changing, EventsOf, Rejected
    <3>2. header'[t].status = "DRAFT"
      BY <1>1, Zenon DEF CreateTransaction, TypeOK
    <3> QED
      BY <3>1, <3>2, Zenon DEF StatusOf, Revoked
  <2> QED
    BY <2>3, <2>4, Zenon DEF StatusInv
<1>2. ASSUME NEW e \in Event, RecordEvent(e)
      PROVE  StatusInv'
  <2>1. events' = events \cup {e} /\ approvals' = approvals
    BY <1>2, PutAppends, Zenon DEF RecordEvent
  <2>2. \A s \in TxnIds : Rejected(s)' <=> Rejected(s)
    BY <2>1, Zenon DEF Rejected
  <2>3. ASSUME NEW s \in TxnIds, s # e.txn, header'[s] # None PROVE StatusOf(s)'
    <3>1. header'[s] = header[s]
      BY <1>2, <2>3, RecordedHeader, Zenon
    <3>2. Changing(s)' = Changing(s)
      BY <2>1, <2>3, Zenon DEF Changing, EventsOf
    <3> QED
      BY <2>2, <2>3, <3>1, <3>2, StatusFrame, Zenon DEF StatusInv
  <2>4. e.txn \in TxnIds /\ e.seq \in Nat /\ header[e.txn] # None
    BY <1>2, EventFields, RecordedHeader, HeaderFields, Zenon
  <2>5. StatusOf(e.txn)
    BY <2>4, Zenon DEF StatusInv
  <2>6. CASE e.new = ""
    <3>1. Changing(e.txn)' = Changing(e.txn)
      BY <2>1, <2>6, Zenon DEF Changing, EventsOf
    <3>2. header'[e.txn].status = header[e.txn].status
      BY <1>2, <2>6, RecordedHeader, Zenon
    <3>3. StatusOf(e.txn)'
      BY <2>2, <2>4, <2>5, <3>1, <3>2, StatusFrame, Zenon
    <3> QED
      BY <2>3, <3>3, Zenon DEF StatusInv
  <2>7. CASE e.new # ""
    <3>1. Changing(e.txn)' = Changing(e.txn) \cup {e}
      BY <2>1, <2>7, Zenon DEF Changing, EventsOf
    <3>2. header'[e.txn].status = e.new
      BY <1>2, <2>7, RecordedHeader, Zenon
    <3>3. isTransitionAllowed(header[e.txn].status, e.new)
      BY <1>2, <2>7, Zenon DEF RecordEvent, RecordEventAccepts
    <3>4. ~ Revoked(e.txn)
      BY <2>5, <3>3, Zenon DEF StatusOf, isTransitionAllowed, allowedTransitions
    <3>5. Revoked(e.txn)' <=> e.new = "REVOKED"
      BY <3>1, <3>4, Zenon DEF Revoked
    <3>6. Rejected(e.txn) => e.new = "REVOKED"
      BY <2>5, <3>3, <3>4, Zenon DEF StatusOf, isTransitionAllowed, allowedTransitions
    <3>7. \A f \in Changing(e.txn)' : f.seq <= e.seq
      <4>1. \A f \in Changing(e.txn) : f.seq <= header[e.txn].seq /\ f.seq \in Nat
        BY EventFields, Zenon DEF HistoryIsChain, TypeOK, Changing, EventsOf
      <4>2. e.seq = header[e.txn].seq + 1 /\ header[e.txn].seq \in Nat
        BY <1>2, RecordedHeader, HeaderFields, Zenon DEF RecordEvent, RecordEventAccepts
      <4> QED
        BY <2>4, <3>1, <4>1, <4>2
    <3>8. StatusOf(e.txn)'
      BY <2>2, <2>4, <3>1, <3>2, <3>5, <3>6, <3>7, Zenon DEF StatusOf
    <3> QED
      BY <2>3, <3>8, Zenon DEF StatusInv
  <2> QED
    BY <2>6, <2>7, Zenon
<1>3. ASSUME NEW a \in Approval, Approve(a)
      PROVE  StatusInv'
  <2>1. events' = events /\ approvals' = approvals \cup {a} /\ a.txn \in TxnIds
    BY <1>3, ApprovedHeader, Zenon DEF Approve
  <2>2. \A s \in TxnIds : Changing(s)' = Changing(s)
    BY <2>1, Zenon DEF Changing, EventsOf
  <2>3. ASSUME NEW s \in TxnIds, header'[s] # None, s # a.txn \/ a.decision # "reject"
        PROVE  StatusOf(s)'
    <3>1. header[s] # None /\ header'[s].status = header[s].status
      BY <1>3, <2>3, ApprovedHeader, Zenon
    <3>2. Rejected(s)' <=> Rejected(s)
      BY <2>1, <2>3, Zenon DEF Rejected
    <3> QED
      BY <2>2, <2>3, <3>1, <3>2, StatusFrame, Zenon DEF StatusInv
  <2>4. ASSUME a.decision = "reject" PROVE StatusOf(a.txn)'
    <3>1. header[a.txn] # None /\ header'[a.txn].status = "REJECTED"
      BY <1>3, <2>4, ApprovedHeader, HeaderFields, Zenon
    <3>2. header[a.txn].status # "REVOKED"
      BY <1>3, <2>4, Zenon DEF Approve, ApproveAccepts, isTransitionAllowed, allowedTransitions
    <3>3. ~ Revoked(a.txn)
      BY <2>1, <3>1, <3>2, Zenon DEF StatusInv, StatusOf
    <3>4. Rejected(a.txn)' /\ ~ Revoked(a.txn)'
      BY <2>1, <2>2, <2>4, <3>3, Zenon DEF Rejected, Revoked
    <3> QED
      BY <3>1, <3>4, Zenon DEF StatusOf
  <2> QED
    BY <2>3, <2>4, Zenon DEF StatusInv
<1>4. CASE UNCHANGED contractVars
  BY <1>4, Zenon DEF contractVars, StatusInv, StatusOf, Changing, Rejected, Revoked, EventsOf
<1> QED
  BY <1>1, <1>2, <1>3, <1>4, Zenon DEF Next

-----------------------------------------------------------------------------
\* The inductive invariant of the contract's bookkeeping.
Inv == /\ TypeOK
       /\ HistoryIsChain
       /\ IdempotencyOnce
       /\ ApprovalsAreIndependent
       /\ StatusInv

\* The inductive invariant holds before the first invocation.
LEMMA InvInit == Init => Inv
BY Zenon DEF Init, Inv, TypeOK, HistoryIsChain, EventsOf, IdempotencyOnce,
       ApprovalsAreIndependent, StatusInv

\* Every invocation keeps the inductive invariant.
LEMMA InvStep == Inv /\ [Next]_contractVars => Inv'
BY TypeStep, ChainStep, IdempotencyStep, ApprovalsStep, StatusStep, Zenon DEF Inv

\* The inductive invariant always holds.
LEMMA InvAlways == Spec => []Inv
BY InvInit, InvStep, PTL DEF Spec

\* The events RecordEvent accepts form one hash chain per transaction,
\* numbered without gaps, which the header summarises.
THEOREM HistoryCorrect == Spec => []HistoryIsChain
BY InvAlways, PTL DEF Inv

\* No idempotency key is ever committed twice, in one transaction or in two.
THEOREM IdempotencyCorrect == Spec => []IdempotencyOnce
BY InvAlways, PTL DEF Inv

\* No creator's own decision and no second decision is ever recorded.
THEOREM ApprovalsCorrect == Spec => []ApprovalsAreIndependent
BY InvAlways, PTL DEF Inv

\* The status of every header can be recomputed from the recorded events and
\* rejections alone.
THEOREM StatusCorrect == Spec => []StatusFollowsFromRecords
BY InvAlways, StatusInvImplies, PTL DEF Inv

\* What a step of the contract never takes away.
Grows ==
    /\ events \subseteq events'
    /\ idem \subseteq idem'
    /\ approvals \subseteq approvals'
    /\ \A t \in TxnIds : header[t] # None =>
          /\ header'[t] # None
          /\ header'[t].createdBy = header[t].createdBy
          /\ header'[t].seq >= header[t].seq

\* No invocation takes anything away.
LEMMA GrowsStep ==
    ASSUME Inv, [Next]_contractVars
    PROVE  Grows
<1>0. \A t \in TxnIds : header[t] # None => header[t].seq \in Nat
  BY HeaderFields, Zenon DEF Inv, TypeOK
<1>1. ASSUME NEW t \in TxnIds, NEW u \in Users, CreateTransaction(t, u) PROVE Grows
  <2>1. \A s \in TxnIds : header[s] # None => header'[s] = header[s]
    BY <1>1, Zenon DEF CreateTransaction, Inv, TypeOK
  <2> QED
    BY <1>0, <1>1, <2>1 DEF CreateTransaction, Grows
<1>2. ASSUME NEW e \in Event, RecordEvent(e) PROVE Grows
  <2>1. events' = events \cup {e} /\ idem' = idem \cup {e.key} /\ approvals' = approvals
    BY <1>2, PutAppends, Zenon DEF RecordEvent, Inv
  <2>2. e.seq = header[e.txn].seq + 1 /\ e.seq \in Nat
    BY <1>2, EventFields, Zenon DEF RecordEvent, RecordEventAccepts
  <2>3. header[e.txn].seq \in Nat /\ header'[e.txn] # None
    BY <1>2, RecordedHeader, HeaderFields, Zenon DEF Inv
  <2>4. /\ header'[e.txn].createdBy = header[e.txn].createdBy
        /\ header'[e.txn].seq = e.seq
        /\ \A s \in TxnIds : s # e.txn => header'[s] = header[s]
    BY <1>2, RecordedHeader, Zenon DEF Inv
  <2> QED
    BY <1>0, <2>1, <2>2, <2>3, <2>4 DEF Grows
<1>3. ASSUME NEW a \in Approval, Approve(a) PROVE Grows
  BY <1>0, <1>3, ApprovedHeader DEF Approve, Inv, Grows
<1>4. ASSUME UNCHANGED contractVars PROVE Grows
  BY <1>0, <1>4 DEF contractVars, Grows
<1> QED
  BY <1>1, <1>2, <1>3, <1>4, Zenon DEF Next

\* Nothing the contract has recorded is ever overwritten or removed.
THEOREM LedgerAppendOnly == Spec => AppendOnly
<1>1. Inv /\ [Next]_contractVars => [Grows]_contractVars
  BY GrowsStep, Zenon
<1>2. Spec => [][Grows]_contractVars
  BY <1>1, InvAlways, PTL DEF Spec
<1> QED
  BY <1>2, Zenon DEF AppendOnly, Grows

-----------------------------------------------------------------------------
Fns == {"CreateTransaction", "RecordEvent", "Approve"}

\* The fields of an outbox row.
LEMMA RowFields ==
    ASSUME NEW r \in Row
    PROVE  /\ r.fn \in Fns
           /\ r.arg \in Arguments
           /\ r.attempts \in Nat
           /\ r.status \in {"pending", "sent", "dead_letter"}
BY Zenon DEF Row, Fns

\* A row update touches neither the function nor its arguments.
LEMMA RowUpdate ==
    ASSUME NEW r \in Row, NEW n \in Nat, NEW st \in {"pending", "sent", "dead_letter"}
    PROVE  /\ [r EXCEPT !.status = st] \in Row
           /\ [r EXCEPT !.status = st].fn = r.fn
           /\ [r EXCEPT !.status = st].arg = r.arg
           /\ [r EXCEPT !.status = st].status = st
           /\ [r EXCEPT !.status = st, !.attempts = n] \in Row
           /\ [r EXCEPT !.status = st, !.attempts = n].fn = r.fn
           /\ [r EXCEPT !.status = st, !.attempts = n].arg = r.arg
           /\ [r EXCEPT !.status = st, !.attempts = n].status = st
BY Zenon DEF Row

\* Replacing an element of a sequence.
LEMMA SeqExcept ==
    ASSUME NEW S, NEW s \in Seq(S), NEW i \in DOMAIN s, NEW v \in S
    PROVE  /\ [s EXCEPT ![i] = v] \in Seq(S)
           /\ DOMAIN [s EXCEPT ![i] = v] = DOMAIN s
           /\ [s EXCEPT ![i] = v][i] = v
           /\ \A j \in DOMAIN s : j # i => [s EXCEPT ![i] = v][j] = s[j]
BY SeqReplaced

\* Appending a row.
LEMMA SeqAppend ==
    ASSUME NEW S, NEW s \in Seq(S), NEW v \in S
    PROVE  /\ Append(s, v) \in Seq(S)
           /\ DOMAIN s \subseteq DOMAIN Append(s, v)
           /\ DOMAIN Append(s, v) = DOMAIN s \cup {Len(s) + 1}
           /\ Append(s, v)[Len(s) + 1] = v
           /\ \A j \in DOMAIN s : Append(s, v)[j] = s[j]
<1>1. /\ Append(s, v) \in Seq(S)
      /\ Len(Append(s, v)) = Len(s) + 1
      /\ \A i \in 1..Len(s) : Append(s, v)[i] = s[i]
      /\ Append(s, v)[Len(s) + 1] = v
  BY SeqAppended
<1>2. DOMAIN s = 1..Len(s) /\ DOMAIN Append(s, v) = 1..(Len(s) + 1) /\ Len(s) \in Nat
  BY <1>1, SeqLen, Zenon
<1> QED
  BY <1>1, <1>2

-----------------------------------------------------------------------------
(* Type correctness *)

ArgsMatch(r) ==
    /\ r.fn = "CreateTransaction" => r.arg \in CreateArgs
    /\ r.fn = "RecordEvent" => r.arg \in Event
    /\ r.fn = "Approve" => r.arg \in Approval

\* A claim is of rows that exist.
ClaimsExist == \A w \in Workers : \A c \in worker[w].claim : c.id \in DOMAIN outbox

\* What a step may do to the queue: append one pending row or update one row.
QueueTypes ==
    /\ outbox \in Seq(Row)
    /\ \A i \in DOMAIN outbox : ArgsMatch(outbox[i])
    /\ backoff \subseteq DOMAIN outbox
    /\ inflight \subseteq DOMAIN outbox

\* The type invariant in the parts that the frame lemmas are about.
LEMMA TypeParts ==
    OutboxTypeOK <=> /\ TypeOK
                     /\ dbTxn \in [TxnIds -> Users \cup {None}]
                     /\ dbEvents \subseteq Event
                     /\ stamped \subseteq Event
                     /\ QueueTypes
                     /\ worker \in [Workers -> Worker]
                     /\ ClaimsExist
                     /\ faults \in Nat
BY Zenon DEF OutboxTypeOK, QueueTypes, ClaimsExist, ArgsMatch

\* No step changes the function or arguments of a row or removes one.
RowsKept ==
    /\ DOMAIN outbox \subseteq DOMAIN outbox'
    /\ \A i \in DOMAIN outbox : /\ outbox'[i].fn = outbox[i].fn
                                /\ outbox'[i].arg = outbox[i].arg

\* enqueueOutbox adds one pending row at the end.
LEMMA EnqueueStep ==
    ASSUME QueueTypes, NEW fnName \in Fns, NEW payload \in Arguments,
           ArgsMatch([fn |-> fnName, arg |-> payload, attempts |-> 0, status |-> "pending"]),
           enqueueOutbox(fnName, payload), UNCHANGED inflight
    PROVE  /\ QueueTypes'
           /\ RowsKept
           /\ DOMAIN outbox' = DOMAIN outbox \cup {Len(outbox) + 1}
           /\ outbox'[Len(outbox) + 1] =
                 [fn |-> fnName, arg |-> payload, attempts |-> 0, status |-> "pending"]
           /\ \A i \in DOMAIN outbox : outbox'[i] = outbox[i]
<1> DEFINE r == [fn |-> fnName, arg |-> payload, attempts |-> 0, status |-> "pending"]
<1>1. r \in Row
  BY Zenon DEF Row, Fns
<1>2. outbox' = Append(outbox, r) /\ backoff' = backoff
  BY Zenon DEF enqueueOutbox
<1>3. outbox \in Seq(Row)
  BY Zenon DEF QueueTypes
<1>4. ArgsMatch(r)
  BY Zenon
<1> HIDE DEF r
<1>5. /\ outbox' \in Seq(Row)
      /\ DOMAIN outbox \subseteq DOMAIN outbox'
      /\ DOMAIN outbox' = DOMAIN outbox \cup {Len(outbox) + 1}
      /\ outbox'[Len(outbox) + 1] = r
      /\ \A j \in DOMAIN outbox : outbox'[j] = outbox[j]
  BY <1>1, <1>2, <1>3, SeqAppend
<1>6. \A i \in DOMAIN outbox' : ArgsMatch(outbox'[i])
  BY <1>4, <1>5, Zenon DEF QueueTypes
<1>7. QueueTypes'
  BY <1>2, <1>5, <1>6, Zenon DEF QueueTypes, ArgsMatch
<1> QED
  BY <1>5, <1>7, Zenon DEF RowsKept, r

\* An UPDATE of one row that keeps its function and arguments.
LEMMA UpdateStep ==
    ASSUME QueueTypes, NEW i \in DOMAIN outbox, NEW v \in Row,
           v.fn = outbox[i].fn, v.arg = outbox[i].arg,
           outbox' = [outbox EXCEPT ![i] = v],
           backoff' \subseteq DOMAIN outbox, UNCHANGED inflight
    PROVE  /\ QueueTypes'
           /\ RowsKept
           /\ DOMAIN outbox' = DOMAIN outbox
           /\ outbox'[i] = v
           /\ \A j \in DOMAIN outbox : j # i => outbox'[j] = outbox[j]
<1>1. outbox \in Seq(Row)
  BY Zenon DEF QueueTypes
<1>2. /\ outbox' \in Seq(Row)
      /\ DOMAIN outbox' = DOMAIN outbox
      /\ outbox'[i] = v
      /\ \A j \in DOMAIN outbox : j # i => outbox'[j] = outbox[j]
  BY <1>1, SeqExcept, Zenon
<1>3. RowsKept
  BY <1>2, Zenon DEF RowsKept
<1>4. \A j \in DOMAIN outbox' : ArgsMatch(outbox'[j])
  BY <1>2, <1>3 DEF QueueTypes, ArgsMatch, RowsKept
<1>5. QueueTypes'
  BY <1>2, <1>4, Zenon DEF QueueTypes, ArgsMatch
<1> QED
  BY <1>2, <1>3, <1>5, Zenon

\* An invocation of a row is one of the contract's invocations.
LEMMA InvokeIsNext ==
    ASSUME QueueTypes, NEW i \in DOMAIN outbox, Invoke(outbox[i])
    PROVE  Next
<1>1. ArgsMatch(outbox[i])
  BY Zenon DEF QueueTypes
<1>2. CASE outbox[i].fn = "CreateTransaction" /\ CreateTransaction(outbox[i].arg.txn, outbox[i].arg.user)
  <2>1. outbox[i].arg.txn \in TxnIds /\ outbox[i].arg.user \in Users
    BY <1>1, <1>2, Zenon DEF ArgsMatch, CreateArgs
  <2> QED
    BY <1>2, <2>1, Zenon DEF Next
<1>3. CASE outbox[i].fn = "RecordEvent" /\ RecordEvent(outbox[i].arg)
  BY <1>1, <1>3, Zenon DEF ArgsMatch, Next
<1>4. CASE outbox[i].fn = "Approve" /\ Approve(outbox[i].arg)
  BY <1>1, <1>4, Zenon DEF ArgsMatch, Next
<1> QED
  BY <1>2, <1>3, <1>4, Zenon DEF Invoke

\* Steps that leave the queue alone.
LEMMA QueueFrame ==
    ASSUME QueueTypes, UNCHANGED outbox, backoff' \subseteq backoff,
           inflight' \subseteq DOMAIN outbox
    PROVE  QueueTypes' /\ RowsKept
BY Zenon DEF QueueTypes, RowsKept, ArgsMatch

\* Workers only move within the types: pc changes, or the claim shrinks, or
\* a claim of existing rows is made.
LEMMA WorkerFrame ==
    ASSUME worker \in [Workers -> Worker], ClaimsExist, RowsKept,
           NEW w \in Workers, NEW p \in {"idle", "locked", "submit", "ok", "err"},
           NEW cl, cl \subseteq Claim, \A c \in cl : c.id \in DOMAIN outbox,
           worker' = [worker EXCEPT ![w] = [pc |-> p, claim |-> cl]]
    PROVE  worker' \in [Workers -> Worker] /\ ClaimsExist'
<1>1. [pc |-> p, claim |-> cl] \in Worker
  BY Zenon DEF Worker
<1>2. worker' \in [Workers -> Worker]
  BY <1>1, Zenon
<1>3. \A v \in Workers : worker'[v] = IF v = w THEN [pc |-> p, claim |-> cl] ELSE worker[v]
  BY Zenon
<1>4. \A v \in Workers : \A c \in worker'[v].claim : c.id \in DOMAIN outbox
  BY <1>3, Zenon DEF ClaimsExist
<1> QED
  BY <1>2, <1>4, Zenon DEF ClaimsExist, RowsKept

\* The same for a change of pc alone, and for an unchanged worker.
LEMMA ReplyFrame ==
    ASSUME worker \in [Workers -> Worker], ClaimsExist, RowsKept,
           NEW w \in Workers, NEW p \in {"idle", "locked", "submit", "ok", "err"},
           worker' = [worker EXCEPT ![w].pc = p]
    PROVE  /\ worker' \in [Workers -> Worker]
           /\ ClaimsExist'
           /\ worker'[w].pc = p
           /\ worker'[w].claim = worker[w].claim
           /\ \A v \in Workers : v # w => worker'[v] = worker[v]
<1>1. worker[w] \in Worker
  BY Zenon
<1>2. /\ [worker[w] EXCEPT !.pc = p] \in Worker
      /\ [worker[w] EXCEPT !.pc = p].pc = p
      /\ [worker[w] EXCEPT !.pc = p].claim = worker[w].claim
  BY <1>1, Zenon DEF Worker
<1>3. worker' = [worker EXCEPT ![w] = [worker[w] EXCEPT !.pc = p]]
  BY Zenon
<1>4. \A v \in Workers : worker'[v] = IF v = w THEN [worker[w] EXCEPT !.pc = p] ELSE worker[v]
  BY <1>3, Zenon
<1>5. worker' \in [Workers -> Worker]
  BY <1>2, <1>3, Zenon
<1> QED
  BY <1>2, <1>4, <1>5, Zenon DEF ClaimsExist, RowsKept

\* Workers that do nothing keep their claims.
LEMMA IdleFrame ==
    ASSUME worker \in [Workers -> Worker], ClaimsExist, RowsKept, UNCHANGED worker
    PROVE  worker' \in [Workers -> Worker] /\ ClaimsExist'
BY Zenon DEF ClaimsExist, RowsKept

\* The next claimed row.
LEMMA NextClaimedFrame ==
    ASSUME worker \in [Workers -> Worker], ClaimsExist, RowsKept,
           NEW w \in Workers, NEW c, NextClaimed(w, c)
    PROVE  worker' \in [Workers -> Worker] /\ ClaimsExist'
<1> DEFINE cl == worker[w].claim \ {c}
           p == IF worker[w].claim = {c} THEN "idle" ELSE "submit"
<1>1. cl \subseteq Claim /\ \A d \in cl : d.id \in DOMAIN outbox
  BY Zenon DEF Worker, ClaimsExist
<1>2. p \in {"idle", "locked", "submit", "ok", "err"}
  BY Zenon
<1>3. worker' = [worker EXCEPT ![w] = [pc |-> p, claim |-> cl]]
  BY Zenon DEF NextClaimed
<1> HIDE DEF cl, p
<1> QED
  BY <1>1, <1>2, <1>3, WorkerFrame, Zenon

\* The fields of a claimed row.
LEMMA ClaimFields ==
    ASSUME worker \in [Workers -> Worker], ClaimsExist, NEW w \in Workers, NEW c \in worker[w].claim
    PROVE  c.id \in DOMAIN outbox /\ c.attempts \in Nat
BY DEF Worker, Claim, ClaimsExist

\* Marking a claimed row 'sent' rewrites the status of that row only.
LEMMA SentStep ==
    ASSUME QueueTypes, worker \in [Workers -> Worker], ClaimsExist,
           NEW w \in Workers, NEW c \in worker[w].claim,
           outbox' = [outbox EXCEPT ![c.id].status = "sent"],
           UNCHANGED <<backoff, inflight>>
    PROVE  /\ QueueTypes'
           /\ RowsKept
           /\ DOMAIN outbox' = DOMAIN outbox
           /\ outbox'[c.id].status = "sent"
           /\ \A j \in DOMAIN outbox : j # c.id => outbox'[j] = outbox[j]
<1> DEFINE v == [outbox[c.id] EXCEPT !.status = "sent"]
<1>1. c.id \in DOMAIN outbox
  BY ClaimFields, Zenon
<1>2. outbox[c.id] \in Row
  BY <1>1, SeqElement, SeqLen, Zenon DEF QueueTypes
<1>3. v \in Row /\ v.fn = outbox[c.id].fn /\ v.arg = outbox[c.id].arg /\ v.status = "sent"
  BY <1>2, RowUpdate, Zenon
<1>4. outbox' = [outbox EXCEPT ![c.id] = v]
  BY Zenon
<1>5. backoff' \subseteq DOMAIN outbox
  BY Zenon DEF QueueTypes
<1> HIDE DEF v
<1> QED
  BY <1>1, <1>3, <1>4, <1>5, UpdateStep, Zenon

\* markFailed rewrites the status and the attempts of one claimed row.
LEMMA FailedStep ==
    ASSUME QueueTypes, worker \in [Workers -> Worker], ClaimsExist,
           NEW w \in Workers, NEW c \in worker[w].claim,
           outbox' = [outbox EXCEPT ![c.id] = [@ EXCEPT
                !.status = IF c.attempts + 1 >= MaxAttempts THEN "dead_letter" ELSE "pending",
                !.attempts = c.attempts + 1]],
           backoff' = backoff \cup {c.id}, UNCHANGED inflight
    PROVE  /\ QueueTypes'
           /\ RowsKept
           /\ DOMAIN outbox' = DOMAIN outbox
           /\ outbox'[c.id].status \in {"pending", "dead_letter"}
           /\ \A j \in DOMAIN outbox : j # c.id => outbox'[j] = outbox[j]
<1> DEFINE n == c.attempts + 1
           st == IF c.attempts + 1 >= MaxAttempts THEN "dead_letter" ELSE "pending"
           v == [outbox[c.id] EXCEPT !.status = st, !.attempts = n]
<1>1. c.id \in DOMAIN outbox
  BY ClaimFields, Zenon
<1>2. outbox[c.id] \in Row
  BY <1>1, SeqElement, SeqLen, Zenon DEF QueueTypes
<1>3. n \in Nat /\ st \in {"pending", "dead_letter"}
  BY ClaimFields
<1>4. outbox' = [outbox EXCEPT ![c.id] = v]
  BY Zenon
<1>5. backoff' \subseteq DOMAIN outbox
  BY <1>1, Zenon DEF QueueTypes
<1>6. /\ v \in Row
      /\ v.fn = outbox[c.id].fn
      /\ v.arg = outbox[c.id].arg
      /\ v.status = st
  <2>1. n \in Nat /\ st \in {"pending", "sent", "dead_letter"}
    BY <1>3, Zenon
  <2> HIDE DEF n, st
  <2>2. \A r \in Row : /\ [r EXCEPT !.status = st, !.attempts = n] \in Row
                       /\ [r EXCEPT !.status = st, !.attempts = n].fn = r.fn
                       /\ [r EXCEPT !.status = st, !.attempts = n].arg = r.arg
                       /\ [r EXCEPT !.status = st, !.attempts = n].status = st
    BY <2>1, Zenon DEF Row
  <2> QED
    BY <1>2, <2>2, Zenon
<1> HIDE DEF v, st
<1> QED
  BY <1>1, <1>3, <1>4, <1>5, <1>6, UpdateStep, Zenon

\* The types of what the API handlers and the indexer write.
ApiTypes ==
    /\ dbTxn \in [TxnIds -> Users \cup {None}]
    /\ dbEvents \subseteq Event
    /\ stamped \subseteq Event

\* What one step keeps: the types, the rows, and the ledger as the contract's.
StepKeeps ==
    /\ [Next]_contractVars
    /\ RowsKept
    /\ ApiTypes'
    /\ QueueTypes'
    /\ worker' \in [Workers -> Worker]
    /\ ClaimsExist'
    /\ faults' \in Nat

\* The hypotheses of the step lemmas.
StepTypes ==
    /\ TypeOK
    /\ ApiTypes
    /\ QueueTypes
    /\ worker \in [Workers -> Worker]
    /\ ClaimsExist
    /\ faults \in Nat

\* The type invariant, grouped the way the step lemmas use it.
LEMMA TypesGrouped == OutboxTypeOK <=> StepTypes
BY TypeParts, Zenon DEF StepTypes, ApiTypes

\* An API handler keeps the types and appends one row.
LEMMA ApiKeeps ==
    ASSUME StepTypes, ApiStep
    PROVE  StepKeeps
<1> USE DEF StepTypes
<1>1. ASSUME NEW t \in TxnIds, NEW u \in Users, ApiCreateTransaction(t, u)
      PROVE  StepKeeps
  <2> DEFINE arg == [txn |-> t, user |-> u]
  <2>1. arg \in CreateArgs
    BY Zenon DEF CreateArgs
  <2>2. arg \in Arguments
    BY <2>1, Zenon DEF Arguments
  <2>3. enqueueOutbox("CreateTransaction", arg) /\ UNCHANGED inflight
    BY <1>1, Zenon DEF ApiCreateTransaction
  <2>4. ArgsMatch([fn |-> "CreateTransaction", arg |-> arg, attempts |-> 0, status |-> "pending"])
    BY <2>1, Zenon DEF ArgsMatch
  <2> HIDE DEF arg
  <2>5. QueueTypes' /\ RowsKept
    BY <2>2, <2>3, <2>4, EnqueueStep, Zenon DEF Fns
  <2>6. UNCHANGED <<contractVars, dbEvents, stamped, worker, faults>> /\ dbTxn' = [dbTxn EXCEPT ![t] = u]
    BY <1>1, Zenon DEF ApiCreateTransaction
  <2> QED
    BY <2>5, <2>6, IdleFrame, Zenon DEF StepKeeps, ApiTypes
<1>2. ASSUME NEW e \in Event, ApiRecordEvent(e)
      PROVE  StepKeeps
  <2>1. e \in Arguments
    BY Zenon DEF Arguments
  <2>2. ArgsMatch([fn |-> "RecordEvent", arg |-> e, attempts |-> 0, status |-> "pending"])
    BY Zenon DEF ArgsMatch
  <2>3. enqueueOutbox("RecordEvent", e) /\ UNCHANGED inflight
    BY <1>2, Zenon DEF ApiRecordEvent
  <2>4. QueueTypes' /\ RowsKept
    BY <2>1, <2>2, <2>3, EnqueueStep, Zenon DEF Fns
  <2>5. UNCHANGED <<contractVars, dbTxn, stamped, worker, faults>> /\ dbEvents' = dbEvents \cup {e}
    BY <1>2, Zenon DEF ApiRecordEvent
  <2> QED
    BY <2>4, <2>5, IdleFrame, Zenon DEF StepKeeps, ApiTypes
<1>3. ASSUME NEW a \in Approval, ApiApproveTransaction(a)
      PROVE  StepKeeps
  <2>1. a \in Arguments
    BY Zenon DEF Arguments
  <2>2. ArgsMatch([fn |-> "Approve", arg |-> a, attempts |-> 0, status |-> "pending"])
    BY Zenon DEF ArgsMatch
  <2>3. enqueueOutbox("Approve", a) /\ UNCHANGED inflight
    BY <1>3, Zenon DEF ApiApproveTransaction
  <2>4. QueueTypes' /\ RowsKept
    BY <2>1, <2>2, <2>3, EnqueueStep, Zenon DEF Fns
  <2>5. UNCHANGED <<contractVars, dbTxn, dbEvents, stamped, worker, faults>>
    BY <1>3, Zenon DEF ApiApproveTransaction, apiVars
  <2> QED
    BY <2>4, <2>5, IdleFrame, Zenon DEF StepKeeps, ApiTypes
<1> QED
  BY <1>1, <1>2, <1>3, Zenon DEF ApiStep

\* A worker's own step keeps the types, and of the ledger does no more than
\* one invocation.
LEMMA WorkerKeeps ==
    ASSUME StepTypes, NEW w \in Workers, WorkerStep(w)
    PROVE  StepKeeps
<1> USE DEF StepTypes
<1>1. CASE ClaimBatch(w)
  <2> DEFINE cl == {[id |-> i, attempts |-> outbox[i].attempts] :
                        i \in {j \in Due : Cardinality({k \in Due : k <= j}) <= BatchSize}}
  <2>1. \A i \in DOMAIN outbox : i \in Nat \ {0} /\ outbox[i].attempts \in Nat
    <3>1. outbox \in Seq(Row)
      BY Zenon DEF QueueTypes
    <3>2. DOMAIN outbox = 1..Len(outbox) /\ Len(outbox) \in Nat
      BY <3>1, SeqLen, Zenon
    <3>3. \A i \in DOMAIN outbox : outbox[i] \in Row
      BY <3>1, <3>2, SeqElement, Zenon
    <3> QED
      BY <3>2, <3>3, RowFields
  <2>2. cl \subseteq Claim /\ \A c \in cl : c.id \in DOMAIN outbox
    <3>1. Due \subseteq DOMAIN outbox
      BY Zenon DEF Due
    <3>2. \A i \in Due : /\ [id |-> i, attempts |-> outbox[i].attempts] \in Claim
                         /\ [id |-> i, attempts |-> outbox[i].attempts].id = i
      BY <2>1, <3>1, Zenon DEF Claim
    <3> QED
      BY <3>1, <3>2, Zenon
  <2>3. worker' = [worker EXCEPT ![w] = [pc |-> "locked", claim |-> cl]]
    BY <1>1, Zenon DEF ClaimBatch
  <2>4. UNCHANGED <<contractVars, apiVars, queueVars, inflight, faults>>
    BY <1>1, Zenon DEF ClaimBatch
  <2>5. QueueTypes' /\ RowsKept
    BY <2>4, QueueFrame, Zenon DEF queueVars, QueueTypes
  <2> HIDE DEF cl
  <2>6. worker' \in [Workers -> Worker] /\ ClaimsExist'
    BY <2>2, <2>3, <2>5, WorkerFrame, Zenon
  <2> QED
    BY <2>4, <2>5, <2>6, Zenon DEF StepKeeps, ApiTypes, apiVars
<1>2. CASE CommitClaim(w)
  <2>1. UNCHANGED <<contractVars, apiVars, queueVars, inflight, faults>>
    BY <1>2, Zenon DEF CommitClaim
  <2>2. QueueTypes' /\ RowsKept
    BY <2>1, QueueFrame, Zenon DEF queueVars, QueueTypes
  <2>3. worker' \in [Workers -> Worker] /\ ClaimsExist'
    BY <1>2, <2>2, ReplyFrame, Zenon DEF CommitClaim
  <2> QED
    BY <2>1, <2>2, <2>3, Zenon DEF StepKeeps, ApiTypes, apiVars
<1>3. CASE SubmitCommitted(w)
  <2>1. UNCHANGED <<apiVars, queueVars, inflight, faults>>
    BY <1>3, Zenon DEF SubmitCommitted
  <2>2. QueueTypes' /\ RowsKept
    BY <2>1, QueueFrame, Zenon DEF queueVars, QueueTypes
  <2>3. worker' \in [Workers -> Worker] /\ ClaimsExist'
    BY <1>3, <2>2, ReplyFrame, Zenon DEF SubmitCommitted, Reply
  <2>4. PICK c \in worker[w].claim : Invoke(outbox[c.id])
    BY <1>3, Zenon DEF SubmitCommitted
  <2>5. Next
    BY <2>4, ClaimFields, InvokeIsNext, Zenon
  <2> QED
    BY <2>1, <2>2, <2>3, <2>5, Zenon DEF StepKeeps, ApiTypes, apiVars
<1>4. CASE SubmitRefused(w)
  <2>1. UNCHANGED <<contractVars, apiVars, queueVars, inflight, faults>>
    BY <1>4, Zenon DEF SubmitRefused
  <2>2. QueueTypes' /\ RowsKept
    BY <2>1, QueueFrame, Zenon DEF queueVars, QueueTypes
  <2>3. worker' \in [Workers -> Worker] /\ ClaimsExist'
    BY <1>4, <2>2, ReplyFrame, Zenon DEF SubmitRefused, Reply
  <2> QED
    BY <2>1, <2>2, <2>3, Zenon DEF StepKeeps, ApiTypes, apiVars
<1>5. CASE MarkSent(w)
  <2>1. UNCHANGED <<contractVars, apiVars, backoff, inflight, faults>>
    BY <1>5, Zenon DEF MarkSent
  <2>2. PICK c \in worker[w].claim : /\ outbox' = [outbox EXCEPT ![c.id].status = "sent"]
                                     /\ NextClaimed(w, c)
    BY <1>5, Zenon DEF MarkSent
  <2>3. QueueTypes' /\ RowsKept
    BY <2>1, <2>2, SentStep, Zenon
  <2> QED
    BY <2>1, <2>2, <2>3, NextClaimedFrame, Zenon DEF StepKeeps, ApiTypes, apiVars
<1>6. CASE markFailed(w)
  <2>1. UNCHANGED <<contractVars, apiVars, inflight, faults>>
    BY <1>6, Zenon DEF markFailed
  <2>2. PICK c \in worker[w].claim : 
            /\ outbox' = [outbox EXCEPT ![c.id] = [@ EXCEPT
                !.status = IF c.attempts + 1 >= MaxAttempts THEN "dead_letter" ELSE "pending",
                !.attempts = c.attempts + 1]]
            /\ backoff' = backoff \cup {c.id}
            /\ NextClaimed(w, c)
    BY <1>6, Zenon DEF markFailed
  <2>3. QueueTypes' /\ RowsKept
    BY <2>1, <2>2, FailedStep, Zenon
  <2> QED
    BY <2>1, <2>2, <2>3, NextClaimedFrame, Zenon DEF StepKeeps, ApiTypes, apiVars
<1> QED
  BY <1>1, <1>2, <1>3, <1>4, <1>5, <1>6, Zenon DEF WorkerStep

\* A worker's fault keeps the types and leaves the ledger alone.
LEMMA FaultKeeps ==
    ASSUME StepTypes, NEW w \in Workers, WorkerFault(w)
    PROVE  StepKeeps
<1> USE DEF StepTypes
<1>1. CASE SubmitFails(w)
  <2>1. UNCHANGED <<contractVars, apiVars, queueVars>> /\ faults' = faults + 1
    BY <1>1, Zenon DEF SubmitFails
  <2>2. PICK c \in worker[w].claim : inflight' = inflight \/ inflight' = inflight \cup {c.id}
    BY <1>1, Zenon DEF SubmitFails
  <2>3. inflight' \subseteq DOMAIN outbox
    BY <2>2, ClaimFields DEF QueueTypes
  <2>4. QueueTypes' /\ RowsKept
    BY <2>1, <2>3, QueueFrame, Zenon DEF queueVars
  <2>5. worker' \in [Workers -> Worker] /\ ClaimsExist'
    BY <1>1, <2>4, ReplyFrame, Zenon DEF SubmitFails, Reply
  <2> QED
    BY <2>1, <2>4, <2>5 DEF StepKeeps, ApiTypes, apiVars
<1>2. CASE MarkFails(w)
  <2>1. UNCHANGED <<contractVars, apiVars, queueVars, inflight>> /\ faults' = faults + 1
    BY <1>2, Zenon DEF MarkFails
  <2>2. QueueTypes' /\ RowsKept
    BY <2>1, QueueFrame, Zenon DEF queueVars, QueueTypes
  <2>3. PICK c : NextClaimed(w, c)
    BY <1>2, Zenon DEF MarkFails
  <2> QED
    BY <2>1, <2>2, <2>3, NextClaimedFrame DEF StepKeeps, ApiTypes, apiVars
<1>3. CASE Crash(w)
  <2>1. UNCHANGED <<contractVars, apiVars, queueVars, inflight>> /\ faults' = faults + 1
    BY <1>3, Zenon DEF Crash
  <2>2. QueueTypes' /\ RowsKept
    BY <2>1, QueueFrame, Zenon DEF queueVars, QueueTypes
  <2> DEFINE cl == {}
  <2>3. worker' = [worker EXCEPT ![w] = [pc |-> "idle", claim |-> cl]]
    BY <1>3, Zenon DEF Crash
  <2>5. cl \subseteq Claim /\ \A c \in cl : c.id \in DOMAIN outbox
    BY Zenon
  <2> HIDE DEF cl
  <2>4. worker' \in [Workers -> Worker] /\ ClaimsExist'
    BY <2>2, <2>3, <2>5, WorkerFrame, Zenon
  <2> QED
    BY <2>1, <2>2, <2>4 DEF StepKeeps, ApiTypes, apiVars
<1> QED
  BY <1>1, <1>2, <1>3, Zenon DEF WorkerFault

\* The orderer, the clock and the indexer keep the types.
LEMMA WorldKeeps ==
    ASSUME StepTypes,
           \/ \E i \in 1..MaxRows : LateCommit(i) \/ LateInvalid(i) \/ BackoffElapses(i)
           \/ \E e \in events : Stamp(e)
    PROVE  StepKeeps
<1> USE DEF StepTypes
<1>1. ASSUME NEW i, LateCommit(i) PROVE StepKeeps
  <2>1. UNCHANGED <<apiVars, queueVars, worker, faults>> /\ inflight' = inflight \ {i} /\ i \in inflight
    BY <1>1, Zenon DEF LateCommit
  <2>2. i \in DOMAIN outbox /\ inflight' \subseteq DOMAIN outbox
    BY <2>1, Zenon DEF QueueTypes
  <2>3. Next
    BY <1>1, <2>2, InvokeIsNext, Zenon DEF LateCommit
  <2>4. QueueTypes' /\ RowsKept
    BY <2>1, <2>2, QueueFrame, Zenon DEF queueVars
  <2> QED
    BY <2>1, <2>3, <2>4, IdleFrame, Zenon DEF StepKeeps, ApiTypes, apiVars
<1>2. ASSUME NEW i, LateInvalid(i) PROVE StepKeeps
  <2>1. UNCHANGED <<contractVars, apiVars, queueVars, worker, faults>> /\ inflight' = inflight \ {i}
    BY <1>2, Zenon DEF LateInvalid
  <2>2. QueueTypes' /\ RowsKept
    BY <2>1, QueueFrame, Zenon DEF queueVars, QueueTypes
  <2> QED
    BY <2>1, <2>2, IdleFrame, Zenon DEF StepKeeps, ApiTypes, apiVars
<1>3. ASSUME NEW i, BackoffElapses(i) PROVE StepKeeps
  <2>1. UNCHANGED <<contractVars, apiVars, outbox, worker, inflight, faults>> /\ backoff' = backoff \ {i}
    BY <1>3, Zenon DEF BackoffElapses
  <2>2. QueueTypes' /\ RowsKept
    BY <2>1, QueueFrame, Zenon DEF QueueTypes
  <2> QED
    BY <2>1, <2>2, IdleFrame, Zenon DEF StepKeeps, ApiTypes, apiVars
<1>4. ASSUME NEW e \in events, Stamp(e) PROVE StepKeeps
  <2>1. /\ UNCHANGED <<contractVars, dbTxn, dbEvents, queueVars, worker, inflight, faults>>
        /\ stamped' = stamped \cup {f \in dbEvents : f.key = e.key}
    BY <1>4, Zenon DEF Stamp
  <2>2. QueueTypes' /\ RowsKept
    BY <2>1, QueueFrame, Zenon DEF queueVars, QueueTypes
  <2> QED
    BY <2>1, <2>2, IdleFrame, Zenon DEF StepKeeps, ApiTypes
<1> QED
  BY <1>1, <1>2, <1>3, <1>4, Zenon

\* Every step, a stuttering one included, keeps all of it.
LEMMA EveryStepKeeps ==
    ASSUME StepTypes, [OutboxNext]_vars
    PROVE  StepKeeps /\ StepTypes'
<1>1. ASSUME OutboxNext PROVE StepKeeps
  <2>1. CASE ApiStep
    BY <2>1, ApiKeeps, Zenon
  <2>2. ASSUME NEW w \in Workers, WorkerStep(w) \/ WorkerFault(w) PROVE StepKeeps
    BY <2>2, WorkerKeeps, FaultKeeps, Zenon
  <2>3. CASE \/ \E i \in 1..MaxRows : LateCommit(i) \/ LateInvalid(i) \/ BackoffElapses(i)
             \/ \E e \in events : Stamp(e)
    BY <2>3, WorldKeeps, Zenon
  <2> QED
    BY <1>1, <2>1, <2>2, <2>3, Zenon DEF OutboxNext
<1>2. ASSUME UNCHANGED vars PROVE StepKeeps
  <2>1. UNCHANGED <<contractVars, dbTxn, dbEvents, stamped, outbox, backoff, worker, inflight, faults>>
    BY <1>2, Zenon DEF vars, apiVars
  <2>2. QueueTypes' /\ RowsKept
    BY <2>1, QueueFrame, Zenon DEF StepTypes, QueueTypes
  <2>3. worker' \in [Workers -> Worker] /\ ClaimsExist'
    BY <2>1, <2>2, IdleFrame, Zenon DEF StepTypes
  <2>4. ApiTypes' /\ faults' \in Nat
    BY <2>1, Zenon DEF StepTypes, ApiTypes
  <2> QED
    BY <2>1, <2>2, <2>3, <2>4, Zenon DEF StepKeeps
<1>3. StepKeeps
  BY <1>1, <1>2, Zenon
<1>4. TypeOK'
  BY <1>3, TypeStep, Zenon DEF StepKeeps, StepTypes
<1> QED
  BY <1>3, <1>4, Zenon DEF StepKeeps, StepTypes

\* The initial state has its types.
LEMMA OutboxTypeInit == OutboxInit => StepTypes
<1> SUFFICES ASSUME OutboxInit PROVE StepTypes
  BY Zenon
<1>1. TypeOK
  BY TypeInit, Zenon DEF OutboxInit
<1>2. ApiTypes
  BY Zenon DEF OutboxInit, ApiTypes
<1>3. outbox = <<>> /\ backoff = {} /\ inflight = {} /\ faults = 0
  BY Zenon DEF OutboxInit
<1>4. outbox \in Seq(Row) /\ DOMAIN outbox = {}
  BY <1>3, SeqEmpty
<1>5. QueueTypes
  BY <1>3, <1>4, Zenon DEF QueueTypes
<1>6. worker \in [Workers -> Worker] /\ \A w \in Workers : worker[w].claim = {}
  BY Zenon DEF OutboxInit, Worker
<1> QED
  BY <1>1, <1>2, <1>3, <1>5, <1>6, Zenon DEF StepTypes, ClaimsExist

\* Type correctness of the write path, for any number of workers, rows,
\* attempts and faults: what the handlers and the workers write are rows the
\* workers can submit.
THEOREM OutboxTypeCorrect == OutboxSpec => []OutboxTypeOK
<1>1. StepTypes /\ [OutboxNext]_vars => StepTypes'
  BY EveryStepKeeps, Zenon
<1> QED
  BY <1>1, OutboxTypeInit, TypesGrouped, PTL DEF OutboxSpec

\* The ledger behind any number of workers that retry, crash and submit the
\* same row twice behaves as the contract alone: every step of the write path
\* is a committed invocation or leaves the world state as it is.
THEOREM OutboxImplementsContract == OutboxSpec => Spec
<1>1. OutboxInit => Init
  BY Zenon DEF OutboxInit
<1>2. StepTypes /\ [OutboxNext]_vars => StepTypes' /\ [Next]_contractVars
  BY EveryStepKeeps, Zenon DEF StepKeeps
<1> QED
  BY <1>1, <1>2, OutboxTypeInit, PTL DEF OutboxSpec, Spec

-----------------------------------------------------------------------------
\* Postgres, the queue and the ledger agree on what was asked for.
DataInv ==
    /\ \A e, f \in dbEvents : e.txn = f.txn /\ e.seq = f.seq => e = f
    /\ \A i \in DOMAIN outbox :
          /\ outbox[i].fn = "RecordEvent" => outbox[i].arg \in dbEvents
          /\ outbox[i].fn = "CreateTransaction" => dbTxn[outbox[i].arg.txn] = outbox[i].arg.user
    /\ events \subseteq dbEvents
    /\ \A t \in TxnIds : header[t] # None => dbTxn[t] = header[t].createdBy

\* Everything in Postgres was queued.
RowInv ==
    /\ \A e \in dbEvents : \E i \in DOMAIN outbox : outbox[i].fn = "RecordEvent" /\ outbox[i].arg = e
    /\ \A t \in TxnIds : dbTxn[t] # None =>
          \E i \in DOMAIN outbox : outbox[i].fn = "CreateTransaction" /\ outbox[i].arg.txn = t

\* A worker that saw a commit has one to report.
ReplyInv ==
    \A w \in Workers : \A c \in worker[w].claim :
        worker[w].pc = "ok" /\ Current(w, c) => Committed(outbox[c.id])

SafetyInv == StepTypes /\ Inv /\ DataInv /\ RowInv /\ SentMeansCommitted /\ ReplyInv

\* What a step does to Postgres, the rows' contents and the ledger: one API
\* request, one invocation of a queued row, or nothing.
Shape ==
    \/ \E t \in TxnIds, u \in Users : ApiCreateTransaction(t, u)
    \/ \E e \in Event : ApiRecordEvent(e)
    \/ \E a \in Approval : ApiApproveTransaction(a)
    \/ /\ UNCHANGED <<dbTxn, dbEvents, outbox>>
       /\ \E i \in DOMAIN outbox : Invoke(outbox[i])
    \/ /\ UNCHANGED <<header, events, dbTxn, dbEvents>>
       /\ DOMAIN outbox' = DOMAIN outbox

\* Every step has one of these shapes.
LEMMA StepShape ==
    ASSUME StepTypes, [OutboxNext]_vars
    PROVE  Shape
<1> USE DEF StepTypes
<1>1. CASE ApiStep
  BY <1>1, Zenon DEF ApiStep, Shape
<1>2. ASSUME NEW w \in Workers, WorkerStep(w) PROVE Shape
  <2>1. CASE ClaimBatch(w) \/ CommitClaim(w) \/ SubmitRefused(w)
    BY <2>1, Zenon DEF ClaimBatch, CommitClaim, SubmitRefused, Shape, contractVars, apiVars, queueVars
  <2>2. CASE SubmitCommitted(w)
    <3>1. PICK c \in worker[w].claim : Invoke(outbox[c.id])
      BY <2>2, Zenon DEF SubmitCommitted
    <3>2. c.id \in DOMAIN outbox
      BY ClaimFields, Zenon
    <3> QED
      BY <2>2, <3>1, <3>2, Zenon DEF SubmitCommitted, Shape, apiVars, queueVars
  <2>3. CASE MarkSent(w)
    <3>1. PICK c \in worker[w].claim : outbox' = [outbox EXCEPT ![c.id].status = "sent"]
      BY <2>3, Zenon DEF MarkSent
    <3>2. UNCHANGED <<contractVars, apiVars>>
      BY <2>3, Zenon DEF MarkSent
    <3> QED
      BY <3>1, <3>2, Zenon DEF Shape, contractVars, apiVars
  <2>4. CASE markFailed(w)
    <3>1. PICK c \in worker[w].claim : outbox' = [outbox EXCEPT ![c.id] = [@ EXCEPT
                !.status = IF c.attempts + 1 >= MaxAttempts THEN "dead_letter" ELSE "pending",
                !.attempts = c.attempts + 1]]
      BY <2>4, Zenon DEF markFailed
    <3>2. UNCHANGED <<contractVars, apiVars>>
      BY <2>4, Zenon DEF markFailed
    <3> QED
      BY <3>1, <3>2, Zenon DEF Shape, contractVars, apiVars
  <2> QED
    BY <1>2, <2>1, <2>2, <2>3, <2>4, Zenon DEF WorkerStep
<1>3. ASSUME NEW w \in Workers, WorkerFault(w) PROVE Shape
  BY <1>3, Zenon DEF WorkerFault, SubmitFails, MarkFails, Crash, Shape, contractVars, apiVars, queueVars
<1>4. ASSUME NEW i, LateCommit(i) PROVE Shape
  <2>1. i \in DOMAIN outbox
    BY <1>4, Zenon DEF LateCommit, QueueTypes
  <2> QED
    BY <1>4, <2>1, Zenon DEF LateCommit, Shape, apiVars, queueVars
<1>5. ASSUME NEW i, LateInvalid(i) \/ BackoffElapses(i) PROVE Shape
  BY <1>5, Zenon DEF LateInvalid, BackoffElapses, Shape, contractVars, apiVars, queueVars
<1>6. ASSUME NEW e \in events, Stamp(e) PROVE Shape
  BY <1>6, Zenon DEF Stamp, Shape, contractVars, queueVars
<1>7. CASE UNCHANGED vars
  BY <1>7, Zenon DEF vars, Shape, contractVars, apiVars
<1> QED
  BY <1>1, <1>2, <1>3, <1>4, <1>5, <1>6, <1>7, Zenon DEF OutboxNext

-----------------------------------------------------------------------------
\* The row enqueueOutbox adds, and that it touches no other.
LEMMA AppendsRow ==
    ASSUME StepTypes, NEW fnName \in Fns, NEW payload \in Arguments, enqueueOutbox(fnName, payload)
    PROVE  \E n :
             /\ DOMAIN outbox' = DOMAIN outbox \cup {n}
             /\ n \notin DOMAIN outbox
             /\ outbox'[n].fn = fnName
             /\ outbox'[n].arg = payload
             /\ outbox'[n].status = "pending"
             /\ \A i \in DOMAIN outbox : outbox'[i] = outbox[i]
<1> DEFINE r == [fn |-> fnName, arg |-> payload, attempts |-> 0, status |-> "pending"]
<1>1. r \in Row /\ r.fn = fnName /\ r.arg = payload /\ r.status = "pending"
  BY Zenon DEF Row, Fns
<1>2. outbox' = Append(outbox, r)
  BY Zenon DEF enqueueOutbox
<1>3. outbox \in Seq(Row)
  BY Zenon DEF StepTypes, QueueTypes
<1> HIDE DEF r
<1>4. /\ DOMAIN outbox' = DOMAIN outbox \cup {Len(outbox) + 1}
      /\ outbox'[Len(outbox) + 1] = r
      /\ \A j \in DOMAIN outbox : outbox'[j] = outbox[j]
  BY <1>1, <1>2, <1>3, SeqAppend
<1>5. Len(outbox) + 1 \notin DOMAIN outbox
  BY <1>3, SeqLen
<1> QED
  BY <1>1, <1>4, <1>5, Zenon

\* A request that creates a transaction keeps Postgres, queue and ledger tied.
LEMMA DataCreate ==
    ASSUME StepTypes, DataInv, RowInv,
           NEW t \in TxnIds, NEW u \in Users, ApiCreateTransaction(t, u)
    PROVE  DataInv' /\ RowInv'
<1>1. PICK fnName \in Fns, req \in Arguments :
             /\ fnName = "CreateTransaction"
             /\ req.txn = t
             /\ req.user = u
             /\ enqueueOutbox(fnName, req)
  <2>1. [txn |-> t, user |-> u] \in Arguments
    BY Zenon DEF Arguments, CreateArgs
  <2> QED
    BY <2>1, Zenon DEF ApiCreateTransaction, Fns
<1>2. /\ dbTxn[t] = None
      /\ dbTxn' = [dbTxn EXCEPT ![t] = u]
      /\ UNCHANGED <<header, events, dbEvents>>
  BY Zenon DEF ApiCreateTransaction, contractVars
<1>3. PICK n :
             /\ DOMAIN outbox' = DOMAIN outbox \cup {n}
             /\ outbox'[n].fn = fnName
             /\ outbox'[n].arg = req
             /\ \A i \in DOMAIN outbox : outbox'[i] = outbox[i]
  BY <1>1, AppendsRow
<1>4. dbTxn'[t] = u /\ \A s \in TxnIds : s # t => dbTxn'[s] = dbTxn[s]
  BY <1>2, Zenon DEF StepTypes, ApiTypes
<1>5. ASSUME NEW i \in DOMAIN outbox, outbox[i].fn = "CreateTransaction"
      PROVE  dbTxn'[outbox[i].arg.txn] = outbox[i].arg.user
  <2>1. outbox[i].arg \in CreateArgs
    BY <1>5, Zenon DEF StepTypes, QueueTypes, ArgsMatch
  <2>2. outbox[i].arg.txn \in TxnIds /\ outbox[i].arg.user \in Users
    BY <2>1, Zenon DEF CreateArgs
  <2>3. dbTxn[outbox[i].arg.txn] = outbox[i].arg.user
    BY <1>5, Zenon DEF DataInv
  <2>4. outbox[i].arg.txn # t
    BY <1>2, <2>2, <2>3, OutboxAssumption, Zenon
  <2> QED
    BY <1>4, <2>2, <2>3, <2>4, Zenon
<1>6. \A s \in TxnIds : header[s] # None => s # t
  <2>1. ASSUME NEW s \in TxnIds, header[s] # None PROVE dbTxn[s] \in Users
    <3>1. header[s] \in Header
      BY <2>1, Zenon DEF StepTypes, TypeOK
    <3>2. header[s].createdBy \in Users
      BY <3>1, Zenon DEF Header
    <3> QED
      BY <2>1, <3>2, Zenon DEF DataInv
  <2> QED
    BY <1>2, <2>1, OutboxAssumption, Zenon
<1>7. DataInv'
  BY <1>1, <1>2, <1>3, <1>4, <1>5, <1>6, ZenonT(40) DEF DataInv
<1>8. RowInv'
  BY <1>1, <1>2, <1>3, <1>4 DEF RowInv
<1> QED
  BY <1>7, <1>8, Zenon

\* A request that records an event does: it takes a sequence number nobody has.
LEMMA DataRecord ==
    ASSUME StepTypes, DataInv, RowInv, NEW e \in Event, ApiRecordEvent(e)
    PROVE  DataInv' /\ RowInv'
<1>1. e \in Arguments
  BY Zenon DEF Arguments
<1>2. /\ dbEvents' = dbEvents \cup {e}
      /\ UNCHANGED <<header, events, dbTxn>>
      /\ enqueueOutbox("RecordEvent", e)
      /\ FollowsLast(e)
  BY Zenon DEF ApiRecordEvent, RecordRequest, contractVars
<1>3. PICK n :
             /\ DOMAIN outbox' = DOMAIN outbox \cup {n}
             /\ outbox'[n].fn = "RecordEvent"
             /\ outbox'[n].arg = e
             /\ \A i \in DOMAIN outbox : outbox'[i] = outbox[i]
  BY <1>1, <1>2, AppendsRow DEF Fns
<1>4. \A f \in dbEvents : f.txn = e.txn => f.seq # e.seq
  <2>1. \A f \in dbEvents : f.seq \in Nat
    BY EventFields, Zenon DEF StepTypes, ApiTypes
  <2> QED
    BY <1>2, <2>1 DEF FollowsLast
<1>5. DataInv'
  BY <1>2, <1>3, <1>4 DEF DataInv
<1>6. RowInv'
  BY <1>2, <1>3 DEF RowInv
<1> QED
  BY <1>5, <1>6, Zenon

\* An approval request changes none of what they are about.
LEMMA DataApprove ==
    ASSUME StepTypes, DataInv, RowInv, NEW a \in Approval, ApiApproveTransaction(a)
    PROVE  DataInv' /\ RowInv'
<1>1. a \in Arguments
  BY Zenon DEF Arguments
<1>2. UNCHANGED <<header, events, dbTxn, dbEvents>> /\ enqueueOutbox("Approve", a)
  BY Zenon DEF ApiApproveTransaction, contractVars, apiVars
<1>3. PICK n :
             /\ DOMAIN outbox' = DOMAIN outbox \cup {n}
             /\ outbox'[n].fn = "Approve"
             /\ \A i \in DOMAIN outbox : outbox'[i] = outbox[i]
  BY <1>1, <1>2, AppendsRow, ZenonT(40) DEF Fns
<1> QED
  BY <1>2, <1>3 DEF DataInv, RowInv

\* An invocation puts on the ledger only what Postgres holds.
LEMMA DataInvoke ==
    ASSUME StepTypes, Inv, DataInv, RowInv, UNCHANGED <<dbTxn, dbEvents, outbox>>,
           NEW i \in DOMAIN outbox, Invoke(outbox[i])
    PROVE  DataInv' /\ RowInv'
<1>0. ArgsMatch(outbox[i])
  BY Zenon DEF StepTypes, QueueTypes
<1>1. events' \subseteq dbEvents /\ \A t \in TxnIds : header'[t] # None => dbTxn[t] = header'[t].createdBy
  <2>1. CASE outbox[i].fn = "CreateTransaction" /\ CreateTransaction(outbox[i].arg.txn, outbox[i].arg.user)
    <3> DEFINE t == outbox[i].arg.txn
               u == outbox[i].arg.user
    <3>1. outbox[i].arg \in CreateArgs
      BY <1>0, <2>1, Zenon DEF ArgsMatch
    <3>2. t \in TxnIds
      BY <3>1, Zenon DEF CreateArgs
    <3>3. dbTxn[t] = u
      BY <2>1, Zenon DEF DataInv
    <3>4. header' = [header EXCEPT ![t] = [createdBy |-> u, status |-> "DRAFT", seq |-> 0, hash |-> NoHash]]
          /\ events' = events
      BY <2>1, Zenon DEF CreateTransaction
    <3>5. header'[t].createdBy = u /\ \A s \in TxnIds : s # t => header'[s] = header[s]
      BY <3>2, <3>4, Zenon DEF StepTypes, TypeOK
    <3> QED
      BY <3>3, <3>4, <3>5, Zenon DEF DataInv
  <2>2. CASE outbox[i].fn = "RecordEvent" /\ RecordEvent(outbox[i].arg)
    <3> DEFINE e == outbox[i].arg
    <3>1. e \in Event /\ e \in dbEvents
      BY <1>0, <2>2, Zenon DEF ArgsMatch, DataInv
    <3>2. events' = PutEvent(e)
      BY <2>2, Zenon DEF RecordEvent
    <3>3. events' \subseteq dbEvents
      BY <3>1, <3>2, Zenon DEF PutEvent, DataInv
    <3>4. /\ header'[e.txn].createdBy = header[e.txn].createdBy
          /\ \A s \in TxnIds : s # e.txn => header'[s] = header[s]
      BY <2>2, <3>1, RecordedHeader, Zenon DEF StepTypes
    <3>5. header[e.txn] # None
      BY <2>2, Zenon DEF RecordEvent, RecordEventAccepts
    <3> QED
      BY <3>3, <3>4, <3>5, Zenon DEF DataInv
  <2>3. CASE outbox[i].fn = "Approve" /\ Approve(outbox[i].arg)
    <3>1. outbox[i].arg \in Approval
      BY <1>0, <2>3, Zenon DEF ArgsMatch
    <3>2. events' = events
      BY <2>3, Zenon DEF Approve
    <3> QED
      BY <2>3, <3>1, <3>2, ApprovedHeader, Zenon DEF DataInv, StepTypes
  <2> QED
    BY <2>1, <2>2, <2>3, Zenon DEF Invoke
<1> QED
  BY <1>1 DEF DataInv, RowInv

\* Every step keeps Postgres, the queue and the ledger tied together.
LEMMA DataStep ==
    ASSUME StepTypes, Inv, DataInv, RowInv, Shape, RowsKept
    PROVE  DataInv' /\ RowInv'
<1>1. ASSUME UNCHANGED <<header, events, dbTxn, dbEvents>>, DOMAIN outbox' = DOMAIN outbox
      PROVE  DataInv' /\ RowInv'
  BY <1>1 DEF DataInv, RowInv, RowsKept
<1> QED
  BY <1>1, DataCreate, DataRecord, DataApprove, DataInvoke, Zenon DEF Shape

-----------------------------------------------------------------------------
\* What is on the ledger stays on the ledger, and rows keep what they ask for.
LEMMA CommittedStable ==
    ASSUME Inv, StepTypes, [Next]_contractVars, RowsKept, NEW i \in DOMAIN outbox, Committed(outbox[i])
    PROVE  Committed(outbox[i])' /\ i \in DOMAIN outbox'
<1>1. Grows
  BY GrowsStep, Zenon
<1>2. /\ outbox'[i].fn = outbox[i].fn
      /\ outbox'[i].arg = outbox[i].arg
      /\ i \in DOMAIN outbox'
  BY Zenon DEF RowsKept
<1>3. ArgsMatch(outbox[i])
  BY Zenon DEF StepTypes, QueueTypes
<1>4. outbox[i].fn = "CreateTransaction" => outbox[i].arg.txn \in TxnIds
  BY <1>3, Zenon DEF ArgsMatch, CreateArgs
<1> QED
  BY <1>1, <1>2, <1>4, Zenon DEF Committed, Grows

\* A committed invocation is on the ledger.
LEMMA InvokeCommits ==
    ASSUME StepTypes, UNCHANGED outbox, NEW i \in DOMAIN outbox, Invoke(outbox[i])
    PROVE  Committed(outbox[i])'
<1>0. ArgsMatch(outbox[i])
  BY Zenon DEF StepTypes, QueueTypes
<1>1. CASE outbox[i].fn = "CreateTransaction" /\ CreateTransaction(outbox[i].arg.txn, outbox[i].arg.user)
  <2> DEFINE t == outbox[i].arg.txn
             u == outbox[i].arg.user
             h == [createdBy |-> u, status |-> "DRAFT", seq |-> 0, hash |-> NoHash]
  <2>1. outbox[i].arg \in CreateArgs
    BY <1>0, <1>1, Zenon DEF ArgsMatch
  <2>2. t \in TxnIds /\ u \in Users
    BY <2>1, Zenon DEF CreateArgs
  <2>3. h \in Header
    <3>1. 0 \in 0..MaxSequence
      BY ConstantsAssumption
    <3> QED
      BY <2>2, <3>1, Zenon DEF Header, Statuses
  <2>4. header' = [header EXCEPT ![t] = h]
    BY <1>1, Zenon DEF CreateTransaction
  <2> HIDE DEF h
  <2>5. header'[t] = h
    BY <2>2, <2>4, Zenon DEF StepTypes, TypeOK
  <2>6. h # None
    BY <2>3, HeaderFields, Zenon
  <2> QED
    BY <1>1, <2>5, <2>6, Zenon DEF Committed
<1>2. CASE outbox[i].fn = "RecordEvent" /\ RecordEvent(outbox[i].arg)
  BY <1>2, Zenon DEF RecordEvent, PutEvent, Committed
<1>3. CASE outbox[i].fn = "Approve" /\ Approve(outbox[i].arg)
  BY <1>3, Zenon DEF Approve, Committed
<1> QED
  BY <1>1, <1>2, <1>3, Zenon DEF Invoke

\* The first row of a claim is one row.
LEMMA CurrentUnique ==
    ASSUME StepTypes, NEW w \in Workers, NEW c, NEW d, Current(w, c), Current(w, d)
    PROVE  c.id = d.id
<1>1. c \in worker[w].claim /\ d \in worker[w].claim
  BY Zenon DEF Current
<1>2. worker[w].claim \subseteq Claim
  BY Zenon DEF StepTypes, Worker
<1>3. c.id \in Nat /\ d.id \in Nat
  BY <1>1, <1>2, Zenon DEF Claim
<1>4. c.id <= d.id /\ d.id <= c.id
  BY <1>1, Zenon DEF Current
<1> QED
  BY <1>3, <1>4

\* Steps that neither report a commit nor see one: replies and 'sent' rows
\* stay backed by the ledger.
LEMMA SentFrame ==
    ASSUME SafetyInv, [Next]_contractVars, RowsKept,
           \A i \in DOMAIN outbox' \ DOMAIN outbox : outbox'[i].status # "sent",
           \A i \in DOMAIN outbox : outbox'[i].status = "sent" => Committed(outbox[i]),
           \A w \in Workers : worker'[w].pc = "ok" => worker'[w] = worker[w]
    PROVE  SentMeansCommitted' /\ ReplyInv'
<1> USE DEF SafetyInv
<1>1. \A i \in DOMAIN outbox : Committed(outbox[i]) => Committed(outbox[i])'
  BY CommittedStable, Zenon
<1>2. SentMeansCommitted'
  BY <1>1, Zenon DEF SentMeansCommitted
<1>3. ASSUME NEW w \in Workers, NEW c \in worker'[w].claim,
             worker'[w].pc = "ok", Current(w, c)'
      PROVE  Committed(outbox[c.id])'
  <2>1. worker'[w] = worker[w]
    BY <1>3, Zenon
  <2>2. c \in worker[w].claim /\ Current(w, c) /\ worker[w].pc = "ok"
    BY <1>3, <2>1, Zenon DEF Current
  <2>3. Committed(outbox[c.id]) /\ c.id \in DOMAIN outbox
    BY <2>2, ClaimFields, Zenon DEF ReplyInv, StepTypes
  <2> QED
    BY <1>1, <2>3, Zenon
<1>4. ReplyInv'
  BY <1>3, Zenon DEF ReplyInv
<1> QED
  BY <1>2, <1>4, Zenon

\* A worker's own step: MarkSent reports a commit it saw, SubmitCommitted sees
\* the one it made.
LEMMA SentWorker ==
    ASSUME SafetyInv, StepKeeps, NEW w \in Workers, WorkerStep(w)
    PROVE  SentMeansCommitted' /\ ReplyInv'
<1> USE DEF SafetyInv, StepKeeps
<1>0. \A i \in DOMAIN outbox : outbox[i].status = "sent" => Committed(outbox[i])
  BY Zenon DEF SentMeansCommitted
<1>1. CASE ClaimBatch(w)
  <2>1. outbox' = outbox /\ \A v \in Workers : worker'[v].pc = "ok" => worker'[v] = worker[v]
    BY <1>1, Zenon DEF ClaimBatch, queueVars, StepTypes
  <2> QED
    BY <1>0, <2>1, SentFrame, Zenon
<1>2. CASE CommitClaim(w)
  <2>1. outbox' = outbox /\ \A v \in Workers : worker'[v].pc = "ok" => worker'[v] = worker[v]
    BY <1>2, ReplyFrame, Zenon DEF CommitClaim, queueVars, StepTypes
  <2> QED
    BY <1>0, <2>1, SentFrame, Zenon
<1>3. CASE SubmitRefused(w)
  <2>1. outbox' = outbox /\ \A v \in Workers : worker'[v].pc = "ok" => worker'[v] = worker[v]
    BY <1>3, ReplyFrame, Zenon DEF SubmitRefused, Reply, queueVars, StepTypes
  <2> QED
    BY <1>0, <2>1, SentFrame, Zenon
<1>4. CASE SubmitCommitted(w)
  <2>1. outbox' = outbox
    BY <1>4, Zenon DEF SubmitCommitted, queueVars
  <2>2. PICK c \in worker[w].claim : Current(w, c) /\ Invoke(outbox[c.id])
    BY <1>4, Zenon DEF SubmitCommitted
  <2>3. c.id \in DOMAIN outbox
    BY ClaimFields, Zenon DEF StepTypes
  <2>4. Committed(outbox[c.id])'
    BY <2>1, <2>2, <2>3, InvokeCommits, Zenon
  <2>5. /\ worker'[w].claim = worker[w].claim
        /\ \A v \in Workers : v # w => worker'[v] = worker[v]
    BY <1>4, ReplyFrame, Zenon DEF SubmitCommitted, Reply, StepTypes
  <2>6. \A i \in DOMAIN outbox : Committed(outbox[i]) => Committed(outbox[i])'
    BY CommittedStable, Zenon
  <2>7. SentMeansCommitted'
    BY <1>0, <2>1, <2>6, Zenon DEF SentMeansCommitted
  <2>8. ASSUME NEW v \in Workers, NEW d \in worker'[v].claim, worker'[v].pc = "ok", Current(v, d)'
        PROVE  Committed(outbox[d.id])'
    <3>1. CASE v = w
      <4>1. Current(w, d)
        BY <2>5, <2>8, <3>1, Zenon DEF Current
      <4>2. d.id = c.id
        BY <2>2, <4>1, CurrentUnique, Zenon
      <4> QED
        BY <2>4, <4>2, Zenon
    <3>2. CASE v # w
      <4>1. d \in worker[v].claim /\ Current(v, d) /\ worker[v].pc = "ok"
        BY <2>5, <2>8, <3>2, Zenon DEF Current
      <4>2. Committed(outbox[d.id]) /\ d.id \in DOMAIN outbox
        BY <4>1, ClaimFields, Zenon DEF ReplyInv, StepTypes
      <4> QED
        BY <2>6, <4>2, Zenon
    <3> QED
      BY <3>1, <3>2, Zenon
  <2> QED
    BY <2>7, <2>8, Zenon DEF ReplyInv
<1>5. CASE MarkSent(w)
  <2>1. PICK c \in worker[w].claim : /\ Current(w, c)
                                     /\ outbox' = [outbox EXCEPT ![c.id].status = "sent"]
                                     /\ NextClaimed(w, c)
    BY <1>5, Zenon DEF MarkSent
  <2>2. /\ DOMAIN outbox' = DOMAIN outbox
        /\ \A j \in DOMAIN outbox : j # c.id => outbox'[j] = outbox[j]
    BY <1>5, <2>1, SentStep, Zenon DEF MarkSent, StepTypes
  <2>3. Committed(outbox[c.id])
    BY <1>5, <2>1, Zenon DEF MarkSent, ReplyInv
  <2>4. \A v \in Workers : worker'[v].pc = "ok" => worker'[v] = worker[v]
    BY <2>1, Zenon DEF NextClaimed, StepTypes
  <2> QED
    BY <1>0, <2>2, <2>3, <2>4, SentFrame, Zenon
<1>6. CASE markFailed(w)
  <2>1. PICK c \in worker[w].claim :
            /\ outbox' = [outbox EXCEPT ![c.id] = [@ EXCEPT
                !.status = IF c.attempts + 1 >= MaxAttempts THEN "dead_letter" ELSE "pending",
                !.attempts = c.attempts + 1]]
            /\ backoff' = backoff \cup {c.id}
            /\ NextClaimed(w, c)
    BY <1>6, Zenon DEF markFailed
  <2>2. /\ DOMAIN outbox' = DOMAIN outbox
        /\ outbox'[c.id].status \in {"pending", "dead_letter"}
        /\ \A j \in DOMAIN outbox : j # c.id => outbox'[j] = outbox[j]
    BY <1>6, <2>1, FailedStep, Zenon DEF markFailed, StepTypes
  <2>4. \A v \in Workers : worker'[v].pc = "ok" => worker'[v] = worker[v]
    BY <2>1, Zenon DEF NextClaimed, StepTypes
  <2> QED
    BY <1>0, <2>2, <2>4, SentFrame, Zenon
<1> QED
  BY <1>1, <1>2, <1>3, <1>4, <1>5, <1>6, Zenon DEF WorkerStep

\* Every step keeps 'sent' rows and unwritten commits backed by the ledger.
LEMMA SentStepAll ==
    ASSUME SafetyInv, StepKeeps, [OutboxNext]_vars
    PROVE  SentMeansCommitted' /\ ReplyInv'
<1> USE DEF SafetyInv, StepKeeps
<1>0. \A i \in DOMAIN outbox : outbox[i].status = "sent" => Committed(outbox[i])
  BY Zenon DEF SentMeansCommitted
<1>1. ASSUME ApiStep PROVE SentMeansCommitted' /\ ReplyInv'
  <2>1. /\ \A i \in DOMAIN outbox : outbox'[i] = outbox[i]
        /\ \A i \in DOMAIN outbox' \ DOMAIN outbox : outbox'[i].status # "sent"
    <3>1. PICK fnName \in Fns, payload \in Arguments : enqueueOutbox(fnName, payload)
      BY <1>1, Zenon DEF ApiStep, ApiCreateTransaction, ApiRecordEvent, ApiApproveTransaction,
                  Fns, Arguments, CreateArgs
    <3>2. PICK n : /\ DOMAIN outbox' = DOMAIN outbox \cup {n}
                   /\ outbox'[n].status = "pending"
                   /\ \A i \in DOMAIN outbox : outbox'[i] = outbox[i]
      BY <3>1, AppendsRow, Zenon
    <3> QED
      BY <3>2, Zenon
  <2>2. worker' = worker
    BY <1>1, Zenon DEF ApiStep, ApiCreateTransaction, ApiRecordEvent, ApiApproveTransaction
  <2> QED
    BY <1>0, <2>1, <2>2, SentFrame, Zenon
<1>2. ASSUME NEW w \in Workers, WorkerFault(w) PROVE SentMeansCommitted' /\ ReplyInv'
  <2>1. outbox' = outbox
    BY <1>2, Zenon DEF WorkerFault, SubmitFails, MarkFails, Crash, queueVars
  <2>2. \A v \in Workers : worker'[v].pc = "ok" => worker'[v] = worker[v]
    <3>1. CASE SubmitFails(w)
      BY <3>1, ReplyFrame, Zenon DEF SubmitFails, Reply, StepTypes
    <3>2. CASE MarkFails(w)
      BY <3>2 DEF MarkFails, NextClaimed, StepTypes
    <3>3. CASE Crash(w)
      BY <3>3, Zenon DEF Crash, StepTypes
    <3> QED
      BY <1>2, <3>1, <3>2, <3>3, Zenon DEF WorkerFault
  <2> QED
    BY <1>0, <2>1, <2>2, SentFrame, Zenon
<1>3. ASSUME \/ \E i \in 1..MaxRows : LateCommit(i) \/ LateInvalid(i) \/ BackoffElapses(i)
             \/ \E e \in events : Stamp(e)
             \/ UNCHANGED vars
      PROVE  SentMeansCommitted' /\ ReplyInv'
  <2>1. outbox' = outbox /\ worker' = worker
    BY <1>3, Zenon DEF LateCommit, LateInvalid, BackoffElapses, Stamp, vars, queueVars
  <2> QED
    BY <1>0, <2>1, SentFrame, Zenon
<1> QED
  BY <1>1, <1>2, <1>3, SentWorker, Zenon DEF OutboxNext

-----------------------------------------------------------------------------
\* The inductive invariant holds at the start.
LEMMA SafetyInit == OutboxInit => SafetyInv
<1> SUFFICES ASSUME OutboxInit PROVE SafetyInv
  BY Zenon
<1>1. StepTypes
  BY OutboxTypeInit, Zenon
<1>2. Inv
  BY InvInit, Zenon DEF OutboxInit
<1>3. /\ header = [t \in TxnIds |-> None] /\ events = {} /\ dbEvents = {}
      /\ dbTxn = [t \in TxnIds |-> None] /\ outbox = <<>>
      /\ worker = [w \in Workers |-> [pc |-> "idle", claim |-> {}]]
  BY Zenon DEF OutboxInit, Init
<1>4. DOMAIN outbox = {}
  BY <1>3
<1>5. DataInv /\ RowInv
  BY <1>3, <1>4, Zenon DEF DataInv, RowInv
<1>6. SentMeansCommitted /\ ReplyInv
  BY <1>3, <1>4, Zenon DEF SentMeansCommitted, ReplyInv
<1> QED
  BY <1>1, <1>2, <1>5, <1>6, Zenon DEF SafetyInv

\* Every step keeps it.
LEMMA SafetyStep == SafetyInv /\ [OutboxNext]_vars => SafetyInv'
<1> SUFFICES ASSUME SafetyInv, [OutboxNext]_vars PROVE SafetyInv'
  BY Zenon
<1>1. StepKeeps /\ StepTypes'
  BY EveryStepKeeps, Zenon DEF SafetyInv
<1>2. Inv'
  BY <1>1, InvStep, Zenon DEF SafetyInv, StepKeeps
<1>3. DataInv' /\ RowInv'
  BY <1>1, StepShape, DataStep, Zenon DEF SafetyInv, StepKeeps
<1>4. SentMeansCommitted' /\ ReplyInv'
  BY <1>1, SentStepAll, Zenon
<1> QED
  BY <1>1, <1>2, <1>3, <1>4, Zenon DEF SafetyInv

\* It always holds.
LEMMA SafetyAlways == OutboxSpec => []SafetyInv
BY SafetyInit, SafetyStep, PTL DEF OutboxSpec

\* A row is marked 'sent' only when its invocation is on the ledger, however
\* many workers submit it, crash or get no reply.
THEOREM SentCorrect == OutboxSpec => []SentMeansCommitted
BY SafetyAlways, PTL DEF SafetyInv

\* What Postgres holds is on the ledger, or is queued or reported as dead: no
\* crash, lost reply or refused submission loses an event silently.
THEOREM NoSilentLossCorrect == OutboxSpec => []NoSilentLoss
<1>1. SafetyInv => NoSilentLoss
  <2> SUFFICES ASSUME SafetyInv PROVE NoSilentLoss
    BY Zenon
  <2>1. ASSUME NEW i \in DOMAIN outbox, ~ Committed(outbox[i])
        PROVE  outbox[i].status \in {"pending", "dead_letter"}
    <3>1. outbox[i] \in Row
      BY SeqElement, SeqLen, Zenon DEF SafetyInv, StepTypes, QueueTypes
    <3>2. outbox[i].status # "sent"
      BY <2>1, Zenon DEF SafetyInv, SentMeansCommitted
    <3> QED
      BY <3>1, <3>2, RowFields, Zenon
  <2> QED
    BY <2>1 DEF NoSilentLoss, SafetyInv, RowInv, Committed
<1> QED
  BY <1>1, SafetyAlways, PTL

\* The ledger is a prefix of what Postgres holds, per transaction.
THEOREM LedgerPrefixCorrect == OutboxSpec => []LedgerIsPrefixOfDatabase
<1>1. SafetyInv => LedgerIsPrefixOfDatabase
  <2> SUFFICES ASSUME SafetyInv, NEW t \in TxnIds
               PROVE  /\ header[t] = None => EventsOf(t) = {}
                      /\ header[t] # None =>
                           /\ dbTxn[t] = header[t].createdBy
                           /\ EventsOf(t) = {e \in dbEvents : e.txn = t /\ e.seq <= header[t].seq}
    BY Zenon DEF LedgerIsPrefixOfDatabase
  <2>1. header[t] = None => EventsOf(t) = {}
    BY DEF SafetyInv, Inv, HistoryIsChain, EventsOf
  <2>2. header[t] # None => dbTxn[t] = header[t].createdBy
    BY Zenon DEF SafetyInv, DataInv
  <2>3. ASSUME NEW e \in EventsOf(t) PROVE e \in dbEvents /\ e.txn = t /\ e.seq <= header[t].seq
    BY Zenon DEF SafetyInv, Inv, EventsOf, DataInv, HistoryIsChain
  <2>4. ASSUME header[t] # None, NEW e \in dbEvents, e.txn = t, e.seq <= header[t].seq
        PROVE  e \in EventsOf(t)
    <3>1. header[t].seq \in Nat /\ e.seq \in Nat /\ 1 <= e.seq
      BY <2>4, HeaderFields, EventFields, Zenon DEF SafetyInv, Inv, StepTypes, ApiTypes, TypeOK
    <3>2. e.seq \in 1..header[t].seq
      BY <2>4, <3>1
    <3>3. PICK f \in EventsOf(t) : f.seq = e.seq
      BY <2>4, <3>2, Zenon DEF SafetyInv, Inv, HistoryIsChain
    <3>4. f \in dbEvents /\ f.txn = t
      BY <2>3, Zenon
    <3>5. f = e
      BY <2>4, <3>3, <3>4, Zenon DEF SafetyInv, DataInv
    <3> QED
      BY <3>5, Zenon
  <2> QED
    BY <2>1, <2>2, <2>3, <2>4, Zenon
<1> QED
  BY <1>1, SafetyAlways, PTL

\* A transaction shown as "recorded" has its whole history on the ledger: every
\* event in Postgres has an outbox row, no row of the transaction is pending or
\* dead, and a sent row is committed.
THEOREM RecordedCorrect == OutboxSpec => []RecordedMeansComplete
<1>1. SafetyInv => RecordedMeansComplete
  <2> SUFFICES ASSUME SafetyInv, NEW t \in TxnIds, ledgerState(t) = "recorded",
                      NEW e \in dbEvents, e.txn = t
               PROVE  e \in events
    BY Zenon DEF RecordedMeansComplete
  <2>1. DeadRows(t) = {} /\ QueuedRows(t) = {}
    BY Zenon DEF ledgerState
  <2>2. PICK i \in DOMAIN outbox : outbox[i].fn = "RecordEvent" /\ outbox[i].arg = e
    BY Zenon DEF SafetyInv, RowInv
  <2>3. outbox[i] \in Row
    BY SeqElement, SeqLen, Zenon DEF SafetyInv, StepTypes, QueueTypes
  <2>4. outbox[i].status = "sent"
    BY <2>1, <2>2, <2>3, RowFields, Zenon DEF DeadRows, QueuedRows
  <2> QED
    BY <2>2, <2>4, Zenon DEF SafetyInv, SentMeansCommitted, Committed
<1> QED
  BY <1>1, SafetyAlways, PTL

=============================================================================
