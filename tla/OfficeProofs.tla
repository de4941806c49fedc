----------------------------- MODULE OfficeProofs -----------------------------
(***************************************************************************)
(* The office workflow proved for any number of requests, users, roles,    *)
(* documents and signatures, and an outbox of any length.                  *)
(*                                                                         *)
(* A handler decides on its row, the contract on a ledger that is as far   *)
(* behind as the outbox is long.  The invariant therefore says three       *)
(* things: what histories the handlers can produce at all (HistoryInv),    *)
(* that the ledger is such a history cut off somewhere (LedgerInv), and    *)
(* that the queue holds, per transaction and in order, exactly what is     *)
(* missing (QueueInv, OrderInv, MissingInv).  So the oldest call of the    *)
(* queue is always the one the contract expects next, and relaying it      *)
(* takes the ledger one step along the row's history.                      *)
(***************************************************************************)
EXTENDS OfficeWorkflow, TLAPS

(* Sequences *)

\* An element of a sequence.
LEMMA SeqElement ==
    ASSUME NEW S, NEW s \in Seq(S), NEW n \in 1..Len(s)
    PROVE  s[n] \in S
  OBVIOUS

\* The empty sequence, and the others.
LEMMA SeqEmpty ==
    ASSUME NEW S
    PROVE  /\ <<>> \in Seq(S) /\ Len(<<>>) = 0
           /\ \A s \in Seq(S) : s # <<>> => Len(s) \in Nat \ {0}
  <1>1. <<>> \in Seq(S) /\ Len(<<>>) = 0
    OBVIOUS
  <1>2. ASSUME NEW s \in Seq(S), s # <<>> PROVE Len(s) \in Nat \ {0}
    BY <1>2
  <1> QED BY <1>1, <1>2, Zenon

\* A sequence as a function.
LEMMA SeqLen ==
    ASSUME NEW S, NEW s \in Seq(S)
    PROVE  Len(s) \in Nat /\ s \in [1..Len(s) -> S] /\ DOMAIN s = 1..Len(s)
  OBVIOUS

\* The elements of a concatenation.
LEMMA SeqConcat ==
    ASSUME NEW S, NEW s \in Seq(S), NEW t \in Seq(S)
    PROVE  /\ s \o t \in Seq(S) /\ Len(s \o t) = Len(s) + Len(t)
           /\ \A i \in 1..(Len(s) + Len(t)) :
                 (s \o t)[i] = IF i <= Len(s) THEN s[i] ELSE t[i - Len(s)]
  OBVIOUS

\* Concatenating with the empty sequence.
LEMMA SeqConcatEmpty ==
    ASSUME NEW S, NEW s \in Seq(S)
    PROVE  s \o <<>> = s /\ <<>> \o s = s
  OBVIOUS

\* Concatenation is associative.
LEMMA SeqConcatAssoc ==
    ASSUME NEW S, NEW s \in Seq(S), NEW t \in Seq(S), NEW u \in Seq(S)
    PROVE  (s \o t) \o u = s \o (t \o u)
  OBVIOUS

\* Taking the first element off a sequence.
LEMMA SeqHeadTail ==
    ASSUME NEW S, NEW s \in Seq(S), s # <<>>
    PROVE  /\ Head(s) \in S /\ Tail(s) \in Seq(S) /\ Len(Tail(s)) = Len(s) - 1
           /\ \A i \in 1..Len(Tail(s)) : Tail(s)[i] = s[i + 1]
  OBVIOUS

-----------------------------------------------------------------------------
Actors == Users \cup {"system"}
StepTypes == {"CREATED", "SUBMITTED", "APPROVED_SIGNED", "REJECTED", "COMPLETED", "CANCELLED",
              "UPLOAD_RECEIVED", "INTEGRITY_VERIFIED", "ARCHIVED"}
Steps == [type : StepTypes, actor : Actors, new : Statuses \cup {""}]

CreateCall == [fn : {"CreateTransaction"}, arg : [txn : TxnIds, user : Users]]
RecordCall == [fn : {"RecordEvent"}, arg : Event]
DecisionCall == [fn : {"Approve"}, arg : Approval]
Calls == CreateCall \cup RecordCall \cup DecisionCall

OfficeTypes ==
    /\ header \in [TxnIds -> Header \cup {None}]
    /\ row \in [TxnIds -> OfficeRow \cup {None}]
    /\ history \in [TxnIds -> Seq(Steps)]
    /\ decisions \subseteq [txn : TxnIds, approver : Users, decision : Decisions,
                            sig : Signatures \cup {None}]
    /\ queue \in Seq(Calls)
    /\ ttd \in [Signatures -> [account : Users, doc : Documents] \cup {None}]
    /\ requests \subseteq [user : Users, txn : TxnIds]

\* The status of transaction t after its first n events: in both workflows the
\* first event asks for none, and every later one does.
StatusAt(t, n) == IF n <= 1 THEN "DRAFT" ELSE history[t][n].new

\* What the handlers make of a transaction: one event per status, in the order
\* of the state machine, an office request with its submission in second place.
HistoryInv ==
    \A t \in TxnIds :
        /\ row[t] = None => history[t] = <<>>
        /\ row[t] # None =>
             /\ 1 <= Len(history[t]) /\ Len(history[t]) <= 4
             /\ history[t][1].new = "" /\ history[t][1].type # "SUBMITTED"
             /\ \A n \in 2..Len(history[t]) :
                   history[t][n].new \in officeTransitions(StatusAt(t, n - 1))
             /\ row[t].status = StatusAt(t, Len(history[t]))
             /\ row[t].status = "DRAFT" => Len(history[t]) = 1
             /\ row[t].status = "VERIFIED" => Len(history[t]) = 2
             /\ row[t].status = "ENDORSED" => Len(history[t]) = 3
             /\ row[t].workflow = "office" /\ row[t].status = "VERIFIED" =>
                   history[t][2].type = "SUBMITTED"

\* Who decided what: DecidedOnceBySomeoneElse, with what keeps it so.
DecisionInv ==
    /\ DecidedOnceBySomeoneElse
    /\ \A d \in decisions :
          /\ row[d.txn] # None /\ row[d.txn].workflow = "office"
          /\ row[d.txn].status \in {"ENDORSED", "COMMITTED", "REJECTED"}
          /\ d.decision = "approve" => d.sig \in Signatures /\ ttd[d.sig] # None

\* The ledger holds the beginning of the row's history.
LedgerInv ==
    /\ \A t \in TxnIds : header[t] # None =>
          /\ row[t] # None
          /\ header[t].createdBy = row[t].createdBy
          /\ header[t].seq <= Len(history[t])
          /\ header[t].status = StatusAt(t, header[t].seq)
          /\ header[t].hash = IF header[t].seq = 0 THEN NoHash ELSE <<t, header[t].seq>>
    /\ \A k \in idem : \E t \in TxnIds : /\ header[t] # None
                                         /\ \E n \in 1..header[t].seq : k = <<t, n>>

\* An approval, queued or on the ledger, is a decision on a submission.
IsDecision(a) ==
    /\ a.decision = "approve"
    /\ \E d \in decisions : d.txn = a.txn /\ d.approver = a.approver /\ d.decision = "approve"
    /\ a.seq \in DOMAIN history[a.txn]
    /\ history[a.txn][a.seq].type = "SUBMITTED"

ApprovalInv == \A a \in approvals : a.txn \in TxnIds /\ IsDecision(a)

\* How far the ledger is with transaction t; -1 before it was created.
Reached(t) == IF header[t] = None THEN -1 ELSE header[t].seq

\* Every queued call is one a handler made, and not on the ledger yet.
Queued(c) ==
    /\ row[c.arg.txn] # None
    /\ c.fn = "CreateTransaction" =>
          header[c.arg.txn] = None /\ c.arg.user = row[c.arg.txn].createdBy
    /\ c.fn = "RecordEvent" =>
          /\ c.arg.seq \in 1..Len(history[c.arg.txn])
          /\ c.arg.seq > Reached(c.arg.txn)
          /\ c.arg = LedgerEvent(c.arg.txn, c.arg.seq, history[c.arg.txn][c.arg.seq])
    /\ c.fn = "Approve" =>
          /\ IsDecision(c.arg)
          /\ \A b \in approvals : b.txn # c.arg.txn

QueueInv == \A i \in DOMAIN queue : Queued(queue[i])

\* Call d may come after call c.
MayFollow(c, d) ==
    c.arg.txn = d.arg.txn =>
        /\ d.fn # "CreateTransaction"
        /\ c.fn = "RecordEvent" /\ d.fn = "RecordEvent" => c.arg.seq < d.arg.seq
        /\ ~ (c.fn = "Approve" /\ d.fn = "Approve")

OrderInv == \A i, j \in DOMAIN queue : i < j => MayFollow(queue[i], queue[j])

\* What the ledger lacks is queued.
MissingInv ==
    \A t \in TxnIds : row[t] # None =>
        /\ header[t] = None =>
              \E i \in DOMAIN queue : queue[i].fn = "CreateTransaction" /\ queue[i].arg.txn = t
        /\ \A n \in 1..Len(history[t]) : n > Reached(t) =>
              \E i \in DOMAIN queue : /\ queue[i].fn = "RecordEvent" /\ queue[i].arg.txn = t
                                      /\ queue[i].arg.seq = n

OfficeInv ==
    /\ OfficeTypes /\ HistoryInv /\ DecisionInv /\ LedgerInv
    /\ ApprovalInv /\ QueueInv /\ OrderInv /\ MissingInv

-----------------------------------------------------------------------------
(* Lemmas *)

\* The API's state machine and the contract's are the same table.
LEMMA SameTable == \A s : officeTransitions(s) = allowedTransitions(s)
  BY Zenon DEF officeTransitions, allowedTransitions

\* Nothing is there at the beginning.
LEMMA InitOfficeInv == OfficeInit => OfficeInv
  <1> SUFFICES ASSUME OfficeInit PROVE OfficeInv
    BY Zenon
  <1> USE DEF OfficeInit, Init
  <1>1. OfficeTypes
    BY DEF OfficeTypes
  <1>2. HistoryInv /\ LedgerInv /\ MissingInv
    BY Zenon DEF HistoryInv, LedgerInv, MissingInv
  <1>3. DecisionInv
    BY Zenon DEF DecisionInv, DecidedOnceBySomeoneElse
  <1>4. ApprovalInv /\ QueueInv /\ OrderInv
    BY DEF ApprovalInv, QueueInv, OrderInv
  <1> QED BY <1>1, <1>2, <1>3, <1>4, Zenon DEF OfficeInv

\* A header has a sequence number.
LEMMA HeaderSequence ==
    ASSUME OfficeTypes, NEW t \in TxnIds, header[t] # None
    PROVE  header[t] \in Header /\ header[t].seq \in Nat
  <1>1. header[t] \in Header
    BY Zenon DEF OfficeTypes
  <1> QED BY <1>1, ConstantsAssumption DEF Header

\* Appending steps to a history leaves the earlier ones in place.
LEMMA LongerHistory ==
    ASSUME OfficeTypes, NEW t \in TxnIds, NEW steps \in Seq(Steps),
           history' = [history EXCEPT ![t] = @ \o steps]
    PROVE  /\ history'[t] \in Seq(Steps)
           /\ Len(history'[t]) = Len(history[t]) + Len(steps)
           /\ \A n \in 1..Len(history[t]) : history'[t][n] = history[t][n]
           /\ \A n \in 1..Len(steps) : history'[t][Len(history[t]) + n] = steps[n]
           /\ \A s \in TxnIds : s # t => history'[s] = history[s]
           /\ Len(history[t]) \in Nat /\ Len(steps) \in Nat
  <1>1. history[t] \in Seq(Steps) /\ history'[t] = history[t] \o steps
    BY Zenon DEF OfficeTypes
  <1>2. Len(history[t]) \in Nat /\ Len(steps) \in Nat
    BY <1>1, SeqLen, Zenon
  <1> QED BY <1>1, <1>2, SeqConcat DEF OfficeTypes

\* A handler on transaction t: it extends the history of t by steps and the queue
\* by calls, which are the new events and what goes with them.
Handled(t, steps, calls) ==
    /\ UNCHANGED contractVars
    /\ decisions \subseteq decisions'
    /\ row'[t] # None
    /\ row[t] # None => row'[t].createdBy = row[t].createdBy
    /\ \A s \in TxnIds : s # t => row'[s] = row[s]
    /\ history' = [history EXCEPT ![t] = @ \o steps]
    /\ queue' = queue \o calls

\* The calls are those of the steps, in their order.
IsBatch(t, steps, calls) ==
    /\ \A i \in DOMAIN calls :
          /\ calls[i].arg.txn = t
          /\ calls[i].fn = "CreateTransaction" =>
                row[t] = None /\ calls[i].arg.user = row'[t].createdBy
          /\ calls[i].fn = "RecordEvent" =>
                \E n \in 1..Len(steps) :
                    calls[i].arg = LedgerEvent(t, Len(history[t]) + n, steps[n])
          /\ calls[i].fn = "Approve" =>
                IsDecision(calls[i].arg)' /\ \A d \in decisions : d.txn # t
    /\ \A i, j \in DOMAIN calls : i < j => MayFollow(calls[i], calls[j])
    /\ row[t] = None => \E i \in DOMAIN calls : calls[i].fn = "CreateTransaction"
    /\ \A n \in 1..Len(steps) : \E i \in DOMAIN calls :
          calls[i].fn = "RecordEvent" /\ calls[i].arg.seq = Len(history[t]) + n

\* Decisions and submissions stay what they are.
LEMMA DecisionsStay ==
    ASSUME OfficeTypes, NEW t \in TxnIds, NEW steps \in Seq(Steps), NEW calls,
           Handled(t, steps, calls), NEW a, a.txn \in TxnIds, IsDecision(a)
    PROVE  IsDecision(a)'
  <1>1. \A s \in TxnIds : \A n \in DOMAIN history[s] :
           n \in DOMAIN history'[s] /\ history'[s][n] = history[s][n]
    <2> TAKE s \in TxnIds
    <2>1. CASE s # t
      BY <2>1, LongerHistory, Zenon DEF Handled
    <2>2. CASE s = t
      <3>1. DOMAIN history[t] = 1..Len(history[t]) /\ DOMAIN history'[t] = 1..Len(history'[t])
        BY LongerHistory, SeqLen DEF Handled, OfficeTypes
      <3> QED BY <2>2, <3>1, LongerHistory DEF Handled
    <2> QED BY <2>1, <2>2, Zenon
  <1> QED BY <1>1, Zenon DEF IsDecision, Handled

\* The ledger stays the beginning of the histories.
LEMMA HandlerLedger ==
    ASSUME OfficeInv, NEW t \in TxnIds, NEW steps \in Seq(Steps), NEW calls,
           Handled(t, steps, calls)
    PROVE  LedgerInv' /\ ApprovalInv'
  <1> USE DEF OfficeInv
  <1>1. header' = header /\ idem' = idem /\ approvals' = approvals
    BY Zenon DEF Handled, contractVars
  <1>2. ASSUME NEW s \in TxnIds, header[s] # None
        PROVE  /\ row'[s] # None
               /\ header[s].createdBy = row'[s].createdBy
               /\ header[s].seq <= Len(history'[s])
               /\ header[s].status = StatusAt(s, header[s].seq)'
    <2>1. header[s].seq \in Nat /\ header[s].seq <= Len(history[s]) /\ row[s] # None
      BY <1>2, HeaderSequence, Zenon DEF LedgerInv
    <2>2. CASE s # t
      <3>1. row'[s] = row[s] /\ history'[s] = history[s]
        BY <2>2, LongerHistory, Zenon DEF Handled
      <3> QED BY <3>1, <2>1, <1>1, <1>2, Zenon DEF LedgerInv, StatusAt
    <2>3. CASE s = t
      <3>1. header[s].seq <= 1 \/ history'[s][header[s].seq] = history[s][header[s].seq]
        BY <2>1, <2>3, LongerHistory DEF Handled
      <3>2. StatusAt(s, header[s].seq)' = StatusAt(s, header[s].seq)
        BY <3>1, <1>1, Zenon DEF StatusAt
      <3>3. header[s].seq <= Len(history'[s])
        BY <2>1, <2>3, LongerHistory DEF Handled
      <3> QED BY <3>2, <3>3, <2>1, <2>3, <1>2, Zenon DEF LedgerInv, Handled
    <2> QED BY <2>2, <2>3, Zenon
  <1>3. LedgerInv'
    BY <1>1, <1>2, Zenon DEF LedgerInv
  <1>4. ApprovalInv'
    BY <1>1, DecisionsStay, Zenon DEF ApprovalInv
  <1> QED BY <1>3, <1>4, Zenon
\* The queue after a handler: the old calls, then the new ones.
LEMMA LongerQueue ==
    ASSUME OfficeTypes, NEW calls \in Seq(Calls), queue' = queue \o calls
    PROVE  /\ queue' \in Seq(Calls)
           /\ Len(queue) \in Nat /\ Len(calls) \in Nat
           /\ DOMAIN queue = 1..Len(queue) /\ DOMAIN calls = 1..Len(calls)
           /\ DOMAIN queue' = 1..(Len(queue) + Len(calls))
           /\ \A i \in DOMAIN queue : i \in DOMAIN queue' /\ queue'[i] = queue[i]
           /\ \A i \in DOMAIN calls :
                 Len(queue) + i \in DOMAIN queue' /\ queue'[Len(queue) + i] = calls[i]
           /\ \A i \in DOMAIN queue' : i \in DOMAIN queue \/
                 \E j \in DOMAIN calls : i = Len(queue) + j /\ queue'[i] = calls[j]
  <1>1. queue \in Seq(Calls)
    BY Zenon DEF OfficeTypes
  <1>2. /\ Len(queue) \in Nat /\ Len(calls) \in Nat
        /\ DOMAIN queue = 1..Len(queue) /\ DOMAIN calls = 1..Len(calls)
    BY <1>1, SeqLen, Zenon
  <1>3. /\ queue' \in Seq(Calls) /\ Len(queue') = Len(queue) + Len(calls)
        /\ \A i \in 1..(Len(queue) + Len(calls)) :
              queue'[i] = IF i <= Len(queue) THEN queue[i] ELSE calls[i - Len(queue)]
    BY <1>1, SeqConcat, Zenon
  <1>4. DOMAIN queue' = 1..(Len(queue) + Len(calls))
    BY <1>3, SeqLen, Zenon
  <1>5. \A i \in DOMAIN queue' : i \in DOMAIN queue \/
           \E j \in DOMAIN calls : i = Len(queue) + j /\ queue'[i] = calls[j]
    <2> TAKE i \in DOMAIN queue'
    <2>1. CASE i <= Len(queue)
      BY <2>1, <1>2, <1>4
    <2>2. CASE i > Len(queue)
      <3>1. i - Len(queue) \in DOMAIN calls /\ i = Len(queue) + (i - Len(queue))
        BY <2>2, <1>2, <1>4
      <3>2. queue'[i] = calls[i - Len(queue)]
        BY <2>2, <1>2, <1>3, <1>4
      <3> QED BY <3>1, <3>2, Zenon
    <2> QED BY <2>1, <2>2, <1>2, <1>4
  <1>6. \A i \in DOMAIN queue : i \in DOMAIN queue' /\ queue'[i] = queue[i]
    BY <1>2, <1>3, <1>4
  <1>7. ASSUME NEW i \in DOMAIN calls
        PROVE  Len(queue) + i \in DOMAIN queue' /\ queue'[Len(queue) + i] = calls[i]
    <2>1. Len(queue) + i \in 1..(Len(queue) + Len(calls)) /\ ~ (Len(queue) + i <= Len(queue))
          /\ (Len(queue) + i) - Len(queue) = i
      BY <1>2
    <2> QED BY <2>1, <1>3, <1>4, Zenon
  <1> QED BY <1>2, <1>3, <1>4, <1>5, <1>6, <1>7, Zenon

\* Every member of the queue names a transaction.
LEMMA CallsNameTransactions ==
    ASSUME NEW c \in Calls
    PROVE  /\ c.arg.txn \in TxnIds
           /\ c.fn \in {"CreateTransaction", "RecordEvent", "Approve"}
           /\ c.fn = "CreateTransaction" => c \in CreateCall
           /\ c.fn = "RecordEvent" => c \in RecordCall
           /\ c.fn = "Approve" => c \in DecisionCall
  BY Zenon DEF Calls, CreateCall, RecordCall, DecisionCall, Event, Approval

\* What was queued before a handler is still right, and what it queues is.
LEMMA HandlerQueued ==
    ASSUME OfficeInv, NEW t \in TxnIds, NEW steps \in Seq(Steps), NEW calls \in Seq(Calls),
           Handled(t, steps, calls), IsBatch(t, steps, calls)
    PROVE  QueueInv'
  <1> USE DEF OfficeInv
  <1>0. queue' = queue \o calls /\ header' = header /\ approvals' = approvals
    BY Zenon DEF Handled, contractVars
  <1>1. ASSUME NEW i \in DOMAIN queue PROVE Queued(queue[i])'
    <2> DEFINE c == queue[i]
               s == c.arg.txn
    <2>1. c \in Calls /\ Queued(c) /\ queue'[i] = c
      BY <1>0, LongerQueue, SeqElement, Zenon DEF OfficeTypes, QueueInv
    <2>2. s \in TxnIds /\ row[s] # None
      BY <2>1, CallsNameTransactions, Zenon DEF Queued
    <2>3. row'[s] # None /\ row'[s].createdBy = row[s].createdBy
      BY <2>2, Zenon DEF Handled
    <2>4. c.fn = "RecordEvent" =>
             /\ c.arg.seq \in 1..Len(history'[s])
             /\ c.arg = LedgerEvent(s, c.arg.seq, history'[s][c.arg.seq])
      <3> HAVE c.fn = "RecordEvent"
      <3>1. c.arg.seq \in 1..Len(history[s])
            /\ c.arg = LedgerEvent(s, c.arg.seq, history[s][c.arg.seq])
        BY <2>1, Zenon DEF Queued
      <3>2. CASE s # t
        <4>1. history'[s] = history[s]
          BY <3>2, <2>2, LongerHistory, Zenon DEF Handled
        <4> QED BY <3>1, <4>1, Zenon
      <3>3. CASE s = t
        <4>1. /\ Len(history'[s]) = Len(history[s]) + Len(steps)
              /\ Len(history[s]) \in Nat /\ Len(steps) \in Nat
              /\ \A n \in 1..Len(history[s]) : history'[s][n] = history[s][n]
          BY <3>3, LongerHistory, ZenonT(30) DEF Handled
        <4> HIDE DEF c, s
        <4>2. c.arg.seq \in 1..Len(history'[s])
          BY <4>1, <3>1
        <4>3. history'[s][c.arg.seq] = history[s][c.arg.seq]
          BY <4>1, <3>1, Zenon
        <4> QED BY <3>1, <4>2, <4>3, Zenon
      <3> QED BY <3>2, <3>3, Zenon
    <2>5. c.fn = "Approve" => IsDecision(c.arg)'
      BY <2>1, <2>2, DecisionsStay, Zenon DEF Queued
    <2> QED BY <2>1, <2>2, <2>3, <2>4, <2>5, <1>0, ZenonT(40) DEF Queued, Reached, LedgerEvent
  <1>2. ASSUME NEW j \in DOMAIN calls PROVE Queued(calls[j])'
    <2> DEFINE c == calls[j]
    <2>1. c \in Calls /\ c.arg.txn = t /\ row'[t] # None
      BY <1>0, SeqElement, SeqLen, Zenon DEF IsBatch, Handled
    <2>2. c.fn = "CreateTransaction" => header[t] = None /\ c.arg.user = row'[t].createdBy
      BY Zenon DEF IsBatch, LedgerInv
    <2>3. c.fn = "RecordEvent" =>
             /\ c.arg.seq \in 1..Len(history'[t])
             /\ c.arg.seq > Reached(t)
             /\ c.arg = LedgerEvent(t, c.arg.seq, history'[t][c.arg.seq])
      <3> HAVE c.fn = "RecordEvent"
      <3>1. PICK n \in 1..Len(steps) : c.arg = LedgerEvent(t, Len(history[t]) + n, steps[n])
        BY Zenon DEF IsBatch
      <3>2. /\ Len(history'[t]) = Len(history[t]) + Len(steps)
            /\ history'[t][Len(history[t]) + n] = steps[n]
            /\ Len(history[t]) \in Nat /\ Len(steps) \in Nat
        BY LongerHistory, Zenon DEF Handled
      <3>3. c.arg.seq = Len(history[t]) + n
        BY <3>1 DEF LedgerEvent
      <3>4. ASSUME header[t] # None
            PROVE  header[t].seq <= Len(history[t]) /\ header[t].seq \in Nat
        BY <3>4, HeaderSequence, Zenon DEF LedgerInv
      <3>5. Len(history[t]) + n > Reached(t)
        BY <3>2, <3>4 DEF Reached
      <3>6. Len(history[t]) + n \in 1..Len(history'[t])
        BY <3>2
      <3> HIDE DEF c
      <3> QED BY <3>1, <3>2, <3>3, <3>5, <3>6, Zenon
    <2>4. c.fn = "Approve" => IsDecision(c.arg)' /\ \A b \in approvals : b.txn # t
      BY DEF IsBatch, ApprovalInv, IsDecision
    <2> QED BY <2>1, <2>2, <2>3, <2>4, <1>0, Zenon DEF Queued, Reached, LedgerEvent
  <1>3. ASSUME NEW i \in DOMAIN queue' PROVE Queued(queue[i])'
    <2>1. CASE i \in DOMAIN queue
      BY <1>1, <2>1, Zenon
    <2>2. CASE i \notin DOMAIN queue
      <3>1. PICK j \in DOMAIN calls : queue'[i] = calls[j]
        BY <2>2, <1>0, LongerQueue
      <3> QED BY <3>1, <1>2 DEF Queued, IsDecision
    <2> QED BY <2>1, <2>2, Zenon
  <1> QED BY <1>3, Zenon DEF QueueInv

\* The new calls come in order and after the old ones.
LEMMA HandlerOrder ==
    ASSUME OfficeInv, NEW t \in TxnIds, NEW steps \in Seq(Steps), NEW calls \in Seq(Calls),
           Handled(t, steps, calls), IsBatch(t, steps, calls)
    PROVE  OrderInv'
  <1> USE DEF OfficeInv
  <1>0. queue' = queue \o calls
    BY Zenon DEF Handled
  <1>1. ASSUME NEW i \in DOMAIN queue, NEW j \in DOMAIN calls
        PROVE  MayFollow(queue[i], calls[j])
    <2> SUFFICES ASSUME queue[i].arg.txn = calls[j].arg.txn
                 PROVE  /\ calls[j].fn # "CreateTransaction"
                        /\ queue[i].fn = "RecordEvent" /\ calls[j].fn = "RecordEvent" =>
                              queue[i].arg.seq < calls[j].arg.seq
                        /\ ~ (queue[i].fn = "Approve" /\ calls[j].fn = "Approve")
      BY Zenon DEF MayFollow
    <2>1. calls[j].arg.txn = t /\ queue[i].arg.txn = t /\ Queued(queue[i])
      BY Zenon DEF IsBatch, QueueInv
    <2>2. calls[j].fn # "CreateTransaction"
      BY <2>1, Zenon DEF Queued, IsBatch
    <2>3. queue[i].fn = "RecordEvent" /\ calls[j].fn = "RecordEvent" =>
             queue[i].arg.seq < calls[j].arg.seq
      <3> SUFFICES ASSUME queue[i].fn = "RecordEvent", calls[j].fn = "RecordEvent"
                   PROVE  queue[i].arg.seq < calls[j].arg.seq
        BY Zenon
      <3>1. queue[i].arg.seq \in 1..Len(history[t])
        BY <2>1, Zenon DEF Queued
      <3>2. PICK n \in 1..Len(steps) : calls[j].arg = LedgerEvent(t, Len(history[t]) + n, steps[n])
        BY ZenonT(30) DEF IsBatch
      <3>3. calls[j].arg.seq = Len(history[t]) + n
        BY <3>2 DEF LedgerEvent
      <3>4. Len(history[t]) \in Nat /\ Len(steps) \in Nat
        BY LongerHistory, Zenon DEF Handled
      <3> QED BY <3>1, <3>3, <3>4
    <2>4. ~ (queue[i].fn = "Approve" /\ calls[j].fn = "Approve")
      BY <2>1 DEF Queued, IsDecision, IsBatch
    <2> QED BY <2>2, <2>3, <2>4, Zenon
  <1>2. ASSUME NEW i \in DOMAIN queue', NEW j \in DOMAIN queue', i < j
        PROVE  MayFollow(queue'[i], queue'[j])
    <2>0. Len(queue) \in Nat /\ DOMAIN queue = 1..Len(queue) /\ DOMAIN calls \subseteq Nat \ {0}
      BY <1>0, LongerQueue
    <2>1. CASE j \in DOMAIN queue
      <3>1. i \in DOMAIN queue
        BY <2>0, <2>1, <1>2, <1>0, LongerQueue
      <3>2. queue'[i] = queue[i] /\ queue'[j] = queue[j]
        BY <3>1, <2>1, <1>0, LongerQueue, Zenon
      <3> QED BY <3>1, <3>2, <2>1, <1>2, Zenon DEF OrderInv
    <2>2. CASE j \notin DOMAIN queue
      <3>1. PICK m \in DOMAIN calls : j = Len(queue) + m /\ queue'[j] = calls[m]
        BY <2>2, <1>0, LongerQueue, ZenonT(30)
      <3>2. CASE i \in DOMAIN queue
        <4>1. queue'[i] = queue[i]
          BY <3>2, <1>0, LongerQueue, Zenon
        <4> QED BY <4>1, <3>1, <3>2, <1>1, Zenon
      <3>3. CASE i \notin DOMAIN queue
        <4>1. PICK k \in DOMAIN calls : i = Len(queue) + k /\ queue'[i] = calls[k]
          BY <3>3, <1>0, LongerQueue, Zenon
        <4>2. k < m
          BY <4>1, <3>1, <2>0, <1>2
        <4> QED BY <4>1, <4>2, <3>1, Zenon DEF IsBatch
      <3> QED BY <3>2, <3>3, Zenon
    <2> QED BY <2>1, <2>2, Zenon
  <1> QED BY <1>2, Zenon DEF OrderInv, MayFollow

\* What the ledger lacked is still queued, and so is what was added.
LEMMA HandlerMissing ==
    ASSUME OfficeInv, NEW t \in TxnIds, NEW steps \in Seq(Steps), NEW calls \in Seq(Calls),
           Handled(t, steps, calls), IsBatch(t, steps, calls)
    PROVE  MissingInv'
  <1> USE DEF OfficeInv
  <1>0. queue' = queue \o calls /\ header' = header
    BY Zenon DEF Handled, contractVars
  <1>1. \A i \in DOMAIN queue : i \in DOMAIN queue' /\ queue'[i] = queue[i]
    BY <1>0, LongerQueue, Zenon
  <1>2. \A j \in DOMAIN calls :
           Len(queue) + j \in DOMAIN queue' /\ queue'[Len(queue) + j] = calls[j]
    BY <1>0, LongerQueue, Zenon
  <1>3. ASSUME NEW s \in TxnIds, row'[s] # None, header[s] = None
        PROVE  \E i \in DOMAIN queue' : queue'[i].fn = "CreateTransaction" /\ queue'[i].arg.txn = s
    <2>1. CASE row[s] # None
      BY <2>1, <1>3, <1>1 DEF MissingInv
    <2>2. CASE row[s] = None
      <3>1. s = t
        BY <2>2, <1>3, Zenon DEF Handled
      <3>2. PICK j \in DOMAIN calls : calls[j].fn = "CreateTransaction" /\ calls[j].arg.txn = s
        BY <3>1, <2>2, Zenon DEF IsBatch
      <3> QED BY <3>2, <1>2, Zenon
    <2> QED BY <2>1, <2>2, Zenon
  <1>4. ASSUME NEW s \in TxnIds, row'[s] # None, NEW n \in 1..Len(history'[s]), n > Reached(s)
        PROVE  \E i \in DOMAIN queue' : /\ queue'[i].fn = "RecordEvent" /\ queue'[i].arg.txn = s
                                        /\ queue'[i].arg.seq = n
    <2>1. CASE row[s] # None /\ n \in 1..Len(history[s])
      BY <2>1, <1>4, <1>1 DEF MissingInv
    <2>2. CASE ~ (row[s] # None /\ n \in 1..Len(history[s]))
      <3>1. s = t
        <4> SUFFICES ASSUME s # t PROVE FALSE
          BY Zenon
        <4>1. row'[s] = row[s] /\ history'[s] = history[s]
          BY LongerHistory, Zenon DEF Handled
        <4> QED BY <4>1, <2>2, <1>4, Zenon
      <3>2. /\ Len(history'[t]) = Len(history[t]) + Len(steps)
            /\ Len(history[t]) \in Nat /\ Len(steps) \in Nat
        BY LongerHistory, Zenon DEF Handled
      <3>3. n \notin 1..Len(history[t])
        <4>1. CASE row[t] = None
          <5>1. Len(history[t]) = 0
            BY <4>1, SeqEmpty, Zenon DEF HistoryInv
          <5> QED BY <5>1
        <4> QED BY <4>1, <2>2, <3>1, Zenon
      <3>4. n - Len(history[t]) \in 1..Len(steps)
        BY <3>1, <3>2, <3>3, <1>4
      <3>5. PICK j \in DOMAIN calls : /\ calls[j].fn = "RecordEvent"
                                      /\ calls[j].arg.seq = Len(history[t]) + (n - Len(history[t]))
        BY <3>4, Zenon DEF IsBatch
      <3>6. calls[j].arg.txn = s /\ calls[j].arg.seq = n
        BY <3>1, <3>2, <3>5 DEF IsBatch
      <3> QED BY <3>5, <3>6, <1>2, Zenon
    <2> QED BY <2>1, <2>2, Zenon
  <1>5. ASSUME NEW s PROVE Reached(s)' = Reached(s)
    BY <1>0, Zenon DEF Reached
  <1>6. ASSUME NEW s \in TxnIds, row'[s] # None, NEW n \in 1..Len(history'[s]), n > Reached(s)'
        PROVE  \E i \in DOMAIN queue' : /\ queue'[i].fn = "RecordEvent" /\ queue'[i].arg.txn = s
                                        /\ queue'[i].arg.seq = n
    BY <1>4, <1>5, <1>6
  <1>7. header' = header
    BY <1>0, Zenon
  <1> HIDE DEF OfficeInv
  <1> QED BY <1>3, <1>6, <1>7 DEF MissingInv

\* The calls for the events of some steps: one each, numbered on from the history.
LEMMA EventCallsFacts ==
    ASSUME OfficeTypes, NEW t \in TxnIds, NEW steps \in Seq(Steps),
           Len(history[t]) + Len(steps) <= 4
    PROVE  /\ EventCalls(t, steps) \in Seq(Calls)
           /\ Len(EventCalls(t, steps)) = Len(steps)
           /\ \A i \in 1..Len(steps) : EventCalls(t, steps)[i] =
                 Call("RecordEvent", LedgerEvent(t, Len(history[t]) + i, steps[i]))
  <1>1. Len(history[t]) \in Nat /\ Len(steps) \in Nat /\ DOMAIN steps = 1..Len(steps)
    BY SeqLen, Zenon DEF OfficeTypes
  <1>2. ASSUME NEW i \in 1..Len(steps)
        PROVE  Call("RecordEvent", LedgerEvent(t, Len(history[t]) + i, steps[i])) \in Calls
    <2> DEFINE n == Len(history[t]) + i
    <2>1. n \in 1..MaxSequence /\ (n # 1 => n - 1 \in 1..MaxSequence)
      BY <1>1, ConstantsAssumption, PlaceAssumption
    <2>2. <<t, n>> \in Hashes /\ <<t, n>> \in Keys /\ (n # 1 => <<t, n - 1>> \in Hashes)
      BY <2>1, PlaceAssumption, Zenon
    <2>3. steps[i].new \in Statuses \cup {""}
      <3>1. steps[i] \in Steps
        BY SeqElement, Zenon
      <3> QED BY <3>1, Zenon DEF Steps
    <2> HIDE DEF n
    <2>4. LedgerEvent(t, n, steps[i]) \in Event
      BY <2>1, <2>2, <2>3, Zenon DEF LedgerEvent, Event
    <2> QED BY <2>4, Zenon DEF n, Call, Calls, RecordCall
  <1>3. EventCalls(t, steps) = [i \in 1..Len(steps) |->
           Call("RecordEvent", LedgerEvent(t, Len(history[t]) + i, steps[i]))]
    BY <1>1, Zenon DEF EventCalls
  <1> QED BY <1>1, <1>2, <1>3

\* What is queued for a new transaction is a batch.
LEMMA NewBatch ==
    ASSUME OfficeInv, NEW t \in TxnIds, NEW u \in Users, NEW steps \in Seq(Steps),
           Len(steps) <= 4, row[t] = None, row'[t].createdBy = u,
           NEW calls, calls = <<Call("CreateTransaction", [txn |-> t, user |-> u])>>
                                  \o EventCalls(t, steps)
    PROVE  calls \in Seq(Calls) /\ IsBatch(t, steps, calls)
  <1> DEFINE create == Call("CreateTransaction", [txn |-> t, user |-> u])
             record(i) == Call("RecordEvent", LedgerEvent(t, i, steps[i]))
  <1>1. Len(history[t]) = 0 /\ Len(steps) \in Nat
    BY SeqEmpty, SeqLen, Zenon DEF OfficeInv, HistoryInv
  <1>2. /\ EventCalls(t, steps) \in Seq(Calls) /\ Len(EventCalls(t, steps)) = Len(steps)
        /\ \A i \in 1..Len(steps) : EventCalls(t, steps)[i] = record(i)
    <2>1. Len(history[t]) + Len(steps) <= 4 /\ (\A i \in 1..Len(steps) : Len(history[t]) + i = i)
      BY <1>1
    <2>2. /\ EventCalls(t, steps) \in Seq(Calls) /\ Len(EventCalls(t, steps)) = Len(steps)
          /\ \A i \in 1..Len(steps) : EventCalls(t, steps)[i] =
                Call("RecordEvent", LedgerEvent(t, Len(history[t]) + i, steps[i]))
      BY <2>1, EventCallsFacts, Zenon DEF OfficeInv
    <2> QED BY <2>1, <2>2, Zenon
  <1>3. create \in Calls /\ <<create>> \in Seq(Calls) /\ Len(<<create>>) = 1 /\ <<create>>[1] = create
    BY DEF Call, Calls, CreateCall
  <1> HIDE DEF create
  <1>4. /\ calls \in Seq(Calls) /\ Len(calls) = 1 + Len(steps)
        /\ \A i \in 1..(1 + Len(steps)) :
              calls[i] = IF i <= 1 THEN <<create>>[i] ELSE EventCalls(t, steps)[i - 1]
    BY <1>2, <1>3, SeqConcat DEF create
  <1>5. DOMAIN calls = 1..(1 + Len(steps)) /\ calls[1] = create
    BY <1>1, <1>3, <1>4, SeqLen
  <1>6. ASSUME NEW n \in 1..Len(steps) PROVE n + 1 \in DOMAIN calls /\ calls[n + 1] = record(n)
    <2>1. n + 1 \in 1..(1 + Len(steps)) /\ ~ (n + 1 <= 1) /\ (n + 1) - 1 = n
      BY <1>1
    <2> QED BY <2>1, <1>2, <1>4, <1>5, Zenon
  <1>7. ASSUME NEW i \in DOMAIN calls, i # 1
        PROVE  i - 1 \in 1..Len(steps) /\ calls[i] = record(i - 1)
    <2>1. i - 1 \in 1..Len(steps) /\ ~ (i <= 1) /\ i \in 1..(1 + Len(steps))
      BY <1>1, <1>5, <1>7
    <2> QED BY <2>1, <1>2, <1>4, Zenon
  <1>8. /\ create.fn = "CreateTransaction" /\ create.arg.txn = t /\ create.arg.user = u
        /\ \A i : /\ record(i).fn = "RecordEvent" /\ record(i).arg = LedgerEvent(t, i, steps[i])
                  /\ record(i).arg.txn = t /\ record(i).arg.seq = i
    BY Zenon DEF create, Call, LedgerEvent
  <1> HIDE DEF record
  <1>9. ASSUME NEW i \in DOMAIN calls
        PROVE  /\ calls[i].arg.txn = t
               /\ calls[i].fn = "CreateTransaction" =>
                     row[t] = None /\ calls[i].arg.user = row'[t].createdBy
               /\ calls[i].fn = "RecordEvent" =>
                     \E n \in 1..Len(steps) :
                         calls[i].arg = LedgerEvent(t, Len(history[t]) + n, steps[n])
               /\ calls[i].fn # "Approve"
    <2>1. CASE i = 1
      BY <2>1, <1>5, <1>8, Zenon
    <2>2. CASE i # 1
      <3>1. i - 1 \in 1..Len(steps) /\ calls[i] = record(i - 1)
        BY <1>7, <2>2, Zenon
      <3>2. calls[i].arg = LedgerEvent(t, Len(history[t]) + (i - 1), steps[i - 1])
        BY <3>1, <1>1, <1>8
      <3> QED BY <3>1, <3>2, <1>8
    <2> QED BY <2>1, <2>2, Zenon
  <1>10. ASSUME NEW i \in DOMAIN calls, NEW j \in DOMAIN calls, i < j
         PROVE  MayFollow(calls[i], calls[j])
    <2>1. j # 1 /\ j - 1 \in 1..Len(steps) /\ calls[j] = record(j - 1)
      BY <1>1, <1>5, <1>7, <1>10
    <2>2. CASE i = 1
      BY <2>1, <2>2, <1>5, <1>8, Zenon DEF MayFollow
    <2>3. CASE i # 1
      <3>1. i - 1 \in 1..Len(steps) /\ calls[i] = record(i - 1)
        BY <1>7, <2>3, Zenon
      <3>2. i - 1 < j - 1
        BY <1>1, <1>5, <1>10
      <3> QED BY <3>1, <3>2, <2>1, <1>8 DEF MayFollow
    <2> QED BY <2>2, <2>3, Zenon
  <1>11. ASSUME NEW n \in 1..Len(steps)
         PROVE  \E i \in DOMAIN calls :
                   calls[i].fn = "RecordEvent" /\ calls[i].arg.seq = Len(history[t]) + n
    <2>1. n + 1 \in DOMAIN calls /\ calls[n + 1] = record(n)
      BY <1>6, Zenon
    <2>2. calls[n + 1].fn = "RecordEvent" /\ calls[n + 1].arg.seq = Len(history[t]) + n
      BY <2>1, <1>1, <1>8
    <2> QED BY <2>1, <2>2, Zenon
  <1>12. \E i \in DOMAIN calls : calls[i].fn = "CreateTransaction"
    BY <1>1, <1>5, <1>8
  <1>13. IsBatch(t, steps, calls)
    BY <1>9, <1>10, <1>11, <1>12, ZenonT(40) DEF IsBatch
  <1> QED BY <1>4, <1>13, Zenon

\* So is what is queued for one more step, alone or with the contract's Approve.
LEMMA StepBatch ==
    ASSUME OfficeInv, NEW t \in TxnIds, NEW step \in Steps, row[t] # None,
           Len(history[t]) <= 3, NEW extra,
           \/ extra = <<>>
           \/ \E c \in DecisionCall : /\ extra = <<c>> /\ c.arg.txn = t
                                      /\ IsDecision(c.arg)'
                                      /\ \A d \in decisions : d.txn # t,
           NEW calls, calls = EventCalls(t, <<step>>) \o extra
    PROVE  calls \in Seq(Calls) /\ IsBatch(t, <<step>>, calls)
  <1> DEFINE record == Call("RecordEvent", LedgerEvent(t, Len(history[t]) + 1, step))
  <1>1. Len(history[t]) \in Nat /\ <<step>> \in Seq(Steps) /\ Len(<<step>>) = 1 /\ <<step>>[1] = step
    BY SeqLen DEF OfficeInv, OfficeTypes
  <1>2. /\ EventCalls(t, <<step>>) \in Seq(Calls) /\ Len(EventCalls(t, <<step>>)) = 1
        /\ EventCalls(t, <<step>>)[1] = record
    <2>1. Len(history[t]) + Len(<<step>>) <= 4 /\ 1 \in 1..Len(<<step>>)
      BY <1>1
    <2>2. /\ EventCalls(t, <<step>>) \in Seq(Calls)
          /\ Len(EventCalls(t, <<step>>)) = Len(<<step>>)
          /\ \A i \in 1..Len(<<step>>) : EventCalls(t, <<step>>)[i] =
                Call("RecordEvent", LedgerEvent(t, Len(history[t]) + i, <<step>>[i]))
      BY <2>1, <1>1, EventCallsFacts, Zenon DEF OfficeInv
    <2> QED BY <2>1, <2>2, <1>1, Zenon
  <1>3. /\ record.fn = "RecordEvent" /\ record.arg = LedgerEvent(t, Len(history[t]) + 1, step)
        /\ record.arg.txn = t /\ record.arg.seq = Len(history[t]) + 1
    BY Zenon DEF Call, LedgerEvent
  <1> HIDE DEF record
  <1>4. ASSUME NEW k \in {1, 2}, calls \in Seq(Calls), DOMAIN calls = 1..k, calls[1] = record,
               k = 2 => /\ calls[2].fn = "Approve" /\ calls[2].arg.txn = t
                        /\ IsDecision(calls[2].arg)'
                        /\ \A d \in decisions : d.txn # t
        PROVE  IsBatch(t, <<step>>, calls)
    <2>1. \A i \in DOMAIN calls : i = 1 \/ (i = 2 /\ k = 2)
      BY <1>4
    <2>2. ASSUME NEW i \in DOMAIN calls, NEW j \in DOMAIN calls, i < j
          PROVE  MayFollow(calls[i], calls[j])
      <3>1. i = 1 /\ j = 2 /\ k = 2
        BY <2>1, <2>2
      <3> QED BY <3>1, <1>3, <1>4, Zenon DEF MayFollow
    <2>3. ASSUME NEW i \in DOMAIN calls
          PROVE  /\ calls[i].arg.txn = t
                 /\ calls[i].fn # "CreateTransaction"
                 /\ calls[i].fn = "RecordEvent" =>
                       calls[i].arg = LedgerEvent(t, Len(history[t]) + 1, <<step>>[1])
                 /\ calls[i].fn = "Approve" =>
                       IsDecision(calls[i].arg)' /\ \A d \in decisions : d.txn # t
      BY <2>1, <1>1, <1>3, <1>4, Zenon
    <2>4. 1 \in DOMAIN calls /\ calls[1].fn = "RecordEvent" /\ calls[1].arg.seq = Len(history[t]) + 1
      BY <1>3, <1>4
    <2>5. 1..Len(<<step>>) = {1}
      BY <1>1
    <2> QED BY <2>2, <2>3, <2>4, <2>5, Zenon DEF IsBatch
  <1>5. CASE extra = <<>>
    <2>1. calls \in Seq(Calls) /\ Len(calls) = 1 /\ calls[1] = record
      BY <1>2, <1>5, SeqConcatEmpty, Zenon
    <2>2. DOMAIN calls = 1..1
      BY <2>1, SeqLen, Zenon
    <2> QED BY <2>1, <2>2, <1>4
  <1>6. CASE extra # <<>>
    <2>1. PICK c \in DecisionCall : /\ extra = <<c>> /\ c.arg.txn = t
                                    /\ IsDecision(c.arg)'
                                    /\ \A d \in decisions : d.txn # t
      BY <1>6, Zenon
    <2>2. c \in Calls /\ c.fn = "Approve" /\ extra \in Seq(Calls) /\ Len(extra) = 1 /\ extra[1] = c
      BY <2>1 DEF Calls, DecisionCall
    <2>3. calls \in Seq(Calls) /\ Len(calls) = 2 /\ calls[1] = record /\ calls[2] = c
      BY <1>2, <2>2, SeqConcat
    <2>4. DOMAIN calls = 1..2
      BY <2>3, SeqLen, Zenon
    <2> QED BY <2>1, <2>2, <2>3, <2>4, <1>4, Zenon
  <1> QED BY <1>5, <1>6, Zenon

-----------------------------------------------------------------------------
(* Handlers *)

\* What is left to show of a handler, given its batch of calls.
LEMMA HandlerInv ==
    ASSUME OfficeInv, NEW t \in TxnIds, NEW steps \in Seq(Steps), NEW calls \in Seq(Calls),
           Handled(t, steps, calls), IsBatch(t, steps, calls),
           OfficeTypes', HistoryInv', DecisionInv'
    PROVE  OfficeInv'
  BY HandlerLedger, HandlerQueued, HandlerOrder, HandlerMissing, Zenon DEF OfficeInv

\* The first events of a transaction, and the status they lead to.
IsOpening(workflow, steps, status) ==
    /\ workflow \in {"office", "archive"} /\ status \in Statuses
    /\ status = StatusAfter(steps, "DRAFT")
    /\ 1 <= Len(steps) /\ Len(steps) <= 4
    /\ steps[1].new = "" /\ steps[1].type # "SUBMITTED"
    /\ \A n \in 2..Len(steps) : steps[n].new \in
          officeTransitions(IF n - 1 <= 1 THEN "DRAFT" ELSE steps[n - 1].new)
    /\ status = IF Len(steps) <= 1 THEN "DRAFT" ELSE steps[Len(steps)].new
    /\ \/ status = "DRAFT" /\ Len(steps) = 1
       \/ status = "ENDORSED" /\ Len(steps) = 3 /\ workflow = "archive"

\* A transaction is created with its first events.
LEMMA NewTransactionInv ==
    ASSUME OfficeInv, NEW t \in TxnIds, NEW u \in Users, NEW workflow,
           NEW d \in Documents \cup {None}, NEW steps \in Seq(Steps), NEW status,
           NewTransaction(t, u, workflow, d, steps), IsOpening(workflow, steps, status)
    PROVE  OfficeInv'
  <1> DEFINE create == Call("CreateTransaction", [txn |-> t, user |-> u])
             calls == <<create>> \o EventCalls(t, steps)
             new == [createdBy |-> u, workflow |-> workflow, status |-> status, doc |-> d]
  <1>1. row[t] = None /\ history[t] = <<>> /\ queue \in Seq(Calls)
    BY Zenon DEF NewTransaction, OfficeInv, HistoryInv, OfficeTypes
  <1>2. new \in OfficeRow /\ new # None
    <2>1. workflow \in {"office", "archive"} /\ status \in Statuses
      BY Zenon DEF IsOpening
    <2>2. new \in OfficeRow
      BY <2>1, Zenon DEF OfficeRow
    <2> QED BY <2>2, RowAssumption, Zenon
  <1>3. row' = [row EXCEPT ![t] = new] /\ row'[t] = new
    BY Zenon DEF IsOpening, NewTransaction, OfficeInv, OfficeTypes
  <1>4. calls \in Seq(Calls) /\ IsBatch(t, steps, calls)
    <2>1. row'[t].createdBy = u
      BY <1>3
    <2>2. Len(steps) <= 4
      BY Zenon DEF IsOpening
    <2> HIDE DEF new
    <2> QED BY <2>1, <2>2, <1>1, NewBatch, Zenon
  <1>5. queue' = queue \o calls
    <2>1. <<create>> \in Seq(Calls)
      BY DEF create, Call, Calls, CreateCall
    <2>2. EventCalls(t, steps) \in Seq(Calls)
      <3>1. Len(history[t]) + Len(steps) <= 4
        <4>1. Len(history[t]) = 0 /\ Len(steps) \in Nat /\ Len(steps) <= 4
          BY <1>1, SeqEmpty, SeqLen, Zenon DEF IsOpening
        <4> QED BY <4>1
      <3> QED BY <3>1, EventCallsFacts, Zenon DEF OfficeInv
    <2>3. queue' = (queue \o <<create>>) \o EventCalls(t, steps)
      BY Zenon DEF NewTransaction
    <2> HIDE DEF create
    <2>4. \A r \in Seq(Calls) : (queue \o <<create>>) \o r = queue \o (<<create>> \o r)
      BY <2>1, <1>1, SeqConcatAssoc
    <2> QED BY <2>2, <2>3, <2>4, Zenon
  <1>6. history' = [history EXCEPT ![t] = @ \o steps] /\ history'[t] = steps
    <2>1. history[t] \o steps = steps
      BY <1>1, SeqConcatEmpty, Zenon
    <2>2. history' = [history EXCEPT ![t] = steps]
      BY Zenon DEF NewTransaction
    <2> QED BY <2>1, <2>2, Zenon DEF OfficeInv, OfficeTypes
  <1>7. UNCHANGED <<contractVars, decisions, ttd, requests>>
    BY Zenon DEF NewTransaction
  <1> HIDE DEF calls, new
  <1>8. Handled(t, steps, calls)
    BY <1>1, <1>2, <1>3, <1>5, <1>6, <1>7, Zenon DEF Handled, OfficeInv, OfficeTypes
  <1>9. OfficeTypes'
    <2>1. queue' \in Seq(Calls)
      BY <1>1, <1>4, <1>5, SeqConcat, Zenon
    <2>2. history' \in [TxnIds -> Seq(Steps)]
      BY <1>6, Zenon DEF OfficeInv, OfficeTypes
    <2>3. row' \in [TxnIds -> OfficeRow \cup {None}]
      BY <1>2, <1>3, Zenon DEF OfficeInv, OfficeTypes
    <2> QED BY <2>1, <2>2, <2>3, <1>7, Zenon DEF OfficeInv, OfficeTypes, contractVars
  <1>10. HistoryInv'
    <2> SUFFICES ASSUME NEW s \in TxnIds
                 PROVE  HistoryInv!(s)'
      BY Zenon DEF HistoryInv
    <2>1. CASE s # t
      <3>1. row'[s] = row[s] /\ history'[s] = history[s]
        BY <2>1, <1>3, <1>6, Zenon DEF OfficeInv, OfficeTypes
      <3> QED BY <3>1, ZenonT(40) DEF OfficeInv, HistoryInv, StatusAt
    <2>2. CASE s = t
      <3>1. row'[t].status = status /\ row'[t].workflow = workflow
        BY <1>3 DEF new
      <3> QED BY <2>2, <3>1, <1>2, <1>3, <1>6, Zenon DEF StatusAt, IsOpening
    <2> QED BY <2>1, <2>2, ZenonT(30)
  <1>11. DecisionInv'
    <2>1. \A e \in decisions : row[e.txn] # None /\ row'[e.txn] = row[e.txn]
      BY <1>1, <1>3, Zenon DEF OfficeInv, DecisionInv, OfficeTypes
    <2>2. ASSUME NEW s \in TxnIds, row'[s] # None, row'[s].workflow = "office",
                 row'[s].status \in {"ENDORSED", "COMMITTED", "REJECTED"}
          PROVE  \E e \in decisions : e.txn = s
      <3>1. s # t
        <4>1. row'[t].status = status /\ row'[t].workflow = workflow
          BY <1>3 DEF new
        <4> QED BY <4>1, <2>2, ZenonT(30) DEF IsOpening
      <3>2. row'[s] = row[s]
        BY <3>1, <1>3, Zenon DEF OfficeInv, OfficeTypes
      <3> QED BY <3>2, <2>2, Zenon DEF OfficeInv, DecisionInv, DecidedOnceBySomeoneElse
    <2> QED BY <2>1, <2>2, <1>7 DEF OfficeInv, DecisionInv, DecidedOnceBySomeoneElse
  <1> QED BY <1>4, <1>8, <1>9, <1>10, <1>11, HandlerInv, Zenon

\* officeCreateTransaction and archiveFinalize create one.
LEMMA CreateInv == OfficeInv /\ Create => OfficeInv'
  <1> SUFFICES ASSUME OfficeInv, Create PROVE OfficeInv'
    BY Zenon
  <1>1. ASSUME NEW t \in TxnIds, NEW u \in Users, NEW d \in Documents,
               officeCreateTransaction(t, u, d)
        PROVE  OfficeInv'
    <2> DEFINE first == Step("CREATED", u, "")
               steps == <<first>>
    <2>1. first \in Steps /\ first.new = "" /\ first.type = "CREATED"
      BY Zenon DEF Step, Steps, StepTypes, Actors
    <2>2. NewTransaction(t, u, "office", d, steps)
      BY <1>1, Zenon DEF officeCreateTransaction
    <2> HIDE DEF first
    <2>3. steps \in Seq(Steps) /\ Len(steps) = 1 /\ steps[1] = first
      <3>1. first \in Steps
        BY <2>1, Zenon
      <3> QED BY <3>1
    <2> HIDE DEF steps
    <2>4. DOMAIN steps = 1..1
      BY <2>3, SeqLen, Zenon
    <2>5. StatusAfter(steps, "DRAFT") = "DRAFT"
      <3>1. \A i \in DOMAIN steps : steps[i] = first
        BY <2>3, <2>4
      <3>2. {i \in DOMAIN steps : steps[i].new # ""} = {}
        BY <2>1, <3>1, Zenon
      <3> QED BY <3>2, Zenon DEF StatusAfter
    <2>6. "DRAFT" \in Statuses
      BY Zenon DEF Statuses
    <2>7. \A n \in 2..Len(steps) : FALSE
      BY <2>3
    <2>8. steps[1].new = "" /\ steps[1].type # "SUBMITTED"
      BY <2>1, <2>3, Zenon
    <2>9. "DRAFT" = (IF Len(steps) <= 1 THEN "DRAFT" ELSE steps[Len(steps)].new)
      BY <2>3
    <2>10. 1 <= Len(steps) /\ Len(steps) <= 4
      BY <2>3
    <2>11. IsOpening("office", steps, "DRAFT")
      BY <2>3, <2>5, <2>6, <2>7, <2>8, <2>9, <2>10, Zenon DEF IsOpening
    <2> QED BY <2>2, <2>3, <2>11, NewTransactionInv, Zenon
  <1>2. ASSUME NEW t \in TxnIds, NEW u \in Users, archiveFinalize(t, u)
        PROVE  OfficeInv'
    <2> DEFINE x == Step("UPLOAD_RECEIVED", u, "")
               y == Step("INTEGRITY_VERIFIED", "system", "VERIFIED")
               z == Step("ARCHIVED", "system", "ENDORSED")
               steps == <<x, y, z>>
    <2>1. /\ x \in Steps /\ x.new = "" /\ x.type = "UPLOAD_RECEIVED"
          /\ y \in Steps /\ y.new = "VERIFIED"
          /\ z \in Steps /\ z.new = "ENDORSED"
      BY Zenon DEF Step, Steps, StepTypes, Actors, Statuses
    <2>4. NewTransaction(t, u, "archive", None, steps)
      BY <1>2, Zenon DEF archiveFinalize
    <2> HIDE DEF x, y, z
    <2>3. /\ steps \in Seq(Steps) /\ Len(steps) = 3 /\ DOMAIN steps = 1..3
          /\ steps[1] = x /\ steps[2] = y /\ steps[3] = z
      <3>1. x \in Steps /\ y \in Steps /\ z \in Steps
        BY <2>1, Zenon
      <3> QED BY <3>1
    <2> HIDE DEF steps
    <2>2. /\ steps[1].new = "" /\ steps[1].type = "UPLOAD_RECEIVED"
          /\ steps[2].new = "VERIFIED" /\ steps[3].new = "ENDORSED"
      BY <2>1, <2>3, Zenon
    <2>5. {i \in DOMAIN steps : steps[i].new # ""} = {2, 3}
      <3>1. DOMAIN steps = {1, 2, 3}
        BY <2>3
      <3> QED BY <3>1, <2>2, Zenon
    <2>6. (CHOOSE i \in {2, 3} : \A j \in {2, 3} : j <= i) = 3
      OBVIOUS
    <2>7. StatusAfter(steps, "DRAFT") = "ENDORSED"
      BY <2>2, <2>5, <2>6, ZenonT(40) DEF StatusAfter
    <2>8. \A n \in 2..Len(steps) : steps[n].new \in
             officeTransitions(IF n - 1 <= 1 THEN "DRAFT" ELSE steps[n - 1].new)
      <3> SUFFICES ASSUME NEW n \in 2..Len(steps)
                   PROVE  steps[n].new \in
                            officeTransitions(IF n - 1 <= 1 THEN "DRAFT" ELSE steps[n - 1].new)
        BY Zenon
      <3>1. CASE n = 2
        <4>1. (IF n - 1 <= 1 THEN "DRAFT" ELSE steps[n - 1].new) = "DRAFT"
          BY <3>1
        <4>2. "VERIFIED" \in officeTransitions("DRAFT")
          BY Zenon DEF officeTransitions
        <4> QED BY <4>1, <4>2, <3>1, <2>2, Zenon
      <3>2. CASE n = 3
        <4>1. (IF n - 1 <= 1 THEN "DRAFT" ELSE steps[n - 1].new) = "VERIFIED"
          <5>1. n - 1 = 2
            BY <3>2
          <5>2. ~ (n - 1 <= 1)
            BY <5>1
          <5>3. steps[n - 1] = steps[2]
            BY <5>1, Zenon
          <5> QED BY <5>2, <5>3, <2>2, Zenon
        <4>2. "ENDORSED" \in officeTransitions("VERIFIED")
          BY Zenon DEF officeTransitions
        <4> QED BY <4>1, <4>2, <3>2, <2>2, Zenon
      <3> QED BY <3>1, <3>2, <2>3
    <2>9. IsOpening("archive", steps, "ENDORSED")
      <3>1. "ENDORSED" \in Statuses
        BY Zenon DEF Statuses
      <3>2. "ENDORSED" = (IF Len(steps) <= 1 THEN "DRAFT" ELSE steps[Len(steps)].new)
        <4>1. ~ (Len(steps) <= 1)
          BY <2>3
        <4>2. steps[Len(steps)].new = "ENDORSED"
          BY <2>2, <2>3, Zenon
        <4> QED BY <4>1, <4>2, Zenon
      <3>3. 1 <= Len(steps) /\ Len(steps) <= 4
        BY <2>3
      <3> QED BY <3>1, <3>2, <3>3, <2>2, <2>3, <2>7, <2>8, Zenon DEF IsOpening
    <2> QED BY <2>3, <2>4, <2>9, NewTransactionInv, Zenon
  <1> QED BY <1>1, <1>2, Zenon DEF Create

-----------------------------------------------------------------------------
-----------------------------------------------------------------------------
(* Handlers on an existing transaction *)

\* A step of an existing office request: one event, a status the table allows,
\* and a queue with that event and perhaps the contract's Approve.
Moves(t, u, type, new, extra) ==
    /\ row[t].workflow = "office"
    /\ row[t].status \in {"DRAFT", "VERIFIED", "ENDORSED"}
    /\ new \in officeTransitions(row[t].status)
    /\ type \in StepTypes
    /\ new = "VERIFIED" => type = "SUBMITTED"
    /\ row' = [row EXCEPT ![t].status = new]
    /\ history' = [history EXCEPT ![t] = @ \o <<Step(type, u, new)>>]
    /\ queue' = queue \o EventCalls(t, <<Step(type, u, new)>>) \o extra
    /\ UNCHANGED contractVars

\* The table leads from statuses to statuses.
LEMMA TableStatuses == \A s : \A new \in officeTransitions(s) : new \in Statuses
  BY Zenon DEF officeTransitions, Statuses

\* Where a request can go from the statuses in which handlers touch it.
LEMMA TableSteps ==
    ASSUME NEW s, s \in {"DRAFT", "VERIFIED", "ENDORSED"}, NEW new \in officeTransitions(s)
    PROVE  /\ s = "DRAFT" => new \in {"VERIFIED", "CANCELLED"}
           /\ s = "VERIFIED" => new \in {"ENDORSED", "REJECTED", "CANCELLED"}
           /\ s = "ENDORSED" => new \in {"COMMITTED", "REJECTED"}
  BY Zenon DEF officeTransitions

\* Such a step keeps the invariant if the decisions stay in order.
LEMMA MovesInv ==
    ASSUME OfficeInv, NEW t \in TxnIds, NEW u \in Users, NEW type, NEW new, NEW extra,
           row[t] # None, Moves(t, u, type, new, extra),
           \/ extra = <<>>
           \/ \E c \in DecisionCall : /\ extra = <<c>> /\ c.arg.txn = t
                                      /\ IsDecision(c.arg)'
                                      /\ \A d \in decisions : d.txn # t,
           decisions \subseteq decisions', DecisionInv',
           decisions' \subseteq [txn : TxnIds, approver : Users, decision : Decisions,
                                 sig : Signatures \cup {None}],
           ttd' = ttd, requests' \subseteq requests
    PROVE  OfficeInv'
  <1> DEFINE step == Step(type, u, new)
             calls == EventCalls(t, <<step>>) \o extra
             k == Len(history[t])
  <1>1. row[t] \in OfficeRow /\ queue \in Seq(Calls) /\ history[t] \in Seq(Steps) /\ k \in Nat
    BY SeqLen, Zenon DEF OfficeInv, OfficeTypes
  <1>2. /\ 1 <= k /\ k <= 3
        /\ row[t].status = "DRAFT" => k = 1
        /\ row[t].status = "VERIFIED" => k = 2
        /\ row[t].status = "ENDORSED" => k = 3
        /\ row[t].status = StatusAt(t, k)
    <2>1. /\ 1 <= k
          /\ row[t].status = "DRAFT" => k = 1
          /\ row[t].status = "VERIFIED" => k = 2
          /\ row[t].status = "ENDORSED" => k = 3
          /\ row[t].status = StatusAt(t, k)
      BY Zenon DEF OfficeInv, HistoryInv
    <2>2. row[t].status \in {"DRAFT", "VERIFIED", "ENDORSED"}
      BY Zenon DEF Moves
    <2> HIDE DEF k
    <2> QED BY <2>1, <2>2
  <1>3. new \in Statuses
    BY TableStatuses, Zenon DEF Moves
  <1>4. step \in Steps /\ step.new = new /\ step.type = type
    BY <1>3, Zenon DEF Step, Steps, Actors, Moves
  <1>5. /\ row'[t] \in OfficeRow /\ row'[t] # None /\ row'[t].status = new
        /\ row'[t].createdBy = row[t].createdBy /\ row'[t].workflow = row[t].workflow
    <2>1. row'[t] = [row[t] EXCEPT !.status = new]
      BY Zenon DEF Moves, OfficeInv, OfficeTypes
    <2>2. row'[t] \in OfficeRow /\ row'[t].status = new
          /\ row'[t].createdBy = row[t].createdBy /\ row'[t].workflow = row[t].workflow
      BY <2>1, <1>1, <1>3, Zenon DEF OfficeRow
    <2> QED BY <2>2, RowAssumption, Zenon
  <1>6. \A s \in TxnIds : s # t => row'[s] = row[s]
    BY Zenon DEF Moves, OfficeInv, OfficeTypes
  <1> HIDE DEF step
  <1>7. calls \in Seq(Calls) /\ IsBatch(t, <<step>>, calls)
    BY <1>2, <1>4, StepBatch, Zenon
  <1>8. <<step>> \in Seq(Steps) /\ Len(<<step>>) = 1 /\ <<step>>[1] = step
    <2>1. step \in Steps
      BY <1>4, Zenon
    <2> QED BY <2>1
  <1>9. queue' = queue \o calls
    <2>1. EventCalls(t, <<step>>) \in Seq(Calls)
      <3>1. Len(history[t]) + Len(<<step>>) <= 4
        BY <1>1, <1>2, <1>8
      <3> QED BY <3>1, <1>8, EventCallsFacts, Zenon DEF OfficeInv
    <2>2. extra \in Seq(Calls)
      <3>1. CASE extra = <<>>
        BY <3>1, SeqEmpty, Zenon
      <3>2. ASSUME NEW c \in DecisionCall, extra = <<c>> PROVE extra \in Seq(Calls)
        <4>1. c \in Calls
          BY Zenon DEF Calls
        <4> QED BY <4>1, <3>2
      <3> QED BY <3>1, <3>2, Zenon
    <2>3. queue' = (queue \o EventCalls(t, <<step>>)) \o extra
      BY Zenon DEF Moves, step
    <2>4. ASSUME NEW r \in Seq(Calls) PROVE (queue \o r) \o extra = queue \o (r \o extra)
      <3>1. queue \in Seq(Calls)
        BY <1>1, Zenon
      <3> QED BY ONLY <2>2, <3>1, r \in Seq(Calls), SeqConcatAssoc
    <2> QED BY <2>1, <2>3, <2>4, Zenon
  <1> HIDE DEF calls
  <1>10. history' = [history EXCEPT ![t] = @ \o <<step>>]
    BY Zenon DEF Moves, step
  <1>11. Handled(t, <<step>>, calls)
    BY <1>5, <1>6, <1>9, <1>10, Zenon DEF Handled, Moves
  <1>12. /\ history'[t] \in Seq(Steps) /\ Len(history'[t]) = k + 1
         /\ \A n \in 1..k : history'[t][n] = history[t][n]
         /\ history'[t][k + 1] = step
         /\ \A s \in TxnIds : s # t => history'[s] = history[s]
    <2>1. 1 \in 1..Len(<<step>>)
      BY <1>8
    <2>2. /\ history'[t] \in Seq(Steps)
          /\ Len(history'[t]) = Len(history[t]) + Len(<<step>>)
          /\ \A n \in 1..Len(history[t]) : history'[t][n] = history[t][n]
          /\ \A n \in 1..Len(<<step>>) : history'[t][Len(history[t]) + n] = <<step>>[n]
          /\ \A s \in TxnIds : s # t => history'[s] = history[s]
      BY <1>8, <1>10, LongerHistory, Zenon DEF OfficeInv
    <2>3. history'[t][Len(history[t]) + 1] = <<step>>[1]
      BY <2>1, <2>2, Zenon
    <2> QED BY <2>2, <2>3, <1>8, Zenon
  <1>13. OfficeTypes'
    <2>1. queue' \in Seq(Calls)
      BY <1>1, <1>7, <1>9, SeqConcat, Zenon
    <2>2. history' \in [TxnIds -> Seq(Steps)]
      BY <1>10, <1>12, Zenon DEF OfficeInv, OfficeTypes
    <2>3. row' \in [TxnIds -> OfficeRow \cup {None}]
      BY <1>5, Zenon DEF OfficeInv, OfficeTypes, Moves
    <2> QED BY <2>1, <2>2, <2>3, Zenon DEF OfficeInv, OfficeTypes, contractVars, Moves
  <1>14. HistoryInv'
    <2> SUFFICES ASSUME NEW s \in TxnIds
                 PROVE  HistoryInv!(s)'
      BY Zenon DEF HistoryInv
    <2>1. CASE s # t
      <3>1. row'[s] = row[s] /\ history'[s] = history[s]
        BY <2>1, <1>6, <1>12, Zenon
      <3> QED BY <3>1, ZenonT(40) DEF OfficeInv, HistoryInv, StatusAt
    <2>2. CASE s = t
      <3>1. new \in officeTransitions(StatusAt(t, k))
        BY <1>2, Zenon DEF Moves
      <3>2. ASSUME NEW n \in 2..Len(history'[t])
            PROVE  history'[t][n].new \in officeTransitions(StatusAt(t, n - 1)')
        <4>1. n - 1 \in 1..k
          BY <1>1, <1>12
        <4>2. StatusAt(t, n - 1)' = StatusAt(t, n - 1)
          BY <4>1, <1>12, Zenon DEF StatusAt
        <4>3. CASE n = k + 1
          <5>1. n - 1 = k
            BY <4>3, <1>1
          <5> QED BY <5>1, <4>2, <4>3, <3>1, <1>4, <1>12, Zenon
        <4>4. CASE n # k + 1
          <5>1. n \in 2..k
            BY <4>4, <1>1, <1>12
          <5>2. history[t][n].new \in officeTransitions(StatusAt(t, n - 1))
            BY <5>1, Zenon DEF OfficeInv, HistoryInv
          <5>3. history'[t][n] = history[t][n]
            BY <5>1, <1>1, <1>12
          <5> QED BY <5>2, <5>3, <4>2, Zenon
        <4> QED BY <4>3, <4>4, Zenon
      <3>3. StatusAt(t, Len(history[t]))' = new
        <4>1. ~ (k + 1 <= 1)
          BY <1>1, <1>2
        <4>2. ~ (Len(history'[t]) <= 1)
          BY <4>1, <1>12, Zenon
        <4>3. history'[t][Len(history'[t])].new = new
          BY <1>4, <1>12, Zenon
        <4> QED BY <4>2, <4>3, Zenon DEF StatusAt
      <3>4. history'[t][1].new = "" /\ history'[t][1].type # "SUBMITTED"
        <4>1. history'[t][1] = history[t][1]
          BY <1>1, <1>2, <1>12
        <4> QED BY <4>1, Zenon DEF OfficeInv, HistoryInv
      <3>5. /\ new = "DRAFT" => k + 1 = 1
            /\ new = "VERIFIED" => k + 1 = 2 /\ step.type = "SUBMITTED"
            /\ new = "ENDORSED" => k + 1 = 3
        <4>1. /\ row[t].status = "DRAFT" => new \in {"VERIFIED", "CANCELLED"}
              /\ row[t].status = "VERIFIED" => new \in {"ENDORSED", "REJECTED", "CANCELLED"}
              /\ row[t].status = "ENDORSED" => new \in {"COMMITTED", "REJECTED"}
          BY TableSteps, Zenon DEF Moves
        <4>2. row[t].status \in {"DRAFT", "VERIFIED", "ENDORSED"}
              /\ (new = "VERIFIED" => step.type = "SUBMITTED")
          BY <1>4, Zenon DEF Moves
        <4> HIDE DEF k
        <4>3. CASE row[t].status = "DRAFT"
          BY <4>1, <4>2, <4>3, <1>2
        <4>4. CASE row[t].status = "VERIFIED"
          BY <4>1, <4>4, <1>2
        <4>5. CASE row[t].status = "ENDORSED"
          BY <4>1, <4>5, <1>2, Zenon
        <4> QED BY <4>2, <4>3, <4>4, <4>5, Zenon
      <3>6. 1 <= Len(history'[t]) /\ Len(history'[t]) <= 4
        BY <1>1, <1>2, <1>12
      <3>7. /\ row'[t].status = "DRAFT" => Len(history'[t]) = 1
            /\ row'[t].status = "VERIFIED" => Len(history'[t]) = 2
            /\ row'[t].status = "ENDORSED" => Len(history'[t]) = 3
            /\ row'[t].status = "VERIFIED" => history'[t][2].type = "SUBMITTED"
        <4> HIDE DEF k
        <4> QED BY <3>5, <1>5, <1>12, Zenon
      <3>8. row'[t].status = StatusAt(t, Len(history[t]))'
        BY <3>3, <1>5, Zenon
      <3>9. row'[t] # None
        BY <1>5, Zenon
      <3> QED BY <2>2, <3>2, <3>4, <3>6, <3>7, <3>8, <3>9, Zenon
    <2> QED BY <2>1, <2>2, Zenon
  <1> QED BY <1>7, <1>8, <1>11, <1>13, <1>14, HandlerInv, Zenon

\* Submitting, completing and cancelling decide nothing.
LEMMA SimpleStepInv ==
    ASSUME OfficeInv, NEW u \in Users, NEW t \in TxnIds,
           officeSubmit(u, t) \/ officeComplete(u, t) \/ officeCancel(u, t)
    PROVE  OfficeInv'
  <1>1. PICK type, new :
           /\ <<type, new>> \in {<<"SUBMITTED", "VERIFIED">>, <<"COMPLETED", "COMMITTED">>,
                                 <<"CANCELLED", "CANCELLED">>}
           /\ row[t] # None /\ row[t].workflow = "office"
           /\ row[t].status \in {"DRAFT", "VERIFIED", "ENDORSED"}
           /\ new = "COMMITTED" => row[t].status = "ENDORSED"
           /\ new # "COMMITTED" => row[t].status # "ENDORSED"
           /\ simpleStep(u, t, type, new)
    BY DEF officeSubmit, officeComplete, officeCancel, Found, CanSubmit, CanComplete, CanCancel
  <1>2. type \in StepTypes /\ (new = "VERIFIED" => type = "SUBMITTED")
        /\ new \in {"VERIFIED", "COMMITTED", "CANCELLED"}
    BY <1>1, Zenon DEF StepTypes
  <1>3. Moves(t, u, type, new, <<>>)
    BY <1>1, <1>2, Zenon DEF Moves, simpleStep, canTransition, appendEvents
  <1>4. UNCHANGED <<decisions, ttd, requests>>
    BY <1>1, Zenon DEF simpleStep
  <1>5. DecisionInv'
    <2>1. /\ \A s \in TxnIds : s # t => row'[s] = row[s]
          /\ row'[t] # None
          /\ row'[t].createdBy = row[t].createdBy /\ row'[t].workflow = row[t].workflow
          /\ row'[t].doc = row[t].doc /\ row'[t].status = new
      <3>1. row'[t] = [row[t] EXCEPT !.status = new] /\ row[t] \in OfficeRow
            /\ \A s \in TxnIds : s # t => row'[s] = row[s]
        BY <1>1, Zenon DEF simpleStep, OfficeInv, OfficeTypes
      <3>2. new \in Statuses
        BY <1>2, Zenon DEF Statuses
      <3>3. /\ row'[t] \in OfficeRow
            /\ row'[t].createdBy = row[t].createdBy /\ row'[t].workflow = row[t].workflow
            /\ row'[t].doc = row[t].doc /\ row'[t].status = new
        BY <3>1, <3>2, Zenon DEF OfficeRow
      <3> QED BY <3>1, <3>3, RowAssumption, Zenon
    <2>2. \A d \in decisions : d.txn = t => /\ d.decision # "reject"
                                            /\ new = "COMMITTED"
      BY <1>1, Zenon DEF OfficeInv, DecisionInv, DecidedOnceBySomeoneElse
    <2>3. new = "COMMITTED" => \E d \in decisions : d.txn = t
      BY <1>1, ZenonT(40) DEF OfficeInv, DecisionInv, DecidedOnceBySomeoneElse
    <2>4. DecidedOnceBySomeoneElse'
      BY <2>1, <2>2, <2>3, <1>2, <1>4 DEF OfficeInv, DecisionInv, DecidedOnceBySomeoneElse, OfficeTypes
    <2>5. \A d \in decisions' :
            /\ row'[d.txn] # None /\ row'[d.txn].workflow = "office"
            /\ row'[d.txn].status \in {"ENDORSED", "COMMITTED", "REJECTED"}
            /\ d.decision = "approve" => d.sig \in Signatures /\ ttd'[d.sig] # None
      BY <2>1, <2>2, <1>1, <1>4, Zenon DEF OfficeInv, DecisionInv, OfficeTypes
    <2> QED BY <2>4, <2>5, Zenon DEF DecisionInv
  <1> QED BY <1>1, <1>3, <1>4, <1>5, MovesInv, Zenon DEF OfficeInv, OfficeTypes

\* The event an approver decides on is the second one.
LEMMA SubmittedSecond ==
    ASSUME OfficeInv, NEW t \in TxnIds, row[t] # None, row[t].workflow = "office",
           row[t].status = "VERIFIED"
    PROVE  SubmittedSeq(t) = 2 /\ Len(history[t]) = 2 /\ history[t][2].type = "SUBMITTED"
  <1>1. Len(history[t]) = 2 /\ history[t][2].type = "SUBMITTED" /\ history[t][1].type # "SUBMITTED"
    BY Zenon DEF OfficeInv, HistoryInv
  <1>2. DOMAIN history[t] = {1, 2}
    <2>1. DOMAIN history[t] = 1..2
      BY <1>1, SeqLen, Zenon DEF OfficeInv, OfficeTypes
    <2> QED BY <2>1
  <1>3. \A n \in DOMAIN history[t] :
          /\ history[t][n].type = "SUBMITTED"
          /\ \A m \in DOMAIN history[t] : history[t][m].type = "SUBMITTED" => m <= n
          <=> n = 2
    BY <1>1, <1>2
  <1> QED BY <1>1, <1>2, <1>3, Zenon DEF SubmittedSeq

\* A decision: the row, the event, the approval row and the queue move together.
LEMMA DecideInv ==
    ASSUME OfficeInv, NEW q \in requests, NEW decision \in Decisions,
           NEW sig \in Signatures \cup {None}, NEW type, NEW new, NEW extra,
           CanApprove(q), Decide(q, decision, sig, type, new, extra),
           \/ /\ decision = "approve" /\ new = "ENDORSED" /\ type = "APPROVED_SIGNED"
              /\ extra = <<ApproveCall(q, "approve")>>
              /\ sig \in Signatures /\ verifyTTDApproval(q, sig)
           \/ /\ decision = "reject" /\ new = "REJECTED" /\ type = "REJECTED"
              /\ extra = <<>>
    PROVE  OfficeInv'
  <1> DEFINE t == q.txn
             made == [txn |-> t, approver |-> q.user, decision |-> decision, sig |-> sig]
  <1>1. t \in TxnIds /\ q.user \in Users
    BY Zenon DEF OfficeInv, OfficeTypes
  <1>2. /\ row[t] # None /\ row[t].workflow = "office" /\ row[t].status = "VERIFIED"
        /\ row[t].createdBy # q.user
    BY Zenon DEF CanApprove, Creator
  <1>3. \A d \in decisions : d.txn # t
    BY <1>2, Zenon DEF OfficeInv, DecisionInv
  <1>4. SubmittedSeq(t) = 2 /\ Len(history[t]) = 2 /\ history[t][2].type = "SUBMITTED"
    BY <1>1, <1>2, SubmittedSecond, Zenon
  <1>5. /\ decisions' = decisions \cup {made} /\ requests' = requests \ {q}
        /\ UNCHANGED <<contractVars, ttd>>
    BY Zenon DEF Decide, Answer
  <1>6. made \in [txn : TxnIds, approver : Users, decision : Decisions,
                  sig : Signatures \cup {None}]
    BY <1>1, Zenon
  <1>7. new \in officeTransitions("VERIFIED") /\ type \in StepTypes /\ new # "VERIFIED"
    BY Zenon DEF officeTransitions, StepTypes
  <1>8. Moves(t, q.user, type, new, extra)
    BY <1>2, <1>7, Zenon DEF Moves, Decide, appendEvents
  <1>9. /\ \A s \in TxnIds : s # t => row'[s] = row[s]
        /\ row'[t] # None
        /\ row'[t].createdBy = row[t].createdBy /\ row'[t].workflow = row[t].workflow
        /\ row'[t].doc = row[t].doc /\ row'[t].status = new
    <2>1. row'[t] = [row[t] EXCEPT !.status = new] /\ row[t] \in OfficeRow
          /\ \A s \in TxnIds : s # t => row'[s] = row[s]
      BY <1>1, <1>2, Zenon DEF Decide, OfficeInv, OfficeTypes
    <2>2. new \in Statuses
      BY <1>7, TableStatuses, Zenon
    <2>3. /\ row'[t] \in OfficeRow
          /\ row'[t].createdBy = row[t].createdBy /\ row'[t].workflow = row[t].workflow
          /\ row'[t].doc = row[t].doc /\ row'[t].status = new
      BY <2>1, <2>2, Zenon DEF OfficeRow
    <2> QED BY <2>1, <2>3, RowAssumption, Zenon
  <1> HIDE DEF t
  <1>10. /\ made.txn = t /\ made.approver = q.user /\ made.decision = decision /\ made.sig = sig
    BY Zenon
  <1> HIDE DEF made
  <1>11. DecisionInv'
    <2>1. \A d \in decisions : d.txn \in TxnIds /\ row'[d.txn] = row[d.txn]
      BY <1>3, <1>9, Zenon DEF OfficeInv, OfficeTypes
    <2>2. \A d, e \in decisions' : d.txn = e.txn => d = e
      BY <1>3, <1>5, <1>10, ZenonT(40) DEF OfficeInv, DecisionInv, DecidedOnceBySomeoneElse
    <2>3. /\ made.approver # row'[t].createdBy
          /\ decision = "reject" => row'[t].status = "REJECTED"
          /\ row'[t].status \in {"ENDORSED", "REJECTED"}
      BY <1>2, <1>9, <1>10, Zenon
    <2>4. ASSUME decision = "approve"
          PROVE  sig \in Signatures /\ ttd[sig] # None /\ ttd[sig].account = q.user
                 /\ ttd[sig].doc = row'[t].doc
      BY <2>4, <1>9, Zenon DEF verifyTTDApproval, t
    <2>5. ASSUME NEW d \in decisions'
          PROVE  /\ d.approver # row'[d.txn].createdBy
                 /\ d.decision = "reject" => row'[d.txn].status = "REJECTED"
                 /\ d.decision = "approve" =>
                       ttd'[d.sig].account = d.approver /\ ttd'[d.sig].doc = row'[d.txn].doc
                 /\ row'[d.txn] # None /\ row'[d.txn].workflow = "office"
                 /\ row'[d.txn].status \in {"ENDORSED", "COMMITTED", "REJECTED"}
                 /\ d.decision = "approve" => d.sig \in Signatures /\ ttd'[d.sig] # None
      <3>1. CASE d \in decisions
        BY <3>1, <2>1, <1>5 DEF OfficeInv, DecisionInv, DecidedOnceBySomeoneElse
      <3>2. CASE d = made
        BY <3>2, <2>3, <2>4, <1>2, <1>5, <1>9, <1>10, Zenon
      <3> QED BY <3>1, <3>2, <1>5, Zenon
    <2>6. ASSUME NEW s \in TxnIds, row'[s] # None, row'[s].workflow = "office",
                 row'[s].status \in {"ENDORSED", "COMMITTED", "REJECTED"}
          PROVE  \E d \in decisions' : d.txn = s
      <3>1. CASE s = t
        BY <3>1, <1>5, <1>10, Zenon
      <3>2. CASE s # t
        BY <3>2, <2>6, <1>5, <1>9, ZenonT(40) DEF OfficeInv, DecisionInv, DecidedOnceBySomeoneElse
      <3> QED BY <3>1, <3>2, Zenon
    <2> QED BY <2>2, <2>5, <2>6, Zenon DEF DecisionInv, DecidedOnceBySomeoneElse
  <1>12. ASSUME decision = "approve", extra = <<ApproveCall(q, "approve")>>
         PROVE  \E c \in DecisionCall : /\ extra = <<c>> /\ c.arg.txn = t
                                        /\ IsDecision(c.arg)'
                                        /\ \A d \in decisions : d.txn # t
    <2>1. PICK c \in DecisionCall :
             /\ c = ApproveCall(q, "approve")
             /\ c.arg.txn = t /\ c.arg.approver = q.user
             /\ c.arg.decision = "approve" /\ c.arg.seq = 2
      <3> DEFINE a == [txn |-> t, seq |-> 2, approver |-> q.user, decision |-> "approve"]
                 d == [fn |-> "Approve", arg |-> a]
      <3>1. 2 \in 1..MaxSequence
        BY ConstantsAssumption, PlaceAssumption
      <3>2. ApproveCall(q, "approve") = d
        BY <1>4, Zenon DEF ApproveCall, Call, t
      <3>3. a \in Approval
        BY <3>1, <1>1, Zenon DEF Approval, Decisions
      <3> HIDE DEF a
      <3>4. d \in DecisionCall /\ d.arg = a
        BY <3>3, Zenon DEF DecisionCall
      <3>5. a.txn = t /\ a.approver = q.user /\ a.decision = "approve" /\ a.seq = 2
        BY Zenon DEF a
      <3> HIDE DEF d
      <3> QED BY <3>2, <3>4, <3>5, Zenon
    <2>2. made \in decisions' /\ made.decision = "approve"
      BY <1>5, <1>10, <1>12, ZenonT(40)
    <2>3. 2 \in DOMAIN history'[t] /\ history'[t][2] = history[t][2]
      <3> DEFINE step == Step(type, q.user, new)
      <3>1. new \in Statuses
        BY <1>7, TableStatuses, Zenon
      <3>2. step \in Steps
        BY <3>1, <1>1, <1>7, Zenon DEF Step, Steps, Actors
      <3>3. history' = [history EXCEPT ![t] = @ \o <<step>>]
        BY <1>8, Zenon DEF Moves
      <3> HIDE DEF step
      <3>4. <<step>> \in Seq(Steps) /\ Len(<<step>>) = 1
        BY <3>2
      <3>5. /\ Len(history'[t]) = Len(history[t]) + Len(<<step>>) /\ history'[t] \in Seq(Steps)
            /\ \A n \in 1..Len(history[t]) : history'[t][n] = history[t][n]
        BY <3>3, <3>4, <1>1, LongerHistory, ZenonT(30) DEF OfficeInv
      <3>6. DOMAIN history'[t] = 1..3
        BY <3>4, <3>5, <1>4, SeqLen
      <3> QED BY <3>5, <3>6, <1>4
    <2>4. IsDecision(c.arg)'
      BY <2>1, <2>2, <2>3, <1>4, <1>10, Zenon DEF IsDecision
    <2> QED BY <2>1, <2>4, <1>3, <1>12, Zenon
  <1>13. \/ extra = <<>>
         \/ \E c \in DecisionCall : /\ extra = <<c>> /\ c.arg.txn = t
                                    /\ IsDecision(c.arg)'
                                    /\ \A d \in decisions : d.txn # t
    BY <1>12, Zenon
  <1>14. decisions' \subseteq [txn : TxnIds, approver : Users, decision : Decisions,
                               sig : Signatures \cup {None}]
    BY <1>5, <1>6, Zenon DEF OfficeInv, OfficeTypes
  <1>15. row[t] # None /\ decisions \subseteq decisions' /\ ttd' = ttd /\ requests' \subseteq requests
    BY <1>2, <1>5, Zenon
  <1> QED BY <1>1, <1>8, <1>11, <1>13, <1>14, <1>15, MovesInv, Zenon

\* A step that leaves the tables and the ledger alone, and known signatures too.
LEMMA QuietInv ==
    ASSUME OfficeInv, UNCHANGED <<contractVars, officeVars>>,
           requests' \subseteq [user : Users, txn : TxnIds],
           ttd' \in [Signatures -> [account : Users, doc : Documents] \cup {None}],
           \A s \in Signatures : ttd[s] # None => ttd'[s] = ttd[s]
    PROVE  OfficeInv'
  <1> USE DEF OfficeInv
  <1>1. /\ header' = header /\ idem' = idem /\ approvals' = approvals
        /\ row' = row /\ history' = history /\ decisions' = decisions /\ queue' = queue
    BY Zenon DEF contractVars, officeVars
  <1>2. OfficeTypes'
    BY <1>1, Zenon DEF OfficeTypes
  <1>3. HistoryInv'
    BY <1>1, ZenonT(30) DEF HistoryInv, StatusAt
  <1>4. DecisionInv'
    <2>1. \A d \in decisions : d.decision = "approve" => ttd'[d.sig] = ttd[d.sig]
      BY Zenon DEF DecisionInv
    <2> QED BY <1>1, <2>1 DEF DecisionInv, DecidedOnceBySomeoneElse
  <1>5. LedgerInv'
    BY <1>1, Zenon DEF LedgerInv, StatusAt
  <1>6. ApprovalInv'
    BY <1>1, Zenon DEF ApprovalInv, IsDecision
  <1>7. QueueInv'
    BY <1>1, ZenonT(40) DEF QueueInv, Queued, IsDecision, Reached, LedgerEvent
  <1>8. OrderInv'
    BY <1>1, ZenonT(40) DEF OrderInv, MayFollow
  <1>9. MissingInv'
    BY <1>1 DEF MissingInv, Reached
  <1> QED BY <1>2, <1>3, <1>4, <1>5, <1>6, <1>7, <1>8, <1>9, Zenon

-----------------------------------------------------------------------------
(* The relay *)

\* The oldest call, and what the others are to it.
LEMMA HeadOfQueue ==
    ASSUME OfficeInv, queue # <<>>
    PROVE  /\ Head(queue) \in Calls /\ Head(queue) = queue[1]
           /\ Queued(Head(queue)) /\ 1 \in DOMAIN queue
           /\ \A i \in DOMAIN queue : i # 1 => MayFollow(Head(queue), queue[i])
  <1>1. queue \in Seq(Calls)
    BY Zenon DEF OfficeInv, OfficeTypes
  <1>2. Head(queue) \in Calls /\ Head(queue) = queue[1]
    BY <1>1, SeqHeadTail
  <1>3. Len(queue) \in Nat /\ Len(queue) # 0 /\ DOMAIN queue = 1..Len(queue)
    BY <1>1, SeqLen, SeqEmpty, Zenon
  <1>4. 1 \in DOMAIN queue /\ \A i \in DOMAIN queue : i # 1 => 1 < i
    BY <1>3
  <1> QED BY <1>2, <1>4, Zenon DEF OfficeInv, QueueInv, OrderInv

\* Whatever is relayed, its transaction was created before or is created now.
LEMMA HeadIsNext ==
    ASSUME OfficeInv, queue # <<>>, NEW c, c = Head(queue)
    PROVE  /\ c.arg.txn \in TxnIds
           /\ c.fn # "CreateTransaction" => header[c.arg.txn] # None
           /\ c.fn = "RecordEvent" => c.arg.seq = header[c.arg.txn].seq + 1
  <1> DEFINE t == c.arg.txn
  <1>1. /\ c \in Calls /\ c = queue[1] /\ Queued(c) /\ 1 \in DOMAIN queue
        /\ \A i \in DOMAIN queue : i # 1 => MayFollow(c, queue[i])
    BY HeadOfQueue, Zenon
  <1>2. t \in TxnIds
    BY <1>1, CallsNameTransactions, Zenon
  <1>3. row[t] # None
    BY <1>1, Zenon DEF Queued
  <1>4. c.fn # "CreateTransaction" => header[t] # None
    <2> SUFFICES ASSUME c.fn # "CreateTransaction", header[t] = None PROVE FALSE
      BY Zenon
    <2>1. PICK i \in DOMAIN queue : queue[i].fn = "CreateTransaction" /\ queue[i].arg.txn = t
      BY <1>2, <1>3, Zenon DEF OfficeInv, MissingInv
    <2> QED BY <1>1, <2>1, Zenon DEF MayFollow
  <1>5. ASSUME c.fn = "RecordEvent" PROVE c.arg.seq = header[t].seq + 1
    <2> DEFINE n == header[t].seq + 1
    <2>1. header[t] # None /\ header[t].seq \in Nat
      BY <1>2, <1>4, <1>5, HeaderSequence, Zenon DEF OfficeInv
    <2>2. Reached(t) = header[t].seq
      BY <2>1, Zenon DEF Reached
    <2>3. c.arg.seq \in 1..Len(history[t]) /\ c.arg.seq > header[t].seq
      BY <1>1, <1>5, <2>2, Zenon DEF Queued
    <2>4. Len(history[t]) \in Nat
      BY <1>2, SeqLen, Zenon DEF OfficeInv, OfficeTypes
    <2>5. n \in 1..Len(history[t]) /\ n > Reached(t)
      BY <2>1, <2>2, <2>3, <2>4
    <2>6. PICK i \in DOMAIN queue : /\ queue[i].fn = "RecordEvent" /\ queue[i].arg.txn = t
                                    /\ queue[i].arg.seq = n
      BY <1>2, <1>3, <2>5 DEF OfficeInv, MissingInv
    <2>7. CASE i = 1
      BY <1>1, <2>6, <2>7, Zenon
    <2>8. CASE i # 1
      <3>1. c.arg.seq < n
        BY <1>1, <1>5, <2>6, <2>8, Zenon DEF MayFollow
      <3> QED BY <3>1, <2>1, <2>3, <2>4
    <2> QED BY <2>7, <2>8, Zenon
  <1> QED BY <1>2, <1>4, <1>5, Zenon

\* A queued event in its turn passes every check of RecordEvent.
LEMMA RecordPasses ==
    ASSUME OfficeInv, queue # <<>>, NEW c, c = Head(queue), c.fn = "RecordEvent"
    PROVE  RecordEventAccepts(c.arg)
  <1> DEFINE e == c.arg
             t == e.txn
             n == e.seq
             h == header[t]
  <1>1. t \in TxnIds /\ h # None /\ n = h.seq + 1
    BY HeadIsNext, Zenon
  <1>2. h \in Header /\ h.seq \in Nat
    BY <1>1, HeaderSequence, Zenon DEF OfficeInv
  <1>3. /\ row[t] # None /\ n \in 1..Len(history[t])
        /\ e = LedgerEvent(t, n, history[t][n])
    BY HeadOfQueue, Zenon DEF Queued
  <1>4. Len(history[t]) \in Nat
    BY <1>1, SeqLen, Zenon DEF OfficeInv, OfficeTypes
  <1>5. /\ e.wellFormed /\ e.key = <<t, n>> /\ e.new = history[t][n].new
        /\ e.prev = IF n = 1 THEN NoHash ELSE <<t, n - 1>>
    <2> DEFINE f == LedgerEvent(t, n, history[t][n])
    <2>1. /\ f.wellFormed /\ f.key = <<t, n>> /\ f.new = history[t][n].new
          /\ f.prev = IF n = 1 THEN NoHash ELSE <<t, n - 1>>
      BY Zenon DEF LedgerEvent
    <2>2. e = f
      BY <1>3, Zenon
    <2> HIDE DEF f
    <2> QED BY <2>1, <2>2, Zenon
  <1>6. e.prev = h.hash
    <2>1. h.hash = IF h.seq = 0 THEN NoHash ELSE <<t, h.seq>>
      BY <1>1, Zenon DEF OfficeInv, LedgerInv
    <2>2. (h.seq = 0 <=> n = 1) /\ n - 1 = h.seq
      BY <1>1, <1>2
    <2> QED BY <1>5, <2>1, <2>2, Zenon
  <1>7. e.key \notin idem
    <2> SUFFICES ASSUME <<t, n>> \in idem PROVE FALSE
      BY <1>5, Zenon
    <2>1. PICK s \in TxnIds : header[s] # None /\ \E m \in 1..header[s].seq : <<t, n>> = <<s, m>>
      BY Zenon DEF OfficeInv, LedgerInv
    <2>2. PICK m \in 1..header[s].seq : <<t, n>> = <<s, m>>
      BY <2>1, Zenon
    <2>3. t = s /\ n = m
      BY <2>2, Zenon
    <2> QED BY <1>1, <1>2, <2>2, <2>3
  <1>8. ASSUME e.new # "" PROVE isTransitionAllowed(h.status, e.new)
    <2>1. history[t][1].new = "" /\ \A m \in 2..Len(history[t]) :
              history[t][m].new \in officeTransitions(StatusAt(t, m - 1))
      BY <1>1, <1>3, ZenonT(30) DEF OfficeInv, HistoryInv
    <2>2. n # 1
      BY <1>5, <1>8, <2>1, ZenonT(40)
    <2>3. n \in 2..Len(history[t]) /\ n - 1 = h.seq
      BY <1>1, <1>2, <1>3, <1>4, <2>2
    <2>4. e.new \in officeTransitions(h.status)
      <3>1. h.status = StatusAt(t, h.seq)
        BY <1>1, Zenon DEF OfficeInv, LedgerInv
      <3> QED BY <2>1, <2>3, <3>1, <1>5, ZenonT(30)
    <2>5. e.new # "REVOKED"
      BY <2>4, Zenon DEF officeTransitions
    <2> QED BY <2>4, <2>5, SameTable, Zenon DEF isTransitionAllowed
  <1> QED BY <1>1, <1>5, <1>6, <1>7, <1>8, Zenon DEF RecordEventAccepts

\* A queued approval in its turn passes every check of Approve.
LEMMA ApprovePasses ==
    ASSUME OfficeInv, queue # <<>>, NEW c, c = Head(queue), c.fn = "Approve"
    PROVE  ApproveAccepts(c.arg) /\ c.arg.decision = "approve"
  <1>1. c.arg.txn \in TxnIds /\ header[c.arg.txn] # None
    BY HeadIsNext, Zenon
  <1>2. IsDecision(c.arg) /\ \A b \in approvals : b.txn # c.arg.txn
    BY HeadOfQueue, Zenon DEF Queued
  <1>3. c.arg.approver # header[c.arg.txn].createdBy
    <2>1. PICK d \in decisions : d.txn = c.arg.txn /\ d.approver = c.arg.approver
      BY <1>2, Zenon DEF IsDecision
    <2>2. d.approver # row[d.txn].createdBy
      BY Zenon DEF OfficeInv, DecisionInv, DecidedOnceBySomeoneElse
    <2>3. header[c.arg.txn].createdBy = row[c.arg.txn].createdBy
      BY <1>1, Zenon DEF OfficeInv, LedgerInv
    <2> QED BY <2>1, <2>2, <2>3, Zenon
  <1>4. c.arg.decision = "approve"
    BY <1>2, Zenon DEF IsDecision
  <1> QED BY <1>1, <1>2, <1>3, <1>4, Zenon DEF ApproveAccepts

\* The contract accepts the oldest call of any outbox the handlers can produce.
LEMMA HeadAccepted == OfficeInv => LedgerNeverRefuses
  <1> SUFFICES ASSUME OfficeInv, queue # <<>> PROVE Accepted(Head(queue))
    BY Zenon DEF LedgerNeverRefuses
  <1> DEFINE c == Head(queue)
  <1>1. Queued(c) /\ c \in Calls
    BY HeadOfQueue, Zenon
  <1>2. c.fn \in {"CreateTransaction", "RecordEvent", "Approve"}
    BY <1>1, CallsNameTransactions, Zenon
  <1>3. c.fn = "CreateTransaction" => header[c.arg.txn] = None
    BY <1>1, Zenon DEF Queued
  <1>4. c.fn = "RecordEvent" => RecordEventAccepts(c.arg)
    BY RecordPasses, Zenon
  <1>5. c.fn = "Approve" => ApproveAccepts(c.arg)
    BY ApprovePasses, Zenon
  <1> HIDE DEF c
  <1>6. Accepted(c)
    BY <1>2, <1>3, <1>4, <1>5, Zenon DEF Accepted
  <1> QED BY <1>6, Zenon DEF c

\* What relaying call c does to the headers and the approvals.
Delivered(c) ==
    /\ \A s \in TxnIds : s # c.arg.txn => header'[s] = header[s]
    /\ header'[c.arg.txn] # None
    /\ c.fn = "CreateTransaction" => header'[c.arg.txn].seq = 0
    /\ c.fn = "RecordEvent" => header'[c.arg.txn].seq = c.arg.seq
    /\ c.fn = "Approve" => header' = header
    /\ c.fn # "Approve" => approvals' = approvals
    /\ approvals' \subseteq approvals \cup {c.arg}

\* The rest of the queue stays right behind a delivered call.
LEMMA TailStaysQueued ==
    ASSUME OfficeInv, queue # <<>>, NEW c, c = Head(queue), Delivered(c),
           UNCHANGED <<row, history, decisions>>, NEW d \in Calls,
           Queued(d), MayFollow(c, d)
    PROVE  Queued(d)'
  <1> DEFINE t == c.arg.txn
             s == d.arg.txn
  <1>1. t \in TxnIds /\ s \in TxnIds
    BY HeadIsNext, CallsNameTransactions, Zenon
  <1>2. row' = row /\ history' = history /\ decisions' = decisions
    BY Zenon
  <1>3. d.fn = "CreateTransaction" => header'[s] = None
    <2>1. d.fn = "CreateTransaction" => s # t /\ header[s] = None
      BY Zenon DEF MayFollow, Queued
    <2> QED BY <1>1, <2>1, Zenon DEF Delivered
  <1>4. d.fn = "RecordEvent" => d.arg.seq > Reached(s)'
    <2> SUFFICES ASSUME d.fn = "RecordEvent" PROVE d.arg.seq > Reached(s)'
      BY Zenon
    <2>1. d.arg.seq \in 1..Len(history[s]) /\ d.arg.seq > Reached(s)
      BY Zenon DEF Queued
    <2>2. CASE s # t
      <3>1. header'[s] = header[s]
        BY <1>1, <2>2, Zenon DEF Delivered
      <3> QED BY <2>1, <3>1, Zenon DEF Reached
    <2>3. CASE s = t /\ c.fn = "CreateTransaction"
      <3>1. Reached(s)' = 0
        BY <2>3, Zenon DEF Delivered, Reached
      <3> QED BY <2>1, <3>1
    <2>4. CASE s = t /\ c.fn = "RecordEvent"
      <3>1. Reached(s)' = c.arg.seq
        BY <2>4, Zenon DEF Delivered, Reached
      <3>2. c.arg.seq < d.arg.seq /\ c.arg.seq \in 1..Len(history[t])
        BY <2>4, HeadOfQueue, Zenon DEF MayFollow, Queued
      <3> QED BY <2>1, <3>1, <3>2, Zenon
    <2>5. CASE s = t /\ c.fn = "Approve"
      <3>1. header' = header
        BY <2>5, Zenon DEF Delivered
      <3> QED BY <2>1, <3>1, Zenon DEF Reached
    <2>6. c.fn \in {"CreateTransaction", "RecordEvent", "Approve"}
      BY HeadOfQueue, CallsNameTransactions, Zenon
    <2> QED BY <2>2, <2>3, <2>4, <2>5, <2>6, Zenon
  <1>5. d.fn = "Approve" => IsDecision(d.arg)'
    BY <1>2, Zenon DEF Queued, IsDecision
  <1>6. d.fn = "Approve" => \A b \in approvals' : b.txn # s
    BY Zenon DEF Queued, Delivered, MayFollow
  <1> QED BY <1>2, <1>3, <1>4, <1>5, <1>6, Zenon DEF Queued, LedgerEvent

\* The queue is right again, and holds what is missing, after any delivery.
LEMMA TailInv ==
    ASSUME OfficeInv, queue # <<>>, NEW c, c = Head(queue), Delivered(c),
           UNCHANGED <<row, history, decisions>>, queue' = Tail(queue)
    PROVE  queue' \in Seq(Calls) /\ QueueInv' /\ OrderInv' /\ MissingInv'
  <1> DEFINE t == c.arg.txn
             k == Len(queue)
  <1>1. queue \in Seq(Calls) /\ k \in Nat /\ DOMAIN queue = 1..k
    BY SeqLen, Zenon DEF OfficeInv, OfficeTypes
  <1>2. /\ queue' \in Seq(Calls) /\ Len(queue') = k - 1
        /\ \A i \in 1..Len(queue') : queue'[i] = queue[i + 1]
    BY <1>1, SeqHeadTail, Zenon
  <1>3. /\ DOMAIN queue' = 1..(k - 1)
        /\ \A i \in DOMAIN queue' : /\ queue'[i] = queue[i + 1] /\ i + 1 \in DOMAIN queue
                                    /\ i + 1 # 1
    <2>1. DOMAIN queue' = 1..(k - 1)
      BY <1>2, SeqLen, Zenon
    <2> QED BY <1>1, <1>2, <2>1
  <1>4. c = queue[1] /\ c \in Calls /\ Queued(c) /\ t \in TxnIds
        /\ \A i \in DOMAIN queue : i # 1 => MayFollow(c, queue[i])
    BY HeadOfQueue, HeadIsNext, Zenon
  <1>5. \A i \in DOMAIN queue : queue[i] \in Calls
    BY <1>1, SeqElement, Zenon
  <1>6. row' = row /\ history' = history /\ decisions' = decisions
    BY Zenon
  <1>7. QueueInv'
    <2> SUFFICES ASSUME NEW i \in DOMAIN queue' PROVE Queued(queue[i])'
      BY Zenon DEF QueueInv
    <2>1. PICK d \in Calls : d = queue[i + 1]
      BY <1>3, <1>5, Zenon
    <2>2. Queued(d) /\ MayFollow(c, d)
      BY <1>3, <1>4, <2>1, Zenon DEF OfficeInv, QueueInv
    <2>3. Queued(d)'
      BY <1>6, <2>2, TailStaysQueued, Zenon
    <2>4. queue'[i] = d
      BY <1>3, <2>1, Zenon
    <2> QED BY <2>3, <2>4, ZenonT(40) DEF Queued, IsDecision, Reached, LedgerEvent
  <1>8. OrderInv'
    <2> SUFFICES ASSUME NEW i \in DOMAIN queue', NEW j \in DOMAIN queue', i < j
                 PROVE  MayFollow(queue'[i], queue'[j])
      BY Zenon DEF OrderInv, MayFollow
    <2>1. i + 1 < j + 1
      BY <1>3
    <2>2. MayFollow(queue[i + 1], queue[j + 1])
      BY <1>3, <2>1, Zenon DEF OfficeInv, OrderInv
    <2> QED BY <1>3, <2>2, Zenon
  <1>9. \A i \in DOMAIN queue : i # 1 => i - 1 \in DOMAIN queue' /\ queue'[i - 1] = queue[i]
    <2> SUFFICES ASSUME NEW i \in DOMAIN queue, i # 1
                 PROVE  i - 1 \in DOMAIN queue' /\ queue'[i - 1] = queue[i]
      BY Zenon
    <2>1. i - 1 \in 1..(k - 1) /\ (i - 1) + 1 = i
      BY <1>1
    <2> QED BY <1>3, <2>1, Zenon
  <1>10. MissingInv'
    <2> SUFFICES ASSUME NEW s \in TxnIds, row[s] # None
                 PROVE  /\ header'[s] = None =>
                             \E i \in DOMAIN queue' : /\ queue'[i].fn = "CreateTransaction"
                                                      /\ queue'[i].arg.txn = s
                        /\ \A n \in 1..Len(history[s]) : n > Reached(s)' =>
                             \E i \in DOMAIN queue' :
                                /\ queue'[i].fn = "RecordEvent" /\ queue'[i].arg.txn = s
                                /\ queue'[i].arg.seq = n
      BY <1>6 DEF MissingInv
    <2>1. ASSUME header'[s] = None
          PROVE  \E i \in DOMAIN queue' : /\ queue'[i].fn = "CreateTransaction"
                                          /\ queue'[i].arg.txn = s
      <3>1. s # t /\ header[s] = None
        BY <2>1, Zenon DEF Delivered
      <3>2. PICK i \in DOMAIN queue : queue[i].fn = "CreateTransaction" /\ queue[i].arg.txn = s
        BY <3>1, Zenon DEF OfficeInv, MissingInv
      <3>3. i # 1
        BY <1>4, <3>1, <3>2, Zenon
      <3> QED BY <1>9, <3>2, <3>3, Zenon
    <2>2. ASSUME NEW n \in 1..Len(history[s]), n > Reached(s)'
          PROVE  n > Reached(s) /\ ~ (c.fn = "RecordEvent" /\ t = s /\ c.arg.seq = n)
      <3>1. CASE s # t
        <4>1. header'[s] = header[s]
          BY <3>1, Zenon DEF Delivered
        <4> QED BY <2>2, <3>1, <4>1, Zenon DEF Reached
      <3>2. CASE s = t /\ c.fn = "CreateTransaction"
        <4>1. header[s] = None
          BY <1>4, <3>2, Zenon DEF Queued
        <4> QED BY <3>2, <4>1 DEF Reached
      <3>3. CASE s = t /\ c.fn = "RecordEvent"
        <4>1. Reached(s)' = c.arg.seq
          BY <3>3, Zenon DEF Delivered, Reached
        <4>2. header[s] # None /\ c.arg.seq = header[s].seq + 1
          BY <3>3, HeadIsNext, Zenon
        <4>3. header[s].seq \in Nat /\ Reached(s) = header[s].seq
          BY <4>2, HeaderSequence, Zenon DEF OfficeInv, Reached
        <4> QED BY <2>2, <4>1, <4>2, <4>3
      <3>4. CASE s = t /\ c.fn = "Approve"
        <4>1. header' = header
          BY <3>4, Zenon DEF Delivered
        <4> QED BY <2>2, <3>4, <4>1, Zenon DEF Reached
      <3> QED BY <1>4, <3>1, <3>2, <3>3, <3>4, CallsNameTransactions, Zenon
    <2>3. ASSUME NEW n \in 1..Len(history[s]), n > Reached(s)'
          PROVE  \E i \in DOMAIN queue' : /\ queue'[i].fn = "RecordEvent"
                                          /\ queue'[i].arg.txn = s /\ queue'[i].arg.seq = n
      <3>1. n > Reached(s) /\ ~ (c.fn = "RecordEvent" /\ t = s /\ c.arg.seq = n)
        BY <2>2, <2>3, Zenon
      <3>2. PICK i \in DOMAIN queue : /\ queue[i].fn = "RecordEvent" /\ queue[i].arg.txn = s
                                      /\ queue[i].arg.seq = n
        BY <3>1 DEF OfficeInv, MissingInv
      <3>3. i # 1
        BY <1>4, <3>1, <3>2, Zenon
      <3> QED BY <1>9, <3>2, <3>3, Zenon
    <2> QED BY <2>1, <2>3, Zenon
  <1> QED BY <1>2, <1>7, <1>8, <1>10, Zenon

\* A created transaction is where its row's history begins.
LEMMA CreateDelivered ==
    ASSUME OfficeInv, queue # <<>>, NEW c, c = Head(queue), UNCHANGED <<row, history, decisions>>,
           c.fn = "CreateTransaction", CreateTransaction(c.arg.txn, c.arg.user)
    PROVE  /\ Delivered(c) /\ header' \in [TxnIds -> Header \cup {None}]
           /\ LedgerInv' /\ ApprovalInv'
  <1> DEFINE t == c.arg.txn
             new == [createdBy |-> c.arg.user, status |-> "DRAFT", seq |-> 0, hash |-> NoHash]
  <1>1. /\ t \in TxnIds /\ header[t] = None /\ row[t] # None
        /\ c.arg.user = row[t].createdBy /\ c \in Calls
    BY HeadOfQueue, HeadIsNext, Zenon DEF Queued
  <1>2. c.arg.user \in Users
    BY <1>1, CallsNameTransactions, Zenon DEF CreateCall
  <1>3. new \in Header
    BY <1>2, ConstantsAssumption DEF Header, Statuses
  <1>4. /\ new.createdBy = row[t].createdBy /\ new.status = "DRAFT" /\ new.seq = 0
        /\ new.hash = NoHash /\ new # None
    BY <1>1, <1>3, ConstantsAssumption, Zenon
  <1>5. header' = [header EXCEPT ![t] = new] /\ idem' = idem /\ approvals' = approvals
    BY Zenon DEF CreateTransaction
  <1> HIDE DEF new
  <1>6. /\ header' \in [TxnIds -> Header \cup {None}] /\ header'[t] = new
        /\ \A s \in TxnIds : s # t => header'[s] = header[s]
    BY <1>1, <1>3, <1>5, Zenon DEF OfficeInv, OfficeTypes
  <1>7. Delivered(c)
    BY <1>4, <1>5, <1>6, Zenon DEF Delivered
  <1>8. Len(history[t]) \in Nat
    BY <1>1, SeqLen, Zenon DEF OfficeInv, OfficeTypes
  <1>9. LedgerInv'
    <2>1. ASSUME NEW s \in TxnIds, header'[s] # None
          PROVE  /\ row[s] # None
                 /\ header'[s].createdBy = row[s].createdBy
                 /\ header'[s].seq <= Len(history[s])
                 /\ header'[s].status = StatusAt(s, header'[s].seq)
                 /\ header'[s].hash = IF header'[s].seq = 0 THEN NoHash ELSE <<s, header'[s].seq>>
      <3>1. CASE s = t
        <4>1. StatusAt(t, 0) = "DRAFT"
          BY DEF StatusAt
        <4> QED BY <3>1, <4>1, <1>1, <1>4, <1>6, <1>8
      <3>2. CASE s # t
        BY <2>1, <3>2, <1>6, Zenon DEF OfficeInv, LedgerInv
      <3> QED BY <3>1, <3>2, Zenon
    <2>2. ASSUME NEW k \in idem'
          PROVE  \E s \in TxnIds : /\ header'[s] # None
                                   /\ \E n \in 1..header'[s].seq : k = <<s, n>>
      <3>1. PICK s \in TxnIds : header[s] # None /\ \E n \in 1..header[s].seq : k = <<s, n>>
        BY <1>5, Zenon DEF OfficeInv, LedgerInv
      <3>2. header'[s] = header[s]
        BY <1>1, <1>6, <3>1, Zenon
      <3> QED BY <3>1, <3>2, Zenon
    <2>3. row' = row /\ history' = history
      BY Zenon
    <2> QED BY <2>1, <2>2, <2>3, ZenonT(40) DEF LedgerInv, StatusAt
  <1>10. ApprovalInv'
    BY <1>5, Zenon DEF OfficeInv, ApprovalInv, IsDecision
  <1> QED BY <1>6, <1>7, <1>9, <1>10, Zenon

\* A recorded event takes the header one step along the row's history.
LEMMA RecordDelivered ==
    ASSUME OfficeInv, queue # <<>>, NEW c, c = Head(queue), UNCHANGED <<row, history, decisions>>,
           c.fn = "RecordEvent", RecordEvent(c.arg)
    PROVE  /\ Delivered(c) /\ header' \in [TxnIds -> Header \cup {None}]
           /\ LedgerInv' /\ ApprovalInv'
  <1> DEFINE e == c.arg
             t == e.txn
             n == e.seq
             new == NewHeader(e)
  <1>1. /\ t \in TxnIds /\ header[t] # None /\ n = header[t].seq + 1
        /\ row[t] # None /\ n \in 1..Len(history[t])
        /\ e = LedgerEvent(t, n, history[t][n]) /\ c \in Calls
    BY HeadOfQueue, HeadIsNext, Zenon DEF Queued
  <1>2. e \in Event
    BY <1>1, CallsNameTransactions, Zenon DEF RecordCall
  <1>3. header[t] \in Header /\ header[t].seq \in Nat
    BY <1>1, HeaderSequence, Zenon DEF OfficeInv
  <1>4. e.hash = <<t, n>> /\ e.key = <<t, n>> /\ e.new = history[t][n].new
    <2> DEFINE f == LedgerEvent(t, n, history[t][n])
    <2>1. f.hash = <<t, n>> /\ f.key = <<t, n>> /\ f.new = history[t][n].new
      BY Zenon DEF LedgerEvent
    <2>2. e = f
      BY <1>1, Zenon
    <2> HIDE DEF f
    <2> QED BY <2>1, <2>2, Zenon
  <1>5. new \in Header
    <2>1. (IF e.new = "" THEN header[t].status ELSE e.new) \in Statuses
      BY <1>2, <1>3, Zenon DEF Event, Header
    <2>2. e.seq \in 1..MaxSequence /\ e.hash \in Hashes
      BY <1>2, Zenon DEF Event
    <2>3. e.seq \in 0..MaxSequence
      BY <2>2, ConstantsAssumption
    <2>4. header[t].createdBy \in Users
      BY <1>3, Zenon DEF Header
    <2> QED BY <2>1, <2>2, <2>3, <2>4, Zenon DEF Header, NewHeader
  <1>6. /\ new.createdBy = header[t].createdBy /\ new.seq = n /\ new.hash = <<t, n>>
        /\ new.status = IF e.new = "" THEN header[t].status ELSE e.new
        /\ new # None
    BY <1>4, <1>5, ConstantsAssumption, ZenonT(30) DEF NewHeader
  <1>7. header' = [header EXCEPT ![t] = new] /\ idem' = idem \cup {<<t, n>>} /\ approvals' = approvals
    BY <1>4, Zenon DEF RecordEvent
  <1>8. new.status = StatusAt(t, n)
    <2>1. history[t][1].new = "" /\ \A m \in 2..Len(history[t]) :
              history[t][m].new \in officeTransitions(StatusAt(t, m - 1))
      BY <1>1, Zenon DEF OfficeInv, HistoryInv
    <2>2. CASE n = 1
      <3>1. header[t].seq = 0
        BY <1>1, <1>3, <2>2
      <3>2. header[t].status = StatusAt(t, 0)
        BY <1>1, <3>1, ZenonT(30) DEF OfficeInv, LedgerInv
      <3>3. StatusAt(t, 0) = "DRAFT" /\ StatusAt(t, n) = "DRAFT"
        BY <2>2 DEF StatusAt
      <3>4. e.new = ""
        BY <1>4, <2>1, <2>2, Zenon
      <3> QED BY <1>6, <3>2, <3>3, <3>4, Zenon
    <2>3. CASE n # 1
      <3>0. Len(history[t]) \in Nat
        BY <1>1, SeqLen, Zenon DEF OfficeInv, OfficeTypes
      <3>1. n \in 2..Len(history[t])
        BY <1>1, <2>3, <3>0
      <3>2. history[t][n].new \in officeTransitions(StatusAt(t, n - 1))
        BY <2>1, <3>1, ZenonT(30)
      <3>3. history[t][n].new # ""
        BY <3>2, ZenonT(30) DEF officeTransitions
      <3>4. StatusAt(t, n) = history[t][n].new
        BY <3>0, <3>1 DEF StatusAt
      <3> QED BY <1>4, <1>6, <3>3, <3>4, Zenon
    <2> QED BY <2>2, <2>3, Zenon
  <1> HIDE DEF new
  <1>9. /\ header' \in [TxnIds -> Header \cup {None}] /\ header'[t] = new
        /\ \A s \in TxnIds : s # t => header'[s] = header[s]
    BY <1>1, <1>5, <1>7, Zenon DEF OfficeInv, OfficeTypes
  <1>10. Delivered(c)
    BY <1>6, <1>7, <1>9, Zenon DEF Delivered
  <1>11. Len(history[t]) \in Nat
    BY <1>1, SeqLen, Zenon DEF OfficeInv, OfficeTypes
  <1>12. LedgerInv'
    <2>1. ASSUME NEW s \in TxnIds, header'[s] # None
          PROVE  /\ row[s] # None
                 /\ header'[s].createdBy = row[s].createdBy
                 /\ header'[s].seq <= Len(history[s])
                 /\ header'[s].status = StatusAt(s, header'[s].seq)
                 /\ header'[s].hash = IF header'[s].seq = 0 THEN NoHash ELSE <<s, header'[s].seq>>
      <3>1. CASE s = t
        <4>1. header[t].createdBy = row[t].createdBy
          BY <1>1, Zenon DEF OfficeInv, LedgerInv
        <4>2. n <= Len(history[t]) /\ n # 0
          BY <1>1, <1>11
        <4> QED BY <3>1, <4>1, <4>2, <1>1, <1>6, <1>8, <1>9, ZenonT(30)
      <3>2. CASE s # t
        BY <2>1, <3>2, <1>9, Zenon DEF OfficeInv, LedgerInv
      <3> QED BY <3>1, <3>2, Zenon
    <2>2. ASSUME NEW k \in idem'
          PROVE  \E s \in TxnIds : /\ header'[s] # None
                                   /\ \E m \in 1..header'[s].seq : k = <<s, m>>
      <3>1. CASE k \in idem
        <4>1. PICK s \in TxnIds : header[s] # None /\ \E m \in 1..header[s].seq : k = <<s, m>>
          BY <3>1, Zenon DEF OfficeInv, LedgerInv
        <4>2. PICK m \in 1..header[s].seq : k = <<s, m>>
          BY <4>1, Zenon
        <4>3. CASE s # t
          BY <4>1, <4>2, <4>3, <1>9, Zenon
        <4>4. CASE s = t
          <5>1. m \in 1..n
            BY <4>2, <4>4, <1>1, <1>3
          <5> QED BY <5>1, <4>2, <4>4, <1>1, <1>6, <1>9, ZenonT(40)
        <4> QED BY <4>3, <4>4, Zenon
      <3>2. CASE k = <<t, n>>
        <4>1. n \in 1..n
          BY <1>1, <1>3
        <4> QED BY <3>2, <4>1, <1>1, <1>6, <1>9, ZenonT(30)
      <3> QED BY <1>7, <3>1, <3>2, Zenon
    <2>3. row' = row /\ history' = history
      BY Zenon
    <2> QED BY <2>1, <2>2, <2>3, Zenon DEF LedgerInv, StatusAt
  <1>13. ApprovalInv'
    BY <1>7, Zenon DEF OfficeInv, ApprovalInv, IsDecision
  <1> QED BY <1>9, <1>10, <1>12, <1>13, Zenon

\* A recorded approval leaves the header alone.
LEMMA ApproveDelivered ==
    ASSUME OfficeInv, queue # <<>>, NEW c, c = Head(queue), UNCHANGED <<row, history, decisions>>,
           c.fn = "Approve", Approve(c.arg)
    PROVE  /\ Delivered(c) /\ header' \in [TxnIds -> Header \cup {None}]
           /\ LedgerInv' /\ ApprovalInv'
  <1>1. c.arg.txn \in TxnIds /\ header[c.arg.txn] # None /\ IsDecision(c.arg)
    BY HeadOfQueue, HeadIsNext, Zenon DEF Queued
  <1>2. header' = header /\ idem' = idem /\ approvals' = approvals \cup {c.arg}
    BY ApprovePasses, Zenon DEF Approve
  <1>3. Delivered(c)
    BY <1>1, <1>2, Zenon DEF Delivered
  <1>4. LedgerInv'
    BY <1>2, Zenon DEF OfficeInv, LedgerInv, StatusAt
  <1>5. ApprovalInv'
    <2>1. ASSUME NEW a \in approvals' PROVE a.txn \in TxnIds /\ IsDecision(a)
      BY <1>1, <1>2, Zenon DEF OfficeInv, ApprovalInv
    <2> QED BY <2>1, Zenon DEF ApprovalInv, IsDecision
  <1> QED BY <1>2, <1>3, <1>4, <1>5, Zenon DEF OfficeInv, OfficeTypes

\* The worker relays the oldest call.
LEMMA RelayInv == OfficeInv /\ Relay => OfficeInv'
  <1> SUFFICES ASSUME OfficeInv, Relay PROVE OfficeInv'
    BY Zenon
  <1>1. PICK c : c = Head(queue)
    BY Zenon
  <1>2. /\ queue # <<>> /\ Invoke(c) /\ queue' = Tail(queue)
        /\ row' = row /\ history' = history /\ decisions' = decisions
        /\ ttd' = ttd /\ requests' = requests
    BY <1>1, Zenon DEF Relay
  <1>3. /\ Delivered(c) /\ header' \in [TxnIds -> Header \cup {None}]
        /\ LedgerInv' /\ ApprovalInv'
    BY <1>1, <1>2, CreateDelivered, RecordDelivered, ApproveDelivered, Zenon DEF Invoke
  <1>4. queue' \in Seq(Calls) /\ QueueInv' /\ OrderInv' /\ MissingInv'
    BY <1>1, <1>2, <1>3, TailInv, Zenon
  <1>5. OfficeTypes'
    BY <1>2, <1>3, <1>4, Zenon DEF OfficeInv, OfficeTypes
  <1>6. HistoryInv'
    BY <1>2, ZenonT(30) DEF OfficeInv, HistoryInv, StatusAt
  <1>7. DecisionInv'
    BY <1>2, Zenon DEF OfficeInv, DecisionInv, DecidedOnceBySomeoneElse
  <1> QED BY <1>3, <1>4, <1>5, <1>6, <1>7, Zenon DEF OfficeInv

-----------------------------------------------------------------------------
(* Theorems *)

\* Every step keeps the invariant.
LEMMA StepOfficeInv == OfficeInv /\ [OfficeNext]_vars => OfficeInv'
  <1> SUFFICES ASSUME OfficeInv, [OfficeNext]_vars PROVE OfficeInv'
    BY Zenon
  <1>0. /\ requests \subseteq [user : Users, txn : TxnIds]
        /\ ttd \in [Signatures -> [account : Users, doc : Documents] \cup {None}]
    BY Zenon DEF OfficeInv, OfficeTypes
  <1>1. CASE Create
    BY <1>1, CreateInv, Zenon
  <1>2. CASE Act
    <2>1. PICK u \in Users, t \in TxnIds :
             officeSubmit(u, t) \/ officeComplete(u, t) \/ officeCancel(u, t) \/ officeAuth(u, t)
      BY <1>2, Zenon DEF Act
    <2>2. CASE officeAuth(u, t)
      <3>1. UNCHANGED <<contractVars, officeVars>> /\ ttd' = ttd
            /\ requests' = requests \cup {[user |-> u, txn |-> t]}
        BY <2>2, Zenon DEF officeAuth
      <3> QED BY <3>1, <1>0, QuietInv
    <2> QED BY <2>1, <2>2, SimpleStepInv, Zenon
  <1>3. CASE officeDecision
    <2>1. PICK q \in requests : \/ \E sig \in Signatures : officeDecisionApprove(q, sig)
                                \/ officeDecisionReject(q) \/ Refused(q)
      BY <1>3, Zenon DEF officeDecision
    <2>2. ASSUME NEW sig \in Signatures, officeDecisionApprove(q, sig) PROVE OfficeInv'
      BY <2>2, DecideInv, Zenon DEF officeDecisionApprove, Decisions
    <2>3. CASE officeDecisionReject(q)
      BY <2>3, DecideInv, Zenon DEF officeDecisionReject, Decisions
    <2>4. CASE Refused(q)
      <3>1. UNCHANGED <<contractVars, officeVars>> /\ ttd' = ttd /\ requests' \subseteq requests
        BY <2>4, Zenon DEF Refused, Answer
      <3> QED BY <3>1, <1>0, QuietInv, Zenon
    <2> QED BY <2>1, <2>2, <2>3, <2>4, Zenon
  <1>4. CASE SetRole
    <2>1. UNCHANGED <<contractVars, officeVars>> /\ ttd' = ttd /\ requests' = requests
      BY <1>4, Zenon DEF SetRole, officeSetRole
    <2> QED BY <2>1, <1>0, QuietInv, Zenon
  <1>5. CASE Sign
    <2>1. PICK s \in Signatures, u \in Users, d \in Documents : TTDSign(s, u, d)
      BY <1>5, Zenon DEF Sign
    <2>2. /\ UNCHANGED <<contractVars, officeVars>> /\ requests' = requests /\ ttd[s] = None
          /\ ttd' = [ttd EXCEPT ![s] = [account |-> u, doc |-> d]]
      BY <2>1, Zenon DEF TTDSign
    <2>3. /\ ttd' \in [Signatures -> [account : Users, doc : Documents] \cup {None}]
          /\ \A r \in Signatures : ttd[r] # None => ttd'[r] = ttd[r]
      BY <1>0, <2>2, Zenon
    <2> QED BY <1>0, <2>2, <2>3, QuietInv, Zenon
  <1>6. CASE Relay
    BY <1>6, RelayInv, Zenon
  <1>7. CASE UNCHANGED vars
    <2>1. UNCHANGED <<contractVars, officeVars>> /\ ttd' = ttd /\ requests' = requests
      BY <1>7, Zenon DEF vars
    <2> QED BY <2>1, <1>0, QuietInv, Zenon
  <1> QED BY <1>1, <1>2, <1>3, <1>4, <1>5, <1>6, <1>7, Zenon DEF OfficeNext

\* Nothing missing means nothing different.
LEMMA SettledIsLedger == OfficeInv => ReadModelIsLedger
  <1> SUFFICES ASSUME OfficeInv PROVE ReadModelIsLedger
    BY Zenon
  <1>1. ASSUME NEW t \in TxnIds, row[t] # None, \A i \in DOMAIN queue : queue[i].arg.txn # t
        PROVE  /\ header[t] # None
               /\ header[t].createdBy = row[t].createdBy
               /\ header[t].status = row[t].status
               /\ header[t].seq = Len(history[t])
    <2>1. header[t] # None
      BY <1>1, Zenon DEF OfficeInv, MissingInv
    <2>2. /\ header[t].seq \in Nat /\ Len(history[t]) \in Nat /\ 1 <= Len(history[t])
          /\ header[t].seq <= Len(history[t])
      <3>1. Len(history[t]) \in Nat
        BY SeqLen, Zenon DEF OfficeInv, OfficeTypes
      <3> QED BY <1>1, <2>1, <3>1, HeaderSequence, Zenon DEF OfficeInv, HistoryInv, LedgerInv
    <2>3. header[t].seq = Len(history[t])
      <3> SUFFICES ASSUME header[t].seq # Len(history[t]) PROVE FALSE
        BY Zenon
      <3>1. /\ Len(history[t]) \in 1..Len(history[t])
            /\ Len(history[t]) > Reached(t)
        BY <2>1, <2>2 DEF Reached
      <3> QED BY <1>1, <3>1 DEF OfficeInv, MissingInv
    <2>4. /\ header[t].createdBy = row[t].createdBy
          /\ header[t].status = StatusAt(t, header[t].seq)
          /\ row[t].status = StatusAt(t, Len(history[t]))
      BY <1>1, <2>1, Zenon DEF OfficeInv, LedgerInv, HistoryInv
    <2> QED BY <2>1, <2>3, <2>4, Zenon
  <1>2. ASSUME NEW a \in approvals
        PROVE  /\ \E d \in decisions : /\ d.txn = a.txn /\ d.approver = a.approver
                                       /\ d.decision = "approve" /\ a.decision = "approve"
               /\ history[a.txn][a.seq].type = "SUBMITTED"
    BY Zenon DEF OfficeInv, ApprovalInv, IsDecision
  <1> QED BY <1>1, <1>2, Zenon DEF ReadModelIsLedger

\* The invariant holds always.
THEOREM OfficeInvariant == OfficeSpec => []OfficeInv
  <1>1. OfficeInit => OfficeInv
    BY InitOfficeInv, Zenon
  <1>2. OfficeInv /\ [OfficeNext]_vars => OfficeInv'
    BY StepOfficeInv, Zenon
  <1> QED BY <1>1, <1>2, PTL DEF OfficeSpec

\* No interleaving of handlers and relay, on any number of requests and with an
\* outbox of any length, makes the contract refuse what a handler queued.
THEOREM LedgerNeverRefusesHolds == OfficeSpec => []LedgerNeverRefuses
  BY OfficeInvariant, HeadAccepted, PTL

\* Once the outbox holds nothing of it, a transaction is on the ledger what its
\* row says it is.
THEOREM ReadModelIsLedgerHolds == OfficeSpec => []ReadModelIsLedger
  BY OfficeInvariant, SettledIsLedger, PTL

\* A request is decided once, by somebody else than its creator, however many
\* approvers' requests are in flight.
THEOREM DecidedOnceHolds == OfficeSpec => []DecidedOnceBySomeoneElse
  <1>1. OfficeInv => DecidedOnceBySomeoneElse
    BY Zenon DEF OfficeInv, DecisionInv
  <1> QED BY <1>1, OfficeInvariant, PTL

=============================================================================
