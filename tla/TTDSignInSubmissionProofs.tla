---------------------- MODULE TTDSignInSubmissionProofs ----------------------
(***************************************************************************)
(* Signing in to the TTD server proved safe for any number of concurrent   *)
(* requests, any lockout and token lifetimes and any number of secrets.    *)
(*                                                                         *)
(* A handler writes back a row it read some time ago, so the invariant     *)
(* speaks of the rows that requests carry as much as of the stored ones:   *)
(* a row that is written is one that would be right to read (Fit), its     *)
(* secret is the one that was read, none, or one that no row ever held     *)
(* (Fresh), and no secret is in rows of both accounts (Apart).             *)
(*                                                                         *)
(* Then submissions to the same server, for any number of them, documents  *)
(* and certificates and any bounds: what is recorded as accepted was       *)
(* verified, has its object and is never replaced.                         *)
(***************************************************************************)
EXTENDS TTDSignIn, TTDSubmission, TLAPS

Row == [secret : Nat, enabled : BOOLEAN, mustChange : BOOLEAN, lastStep : Nat,
        failed : Nat, lockedUntil : Nat]
Code == [secret : Nat, step : Int]
Answer == [a : Accounts, read : Row \cup {NoRow}, row : Row, gives : SUBSET Kinds, code : Code,
           strict : BOOLEAN]
Delete == [delete : {"no", "account", "refused"}]
History == [used : SUBSET Code, replayed : SUBSET Accounts, lost : SUBSET Accounts,
            proven : SUBSET Nat, replaced : BOOLEAN, unforced : BOOLEAN, removed : BOOLEAN]

TypeInv ==
    /\ now \in Nat \ {0} /\ secrets \in Nat
    /\ account \in [Accounts -> {"absent", "active", "disabled", "deleted"}]
    /\ sec \in [Accounts -> Row \cup {NoRow}]
    /\ req \in [Requests -> Answer \cup Delete]
    /\ h \in History

\* The request is about to write a row; and the row that it read.
Writes(p) == "row" \in DOMAIN p
Seen(p) == IF p.read = NoRow THEN EmptyRow ELSE p.read

\* The super admin has chosen a password, or the row that demands it was never
\* written.
Forced == h.replaced \/ h.unforced

\* A row that may be read or written as a's.
Fit(a, row) ==
    /\ row.secret <= secrets
    /\ row.enabled => row.secret \in h.proven /\ (a = SA => Forced)
    /\ a = SA /\ ~ row.mustChange => Forced \/ account[SA] = "absent"

\* A code that is going to open a session is one of the secret that was read, and
\* its step is the one written back.
CodeFits(p) ==
    p.gives # {} /\ p.code # NoCode =>
        /\ p.code.secret # 0 /\ p.code.secret = Seen(p).secret /\ p.row.secret = Seen(p).secret
        /\ p.code.step > Seen(p).lastStep /\ p.row.lastStep = p.code.step

AnswerInv(p) ==
    /\ Fit(p.a, p.row) /\ Seen(p).secret <= secrets
    /\ p.a = SA => account[SA] # "absent"
    /\ "sa-access" \in p.gives => Forced /\ h.proven # {}
    /\ CodeFits(p)

\* The row that is written has no secret, or the one that was read.
Kept(p) ==
    \/ p.row.secret = 0
    \/ p.row.secret = Seen(p).secret /\ p.row.lastStep >= Seen(p).lastStep

\* The secret that r is about to write is in no other row, and no code of it has
\* opened a session.
Fresh(r) ==
    LET s == req[r].row.secret IN
    /\ req[r].gives = {}
    /\ \A a \in Accounts : Read(a).secret # s
    /\ \A q \in Requests : Writes(req[q]) => Seen(req[q]).secret # s /\ (q # r => req[q].row.secret # s)
    /\ \A c \in h.used : c.secret # s

\* The secret s is in a row of a, stored or carried by a request.
Holds(a, s) ==
    \/ Read(a).secret = s
    \/ \E r \in Requests : Writes(req[r]) /\ req[r].a = a /\ s \in {Seen(req[r]).secret, req[r].row.secret}

Apart == \A s \in Nat : Holds(SA, s) /\ Holds(AD, s) => s = 0

\* A code that opened a session is not after the last step of the row with its
\* secret, unless a save of that row was lost.
UsedInv ==
    /\ \A c \in h.used : c.secret \in 1..secrets
    /\ \A a \in Accounts \ h.lost : \A c \in h.used :
          c.secret = Read(a).secret => c.step <= Read(a).lastStep

SessionInv == expires["sa-access"] > 0 => Forced /\ h.proven # {}

DeleteInv ==
    \A r \in Requests : req[r] \in {[delete |-> "account"], [delete |-> "refused"]} => account[AD] # "absent"

SignInInv ==
    /\ TypeInv
    /\ \A a \in Accounts : Fit(a, Read(a))
    /\ \A r \in Requests : Writes(req[r]) => AnswerInv(req[r]) /\ (Kept(req[r]) \/ Fresh(r))
    /\ Apart /\ UsedInv /\ SessionInv /\ DeleteInv
    /\ CodeOpensOneSession /\ RemovedStaysOut

-----------------------------------------------------------------------------
(* Rows *)

\* EmptyRow and FirstRow are rows, and NoRow is not.
LEMMA FirstRows ==
    /\ EmptyRow \in Row /\ EmptyRow.secret = 0 /\ EmptyRow.lastStep = 0
    /\ ~ EmptyRow.enabled
    /\ FirstRow \in Row /\ FirstRow.secret = 0 /\ FirstRow.lastStep = 0
    /\ ~ FirstRow.enabled /\ FirstRow.mustChange
    /\ NoRow \notin Row
  BY ZenonT(20) DEF EmptyRow, FirstRow, Row, NoRow

\* saFail and saSuccess count; saSuccess records the step of the code.
LEMMA Counted ==
    ASSUME NEW row \in Row, now \in Nat, NEW step \in Int
    PROVE  /\ saFail(row) \in Row /\ saFail(row).secret = row.secret
           /\ saFail(row).enabled = row.enabled /\ saFail(row).mustChange = row.mustChange
           /\ saFail(row).lastStep = row.lastStep
           /\ saSuccess(row, step) \in Row /\ saSuccess(row, step).secret = row.secret
           /\ saSuccess(row, step).enabled = row.enabled
           /\ saSuccess(row, step).mustChange = row.mustChange
           /\ saSuccess(row, step).lastStep = IF step > 0 THEN step ELSE row.lastStep
  <1>1. saLockFor \in Nat
    BY SignInAssumption, Zenon
  <1>2. row.failed + 1 \in Nat /\ now + saLockFor \in Nat
    BY <1>1 DEF Row
  <1>3. saFail(row) \in Row /\ saFail(row).secret = row.secret
        /\ saFail(row).enabled = row.enabled /\ saFail(row).mustChange = row.mustChange
        /\ saFail(row).lastStep = row.lastStep
    BY <1>2, ZenonT(20) DEF saFail, Row
  <1>4. saSuccess(row, step) \in Row /\ saSuccess(row, step).secret = row.secret
        /\ saSuccess(row, step).enabled = row.enabled /\ saSuccess(row, step).mustChange = row.mustChange
        /\ saSuccess(row, step).lastStep = IF step > 0 THEN step ELSE row.lastStep
    <2>1. (IF step > 0 THEN step ELSE row.lastStep) \in Nat
      BY DEF Row
    <2>2. PICK n \in Nat : n = IF step > 0 THEN step ELSE row.lastStep
      BY <2>1, Zenon
    <2>3. saSuccess(row, step) = [row EXCEPT !.failed = 0, !.lockedUntil = 0, !.lastStep = n]
      BY <2>2, Zenon DEF saSuccess
    <2>4. [row EXCEPT !.failed = 0, !.lockedUntil = 0, !.lastStep = n] \in Row
      BY ZenonT(20) DEF Row
    <2> QED BY <2>2, <2>3, <2>4, Zenon DEF Row
  <1> QED BY <1>3, <1>4, Zenon

\* NewSecret takes the next secret and disables the authenticator.
LEMMA NewSecretFacts ==
    ASSUME NEW row \in Row, secrets \in Nat
    PROVE  /\ NewSecret(row) \in Row /\ NewSecret(row).secret = secrets + 1
           /\ ~ NewSecret(row).enabled /\ NewSecret(row).mustChange = row.mustChange
  <1>1. secrets + 1 \in Nat
    OBVIOUS
  <1>2. PICK n \in Nat : n = secrets + 1
    BY <1>1, Zenon
  <1>3. NewSecret(row) = [row EXCEPT !.secret = n, !.enabled = FALSE]
    BY <1>2, Zenon DEF NewSecret
  <1>4. NewSecret(row) \in Row /\ NewSecret(row).secret = n /\ NewSecret(row).enabled = FALSE
        /\ NewSecret(row).mustChange = row.mustChange
    BY <1>3, Zenon DEF Row
  <1> QED BY <1>2, <1>4, Zenon

\* What an account's row is read as.
LEMMA ReadFacts ==
    ASSUME TypeInv, NEW a \in Accounts
    PROVE  /\ Read(a) \in Row /\ Read(a).secret \in Nat /\ Read(a).lastStep \in Nat
           /\ sec[a] = NoRow => Read(a) = EmptyRow
  <1>1. Read(a) \in Row /\ (sec[a] = NoRow => Read(a) = EmptyRow)
    BY FirstRows, Zenon DEF TypeInv, Read
  <1> QED BY <1>1, Zenon DEF Row

\* What a request that writes carries.
LEMMA AnswerFacts ==
    ASSUME TypeInv, NEW r \in Requests, Writes(req[r])
    PROVE  /\ req[r] \in Answer /\ Seen(req[r]) \in Row
           /\ Seen(req[r]).secret \in Nat /\ Seen(req[r]).lastStep \in Nat
           /\ req[r].row \in Row /\ req[r].row.secret \in Nat /\ req[r].row.lastStep \in Nat
           /\ req[r].a \in Accounts /\ req[r].code \in Code /\ req[r].gives \in SUBSET Kinds
  <1>1. req[r] \notin Delete
    BY DEF Writes, Delete
  <1>2. req[r] \in Answer
    BY <1>1, Zenon DEF TypeInv
  <1>3. Seen(req[r]) \in Row /\ req[r].row \in Row
    BY <1>2, FirstRows, Zenon DEF Seen, Answer
  <1> QED BY <1>2, <1>3, Zenon DEF Answer, Row

\* A request to delete the admin, and one that is idle, write no row.
LEMMA DeleteFacts ==
    /\ \A p \in Delete : ~ Writes(p)
    /\ Idle \in Delete /\ [delete |-> "account"] \in Delete /\ [delete |-> "refused"] \in Delete
  BY Zenon DEF Writes, Delete, Idle
-----------------------------------------------------------------------------
(* The kinds of step *)

\* What no step undoes.
Later ==
    /\ secrets <= secrets' /\ h.proven \subseteq h'.proven
    /\ Forced => Forced'
    /\ account[SA] # "absent" => account'[SA] # "absent"

\* What a request carries stays right.
LEMMA AnswerLater ==
    ASSUME TypeInv, TypeInv', Later, NEW p \in Answer, AnswerInv(p)
    PROVE  AnswerInv(p)'
  <1>1. p.row.secret \in Nat /\ Seen(p).secret \in Nat /\ secrets \in Nat /\ secrets' \in Nat
    <2>1. Seen(p) \in Row /\ p.row \in Row
      BY FirstRows, Zenon DEF Seen, Answer
    <2> QED BY <2>1, Zenon DEF Row, TypeInv
  <1>2. p.row.secret <= secrets' /\ Seen(p).secret <= secrets'
    BY <1>1 DEF AnswerInv, Fit, Later
  <1>3. /\ p.row.enabled => p.row.secret \in h'.proven /\ (p.a = SA => Forced')
        /\ p.a = SA /\ ~ p.row.mustChange => Forced' \/ account'[SA] = "absent"
        /\ p.a = SA => account'[SA] # "absent"
        /\ "sa-access" \in p.gives => Forced' /\ h'.proven # {}
    BY Zenon DEF AnswerInv, Fit, Later
  <1> QED BY <1>2, <1>3, Zenon DEF AnswerInv, Fit

\* A step in which requests end, and rows lose their secrets or stay.
LEMMA QuietStep ==
    ASSUME SignInInv, TypeInv', Later,
           \A q \in Requests : req'[q] = req[q] \/ ~ Writes(req'[q]),
           \A a \in Accounts : Fit(a, Read(a))',
           \A a \in Accounts : Read(a)' = Read(a) \/ Read(a)'.secret = 0,
           h'.used = h.used, h'.lost = h.lost, h'.replayed = h.replayed,
           SessionInv', DeleteInv', RemovedStaysOut'
    PROVE  SignInInv'
  <1>1. \A a \in Accounts : Read(a)'.secret = Read(a).secret \/ Read(a)'.secret = 0
    BY Zenon
  <1>2. ASSUME NEW q \in Requests, Writes(req'[q])
        PROVE  AnswerInv(req[q])' /\ (Kept(req'[q]) \/ Fresh(q)')
    <2>1. PICK p : p = req[q]
      BY Zenon
    <2>2. req'[q] = p /\ req[q] = p /\ Writes(p)
      BY <1>2, <2>1, Zenon
    <2>3. p \in Answer /\ AnswerInv(p)
      BY <2>2, AnswerFacts, Zenon DEF SignInInv
    <2>4. AnswerInv(p)'
      BY <2>3, AnswerLater, Zenon DEF SignInInv
    <2>5. CASE Kept(p)
      BY <2>2, <2>4, <2>5, Zenon DEF AnswerInv
    <2>6. CASE ~ Kept(p)
      <3>1. Fresh(q) /\ p.row.secret # 0
        BY <2>2, <2>6, Zenon DEF SignInInv, Kept
      <3>2. Fresh(q)'
        BY <1>1, <2>2, <3>1, Zenon DEF Fresh
      <3> QED BY <2>2, <2>4, <3>2, Zenon
    <2> QED BY <2>5, <2>6, Zenon
  <1>3. Apart'
    <2>1. ASSUME NEW a \in Accounts, NEW s \in Nat, Holds(a, s)'
          PROVE  Holds(a, s) \/ s = 0
      BY <1>1, <2>1, Zenon DEF Holds
    <2>2. SA \in Accounts /\ AD \in Accounts
      BY Zenon DEF Accounts
    <2> QED BY <2>1, <2>2, Zenon DEF SignInInv, Apart
  <1>4. UsedInv'
    <2>1. \A c \in h.used : c.secret \in 1..secrets'
      BY DEF SignInInv, UsedInv, Later, TypeInv
    <2>2. \A a \in Accounts \ h'.lost : \A c \in h'.used :
             c.secret = Read(a)'.secret => c.step <= Read(a)'.lastStep
      <3>1. \A c \in h.used : c.secret # 0
        BY DEF SignInInv, UsedInv
      <3> QED BY <3>1, Zenon DEF SignInInv, UsedInv
    <2> QED BY <2>1, <2>2, Zenon DEF UsedInv
  <1>5. CodeOpensOneSession'
    BY Zenon DEF SignInInv, CodeOpensOneSession
  <1> QED BY <1>2, <1>3, <1>4, <1>5, Zenon DEF SignInInv

\* A request reads a row and is going to write p.
LEMMA BeginStep ==
    ASSUME SignInInv, TypeInv', Later, NEW r \in Requests, NEW p \in Answer,
           ~ Writes(req[r]), req' = [req EXCEPT ![r] = p], p.read = sec[p.a],
           AnswerInv(p)',
           Kept(p) \/ (p.gives = {} /\ p.row.secret = secrets + 1 /\ secrets' = secrets + 1),
           UNCHANGED <<account, sec, expires>>,
           h'.used = h.used, h'.lost = h.lost, h'.replayed = h.replayed, h'.removed = h.removed
    PROVE  SignInInv'
  <1>1. /\ req'[r] = p /\ \A q \in Requests : q # r => req'[q] = req[q]
        /\ Seen(p) = Read(p.a) /\ p.a \in Accounts /\ secrets \in Nat
        /\ p.row.secret \in Nat
    BY Zenon DEF SignInInv, TypeInv, Seen, Read, Answer, Row
  <1>2. \A a \in Accounts : Read(a)' = Read(a) /\ Read(a).secret \in Nat /\ Read(a).secret <= secrets
    <2>1. \A a \in Accounts : Read(a).secret \in Nat
      BY ReadFacts, Zenon DEF SignInInv
    <2> QED BY <2>1, Zenon DEF SignInInv, Fit, Read
  <1>3. \A q \in Requests : Writes(req[q]) =>
           /\ req'[q] = req[q] /\ req[q] \in Answer /\ AnswerInv(req[q])
           /\ Seen(req[q]).secret \in Nat /\ Seen(req[q]).secret <= secrets
           /\ req[q].row.secret \in Nat /\ req[q].row.secret <= secrets
    BY <1>1, AnswerFacts, Zenon DEF SignInInv, AnswerInv, Fit
  <1>4. \A c \in h.used : c.secret \in 1..secrets
    BY Zenon DEF SignInInv, UsedInv
  <1>5. Kept(p) \/ Fresh(r)'
    <2> SUFFICES ASSUME p.gives = {}, p.row.secret = secrets + 1 PROVE Fresh(r)'
      BY Zenon
    <2>1. \A a \in Accounts : Read(a)'.secret # p.row.secret
      BY <1>1, <1>2
    <2>2. \A q \in Requests : Writes(req'[q]) =>
             Seen(req'[q]).secret # p.row.secret /\ (q # r => req'[q].row.secret # p.row.secret)
      BY <1>1, <1>2, <1>3
    <2>3. \A c \in h'.used : c.secret # p.row.secret
      BY <1>1, <1>4
    <2> QED BY <1>1, <2>1, <2>2, <2>3 DEF Fresh
  <1>6. ASSUME NEW q \in Requests, q # r, Writes(req'[q])
        PROVE  AnswerInv(req[q])' /\ (Kept(req'[q]) \/ Fresh(q)')
    <2>1. PICK w : w = req[q]
      BY Zenon
    <2>2. req'[q] = w /\ req[q] = w /\ Writes(w) /\ w \in Answer /\ AnswerInv(w) /\ w.row.secret \in Nat
          /\ w.row.secret <= secrets
      BY <1>1, <1>3, <1>6, <2>1, Zenon
    <2>3. AnswerInv(w)'
      BY <2>2, AnswerLater, Zenon DEF SignInInv
    <2>4. CASE ~ Kept(w)
      <3>1. Fresh(q) /\ w.row.secret # 0
        BY <2>2, <2>4, Zenon DEF SignInInv, Kept
      <3>2. Seen(p).secret # w.row.secret
        BY <1>1, <2>2, <3>1, Zenon DEF Fresh
      <3>3. p.row.secret # w.row.secret
        BY <1>1, <2>2, <3>1, <3>2 DEF Kept
      <3>4. Fresh(q)'
        BY <1>1, <1>2, <2>2, <3>1, <3>2, <3>3 DEF Fresh
      <3> QED BY <2>2, <2>3, <3>4, Zenon
    <2> QED BY <2>2, <2>3, <2>4, Zenon
  <1>7. Apart'
    <2>1. ASSUME NEW a \in Accounts, NEW s \in Nat, Holds(a, s)'
          PROVE  Holds(a, s) \/ s = 0 \/ (s = secrets + 1 /\ a = p.a)
      <3>1. CASE Read(a)'.secret = s
        BY <1>2, <3>1, Zenon DEF Holds
      <3>2. ASSUME NEW q \in Requests, Writes(req'[q]), req'[q].a = a,
                   s \in {Seen(req'[q]).secret, req'[q].row.secret}
            PROVE  Holds(a, s) \/ s = 0 \/ (s = secrets + 1 /\ a = p.a)
        <4>1. CASE q = r
          BY <1>1, <3>2, <4>1 DEF Holds, Kept
        <4>2. CASE q # r
          BY <1>1, <3>2, <4>2, Zenon DEF Holds
        <4> QED BY <4>1, <4>2, Zenon
      <3> QED BY <2>1, <3>1, <3>2, Zenon DEF Holds
    <2>2. \A a \in Accounts : \A s \in Nat : Holds(a, s) => s <= secrets
      BY <1>2, <1>3, Zenon DEF Holds
    <2>3. SA \in Accounts /\ AD \in Accounts /\ SA # AD
      BY Zenon DEF Accounts, SA, AD
    <2>4. ASSUME NEW s \in Nat, Holds(SA, s)', Holds(AD, s)' PROVE s = 0
      <3>1. CASE s = secrets + 1
        <4>1. ~ Holds(SA, s) /\ ~ Holds(AD, s)
          BY <1>1, <2>2, <2>3, <3>1
        <4> QED BY <2>1, <2>3, <2>4, <4>1, Zenon
      <3>2. CASE s # secrets + 1
        BY <2>1, <2>3, <2>4, <3>2, Zenon DEF SignInInv, Apart
      <3> QED BY <3>1, <3>2, Zenon
    <2> QED BY <2>4, Zenon DEF Apart
  <1>8. UsedInv'
    <2>1. \A c \in h'.used : c.secret \in 1..secrets'
      BY <1>1, <1>4 DEF Later, TypeInv
    <2> QED BY <1>2, <2>1, Zenon DEF SignInInv, UsedInv
  <1>9. \A a \in Accounts : Fit(a, Read(a))'
    <2> SUFFICES ASSUME NEW a \in Accounts PROVE Fit(a, Read(a))'
      BY Zenon
    <2>1. PICK row : row = Read(a)
      BY Zenon
    <2>2. Read(a)' = row /\ Fit(a, row) /\ row.secret <= secrets /\ row.secret \in Nat
      BY <1>2, <2>1, Zenon DEF SignInInv
    <2>3. row.secret <= secrets'
      BY <1>1, <2>2 DEF Later, TypeInv
    <2>4. /\ row.enabled => row.secret \in h'.proven /\ (a = SA => Forced')
          /\ a = SA /\ ~ row.mustChange => Forced' \/ account'[SA] = "absent"
      BY <2>2, Zenon DEF Fit, Later
    <2> QED BY <2>2, <2>3, <2>4, Zenon DEF Fit
  <1>10. SessionInv'
    BY Zenon DEF SignInInv, SessionInv, Later
  <1>11. DeleteInv'
    <2>1. p \notin {[delete |-> "account"], [delete |-> "refused"]}
      <3>1. Writes(p)
        BY Zenon DEF Answer, Writes
      <3> QED BY <3>1, DeleteFacts, Zenon
    <2> QED BY <1>1, <2>1, Zenon DEF SignInInv, DeleteInv
  <1>12. CodeOpensOneSession' /\ RemovedStaysOut'
    BY Zenon DEF SignInInv, CodeOpensOneSession, RemovedStaysOut
  <1>13. ASSUME NEW q \in Requests, Writes(req'[q])
         PROVE  AnswerInv(req[q])' /\ (Kept(req'[q]) \/ Fresh(q)')
    <2>1. CASE q = r
      BY <1>1, <1>5, <2>1, Zenon DEF AnswerInv
    <2> QED BY <1>6, <1>13, <2>1, Zenon
  <1> QED BY <1>7, <1>8, <1>9, <1>10, <1>11, <1>12, <1>13, Zenon DEF SignInInv

\* A request saves its row, or fails to, and answers.
LEMMA WriteStep ==
    ASSUME SignInInv, TypeInv', NEW r \in Requests, Writes(req[r]),
           req' = [req EXCEPT ![r] = Idle],
           sec' = sec \/ sec' = [sec EXCEPT ![req[r].a] = req[r].row],
           expires'["sa-access"] = expires["sa-access"] \/ "sa-access" \in req[r].gives,
           UNCHANGED <<account, secrets>>,
           h'.proven = h.proven, Forced' = Forced, h'.removed = h.removed,
           h'.used \subseteq h.used \cup CodesOf(req[r]), h.lost \subseteq h'.lost,
           \/ req[r].a \in h'.lost
           \/ sec' = [sec EXCEPT ![req[r].a] = req[r].row] /\ sec[req[r].a] = req[r].read,
           \/ h'.replayed = h.replayed
           \/ h'.replayed = h.replayed \cup {req[r].a} /\ CodesOf(req[r]) \cap h.used # {}
    PROVE  SignInInv'
  <1>1. PICK p : p = req[r]
    BY Zenon
  <1>2. /\ p \in Answer /\ p.a \in Accounts /\ p.row \in Row /\ p.row.secret \in Nat /\ p.row.lastStep \in Nat
        /\ Seen(p).secret \in Nat /\ Seen(p).lastStep \in Nat /\ p.code \in Code
        /\ AnswerInv(p) /\ (Kept(p) \/ Fresh(r)) /\ Writes(p)
    BY <1>1, AnswerFacts, ZenonT(20) DEF SignInInv
  <1>3. /\ ~ Writes(req'[r]) /\ req'[r] = Idle
        /\ \A q \in Requests : q # r => req'[q] = req[q]
    BY DeleteFacts, Zenon DEF SignInInv, TypeInv
  <1>4. Later
    BY DEF SignInInv, TypeInv, Later
  <1>5. ASSUME NEW a \in Accounts
        PROVE  /\ Read(a) \in Row /\ Read(a).secret \in Nat /\ Read(a).lastStep \in Nat
               /\ Read(a)' = Read(a) \/ (a = p.a /\ Read(a)' = p.row)
               /\ sec' = [sec EXCEPT ![p.a] = p.row] /\ a = p.a => Read(a)' = p.row
    <2>1. Read(a) \in Row /\ Read(a).secret \in Nat /\ Read(a).lastStep \in Nat
      BY ReadFacts, ZenonT(20) DEF SignInInv
    <2>2. p.row # NoRow
      BY <1>2, FirstRows, Zenon
    <2>3. sec \in [Accounts -> Row \cup {NoRow}]
      BY Zenon DEF SignInInv, TypeInv
    <2> QED BY <1>1, <1>2, <2>1, <2>2, <2>3, Zenon DEF Read
  <1>6. \A c \in CodesOf(p) :
           /\ c = p.code /\ c.secret # 0 /\ c.secret = Seen(p).secret /\ p.row.secret = Seen(p).secret
           /\ c.step > Seen(p).lastStep /\ p.row.lastStep = c.step /\ c.secret \in 1..secrets
    <2>1. ASSUME NEW c \in CodesOf(p) PROVE c = p.code /\ p.gives # {} /\ p.code # NoCode
      BY <2>1, Zenon DEF CodesOf, Nothing
    <2>2. Seen(p).secret <= secrets /\ secrets \in Nat /\ CodeFits(p)
      BY <1>2, ZenonT(20) DEF AnswerInv, SignInInv, TypeInv
    <2> QED BY <1>2, <2>1, <2>2 DEF CodeFits
  <1>7. ASSUME NEW q \in Requests, Writes(req'[q])
        PROVE  AnswerInv(req[q])' /\ (Kept(req'[q]) \/ Fresh(q)')
    <2>1. PICK w : w = req[q]
      BY Zenon
    <2>2. q # r /\ req'[q] = w /\ req[q] = w /\ Writes(w)
      BY <1>3, <1>7, <2>1, Zenon
    <2>3. w \in Answer /\ AnswerInv(w)
      BY <2>2, AnswerFacts, Zenon DEF SignInInv
    <2>4. AnswerInv(w)'
      BY <1>4, <2>3, AnswerLater, Zenon DEF SignInInv
    <2>5. CASE ~ Kept(w)
      <3>1. Fresh(q) /\ w.row.secret # 0
        BY <2>2, <2>5, Zenon DEF SignInInv, Kept
      <3>2. Seen(p).secret # w.row.secret /\ p.row.secret # w.row.secret
        BY <1>1, <1>2, <2>2, <3>1, Zenon DEF Fresh
      <3>3. \A a \in Accounts : Read(a)'.secret # w.row.secret
        BY <1>5, <2>2, <3>1, <3>2, Zenon DEF Fresh
      <3>4. \A c \in h'.used : c.secret # w.row.secret
        BY <1>1, <1>6, <2>2, <3>1, <3>2 DEF Fresh
      <3>5. Fresh(q)'
        BY <1>3, <2>2, <3>1, <3>3, <3>4 DEF Fresh
      <3> QED BY <2>2, <2>4, <3>5, Zenon
    <2> QED BY <2>2, <2>4, <2>5, Zenon
  <1>8. Holds(p.a, p.row.secret) /\ Holds(p.a, Seen(p).secret)
    BY <1>1, <1>2, Zenon DEF Holds
  <1>9. Apart'
    <2>1. ASSUME NEW a \in Accounts, NEW s \in Nat, Holds(a, s)'
          PROVE  Holds(a, s)
      <3>1. CASE Read(a)'.secret = s
        BY <1>5, <1>8, <3>1, Zenon DEF Holds
      <3>2. CASE Read(a)'.secret # s
        BY <1>3, <2>1, <3>2, ZenonT(40) DEF Holds
      <3> QED BY <3>1, <3>2, Zenon
    <2>2. SA \in Accounts /\ AD \in Accounts
      BY Zenon DEF Accounts
    <2> QED BY <2>1, <2>2, Zenon DEF SignInInv, Apart
  <1>10. ASSUME p.a \notin h'.lost
         PROVE  /\ Read(p.a) = Seen(p) /\ Read(p.a)' = p.row
                /\ \A c \in CodesOf(p) : c \notin h.used
    <2>1. sec[p.a] = p.read /\ sec' = [sec EXCEPT ![p.a] = p.row]
      BY <1>1, <1>10, Zenon
    <2>2. Read(p.a) = Seen(p) /\ Read(p.a)' = p.row
      BY <1>2, <1>5, <2>1, ZenonT(20) DEF Read, Seen
    <2>3. \A c \in h.used : c.secret = Seen(p).secret => c.step <= Seen(p).lastStep
      BY <1>2, <1>10, <2>2, ZenonT(20) DEF SignInInv, UsedInv
    <2>4. \A c \in CodesOf(p) : c.step \in Int
      BY <1>2, <1>6, Zenon DEF Code
    <2> QED BY <1>2, <1>6, <2>2, <2>3, <2>4
  <1>11. UsedInv'
    <2>1. \A c \in h'.used : c.secret \in 1..secrets'
      BY <1>1, <1>6, Zenon DEF SignInInv, UsedInv
    <2>2. ASSUME NEW a \in Accounts \ h'.lost, NEW c \in h'.used, c.secret = Read(a)'.secret
          PROVE  c.step <= Read(a)'.lastStep
      <3>1. c.step \in Int /\ c.secret # 0
        <4>1. h'.used \subseteq Code
          BY Zenon DEF TypeInv, History
        <4> QED BY <4>1, <2>1 DEF Code
      <3>2. CASE a = p.a
        <4>1. Read(a) = Seen(p) /\ Read(a)' = p.row
          BY <1>10, <2>2, <3>2, Zenon
        <4>2. CASE c \in CodesOf(p)
          BY <1>6, <3>1, <4>1, <4>2
        <4>3. CASE c \notin CodesOf(p)
          <5>1. c \in h.used
            BY <1>1, <4>3, Zenon
          <5>2. ~ Fresh(r)
            BY <1>1, <2>2, <4>1, <5>1, ZenonT(20) DEF Fresh
          <5>3. p.row.secret = Seen(p).secret /\ p.row.lastStep >= Seen(p).lastStep
            BY <1>2, <2>2, <3>1, <4>1, <5>2, ZenonT(20) DEF Kept
          <5>4. c.step <= Seen(p).lastStep
            BY <2>2, <4>1, <5>1, <5>3, ZenonT(40) DEF SignInInv, UsedInv
          <5> QED BY <1>2, <3>1, <4>1, <5>3, <5>4
        <4> QED BY <4>2, <4>3, Zenon
      <3>3. CASE a # p.a
        <4>1. Read(a)' = Read(a)
          BY <1>5, <3>3, Zenon
        <4>2. c \notin CodesOf(p)
          <5> SUFFICES ASSUME c \in CodesOf(p) PROVE FALSE
            BY Zenon
          <5>1. Holds(p.a, c.secret) /\ Holds(a, c.secret) /\ c.secret \in Nat
            BY <1>2, <1>6, <1>8, <2>2, <4>1, ZenonT(20) DEF Holds
          <5> QED BY <1>2, <3>1, <3>3, <5>1, Zenon DEF SignInInv, Apart, Accounts
        <4>3. c \in h.used
          BY <1>1, <4>2, Zenon
        <4> QED BY <2>2, <4>1, <4>3, Zenon DEF SignInInv, UsedInv
      <3> QED BY <3>2, <3>3, Zenon
    <2> QED BY <2>1, <2>2, Zenon DEF UsedInv
  <1>12. CodeOpensOneSession'
    BY <1>1, <1>10, Zenon DEF SignInInv, CodeOpensOneSession
  <1>13. SessionInv'
    BY <1>1, <1>2, Zenon DEF SignInInv, SessionInv, AnswerInv
  <1>14. DeleteInv' /\ RemovedStaysOut'
    <2>1. Idle \notin {[delete |-> "account"], [delete |-> "refused"]}
      BY Zenon DEF Idle
    <2> QED BY <1>3, <2>1, Zenon DEF SignInInv, DeleteInv, RemovedStaysOut
  <1>15. \A a \in Accounts : Fit(a, Read(a))'
    <2> SUFFICES ASSUME NEW a \in Accounts PROVE Fit(a, Read(a))'
      BY Zenon
    <2>1. Fit(a, Read(a)) /\ Fit(p.a, p.row)
      BY <1>2, ZenonT(20) DEF SignInInv, AnswerInv
    <2>2. PICK row : row = Read(a)'
      BY Zenon
    <2>3. Fit(a, row)
      BY <1>5, <2>1, <2>2, Zenon
    <2>4. Fit(a, row)'
      BY <2>3, Zenon DEF Fit
    <2> QED BY <2>2, <2>4, Zenon DEF Fit
  <1> QED BY <1>7, <1>9, <1>11, <1>12, <1>13, <1>14, <1>15, Zenon DEF SignInInv

-----------------------------------------------------------------------------
(* The handlers that read a row *)

\* What such a handler may change before the row is saved.
Adds ==
    /\ UNCHANGED <<now, account, sec, expires>> /\ secrets' \in {secrets, secrets + 1}
    /\ \/ h' = h
       \/ \E s \in Nat : h' = [h EXCEPT !.proven = @ \cup {s}]
       \/ \E b \in BOOLEAN : (h.replaced => b) /\ h' = [h EXCEPT !.replaced = b]

\* Such a change undoes nothing, and leaves the rows as they are.
LEMMA AddsFacts ==
    ASSUME SignInInv, Adds
    PROVE  /\ now' \in Nat \ {0} /\ secrets \in Nat /\ secrets' \in Nat /\ h' \in History /\ Later
           /\ h'.used = h.used /\ h'.lost = h.lost /\ h'.replayed = h.replayed /\ h'.removed = h.removed
           /\ \A a \in Accounts : Read(a)' = Read(a)
  <1>1. h \in History /\ now \in Nat \ {0} /\ secrets \in Nat
    BY Zenon DEF SignInInv, TypeInv
  <1>2. /\ h' \in History /\ h.proven \subseteq h'.proven /\ (Forced => Forced')
        /\ h'.used = h.used /\ h'.lost = h.lost /\ h'.replayed = h.replayed /\ h'.removed = h.removed
    <2>1. CASE h' = h
      BY <1>1, <2>1, Zenon DEF Forced
    <2>2. ASSUME NEW n \in Nat, h' = [h EXCEPT !.proven = @ \cup {n}]
          PROVE  <1>2!:
      BY <1>1, <2>2, Zenon DEF Forced, History
    <2>3. ASSUME NEW b \in BOOLEAN, h.replaced => b, h' = [h EXCEPT !.replaced = b]
          PROVE  <1>2!:
      BY <1>1, <2>3, Zenon DEF Forced, History
    <2> QED BY <2>1, <2>2, <2>3, Zenon DEF Adds
  <1> QED BY <1>1, <1>2 DEF Adds, Later, Read

\* A row with the fields of a fit one is fit after the step.
LEMMA FitLater ==
    ASSUME Later, account'[SA] = account[SA], secrets \in Nat, secrets' \in Nat,
           NEW a \in Accounts, NEW row \in Row, Fit(a, row),
           NEW new \in Row, new.secret = row.secret \/ (new.secret = 0 /\ ~ new.enabled),
           new.enabled => row.enabled, new.mustChange = row.mustChange
    PROVE  Fit(a, new)'
  <1>1. new.secret <= secrets'
    BY DEF Later, Fit, Row
  <1>2. new.enabled => new.secret \in h'.proven /\ (a = SA => Forced')
    BY Zenon DEF Later, Fit
  <1>3. a = SA /\ ~ new.mustChange => Forced' \/ account'[SA] = "absent"
    <2>1. a = SA /\ ~ new.mustChange => ~ row.mustChange
      BY Zenon
    <2> QED BY <2>1, Zenon DEF Later, Fit
  <1> QED BY <1>1, <1>2, <1>3, Zenon DEF Fit

\* A handler that has read a's row is about to write row, and then to answer.
LEMMA BeginAction ==
    ASSUME SignInInv, Adds, NEW r \in Requests, NEW a \in Accounts, NEW row \in Row,
           NEW gives \in SUBSET Kinds, NEW code \in Code, NEW strict \in BOOLEAN,
           Begin(r, Pending(a, row, gives, code, strict)),
           Fit(a, row)', a = SA => account[SA] # "absent",
           "sa-access" \in gives => Forced' /\ h'.proven # {},
           gives # {} /\ code # NoCode =>
               /\ code.secret # 0 /\ code.secret = Read(a).secret /\ row.secret = Read(a).secret
               /\ code.step > Read(a).lastStep /\ row.lastStep = code.step,
           \/ row.secret = 0
           \/ row.secret = Read(a).secret /\ row.lastStep >= Read(a).lastStep
           \/ gives = {} /\ row.secret = secrets + 1 /\ secrets' = secrets + 1
    PROVE  SignInInv'
  <1>1. PICK p : p = Pending(a, row, gives, code, strict)
    BY Zenon
  <1>2. /\ p \in Answer /\ p.a = a /\ p.read = sec[a] /\ p.row = row /\ p.gives = gives /\ p.code = code
        /\ sec \in [Accounts -> Row \cup {NoRow}]
    <2>1. sec \in [Accounts -> Row \cup {NoRow}]
      BY ZenonT(20) DEF SignInInv, TypeInv
    <2> QED BY <1>1, <2>1, Zenon DEF Pending, Answer
  <1>3. Seen(p) = Read(a)
    BY <1>2, Zenon DEF Seen, Read
  <1>4. req[r] = Idle /\ req' = [req EXCEPT ![r] = p]
    BY <1>1, ZenonT(20) DEF Begin
  <1>5. ~ Writes(req[r])
    BY <1>4, DeleteFacts, Zenon
  <1>6. TypeInv'
    <2>1. req' \in [Requests -> Answer \cup Delete]
      BY <1>2, <1>4, ZenonT(20) DEF SignInInv, TypeInv
    <2>2. account' \in [Accounts -> {"absent", "active", "disabled", "deleted"}]
          /\ sec' \in [Accounts -> Row \cup {NoRow}]
      BY Zenon DEF SignInInv, TypeInv, Adds
    <2> QED BY <2>1, <2>2, AddsFacts, Zenon DEF TypeInv
  <1>7. AnswerInv(p)'
    <2>1. Read(a).secret \in Nat /\ Read(a).secret <= secrets'
      <3>1. Read(a).secret \in Nat /\ Read(a).secret <= secrets
        BY ReadFacts, ZenonT(20) DEF SignInInv, Fit
      <3> QED BY <3>1, AddsFacts DEF Later
    <2>2. p.a = SA => account'[SA] # "absent"
      BY <1>2, Zenon DEF Adds
    <2>3. CodeFits(p)
      BY <1>2, <1>3, Zenon DEF CodeFits
    <2>4. Fit(p.a, p.row)'
      BY <1>2, Zenon DEF Fit
    <2> QED BY <1>2, <1>3, <2>1, <2>2, <2>3, <2>4, Zenon DEF AnswerInv
  <1>8. Kept(p) \/ (p.gives = {} /\ p.row.secret = secrets + 1 /\ secrets' = secrets + 1)
    BY <1>2, <1>3, Zenon DEF Kept
  <1>9. UNCHANGED <<account, sec, expires>>
    BY Zenon DEF Adds
  <1>10. p.read = sec[p.a]
    BY <1>2, Zenon
  <1> QED BY <1>2, <1>4, <1>5, <1>6, <1>7, <1>8, <1>9, <1>10, AddsFacts, BeginStep, ZenonT(20)

\* A failure is counted in the row read.
LEMMA FailInv ==
    ASSUME SignInInv, Adds, NEW r \in Requests, NEW a \in Accounts, a = SA => account[SA] # "absent",
           Begin(r, Pending(a, saFail(Read(a)), Nothing, NoCode, FALSE))
    PROVE  SignInInv'
  <1>1. PICK row \in Row : row = Read(a)
    BY ReadFacts, Zenon DEF SignInInv
  <1>2. /\ row.lastStep \in Nat /\ now \in Nat /\ secrets \in Nat /\ secrets' \in Nat
        /\ Fit(a, row) /\ Later /\ UNCHANGED account
    BY <1>1, AddsFacts, Zenon DEF Row, SignInInv, TypeInv, Adds
  <1>3. PICK new : new = saFail(row)
    BY Zenon
  <1>4. /\ new \in Row /\ new.secret = row.secret /\ new.enabled = row.enabled
        /\ new.mustChange = row.mustChange /\ new.lastStep = row.lastStep
    BY <1>2, <1>3, Counted
  <1>5. Fit(a, new)'
    BY <1>2, <1>4, FitLater, Zenon
  <1>6. Begin(r, Pending(a, new, {}, NoCode, FALSE))
    BY <1>1, <1>3, ZenonT(20) DEF Nothing
  <1>7. new.secret = Read(a).secret /\ new.lastStep >= Read(a).lastStep
    BY <1>1, <1>2, <1>4
  <1>8. {} \in SUBSET Kinds /\ "sa-access" \notin {} /\ FALSE \in BOOLEAN /\ NoCode \in Code
    BY DEF NoCode, Code
  <1> QED BY <1>4, <1>5, <1>6, <1>7, <1>8, BeginAction, ZenonT(20)

\* A code is checked against the row read.
LEMMA CheckCodeInv ==
    ASSUME SignInInv, Adds, NEW r \in Requests, NEW a \in Accounts, NEW code \in Codes,
           NEW success \in Row, success.secret = Read(a).secret, success.lastStep = Read(a).lastStep,
           VerifyTOTP(Read(a), code) # {} => Fit(a, success)',
           a = SA => account[SA] # "absent",
           NEW kind \in Kinds, NEW strict \in BOOLEAN,
           VerifyTOTP(Read(a), code) # {} /\ kind = "sa-access" => Forced' /\ h'.proven # {},
           CheckCode(r, a, Read(a), code, success, {kind}, strict)
    PROVE  SignInInv'
  <1>1. PICK row \in Row : row = Read(a)
    BY ReadFacts, ZenonT(20) DEF SignInInv
  <1>2. /\ row.secret \in Nat /\ row.lastStep \in Nat /\ now \in Nat /\ secrets \in Nat /\ secrets' \in Nat
        /\ Fit(a, row) /\ Later /\ UNCHANGED account
    BY <1>1, AddsFacts, Zenon DEF Row, SignInInv, TypeInv, Adds
  <1>3. CASE VerifyTOTP(row, code) = {}
    BY <1>1, <1>3, FailInv, ZenonT(20) DEF CheckCode
  <1>4. CASE VerifyTOTP(row, code) # {}
    <2>1. PICK step \in VerifyTOTP(row, code) :
             Begin(r, Pending(a, saSuccess(success, step), {kind}, code, strict))
      BY <1>1, <1>4, Zenon DEF CheckCode
    <2>2. step \in Int /\ code = [secret |-> row.secret, step |-> step] /\ step > row.lastStep
      <3>1. /\ step \in {now - 1, now, now + 1} /\ step > row.lastStep
            /\ code = [secret |-> row.secret, step |-> step]
        BY <2>1, Zenon DEF VerifyTOTP
      <3>2. now - 1 \in Int /\ now \in Int /\ now + 1 \in Int
        BY <1>2
      <3> QED BY <3>1, <3>2, Zenon
    <2>3. code \in Code /\ code.secret = row.secret /\ code.step = step
      BY <1>2, <2>2, ZenonT(20) DEF Code
    <2>4. code # NoCode => code.secret # 0
      BY <1>2 DEF Codes
    <2>5. PICK new : new = saSuccess(success, step)
      BY Zenon
    <2>6. /\ new \in Row /\ new.secret = row.secret /\ new.enabled = success.enabled
          /\ new.mustChange = success.mustChange /\ new.lastStep = step
      <3>1. step > 0
        BY <1>2, <2>2
      <3>2. now \in Nat /\ step \in Int
        BY <1>2, <2>2, Zenon
      <3> QED BY <1>1, <2>5, <3>1, <3>2, Counted, Zenon
    <2>7. Fit(a, success)'
      BY <1>1, <1>4, ZenonT(20)
    <2>8. Fit(a, new)'
      BY <1>1, <2>6, <2>7, ZenonT(20) DEF Fit
    <2>9. Begin(r, Pending(a, new, {kind}, code, strict))
      BY <2>1, <2>5, ZenonT(20)
    <2>10. "sa-access" \in {kind} => Forced' /\ h'.proven # {}
      BY <1>1, <1>4, Zenon
    <2>11. new.secret = Read(a).secret /\ new.lastStep >= Read(a).lastStep
      <3>1. step >= row.lastStep
        BY <1>2, <2>2
      <3> QED BY <1>1, <2>6, <3>1, Zenon
    <2>12. code # NoCode =>
              /\ code.secret # 0 /\ code.secret = Read(a).secret /\ new.secret = Read(a).secret
              /\ code.step > Read(a).lastStep /\ new.lastStep = code.step
      BY <1>1, <2>2, <2>3, <2>4, <2>6, ZenonT(20)
    <2>13. {kind} \in SUBSET Kinds
      BY Zenon
    <2> QED BY <2>3, <2>6, <2>8, <2>9, <2>10, <2>11, <2>12, <2>13, BeginAction, ZenonT(20)
  <1> QED BY <1>3, <1>4, Zenon

\* hSASetupBegin writes a new secret, disabled, and no longer demands a password it was given.
LEMMA SASetupBeginInv ==
    ASSUME SignInInv, NEW r \in Requests, NEW changes \in BOOLEAN, hSASetupBegin(r, changes)
    PROVE  SignInInv'
  <1>1. PICK row \in Row : row = Read(SA)
    BY ReadFacts, Zenon DEF SignInInv, Accounts
  <1>2. PICK b \in BOOLEAN : (b <=> (row.mustChange /\ ~ changes)) /\ b = (row.mustChange /\ ~ changes)
    BY Zenon
  <1>3. PICK new : new = [NewSecret(row) EXCEPT !.mustChange = b]
    BY Zenon
  <1>4. secrets \in Nat /\ h \in History /\ SA \in Accounts /\ Fit(SA, row)
    BY <1>1, Zenon DEF SignInInv, TypeInv, Accounts
  <1>5. /\ NewSecret(row) \in Row /\ NewSecret(row).secret = secrets + 1 /\ ~ NewSecret(row).enabled
        /\ NewSecret(row).mustChange = row.mustChange
    BY <1>4, NewSecretFacts, Zenon
  <1>6. new \in Row /\ new.secret = secrets + 1 /\ ~ new.enabled /\ new.mustChange = b
    BY <1>3, <1>5, Zenon DEF Row
  <1>7. Begin(r, Pending(SA, new, {}, NoCode, TRUE))
    <2>1. [NewSecret(row) EXCEPT !.mustChange = @ /\ ~ changes] = new
      BY <1>2, <1>3, <1>5, Zenon
    <2> QED BY <1>1, <2>1, Zenon DEF hSASetupBegin, Nothing
  <1>8. /\ Active(SA) /\ (row.mustChange => changes) /\ secrets' = secrets + 1
        /\ UNCHANGED <<now, account, sec, expires>>
        /\ h' = [h EXCEPT !.replaced = h.replaced \/ changes]
    BY <1>1, Zenon DEF hSASetupBegin, store
  <1>9. Adds /\ (changes => Forced')
    <2>1. PICK c \in BOOLEAN : (c <=> (h.replaced \/ changes)) /\ c = (h.replaced \/ changes)
      BY Zenon
    <2>2. h' = [h EXCEPT !.replaced = c]
      BY <1>8, <2>1, Zenon
    <2>3. changes => h'.replaced
      BY <1>4, <2>1, <2>2, Zenon DEF History
    <2> QED BY <1>8, <2>1, <2>2, <2>3, Zenon DEF Adds, Forced
  <1>10. Fit(SA, new)'
    <2>1. new.secret <= secrets'
      BY <1>4, <1>6, <1>8
    <2>2. ~ b => Forced' \/ account'[SA] = "absent"
      <3>1. ~ b /\ ~ changes => ~ row.mustChange
        BY <1>2, Zenon
      <3>2. ~ b /\ ~ changes => Forced \/ account[SA] = "absent"
        BY <1>4, <3>1, Zenon DEF Fit
      <3> QED BY <1>8, <1>9, <3>2, AddsFacts, Zenon DEF Later
    <2> QED BY <1>6, <2>1, <2>2, Zenon DEF Fit
  <1>11. {} \in SUBSET Kinds /\ "sa-access" \notin {} /\ TRUE \in BOOLEAN /\ NoCode \in Code
         /\ account[SA] # "absent"
    BY <1>8 DEF NoCode, Code, Active
  <1> QED BY <1>4, <1>6, <1>7, <1>8, <1>9, <1>10, <1>11, BeginAction, ZenonT(20)

\* hSASetupConfirm enables the secret it has just seen a right code of.
LEMMA SASetupConfirmInv ==
    ASSUME SignInInv, NEW r \in Requests, NEW code \in Codes, hSASetupConfirm(r, code)
    PROVE  SignInInv'
  <1>1. PICK row \in Row : row = Read(SA)
    BY ReadFacts, Zenon DEF SignInInv, Accounts
  <1>2. PICK new : new = [row EXCEPT !.enabled = TRUE]
    BY Zenon
  <1>3. new \in Row /\ new.secret = row.secret /\ new.lastStep = row.lastStep /\ new.mustChange = row.mustChange
    BY <1>2, Zenon DEF Row
  <1>4. /\ CheckCode(r, SA, Read(SA), code, new, {"sa-access"}, TRUE)
        /\ h' = IF VerifyTOTP(Read(SA), code) = {} THEN h ELSE [h EXCEPT !.proven = @ \cup {row.secret}]
        /\ Active(SA) /\ ~ row.mustChange /\ UNCHANGED <<now, account, sec, expires, secrets>>
    BY <1>1, <1>2, Zenon DEF hSASetupConfirm, store
  <1>5. SA \in Accounts /\ Fit(SA, row) /\ row.secret \in Nat /\ h \in History /\ account[SA] # "absent"
    BY <1>1, <1>4, Zenon DEF SignInInv, TypeInv, Accounts, Row, Active
  <1>6. Adds
    BY <1>4, <1>5, ZenonT(20) DEF Adds
  <1>7. ASSUME VerifyTOTP(Read(SA), code) # {}
        PROVE  Fit(SA, new)' /\ Forced' /\ h'.proven # {}
    <2>1. row.secret \in h'.proven
      BY <1>4, <1>5, <1>7, Zenon DEF History
    <2>2. Forced'
      BY <1>4, <1>5, <1>6, AddsFacts, Zenon DEF Fit, Later
    <2>3. new.secret <= secrets'
      BY <1>3, <1>4, <1>5, Zenon DEF Fit
    <2> QED BY <1>3, <2>1, <2>2, <2>3, Zenon DEF Fit
  <1>8. TRUE \in BOOLEAN /\ "sa-access" \in Kinds /\ new.secret = Read(SA).secret
        /\ new.lastStep = Read(SA).lastStep
    BY <1>1, <1>3, Zenon DEF Kinds
  <1> QED BY <1>3, <1>4, <1>5, <1>6, <1>7, <1>8, CheckCodeInv, ZenonT(20)

\* hSAVerify and hLoginTOTP: a code of an enabled authenticator.
LEMMA VerifyInv ==
    ASSUME SignInInv, NEW r \in Requests, NEW code \in Codes,
           NEW a \in Accounts, NEW kind \in Kinds, NEW strict \in BOOLEAN, kind = "sa-access" => a = SA,
           Active(a), Read(a).enabled, CheckCode(r, a, Read(a), code, Read(a), {kind}, strict),
           UNCHANGED <<now, account, sec, expires, secrets, h>>
    PROVE  SignInInv'
  <1>1. PICK row \in Row : row = Read(a)
    BY ReadFacts, Zenon DEF SignInInv
  <1>2. Adds /\ Fit(a, row) /\ secrets \in Nat
    BY <1>1, Zenon DEF Adds, SignInInv, TypeInv
  <1>3. Fit(a, row)'
    BY <1>2, AddsFacts, FitLater, Zenon
  <1>4. kind = "sa-access" => Forced' /\ h'.proven # {}
    BY <1>1, <1>3, ZenonT(20) DEF Fit
  <1>5. CheckCode(r, a, Read(a), code, row, {kind}, strict) /\ (a = SA => account[SA] # "absent")
    BY <1>1, Zenon DEF Active
  <1> QED BY <1>1, <1>2, <1>3, <1>4, <1>5, CheckCodeInv, ZenonT(20)

\* hLogin counts a wrong password, and resets the count on a right one.
LEMMA LoginInv ==
    ASSUME SignInInv, NEW r \in Requests, NEW right \in BOOLEAN, hLogin(r, right)
    PROVE  SignInInv'
  <1>1. PICK row \in Row : row = Read(AD)
    BY ReadFacts, Zenon DEF SignInInv, Accounts
  <1>2. UNCHANGED <<now, account, sec, expires, secrets, h>>
    BY Zenon DEF hLogin, store
  <1>3. Adds /\ Fit(AD, row) /\ secrets \in Nat /\ now \in Nat /\ AD \in Accounts /\ AD # SA /\ row.lastStep \in Nat
    BY <1>1, <1>2, Zenon DEF Adds, SignInInv, TypeInv, Accounts, SA, AD, Row
  <1>4. CASE ~ right
    BY <1>3, <1>4, FailInv, ZenonT(20) DEF hLogin, adminSecurityFail
  <1>5. CASE right
    <2>1. PICK kind : kind = IF row.enabled THEN "admin-totp" ELSE "ad-access"
      BY Zenon
    <2>2. PICK new : new = saSuccess(row, 0)
      BY Zenon
    <2>3. Begin(r, Pending(AD, new, {kind}, NoCode, FALSE))
      BY <1>1, <1>5, <2>1, <2>2, Zenon DEF hLogin, adminSecuritySuccess
    <2>4. /\ new \in Row /\ new.secret = row.secret /\ new.enabled = row.enabled
          /\ new.mustChange = row.mustChange /\ new.lastStep = row.lastStep
      BY <1>3, <2>2, Counted
    <2>5. Fit(AD, new)'
      BY <1>2, <1>3, <2>4, AddsFacts, FitLater, Zenon
    <2>6. {kind} \in SUBSET Kinds /\ "sa-access" \notin {kind} /\ FALSE \in BOOLEAN /\ NoCode \in Code
      BY <2>1 DEF Kinds, NoCode, Code
    <2>7. new.secret = Read(AD).secret /\ new.lastStep >= Read(AD).lastStep
      BY <1>1, <1>3, <2>4
    <2> QED BY <1>3, <2>3, <2>4, <2>5, <2>6, <2>7, BeginAction, ZenonT(20)
  <1> QED BY <1>4, <1>5, Zenon

\* hAdminTOTPBegin writes a new secret, disabled.
LEMMA AdminTOTPBeginInv ==
    ASSUME SignInInv, NEW r \in Requests, hAdminTOTPBegin(r)
    PROVE  SignInInv'
  <1>1. PICK row \in Row : row = Read(AD)
    BY ReadFacts, Zenon DEF SignInInv, Accounts
  <1>2. PICK new : new = NewSecret(row)
    BY Zenon
  <1>3. UNCHANGED <<now, account, sec, expires, h>> /\ secrets' = secrets + 1
    BY Zenon DEF hAdminTOTPBegin, store
  <1>4. Adds /\ secrets \in Nat /\ AD \in Accounts /\ AD # SA
    BY <1>3, Zenon DEF Adds, SignInInv, TypeInv, Accounts, SA, AD
  <1>5. new \in Row /\ new.secret = secrets + 1 /\ ~ new.enabled
    BY <1>2, <1>4, NewSecretFacts, Zenon
  <1>6. Begin(r, Pending(AD, new, {}, NoCode, TRUE))
    BY <1>1, <1>2, Zenon DEF hAdminTOTPBegin, Nothing
  <1>7. new.secret <= secrets'
    BY <1>3, <1>4, <1>5
  <1>8. Fit(AD, new)'
    BY <1>4, <1>5, <1>7, Zenon DEF Fit
  <1>9. {} \in SUBSET Kinds /\ "sa-access" \notin {} /\ TRUE \in BOOLEAN /\ NoCode \in Code
    BY DEF NoCode, Code
  <1> QED BY <1>3, <1>4, <1>5, <1>6, <1>8, <1>9, BeginAction, ZenonT(20)

\* hAdminTOTPConfirm enables the secret it has just seen a right code of.
LEMMA AdminTOTPConfirmInv ==
    ASSUME SignInInv, NEW r \in Requests, NEW code \in Codes, hAdminTOTPConfirm(r, code)
    PROVE  SignInInv'
  <1>1. PICK row \in Row : row = Read(AD) /\ row = sec[AD]
    <2>1. Read(AD) \in Row
      BY ReadFacts, Zenon DEF SignInInv, Accounts
    <2> QED BY <2>1, Zenon DEF hAdminTOTPConfirm, Read
  <1>2. PICK step \in VerifyTOTP(row, code) :
           Begin(r, Pending(AD, [row EXCEPT !.enabled = TRUE, !.lastStep = step], {}, NoCode, TRUE))
    BY <1>1, ZenonT(20) DEF hAdminTOTPConfirm, Nothing
  <1>3. /\ UNCHANGED <<now, account, sec, expires, secrets>>
        /\ h' = [h EXCEPT !.proven = @ \cup {row.secret}]
    BY <1>1, Zenon DEF hAdminTOTPConfirm, store
  <1>4. /\ row.secret \in Nat /\ row.lastStep \in Nat /\ now \in Nat /\ secrets \in Nat /\ h \in History
        /\ Fit(AD, row) /\ AD \in Accounts /\ AD # SA
    BY <1>1, Zenon DEF Row, SignInInv, TypeInv, Accounts, SA, AD
  <1>5. Adds /\ row.secret \in h'.proven
    BY <1>3, <1>4, ZenonT(20) DEF Adds, History
  <1>6. step \in Nat /\ step > row.lastStep
    BY <1>2, <1>4 DEF VerifyTOTP
  <1>7. PICK new : new = [row EXCEPT !.enabled = TRUE, !.lastStep = step]
    BY Zenon
  <1>8. new \in Row /\ new.secret = row.secret /\ new.lastStep = step
    BY <1>6, <1>7, Zenon DEF Row
  <1>9. new.secret = Read(AD).secret /\ new.lastStep >= Read(AD).lastStep /\ new.secret <= secrets'
    BY <1>1, <1>3, <1>4, <1>6, <1>8 DEF Fit
  <1>10. Fit(AD, new)'
    BY <1>4, <1>5, <1>8, <1>9, Zenon DEF Fit
  <1>11. {} \in SUBSET Kinds /\ "sa-access" \notin {} /\ TRUE \in BOOLEAN /\ NoCode \in Code
    BY DEF NoCode, Code
  <1> QED BY <1>2, <1>4, <1>5, <1>7, <1>8, <1>9, <1>10, <1>11, BeginAction, ZenonT(20)

\* hAdminTOTPDisable removes the secret with the flag.
LEMMA AdminTOTPDisableInv ==
    ASSUME SignInInv, NEW r \in Requests, NEW code \in Codes, hAdminTOTPDisable(r, code)
    PROVE  SignInInv'
  <1>1. PICK row \in Row : row = Read(AD) /\ row = sec[AD]
    <2>1. Read(AD) \in Row
      BY ReadFacts, Zenon DEF SignInInv, Accounts
    <2> QED BY <2>1, Zenon DEF hAdminTOTPDisable, Read
  <1>2. PICK new : new = [row EXCEPT !.enabled = FALSE, !.secret = 0]
    BY Zenon
  <1>3. Begin(r, Pending(AD, new, {}, NoCode, TRUE))
    BY <1>1, <1>2, Zenon DEF hAdminTOTPDisable, Nothing
  <1>4. UNCHANGED <<now, account, sec, expires, secrets, h>>
    BY Zenon DEF hAdminTOTPDisable, store
  <1>5. Adds /\ secrets \in Nat /\ secrets' \in Nat /\ AD \in Accounts /\ AD # SA
    BY <1>4, Zenon DEF Adds, SignInInv, TypeInv, Accounts, SA, AD
  <1>6. new \in Row /\ new.secret = 0 /\ ~ new.enabled
    BY <1>2, ZenonT(20) DEF Row
  <1>7. new.secret <= secrets'
    BY <1>5, <1>6
  <1>8. Fit(AD, new)'
    BY <1>5, <1>6, <1>7, Zenon DEF Fit
  <1>9. {} \in SUBSET Kinds /\ "sa-access" \notin {} /\ TRUE \in BOOLEAN /\ NoCode \in Code
    BY DEF NoCode, Code
  <1> QED BY <1>3, <1>5, <1>6, <1>8, <1>9, BeginAction, ZenonT(20)

-----------------------------------------------------------------------------
(* Saving the row *)

\* A save that succeeds, or fails, has the effects that WriteStep asks for.
LEMMA PutInv ==
    ASSUME SignInInv, NEW r \in Requests, PutSuperSecurity(r) \/ PutFails(r)
    PROVE  SignInInv'
  <1>1. PICK p : p = req[r]
    BY Zenon
  <1>2. Writes(p) /\ req' = [req EXCEPT ![r] = Idle] /\ UNCHANGED <<now, account, secrets>>
    BY <1>1, Zenon DEF PutSuperSecurity, PutFails, Writes, store
  <1>3. p \in Answer /\ p.a \in Accounts /\ p.row \in Row /\ p.code \in Code /\ h \in History
    BY <1>1, <1>2, AnswerFacts, ZenonT(20) DEF SignInInv, TypeInv
  <1>4. PICK used \in SUBSET Code, replayed \in SUBSET Accounts, lost \in SUBSET Accounts :
           /\ h' = [h EXCEPT !.used = used, !.replayed = replayed, !.lost = lost]
           /\ used \subseteq h.used \cup CodesOf(p) /\ h.lost \subseteq lost
           /\ \/ p.a \in lost
              \/ sec' = [sec EXCEPT ![p.a] = p.row] /\ sec[p.a] = p.read
           /\ \/ replayed = h.replayed
              \/ replayed = h.replayed \cup {p.a} /\ CodesOf(p) \cap h.used # {}
    <2>0. CodesOf(p) \subseteq Code
      BY <1>3, Zenon DEF CodesOf
    <2> DEFINE U == h.used \cup CodesOf(p)
               R == IF CodesOf(p) \cap h.used = {} THEN h.replayed ELSE h.replayed \cup {p.a}
    <2>1. /\ U \in SUBSET Code /\ R \in SUBSET Accounts
          /\ R = h.replayed \/ (R = h.replayed \cup {p.a} /\ CodesOf(p) \cap h.used # {})
          /\ h.used \in SUBSET Code /\ h.replayed \in SUBSET Accounts /\ h.lost \in SUBSET Accounts
      BY <1>3, <2>0, Zenon DEF History
    <2>2. Opened(p) = [h EXCEPT !.used = U, !.replayed = R]
      BY Zenon DEF Opened
    <2> HIDE DEF U, R
    <2>3. CASE PutSuperSecurity(r)
      <3> DEFINE L == IF sec[p.a] = p.read THEN h.lost ELSE h.lost \cup {p.a}
      <3>1. sec' = [sec EXCEPT ![p.a] = p.row]
            /\ h' = [Opened(p) EXCEPT !.lost = IF sec[p.a] = p.read THEN @ ELSE @ \cup {p.a}]
        BY <1>1, <2>3, Zenon DEF PutSuperSecurity
      <3>2. h' = [h EXCEPT !.used = U, !.replayed = R, !.lost = L]
        BY <1>3, <2>2, <3>1, Zenon DEF History
      <3>3. L \in SUBSET Accounts /\ h.lost \subseteq L /\ (p.a \in L \/ sec[p.a] = p.read)
        BY <1>3, <2>1, Zenon
      <3> HIDE DEF L
      <3> QED BY <2>1, <3>1, <3>2, <3>3, ZenonT(40) DEF U
    <2>4. CASE PutFails(r)
      <3> DEFINE L == h.lost \cup {p.a}
      <3>1. h' = [(IF p.strict THEN h ELSE Opened(p)) EXCEPT !.lost = @ \cup {p.a}]
        BY <1>1, <2>4, Zenon DEF PutFails
      <3>2. h' = [h EXCEPT !.used = h.used, !.replayed = h.replayed, !.lost = L]
            \/ h' = [h EXCEPT !.used = U, !.replayed = R, !.lost = L]
        BY <1>3, <2>2, <3>1, ZenonT(20) DEF History
      <3>3. L \in SUBSET Accounts /\ h.lost \subseteq L /\ p.a \in L
        BY <1>3, <2>1, Zenon
      <3> HIDE DEF L
      <3> QED BY <2>1, <3>2, <3>3, ZenonT(20) DEF U
    <2> QED BY <2>3, <2>4, ZenonT(20)
  <1>5. /\ h' \in History /\ h'.used = used /\ h'.replayed = replayed /\ h'.lost = lost
        /\ h'.proven = h.proven /\ h'.removed = h.removed /\ Forced' = Forced
    BY <1>3, <1>4, ZenonT(20) DEF History, Forced
  <1>6. sec' = sec \/ sec' = [sec EXCEPT ![p.a] = p.row]
    BY <1>1, Zenon DEF PutSuperSecurity, PutFails, store
  <1>7. expires'["sa-access"] = expires["sa-access"] \/ "sa-access" \in p.gives
    BY <1>1, Zenon DEF PutSuperSecurity, PutFails, Issue, Kinds, Nothing
  <1>8. TypeInv'
    <2>1. sec' \in [Accounts -> Row \cup {NoRow}]
      BY <1>3, <1>6, Zenon DEF SignInInv, TypeInv
    <2>2. req' \in [Requests -> Answer \cup Delete]
      BY <1>2, DeleteFacts, Zenon DEF SignInInv, TypeInv
    <2>3. account' \in [Accounts -> {"absent", "active", "disabled", "deleted"}]
          /\ now' \in Nat \ {0} /\ secrets' \in Nat
      BY <1>2, Zenon DEF SignInInv, TypeInv
    <2> QED BY <1>5, <2>1, <2>2, <2>3, Zenon DEF TypeInv
  <1>9. UNCHANGED <<account, secrets>>
    BY <1>2, Zenon
  <1> QED BY <1>1, <1>2, <1>4, <1>5, <1>6, <1>7, <1>8, <1>9, WriteStep, ZenonT(20)

-----------------------------------------------------------------------------
(* The other steps *)

\* The first password, and whether the super admin's first row was written.
LEMMA EnsureInv ==
    ASSUME SignInInv, NEW saved \in BOOLEAN, ensureSuperAdmin(saved)
    PROVE  SignInInv'
  <1>1. /\ account[SA] = "absent" /\ account' = [account EXCEPT ![SA] = "active"]
        /\ UNCHANGED <<now, expires, secrets, req>>
    BY Zenon DEF ensureSuperAdmin
  <1>2. /\ SA \in Accounts /\ AD \in Accounts /\ SA # AD /\ h \in History /\ secrets \in Nat
        /\ sec \in [Accounts -> Row \cup {NoRow}]
        /\ account \in [Accounts -> {"absent", "active", "disabled", "deleted"}]
    BY Zenon DEF SignInInv, TypeInv, Accounts, SA, AD
  <1>3. account'[SA] = "active" /\ account'[AD] = account[AD]
    BY <1>1, <1>2, Zenon
  <1>4. /\ h' \in History /\ h'.used = h.used /\ h'.lost = h.lost /\ h'.replayed = h.replayed
        /\ h'.proven = h.proven /\ h'.removed = h.removed /\ (Forced => Forced')
        /\ sec' = [sec EXCEPT ![SA] = FirstRow] \/ (sec' = sec /\ Forced')
    <2>1. CASE saved
      BY <1>2, <2>1, Zenon DEF ensureSuperAdmin, Forced
    <2>2. CASE ~ saved
      <3>1. h' = [h EXCEPT !.unforced = TRUE] /\ sec' = sec
        BY <2>2, Zenon DEF ensureSuperAdmin
      <3> QED BY <1>2, <3>1, Zenon DEF Forced, History
    <2> QED BY <2>1, <2>2, Zenon
  <1>5. TypeInv'
    <2>1. account' \in [Accounts -> {"absent", "active", "disabled", "deleted"}]
      BY <1>1, <1>2, Zenon
    <2>2. sec' \in [Accounts -> Row \cup {NoRow}]
      <3>1. [sec EXCEPT ![SA] = FirstRow] \in [Accounts -> Row \cup {NoRow}]
        BY <1>2, FirstRows, Zenon
      <3> QED BY <1>2, <1>4, <3>1, Zenon
    <2> QED BY <1>1, <1>4, <2>1, <2>2, Zenon DEF SignInInv, TypeInv
  <1>6. Later
    BY <1>1, <1>2, <1>3, <1>4, SMTT(60) DEF Later
  <1>7. \A a \in Accounts : Read(a)' = Read(a) \/ Read(a)'.secret = 0
    BY <1>2, <1>4, FirstRows, Zenon DEF Read
  <1>8. ASSUME NEW a \in Accounts PROVE Fit(a, Read(a))'
    <2>1. PICK row \in Row : row = Read(a)' /\ (row = Read(a) \/ (a = SA /\ row = FirstRow))
      <3>1. Read(a) \in Row
        BY ReadFacts, Zenon DEF SignInInv
      <3> QED BY <1>2, <1>4, <3>1, FirstRows, Zenon DEF Read
    <2>2. row.secret <= secrets'
      <3>1. Read(a).secret <= secrets
        BY Zenon DEF SignInInv, Fit
      <3> QED BY <1>1, <1>2, <2>1, <3>1, FirstRows
    <2>3. row.enabled => row.secret \in h'.proven /\ (a = SA => Forced')
      <3>1. Fit(a, Read(a))
        BY Zenon DEF SignInInv
      <3> QED BY <1>4, <2>1, <3>1, FirstRows, Zenon DEF Fit
    <2>4. a = SA /\ ~ row.mustChange => Forced'
      <3>1. CASE sec' = sec /\ Forced'
        BY <3>1, Zenon
      <3>2. CASE sec' = [sec EXCEPT ![SA] = FirstRow]
        <4>1. a = SA => row = FirstRow
          BY <1>2, <2>1, <3>2, FirstRows, Zenon DEF Read
        <4> QED BY <4>1, FirstRows, Zenon
      <3> QED BY <1>4, <3>1, <3>2, Zenon
    <2>5. Fit(a, row)'
      BY <2>2, <2>3, <2>4, Zenon DEF Fit
    <2> QED BY <2>1, <2>5, ZenonT(20) DEF Fit
  <1>9. SessionInv' /\ DeleteInv' /\ RemovedStaysOut'
    BY <1>1, <1>3, <1>4, Zenon DEF SignInInv, SessionInv, DeleteInv, RemovedStaysOut
  <1> QED BY <1>1, <1>4, <1>5, <1>6, <1>7, <1>8, <1>9, QuietStep, ZenonT(20)

\* Any step that leaves the super admin's account and row alone, and at most
\* empties the admin's row.
LEMMA QuietAction ==
    ASSUME SignInInv, TypeInv', UNCHANGED secrets, account'[SA] = account[SA], Forced => Forced',
           h'.proven = h.proven, h'.used = h.used, h'.lost = h.lost, h'.replayed = h.replayed,
           expires'["sa-access"] = expires["sa-access"],
           \A q \in Requests : req'[q] = req[q] \/ ~ Writes(req'[q]),
           \A a \in Accounts : sec'[a] = sec[a] \/ (a = AD /\ sec'[a] \in {EmptyRow, NoRow}),
           DeleteInv', RemovedStaysOut'
    PROVE  SignInInv'
  <1>1. secrets \in Nat /\ secrets' \in Nat
    BY Zenon DEF SignInInv, TypeInv
  <1>2. Later
    BY <1>1 DEF Later
  <1>3. \A a \in Accounts : Read(a)' = Read(a) \/ (a = AD /\ Read(a)' = EmptyRow)
    BY Zenon DEF Read
  <1>4. ASSUME NEW a \in Accounts PROVE Fit(a, Read(a))'
    <2>1. PICK row \in Row : row = Read(a)' /\ (row = Read(a) \/ (a = AD /\ row = EmptyRow))
      <3>1. Read(a) \in Row
        BY ReadFacts, Zenon DEF SignInInv
      <3> QED BY <1>3, <3>1, FirstRows, Zenon
    <2>2. Fit(a, row)'
      <3>1. CASE row = Read(a)
        BY <1>1, <1>2, <3>1, FitLater, Zenon DEF SignInInv
      <3>2. CASE a = AD /\ row = EmptyRow
        <4>1. row.secret <= secrets' /\ AD # SA
          BY <1>1, <3>2, FirstRows DEF SA, AD
        <4> QED BY <3>2, <4>1, FirstRows, Zenon DEF Fit
      <3> QED BY <2>1, <3>1, <3>2, Zenon
    <2> QED BY <2>1, <2>2, Zenon DEF Fit
  <1>5. \A a \in Accounts : Read(a)' = Read(a) \/ Read(a)'.secret = 0
    BY <1>3, FirstRows, Zenon
  <1>6. SessionInv'
    BY Zenon DEF SignInInv, SessionInv
  <1> QED BY <1>2, <1>4, <1>5, <1>6, QuietStep, Zenon

\* The account is created, the server restarts, time passes.
LEMMA EnvironmentInv ==
    ASSUME SignInInv, CreateAdmin \/ Restart \/ Tick PROVE SignInInv'
  <1>1. /\ UNCHANGED <<sec, expires, secrets, h>> /\ account'[SA] = account[SA]
        /\ (account' = account \/ account[AD] = "absent")
        /\ account' \in [Accounts -> {"absent", "active", "disabled", "deleted"}]
        /\ (account[AD] # "absent" => account'[AD] = account[AD]) /\ now' \in Nat \ {0}
    BY DEF CreateAdmin, Restart, Tick, SignInInv, TypeInv, Accounts, SA, AD
  <1>2. req' \in [Requests -> Answer \cup Delete] /\ \A q \in Requests : req'[q] = req[q] \/ req'[q] = Idle
    BY DeleteFacts, ZenonT(20) DEF CreateAdmin, Restart, Tick, SignInInv, TypeInv
  <1>3. TypeInv'
    BY <1>1, <1>2, Zenon DEF SignInInv, TypeInv
  <1>4. DeleteInv'
    <2>1. Idle # [delete |-> "account"] /\ Idle # [delete |-> "refused"]
      BY Zenon DEF Idle
    <2> QED BY <1>1, <1>2, <2>1, Zenon DEF SignInInv, DeleteInv
  <1>5. RemovedStaysOut'
    BY <1>1, Zenon DEF SignInInv, RemovedStaysOut
  <1>6. \A q \in Requests : req'[q] = req[q] \/ ~ Writes(req'[q])
    BY <1>2, DeleteFacts, Zenon
  <1>7. Forced => Forced'
    BY <1>1, Zenon DEF Forced
  <1> QED BY <1>1, <1>3, <1>4, <1>5, <1>6, <1>7, QuietAction, Zenon

\* A right password of the super admin, and a new one.
LEMMA PasswordInv ==
    ASSUME SignInInv, hSAChangePassword \/ (\E r \in Requests : hSALogin(r, TRUE)) PROVE SignInInv'
  <1>1. UNCHANGED <<now, account, sec, secrets, req>> /\ (h' = h \/ h' = [h EXCEPT !.replaced = TRUE])
    BY Zenon DEF hSAChangePassword, hSALogin, store
  <1>2. expires'["sa-access"] = expires["sa-access"]
    <2>1. CASE hSAChangePassword
      BY <2>1, Zenon DEF hSAChangePassword
    <2>2. ASSUME NEW r \in Requests, hSALogin(r, TRUE) PROVE <1>2!:
      <3>1. PICK kind \in {"setup", "totp"} : Issue({kind})
        BY <2>2, Zenon DEF hSALogin
      <3> QED BY <3>1, Zenon DEF Issue, Kinds
    <2> QED BY <2>1, <2>2, ZenonT(20)
  <1>3. h \in History
    BY Zenon DEF SignInInv, TypeInv
  <1>4. /\ h' \in History /\ h'.used = h.used /\ h'.lost = h.lost /\ h'.replayed = h.replayed
        /\ h'.proven = h.proven /\ h'.removed = h.removed /\ (Forced => Forced')
    BY <1>1, <1>3, Zenon DEF Forced, History
  <1>5. TypeInv'
    BY <1>1, <1>4, Zenon DEF SignInInv, TypeInv
  <1>6. DeleteInv' /\ RemovedStaysOut'
    BY <1>1, <1>4, Zenon DEF SignInInv, DeleteInv, RemovedStaysOut
  <1> QED BY <1>1, <1>2, <1>4, <1>5, <1>6, QuietAction, Zenon

\* The super admin changes the status of the admin, resets or deletes it.
LEMMA ManageInv ==
    ASSUME SignInInv,
           \/ \E status \in {"active", "disabled"} : hUpdateAdmin(status)
           \/ hResetAdminSecurity
           \/ \E r \in Requests : DeleteSecurity(r) \/ DeleteAccount(r) \/ Tombstone(r)
    PROVE  SignInInv'
  <1> DEFINE Gone == {[delete |-> "account"], [delete |-> "refused"]}
  <1>1. SA \in Accounts /\ AD \in Accounts /\ SA # AD /\ h \in History
        /\ account \in [Accounts -> {"absent", "active", "disabled", "deleted"}]
        /\ sec \in [Accounts -> Row \cup {NoRow}] /\ req \in [Requests -> Answer \cup Delete]
    BY Zenon DEF SignInInv, TypeInv, Accounts, SA, AD
  <1>2. UNCHANGED <<now, expires, secrets>>
    BY Zenon DEF hUpdateAdmin, hResetAdminSecurity, DeleteSecurity, DeleteAccount, Tombstone
  <1>3. sec' = sec \/ sec' = [sec EXCEPT ![AD] = EmptyRow] \/ sec' = [sec EXCEPT ![AD] = NoRow]
    BY Zenon DEF hUpdateAdmin, hResetAdminSecurity, DeleteSecurity, DeleteAccount, Tombstone
  <1>4. \/ account' = account
        \/ \E status \in {"active", "disabled", "deleted"} : account' = [account EXCEPT ![AD] = status]
    BY Zenon DEF hUpdateAdmin, hResetAdminSecurity, DeleteSecurity, DeleteAccount, Tombstone
  <1>5. h' = h \/ \E b \in BOOLEAN : h' = [h EXCEPT !.removed = b]
    <2>1. ASSUME NEW status \in {"active", "disabled"}, hUpdateAdmin(status)
          PROVE  \E b \in BOOLEAN : h' = [h EXCEPT !.removed = b]
      <3>1. PICK b \in BOOLEAN : b = (h.removed /\ status = "disabled")
        BY Zenon
      <3> QED BY <2>1, <3>1, ZenonT(20) DEF hUpdateAdmin
    <2> QED BY <2>1, ZenonT(20) DEF hResetAdminSecurity, DeleteSecurity, DeleteAccount, Tombstone
  <1>6. req' = req \/ \E r \in Requests, p \in Delete : req' = [req EXCEPT ![r] = p]
    BY DeleteFacts, Zenon DEF hUpdateAdmin, hResetAdminSecurity, DeleteSecurity, DeleteAccount, Tombstone, Begin
  <1>7. TypeInv'
    <2>1. sec' \in [Accounts -> Row \cup {NoRow}]
      BY <1>1, <1>3, FirstRows, Zenon
    <2>2. account' \in [Accounts -> {"absent", "active", "disabled", "deleted"}]
      BY <1>1, <1>4, Zenon
    <2>3. req' \in [Requests -> Answer \cup Delete]
      BY <1>1, <1>6, Zenon
    <2>4. h' \in History
      BY <1>1, <1>5, Zenon DEF History
    <2> QED BY <1>2, <2>1, <2>2, <2>3, <2>4, Zenon DEF SignInInv, TypeInv
  <1>8. \A q \in Requests : req'[q] = req[q] \/ ~ Writes(req'[q])
    BY <1>1, <1>6, DeleteFacts, Zenon
  <1>9. /\ h'.used = h.used /\ h'.lost = h.lost /\ h'.replayed = h.replayed /\ h'.proven = h.proven
        /\ Forced => Forced'
    BY <1>1, <1>5, Zenon DEF History, Forced
  <1>10. account'[SA] = account[SA] /\ (account[AD] # "absent" => account'[AD] # "absent")
    BY <1>1, <1>4, Zenon
  <1>11. \A a \in Accounts : sec'[a] = sec[a] \/ (a = AD /\ sec'[a] \in {EmptyRow, NoRow})
    BY <1>1, <1>3, Zenon
  <1>12. DeleteInv'
    <2>1. ASSUME NEW q \in Requests, req'[q] \in Gone, req[q] \notin Gone
          PROVE  account[AD] # "absent"
      <3>1. Idle \notin Gone
        BY Zenon DEF Idle
      <3> QED BY <1>1, <2>1, <3>1, Zenon
              DEF hUpdateAdmin, hResetAdminSecurity, DeleteSecurity, DeleteAccount, Tombstone, Begin, Exists
    <2> QED BY <1>10, <2>1, Zenon DEF SignInInv, DeleteInv
  <1>13. RemovedStaysOut'
    <2>1. ASSUME NEW status \in {"active", "disabled"}, hUpdateAdmin(status) PROVE RemovedStaysOut'
      <3>1. h' = [h EXCEPT !.removed = h.removed /\ status = "disabled"] /\ account'[AD] = status
        BY <1>1, <2>1, Zenon DEF hUpdateAdmin
      <3>2. h'.removed => status = "disabled"
        BY <1>1, <3>1, ZenonT(20) DEF History
      <3> QED BY <3>1, <3>2, Zenon DEF RemovedStaysOut
    <2>2. ASSUME NEW r \in Requests, DeleteAccount(r) PROVE RemovedStaysOut'
      <3>1. account'[AD] = "deleted" \/ (account' = account /\ h' = h)
        BY <1>1, <2>2, Zenon DEF DeleteAccount
      <3> QED BY <3>1, Zenon DEF SignInInv, RemovedStaysOut
    <2>3. ASSUME NEW r \in Requests, Tombstone(r) PROVE RemovedStaysOut'
      <3>1. account[AD] # "absent"
        BY <2>3, Zenon DEF Tombstone, SignInInv, DeleteInv
      <3>2. account'[AD] \in {"deleted", "disabled"}
        BY <1>1, <2>3, <3>1, Zenon DEF Tombstone, Exists
      <3> QED BY <3>2, Zenon DEF RemovedStaysOut
    <2>4. ASSUME NEW r \in Requests, DeleteSecurity(r) PROVE RemovedStaysOut'
      BY <2>4, Zenon DEF DeleteSecurity, SignInInv, RemovedStaysOut
    <2>5. CASE hResetAdminSecurity
      BY <2>5, Zenon DEF hResetAdminSecurity, SignInInv, RemovedStaysOut
    <2> QED BY <2>1, <2>2, <2>3, <2>4, <2>5, Zenon
  <1>14. expires'["sa-access"] = expires["sa-access"] /\ UNCHANGED secrets
    BY <1>2, Zenon
  <1> QED BY <1>7, <1>8, <1>9, <1>10, <1>11, <1>12, <1>13, <1>14, QuietAction, ZenonT(20)

-----------------------------------------------------------------------------
(* The specification *)

\* The invariant holds before the first start.
LEMMA InitInv == Init => SignInInv
  <1> SUFFICES ASSUME Init PROVE SignInInv
    BY Zenon
  <1>1. TypeInv
    <2>1. h \in History
      BY Zenon DEF Init, History
    <2> QED BY <2>1, DeleteFacts DEF Init, TypeInv
  <1>2. \A a \in Accounts : Read(a) = EmptyRow
    BY Zenon DEF Init, Read
  <1>3. \A r \in Requests : req[r] = Idle /\ ~ Writes(req[r])
    BY DeleteFacts, Zenon DEF Init
  <1>4. \A a \in Accounts : Fit(a, Read(a))
    <2>1. 0 <= secrets /\ account[SA] = "absent"
      BY DEF Init, Accounts
    <2> QED BY <1>2, <2>1, FirstRows, Zenon DEF Fit
  <1>5. Apart
    BY <1>2, <1>3, FirstRows, Zenon DEF Apart, Holds, Accounts
  <1>6. h.used = {} /\ h.replayed = {} /\ h.removed = FALSE /\ expires["sa-access"] = 0
    BY Zenon DEF Init, Kinds
  <1>7. UsedInv /\ SessionInv /\ CodeOpensOneSession /\ RemovedStaysOut
    BY <1>6 DEF UsedInv, SessionInv, CodeOpensOneSession, RemovedStaysOut
  <1>8. DeleteInv
    <2>1. Idle # [delete |-> "account"] /\ Idle # [delete |-> "refused"]
      BY Zenon DEF Idle
    <2> QED BY <1>3, <2>1, Zenon DEF DeleteInv
  <1> QED BY <1>1, <1>3, <1>4, <1>5, <1>7, <1>8, Zenon DEF SignInInv

\* Every step preserves it.
LEMMA StepInv == SignInInv /\ [Next]_vars => SignInInv'
  <1> SUFFICES ASSUME SignInInv, [Next]_vars PROVE SignInInv'
    BY Zenon
  <1>1. ASSUME NEW r \in Requests, NEW b \in BOOLEAN, hSALogin(r, b) PROVE SignInInv'
    <2>1. CASE b
      BY <1>1, <2>1, PasswordInv, ZenonT(20)
    <2>2. CASE ~ b
      <3>1. Begin(r, Pending(SA, saFail(Read(SA)), Nothing, NoCode, FALSE))
            /\ UNCHANGED <<now, account, sec, expires, secrets, h>> /\ Active(SA)
        BY <1>1, <2>2, Zenon DEF hSALogin
      <3>2. Adds /\ SA \in Accounts /\ account[SA] # "absent"
        BY <3>1, Zenon DEF Adds, Accounts, Active
      <3> QED BY <3>1, <3>2, FailInv, ZenonT(20)
    <2> QED BY <2>1, <2>2, Zenon
  <1>2. ASSUME NEW r \in Requests, NEW code \in Codes, hSAVerify(r, code) PROVE SignInInv'
    <2>1. /\ Active(SA) /\ Read(SA).enabled
          /\ CheckCode(r, SA, Read(SA), code, Read(SA), {"sa-access"}, TRUE)
          /\ UNCHANGED <<now, account, sec, expires, secrets, h>>
      BY <1>2, ZenonT(20) DEF hSAVerify, store
    <2>2. SA \in Accounts /\ "sa-access" \in Kinds /\ TRUE \in BOOLEAN
      BY Zenon DEF Accounts, Kinds
    <2> QED BY <2>1, <2>2, VerifyInv, ZenonT(20)
  <1>3. ASSUME NEW r \in Requests, NEW code \in Codes, hLoginTOTP(r, code) PROVE SignInInv'
    <2>1. /\ Active(AD) /\ Read(AD).enabled
          /\ CheckCode(r, AD, Read(AD), code, Read(AD), {"ad-access"}, FALSE)
          /\ UNCHANGED <<now, account, sec, expires, secrets, h>>
      BY <1>3, ZenonT(20) DEF hLoginTOTP, store
    <2>2. AD \in Accounts /\ "ad-access" \in Kinds /\ FALSE \in BOOLEAN
      BY Zenon DEF Accounts, Kinds
    <2> QED BY <2>1, <2>2, VerifyInv, ZenonT(20)
  <1>4. ASSUME NEW r \in Requests, NEW b \in BOOLEAN, hSASetupBegin(r, b) \/ hLogin(r, b) PROVE SignInInv'
    BY <1>4, SASetupBeginInv, LoginInv, Zenon
  <1>5. ASSUME NEW r \in Requests, NEW code \in Codes,
               hSASetupConfirm(r, code) \/ hAdminTOTPConfirm(r, code) \/ hAdminTOTPDisable(r, code)
        PROVE  SignInInv'
    BY <1>5, SASetupConfirmInv, AdminTOTPConfirmInv, AdminTOTPDisableInv, Zenon
  <1>6. ASSUME NEW r \in Requests, hAdminTOTPBegin(r) \/ PutSuperSecurity(r) \/ PutFails(r) PROVE SignInInv'
    BY <1>6, AdminTOTPBeginInv, PutInv, Zenon
  <1>7. CASE UNCHANGED vars
    <2>1. UNCHANGED <<now, account, sec, expires, secrets, req, h>>
      BY <1>7, Zenon DEF vars
    <2>2. TypeInv' /\ DeleteInv' /\ RemovedStaysOut' /\ (Forced => Forced')
      BY <2>1, Zenon DEF SignInInv, TypeInv, DeleteInv, RemovedStaysOut, Forced
    <2> QED BY <2>1, <2>2, QuietAction, Zenon
  <1> QED BY <1>1, <1>2, <1>3, <1>4, <1>5, <1>6, <1>7, EnsureInv, EnvironmentInv, PasswordInv, ManageInv, ZenonT(20)
          DEF Next

\* The invariant of every behaviour.
LEMMA SignInInvariant == Spec => []SignInInv
  BY InitInv, StepInv, PTL DEF Spec

\* An authenticator that is required is one whose owner gave a right code of its
\* secret, and the super admin has no session before one was proven and the first
\* password replaced (or the row that demands it was never written), for any
\* number of overlapping requests, any of which may fail to save or be cut off.
THEOREM SecondFactorCorrect == Spec => []SecondFactorIsProven
  <1>1. SignInInv => SecondFactorIsProven
    BY ZenonT(20) DEF SignInInv, Fit, SessionInv, Forced, SecondFactorIsProven
  <1> QED BY <1>1, SignInInvariant, PTL

\* A code opens a second session only if a save of its account's row was lost.
THEOREM CodeOpensOneCorrect == Spec => []CodeOpensOneSession
  <1>1. SignInInv => CodeOpensOneSession
    BY Zenon DEF SignInInv
  <1> QED BY <1>1, SignInInvariant, PTL

\* An admin whose deletion was answered stays out until it is enabled again.
THEOREM RemovedStaysOutCorrect == Spec => []RemovedStaysOut
  <1>1. SignInInv => RemovedStaysOut
    BY Zenon DEF SignInInv
  <1> QED BY <1>1, SignInInvariant, PTL


-----------------------------------------------------------------------------
(* Submissions *)

\* What a submission has established when it is at a step of hSubmitDocument.
Progress(p) ==
    LET s == sub[p] IN
    /\ s.pc # "idle" => s.body \in Bodies
    /\ s.pc \in {"check", "verify", "cert"} => s.body \notin Large
    /\ s.pc \in {"insert", "finish"} => object # None
    /\ s.pc = "finish" => signature # None /\ signature.body = s.body

\* What stands between a withdrawn certificate and the record.
Withheld(p) ==
    LET s == sub[p] IN
    /\ s.pc = "check" => \A c \in s.revoked : device = "lost" \/ cert[c] = "revoked"
    /\ s.pc \in {"verify", "cert"} => \A c \in s.revoked : cert[c] = "revoked"
    /\ s.pc \in {"check", "verify"} => s.listed \subseteq crl
    /\ s.pc = "cert" => s.body \in Valid /\ SignedWith[s.body] \notin s.listed
    /\ s.pc \in {"put", "insert"} /\ s.body \notin Large =>
          s.body \in Valid /\ SignedWith[s.body] \notin s.revoked \cup s.listed

\* The inductive invariant.
Inv ==
    /\ TypeOK
    /\ \A p \in Submissions : Progress(p)
    /\ \A p \in Submissions : Withheld(p)
    /\ AcceptedIsVerified
    /\ RecordHasObject
    /\ AcksAgree

-----------------------------------------------------------------------------
SubmissionType ==
    [pc : {"idle", "check", "verify", "cert", "put", "insert", "finish"},
     body : Bodies \cup {None}, revoked : SUBSET Certs, listed : SUBSET Certs]

\* The row CreateSignature writes is a row of the signatures table.
LEMMA RecordType ==
    ASSUME TypeOK, NEW p \in Submissions, sub[p].body \in Bodies
    PROVE  Record(p) \in Signature /\ Record(p) # None
BY SubmissionAssumption DEF TypeOK, Record, Signature

\* Every handler of the server keeps the types of its rows and requests.
LEMMA TypeStep == TypeOK /\ (\A p \in Submissions : Progress(p)) /\ [SubmissionNext]_submissionVars => TypeOK'
<1> SUFFICES ASSUME TypeOK, \A p \in Submissions : Progress(p), [SubmissionNext]_submissionVars PROVE TypeOK'
    BY Zenon
<1> USE SubmissionAssumption
<1>1. ASSUME NEW c \in Certs, IssueCertificate(c) PROVE TypeOK'
    BY <1>1, Zenon DEF TypeOK, IssueCertificate
<1>2. ASSUME NEW c \in Certs, hRevoke(c) PROVE TypeOK'
    BY <1>2, Zenon DEF TypeOK, hRevoke
<1>3. ASSUME NEW list \in SUBSET Certs, hImportCRL(list) PROVE TypeOK'
  <2>1. sub \in [Submissions -> SubmissionType]
    BY Zenon DEF TypeOK, SubmissionType
  <2>2. \A s \in SubmissionType : [s EXCEPT !.listed = @ \cap list] \in SubmissionType
    BY Zenon DEF SubmissionType
  <2>3. sub' \in [Submissions -> SubmissionType]
    BY <1>3, <2>1, <2>2, Zenon DEF hImportCRL
  <2>. QED
    BY <1>3, <2>3, Zenon DEF TypeOK, hImportCRL, SubmissionType
<1>4. CASE hReportLost
    BY <1>4, Zenon DEF TypeOK, hReportLost
<1>5. CASE hReserve
    BY <1>5, Zenon DEF TypeOK, hReserve, pkiVars
<1>6. ASSUME NEW p \in Submissions, NEW b \in Bodies, Start(p, b) PROVE TypeOK'
    BY <1>6 DEF TypeOK, Start, Success, Answered, NoSubmission, pkiVars, At, Signature
<1>7. ASSUME NEW p \in Submissions, CheckReservation(p) PROVE TypeOK'
    BY <1>7 DEF TypeOK, CheckReservation, Answered, Goto, NoSubmission, pkiVars
<1>8. ASSUME NEW p \in Submissions, VerifyPDF(p) PROVE TypeOK'
    BY <1>8 DEF TypeOK, VerifyPDF, Answered, Goto, NoSubmission, pkiVars
<1>9. ASSUME NEW p \in Submissions, CheckCertificate(p) PROVE TypeOK'
    BY <1>9 DEF TypeOK, CheckCertificate, Answered, Goto, NoSubmission, pkiVars
<1>10. ASSUME NEW p \in Submissions, PutObject(p) PROVE TypeOK'
    BY <1>10 DEF TypeOK, PutObject, Goto, pkiVars
<1>11. ASSUME NEW p \in Submissions, PutObjectFails(p) PROVE TypeOK'
    BY <1>11, Zenon DEF TypeOK, PutObjectFails, Answered, NoSubmission, pkiVars
<1>12. ASSUME NEW p \in Submissions, Insert(p) PROVE TypeOK'
  <2>1. sub[p].body \in Bodies
    BY <1>12, Zenon DEF Progress, Insert, At
  <2>2. signature' \in Signature \cup {None}
    BY <1>12, <2>1, RecordType DEF TypeOK, Insert
  <2>. QED
    BY <1>12, <2>2 DEF TypeOK, Insert, Answered, Goto, NoSubmission, pkiVars
<1>13. ASSUME NEW p \in Submissions, InsertFails(p) PROVE TypeOK'
  <2>1. sub[p].body \in Bodies
    BY <1>13, Zenon DEF Progress, InsertFails, At
  <2>2. signature' \in Signature \cup {None}
    BY <1>13, <2>1, RecordType DEF TypeOK, InsertFails
  <2>. QED
    BY <1>13, <2>2, Zenon DEF TypeOK, InsertFails, Answered, NoSubmission, pkiVars
<1>14. ASSUME NEW p \in Submissions, Finish(p) \/ FinishFails(p) PROVE TypeOK'
  <2>1. sub[p].body \in Bodies
    BY <1>14, Zenon DEF Progress, Finish, FinishFails, At
  <2>. QED
    BY <1>14, <2>1 DEF TypeOK, Finish, FinishFails, Success, Answered, NoSubmission, pkiVars
<1>15. CASE Crash
    BY <1>15, Zenon DEF TypeOK, Crash, NoSubmission, pkiVars
<1>16. CASE UNCHANGED submissionVars
    BY <1>16, Zenon DEF TypeOK, submissionVars, pkiVars
<1>. QED
    BY <1>1, <1>2, <1>3, <1>4, <1>5, <1>6, <1>7, <1>8, <1>9, <1>10, <1>11, <1>12, <1>13,
       <1>14, <1>15, <1>16, Zenon DEF SubmissionNext, Step

-----------------------------------------------------------------------------
\* A submission keeps what it has established, whatever other requests do.
LEMMA ProgressStep ==
    ASSUME TypeOK, \A p \in Submissions : Progress(p), [SubmissionNext]_submissionVars, NEW q \in Submissions
    PROVE  Progress(q)'
<1> USE SubmissionAssumption
<1>1. ASSUME NEW c \in Certs, IssueCertificate(c) \/ hRevoke(c) PROVE Progress(q)'
    BY <1>1, Zenon DEF Progress, IssueCertificate, hRevoke
<1>2. ASSUME NEW list \in SUBSET Certs, hImportCRL(list) PROVE Progress(q)'
    BY <1>2 DEF TypeOK, Progress, hImportCRL
<1>3. CASE hReportLost \/ hReserve
    BY <1>3, Zenon DEF Progress, hReportLost, hReserve
<1>4. ASSUME NEW p \in Submissions, NEW b \in Bodies, Start(p, b) PROVE Progress(q)'
    BY <1>4 DEF TypeOK, Progress, Start, Success, Answered, NoSubmission, At
<1>5. ASSUME NEW p \in Submissions, CheckReservation(p) PROVE Progress(q)'
    BY <1>5 DEF TypeOK, Progress, CheckReservation, Answered, Goto, NoSubmission, At
<1>6. ASSUME NEW p \in Submissions, VerifyPDF(p) \/ CheckCertificate(p) PROVE Progress(q)'
    BY <1>6 DEF TypeOK, Progress, VerifyPDF, CheckCertificate, Answered, Goto, NoSubmission, At
<1>7. ASSUME NEW p \in Submissions, PutObject(p) PROVE Progress(q)'
    BY <1>7 DEF TypeOK, Progress, PutObject, Goto, At
<1>8. ASSUME NEW p \in Submissions, PutObjectFails(p) PROVE Progress(q)'
    BY <1>8, Zenon DEF TypeOK, Progress, PutObjectFails, Answered, NoSubmission
<1>9. ASSUME NEW p \in Submissions, Insert(p) PROVE Progress(q)'
  <2>1. sub[p].body \in Bodies
    BY <1>9, Zenon DEF Progress, Insert, At
  <2>2. Record(p).body = sub[p].body /\ Record(p) # None
    BY <2>1, RecordType, Zenon DEF Record
  <2>. QED
    BY <1>9, <2>2 DEF TypeOK, Progress, Insert, Answered, Goto, NoSubmission, At
<1>10. ASSUME NEW p \in Submissions, InsertFails(p) PROVE Progress(q)'
    BY <1>10, Zenon DEF TypeOK, Progress, InsertFails, Answered, NoSubmission, At
<1>11. ASSUME NEW p \in Submissions, Finish(p) \/ FinishFails(p) PROVE Progress(q)'
    BY <1>11 DEF TypeOK, Progress, Finish, FinishFails, Success, Answered, NoSubmission
<1>12. CASE Crash
    BY <1>12, Zenon DEF TypeOK, Progress, Crash, NoSubmission
<1>13. CASE UNCHANGED submissionVars
    BY <1>13, Zenon DEF Progress, submissionVars
<1>. QED
    BY <1>1, <1>2, <1>3, <1>4, <1>5, <1>6, <1>7, <1>8, <1>9, <1>10, <1>11, <1>12, <1>13, Zenon
       DEF SubmissionNext, Step

-----------------------------------------------------------------------------
\* What withholds a withdrawn certificate from the record stays in force: a
\* certificate row that is revoked and a device that is lost stay so, and
\* strictVerify reads them after the submission began.
LEMMA WithheldStep ==
    ASSUME TypeOK, \A p \in Submissions : Progress(p), \A p \in Submissions : Withheld(p),
           [SubmissionNext]_submissionVars, NEW q \in Submissions
    PROVE  Withheld(q)'
<1> USE SubmissionAssumption
<1>1. ASSUME NEW c \in Certs, IssueCertificate(c) PROVE Withheld(q)'
    BY <1>1, Zenon DEF TypeOK, Withheld, IssueCertificate
<1>2. ASSUME NEW c \in Certs, hRevoke(c) PROVE Withheld(q)'
    BY <1>2, Zenon DEF TypeOK, Withheld, hRevoke
<1>3. ASSUME NEW list \in SUBSET Certs, hImportCRL(list) PROVE Withheld(q)'
  <2>1. /\ sub'[q].pc = sub[q].pc /\ sub'[q].body = sub[q].body
        /\ sub'[q].revoked = sub[q].revoked /\ sub'[q].listed = sub[q].listed \cap list
    BY <1>3, ZenonT(40) DEF TypeOK, hImportCRL
  <2>. QED
    BY <1>3, <2>1, Zenon DEF Withheld, hImportCRL
<1>4. CASE hReportLost \/ hReserve
    BY <1>4, Zenon DEF Withheld, hReportLost, hReserve, pkiVars
<1>5. ASSUME NEW p \in Submissions, NEW b \in Bodies, Start(p, b) PROVE Withheld(q)'
    BY <1>5 DEF TypeOK, Withheld, Start, Success, Answered, NoSubmission, At, pkiVars
<1>6. ASSUME NEW p \in Submissions, CheckReservation(p) PROVE Withheld(q)'
    BY <1>6 DEF TypeOK, Withheld, CheckReservation, Answered, Goto, NoSubmission, At, pkiVars
<1>7. ASSUME NEW p \in Submissions, VerifyPDF(p) PROVE Withheld(q)'
    BY <1>7 DEF TypeOK, Withheld, VerifyPDF, Answered, Goto, NoSubmission, At, pkiVars
<1>8. ASSUME NEW p \in Submissions, CheckCertificate(p) PROVE Withheld(q)'
    BY <1>8 DEF TypeOK, Withheld, CheckCertificate, Answered, Goto, NoSubmission, At, pkiVars
<1>9. ASSUME NEW p \in Submissions, PutObject(p) \/ PutObjectFails(p) PROVE Withheld(q)'
    BY <1>9 DEF TypeOK, Withheld, PutObject, PutObjectFails, Answered, Goto, NoSubmission, At, pkiVars
<1>10. ASSUME NEW p \in Submissions, Insert(p) \/ InsertFails(p) PROVE Withheld(q)'
    BY <1>10 DEF TypeOK, Withheld, Insert, InsertFails, Answered, Goto, NoSubmission, At, pkiVars
<1>11. ASSUME NEW p \in Submissions, Finish(p) \/ FinishFails(p) PROVE Withheld(q)'
    BY <1>11 DEF TypeOK, Withheld, Finish, FinishFails, Success, Answered, NoSubmission, pkiVars
<1>12. CASE Crash
    BY <1>12, Zenon DEF TypeOK, Withheld, Crash, NoSubmission, pkiVars
<1>13. CASE UNCHANGED submissionVars
    BY <1>13, Zenon DEF Withheld, submissionVars, pkiVars
<1>. QED
    BY <1>1, <1>2, <1>3, <1>4, <1>5, <1>6, <1>7, <1>8, <1>9, <1>10, <1>11, <1>12, <1>13, Zenon
       DEF SubmissionNext, Step

-----------------------------------------------------------------------------
\* The signature row is written once, by a submission that is past the object.
LEMMA SignatureStep ==
    ASSUME TypeOK, \A p \in Submissions : Progress(p), [SubmissionNext]_submissionVars
    PROVE  \/ signature' = signature
           \/ \E p \in Submissions : /\ sub[p].pc = "insert"
                                     /\ signature = None /\ signature' = Record(p)
BY Zenon DEF SubmissionNext, Step, IssueCertificate, hRevoke, hImportCRL, hReportLost, hReserve, Start, CheckReservation,
       VerifyPDF, CheckCertificate, PutObject, PutObjectFails, Insert, InsertFails, Finish, FinishFails,
       Crash, At, submissionVars

\* An object is never taken away.
LEMMA ObjectStep ==
    ASSUME TypeOK, \A p \in Submissions : Progress(p), [SubmissionNext]_submissionVars, object # None
    PROVE  object' # None
BY SubmissionAssumption, Zenon
   DEF SubmissionNext, Step, IssueCertificate, hRevoke, hImportCRL, hReportLost, hReserve, Start, CheckReservation,
       VerifyPDF, CheckCertificate, PutObject, PutObjectFails, Insert, InsertFails, Finish, FinishFails,
       Crash, At, submissionVars, Progress

\* Where the reservation's status and the answers come from.
LEMMA AnswerStep ==
    ASSUME TypeOK, \A p \in Submissions : Progress(p), [SubmissionNext]_submissionVars
    PROVE  /\ reservation' = "accepted" => reservation = "accepted" \/ signature # None
           /\ \A b \in acks' : b \in acks \/ (signature # None /\ signature.body = b)
BY Zenon DEF SubmissionNext, Step, IssueCertificate, hRevoke, hImportCRL, hReportLost, hReserve, Start, CheckReservation,
       VerifyPDF, CheckCertificate, PutObject, PutObjectFails, Insert, InsertFails, Finish, FinishFails,
       Success, Crash, At, submissionVars, Progress

\* Initially nothing is recorded.
LEMMA SubmissionInitInv == SubmissionInit => Inv
BY SubmissionAssumption DEF SubmissionInit, Inv, TypeOK, Progress, Withheld, AcceptedIsVerified,
   RecordHasObject, AcksAgree, NoSubmission

\* Every step of the server keeps the invariant.
LEMMA NextInv == Inv /\ [SubmissionNext]_submissionVars => Inv'
<1> SUFFICES ASSUME Inv, [SubmissionNext]_submissionVars PROVE Inv'
    BY Zenon
<1>0. /\ TypeOK /\ (\A p \in Submissions : Progress(p)) /\ \A p \in Submissions : Withheld(p)
      /\ AcceptedIsVerified /\ RecordHasObject /\ AcksAgree
    BY Zenon DEF Inv
<1>1. TypeOK'
    BY <1>0, TypeStep, Zenon
<1>2. \A q \in Submissions : Progress(q)'
    BY <1>0, ProgressStep, Zenon
<1>3. \A q \in Submissions : Withheld(q)'
    BY <1>0, WithheldStep, Zenon
<1>4. \/ signature' = signature
      \/ \E p \in Submissions : /\ sub[p].pc = "insert"
                                /\ signature = None /\ signature' = Record(p)
    BY <1>0, SignatureStep, Zenon
<1>5. AcceptedIsVerified'
  <2>1. CASE signature' = signature
    BY <1>0, <2>1, Zenon DEF AcceptedIsVerified
  <2>2. ASSUME NEW p \in Submissions, sub[p].pc = "insert", signature' = Record(p)
        PROVE  AcceptedIsVerified'
    <3>1. /\ Record(p).body = sub[p].body
          /\ Record(p).revoked = sub[p].revoked \cup sub[p].listed
          /\ Record(p).status = "accepted" => sub[p].body \notin Large
      BY Zenon DEF Record
    <3>2. sub[p].body \notin Large =>
             sub[p].body \in Valid /\ SignedWith[sub[p].body] \notin sub[p].revoked \cup sub[p].listed
      BY <1>0, <2>2, Zenon DEF Withheld
    <3>. QED
      BY <2>2, <3>1, <3>2, Zenon DEF AcceptedIsVerified
  <2>. QED
    BY <1>4, <2>1, <2>2, Zenon
<1>6. RecordHasObject'
  <2>1. signature' # None => object' # None
    BY <1>0, <1>4, ObjectStep, Zenon DEF RecordHasObject, Progress
  <2>2. signature # None => signature' # None
    BY <1>4, Zenon
  <2>3. reservation' = "accepted" => signature' # None
    BY <1>0, <2>2, AnswerStep, Zenon DEF RecordHasObject
  <2>. QED
    BY <2>1, <2>3, Zenon DEF RecordHasObject
<1>7. AcksAgree'
    BY <1>0, <1>4, AnswerStep, Zenon DEF AcksAgree
<1>. QED
    BY <1>1, <1>2, <1>3, <1>5, <1>6, <1>7, Zenon DEF Inv

\* The invariant holds throughout.
LEMMA Invariance == SubmissionSpec => []Inv
<1>1. SubmissionInit => Inv
    BY SubmissionInitInv, Zenon
<1>2. Inv /\ [SubmissionNext]_submissionVars => Inv'
    BY NextInv, Zenon
<1>. QED
    BY <1>1, <1>2, PTL DEF SubmissionSpec

\* Rows, objects and requests always have their types.
THEOREM TypeCorrect == SubmissionSpec => []TypeOK
<1>1. Inv => TypeOK
    BY Zenon DEF Inv
<1>. QED
    BY <1>1, Invariance, PTL

\* strictVerify lets no PDF be recorded as accepted whose certificate was
\* withdrawn before the submission began, or on the CRL throughout.
THEOREM AcceptedOnlyVerified == SubmissionSpec => []AcceptedIsVerified
<1>1. Inv => AcceptedIsVerified
    BY Zenon DEF Inv
<1>. QED
    BY <1>1, Invariance, PTL

\* A record always has an object, an accepted reservation a record: PutObject
\* comes before CreateSignature and that before SetReservationStatus.
THEOREM RecordsHaveObjects == SubmissionSpec => []RecordHasObject
<1>1. Inv => RecordHasObject
    BY Zenon DEF Inv
<1>. QED
    BY <1>1, Invariance, PTL

\* Every success hSubmitDocument answers is about the one recorded document.
THEOREM AnswersAgree == SubmissionSpec => []AcksAgree
<1>1. Inv => AcksAgree
    BY Zenon DEF Inv
<1>. QED
    BY <1>1, Invariance, PTL
=============================================================================
