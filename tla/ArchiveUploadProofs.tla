------------------------- MODULE ArchiveUploadProofs -------------------------
(***************************************************************************)
(* One resumable upload proved safe for a file of any size, any number of  *)
(* concurrent requests and any failures.                                   *)
(*                                                                         *)
(* The lock of an uploadRT protects little by itself, since the janitor    *)
(* and every clean-up drop the uploadRT and the next request makes another *)
(* one.  What holds is OneLock: as long as the scratch file exists there   *)
(* is a single uploadRT, so its holder is alone; and what a request did to *)
(* the file or read from it, it did under that lock (Deep).  Once the file *)
(* is removed it stays removed, and nothing gets archived any more.        *)
(***************************************************************************)
EXTENDS ArchiveUpload, TLAPS

PCs == {"idle", "rt", "lock", "locked", "copy", "copied", "undo", "sum", "put", "readback",
        "commit", "finish", "cleanup"}
Content == Seq(Nat) \cup {None}
RT == [owner : Requests \cup {None}, n : Nat, h : Content]
Request == [op : {"none", "chunk", "complete", "abort"}, pc : PCs, rt : Nat, offset : 0..Size,
            n : Nat, key : Nat]

TypeInv ==
    /\ status \in {"open", "aborted", "completed"} /\ received \in 0..Size
    /\ temp \in Content
    /\ rts \in Seq(RT) /\ current \in 0..Len(rts)
    /\ req \in [Requests -> Request]
    /\ objects \in Seq(Content)
    /\ items \subseteq [key : Nat, sum : Content] /\ acked \subseteq Nat
    /\ faults \subseteq AllFaults

\* r has the lock of its uploadRT.
Held(r) == req[r].pc \notin {"idle", "rt", "lock"}

\* complete has recorded the item and is about to answer.
Done(r) == req[r].pc = "finish" \/ (req[r].pc = "cleanup" /\ req[r].op = "complete")

\* r has written the scratch file, or read it to the end.
Deep(r) == req[r].pc \in {"copied", "undo", "readback", "commit"} \/ Done(r)

ItemOf(k) == \E item \in items : item.key = k

LockInv(r) ==
    /\ req[r].pc \notin {"idle", "rt"} => req[r].rt \in 1..Len(rts)
    /\ Held(r) => rts[req[r].rt].owner = r
    /\ Deep(r) => req[r].rt = 1
    /\ req[r].pc \in {"sum", "put", "readback", "commit", "finish"} => req[r].op = "complete"

FileInv(r) ==
    /\ req[r].pc = "copy" /\ temp # None => req[r].offset = received
    /\ req[r].pc \in {"copied", "undo"} => req[r].offset = received
    /\ req[r].pc = "copied" /\ temp # None => Len(temp) >= req[r].offset + req[r].n
    /\ req[r].pc = "cleanup" /\ "update" \notin faults => status # "open"

StoreInv(r) ==
    /\ req[r].pc \in {"put", "readback", "commit", "finish"} => MyRT(r).h = Bytes(Size)
    /\ req[r].pc \in {"readback", "commit"} =>
          /\ req[r].key \in DOMAIN objects /\ objects[req[r].key] # None
          /\ req[r].key \notin acked /\ ~ ItemOf(req[r].key)
    /\ req[r].pc = "commit" => objects[req[r].key] = Bytes(Size)
    /\ Done(r) => ItemOf(req[r].key) /\ objects[req[r].key] = Bytes(Size)

\* As long as there is a scratch file, there is one uploadRT: the requests go
\* through one lock.
OneLock == temp # None => Len(rts) <= 1 /\ current = Len(rts)

RowInv ==
    /\ temp # None /\ "lostUpdate" \notin faults => Len(temp) >= received
    /\ janitor => status # "open"
    /\ "update" \notin faults /\ status = "open" => temp # None

ArchiveInv ==
    /\ \A item \in items : /\ item.key \in DOMAIN objects
                           /\ item.sum = Bytes(Size)
                           /\ objects[item.key] \in {None, Bytes(Size)}
    /\ \A k \in acked : ItemOf(k) /\ objects[k] = Bytes(Size)

OnceInv ==
    faults \cap {"crash", "lostCommit"} = {} =>
        /\ \A i, j \in items : i = j
        /\ items # {} => /\ temp = None \/ \E r \in Requests : Done(r)
                         /\ \A r \in Requests : req[r].pc \notin {"readback", "commit"}

AgreeInv ==
    faults \cap {"crash", "lostCommit", "delete"} = {} =>
        /\ \A k \in DOMAIN objects : objects[k] # None =>
              ItemOf(k) \/ \E r \in Requests : req[r].pc \in {"readback", "commit"} /\ req[r].key = k
        /\ \A item \in items : objects[item.key] # None

UploadInv ==
    /\ TypeInv
    /\ \A r \in Requests : LockInv(r) /\ FileInv(r) /\ StoreInv(r)
    /\ OneLock /\ RowInv /\ ArchiveInv /\ OnceInv /\ AgreeInv

-----------------------------------------------------------------------------
(* Files and hashes *)

\* The sender's file is a sequence.
LEMMA BytesType == Bytes(Size) \in Seq(Nat) /\ Bytes(Size) # None /\ Len(Bytes(Size)) = Size
  <1>1. Bytes(Size) \in Seq(Nat) /\ Len(Bytes(Size)) = Size
    BY ArchiveAssumption DEF Bytes
  <1> QED BY <1>1, ArchiveAssumption, Zenon

\* Writing to a file never makes it shorter.
LEMMA WriteFacts ==
    ASSUME NEW file \in Seq(Nat), NEW o \in Nat, NEW data \in Seq(Nat)
    PROVE  /\ Write(file, o, data) \in Seq(Nat)
           /\ Len(Write(file, o, data)) >= Len(file)
           /\ Len(Write(file, o, data)) >= o + Len(data)
  <1>1. PICK k \in Nat : /\ k = (IF Len(file) > o + Len(data) THEN Len(file) ELSE o + Len(data))
                         /\ k >= Len(file) /\ k >= o + Len(data)
    <2>1. Len(file) \in Nat /\ Len(data) \in Nat
      OBVIOUS
    <2> QED BY <2>1
  <1>2. ASSUME NEW i \in 1..k
        PROVE  (IF i > o /\ i <= o + Len(data) THEN data[i - o]
                ELSE IF i <= Len(file) THEN file[i] ELSE 0) \in Nat
    <2>1. CASE i > o /\ i <= o + Len(data)
      <3>1. i - o \in 1..Len(data)
        BY <2>1
      <3> QED BY <2>1, <3>1
    <2>2. CASE ~ (i > o /\ i <= o + Len(data)) /\ i <= Len(file)
      <3>1. i \in 1..Len(file)
        BY <2>2
      <3> QED BY <2>2, <3>1
    <2> QED BY <2>1, <2>2, Zenon
  <1>3. Write(file, o, data) = [i \in 1..k |-> IF i > o /\ i <= o + Len(data) THEN data[i - o]
                                               ELSE IF i <= Len(file) THEN file[i] ELSE 0]
    BY <1>1, Zenon DEF Write
  <1>4. Write(file, o, data) \in Seq(Nat) /\ Len(Write(file, o, data)) = k
    BY <1>2, <1>3
  <1> QED BY <1>1, <1>4, Zenon

\* Truncate cuts or extends a file to the length asked for.
LEMMA TruncateFacts ==
    ASSUME NEW file \in Seq(Nat), NEW n \in Nat
    PROVE  Truncate(file, n) \in Seq(Nat) /\ Len(Truncate(file, n)) = n
  <1>1. ASSUME NEW i \in 1..n PROVE (IF i <= Len(file) THEN file[i] ELSE 0) \in Nat
    OBVIOUS
  <1> QED BY <1>1 DEF Truncate

\* ensureHashes returns an uploadRT and does not touch its lock.
LEMMA HashFacts ==
    ASSUME TypeInv, NEW rt \in RT, NEW n \in 0..Size
    PROVE  /\ ensureHashes(rt, n) \in RT
           /\ ensureHashes(rt, n).owner = rt.owner
           /\ rt.owner = None \/ rt.owner \in Requests
  <1>1. n \in Nat /\ (temp # None => temp \in Seq(Nat)) /\ None \in Content /\ Seq(Nat) \subseteq Content
    BY ArchiveAssumption DEF TypeInv, Content
  <1>2. ASSUME temp # None, ~ (Len(temp) < n) PROVE SubSeq(temp, 1, n) \in Seq(Nat)
    <2>1. temp \in Seq(Nat) /\ Len(temp) \in Nat
      BY <1>1, <1>2
    <2>2. \A i \in 1..n : i \in 1..Len(temp)
      BY <1>1, <1>2, <2>1
    <2> QED BY <1>1, <2>1, <2>2
  <1>3. ASSUME NEW x \in Content, NEW m \in Nat
        PROVE  [rt EXCEPT !.h = x, !.n = m] \in RT /\ [rt EXCEPT !.h = x, !.n = m].owner = rt.owner
    BY ZenonT(30) DEF RT
  <1>4. <<>> \in Content
    <2>1. <<>> \in Seq(Nat)
      OBVIOUS
    <2> QED BY <2>1, Zenon DEF Content
  <1> QED BY <1>1, <1>2, <1>3, <1>4, ZenonT(30) DEF ensureHashes, RT

\* Failures are only added.
LEMMA FaultGrows ==
    ASSUME TypeInv, NEW kinds, Faults(kinds)
    PROVE  faults \subseteq faults' /\ faults' \subseteq AllFaults /\ kinds \subseteq faults'
  BY ArchiveAssumption, Zenon DEF Faults, TypeInv

-----------------------------------------------------------------------------
(* The lock *)

\* Two requests that hold a lock hold different ones, and then the scratch file
\* is gone; so they are not both past reading it.
LEMMA Exclusive ==
    ASSUME UploadInv, NEW r \in Requests, NEW q \in Requests, q # r, Held(r), Held(q)
    PROVE  /\ req[q].rt # req[r].rt
           /\ temp = None
           /\ ~ (Deep(r) /\ Deep(q))
  <1>1. /\ req[r].rt \in 1..Len(rts) /\ req[q].rt \in 1..Len(rts)
        /\ rts[req[r].rt].owner = r /\ rts[req[q].rt].owner = q
    BY Zenon DEF UploadInv, LockInv, Held
  <1>2. req[q].rt # req[r].rt
    BY <1>1, Zenon
  <1>3. Len(rts) \in Nat
    BY DEF UploadInv, TypeInv
  <1>4. temp = None
    <2> SUFFICES ASSUME temp # None PROVE FALSE
      BY Zenon
    <2>1. Len(rts) <= 1
      BY Zenon DEF UploadInv, OneLock
    <2> QED BY <1>1, <1>2, <1>3, <2>1
  <1>5. ~ (Deep(r) /\ Deep(q))
    BY <1>2, Zenon DEF UploadInv, LockInv
  <1> QED BY <1>2, <1>4, <1>5, Zenon

\* A request that holds its lock is one with a lock.
LEMMA DeepHeld ==
    ASSUME NEW r \in Requests, Deep(r)
    PROVE  Held(r)
  BY Zenon DEF Deep, Done, Held

\* What a step of the request r leaves alone: the other requests, and the other
\* locks and hashes.
Others(r) ==
    /\ req' \in [Requests -> Request]
    /\ \A q \in Requests : q # r => req'[q] = req[q]
    /\ rts' \in Seq(RT) /\ Len(rts') = Len(rts)
    /\ \A i \in 1..Len(rts) : i # req[r].rt => rts'[i] = rts[i]

\* A step in which r keeps the lock.
LEMMA StayOthers ==
    ASSUME UploadInv, NEW r \in Requests, Held(r), NEW v \in Request,
           req' = [req EXCEPT ![r] = v], rts' = rts
    PROVE  Others(r) /\ req'[r] = v
  BY Zenon DEF UploadInv, TypeInv, Others

\* A step in which r keeps the lock and replaces its hashes.
LEMMA ReplaceOthers ==
    ASSUME UploadInv, NEW r \in Requests, Held(r), NEW v \in Request, NEW rt \in RT,
           req' = [req EXCEPT ![r] = v], rts' = [rts EXCEPT ![req[r].rt] = rt]
    PROVE  Others(r) /\ req'[r] = v /\ rts'[req[r].rt] = rt
  <1>1. rts \in Seq(RT) /\ req \in [Requests -> Request] /\ req[r].rt \in 1..Len(rts)
    BY Zenon DEF UploadInv, TypeInv, LockInv, Held
  <1>2. rts' \in Seq(RT) /\ Len(rts') = Len(rts) /\ rts'[req[r].rt] = rt
        /\ \A i \in 1..Len(rts) : i # req[r].rt => rts'[i] = rts[i]
    BY <1>1
  <1>3. req' \in [Requests -> Request] /\ req'[r] = v /\ \A q \in Requests : q # r => req'[q] = req[q]
    BY <1>1, Zenon
  <1> QED BY <1>2, <1>3, Zenon DEF Others

\* An idle request is one.
LEMMA IdleType == Idle \in Request
  BY ArchiveAssumption DEF Idle, Request, PCs

\* A step in which r answers.
LEMMA LeaveOthers ==
    ASSUME UploadInv, NEW r \in Requests, Held(r), NEW rt \in RT, Leave(r, rt)
    PROVE  Others(r) /\ req'[r] = Idle
  <1>1. [rt EXCEPT !.owner = None] \in RT
    BY Zenon DEF RT
  <1> QED BY <1>1, IdleType, ReplaceOthers, ZenonT(30) DEF Leave

\* What the invariant says of the other requests survives a step of r.
LEMMA OthersInv ==
    ASSUME UploadInv, NEW r \in Requests, Held(r), Others(r), NEW q \in Requests, q # r,
           temp' # None => temp # None,
           status' = status \/ status' # "open",
           faults \subseteq faults',
           Deep(r) \/ temp # None \/ UNCHANGED <<received, objects, items, acked>>
    PROVE  LockInv(q)' /\ FileInv(q)' /\ StoreInv(q)'
  <1>1. req'[q] = req[q] /\ Len(rts') = Len(rts)
    BY Zenon DEF Others
  <1>2. LockInv(q) /\ FileInv(q) /\ StoreInv(q)
    BY Zenon DEF UploadInv
  <1>3. Held(q) => rts'[req[q].rt] = rts[req[q].rt]
    <2> SUFFICES ASSUME Held(q) PROVE rts'[req[q].rt] = rts[req[q].rt]
      BY Zenon
    <2>1. req[q].rt # req[r].rt
      BY Exclusive, Zenon
    <2>2. req[q].rt \in 1..Len(rts)
      BY <1>2, Zenon DEF LockInv, Held
    <2> QED BY <2>1, <2>2, Zenon DEF Others
  <1>4. LockInv(q)'
    BY <1>1, <1>2, <1>3, Zenon DEF LockInv, Held, Deep, Done
  <1>5. Held(q) => temp = None /\ temp' = None
    BY Exclusive, Zenon
  <1>6. Deep(q) => UNCHANGED <<received, objects, items, acked>>
    BY <1>5, Exclusive, DeepHeld, Zenon
  <1>7. FileInv(q)'
    BY <1>1, <1>2, <1>5, <1>6, Zenon DEF FileInv, Held, Deep
  <1>8. StoreInv(q)'
    BY <1>1, <1>2, <1>3, <1>6, Zenon DEF StoreInv, Held, Deep, Done, MyRT, ItemOf
  <1> QED BY <1>4, <1>7, <1>8, Zenon

\* Nothing is said of an idle request.
LEMMA IdleInv ==
    ASSUME NEW r \in Requests, req'[r] = Idle
    PROVE  LockInv(r)' /\ FileInv(r)' /\ StoreInv(r)'
  <1>1. req'[r].pc = "idle"
    BY DEF Idle
  <1> QED BY <1>1, Zenon DEF LockInv, FileInv, StoreInv, Held, Deep, Done

-----------------------------------------------------------------------------
(* Steps of a request under the lock *)

InStore(r) == req[r].pc \in {"readback", "commit"}

\* Items and objects as they are: what was archived stays in order.
LEMMA StoreFrame ==
    ASSUME UploadInv, NEW r \in Requests,
           \A q \in Requests : q # r => req'[q] = req[q],
           ~ InStore(r), ~ InStore(r)',
           Done(r) => Done(r)' \/ temp' = None,
           temp' # None => temp # None,
           UNCHANGED <<objects, items, acked>>,
           faults \subseteq faults'
    PROVE  ArchiveInv' /\ OnceInv' /\ AgreeInv'
  <1>1. ArchiveInv'
    BY Zenon DEF UploadInv, ArchiveInv, ItemOf
  <1>2. \A q \in Requests : InStore(q)' <=> InStore(q)
    BY Zenon DEF InStore
  <1>3. \A q \in Requests : Done(q) => Done(q)' \/ temp' = None
    BY Zenon DEF Done
  <1>4. OnceInv'
    <2> SUFFICES ASSUME faults' \cap {"crash", "lostCommit"} = {}
                 PROVE  /\ \A i, j \in items' : i = j
                        /\ items' # {} => /\ temp' = None \/ \E q \in Requests : Done(q)'
                                          /\ \A q \in Requests : ~ InStore(q)'
      BY Zenon DEF OnceInv, InStore
    <2>1. faults \cap {"crash", "lostCommit"} = {}
      BY Zenon
    <2>2. /\ \A i, j \in items : i = j
          /\ items # {} => /\ temp = None \/ \E q \in Requests : Done(q)
                           /\ \A q \in Requests : ~ InStore(q)
      BY <2>1, Zenon DEF UploadInv, OnceInv, InStore
    <2> QED BY <1>2, <1>3, <2>2, Zenon
  <1>5. AgreeInv'
    <2>1. \A q \in Requests : InStore(q) => req'[q] = req[q]
      BY Zenon
    <2> SUFFICES ASSUME faults' \cap {"crash", "lostCommit", "delete"} = {} PROVE AgreeInv'
      BY Zenon DEF AgreeInv
    <2>2. faults \cap {"crash", "lostCommit", "delete"} = {}
      BY Zenon
    <2>3. /\ \A k \in DOMAIN objects : objects[k] # None =>
               ItemOf(k) \/ \E q \in Requests : InStore(q) /\ req[q].key = k
          /\ \A item \in items : objects[item.key] # None
      BY <2>2, Zenon DEF UploadInv, AgreeInv, InStore
    <2>4. \A k \in DOMAIN objects : objects[k] # None =>
               ItemOf(k)' \/ \E q \in Requests : InStore(q)' /\ req'[q].key = k
      BY <2>1, <2>3, <1>2, Zenon DEF ItemOf
    <2> QED BY <2>3, <2>4, Zenon DEF AgreeInv, InStore
  <1> QED BY <1>1, <1>4, <1>5, Zenon

\* A step of a lock's holder that archives nothing.
LEMMA HeldStep ==
    ASSUME UploadInv, NEW r \in Requests, Held(r), Others(r),
           ~ InStore(r), ~ InStore(r)',
           Done(r) => Done(r)' \/ temp' = None,
           temp' \in Content, temp' # None => temp # None,
           status' \in {"open", "aborted", "completed"}, status' = status \/ status' # "open",
           received' \in 0..Size, Deep(r) \/ received' = received,
           UNCHANGED <<objects, items, acked, current, janitor>>,
           faults \subseteq faults', faults' \subseteq AllFaults,
           LockInv(r)', FileInv(r)', StoreInv(r)', RowInv'
    PROVE  UploadInv'
  <1>1. TypeInv'
    BY Zenon DEF UploadInv, TypeInv, Others
  <1>2. \A q \in Requests : q # r => LockInv(q)' /\ FileInv(q)' /\ StoreInv(q)'
    BY OthersInv, Zenon
  <1>3. OneLock'
    BY Zenon DEF UploadInv, OneLock, Others
  <1>4. ArchiveInv' /\ OnceInv' /\ AgreeInv'
    BY StoreFrame, Zenon DEF Others
  <1> QED BY <1>1, <1>2, <1>3, <1>4, Zenon DEF UploadInv

\* A request that has its lock: its fields, and its uploadRT.
LEMMA HolderFacts ==
    ASSUME UploadInv, NEW r \in Requests, Held(r)
    PROVE  /\ req[r] \in Request
           /\ req[r].rt \in 1..Len(rts)
           /\ MyRT(r) \in RT /\ MyRT(r).owner = r
           /\ req[r].offset \in 0..Size /\ req[r].offset \in Nat
           /\ req[r].n \in Nat /\ req[r].key \in Nat
           /\ LockInv(r) /\ FileInv(r) /\ StoreInv(r)
  <1>1. LockInv(r) /\ FileInv(r) /\ StoreInv(r) /\ req[r] \in Request /\ rts \in Seq(RT)
    BY Zenon DEF UploadInv, TypeInv
  <1>2. req[r].rt \in 1..Len(rts) /\ rts[req[r].rt].owner = r
    BY <1>1, Zenon DEF LockInv, Held
  <1>3. rts[req[r].rt] \in RT
    BY <1>1, <1>2
  <1>4. req[r].offset \in 0..Size /\ req[r].n \in Nat /\ req[r].key \in Nat
    BY <1>1, Zenon DEF Request
  <1> QED BY <1>1, <1>2, <1>3, <1>4, ArchiveAssumption DEF MyRT

\* A step of a holder that only answers, with what it computed in its uploadRT.
LEMMA AnswerStep ==
    ASSUME UploadInv, NEW r \in Requests, Held(r), ~ InStore(r), ~ Done(r),
           NEW rt \in RT, Leave(r, rt),
           UNCHANGED <<rowVars, temp, current, storeVars, janitor>>,
           faults \subseteq faults', faults' \subseteq AllFaults
    PROVE  UploadInv'
  <1>1. Others(r) /\ req'[r] = Idle
    BY LeaveOthers, Zenon
  <1>2. ~ InStore(r)'
    BY <1>1 DEF InStore, Idle
  <1>3. UNCHANGED <<status, received, temp, current, objects, items, acked, janitor>>
    BY Zenon DEF rowVars, storeVars
  <1>4. RowInv'
    BY <1>3 DEF UploadInv, RowInv
  <1>5. temp' \in Content /\ status' \in {"open", "aborted", "completed"} /\ received' \in 0..Size
    BY <1>3, Zenon DEF UploadInv, TypeInv
  <1> QED BY <1>1, <1>2, <1>3, <1>4, <1>5, IdleInv, HeldStep, Zenon

\* A request that stays with a new program counter, and hashes of its own.
LEMMA GotoType ==
    ASSUME UploadInv, NEW r \in Requests, NEW pc \in PCs, Goto(r, pc)
    PROVE  /\ [req[r] EXCEPT !.pc = pc] \in Request
           /\ req' = [req EXCEPT ![r] = [req[r] EXCEPT !.pc = pc]]
           /\ [req[r] EXCEPT !.pc = pc].pc = pc
           /\ [req[r] EXCEPT !.pc = pc].op = req[r].op
           /\ [req[r] EXCEPT !.pc = pc].rt = req[r].rt
           /\ [req[r] EXCEPT !.pc = pc].offset = req[r].offset
           /\ [req[r] EXCEPT !.pc = pc].n = req[r].n
           /\ [req[r] EXCEPT !.pc = pc].key = req[r].key
  <1>1. req[r] \in Request /\ req \in [Requests -> Request]
    BY Zenon DEF UploadInv, TypeInv
  <1> QED BY <1>1, Zenon DEF Goto, Request

-----------------------------------------------------------------------------
(* Steps without the lock *)

\* A request that begins, finds its uploadRT or gets the lock.
LEMMA FreeStep ==
    ASSUME UploadInv, NEW r \in Requests, ~ Held(r),
           req' \in [Requests -> Request],
           \A q \in Requests : q # r => req'[q] = req[q],
           req'[r].pc \in {"rt", "lock", "locked"},
           rts' \in Seq(RT), Len(rts') >= Len(rts), current' \in 0..Len(rts'),
           \A q \in Requests : q # r /\ Held(q) => rts'[req[q].rt] = rts[req[q].rt],
           LockInv(r)', OneLock',
           UNCHANGED <<rowVars, temp, storeVars, janitor, faults>>
    PROVE  UploadInv'
  <1>1. UNCHANGED <<status, received, temp, objects, items, acked, janitor, faults>>
    BY Zenon DEF rowVars, storeVars
  <1>2. TypeInv'
    BY <1>1, Zenon DEF UploadInv, TypeInv
  <1>3. ASSUME NEW q \in Requests, q # r PROVE LockInv(q)' /\ FileInv(q)' /\ StoreInv(q)'
    <2>1. LockInv(q) /\ FileInv(q) /\ StoreInv(q) /\ req'[q] = req[q]
      BY <1>3, Zenon DEF UploadInv
    <2>2. Held(q) => rts'[req[q].rt] = rts[req[q].rt]
      BY <1>3, Zenon
    <2>3. Len(rts) \in Nat /\ Len(rts') \in Nat /\ Len(rts') >= Len(rts)
      BY DEF UploadInv, TypeInv
    <2>4. req[q].rt \in 1..Len(rts) => req[q].rt \in 1..Len(rts')
      BY <2>3
    <2>5. LockInv(q)'
      BY <2>1, <2>2, <2>4, Zenon DEF LockInv, Held, Deep, Done
    <2>6. FileInv(q)'
      BY <2>1, <1>1, Zenon DEF FileInv
    <2>7. StoreInv(q)'
      BY <2>1, <2>2, <1>1, Zenon DEF StoreInv, Held, Done, MyRT, ItemOf
    <2> QED BY <2>5, <2>6, <2>7, Zenon
  <1>4. FileInv(r)' /\ StoreInv(r)'
    BY Zenon DEF FileInv, StoreInv, Done
  <1>5. RowInv'
    BY <1>1 DEF UploadInv, RowInv
  <1>6. ArchiveInv' /\ OnceInv' /\ AgreeInv'
    <2>1. ~ InStore(r) /\ ~ InStore(r)' /\ ~ Done(r)
      BY Zenon DEF InStore, Done, Held
    <2> QED BY <1>1, <2>1, StoreFrame, Zenon
  <1> QED BY <1>2, <1>3, <1>4, <1>5, <1>6, Zenon DEF UploadInv

\* A request begins.
LEMMA StartInv ==
    ASSUME UploadInv, NEW r \in Requests, NEW op \in {"chunk", "complete", "abort"}, Start(r, op)
    PROVE  UploadInv'
  <1>1. req[r].pc = "idle" /\ UNCHANGED <<rowVars, temp, rts, current, storeVars, janitor, faults>>
    BY Zenon DEF Start, rtVars
  <1>2. PICK v \in Request : v.pc = "rt" /\ req' = [req EXCEPT ![r] = v]
    <2> DEFINE w == [Idle EXCEPT !.op = op, !.pc = "rt"]
    <2>1. w \in Request /\ w.pc = "rt"
      BY IdleType, ZenonT(30) DEF Request, PCs
    <2>2. req' = [req EXCEPT ![r] = w]
      BY Zenon DEF Start
    <2> QED BY <2>1, <2>2, ZenonT(30)
  <1>3. req' \in [Requests -> Request] /\ req'[r] = v /\ \A q \in Requests : q # r => req'[q] = req[q]
    BY <1>2, Zenon DEF UploadInv, TypeInv
  <1>4. ~ Held(r) /\ LockInv(r)'
    BY <1>1, <1>2, <1>3, Zenon DEF Held, LockInv, Deep, Done
  <1>5. OneLock' /\ rts' \in Seq(RT) /\ Len(rts') >= Len(rts) /\ current' \in 0..Len(rts')
    BY <1>1 DEF UploadInv, OneLock, TypeInv
  <1> QED BY <1>1, <1>2, <1>3, <1>4, <1>5, FreeStep, Zenon

\* The uploadRT is found or made.
LEMMA GetInv ==
    ASSUME UploadInv, NEW r \in Requests, GetRT(r)
    PROVE  UploadInv'
  <1>1. /\ req[r].pc = "rt" /\ UNCHANGED <<rowVars, temp, storeVars, janitor, faults>>
        /\ req[r] \in Request /\ req \in [Requests -> Request] /\ rts \in Seq(RT)
        /\ Len(rts) \in Nat /\ current \in 0..Len(rts)
    BY DEF GetRT, UploadInv, TypeInv, boundVars
  <1>2. FreshRT \in RT
    BY Zenon DEF FreshRT, RT, Content
  <1>3. /\ rts' \in Seq(RT) /\ Len(rts') >= Len(rts)
        /\ current' \in 1..Len(rts') /\ current' \in Nat
        /\ \A i \in 1..Len(rts) : rts'[i] = rts[i]
        /\ OneLock'
    <2>1. CASE current = 0
      <3>1. rts' = Append(rts, FreshRT) /\ current' = Len(rts) + 1
        BY <2>1, Zenon DEF GetRT
      <3>2. rts' \in Seq(RT) /\ Len(rts') = Len(rts) + 1 /\ \A i \in 1..Len(rts) : rts'[i] = rts[i]
        BY <1>1, <1>2, <3>1
      <3>3. temp # None => Len(rts) = 0
        BY <2>1, Zenon DEF UploadInv, OneLock
      <3>4. OneLock'
        BY <3>1, <3>2, <3>3, <1>1 DEF OneLock
      <3> QED BY <3>1, <3>2, <3>4, <1>1
    <2>2. CASE current # 0
      <3>1. rts' = rts /\ current' = current
        BY <2>2, Zenon DEF GetRT, rtVars
      <3>2. current \in 1..Len(rts) /\ current \in Nat
        BY <1>1, <2>2
      <3> QED BY <3>1, <3>2, <1>1 DEF UploadInv, OneLock
    <2> QED BY <2>1, <2>2, Zenon
  <1>4. PICK v \in Request : v.pc = "lock" /\ v.rt = current' /\ req' = [req EXCEPT ![r] = v]
    <2>1. [req[r] EXCEPT !.pc = "lock", !.rt = current'] \in Request
      BY <1>1, <1>3, ZenonT(30) DEF Request, PCs
    <2>2. /\ [req[r] EXCEPT !.pc = "lock", !.rt = current'].pc = "lock"
          /\ [req[r] EXCEPT !.pc = "lock", !.rt = current'].rt = current'
      BY <1>1, Zenon DEF Request
    <2>3. req' = [req EXCEPT ![r] = [req[r] EXCEPT !.pc = "lock", !.rt = current']]
      BY <1>1, ZenonT(30) DEF GetRT
    <2> QED BY <2>1, <2>2, <2>3, ZenonT(30)
  <1>5. req' \in [Requests -> Request] /\ req'[r] = v /\ \A q \in Requests : q # r => req'[q] = req[q]
    BY <1>1, <1>4, Zenon
  <1>6. ~ Held(r) /\ LockInv(r)'
    BY <1>1, <1>3, <1>4, <1>5, Zenon DEF Held, LockInv, Deep, Done
  <1>7. \A q \in Requests : q # r /\ Held(q) => rts'[req[q].rt] = rts[req[q].rt]
    BY <1>3, Zenon DEF UploadInv, LockInv, Held
  <1>8. current' \in 0..Len(rts')
    BY <1>3
  <1> QED BY <1>1, <1>3, <1>4, <1>5, <1>6, <1>7, <1>8, FreeStep, Zenon

\* The lock was free, so whoever holds a lock holds another one.
LEMMA LockedInv ==
    ASSUME UploadInv, NEW r \in Requests, Lock(r)
    PROVE  UploadInv'
  <1>1. /\ req[r].pc = "lock" /\ UNCHANGED <<rowVars, temp, storeVars, janitor, faults, current>>
        /\ req[r] \in Request /\ req \in [Requests -> Request] /\ rts \in Seq(RT)
        /\ Len(rts) \in Nat /\ current \in 0..Len(rts) /\ req[r].rt \in 1..Len(rts)
        /\ rts[req[r].rt].owner = None
    BY DEF Lock, UploadInv, TypeInv, LockInv, boundVars
  <1>2. PICK rt \in RT : rt.owner = r /\ rts' = [rts EXCEPT ![req[r].rt] = rt]
    <2>1. rts[req[r].rt] \in RT
      BY <1>1
    <2>2. [rts[req[r].rt] EXCEPT !.owner = r] \in RT /\ [rts[req[r].rt] EXCEPT !.owner = r].owner = r
      BY <2>1, Zenon DEF RT
    <2>3. rts' = [rts EXCEPT ![req[r].rt] = [rts[req[r].rt] EXCEPT !.owner = r]]
      BY <1>1, Zenon DEF Lock
    <2> QED BY <2>2, <2>3, ZenonT(30)
  <1>3. PICK v \in Request : v.pc = "locked" /\ v.rt = req[r].rt /\ req' = [req EXCEPT ![r] = v]
    <2>1. [req[r] EXCEPT !.pc = "locked"] \in Request
      BY <1>1, ZenonT(30) DEF Request, PCs
    <2>2. [req[r] EXCEPT !.pc = "locked"].pc = "locked" /\ [req[r] EXCEPT !.pc = "locked"].rt = req[r].rt
      BY <1>1, Zenon DEF Request
    <2>3. req' = [req EXCEPT ![r] = [req[r] EXCEPT !.pc = "locked"]]
      BY <1>1, Zenon DEF Lock
    <2> QED BY <2>1, <2>2, <2>3, ZenonT(30)
  <1>4. req' \in [Requests -> Request] /\ req'[r] = v /\ \A q \in Requests : q # r => req'[q] = req[q]
    BY <1>1, <1>3, Zenon
  <1>5. /\ rts' \in Seq(RT) /\ Len(rts') = Len(rts) /\ rts'[req[r].rt] = rt
        /\ \A i \in 1..Len(rts) : i # req[r].rt => rts'[i] = rts[i]
    BY <1>1, <1>2
  <1>6. LockInv(r)' /\ ~ Held(r)
    BY <1>1, <1>2, <1>3, <1>4, <1>5, Zenon DEF Held, LockInv, Deep, Done
  <1>7. ASSUME NEW q \in Requests, q # r, Held(q) PROVE rts'[req[q].rt] = rts[req[q].rt]
    <2>1. req[q].rt \in 1..Len(rts) /\ rts[req[q].rt].owner = q
      BY <1>7, Zenon DEF UploadInv, LockInv, Held
    <2>2. req[q].rt # req[r].rt
      BY <1>1, <2>1, ArchiveAssumption, Zenon
    <2> QED BY <1>5, <2>1, <2>2, Zenon
  <1>8. OneLock'
    BY <1>1, <1>5, Zenon DEF UploadInv, OneLock
  <1>9. Len(rts') >= Len(rts) /\ current' \in 0..Len(rts')
    BY <1>1, <1>5
  <1> QED BY <1>1, <1>3, <1>4, <1>5, <1>6, <1>7, <1>8, <1>9, FreeStep, Zenon

-----------------------------------------------------------------------------
(* archiveUploadChunk *)

\* A chunk or a complete that is refused changes nothing.
LEMMA RefusedInv ==
    ASSUME UploadInv, NEW r \in Requests, ChunkRefused(r) \/ CompleteRefused(r)
    PROVE  UploadInv'
  <1>1. /\ req[r].pc = "locked" /\ Leave(r, MyRT(r))
        /\ UNCHANGED <<rowVars, temp, current, storeVars, janitor, faults>>
    BY Zenon DEF ChunkRefused, CompleteRefused, boundVars
  <1>2. Held(r) /\ ~ InStore(r) /\ ~ Done(r)
    BY <1>1, Zenon DEF Held, InStore, Done
  <1>3. MyRT(r) \in RT /\ faults' = faults /\ faults \subseteq AllFaults
    BY <1>1, <1>2, HolderFacts, Zenon DEF UploadInv, TypeInv
  <1> QED BY <1>1, <1>2, <1>3, AnswerStep, Zenon

\* An accepted chunk starts at the offset the row has.
LEMMA AcceptedInv ==
    ASSUME UploadInv, NEW r \in Requests, ChunkAccepted(r)
    PROVE  UploadInv'
  <1>1. /\ req[r].pc = "locked"
        /\ UNCHANGED <<status, received, temp, rts, current, objects, items, acked, janitor, faults>>
        /\ received \in 0..Size /\ temp \in Content /\ faults \subseteq AllFaults
        /\ status \in {"open", "aborted", "completed"}
        /\ req \in [Requests -> Request] /\ req[r] \in Request
    BY Zenon DEF ChunkAccepted, rowVars, rtVars, storeVars, boundVars, UploadInv, TypeInv
  <1>2. Held(r) /\ ~ InStore(r) /\ ~ Done(r)
    BY <1>1, Zenon DEF Held, InStore, Done
  <1>3. PICK v \in Request : /\ v.pc = "copy" /\ v.offset = received /\ v.rt = req[r].rt
                             /\ req' = [req EXCEPT ![r] = v]
    <2> DEFINE w == [req[r] EXCEPT !.pc = "copy", !.offset = received]
    <2>1. w \in Request /\ w.pc = "copy" /\ w.offset = received /\ w.rt = req[r].rt
      BY <1>1, ZenonT(30) DEF Request, PCs
    <2>2. req' = [req EXCEPT ![r] = w]
      BY <1>1, ZenonT(30) DEF ChunkAccepted
    <2> QED BY <2>1, <2>2, ZenonT(30)
  <1>4. Others(r) /\ req'[r] = v
    BY <1>1, <1>2, <1>3, StayOthers, ZenonT(40)
  <1>5. LockInv(r)' /\ FileInv(r)' /\ StoreInv(r)' /\ ~ InStore(r)'
    BY <1>1, <1>2, <1>3, <1>4, HolderFacts, SMTT(30)
       DEF LockInv, FileInv, StoreInv, Held, Deep, Done, InStore, MyRT
  <1>6. RowInv'
    BY <1>1, Zenon DEF UploadInv, RowInv
  <1> QED BY <1>1, <1>2, <1>4, <1>5, <1>6, HeldStep, Zenon

\* The hash state or the file is not there.
LEMMA CopyFailsInv ==
    ASSUME UploadInv, NEW r \in Requests, CopyFails(r)
    PROVE  UploadInv'
  <1>1. /\ req[r].pc = "copy" /\ Leave(r, ensureHashes(MyRT(r), req[r].offset))
        /\ UNCHANGED <<rowVars, temp, current, storeVars, janitor, faults>>
    BY Zenon DEF CopyFails, boundVars
  <1>2. Held(r) /\ ~ InStore(r) /\ ~ Done(r)
    BY <1>1, Zenon DEF Held, InStore, Done
  <1>3. ensureHashes(MyRT(r), req[r].offset) \in RT /\ faults' = faults /\ faults \subseteq AllFaults
    BY <1>1, <1>2, HolderFacts, HashFacts, Zenon DEF UploadInv, TypeInv
  <1> QED BY <1>1, <1>2, <1>3, AnswerStep, Zenon

\* Bytes are written behind what the row says, by the only holder of a lock.
LEMMA ReceiveInv ==
    ASSUME UploadInv, NEW r \in Requests, req[r].pc = "copy", temp # None,
           NEW data \in Seq(Nat), NEW pc \in {"copied", "undo"}, NEW rt \in RT, rt.owner = r,
           temp' = Write(temp, req[r].offset, data),
           rts' = [rts EXCEPT ![req[r].rt] = rt],
           req' = [req EXCEPT ![r].pc = pc, ![r].n = Len(data)],
           faults \subseteq faults', faults' \subseteq AllFaults,
           UNCHANGED <<rowVars, current, storeVars, janitor>>
    PROVE  UploadInv'
  <1>1. /\ UNCHANGED <<status, received, current, objects, items, acked, janitor>>
        /\ received \in 0..Size /\ received \in Nat /\ status \in {"open", "aborted", "completed"}
        /\ req \in [Requests -> Request] /\ req[r] \in Request
        /\ temp \in Seq(Nat) /\ Len(temp) \in Nat /\ Len(data) \in Nat
    BY ArchiveAssumption DEF rowVars, storeVars, UploadInv, TypeInv, Content
  <1>2. Held(r) /\ ~ InStore(r) /\ ~ Done(r)
    BY Zenon DEF Held, InStore, Done
  <1>3. /\ req[r].rt = 1 /\ 1 \in 1..Len(rts) /\ req[r].offset = received
    <2>1. Len(rts) <= 1 /\ Len(rts) \in Nat
      BY DEF UploadInv, OneLock, TypeInv
    <2>2. req[r].rt \in 1..Len(rts) /\ FileInv(r)
      BY <1>2, HolderFacts, Zenon
    <2> QED BY <2>1, <2>2 DEF FileInv
  <1>4. /\ temp' \in Seq(Nat) /\ temp' # None /\ Len(temp') \in Nat
        /\ Len(temp') >= Len(temp) /\ Len(temp') >= received + Len(data)
    BY <1>1, <1>3, WriteFacts, ArchiveAssumption
  <1>5. PICK v \in Request : /\ v.pc = pc /\ v.n = Len(data) /\ v.offset = received /\ v.rt = 1
                             /\ req' = [req EXCEPT ![r] = v]
    <2> DEFINE w == [req[r] EXCEPT !.pc = pc, !.n = Len(data)]
    <2>1. w \in Request /\ w.pc = pc /\ w.n = Len(data) /\ w.offset = received /\ w.rt = 1
      BY <1>1, <1>3, ZenonT(30) DEF Request, PCs
    <2>2. req' = [req EXCEPT ![r] = w]
      BY <1>1, ZenonT(30)
    <2> QED BY <2>1, <2>2, ZenonT(30)
  <1>6. Others(r) /\ req'[r] = v /\ rts'[req[r].rt] = rt
    <2>1. ASSUME req' = [req EXCEPT ![r] = v], rts' = [rts EXCEPT ![req[r].rt] = rt]
          PROVE  Others(r) /\ req'[r] = v /\ rts'[req[r].rt] = rt
      BY ONLY UploadInv, <1>2, <2>1, ReplaceOthers, r \in Requests, v \in Request, rt \in RT, ZenonT(30)
    <2> QED BY <1>5, <2>1, ZenonT(30)
  <1>7. LockInv(r)'
    BY <1>3, <1>5, <1>6 DEF LockInv, Held, Others
  <1>8. FileInv(r)' /\ StoreInv(r)' /\ ~ InStore(r)'
    BY <1>1, <1>4, <1>5, <1>6, ZenonT(30) DEF FileInv, StoreInv, Done, InStore
  <1>9. RowInv'
    BY <1>1, <1>4 DEF UploadInv, RowInv
  <1>10. temp' \in Content
    BY <1>4, Zenon DEF Content
  <1> QED BY <1>1, <1>2, <1>6, <1>7, <1>8, <1>9, <1>10, HeldStep, ZenonT(30)

\* io.Copy of the request body.
LEMMA CopyInv ==
    ASSUME UploadInv, NEW r \in Requests, Copy(r)
    PROVE  UploadInv'
  <1> DEFINE rt == ensureHashes(MyRT(r), req[r].offset)
             o == req[r].offset
  <1>1. /\ rt \in RT /\ o \in 0..Size /\ o \in Nat
        /\ rt.owner = r /\ req[r].pc = "copy" /\ rt.h # None /\ temp # None
        /\ UNCHANGED <<rowVars, current, storeVars, janitor>>
    <2>1. /\ req[r].pc = "copy" /\ rt.h # None /\ temp # None
          /\ UNCHANGED <<rowVars, current, storeVars, janitor>>
      BY Zenon DEF Copy
    <2>2. Held(r) /\ TypeInv
      BY <2>1, Zenon DEF Held, UploadInv
    <2> QED BY <2>1, <2>2, HolderFacts, HashFacts, Zenon
  <1>2. PICK n \in 0..(Size - o + 1) :
           \E data \in {[i \in 1..n |-> o + i], [i \in 1..n |-> 0]} : \E pc \in {"copied", "undo"} :
              /\ temp' = Write(temp, o, data)
              /\ rts' = [rts EXCEPT ![req[r].rt] = [rt EXCEPT !.h = rt.h \o data]]
              /\ req' = [req EXCEPT ![r].pc = pc, ![r].n = Len(data)]
              /\ faults' = faults \/ Fault("corrupt") \/ Fault("body")
    <2>1. PICK n \in 0..(Size - o + 1) :
             \/ /\ temp' = Write(temp, o, [i \in 1..n |-> o + i])
                /\ rts' = [rts EXCEPT ![req[r].rt] = [rt EXCEPT !.h = rt.h \o [i \in 1..n |-> o + i]]]
                /\ req' = [req EXCEPT ![r].pc = "copied", ![r].n = Len([i \in 1..n |-> o + i])]
                /\ faults' = faults
             \/ /\ temp' = Write(temp, o, [i \in 1..n |-> 0])
                /\ rts' = [rts EXCEPT ![req[r].rt] = [rt EXCEPT !.h = rt.h \o [i \in 1..n |-> 0]]]
                /\ req' = [req EXCEPT ![r].pc = "copied", ![r].n = Len([i \in 1..n |-> 0])]
                /\ Fault("corrupt")
             \/ /\ temp' = Write(temp, o, [i \in 1..n |-> o + i])
                /\ rts' = [rts EXCEPT ![req[r].rt] = [rt EXCEPT !.h = rt.h \o [i \in 1..n |-> o + i]]]
                /\ req' = [req EXCEPT ![r].pc = "undo", ![r].n = Len([i \in 1..n |-> o + i])]
                /\ Fault("body")
      BY Zenon DEF Copy
    <2> HIDE DEF rt, o
    <2> QED BY <2>1, Zenon
  <1> HIDE DEF rt, o
  <1>2a. PICK data \in {[i \in 1..n |-> o + i], [i \in 1..n |-> 0]}, pc \in {"copied", "undo"} :
           /\ temp' = Write(temp, o, data)
           /\ rts' = [rts EXCEPT ![req[r].rt] = [rt EXCEPT !.h = rt.h \o data]]
           /\ req' = [req EXCEPT ![r].pc = pc, ![r].n = Len(data)]
           /\ faults' = faults \/ Fault("corrupt") \/ Fault("body")
    BY <1>2, Zenon
  <1>3. data \in Seq(Nat)
    <2>1. n \in Nat
      BY <1>1
    <2>2. [i \in 1..n |-> o + i] \in Seq(Nat) /\ [i \in 1..n |-> 0] \in Seq(Nat)
      BY <2>1, <1>1
    <2> QED BY <2>2, Zenon
  <1>4. rt.h \o data \in Seq(Nat)
    <2>1. rt.h \in Seq(Nat)
      BY <1>1, Zenon DEF RT, Content
    <2> QED BY <2>1, <1>3
  <1>5. [rt EXCEPT !.h = rt.h \o data] \in RT /\ [rt EXCEPT !.h = rt.h \o data].owner = r
    BY <1>1, <1>4, ZenonT(30) DEF RT, Content
  <1>6. faults \subseteq faults' /\ faults' \subseteq AllFaults
    BY <1>2a, FaultGrows, Zenon DEF Fault, UploadInv, TypeInv
  <1> QED BY <1>1, <1>2a, <1>3, <1>5, <1>6, ReceiveInv, ZenonT(30) DEF o

\* A step in which a request that wrote the file answers.
LEMMA WrittenStep ==
    ASSUME UploadInv, NEW r \in Requests, req[r].pc \in {"copied", "undo"},
           NEW rt \in RT, Leave(r, rt),
           temp' \in Content, temp' # None => temp # None, received' \in 0..Size, RowInv',
           UNCHANGED <<status, current, objects, items, acked, janitor>>,
           faults \subseteq faults', faults' \subseteq AllFaults
    PROVE  UploadInv'
  <1>1. Held(r) /\ ~ InStore(r) /\ ~ Done(r) /\ Deep(r)
    BY Zenon DEF Held, InStore, Done, Deep
  <1>2. Others(r) /\ req'[r] = Idle
    BY <1>1, LeaveOthers, Zenon
  <1>3. ~ InStore(r)'
    BY <1>2, SMTT(30) DEF InStore, Idle
  <1>4. status' = status /\ status' \in {"open", "aborted", "completed"}
    BY Zenon DEF UploadInv, TypeInv
  <1> QED BY <1>1, <1>2, <1>3, <1>4, IdleInv, HeldStep, Zenon

\* rollback leaves a file of the length the row says, unless the row was
\* updated after all.
LEMMA RollbackInv ==
    ASSUME UploadInv, NEW r \in Requests, req[r].pc \in {"copied", "undo"}, Rollback(r),
           received' \in 0..Size, received' = received \/ "lostUpdate" \in faults',
           status' = status, faults \subseteq faults', faults' \subseteq AllFaults
    PROVE  UploadInv'
  <1>1. Held(r)
    BY Zenon DEF Held
  <1>2. /\ MyRT(r) \in RT /\ req[r].offset \in Nat /\ req[r].offset = received
        /\ temp \in Content /\ (temp # None => temp \in Seq(Nat))
    BY <1>1, HolderFacts, ZenonT(30) DEF FileInv, UploadInv, TypeInv, Content
  <1>3. [MyRT(r) EXCEPT !.n = 0, !.h = None] \in RT
    BY <1>2, ZenonT(30) DEF RT, Content
  <1>4. Leave(r, [MyRT(r) EXCEPT !.n = 0, !.h = None])
        /\ UNCHANGED <<current, objects, items, acked, janitor>>
    BY Zenon DEF Rollback, storeVars
  <1>5. temp = None => temp' = None
    BY Zenon DEF Rollback
  <1>6. temp # None => temp' \in Seq(Nat) /\ Len(temp') = received
    BY <1>2, TruncateFacts, Zenon DEF Rollback
  <1>7. temp' \in Content
    BY <1>5, <1>6, Zenon DEF Content
  <1>8. RowInv'
    <2>1. temp' # None /\ "lostUpdate" \notin faults' => Len(temp') >= received'
      BY <1>2, <1>5, <1>6
    <2>2. temp # None => temp' # None
      BY <1>6, ArchiveAssumption, Zenon
    <2> QED BY <1>4, <2>1, <2>2, Zenon DEF UploadInv, RowInv
  <1> QED BY <1>3, <1>4, <1>5, <1>7, <1>8, WrittenStep, Zenon

\* A chunk that is cut off or too long is undone.
LEMMA UndoneInv ==
    ASSUME UploadInv, NEW r \in Requests, ChunkUndone(r)
    PROVE  UploadInv'
  <1>1. req[r].pc \in {"copied", "undo"} /\ Rollback(r) /\ UNCHANGED <<status, received, faults>>
    BY Zenon DEF ChunkUndone, rowVars
  <1>2. received \in 0..Size /\ faults \subseteq AllFaults
    BY Zenon DEF UploadInv, TypeInv
  <1> QED BY <1>1, <1>2, RollbackInv, Zenon

\* The new length fits the declared size.
LEMMA NewLength ==
    ASSUME UploadInv, NEW r \in Requests, req[r].pc = "copied", ~ TooMuch(r)
    PROVE  req[r].offset + req[r].n \in 0..Size
  <1>1. req[r].offset \in Nat /\ req[r].n \in Nat /\ Size \in Nat
    BY HolderFacts, ArchiveAssumption, Zenon DEF Held
  <1> QED BY <1>1 DEF TooMuch

\* The bytes are in the file before the row says so.
LEMMA RecordedInv ==
    ASSUME UploadInv, NEW r \in Requests, ChunkRecorded(r)
    PROVE  UploadInv'
  <1>1. /\ req[r].pc = "copied" /\ ~ TooMuch(r) /\ received' = req[r].offset + req[r].n
        /\ Leave(r, [MyRT(r) EXCEPT !.n = req[r].offset + req[r].n])
        /\ UNCHANGED <<status, temp, current, objects, items, acked, janitor, faults>>
    BY Zenon DEF ChunkRecorded, storeVars, boundVars
  <1>2. received' \in 0..Size /\ req[r].offset + req[r].n \in Nat
    BY <1>1, NewLength, ArchiveAssumption
  <1>3. MyRT(r) \in RT /\ FileInv(r)
    BY <1>1, HolderFacts, Zenon DEF Held
  <1>4. [MyRT(r) EXCEPT !.n = req[r].offset + req[r].n] \in RT
    BY <1>2, <1>3, Zenon DEF RT
  <1>5. RowInv'
    BY <1>1, <1>3, Zenon DEF FileInv, UploadInv, RowInv
  <1>6. temp' \in Content /\ faults' \subseteq AllFaults
    BY <1>1, Zenon DEF UploadInv, TypeInv
  <1> QED BY <1>1, <1>2, <1>4, <1>5, <1>6, WrittenStep, Zenon

\* The UPDATE of the row fails, or seems to.
LEMMA UpdateFailsInv ==
    ASSUME UploadInv, NEW r \in Requests, ChunkUpdateFails(r)
    PROVE  UploadInv'
  <1>1. req[r].pc = "copied" /\ ~ TooMuch(r) /\ Rollback(r) /\ status' = status
    BY Zenon DEF ChunkUpdateFails
  <1>2. req[r].offset + req[r].n \in 0..Size /\ received \in 0..Size /\ TypeInv
    BY <1>1, NewLength, Zenon DEF UploadInv, TypeInv
  <1>3. CASE Fault("update") /\ received' = received
    BY <1>1, <1>2, <1>3, FaultGrows, RollbackInv, Zenon DEF Fault
  <1>4. CASE Fault("lostUpdate") /\ received' = req[r].offset + req[r].n
    <2>1. "lostUpdate" \in faults' /\ faults \subseteq faults' /\ faults' \subseteq AllFaults
      BY <1>2, <1>4, FaultGrows, Zenon DEF Fault
    <2> QED BY <1>1, <1>2, <1>4, <2>1, RollbackInv, Zenon
  <1> QED BY <1>3, <1>4, Zenon DEF ChunkUpdateFails

-----------------------------------------------------------------------------
(* archiveAbort and archiveComplete *)

\* A holder goes on to a step that is not in the store.
LEMMA GotoStep ==
    ASSUME UploadInv, NEW r \in Requests, Held(r), ~ InStore(r),
           NEW pc \in {"sum", "put", "cleanup"}, Goto(r, pc),
           rts' = rts \/ \E rt \in RT : rt.owner = r /\ rts' = [rts EXCEPT ![req[r].rt] = rt],
           pc = "put" => MyRT(r).h' = Bytes(Size),
           pc \in {"sum", "put"} => req[r].op = "complete" /\ ~ Done(r),
           pc = "cleanup" => /\ "update" \notin faults' => status' # "open"
                             /\ req[r].op = "complete" => req[r].pc = "finish"
                             /\ Done(r) => req[r].op = "complete",
           status' \in {"open", "aborted", "completed"}, status' = status \/ status' # "open",
           UNCHANGED <<received, temp, current, objects, items, acked, janitor>>,
           faults \subseteq faults', faults' \subseteq AllFaults
    PROVE  UploadInv'
  <1>1. PICK v \in Request : /\ v.pc = pc /\ v.op = req[r].op /\ v.rt = req[r].rt /\ v.key = req[r].key
                             /\ req' = [req EXCEPT ![r] = v]
    <2> DEFINE w == [req[r] EXCEPT !.pc = pc]
    <2>1. pc \in PCs
      BY Zenon DEF PCs
    <2>2. /\ w \in Request /\ w.pc = pc /\ w.op = req[r].op /\ w.rt = req[r].rt /\ w.key = req[r].key
          /\ req' = [req EXCEPT ![r] = w]
      BY <2>1, GotoType, ZenonT(40)
    <2> HIDE DEF w
    <2> QED BY <2>2, Zenon
  <1>2. Others(r) /\ req'[r] = v /\ rts'[req[r].rt].owner = r
    <2>1. CASE rts' = rts
      <3>1. Others(r) /\ req'[r] = v
        BY ONLY UploadInv, Held(r), <1>1, <2>1, StayOthers, r \in Requests, v \in Request, ZenonT(30)
      <3> QED BY <3>1, <2>1, HolderFacts, Zenon DEF MyRT
    <2>2. CASE \E rt \in RT : rt.owner = r /\ rts' = [rts EXCEPT ![req[r].rt] = rt]
      <3>1. PICK rt \in RT : rt.owner = r /\ rts' = [rts EXCEPT ![req[r].rt] = rt]
        BY <2>2, ZenonT(30)
      <3>2. Others(r) /\ req'[r] = v /\ rts'[req[r].rt] = rt
        <4>1. req' = [req EXCEPT ![r] = v] /\ rts' = [rts EXCEPT ![req[r].rt] = rt]
          BY <1>1, <3>1, Zenon
        <4> HIDE <1>1
        <4> QED BY ONLY <4>1, UploadInv, Held(r), ReplaceOthers, r \in Requests, v \in Request, rt \in RT, ZenonT(30)
      <3> QED BY <3>1, <3>2, Zenon
    <2> QED BY <2>1, <2>2, Zenon
  <1>3. /\ LockInv(r) /\ FileInv(r) /\ StoreInv(r) /\ req[r].rt \in 1..Len(rts)
    BY HolderFacts, Zenon
  <1>4. LockInv(r)'
    BY <1>1, <1>2, <1>3, Zenon DEF LockInv, Held, Deep, Done, Others
  <1>5. FileInv(r)' /\ ~ InStore(r)'
    BY <1>1, <1>2, Zenon DEF FileInv, InStore
  <1>6. Done(r)' <=> pc = "cleanup" /\ req[r].pc = "finish"
    BY <1>1, <1>2, <1>3, Zenon DEF Done, LockInv
  <1>7. StoreInv(r)'
    BY <1>1, <1>2, <1>3, <1>6, ZenonT(40) DEF StoreInv, Done, MyRT, ItemOf
  <1>8. Done(r) => Done(r)' \/ temp' = None
    BY <1>1, <1>2, Zenon DEF Done
  <1>9. RowInv'
    BY Zenon DEF UploadInv, RowInv
  <1>10. temp' \in Content /\ received' \in 0..Size
    BY Zenon DEF UploadInv, TypeInv
  <1> QED BY <1>2, <1>4, <1>5, <1>7, <1>8, <1>9, <1>10, HeldStep, Zenon

\* archiveAbort past the lock.
LEMMA AbortInv ==
    ASSUME UploadInv, NEW r \in Requests, Abort(r)
    PROVE  UploadInv'
  <1>1. /\ req[r].op = "abort" /\ req[r].pc = "locked" /\ Goto(r, "cleanup")
        /\ UNCHANGED <<received, temp, rts, current, objects, items, acked, janitor>>
    BY Zenon DEF Abort, rtVars, storeVars
  <1>2. Held(r) /\ ~ InStore(r) /\ ~ Done(r)
    BY <1>1, Zenon DEF Held, InStore, Done
  <1>3. /\ status' \in {"open", "aborted", "completed"} /\ (status' = status \/ status' # "open")
        /\ "update" \notin faults' => status' # "open"
        /\ faults \subseteq faults' /\ faults' \subseteq AllFaults
    BY FaultGrows, Zenon DEF Abort, Fault, UploadInv, TypeInv
  <1> QED BY <1>1, <1>2, <1>3, GotoStep, Zenon

\* The upload is whole and is going to be archived.
LEMMA CompleteInv ==
    ASSUME UploadInv, NEW r \in Requests, CompleteAccepted(r)
    PROVE  UploadInv'
  <1>1. /\ req[r].op = "complete" /\ req[r].pc = "locked" /\ Goto(r, "sum")
        /\ UNCHANGED <<status, received, temp, rts, current, objects, items, acked, janitor, faults>>
    BY Zenon DEF CompleteAccepted, rowVars, rtVars, storeVars, boundVars
  <1>2. Held(r) /\ ~ InStore(r) /\ ~ Done(r)
    BY <1>1, Zenon DEF Held, InStore, Done
  <1>3. status' \in {"open", "aborted", "completed"} /\ faults' \subseteq AllFaults
    BY <1>1, Zenon DEF UploadInv, TypeInv
  <1> QED BY <1>1, <1>2, <1>3, GotoStep, Zenon

\* The digest is the sender's, or the request is answered with an error.
LEMMA SumInv ==
    ASSUME UploadInv, NEW r \in Requests, Sum(r)
    PROVE  UploadInv'
  <1> DEFINE rt == ensureHashes(MyRT(r), Size)
  <1>1. /\ req[r].pc = "sum"
        /\ UNCHANGED <<rowVars, temp, current, storeVars, janitor, faults>>
        /\ \/ Leave(r, rt)
           \/ /\ rt.h = Bytes(Size)
              /\ Goto(r, "put") /\ rts' = [rts EXCEPT ![req[r].rt] = rt]
    BY Zenon DEF Sum, ClientSum, boundVars
  <1>2. Held(r) /\ ~ InStore(r) /\ ~ Done(r)
    BY <1>1, Zenon DEF Held, InStore, Done
  <1>3. /\ rt \in RT /\ rt.owner = r /\ LockInv(r) /\ req[r].rt \in 1..Len(rts)
        /\ rts \in Seq(RT) /\ faults \subseteq AllFaults /\ status \in {"open", "aborted", "completed"}
    <2>1. Size \in 0..Size
      BY ArchiveAssumption
    <2> QED BY <1>2, <2>1, HolderFacts, HashFacts, ZenonT(30) DEF UploadInv, TypeInv
  <1> HIDE DEF rt
  <1>4. CASE Leave(r, rt)
    BY <1>1, <1>2, <1>3, <1>4, AnswerStep, Zenon
  <1>5. CASE rt.h = Bytes(Size) /\ Goto(r, "put") /\ rts' = [rts EXCEPT ![req[r].rt] = rt]
    <2>1. MyRT(r).h' = Bytes(Size)
      <3>1. req'[r].rt = req[r].rt
        BY <1>5, Zenon DEF Goto, UploadInv, TypeInv, Request
      <3>2. rts'[req[r].rt] = rt
        BY <1>3, <1>5
      <3> QED BY <3>1, <3>2, <1>5, Zenon DEF MyRT
    <2>2. req[r].op = "complete"
      BY <1>1, <1>3, Zenon DEF LockInv
    <2>3. UNCHANGED <<status, received, temp, current, objects, items, acked, janitor, faults>>
      BY <1>1, Zenon DEF rowVars, storeVars
    <2> QED BY <1>2, <1>3, <1>5, <2>1, <2>2, <2>3, GotoStep, ZenonT(30)
  <1> QED BY <1>1, <1>4, <1>5, Zenon

\* UPDATE ... 'completed'.
LEMMA FinishInv ==
    ASSUME UploadInv, NEW r \in Requests, Finish(r)
    PROVE  UploadInv'
  <1>1. /\ req[r].pc = "finish" /\ Goto(r, "cleanup")
        /\ UNCHANGED <<received, temp, rts, current, objects, items, acked, janitor>>
    BY Zenon DEF Finish, rtVars, storeVars
  <1>2. Held(r) /\ ~ InStore(r)
    BY <1>1, Zenon DEF Held, InStore
  <1>3. req[r].op = "complete"
    BY <1>1, <1>2, HolderFacts, Zenon DEF LockInv
  <1>4. /\ status' \in {"open", "aborted", "completed"} /\ (status' = status \/ status' # "open")
        /\ "update" \notin faults' => status' # "open"
        /\ faults \subseteq faults' /\ faults' \subseteq AllFaults
    BY FaultGrows, Zenon DEF Finish, Fault, UploadInv, TypeInv
  <1> QED BY <1>1, <1>2, <1>3, <1>4, GotoStep, Zenon

-----------------------------------------------------------------------------
(* Steps that change the object store or the items *)

\* Nobody else is between the store and the answer.
LEMMA Alone ==
    ASSUME UploadInv, NEW r \in Requests, Held(r), Deep(r) \/ temp # None
    PROVE  \A q \in Requests : q # r => ~ Deep(q)
  <1> SUFFICES ASSUME NEW q \in Requests, q # r, Deep(q) PROVE FALSE
    BY Zenon
  <1>1. Held(q)
    BY DeepHeld, Zenon
  <1> QED BY <1>1, Exclusive, Zenon

\* A step that changes only what is archived.
LEMMA StoreStep ==
    ASSUME UploadInv, NEW r \in Requests, Held(r), Others(r), Deep(r) \/ temp # None,
           UNCHANGED <<status, received, temp, current, acked, janitor>>,
           objects' \in Seq(Content), items' \subseteq [key : Nat, sum : Content],
           faults \subseteq faults', faults' \subseteq AllFaults,
           LockInv(r)', FileInv(r)', StoreInv(r)', ArchiveInv', OnceInv', AgreeInv'
    PROVE  UploadInv'
  <1>1. TypeInv'
    BY Zenon DEF UploadInv, TypeInv, Others
  <1>2. \A q \in Requests : q # r => LockInv(q)' /\ FileInv(q)' /\ StoreInv(q)'
    BY OthersInv, Zenon
  <1>3. OneLock' /\ RowInv'
    BY Zenon DEF UploadInv, OneLock, RowInv, Others
  <1> QED BY <1>1, <1>2, <1>3, Zenon DEF UploadInv

\* A new object belongs to the request that stored it.
LEMMA StoredInv ==
    ASSUME UploadInv, NEW r \in Requests, req[r].pc = "put", temp # None,
           NEW bytes \in Seq(Nat), NEW v \in Request,
           v.pc = "readback", v.op = req[r].op, v.rt = req[r].rt, v.key = Len(objects) + 1,
           req' = [req EXCEPT ![r] = v],
           objects' = Append(objects, bytes),
           UNCHANGED <<status, received, temp, rts, current, items, acked, janitor>>,
           faults \subseteq faults', faults' \subseteq AllFaults
    PROVE  UploadInv'
  <1>1. Held(r) /\ ~ InStore(r) /\ ~ Done(r)
    BY Zenon DEF Held, InStore, Done
  <1>2. Others(r) /\ req'[r] = v
    BY ONLY UploadInv, <1>1, StayOthers, r \in Requests, v \in Request,
            req' = [req EXCEPT ![r] = v], rts' = rts, ZenonT(30)
  <1>3. /\ objects \in Seq(Content) /\ bytes \in Content /\ bytes # None
        /\ Len(objects) \in Nat /\ DOMAIN objects = 1..Len(objects)
    BY ArchiveAssumption DEF UploadInv, TypeInv, Content
  <1>4. /\ objects' \in Seq(Content) /\ DOMAIN objects' = 1..(Len(objects) + 1)
        /\ objects'[v.key] = bytes
        /\ \A k \in DOMAIN objects : k # v.key /\ objects'[k] = objects[k]
    BY <1>3, SMTT(30)
  <1>5. \A item \in items : item.key \in DOMAIN objects
    BY Zenon DEF UploadInv, ArchiveInv
  <1>6. \A k \in acked : k \in DOMAIN objects
    BY <1>5, Zenon DEF UploadInv, ArchiveInv, ItemOf
  <1>7. \A q \in Requests : q # r => req'[q] = req[q] /\ ~ Deep(q)
    BY <1>1, <1>2, Alone, Zenon DEF Others
  <1>8. LockInv(r) /\ StoreInv(r) /\ req[r].rt \in 1..Len(rts) /\ req[r].rt = 1
    <2>1. current \in 0..Len(rts) /\ OneLock /\ Len(rts) \in Nat
      BY DEF UploadInv, TypeInv
    <2> QED BY <1>1, <2>1, HolderFacts DEF OneLock
  <1>9. LockInv(r)' /\ FileInv(r)'
    BY <1>1, <1>2, <1>8, Zenon DEF LockInv, FileInv, Held
  <1>10. StoreInv(r)'
    BY <1>2, <1>3, <1>4, <1>5, <1>6, <1>8, SMTT(30) DEF StoreInv, MyRT, Done, ItemOf
  <1>11. ArchiveInv'
    BY <1>3, <1>4, <1>5, <1>6 DEF UploadInv, ArchiveInv, ItemOf
  <1>12. OnceInv'
    <2> SUFFICES ASSUME faults' \cap {"crash", "lostCommit"} = {} PROVE items = {}
      BY Zenon DEF OnceInv
    <2>1. \A q \in Requests : ~ Done(q)
      BY <1>1, <1>7, Zenon DEF Deep
    <2> QED BY <2>1, Zenon DEF UploadInv, OnceInv
  <1>13. AgreeInv'
    <2> SUFFICES ASSUME faults' \cap {"crash", "lostCommit", "delete"} = {} PROVE AgreeInv'
      BY ZenonT(30) DEF AgreeInv
    <2>1. faults \cap {"crash", "lostCommit", "delete"} = {}
      BY Zenon
    <2>2. \A k \in DOMAIN objects' : objects'[k] # None =>
             ItemOf(k)' \/ \E q \in Requests : req'[q].pc \in {"readback", "commit"} /\ req'[q].key = k
      <3> SUFFICES ASSUME NEW k \in DOMAIN objects', objects'[k] # None
                   PROVE  ItemOf(k)' \/ \E q \in Requests : req'[q].pc \in {"readback", "commit"} /\ req'[q].key = k
        BY Zenon
      <3>1. CASE k = v.key
        BY <1>2, <3>1, Zenon
      <3>2. CASE k # v.key
        <4>1. k \in DOMAIN objects /\ objects[k] # None
          BY <1>3, <1>4, <3>2
        <4>2. ItemOf(k) \/ \E q \in Requests : req[q].pc \in {"readback", "commit"} /\ req[q].key = k
          BY <2>1, <4>1, Zenon DEF UploadInv, AgreeInv
        <4> QED BY <1>7, <4>2, Zenon DEF ItemOf
      <3> QED BY <3>1, <3>2, Zenon
    <2>3. \A item \in items' : objects'[item.key] # None
      BY <1>4, <1>5, <2>1, Zenon DEF UploadInv, AgreeInv
    <2> QED BY <2>2, <2>3, ZenonT(30) DEF AgreeInv
  <1>14. items' \subseteq [key : Nat, sum : Content]
    BY Zenon DEF UploadInv, TypeInv
  <1> QED BY <1>1, <1>2, <1>4, <1>9, <1>10, <1>11, <1>12, <1>13, <1>14, StoreStep, Zenon

\* A request that has got its key.
LEMMA KeyType ==
    ASSUME NEW q \in Request, NEW key \in Nat
    PROVE  LET w == [q EXCEPT !.pc = "readback", !.key = key]
           IN  w \in Request /\ w.pc = "readback" /\ w.op = q.op /\ w.rt = q.rt /\ w.key = key
  BY ZenonT(30) DEF Request, PCs

\* PutStream stores an object of its own, or the request is answered with an
\* error.
LEMMA PutInv ==
    ASSUME UploadInv, NEW r \in Requests, Put(r)
    PROVE  UploadInv'
  <1> DEFINE Stored(bytes) ==
                /\ objects' = Append(objects, bytes)
                /\ req' = [req EXCEPT ![r].pc = "readback", ![r].key = Len(objects) + 1]
                /\ UNCHANGED rts
             Failed == Leave(r, MyRT(r)) /\ UNCHANGED objects
             readable == IF temp = None THEN FALSE ELSE Len(temp) >= Size
  <1>1. /\ req[r].pc = "put"
        /\ \/ ~ readable /\ Failed /\ UNCHANGED faults
           \/ readable /\ Stored(SubSeq(temp, 1, Size)) /\ UNCHANGED faults
           \/ readable /\ Stored(Truncate(<<>>, Size)) /\ Fault("store")
           \/ readable /\ Failed /\ Fault("store")
        /\ UNCHANGED <<rowVars, temp, current, items, acked, janitor, starts>>
    BY Zenon DEF Put
  <1>2. faults \subseteq faults' /\ faults' \subseteq AllFaults
    BY <1>1, FaultGrows, Zenon DEF Fault, UploadInv, TypeInv
  <1>3. Held(r) /\ ~ InStore(r) /\ ~ Done(r)
    BY <1>1, Zenon DEF Held, InStore, Done
  <1>4. CASE Failed
    <2>1. UNCHANGED <<rowVars, temp, current, storeVars, janitor>>
      BY <1>1, <1>4, Zenon DEF storeVars
    <2>2. MyRT(r) \in RT
      BY <1>3, HolderFacts, Zenon
    <2> QED BY <1>2, <1>3, <1>4, <2>1, <2>2, AnswerStep, Zenon
  <1>5. ASSUME NEW bytes \in Seq(Nat), Stored(bytes), temp # None
        PROVE  UploadInv'
    <2>1. PICK v \in Request : /\ v.pc = "readback" /\ v.op = req[r].op /\ v.rt = req[r].rt
                               /\ v.key = Len(objects) + 1 /\ req' = [req EXCEPT ![r] = v]
      <3> DEFINE w == [req[r] EXCEPT !.pc = "readback", !.key = Len(objects) + 1]
      <3>1. req[r] \in Request /\ req \in [Requests -> Request] /\ Len(objects) \in Nat
        BY DEF UploadInv, TypeInv
      <3>2. /\ w \in Request /\ w.pc = "readback" /\ w.op = req[r].op /\ w.rt = req[r].rt
            /\ w.key = Len(objects) + 1
        <4>1. Len(objects) + 1 \in Nat
          BY <3>1
        <4> QED BY <3>1, <4>1, KeyType, ZenonT(30)
      <3>3. req' = [req EXCEPT ![r] = w]
        BY <1>5, <3>1, ZenonT(30) DEF Request
      <3> HIDE DEF w
      <3> QED BY <3>2, <3>3, Zenon
    <2>2. UNCHANGED <<status, received, temp, rts, current, items, acked, janitor>>
      BY <1>1, <1>5, Zenon DEF rowVars
    <2>3. objects' = Append(objects, bytes)
      BY <1>5, Zenon
    <2> QED BY ONLY UploadInv, r \in Requests, <1>1, <1>2, <1>5, <2>1, <2>2, <2>3, StoredInv,
                    bytes \in Seq(Nat), v \in Request, ZenonT(40)
  <1>6. readable => temp # None /\ SubSeq(temp, 1, Size) \in Seq(Nat)
    BY ArchiveAssumption DEF UploadInv, TypeInv, Content
  <1>7. Truncate(<<>>, Size) \in Seq(Nat)
    <2>1. <<>> \in Seq(Nat) /\ Size \in Nat
      BY ArchiveAssumption
    <2> QED BY <2>1, TruncateFacts, ZenonT(30)
  <1> HIDE DEF Stored, Failed, readable
  <1> QED BY <1>1, <1>4, <1>5, <1>6, <1>7, ZenonT(30)

\* What a request knows of the object it stored.
LEMMA MyObject ==
    ASSUME UploadInv, NEW r \in Requests, InStore(r)
    PROVE  /\ Held(r) /\ Deep(r) /\ ~ Done(r)
           /\ objects \in Seq(Content) /\ DOMAIN objects = 1..Len(objects)
           /\ req[r].key \in DOMAIN objects /\ objects[req[r].key] # None
           /\ req[r].key \notin acked /\ ~ ItemOf(req[r].key)
           /\ req[r].pc = "commit" => /\ objects[req[r].key] = Bytes(Size)
                                      /\ MyRT(r).h = Bytes(Size)
           /\ \A q \in Requests : q # r => ~ Deep(q)
           /\ faults \cap {"crash", "lostCommit"} = {} => items = {}
  <1>1. Held(r) /\ Deep(r) /\ ~ Done(r)
    BY Zenon DEF InStore, Held, Deep, Done
  <1>2. StoreInv(r) /\ objects \in Seq(Content) /\ OnceInv
    BY Zenon DEF UploadInv, TypeInv
  <1>3. \A q \in Requests : q # r => ~ Deep(q)
    BY <1>1, Alone, Zenon
  <1>4. faults \cap {"crash", "lostCommit"} = {} => items = {}
    BY <1>2, Zenon DEF OnceInv, InStore
  <1>5. DOMAIN objects = 1..Len(objects)
    BY <1>2
  <1> QED BY <1>1, <1>2, <1>3, <1>4, <1>5, Zenon DEF StoreInv, InStore

\* The object is deleted, or stays because its deletion failed.
LEMMA DropInv ==
    ASSUME UploadInv, NEW r \in Requests, InStore(r), Leave(r, MyRT(r)),
           \/ objects' = [objects EXCEPT ![req[r].key] = None]
           \/ "delete" \in faults' /\ objects' = objects,
           UNCHANGED <<status, received, temp, current, items, acked, janitor>>,
           faults \subseteq faults', faults' \subseteq AllFaults
    PROVE  UploadInv'
  <1>1. /\ Held(r) /\ Deep(r) /\ objects \in Seq(Content) /\ req[r].key \in DOMAIN objects
        /\ req[r].key \notin acked /\ ~ ItemOf(req[r].key)
        /\ faults \cap {"crash", "lostCommit"} = {} => items = {}
    BY MyObject, Zenon
  <1>2. Others(r) /\ req'[r] = Idle
    <2>1. MyRT(r) \in RT
      BY <1>1, HolderFacts, Zenon
    <2> QED BY <1>1, <2>1, LeaveOthers, ZenonT(30)
  <1>3. /\ objects' \in Seq(Content) /\ DOMAIN objects' = DOMAIN objects
        /\ \A k \in DOMAIN objects : k # req[r].key => objects'[k] = objects[k]
        /\ objects'[req[r].key] = None \/ ("delete" \in faults' /\ objects' = objects)
    <2>1. None \in Content
      BY Zenon DEF Content
    <2>2. CASE objects' = [objects EXCEPT ![req[r].key] = None]
      <3>1. objects' \in Seq(Content) /\ DOMAIN objects' = DOMAIN objects
        BY <1>1, <2>1, <2>2
      <3>2. /\ \A k \in DOMAIN objects : k # req[r].key => objects'[k] = objects[k]
            /\ objects'[req[r].key] = None
        BY <1>1, <2>2, Zenon
      <3> QED BY <3>1, <3>2, Zenon
    <2>3. CASE "delete" \in faults' /\ objects' = objects
      BY <1>1, <2>3, Zenon
    <2> QED BY <2>2, <2>3, Zenon
  <1>4. \A item \in items : item.key \in DOMAIN objects /\ item.key # req[r].key
    BY <1>1, ZenonT(30) DEF UploadInv, ArchiveInv, ItemOf
  <1>5. \A k \in acked : k \in DOMAIN objects /\ k # req[r].key
    BY <1>1, <1>4, Zenon DEF UploadInv, ArchiveInv, ItemOf
  <1>6. ArchiveInv'
    BY <1>3, <1>4, <1>5, Zenon DEF UploadInv, ArchiveInv, ItemOf
  <1>7. OnceInv'
    BY <1>1, Zenon DEF OnceInv
  <1>8. AgreeInv'
    <2> SUFFICES ASSUME faults' \cap {"crash", "lostCommit", "delete"} = {} PROVE AgreeInv'
      BY Zenon DEF AgreeInv
    <2>1. faults \cap {"crash", "lostCommit", "delete"} = {} /\ objects'[req[r].key] = None
      BY <1>3, Zenon
    <2>2. ASSUME NEW k \in DOMAIN objects', objects'[k] # None
          PROVE  ItemOf(k)' \/ \E q \in Requests : req'[q].pc \in {"readback", "commit"} /\ req'[q].key = k
      <3>1. k \in DOMAIN objects /\ objects[k] # None /\ k # req[r].key
        BY <1>3, <2>1, <2>2
      <3>2. ItemOf(k) \/ \E q \in Requests : req[q].pc \in {"readback", "commit"} /\ req[q].key = k
        BY <2>1, <3>1, Zenon DEF UploadInv, AgreeInv
      <3> QED BY <1>2, <3>1, <3>2, Zenon DEF ItemOf, Others
    <2>3. \A item \in items' : objects'[item.key] # None
      BY <1>3, <1>4, <2>1, Zenon DEF UploadInv, AgreeInv
    <2> QED BY <2>2, <2>3, Zenon DEF AgreeInv
  <1>9. items' \subseteq [key : Nat, sum : Content]
    BY Zenon DEF UploadInv, TypeInv
  <1> QED BY <1>1, <1>2, <1>3, <1>6, <1>7, <1>8, <1>9, IdleInv, StoreStep, Zenon

\* What DeleteObject leaves.
LEMMA DeleteFacts ==
    ASSUME UploadInv, NEW r \in Requests, NEW kinds, DeleteObject(r, kinds)
    PROVE  /\ \/ objects' = [objects EXCEPT ![req[r].key] = None]
              \/ "delete" \in faults' /\ objects' = objects
           /\ faults \subseteq faults' /\ faults' \subseteq AllFaults /\ kinds \subseteq faults'
  <1>1. faults \subseteq AllFaults /\ FaultKinds \subseteq AllFaults
    BY ArchiveAssumption, Zenon DEF UploadInv, TypeInv
  <1> QED BY <1>1, Zenon DEF DeleteObject, Faults

\* The object is read back before anything is recorded about it.
LEMMA ReadBackInv ==
    ASSUME UploadInv, NEW r \in Requests, ReadBack(r)
    PROVE  UploadInv'
  <1>1. /\ req[r].pc = "readback" /\ InStore(r)
        /\ UNCHANGED <<status, received, temp, current, items, acked, janitor>>
    BY Zenon DEF ReadBack, InStore, rowVars
  <1>2. CASE objects[req[r].key] # MyRT(r).h
    <2>1. Leave(r, MyRT(r)) /\ DeleteObject(r, {})
      BY <1>2, Zenon DEF ReadBack
    <2> QED BY <1>1, <2>1, DeleteFacts, DropInv, Zenon
  <1>3. CASE objects[req[r].key] = MyRT(r).h
    <2>1. Goto(r, "commit") /\ UNCHANGED <<rts, objects, faults>>
      BY <1>3, Zenon DEF ReadBack
    <2>2. PICK v \in Request : /\ v.pc = "commit" /\ v.op = req[r].op /\ v.rt = req[r].rt /\ v.key = req[r].key
                               /\ req' = [req EXCEPT ![r] = v]
      <3> DEFINE w == [req[r] EXCEPT !.pc = "commit"]
      <3>1. "commit" \in PCs
        BY Zenon DEF PCs
      <3>2. /\ w \in Request /\ w.pc = "commit" /\ w.op = req[r].op /\ w.rt = req[r].rt /\ w.key = req[r].key
            /\ req' = [req EXCEPT ![r] = w]
        BY <2>1, <3>1, GotoType, Zenon
      <3> HIDE DEF w
      <3> QED BY <3>2, Zenon
    <2>3. Held(r) /\ Deep(r) /\ LockInv(r) /\ StoreInv(r) /\ req[r].rt \in 1..Len(rts)
      BY <1>1, MyObject, HolderFacts, Zenon
    <2>4. Others(r) /\ req'[r] = v
      BY ONLY UploadInv, <2>1, <2>2, <2>3, StayOthers, r \in Requests, v \in Request, ZenonT(30)
    <2>5. LockInv(r)' /\ FileInv(r)'
      BY <1>1, <2>1, <2>2, <2>3, <2>4, ZenonT(40) DEF LockInv, FileInv, Held, Deep, Done
    <2>6. StoreInv(r)'
      BY <1>1, <1>3, <2>1, <2>2, <2>3, <2>4, SMTT(30) DEF StoreInv, MyRT, Done, ItemOf
    <2>7. ArchiveInv'
      BY <1>1, <2>1, ZenonT(30) DEF UploadInv, ArchiveInv, ItemOf
    <2>8. OnceInv'
      BY <1>1, <2>1, MyObject, Zenon DEF OnceInv
    <2>9. \A q \in Requests : req[q].pc \in {"readback", "commit"} =>
             req'[q].pc \in {"readback", "commit"} /\ req'[q].key = req[q].key
      BY <2>2, <2>4, ZenonT(40) DEF Others
    <2>10. AgreeInv'
      BY <1>1, <2>1, <2>9 DEF UploadInv, AgreeInv, ItemOf
    <2>11. /\ objects' \in Seq(Content) /\ items' \subseteq [key : Nat, sum : Content]
           /\ faults' \subseteq AllFaults
      BY <1>1, <2>1, Zenon DEF UploadInv, TypeInv
    <2> QED BY <1>1, <2>1, <2>3, <2>4, <2>5, <2>6, <2>7, <2>8, <2>10, <2>11, StoreStep, ZenonT(30)
  <1> QED BY <1>2, <1>3, Zenon

\* The item a request inserts.
LEMMA ItemFacts ==
    ASSUME UploadInv, NEW r \in Requests, req[r].pc = "commit", items' = items \cup {Item(r)}
    PROVE  /\ Item(r).key = req[r].key /\ Item(r).sum = Bytes(Size)
           /\ items' \subseteq [key : Nat, sum : Content]
  <1>1. InStore(r)
    BY Zenon DEF InStore
  <1>2. MyRT(r).h = Bytes(Size) /\ req[r].key \in Nat /\ MyRT(r) \in RT
    BY <1>1, MyObject, HolderFacts, Zenon
  <1>3. Item(r) \in [key : Nat, sum : Content]
    BY <1>2, Zenon DEF Item, RT
  <1> QED BY <1>2, <1>3, Zenon DEF Item, UploadInv, TypeInv

\* The transaction that records the item.
LEMMA CommitInv ==
    ASSUME UploadInv, NEW r \in Requests, Commit(r)
    PROVE  UploadInv'
  <1>1. /\ req[r].pc = "commit" /\ InStore(r) /\ items' = items \cup {Item(r)} /\ Goto(r, "finish")
        /\ UNCHANGED <<status, received, temp, rts, current, objects, acked, janitor, faults>>
    BY ZenonT(30) DEF Commit, InStore, rowVars, rtVars, boundVars
  <1>2. PICK v \in Request : /\ v.pc = "finish" /\ v.op = req[r].op /\ v.rt = req[r].rt /\ v.key = req[r].key
                             /\ req' = [req EXCEPT ![r] = v]
    <2> DEFINE w == [req[r] EXCEPT !.pc = "finish"]
    <2>1. "finish" \in PCs
      BY Zenon DEF PCs
    <2>2. /\ w \in Request /\ w.pc = "finish" /\ w.op = req[r].op /\ w.rt = req[r].rt /\ w.key = req[r].key
          /\ req' = [req EXCEPT ![r] = w]
      BY <1>1, <2>1, GotoType, Zenon
    <2> HIDE DEF w
    <2> QED BY <2>2, Zenon
  <1>3. Held(r) /\ Deep(r) /\ LockInv(r) /\ StoreInv(r) /\ req[r].rt \in 1..Len(rts)
    BY <1>1, MyObject, HolderFacts, ZenonT(30)
  <1>4. Others(r) /\ req'[r] = v
    BY ONLY UploadInv, <1>1, <1>2, <1>3, StayOthers, r \in Requests, v \in Request, ZenonT(30)
  <1>5. /\ Item(r).key = req[r].key /\ Item(r).sum = Bytes(Size)
        /\ items' \subseteq [key : Nat, sum : Content]
    BY <1>1, ItemFacts, ZenonT(30)
  <1>6. /\ req[r].key \in DOMAIN objects /\ objects[req[r].key] = Bytes(Size) /\ objects[req[r].key] # None
        /\ \A q \in Requests : q # r => req'[q] = req[q] /\ ~ Deep(q)
        /\ faults \cap {"crash", "lostCommit"} = {} => items = {}
    BY <1>1, <1>4, MyObject, ZenonT(30) DEF Others
  <1>7. LockInv(r)' /\ FileInv(r)'
    BY <1>1, <1>2, <1>3, <1>4, Zenon DEF LockInv, FileInv, Held, Deep, Done
  <1>8. /\ \E item \in items' : item.key = req[r].key
        /\ \A k : ItemOf(k) => ItemOf(k)'
    <2>1. Item(r) \in items' /\ items \subseteq items'
      BY <1>1, Zenon
    <2>2. ASSUME NEW k, ItemOf(k) PROVE ItemOf(k)'
      BY <2>1, <2>2, Zenon DEF ItemOf
    <2> QED BY <1>5, <2>1, <2>2, Zenon
  <1>9. StoreInv(r)'
    <2>1. (\E item \in items' : item.key = req[r].key) /\ req'[r].key = req[r].key
      BY <1>2, <1>4, <1>8, Zenon
    <2> QED BY <1>1, <1>2, <1>3, <1>4, <1>6, <2>1, ZenonT(30) DEF StoreInv, MyRT, Done, ItemOf
  <1>10. ArchiveInv'
    BY <1>1, <1>5, <1>6, <1>8, ZenonT(30) DEF UploadInv, ArchiveInv, ItemOf
  <1>11. \A q \in Requests : req'[q].pc \notin {"readback", "commit"}
    BY <1>2, <1>4, <1>6, Zenon DEF Deep
  <1>12. OnceInv'
    BY <1>1, <1>2, <1>4, <1>6, <1>11, Zenon DEF OnceInv, Done
  <1>13. AgreeInv'
    <2> SUFFICES ASSUME faults' \cap {"crash", "lostCommit", "delete"} = {} PROVE AgreeInv'
      BY Zenon DEF AgreeInv
    <2>1. ASSUME NEW k \in DOMAIN objects', objects'[k] # None
          PROVE  ItemOf(k)'
      <3>1. ItemOf(k) \/ \E q \in Requests : req[q].pc \in {"readback", "commit"} /\ req[q].key = k
        BY <1>1, <2>1, Zenon DEF UploadInv, AgreeInv
      <3>2. CASE ItemOf(k)
        BY <1>8, <3>2, Zenon
      <3>3. CASE \E q \in Requests : req[q].pc \in {"readback", "commit"} /\ req[q].key = k
        <4>1. PICK q \in Requests : req[q].pc \in {"readback", "commit"} /\ req[q].key = k
          BY <3>3, Zenon
        <4>2. q = r
          BY <1>6, <4>1, Zenon DEF Deep
        <4> QED BY <1>8, <4>1, <4>2, Zenon DEF ItemOf
      <3> QED BY <3>1, <3>2, <3>3, Zenon
    <2>2. \A item \in items' : objects'[item.key] # None
      BY <1>1, <1>5, <1>6, Zenon DEF UploadInv, AgreeInv
    <2> QED BY <2>1, <2>2, Zenon DEF AgreeInv
  <1>14. objects' \in Seq(Content) /\ faults' \subseteq AllFaults
    BY <1>1, Zenon DEF UploadInv, TypeInv
  <1> QED BY <1>1, <1>3, <1>4, <1>5, <1>7, <1>9, <1>10, <1>12, <1>13, <1>14, StoreStep, Zenon

\* The database step fails, or seems to.
LEMMA CommitFailsInv ==
    ASSUME UploadInv, NEW r \in Requests, CommitFails(r)
    PROVE  UploadInv'
  <1>1. /\ req[r].pc = "commit" /\ InStore(r) /\ Leave(r, MyRT(r))
        /\ UNCHANGED <<status, received, temp, current, acked, janitor>>
    BY Zenon DEF CommitFails, InStore, rowVars
  <1>2. CASE DeleteObject(r, {"commit"}) /\ UNCHANGED items
    BY <1>1, <1>2, DeleteFacts, DropInv, Zenon
  <1>3. CASE DeleteObject(r, {"lostCommit"}) /\ items' = items \cup {Item(r)}
    <2>1. /\ \/ objects' = [objects EXCEPT ![req[r].key] = None]
             \/ "delete" \in faults' /\ objects' = objects
          /\ faults \subseteq faults' /\ faults' \subseteq AllFaults /\ "lostCommit" \in faults'
      BY <1>3, DeleteFacts, Zenon
    <2>2. /\ Held(r) /\ Deep(r) /\ objects \in Seq(Content) /\ req[r].key \in DOMAIN objects
          /\ req[r].key \notin acked /\ ~ ItemOf(req[r].key) /\ objects[req[r].key] = Bytes(Size)
      BY <1>1, MyObject, Zenon
    <2>3. Others(r) /\ req'[r] = Idle
      <3>1. MyRT(r) \in RT
        BY <2>2, HolderFacts, Zenon
      <3> QED BY <1>1, <2>2, <3>1, LeaveOthers, ZenonT(30)
    <2>4. /\ objects' \in Seq(Content) /\ DOMAIN objects' = DOMAIN objects
          /\ \A k \in DOMAIN objects : k # req[r].key => objects'[k] = objects[k]
          /\ objects'[req[r].key] \in {None, Bytes(Size)}
      <3>1. None \in Content
        BY Zenon DEF Content
      <3> QED BY <2>1, <2>2, <3>1
    <2>5. /\ Item(r).key = req[r].key /\ Item(r).sum = Bytes(Size)
          /\ items' \subseteq [key : Nat, sum : Content]
      BY <1>1, <1>3, ItemFacts, Zenon
    <2>6. \A item \in items : item.key \in DOMAIN objects /\ item.key # req[r].key
      BY <2>2, Zenon DEF UploadInv, ArchiveInv, ItemOf
    <2>7. \A k \in acked : k \in DOMAIN objects /\ k # req[r].key
      BY <2>2, <2>6, Zenon DEF UploadInv, ArchiveInv, ItemOf
    <2>8. ArchiveInv'
      BY <1>1, <1>3, <2>2, <2>4, <2>5, <2>6, <2>7, ZenonT(40) DEF UploadInv, ArchiveInv, ItemOf
    <2>9. OnceInv' /\ AgreeInv'
      BY <2>1, ZenonT(30) DEF OnceInv, AgreeInv
    <2> QED BY <1>1, <2>1, <2>2, <2>3, <2>4, <2>5, <2>8, <2>9, IdleInv, StoreStep, ZenonT(30)
  <1> QED BY <1>2, <1>3, Zenon DEF CommitFails

\* os.Remove, dropUploadRT and the answer.
LEMMA CleanupInv ==
    ASSUME UploadInv, NEW r \in Requests, Cleanup(r)
    PROVE  UploadInv'
  <1>1. /\ req[r].pc = "cleanup" /\ temp' = None /\ current' = 0 /\ Leave(r, MyRT(r))
        /\ acked' = IF req[r].op = "complete" THEN acked \cup {req[r].key} ELSE acked
        /\ UNCHANGED <<status, received, objects, items, janitor, faults>>
    BY Zenon DEF Cleanup, rowVars, boundVars
  <1>2. Held(r) /\ ~ InStore(r) /\ (req[r].op = "complete" => Deep(r) /\ Done(r))
    BY <1>1, Zenon DEF Held, InStore, Deep, Done
  <1>3. MyRT(r) \in RT /\ FileInv(r) /\ StoreInv(r) /\ req[r].key \in Nat
    BY <1>2, HolderFacts, Zenon
  <1>4. Others(r) /\ req'[r] = Idle
    BY <1>1, <1>2, <1>3, LeaveOthers, ZenonT(30)
  <1>5. TypeInv'
    <2>1. acked' \subseteq Nat /\ temp' \in Content
      BY <1>1, <1>3, ZenonT(30) DEF UploadInv, TypeInv, Content
    <2>2. current' \in 0..Len(rts')
      BY <1>1, <1>4 DEF Others
    <2> QED BY <1>1, <1>4, <2>1, <2>2, ZenonT(30) DEF UploadInv, TypeInv, Others
  <1>6. \A q \in Requests : q # r => LockInv(q)' /\ FileInv(q)' /\ StoreInv(q)'
    BY <1>1, <1>2, <1>4, OthersInv, ZenonT(30)
  <1>7. OneLock' /\ RowInv'
    BY <1>1, <1>3, ZenonT(30) DEF UploadInv, OneLock, RowInv, FileInv
  <1>8. ArchiveInv'
    BY <1>1, <1>2, <1>3, ZenonT(40) DEF UploadInv, ArchiveInv, ItemOf, StoreInv
  <1>9. \A q \in Requests : /\ req[q].pc \in {"readback", "commit"} => req'[q] = req[q]
                            /\ req'[q].pc \in {"readback", "commit"} => req'[q] = req[q]
    BY <1>1, <1>4 DEF Others, Idle
  <1>10. OnceInv'
    BY <1>1, <1>9, Zenon DEF UploadInv, OnceInv
  <1>11. AgreeInv'
    BY <1>1, <1>9, ZenonT(40) DEF UploadInv, AgreeInv, ItemOf
  <1> QED BY <1>4, <1>5, <1>6, <1>7, <1>8, <1>10, <1>11, IdleInv, Zenon DEF UploadInv

-----------------------------------------------------------------------------
(* The janitor and a crash *)

\* The janitor closes the upload without the lock.
LEMMA SweepInv ==
    ASSUME UploadInv, JanitorSweeps
    PROVE  UploadInv'
  <1>1. /\ status' = "aborted" /\ janitor' = TRUE
        /\ UNCHANGED <<received, temp, rts, current, req, objects, items, acked>>
        /\ faults \subseteq faults' /\ faults' \subseteq AllFaults
    BY FaultGrows, Zenon DEF JanitorSweeps, rtVars, storeVars, Fault, UploadInv, TypeInv
  <1>2. TypeInv'
    BY <1>1, Zenon DEF UploadInv, TypeInv
  <1>3. \A q \in Requests : LockInv(q)' /\ FileInv(q)' /\ StoreInv(q)'
    BY <1>1, ZenonT(40) DEF UploadInv, LockInv, FileInv, StoreInv, Held, Deep, Done, MyRT, ItemOf
  <1>4. OneLock' /\ RowInv' /\ ArchiveInv'
    BY <1>1, ZenonT(30) DEF UploadInv, OneLock, RowInv, ArchiveInv, ItemOf
  <1>5. OnceInv' /\ AgreeInv'
    BY <1>1, Zenon DEF UploadInv, OnceInv, AgreeInv, ItemOf, Done
  <1> QED BY <1>2, <1>3, <1>4, <1>5, Zenon DEF UploadInv

\* The janitor removes the file under whatever request is running.
LEMMA CleanInv ==
    ASSUME UploadInv, JanitorCleans
    PROVE  UploadInv'
  <1>1. /\ janitor /\ janitor' = FALSE /\ temp' = None /\ current' = 0
        /\ UNCHANGED <<status, received, rts, req, objects, items, acked, faults>>
    BY Zenon DEF JanitorCleans, rowVars, storeVars, boundVars
  <1>2. TypeInv'
    <2>1. current' \in 0..Len(rts') /\ temp' \in Content
      BY <1>1 DEF UploadInv, TypeInv, Content
    <2> QED BY <1>1, <2>1, Zenon DEF UploadInv, TypeInv
  <1>3. \A q \in Requests : LockInv(q)' /\ FileInv(q)' /\ StoreInv(q)'
    BY <1>1, ZenonT(40) DEF UploadInv, LockInv, FileInv, StoreInv, Held, Deep, Done, MyRT, ItemOf
  <1>4. OneLock' /\ RowInv' /\ ArchiveInv'
    BY <1>1, ZenonT(30) DEF UploadInv, OneLock, RowInv, ArchiveInv, ItemOf
  <1>5. OnceInv' /\ AgreeInv'
    BY <1>1, Zenon DEF UploadInv, OnceInv, AgreeInv, ItemOf, Done
  <1> QED BY <1>2, <1>3, <1>4, <1>5, Zenon DEF UploadInv

\* After a crash the rows, the file and the objects are what they were, and a
\* fresh uploadRT can be made.
LEMMA CrashInv ==
    ASSUME UploadInv, Crash
    PROVE  UploadInv'
  <1>1. /\ rts' = <<>> /\ current' = 0 /\ req' = [r \in Requests |-> Idle] /\ janitor' = FALSE
        /\ UNCHANGED <<status, received, temp, objects, items, acked>>
        /\ faults \subseteq faults' /\ faults' \subseteq AllFaults /\ "crash" \in faults'
    BY FaultGrows, ZenonT(30) DEF Crash, rowVars, storeVars, Fault, UploadInv, TypeInv
  <1>2. TypeInv'
    <2>1. rts' \in Seq(RT) /\ current' \in 0..Len(rts')
      BY <1>1
    <2>2. req' \in [Requests -> Request]
      BY <1>1, IdleType, Zenon
    <2> QED BY <1>1, <2>1, <2>2, Zenon DEF UploadInv, TypeInv
  <1>3. \A q \in Requests : req'[q] = Idle
    BY <1>1, Zenon
  <1>4. OneLock' /\ RowInv' /\ ArchiveInv'
    BY <1>1 DEF UploadInv, OneLock, RowInv, ArchiveInv, ItemOf
  <1>5. OnceInv' /\ AgreeInv'
    BY <1>1, Zenon DEF OnceInv, AgreeInv
  <1> QED BY <1>2, <1>3, <1>4, <1>5, IdleInv, Zenon DEF UploadInv

-----------------------------------------------------------------------------
(* The invariant and the theorems *)

\* A fresh upload satisfies the invariant.
LEMMA InitInv ==
    ASSUME Init
    PROVE  UploadInv
  <1>1. <<>> \in Seq(Nat) /\ <<>> \in Seq(RT) /\ <<>> \in Seq(Content) /\ Len(<<>>) = 0 /\ DOMAIN <<>> = {}
    OBVIOUS
  <1>2. TypeInv
    <2>1. temp \in Content
      BY <1>1, Zenon DEF Init, Content
    <2>2. received \in 0..Size /\ current \in 0..Len(rts)
      BY ArchiveAssumption DEF Init
    <2>3. req \in [Requests -> Request]
      BY IdleType, Zenon DEF Init
    <2> QED BY <1>1, <2>1, <2>2, <2>3, Zenon DEF Init, TypeInv
  <1>3. \A r \in Requests : req[r].pc = "idle"
    BY Zenon DEF Init, Idle
  <1>4. \A r \in Requests : LockInv(r) /\ FileInv(r) /\ StoreInv(r)
    BY <1>3, Zenon DEF LockInv, FileInv, StoreInv, Held, Deep, Done
  <1>5. temp # None
    BY <1>1, ArchiveAssumption, ZenonT(30) DEF Init
  <1>6. OneLock /\ RowInv
    BY <1>1, <1>5 DEF Init, OneLock, RowInv
  <1>7. ArchiveInv /\ OnceInv /\ AgreeInv
    BY <1>1, Zenon DEF Init, ArchiveInv, OnceInv, AgreeInv
  <1> QED BY <1>2, <1>4, <1>6, <1>7, Zenon DEF UploadInv

\* Every step keeps the invariant.
LEMMA StepInv ==
    ASSUME UploadInv, [Next]_vars
    PROVE  UploadInv'
  <1>1. ASSUME NEW r \in Requests, NEW op \in {"chunk", "complete", "abort"}, Start(r, op)
        PROVE  UploadInv'
    BY <1>1, StartInv, Zenon
  <1>2. ASSUME NEW r \in Requests, GetRT(r) \/ Lock(r)
        PROVE  UploadInv'
    BY <1>2, GetInv, LockedInv, Zenon
  <1>3. ASSUME NEW r \in Requests, ChunkStep(r)
        PROVE  UploadInv'
    BY <1>3, RefusedInv, AcceptedInv, CopyFailsInv, CopyInv, UndoneInv, RecordedInv, UpdateFailsInv, Zenon
       DEF ChunkStep
  <1>4. ASSUME NEW r \in Requests, CompleteStep(r)
        PROVE  UploadInv'
    BY <1>4, RefusedInv, CompleteInv, SumInv, PutInv, ReadBackInv, CommitInv, CommitFailsInv, FinishInv, Zenon
       DEF CompleteStep
  <1>5. ASSUME NEW r \in Requests, Abort(r) \/ Cleanup(r)
        PROVE  UploadInv'
    BY <1>5, AbortInv, CleanupInv, Zenon
  <1>6. CASE UNCHANGED vars
    <2>1. UNCHANGED <<status, received, temp, rts, current, req, objects, items, acked, janitor, faults>>
      BY <1>6, Zenon DEF vars, rowVars, rtVars, storeVars, boundVars
    <2>2. TypeInv'
      BY <2>1, Zenon DEF UploadInv, TypeInv
    <2>3. \A q \in Requests : LockInv(q)' /\ FileInv(q)' /\ StoreInv(q)'
      BY <2>1, ZenonT(40) DEF UploadInv, LockInv, FileInv, StoreInv, Held, Deep, Done, MyRT, ItemOf
    <2>4. OneLock' /\ RowInv' /\ ArchiveInv'
      BY <2>1, ZenonT(30) DEF UploadInv, OneLock, RowInv, ArchiveInv, ItemOf
    <2>5. OnceInv' /\ AgreeInv'
      BY <2>1, Zenon DEF UploadInv, OnceInv, AgreeInv, ItemOf, Done
    <2> QED BY <2>2, <2>3, <2>4, <2>5, Zenon DEF UploadInv
  <1> QED BY <1>1, <1>2, <1>3, <1>4, <1>5, <1>6, SweepInv, CleanInv, CrashInv, Zenon DEF Next, Work

\* The invariant holds in every reachable state.
LEMMA UploadInvariant == Spec => []UploadInv
  BY InitInv, StepInv, PTL DEF Spec

\* An open upload at rest can be continued from the offset the row reports, for
\* any number of requests and any size: every chunk handler either records what
\* it wrote after it wrote it, or cuts the file back to the recorded length.
THEOREM ResumeCorrect == Spec => []CanResume
  <1>1. UploadInv => CanResume
    BY Zenon DEF UploadInv, RowInv, CanResume
  <1> QED BY <1>1, UploadInvariant, PTL

\* What is archived is what the sender has: the digest was compared with the
\* sender's, and the object was read back before the item was recorded.
THEOREM ArchivedCorrect == Spec => []ArchivedIsWhatWasSent
  <1>1. UploadInv => ArchivedIsWhatWasSent
    BY Zenon DEF UploadInv, ArchiveInv, ArchivedIsWhatWasSent
  <1> QED BY <1>1, UploadInvariant, PTL

\* An upload that was answered 201 stays archived: no later request, janitor or
\* crash deletes an object whose item is recorded.
THEOREM AckedCorrect == Spec => []AckedIsDurable
  <1>1. UploadInv => AckedIsDurable
    BY Zenon DEF UploadInv, ArchiveInv, ItemOf, AckedIsDurable
  <1> QED BY <1>1, UploadInvariant, PTL

\* One upload makes one item: as long as the scratch file is there, the
\* requests go through one lock, and without it nothing can be stored.
THEOREM OneItemCorrect == Spec => []OneItemPerUpload
  <1>1. UploadInv => OneItemPerUpload
    BY Zenon DEF UploadInv, OnceInv, OneItemPerUpload
  <1> QED BY <1>1, UploadInvariant, PTL

\* At rest every object has its item and every item its object, unless the
\* process died, or the answer of the commit or the deletion was lost.
THEOREM AllOrNothingCorrect == Spec => []AllOrNothing
  <1>1. UploadInv => AllOrNothing
    <2> SUFFICES ASSUME UploadInv, Quiet, faults \cap {"crash", "lostCommit", "delete"} = {}
                 PROVE  ItemsAndObjectsAgree
      BY Zenon DEF AllOrNothing
    <2>1. \A k \in DOMAIN objects : objects[k] # None => ItemOf(k)
      BY Zenon DEF UploadInv, AgreeInv, Quiet
    <2>2. \A item \in items : item.key \in DOMAIN objects /\ objects[item.key] # None
      BY Zenon DEF UploadInv, AgreeInv, ArchiveInv
    <2> QED BY <2>1, <2>2 DEF ItemOf, ItemsAndObjectsAgree
  <1> QED BY <1>1, UploadInvariant, PTL

=============================================================================
