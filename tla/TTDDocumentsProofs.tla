-------------------------- MODULE TTDDocumentsProofs --------------------------
(***************************************************************************)
(* TTDDocuments proved safe for any number of requests and upload          *)
(* sessions, any document and any limits.                                  *)
(*                                                                         *)
(* What a request reads without the lock stays right because sessions only *)
(* grow (SubmissionInv).  For the object the invariant follows the files:  *)
(* a put that overlapped no other owns <key>.tmp (ObjectInv), which is     *)
(* never the file that <key> names.                                        *)
(***************************************************************************)
EXTENDS TTDDocuments, TLAPS

Session == [live : BOOLEAN, linked : BOOLEAN, file : Seq(Nat), size : Nat]

\* What a request carries: nothing, a chunk, a count or a session to discard, or a
\* submission.
Idle == [pc |-> "idle"]
Chunk == [pc : {"append"}, up : Uploads, offset : Nat, len : Nat]
Count == [pc : {"count", "delete", "remove"}, up : Uploads, n : Nat]
Drop == [pc : {"stamp", "delete", "remove"}, up : Uploads]
Submitted == [pc : {"open", "read", "put", "copy", "rename", "insert", "accept"}, id : Nat,
              up : Uploads \cup {None}, from : Uploads \cup {None}, size : Nat, body : Seq(Nat),
              file : Nat, done : Nat]
Record == [by : Nat, bytes : Seq(Nat), size : Nat, status : {"accepted", "stored_unverified"}]

Request == {Idle} \cup Chunk \cup Count \cup Drop \cup Submitted

TypeInv ==
    /\ doc \in Nat /\ starts \in 0..MaxStarts
    /\ upload \in [Uploads -> Session \cup {None}]
    /\ inode \in [1..MaxStarts -> Seq(Nat)]
    /\ tmp \in (1..starts) \cup {None} /\ object \in (1..starts) \cup {None}
    /\ signature \in Record \cup {None}
    /\ req \in [Requests -> Request]

Works(p) == "up" \in DOMAIN p
Submits(p) == "id" \in DOMAIN p
Puts(p) == Submits(p) /\ p.pc \in {"copy", "rename"}

IsPrefix(s) == s = Bytes(0, Len(s))

\* A session's size is behind its file only while a chunk is being counted, or for
\* good when the process died then.
SizeInv(u) ==
    \/ upload[u].size = Len(upload[u].file)
    \/ \E r \in Requests : At(r, "count") /\ req[r].up = u
    \/ ~ upload[u].live /\ \A r \in Requests : At(r, "append") => req[r].up # u

SessionInv(u) ==
    upload[u] # None =>
        /\ IsPrefix(upload[u].file) /\ Len(upload[u].file) <= MaxUpload + 1
        /\ upload[u].size <= Len(upload[u].file)
        /\ SizeInv(u)

\* The request that counts a chunk holds the lock.
CountInv ==
    \A r \in Requests : At(r, "count") =>
        mu = r /\ upload[req[r].up].size + req[r].n = Len(upload[req[r].up].file)

\* What a submission carries agrees with what it will read, whenever it reads it.
SourceOf(p) == IF p.up = None THEN p.body ELSE upload[p.up].file

SubmissionInv(p) ==
    /\ p.id \in 1..starts
    /\ IsPrefix(SourceOf(p)) /\ IsPrefix(p.body) /\ p.size <= Len(SourceOf(p))
    /\ p.pc = "open" => p.up # None
    /\ p.pc \in {"open", "read", "put"} => p.done = 0 /\ p.id # tmp /\ p.id # object
    /\ p.pc \in {"rename", "insert", "accept"} => p.up = None
    /\ p.pc \notin {"open", "read"} /\ Tier(p.size) = "read" => p.up = None /\ p.body = Document
    /\ p.pc \in {"copy", "rename"} => p.file \in 1..starts
    /\ p.pc = "copy" => p.done <= Len(SourceOf(p))
    /\ p.pc = "rename" => p.done = Len(p.body)
    /\ p.pc # "accept" /\ signature # None => p.id # signature.by

RequestInv ==
    /\ \A r \in Requests : Works(req[r]) /\ req[r].up # None => upload[req[r].up] # None
    /\ \A r \in Requests : Submits(req[r]) /\ req[r].from # None => upload[req[r].from] # None
    /\ \A r \in Requests : Submits(req[r]) => SubmissionInv(req[r])
    /\ \A r, q \in Requests : Submits(req[r]) /\ Submits(req[q]) /\ r # q => req[r].id # req[q].id

RecordInv ==
    signature # None =>
        /\ signature.by \in 1..starts
        /\ IsPrefix(signature.bytes) /\ signature.size <= Len(signature.bytes)
        /\ signature.status = "accepted" => signature.bytes = Document /\ signature.size = doc

\* The object is these bytes, if the submission id was the last to put it and alone.
Placed(id, bytes) == id = renamed /\ id \notin clash => object # None /\ inode[object] = bytes

ObjectInv ==
    /\ tmp # None => tmp # object
    /\ \A r, q \in Requests : r # q /\ Puts(req[r]) /\ Puts(req[q]) => req[r].id \in clash
    /\ \A r \in Requests : Puts(req[r]) /\ req[r].id \notin clash =>
          tmp = req[r].file /\ inode[tmp] = Bytes(0, req[r].done)
    /\ renamed \notin clash => \A r \in Requests : Puts(req[r]) => req[r].file # object
    /\ \A r \in Requests :
          Submits(req[r]) /\ req[r].pc \in {"insert", "accept"} => Placed(req[r].id, req[r].body)
    /\ signature # None => Placed(signature.by, signature.bytes)

DocInv ==
    TypeInv /\ (\A u \in Uploads : SessionInv(u)) /\ CountInv /\ RequestInv /\ RecordInv /\ ObjectInv

-----------------------------------------------------------------------------
(* Bytes *)

\* n bytes of the document after the first from.
LEMMA BytesFacts ==
    ASSUME NEW from \in Nat, NEW n \in Nat
    PROVE  /\ Bytes(from, n) \in Seq(Nat) /\ Len(Bytes(from, n)) = n
           /\ DOMAIN Bytes(from, n) = 1..n
           /\ \A i \in 1..n : Bytes(from, n)[i] = from + i
  BY DEF Bytes

\* The first n bytes.
LEMMA PrefixFacts ==
    ASSUME NEW n \in Nat
    PROVE  Bytes(0, n) \in Seq(Nat) /\ Len(Bytes(0, n)) = n /\ \A i \in 1..n : Bytes(0, n)[i] = i
  BY DEF Bytes

\* Sequences are equal when their elements are.
LEMMA SeqEqual ==
    ASSUME NEW s \in Seq(Nat), NEW t \in Seq(Nat), Len(s) = Len(t), \A i \in 1..Len(s) : s[i] = t[i]
    PROVE  s = t
  OBVIOUS

\* A chunk at the end of a prefix gives a longer prefix.
LEMMA BytesConcat ==
    ASSUME NEW n \in Nat, NEW k \in Nat
    PROVE  Bytes(0, n) \o Bytes(n, k) = Bytes(0, n + k)
  <1>1. PICK s, t, w : s = Bytes(0, n) /\ t = Bytes(n, k) /\ w = Bytes(0, n + k)
    BY Zenon
  <1>2. /\ s \in Seq(Nat) /\ Len(s) = n /\ \A i \in 1..n : s[i] = i
        /\ t \in Seq(Nat) /\ Len(t) = k /\ \A i \in 1..k : t[i] = n + i
        /\ w \in Seq(Nat) /\ Len(w) = n + k /\ \A i \in 1..(n + k) : w[i] = i
    <2>1. n + k \in Nat
      OBVIOUS
    <2>2. s \in Seq(Nat) /\ Len(s) = n /\ \A i \in 1..n : s[i] = i
      BY <1>1, PrefixFacts, ZenonT(20)
    <2>3. w \in Seq(Nat) /\ Len(w) = n + k /\ \A i \in 1..(n + k) : w[i] = i
      BY <1>1, <2>1, PrefixFacts, ZenonT(20)
    <2>4. t \in Seq(Nat) /\ Len(t) = k /\ \A i \in 1..k : t[i] = n + i
      BY <1>1, BytesFacts, ZenonT(20)
    <2> QED BY <2>2, <2>3, <2>4, Zenon
  <1>3. s \o t \in Seq(Nat) /\ Len(s \o t) = n + k
    BY <1>2
  <1>4. \A i \in 1..(n + k) : (s \o t)[i] = w[i]
    BY <1>2
  <1> QED BY <1>1, <1>2, <1>3, <1>4, SeqEqual, ZenonT(20)

\* A write at the end of what was copied gives a longer copy.
LEMMA BytesOverwrite ==
    ASSUME NEW n \in Nat, NEW d \in Nat, NEW k \in Nat, d + k <= n
    PROVE  /\ SubSeq(Bytes(0, n), d + 1, d + k) \in Seq(Nat)
           /\ Overwrite(Bytes(0, d), d, SubSeq(Bytes(0, n), d + 1, d + k)) = Bytes(0, d + k)
  <1>1. PICK s, t : s = Bytes(0, d) /\ t = Bytes(0, n)
    BY Zenon
  <1>2. /\ s \in Seq(Nat) /\ Len(s) = d /\ \A i \in 1..d : s[i] = i
        /\ t \in Seq(Nat) /\ Len(t) = n /\ \A i \in 1..n : t[i] = i
    BY <1>1, PrefixFacts, ZenonT(20)
  <1>3. PICK b : b = SubSeq(t, d + 1, d + k)
    BY Zenon
  <1>4. b \in Seq(Nat) /\ Len(b) = k /\ \A i \in 1..k : b[i] = d + i
    BY <1>2, <1>3
  <1>5. Overwrite(s, d, b) = [i \in 1..(d + k) |->
           IF i \in (d + 1)..(d + k) THEN b[i - d] ELSE IF i <= d THEN s[i] ELSE 0]
    BY <1>2, <1>4 DEF Overwrite
  <1>6. \A i \in 1..(d + k) :
           (IF i \in (d + 1)..(d + k) THEN b[i - d] ELSE IF i <= d THEN s[i] ELSE 0) = i
    BY <1>2, <1>4
  <1>7. Overwrite(s, d, b) = [i \in 1..(d + k) |-> 0 + i]
    BY <1>5, <1>6
  <1>8. Overwrite(s, d, b) = Bytes(0, d + k)
    BY <1>7, Zenon DEF Bytes
  <1> QED BY <1>1, <1>3, <1>4, <1>8, Zenon

\* What a write leaves is a file.
LEMMA OverwriteType ==
    ASSUME NEW old \in Seq(Nat), NEW at \in Nat, NEW bytes \in Seq(Nat)
    PROVE  Overwrite(old, at, bytes) \in Seq(Nat)
  <1>1. PICK m \in Nat, n \in Nat : m = Len(old) /\ n = Len(bytes)
    OBVIOUS
  <1>2. PICK e \in Nat : e = IF at + n > m THEN at + n ELSE m
    BY <1>1
  <1>3. Overwrite(old, at, bytes) =
           [i \in 1..e |-> IF i \in (at + 1)..(at + n) THEN bytes[i - at] ELSE IF i <= m THEN old[i] ELSE 0]
    BY <1>1, <1>2, Zenon DEF Overwrite
  <1>4. \A i \in 1..e : (IF i \in (at + 1)..(at + n) THEN bytes[i - at] ELSE IF i <= m THEN old[i] ELSE 0) \in Nat
    BY <1>1, <1>2
  <1> QED BY <1>3, <1>4

-----------------------------------------------------------------------------
(* Requests *)

\* What a request carries, by where it is.
LEMMA RequestFacts ==
    ASSUME TypeInv, NEW r \in Requests
    PROVE  /\ At(r, "idle") => req[r] = Idle
           /\ At(r, "append") => req[r] \in Chunk
           /\ At(r, "count") => req[r] \in Count
           /\ req[r].pc \in {"stamp", "delete", "remove"} => req[r] \in Count \cup Drop
           /\ req[r].pc \in {"open", "read", "put", "copy", "rename", "insert", "accept"} => req[r] \in Submitted
           /\ Submits(req[r]) => req[r] \in Submitted
  <1>1. req[r] \in {Idle} \cup Chunk \cup Count \cup Drop \cup Submitted
    BY Zenon DEF TypeInv, Request
  <1>2. /\ Idle.pc = "idle" /\ ~ Submits(Idle) /\ \A p \in Chunk : p.pc = "append" /\ ~ Submits(p)
        /\ \A p \in Count : p.pc \in {"count", "delete", "remove"} /\ ~ Submits(p)
        /\ \A p \in Drop : p.pc \in {"stamp", "delete", "remove"} /\ ~ Submits(p)
        /\ \A p \in Submitted : p.pc \in {"open", "read", "put", "copy", "rename", "insert", "accept"}
    BY Zenon DEF Idle, Chunk, Count, Drop, Submitted, Submits
  <1> QED BY <1>1, <1>2, Zenon DEF At

\* Which of them work on a session, and which submit.
LEMMA KindFacts ==
    /\ Idle.pc = "idle" /\ ~ Works(Idle) /\ ~ Submits(Idle)
    /\ \A p \in Chunk : Works(p) /\ ~ Submits(p) /\ p.up \in Uploads /\ p.offset \in Nat /\ p.len \in Nat
    /\ \A p \in Count : Works(p) /\ ~ Submits(p) /\ p.up \in Uploads /\ p.n \in Nat
    /\ \A p \in Drop : Works(p) /\ ~ Submits(p) /\ p.up \in Uploads
    /\ \A p \in Submitted :
          /\ Works(p) /\ Submits(p) /\ p.id \in Nat /\ p.up \in Uploads \cup {None}
          /\ p.from \in Uploads \cup {None} /\ p.size \in Nat
          /\ p.body \in Seq(Nat) /\ p.file \in Nat /\ p.done \in Nat
    /\ None \notin Uploads
  BY DocumentsAssumption, Zenon DEF Idle, Chunk, Count, Drop, Submitted, Works, Submits
-----------------------------------------------------------------------------
(* What a step leaves alone *)

\* A submission stays right while sessions grow and other submissions go on.
LEMMA SubmissionLater ==
    ASSUME TypeInv, TypeInv', UNCHANGED doc, starts <= starts', NEW p \in Submitted, SubmissionInv(p),
           p.up # None =>
               /\ upload[p.up].file \in Seq(Nat) /\ upload'[p.up].file \in Seq(Nat)
               /\ IsPrefix(upload'[p.up].file) /\ Len(upload[p.up].file) <= Len(upload'[p.up].file),
           tmp' = tmp \/ tmp' # p.id, object' \in {object, tmp} \/ object' # p.id,
           signature' = signature \/ signature'.by # p.id
    PROVE  SubmissionInv(p)'
  <1>1. PICK s, t : s = SourceOf(p) /\ t = SourceOf(p)'
    BY Zenon
  <1>2. /\ s \in Seq(Nat) /\ t \in Seq(Nat) /\ IsPrefix(t) /\ Len(s) <= Len(t)
        /\ p.up = None => t = s
    BY <1>1, KindFacts DEF SourceOf, SubmissionInv
  <1>3. Len(s) \in Nat /\ Len(t) \in Nat /\ p.size \in Nat /\ p.done \in Nat /\ starts \in Nat /\ starts' \in Nat
        /\ p.id \in Nat
    BY <1>2, KindFacts DEF TypeInv
  <1>4. p.id \in 1..starts' /\ p.size <= Len(t) /\ (p.pc = "copy" => p.done <= Len(t))
    BY <1>1, <1>2, <1>3 DEF SubmissionInv
  <1>5. p.pc \in {"open", "read", "put"} => p.id # tmp' /\ p.id # object'
    BY Zenon DEF SubmissionInv
  <1>6. p.pc # "accept" /\ signature' # None => p.id # signature'.by
    BY Zenon DEF SubmissionInv
  <1>7. p.pc \in {"copy", "rename"} => p.file \in 1..starts'
    BY <1>3, KindFacts DEF SubmissionInv
  <1>8. Document' = Document
    BY Zenon DEF Document
  <1> QED BY <1>1, <1>2, <1>4, <1>5, <1>6, <1>7, <1>8, Zenon DEF SubmissionInv

\* The sessions, by name.
LEMMA SessionFacts ==
    ASSUME TypeInv, NEW u \in Uploads, upload[u] # None
    PROVE  /\ upload[u] \in Session /\ upload[u].file \in Seq(Nat) /\ upload[u].size \in Nat
           /\ Len(upload[u].file) \in Nat /\ upload[u].live \in BOOLEAN
  BY DEF TypeInv, Session

\* A step of the request r, or of none.
LEMMA StepFrame ==
    ASSUME DocInv, TypeInv', UNCHANGED doc, starts <= starts', NEW r,
           \A q \in Requests : q # r => req'[q] = req[q],
           \A u \in Uploads : SessionInv(u)', CountInv', RecordInv', ObjectInv',
           \A u \in Uploads : upload[u] # None =>
               upload'[u] # None /\ Len(upload[u].file) <= Len(upload'[u].file),
           r \in Requests /\ Works(req'[r]) /\ req'[r].up # None => upload'[req'[r].up] # None,
           r \in Requests /\ Submits(req'[r]) =>
               /\ SubmissionInv(req[r])'
               /\ req'[r].from # None => upload'[req'[r].from] # None
               /\ \A q \in Requests : q # r /\ Submits(req[q]) => req[q].id # req'[r].id,
           \A q \in Requests : q # r /\ Submits(req[q]) =>
               /\ tmp' = tmp \/ tmp' # req[q].id
               /\ object' \in {object, tmp} \/ object' # req[q].id
               /\ signature' = signature \/ signature'.by # req[q].id
    PROVE  DocInv'
  <1>1. ASSUME NEW q \in Requests, q # r, Submits(req[q]) PROVE SubmissionInv(req[q])'
    <2>1. PICK p : p = req[q] /\ p = req'[q]
      BY <1>1, Zenon
    <2>2. p \in Submitted /\ SubmissionInv(p)
      BY <1>1, <2>1, RequestFacts, Zenon DEF DocInv, RequestInv
    <2>3. p.up # None => p.up \in Uploads /\ upload[p.up] # None
      BY <1>1, <2>1, <2>2, KindFacts DEF DocInv, RequestInv
    <2>4. p.up # None =>
               /\ upload[p.up].file \in Seq(Nat) /\ upload'[p.up].file \in Seq(Nat)
               /\ IsPrefix(upload'[p.up].file) /\ Len(upload[p.up].file) <= Len(upload'[p.up].file)
      <3>1. \A u \in Uploads : upload[u] # None => upload[u].file \in Seq(Nat)
        BY SessionFacts, Zenon DEF DocInv
      <3>2. \A u \in Uploads : upload'[u] # None => upload'[u].file \in Seq(Nat)
        BY Zenon DEF TypeInv, Session
      <3>3. \A u \in Uploads : upload'[u] # None => IsPrefix(upload'[u].file)
        BY Zenon DEF SessionInv
      <3> QED BY <2>3, <3>1, <3>2, <3>3, Zenon
    <2>5. SubmissionInv(p)'
      BY <1>1, <2>1, <2>2, <2>4, SubmissionLater, Zenon DEF DocInv
    <2> QED BY <2>1, <2>5, ZenonT(40) DEF SubmissionInv, SourceOf
  <1>2. \A q \in Requests : Submits(req'[q]) => SubmissionInv(req[q])'
    BY <1>1, Zenon
  <1>3. \A q \in Requests : Works(req'[q]) /\ req'[q].up # None => upload'[req'[q].up] # None
    <2>1. ASSUME NEW q \in Requests, q # r, Works(req[q]), req[q].up # None PROVE upload'[req[q].up] # None
      <3>1. upload[req[q].up] # None
        BY <2>1, Zenon DEF DocInv, RequestInv
      <3>2. req[q].up \in Uploads
        <4>1. req[q] \in {Idle} \cup Chunk \cup Count \cup Drop \cup Submitted
          BY Zenon DEF DocInv, TypeInv, Request
        <4> QED BY <2>1, <4>1, KindFacts, Zenon
      <3> QED BY <3>1, <3>2, Zenon
    <2> QED BY <2>1, Zenon
  <1>4. \A q \in Requests : Submits(req'[q]) /\ req'[q].from # None => upload'[req'[q].from] # None
    <2>1. ASSUME NEW q \in Requests, q # r, Submits(req[q]), req[q].from # None PROVE upload'[req[q].from] # None
      <3>1. upload[req[q].from] # None
        BY <2>1, Zenon DEF DocInv, RequestInv
      <3>2. req[q].from \in Uploads
        BY <2>1, RequestFacts, KindFacts, Zenon DEF DocInv
      <3> QED BY <3>1, <3>2, Zenon
    <2> QED BY <2>1, Zenon
  <1>5. \A w, q \in Requests : Submits(req'[w]) /\ Submits(req'[q]) /\ w # q => req'[w].id # req'[q].id
    BY DEF DocInv, RequestInv
  <1> QED BY <1>2, <1>3, <1>4, <1>5, Zenon DEF DocInv, RequestInv

\* A step that leaves the sessions alone, of a request that neither counts a chunk nor
\* goes on to append one.
LEMMA SessionsKept ==
    ASSUME DocInv, UNCHANGED <<upload, mu>>, NEW r,
           \A q \in Requests : q # r => req'[q] = req[q],
           r \in Requests => req[r].pc # "count" /\ req'[r].pc \notin {"append", "count"}
    PROVE  (\A u \in Uploads : SessionInv(u)') /\ CountInv'
  <1>1. \A q \in Requests : /\ req'[q].pc = "append" => req'[q] = req[q]
                            /\ req'[q].pc = "count" <=> req[q].pc = "count"
                            /\ req[q].pc = "count" => req'[q] = req[q]
    BY Zenon
  <1>2. CountInv'
    BY <1>1, Zenon DEF DocInv, CountInv, At
  <1>3. ASSUME NEW u \in Uploads PROVE SessionInv(u)'
    BY <1>1 DEF DocInv, SessionInv, SizeInv, At
  <1> QED BY <1>2, <1>3, Zenon

\* The record stays right.
LEMMA RecordKept ==
    ASSUME DocInv, UNCHANGED <<doc, signature>>, starts <= starts', starts' \in Nat
    PROVE  RecordInv'
  <1>1. starts \in Nat /\ (signature # None => signature.by \in Nat)
    BY DEF DocInv, TypeInv, Record
  <1> QED BY <1>1 DEF DocInv, RecordInv, Document

\* A step of a request that is not, or no longer, at the object.
LEMMA ObjectKept ==
    ASSUME DocInv, UNCHANGED <<objectVars, signature>>, NEW r,
           \A q \in Requests : q # r => req'[q] = req[q],
           r \in Requests => ~ Submits(req'[r]) \/ req'[r].pc \in {"open", "read", "put"}
    PROVE  ObjectInv'
  <1>1. \A q \in Requests : /\ Puts(req'[q]) => req'[q] = req[q]
                            /\ Submits(req'[q]) /\ req'[q].pc \in {"insert", "accept"} => req'[q] = req[q]
    BY Zenon DEF Puts
  <1>2. UNCHANGED <<inode, tmp, object, renamed, clash>>
    BY Zenon DEF objectVars
  <1> QED BY <1>1, <1>2, ZenonT(40) DEF DocInv, ObjectInv, Placed

\* Any other step of a request that leaves sessions, objects and the record alone.
LEMMA QuietRequest ==
    ASSUME DocInv, UNCHANGED <<doc, uploadVars, objectVars, signature>>,
           starts <= starts', starts' \in 0..MaxStarts,
           NEW r \in Requests, NEW w \in Request, req' = [req EXCEPT ![r] = w],
           req[r].pc # "count", w.pc \notin {"append", "count"},
           ~ Submits(w) \/ w.pc \in {"open", "read", "put"},
           Works(w) /\ w.up # None => upload[w.up] # None,
           Submits(w) =>
               /\ SubmissionInv(w)' /\ (w.from # None => upload[w.from] # None)
               /\ \A q \in Requests : q # r /\ Submits(req[q]) => req[q].id # w.id
    PROVE  DocInv'
  <1>1. UNCHANGED <<upload, mu, inode, tmp, object, renamed, clash>> /\ starts \in Nat /\ starts' \in Nat
    BY DocumentsAssumption DEF uploadVars, objectVars, DocInv, TypeInv
  <1>2. req'[r] = w /\ \A q \in Requests : q # r => req'[q] = req[q]
    BY Zenon DEF DocInv, TypeInv
  <1>3. TypeInv'
    <2>1. tmp' \in (1..starts') \cup {None} /\ object' \in (1..starts') \cup {None}
      BY <1>1 DEF DocInv, TypeInv
    <2>2. req' \in [Requests -> Request]
      BY Zenon DEF DocInv, TypeInv
    <2> QED BY <1>1, <2>1, <2>2, Zenon DEF DocInv, TypeInv
  <1>4. (\A u \in Uploads : SessionInv(u)') /\ CountInv'
    BY <1>1, <1>2, SessionsKept, Zenon
  <1>5. RecordInv' /\ ObjectInv'
    BY <1>1, <1>2, RecordKept, ObjectKept, Zenon
  <1>6. \A u \in Uploads : upload[u] # None => upload'[u] # None /\ Len(upload[u].file) <= Len(upload'[u].file)
    BY <1>1, SessionFacts DEF DocInv
  <1>7. Submits(req'[r]) =>
               /\ SubmissionInv(req[r])'
               /\ req'[r].from # None => upload'[req'[r].from] # None
               /\ \A q \in Requests : q # r /\ Submits(req[q]) => req[q].id # req'[r].id
    BY <1>1, <1>2, Zenon DEF SubmissionInv, SourceOf
  <1>8. Works(req'[r]) /\ req'[r].up # None => upload'[req'[r].up] # None
    BY <1>1, <1>2, Zenon
  <1>9. \A q \in Requests : q # r /\ Submits(req[q]) =>
               /\ tmp' = tmp \/ tmp' # req[q].id
               /\ object' \in {object, tmp} \/ object' # req[q].id
               /\ signature' = signature \/ signature'.by # req[q].id
    BY <1>1, Zenon
  <1> QED BY <1>2, <1>3, <1>4, <1>5, <1>6, <1>7, <1>8, <1>9, StepFrame

\* A request is answered, or goes on to discard a session.
LEMMA AnsweredInv ==
    ASSUME DocInv, UNCHANGED <<doc, uploadVars, objectVars, signature, starts>>, NEW r \in Requests,
           req[r].pc # "count", NEW w \in {Idle} \cup Count \cup Drop, w.pc \notin {"append", "count"},
           Works(w) => upload[w.up] # None, req' = [req EXCEPT ![r] = w]
    PROVE  DocInv'
  <1>1. w \in Request /\ ~ Submits(w)
    BY KindFacts, Zenon DEF Request
  <1>2. starts <= starts' /\ starts' \in 0..MaxStarts
    BY DocumentsAssumption DEF DocInv, TypeInv
  <1> QED BY <1>1, <1>2, QuietRequest, ZenonT(20)

-----------------------------------------------------------------------------
(* Resumable uploads *)

\* A step that changes sessions only.
LEMMA UploadStep ==
    ASSUME DocInv, UNCHANGED <<doc, objectVars, signature>>, starts <= starts', starts' \in 0..MaxStarts,
           upload' \in [Uploads -> Session \cup {None}], req' \in [Requests -> Request], NEW r,
           \A q \in Requests : q # r => req'[q] = req[q],
           r \in Requests => ~ Submits(req'[r]) /\ (Works(req'[r]) => upload'[req'[r].up] # None),
           \A u \in Uploads : SessionInv(u)', CountInv',
           \A u \in Uploads : upload[u] # None =>
               upload'[u] # None /\ Len(upload[u].file) <= Len(upload'[u].file)
    PROVE  DocInv'
  <1>1. UNCHANGED <<inode, tmp, object, renamed, clash>> /\ starts \in Nat /\ starts' \in Nat
    BY DocumentsAssumption DEF objectVars, DocInv, TypeInv
  <1>2. TypeInv'
    <2>1. tmp' \in (1..starts') \cup {None} /\ object' \in (1..starts') \cup {None}
      BY <1>1 DEF DocInv, TypeInv
    <2> QED BY <1>1, <2>1, Zenon DEF DocInv, TypeInv
  <1>3. RecordInv' /\ ObjectInv'
    BY <1>1, RecordKept, ObjectKept, Zenon
  <1>4. \A q \in Requests : q # r /\ Submits(req[q]) =>
               /\ tmp' = tmp \/ tmp' # req[q].id
               /\ object' \in {object, tmp} \/ object' # req[q].id
               /\ signature' = signature \/ signature'.by # req[q].id
    BY <1>1, Zenon
  <1> QED BY <1>2, <1>3, <1>4, StepFrame, Zenon

\* A session whose file and size the step leaves alone.
LEMMA SessionKept ==
    ASSUME DocInv, NEW u \in Uploads, NEW r,
           \A q \in Requests : q # r => req'[q] = req[q],
           r \in Requests => /\ At(r, "count") => req[r].up # u
                             /\ req'[r].pc = "append" => req'[r].up # u,
           upload'[u] # None =>
               /\ upload[u] # None /\ upload'[u].file = upload[u].file /\ upload'[u].size = upload[u].size
               /\ upload'[u].live => upload[u].live
    PROVE  SessionInv(u)'
  <1> SUFFICES ASSUME upload'[u] # None PROVE SessionInv(u)'
    BY Zenon DEF SessionInv
  <1>1. SessionInv(u) /\ upload[u] # None
    BY Zenon DEF DocInv
  <1>2. SizeInv(u)'
    <2>1. CASE upload[u].size = Len(upload[u].file)
      BY <2>1, Zenon DEF SizeInv
    <2>2. CASE \E q \in Requests : At(q, "count") /\ req[q].up = u
      <3>1. PICK q \in Requests : At(q, "count") /\ req[q].up = u
        BY <2>2, Zenon
      <3>2. req'[q] = req[q]
        BY <3>1, Zenon
      <3> QED BY <3>1, <3>2, Zenon DEF SizeInv, At
    <2>3. CASE ~ upload[u].live /\ \A q \in Requests : At(q, "append") => req[q].up # u
      <3>1. \A q \in Requests : req'[q].pc = "append" => req'[q].up # u
        BY <2>3, Zenon DEF At
      <3> QED BY <2>3, <3>1, Zenon DEF SizeInv, At
    <2> QED BY <1>1, <2>1, <2>2, <2>3, Zenon DEF SessionInv, SizeInv
  <1> QED BY <1>1, <1>2, Zenon DEF SessionInv

\* A live session that no one is writing to has the size of its file.
LEMMA LiveFacts ==
    ASSUME DocInv, NEW u \in Uploads, get(u)
    PROVE  upload[u] # None /\ upload[u].size = Len(upload[u].file)
  <1>1. upload[u] # None /\ upload[u].live /\ mu = None
    BY Zenon DEF get, Live
  <1>2. \A r \in Requests : ~ At(r, "count")
    BY <1>1, DocumentsAssumption, ZenonT(20) DEF DocInv, CountInv
  <1> QED BY <1>1, <1>2, Zenon DEF DocInv, SessionInv, SizeInv

\* create, discard, reaper: the file is empty, or stays as it is.
LEMMA SessionsInv ==
    ASSUME DocInv,
           \/ \E u \in Uploads : hUploadCreate(u) \/ reaper(u)
           \/ \E r \in Requests : discard(r) \/ RemoveFile(r)
    PROVE  DocInv'
  <1>1. PICK r : /\ \A q \in Requests : q # r => req'[q] = req[q]
                 /\ r \in Requests =>
                       /\ req[r].pc \in {"delete", "remove"} /\ req'[r].pc \in {"remove", "idle"}
                       /\ req'[r] \in {Idle} \cup Count \cup Drop
                       /\ Works(req'[r]) => req'[r].up = req[r].up
                 /\ req' \in [Requests -> Request]
    <2>1. CASE UNCHANGED req
      <3>1. None \notin Requests /\ req' \in [Requests -> Request]
        BY <2>1, DocumentsAssumption, Zenon DEF DocInv, TypeInv
      <3> QED BY <2>1, <3>1, Zenon
    <2>2. ASSUME NEW r \in Requests, discard(r) \/ RemoveFile(r)
          PROVE  /\ \A q \in Requests : q # r => req'[q] = req[q]
                 /\ req[r].pc \in {"delete", "remove"} /\ req'[r].pc \in {"remove", "idle"}
                 /\ req'[r] \in {Idle} \cup Count \cup Drop
                 /\ Works(req'[r]) => req'[r].up = req[r].up
                 /\ req' \in [Requests -> Request]
      <3>1. PICK p \in Count \cup Drop : p = req[r] /\ p.pc \in {"delete", "remove"} /\ At(r, p.pc)
        BY <2>2, RequestFacts, Zenon DEF discard, RemoveFile, At, DocInv
      <3>2. PICK w : req' = [req EXCEPT ![r] = w] /\ (w = Idle \/ w = [p EXCEPT !.pc = "remove"])
        BY <2>2, <3>1, Zenon DEF discard, RemoveFile, Goto, Answered, Idle, DocInv, TypeInv
      <3>3. w \in {Idle} \cup Count \cup Drop /\ w.pc \in {"remove", "idle"} /\ (Works(w) => w.up = p.up)
        BY <3>1, <3>2, KindFacts, Zenon DEF Idle, Count, Drop
      <3> QED BY <3>1, <3>2, <3>3, Zenon DEF DocInv, TypeInv, Request
    <2> QED BY <2>1, <2>2, ZenonT(20) DEF hUploadCreate, reaper
  <1>2. UNCHANGED <<doc, objectVars, signature, starts, mu>>
    BY ZenonT(20) DEF hUploadCreate, reaper, discard, RemoveFile, recordVars
  <1> DEFINE Kept(u) ==
                /\ upload'[u] \in Session \cup {None}
                /\ upload[u] # None =>
                      /\ upload'[u] # None /\ upload'[u].file = upload[u].file /\ upload'[u].size = upload[u].size
                      /\ upload'[u].live => upload[u].live
                /\ upload[u] = None /\ upload'[u] # None => upload'[u].file = <<>> /\ upload'[u].size = 0
  <1>3. ASSUME NEW u \in Uploads PROVE Kept(u)
    <2>0. \A v \in Session : v # None
      BY DocumentsAssumption, Zenon DEF Session
    <2>1. upload \in [Uploads -> Session \cup {None}]
      BY Zenon DEF DocInv, TypeInv
    <2>2. ASSUME NEW v \in Uploads, hUploadCreate(v) PROVE Kept(u)
      <3>1. PICK new : new = [live |-> TRUE, linked |-> TRUE, file |-> <<>>, size |-> 0]
        BY Zenon
      <3>2. upload[v] = None /\ upload' = [upload EXCEPT ![v] = new]
        BY <2>2, <3>1, Zenon DEF hUploadCreate
      <3>3. new \in Session /\ new.file = <<>> /\ new.size = 0
        BY <3>1 DEF Session
      <3> HIDE DEF Session
      <3> QED BY <2>0, <2>1, <3>2, <3>3, Zenon
    <2>3. ASSUME NEW v \in Uploads, NEW old \in Session, old = upload[v],
                 \/ upload' = [upload EXCEPT ![v] = [old EXCEPT !.live = FALSE]]
                 \/ upload' = [upload EXCEPT ![v] = [old EXCEPT !.linked = FALSE]]
                 \/ upload' = [upload EXCEPT ![v] = [old EXCEPT !.live = FALSE, !.linked = FALSE]]
          PROVE  Kept(u)
      <3>1. PICK new : /\ upload' = [upload EXCEPT ![v] = new]
                       /\ new \in {[old EXCEPT !.live = FALSE], [old EXCEPT !.linked = FALSE],
                                   [old EXCEPT !.live = FALSE, !.linked = FALSE]}
        BY <2>3, Zenon
      <3>2. new \in Session /\ new.file = old.file /\ new.size = old.size /\ (new.live => old.live)
        BY <3>1, Zenon DEF Session
      <3> QED BY <2>0, <2>1, <2>3, <3>1, <3>2, Zenon
    <2>4. ASSUME NEW v \in Uploads, reaper(v) PROVE Kept(u)
      <3>1. PICK old \in Session : old = upload[v]
        BY <2>1, <2>4, Zenon DEF reaper, get, Live
      <3>2. upload' = [upload EXCEPT ![v] = [old EXCEPT !.live = FALSE, !.linked = FALSE]]
        BY <2>1, <2>4, <3>1, ZenonT(20) DEF reaper
      <3> QED BY <2>3, <3>1, <3>2, ZenonT(20)
    <2>5. ASSUME NEW q \in Requests, discard(q) \/ RemoveFile(q) PROVE Kept(u)
      <3>1. req[q] \in Count \cup Drop /\ req[q].up \in Uploads /\ Works(req[q])
        BY <2>5, RequestFacts, KindFacts, Zenon DEF discard, RemoveFile, At, DocInv
      <3>2. req[q].up # None
        BY <3>1, KindFacts, Zenon
      <3>3. upload[req[q].up] # None
        BY <3>1, <3>2, Zenon DEF DocInv, RequestInv
      <3>4. PICK v \in Uploads, old \in Session : v = req[q].up /\ old = upload[v]
        BY <2>1, <3>1, <3>3, Zenon
      <3>5. \/ upload' = [upload EXCEPT ![v] = [old EXCEPT !.live = FALSE]]
            \/ upload' = [upload EXCEPT ![v] = [old EXCEPT !.linked = FALSE]]
        BY <2>1, <2>5, <3>4, Zenon DEF discard, RemoveFile
      <3> QED BY <2>3, <3>4, <3>5, ZenonT(20)
    <2> QED BY <2>2, <2>4, <2>5, Zenon
  <1>4. \A u \in Uploads : upload[u] # None =>
               upload'[u] # None /\ Len(upload[u].file) <= Len(upload'[u].file)
    BY <1>3, SessionFacts DEF DocInv
  <1>5. upload' \in [Uploads -> Session \cup {None}]
    <2>1. upload' = [u \in Uploads |-> upload'[u]]
      <3>1. upload \in [Uploads -> Session \cup {None}]
        BY Zenon DEF DocInv, TypeInv
      <3>2. ASSUME NEW v \in Uploads, hUploadCreate(v) \/ reaper(v) PROVE <2>1!:
        BY <3>1, <3>2, Zenon DEF hUploadCreate, reaper
      <3>3. ASSUME NEW q \in Requests, discard(q) \/ RemoveFile(q) PROVE <2>1!:
        BY <3>1, <3>3, Zenon DEF discard, RemoveFile
      <3> QED BY <3>2, <3>3, Zenon
    <2> QED BY <1>3, <2>1, Zenon
  <1>6. ASSUME NEW u \in Uploads PROVE SessionInv(u)'
    <2>1. CASE upload[u] # None
      BY <1>1, <1>3, <2>1, SessionKept, Zenon DEF At
    <2>2. CASE upload[u] = None /\ upload'[u] # None
      <3>1. PICK f : f = upload'[u].file
        BY Zenon
      <3>2. f = <<>> /\ upload'[u].size = 0 /\ Len(f) = 0 /\ MaxUpload \in Nat
        BY <1>3, <2>2, <3>1, DocumentsAssumption, Zenon
      <3>3. IsPrefix(f)
        BY <3>2 DEF IsPrefix, Bytes
      <3> QED BY <3>1, <3>2, <3>3 DEF SessionInv, SizeInv
    <2> QED BY <2>1, <2>2, Zenon DEF SessionInv
  <1>7. CountInv'
    <2>1. ASSUME NEW q \in Requests, req'[q].pc = "count"
          PROVE  mu' = q /\ upload'[req'[q].up].size + req'[q].n = Len(upload'[req'[q].up].file)
      <3>1. req'[q] = req[q] /\ At(q, "count")
        BY <1>1, <2>1, Zenon DEF At
      <3>2. req[q].up \in Uploads /\ req[q].up # None /\ Works(req[q])
        BY <3>1, RequestFacts, KindFacts DEF DocInv
      <3>3. upload[req[q].up] # None
        BY <3>2, Zenon DEF DocInv, RequestInv
      <3> QED BY <1>2, <1>3, <3>1, <3>2, <3>3, Zenon DEF DocInv, CountInv
    <2> QED BY <2>1, Zenon DEF CountInv, At
  <1>8. r \in Requests => ~ Submits(req'[r]) /\ (Works(req'[r]) => upload'[req'[r].up] # None)
    <2> SUFFICES ASSUME r \in Requests PROVE ~ Submits(req'[r]) /\ (Works(req'[r]) => upload'[req'[r].up] # None)
      BY Zenon
    <2>1. req[r] \in Count \cup Drop
      BY <1>1, RequestFacts, Zenon DEF DocInv
    <2>2. req[r].up \in Uploads /\ upload[req[r].up] # None
      BY <2>1, KindFacts DEF DocInv, RequestInv
    <2> QED BY <1>1, <1>3, <2>2, KindFacts, Zenon
  <1>9. starts <= starts' /\ starts' \in 0..MaxStarts
    BY <1>2, DocumentsAssumption DEF DocInv, TypeInv
  <1> QED BY <1>1, <1>2, <1>4, <1>5, <1>6, <1>7, <1>8, <1>9, UploadStep, Zenon

\* A new request.
LEMMA BegunFacts ==
    ASSUME DocInv, NEW r \in Requests, NEW w \in Request, Begin(r, w)
    PROVE  /\ req[r] = Idle /\ req' = [req EXCEPT ![r] = w] /\ req'[r] = w
           /\ \A q \in Requests : q # r => req'[q] = req[q]
           /\ req' \in [Requests -> Request]
           /\ UNCHANGED <<doc, uploadVars, objectVars, signature>> /\ UNCHANGED <<upload, mu>>
           /\ starts' = starts + 1 /\ starts <= starts' /\ starts' \in 0..MaxStarts /\ starts \in Nat
  <1>1. starts \in 0..MaxStarts /\ MaxStarts \in Nat /\ req \in [Requests -> Request]
    BY DocumentsAssumption, Zenon DEF DocInv, TypeInv
  <1>2. starts' = starts + 1 /\ starts < MaxStarts /\ req' = [req EXCEPT ![r] = w] /\ At(r, "idle")
    BY Zenon DEF Begin
  <1>3. UNCHANGED <<doc, uploadVars, objectVars, signature>> /\ UNCHANGED <<upload, mu>>
    BY Zenon DEF Begin, uploadVars, recordVars
  <1>4. req[r] = Idle
    BY <1>2, RequestFacts, Zenon DEF DocInv
  <1> QED BY <1>1, <1>2, <1>3, <1>4

\* A chunk arrives for a live session.
LEMMA ChunkInv ==
    ASSUME DocInv, NEW r \in Requests, NEW u \in Uploads, NEW offset \in Nat, NEW len \in Nat,
           hUploadChunk(r, u, offset, len)
    PROVE  DocInv'
  <1>1. PICK w : w = [pc |-> "append", up |-> u, offset |-> offset, len |-> len]
    BY Zenon
  <1>2. w \in Request /\ w \in Chunk /\ w.up = u /\ w.pc = "append" /\ ~ Submits(w)
    BY <1>1, KindFacts, Zenon DEF Request, Chunk
  <1>3. Begin(r, w) /\ get(u)
    BY <1>1, Zenon DEF hUploadChunk
  <1>4. upload[u] # None /\ upload[u].size = Len(upload[u].file)
    BY <1>3, LiveFacts, Zenon
  <1>5. ASSUME NEW v \in Uploads PROVE SessionInv(v)'
    <2>1. CASE v = u
      BY <1>2, <1>3, <1>4, <2>1, BegunFacts, Zenon DEF DocInv, SessionInv, SizeInv
    <2>2. CASE v # u
      BY <1>2, <1>3, <2>2, BegunFacts, KindFacts, SessionKept DEF At
    <2> QED BY <2>1, <2>2, Zenon
  <1>6. CountInv'
    <2>1. \A q \in Requests : req'[q].pc = "count" => req'[q] = req[q]
      BY <1>2, <1>3, BegunFacts, Zenon
    <2> QED BY <1>2, <1>3, <2>1, BegunFacts DEF DocInv, CountInv, At
  <1>7. upload' \in [Uploads -> Session \cup {None}]
        /\ \A v \in Uploads : upload[v] # None => upload'[v] # None /\ Len(upload[v].file) <= Len(upload'[v].file)
    BY <1>2, <1>3, BegunFacts, SessionFacts DEF DocInv, TypeInv
  <1>8. ~ Submits(req'[r]) /\ upload'[req'[r].up] # None
    BY <1>2, <1>3, <1>4, BegunFacts, Zenon
  <1> QED BY <1>2, <1>3, <1>5, <1>6, <1>7, <1>8, BegunFacts, UploadStep

\* appendChunk: the chunk goes to the end of the file, or the request is answered.
LEMMA AppendInv ==
    ASSUME DocInv, NEW r \in Requests, appendChunk(r)
    PROVE  DocInv'
  <1>1. PICK p \in Chunk, u \in Uploads : p = req[r] /\ u = p.up
    BY RequestFacts, KindFacts, ZenonT(20) DEF appendChunk, DocInv
  <1>2. /\ mu = None /\ p.pc = "append" /\ Works(p) /\ u # None /\ p.offset \in Nat /\ p.len \in Nat
        /\ UNCHANGED <<doc, objectVars, signature, starts>> /\ None \notin Requests
    BY <1>1, KindFacts, DocumentsAssumption, ZenonT(20) DEF appendChunk, At, recordVars
  <1>3. upload[u] # None
    BY <1>1, <1>2, ZenonT(20) DEF DocInv, RequestInv
  <1>4. PICK file \in Seq(Nat), size \in Nat : file = upload[u].file /\ size = upload[u].size
    BY <1>3, SessionFacts, Zenon DEF DocInv
  <1>5. \A q \in Requests : ~ At(q, "count")
    BY <1>2, ZenonT(20) DEF DocInv, CountInv
  <1>6. /\ size = Len(file) /\ IsPrefix(file) /\ size <= MaxUpload + 1 /\ MaxUpload \in Nat
    <2>1. SessionInv(u)
      BY Zenon DEF DocInv
    <2> QED BY <1>1, <1>2, <1>3, <1>4, <1>5, <2>1, DocumentsAssumption, ZenonT(20) DEF SessionInv, SizeInv, At
  <1>7. CASE Answered(r) /\ UNCHANGED uploadVars
    <2>1. Idle \in {Idle} \cup Count \cup Drop /\ Idle.pc = "idle" /\ ~ Works(Idle)
      BY KindFacts, Zenon
    <2>2. req' = [req EXCEPT ![r] = Idle]
      BY <1>7, Zenon DEF Answered, Idle
    <2> QED BY <1>1, <1>2, <1>7, <2>1, <2>2, AnsweredInv, ZenonT(20)
  <1>8. CASE p.offset = size /\ CopyChunk(r, u, MaxUpload - size + 1)
    <2>1. PICK n \in 0..p.len :
             /\ n <= MaxUpload - size + 1
             /\ upload' = [upload EXCEPT ![u].file = @ \o Bytes(size, n)]
             /\ mu' = r
             /\ req' = [req EXCEPT ![r] = [pc |-> "count", up |-> u, n |-> n]]
      BY <1>1, <1>8, ZenonT(20) DEF CopyChunk
    <2>2. PICK w \in Count : /\ w = [pc |-> "count", up |-> u, n |-> n] /\ w.up = u /\ w.n = n /\ w.pc = "count"
                             /\ w \in Request /\ ~ Submits(w) /\ n \in Nat
      <3>1. n \in Nat
        BY <1>2, <2>1
      <3>2. [pc |-> "count", up |-> u, n |-> n] \in Count
        BY <3>1, Zenon DEF Count
      <3> QED BY <3>1, <3>2, KindFacts, Zenon DEF Request
    <2>3. PICK new : new = file \o Bytes(size, n)
      BY Zenon
    <2>4. new = Bytes(0, size + n) /\ size + n \in Nat
      <3>1. file = Bytes(0, size)
        BY <1>6, Zenon DEF IsPrefix
      <3>2. Bytes(0, size) \o Bytes(size, n) = Bytes(0, size + n)
        BY <2>2, BytesConcat, ZenonT(20)
      <3> QED BY <2>2, <2>3, <3>1, <3>2
    <2>5. new \in Seq(Nat) /\ Len(new) = size + n /\ IsPrefix(new)
      BY <2>4, PrefixFacts, Zenon DEF IsPrefix
    <2>6. PICK old \in Session : old = upload[u]
      BY <1>3, SessionFacts, Zenon DEF DocInv
    <2>7. PICK s : s = [old EXCEPT !.file = new]
      BY Zenon
    <2>8. s \in Session /\ s.file = new /\ s.size = size /\ s # None
      BY <1>4, <2>5, <2>6, <2>7, DocumentsAssumption, ZenonT(20) DEF Session
    <2>9. upload' = [upload EXCEPT ![u] = s]
      BY <1>4, <2>1, <2>3, <2>6, <2>7, Zenon DEF DocInv, TypeInv
    <2>10. /\ upload' \in [Uploads -> Session \cup {None}] /\ upload'[u] = s
           /\ \A v \in Uploads : v # u => upload'[v] = upload[v]
      BY <2>8, <2>9, Zenon DEF DocInv, TypeInv
    <2>11. /\ req' \in [Requests -> Request] /\ req'[r] = w
           /\ \A q \in Requests : q # r => req'[q] = req[q]
      BY <2>1, <2>2, Zenon DEF DocInv, TypeInv
    <2>12. ASSUME NEW v \in Uploads PROVE SessionInv(v)'
      <3>1. CASE v = u
        <4>1. SizeInv(u)'
          BY <2>2, <2>11, Zenon DEF SizeInv, At
        <4>2. Len(new) <= MaxUpload + 1 /\ size <= Len(new)
          BY <1>6, <2>1, <2>2, <2>5
        <4> QED BY <2>5, <2>8, <2>10, <3>1, <4>1, <4>2, Zenon DEF SessionInv
      <3>2. CASE v # u
        BY <1>1, <1>2, <2>2, <2>10, <2>11, <3>2, SessionKept, ZenonT(20) DEF At
      <3> QED BY <3>1, <3>2, Zenon
    <2>13. CountInv'
      BY <1>5, <2>1, <2>2, <2>5, <2>8, <2>10, <2>11, ZenonT(20) DEF CountInv, At
    <2>14. \A v \in Uploads : upload[v] # None => upload'[v] # None /\ Len(upload[v].file) <= Len(upload'[v].file)
      <3>1. Len(file) <= Len(new)
        BY <1>6, <2>2, <2>5
      <3>2. \A v \in Uploads : upload[v] # None => Len(upload[v].file) \in Nat
        BY SessionFacts, Zenon DEF DocInv
      <3>3. ASSUME NEW v \in Uploads, upload[v] # None
            PROVE  upload'[v] # None /\ Len(upload[v].file) <= Len(upload'[v].file)
        <4>1. CASE v = u
          BY <1>4, <2>8, <2>10, <3>1, <4>1, Zenon
        <4>2. CASE v # u
          BY <2>10, <3>2, <3>3, <4>2
        <4> QED BY <4>1, <4>2, Zenon
      <3> QED BY <3>3, Zenon
    <2>15. starts <= starts' /\ starts' \in 0..MaxStarts
      BY <1>2, DocumentsAssumption DEF DocInv, TypeInv
    <2>16. ~ Submits(req'[r]) /\ upload'[req'[r].up] # None
      BY <2>2, <2>8, <2>10, <2>11, Zenon
    <2> QED BY <1>2, <2>10, <2>11, <2>12, <2>13, <2>14, <2>15, <2>16, UploadStep, Zenon
  <1> QED BY <1>1, <1>4, <1>7, <1>8, Zenon DEF appendChunk

\* Counted: the size catches up with the file, and the lock is released.
LEMMA CountedInv ==
    ASSUME DocInv, NEW r \in Requests, Counted(r)
    PROVE  DocInv'
  <1>1. PICK p \in Count, u \in Uploads : p = req[r] /\ u = p.up
    BY RequestFacts, KindFacts, Zenon DEF Counted, DocInv
  <1>2. /\ p.pc = "count" /\ Works(p) /\ u # None /\ p.n \in Nat /\ mu' = None
        /\ UNCHANGED <<doc, objectVars, signature, starts>>
    BY <1>1, KindFacts, Zenon DEF Counted, At, recordVars
  <1>3. upload[u] # None
    BY <1>1, <1>2, Zenon DEF DocInv, RequestInv
  <1>4. PICK old \in Session : old = upload[u]
    BY <1>3, SessionFacts, Zenon DEF DocInv
  <1>5. old.size + p.n = Len(old.file) /\ old.size \in Nat /\ old.file \in Seq(Nat) /\ mu = r
    BY <1>1, <1>2, <1>4, Zenon DEF DocInv, CountInv, At, Session
  <1>6. PICK s : s = [old EXCEPT !.size = old.size + p.n]
    BY Zenon
  <1>7. s \in Session /\ s.file = old.file /\ s.size = Len(old.file) /\ s.live = old.live /\ s # None
    BY <1>5, <1>6, DocumentsAssumption DEF Session
  <1>8. upload' = [upload EXCEPT ![u] = s]
    BY <1>1, <1>4, <1>6, Zenon DEF Counted, DocInv, TypeInv
  <1>9. /\ upload' \in [Uploads -> Session \cup {None}] /\ upload'[u] = s
        /\ \A v \in Uploads : v # u => upload'[v] = upload[v]
    BY <1>7, <1>8, Zenon DEF DocInv, TypeInv
  <1>10. PICK w \in {Idle} \cup Count :
            req' = [req EXCEPT ![r] = w] /\ w.pc \in {"idle", "delete"} /\ (Works(w) => w.up = u)
    <2>1. CASE Answered(r)
      BY <2>1, KindFacts, ZenonT(20) DEF Answered, Idle
    <2>2. CASE Goto(r, "delete")
      <3>1. PICK w : w = [p EXCEPT !.pc = "delete"]
        BY Zenon
      <3>2. w \in Count /\ w.pc = "delete" /\ w.up = u
        BY <1>1, <3>1, Zenon DEF Count
      <3>3. req' = [req EXCEPT ![r] = w]
        BY <1>1, <2>2, <3>1, Zenon DEF Goto, DocInv, TypeInv
      <3> QED BY <3>2, <3>3, ZenonT(20)
    <2> QED BY <2>1, <2>2, Zenon DEF Counted
  <1>11. /\ req' \in [Requests -> Request] /\ req'[r] = w
         /\ \A q \in Requests : q # r => req'[q] = req[q]
    BY <1>10, Zenon DEF DocInv, TypeInv, Request
  <1>12. ASSUME NEW v \in Uploads PROVE SessionInv(v)'
    <2>1. CASE v = u
      <3>1. SessionInv(u) /\ Len(old.file) \in Nat
        BY <1>5 DEF DocInv
      <3> QED BY <1>3, <1>4, <1>7, <1>9, <2>1, <3>1 DEF SessionInv, SizeInv
    <2>2. CASE v # u
      BY <1>1, <1>10, <1>9, <1>11, <2>2, SessionKept, Zenon DEF At
    <2> QED BY <2>1, <2>2, Zenon
  <1>13. CountInv'
    <2>1. \A q \in Requests : req'[q].pc # "count"
      BY <1>5, <1>10, <1>11, Zenon DEF DocInv, CountInv, At
    <2> QED BY <2>1, Zenon DEF CountInv, At
  <1>14. \A v \in Uploads : upload[v] # None => upload'[v] # None /\ Len(upload[v].file) <= Len(upload'[v].file)
    BY <1>4, <1>7, <1>9, SessionFacts DEF DocInv
  <1>15. starts <= starts' /\ starts' \in 0..MaxStarts
    BY <1>2, DocumentsAssumption DEF DocInv, TypeInv
  <1>16. ~ Submits(req'[r]) /\ (Works(req'[r]) => upload'[req'[r].up] # None)
    BY <1>7, <1>9, <1>10, <1>11, KindFacts, Zenon
  <1> QED BY <1>2, <1>9, <1>11, <1>12, <1>13, <1>14, <1>15, <1>16, UploadStep, Zenon

-----------------------------------------------------------------------------
(* Reading the document *)

\* hStamp, StampRead: a session to discard, or the end.
LEMMA StampInv ==
    ASSUME DocInv, NEW r \in Requests, (\E u \in Uploads : hStamp(r, u)) \/ StampRead(r)
    PROVE  DocInv'
  <1>1. ASSUME NEW u \in Uploads, hStamp(r, u) PROVE DocInv'
    <2>1. PICK w : w = [pc |-> "stamp", up |-> u]
      BY Zenon
    <2>2. w \in Request /\ w.up = u /\ w.pc = "stamp" /\ ~ Submits(w)
      BY <2>1, KindFacts, Zenon DEF Request, Drop
    <2>3. Begin(r, w) /\ get(u)
      BY <1>1, <2>1, Zenon DEF hStamp
    <2>4. upload[u] # None
      BY <2>3, LiveFacts, Zenon
    <2>5. req[r].pc # "count"
      BY <2>2, <2>3, BegunFacts, KindFacts, ZenonT(20)
    <2> QED BY <2>2, <2>3, <2>4, <2>5, BegunFacts, QuietRequest
  <1>2. ASSUME StampRead(r) PROVE DocInv'
    <2>1. PICK p \in Count \cup Drop : p = req[r] /\ p.pc = "stamp" /\ p.up \in Uploads /\ Works(p)
      BY <1>2, RequestFacts, KindFacts, ZenonT(20) DEF StampRead, At, DocInv
    <2>2. upload[p.up] # None /\ UNCHANGED <<doc, uploadVars, objectVars, signature, starts>>
      BY <1>2, <2>1, KindFacts, ZenonT(20) DEF DocInv, RequestInv, StampRead, recordVars
    <2>3. PICK w : req' = [req EXCEPT ![r] = w] /\ (w = Idle \/ w = [p EXCEPT !.pc = "delete"])
      BY <1>2, <2>1, Zenon DEF StampRead, Goto, Answered, Idle, DocInv, TypeInv
    <2>4. w \in {Idle} \cup Count \cup Drop /\ w.pc \in {"idle", "delete"} /\ (Works(w) => w.up = p.up)
      BY <2>1, <2>3, KindFacts, Zenon DEF Idle, Count, Drop
    <2> QED BY <2>1, <2>2, <2>3, <2>4, AnsweredInv, ZenonT(20)
  <1> QED BY <1>1, <1>2, ZenonT(40)

\* A submission that has not come to its put.
LEMMA Submitting ==
    ASSUME DocInv, UNCHANGED <<doc, uploadVars, objectVars, signature>>,
           starts <= starts', starts' \in 0..MaxStarts,
           NEW r \in Requests, NEW w \in Submitted, req' = [req EXCEPT ![r] = w], req[r].pc # "count",
           \/ w.id = starts + 1 /\ starts' = starts + 1
           \/ Submits(req[r]) /\ req[r].pc \in {"open", "read"} /\ w.id = req[r].id,
           w.pc \in {"open", "read", "put"}, w.done = 0,
           w.up # None => upload[w.up] # None, w.from # None => upload[w.from] # None,
           IsPrefix(SourceOf(w)), IsPrefix(w.body), w.size <= Len(SourceOf(w)),
           w.pc = "open" => w.up # None,
           w.pc = "put" /\ Tier(w.size) = "read" => w.up = None /\ w.body = Document
    PROVE  DocInv'
  <1>1. /\ starts \in Nat /\ w.id \in Nat /\ Submits(w)
        /\ UNCHANGED <<upload, tmp, object, signature>>
        /\ tmp \in (1..starts) \cup {None} /\ object \in (1..starts) \cup {None} /\ None \notin Nat
    BY KindFacts, DocumentsAssumption, SMTT(30) DEF DocInv, TypeInv, uploadVars, objectVars
  <1>2. \A q \in Requests : Submits(req[q]) => req[q].id \in 1..starts
    BY ZenonT(20) DEF DocInv, RequestInv, SubmissionInv
  <1>3. signature # None => signature.by \in 1..starts
    BY ZenonT(20) DEF DocInv, RecordInv
  <1>4. /\ w.id \in 1..starts' /\ w.id # tmp /\ w.id # object /\ (signature # None => w.id # signature.by)
        /\ \A q \in Requests : q # r /\ Submits(req[q]) => req[q].id # w.id
    <2>1. CASE w.id = starts + 1 /\ starts' = starts + 1
      BY <1>1, <1>2, <1>3, <2>1
    <2>2. CASE Submits(req[r]) /\ req[r].pc \in {"open", "read"} /\ w.id = req[r].id
      <3>1. SubmissionInv(req[r])
        BY <2>2, ZenonT(20) DEF DocInv, RequestInv
      <3> QED BY <1>1, <1>2, <1>3, <2>2, <3>1, SMTT(30) DEF SubmissionInv, DocInv, RequestInv
    <2> QED BY <2>1, <2>2, ZenonT(20)
  <1>5. SourceOf(w)' = SourceOf(w) /\ Document' = Document
    BY <1>1, Zenon DEF SourceOf, Document
  <1>6. SubmissionInv(w)'
    BY <1>1, <1>4, <1>5, Zenon DEF SubmissionInv
  <1>7. w \in Request /\ w.pc \notin {"append", "count"}
    BY Zenon DEF Request
  <1> QED BY <1>1, <1>4, <1>6, <1>7, QuietRequest, ZenonT(40)

\* A new submission, of a session or with the document as its body.
LEMMA SubmitInv ==
    ASSUME DocInv, NEW r \in Requests, (\E u \in Uploads : hSubmitDocument(r, u)) \/ SubmitBody(r)
    PROVE  DocInv'
  <1>1. starts + 1 \in Nat /\ doc \in Nat /\ <<>> \in Seq(Nat) /\ IsPrefix(<<>>)
        /\ (\A w \in Submitted : w \in Request)
    BY DocumentsAssumption DEF DocInv, TypeInv, IsPrefix, Bytes, Request
  <1>2. ASSUME NEW u \in Uploads, hSubmitDocument(r, u) PROVE DocInv'
    <2>1. PICK w : w = Submission(u, "open")
      BY Zenon
    <2>2. w \in Submitted /\ w.id = starts + 1 /\ w.pc = "open" /\ w.done = 0 /\ w.up = u /\ w.from = u
          /\ w.body = <<>> /\ w.size = 0
      BY <1>1, <2>1, ZenonT(20) DEF Submission, Submitted
    <2>3. Begin(r, w) /\ get(u) /\ u # None
      BY <1>2, <2>1, DocumentsAssumption, ZenonT(20) DEF hSubmitDocument
    <2>4. upload[u] # None
      BY <2>3, LiveFacts, Zenon
    <2>5. IsPrefix(SourceOf(w)) /\ w.size <= Len(SourceOf(w))
      BY <2>2, <2>3, <2>4, SessionFacts DEF SourceOf, DocInv, SessionInv
    <2>6. req[r].pc # "count"
      BY <1>1, <2>2, <2>3, BegunFacts, KindFacts, ZenonT(20)
    <2> QED BY <1>1, <2>2, <2>3, <2>4, <2>5, <2>6, BegunFacts, Submitting, ZenonT(40)
  <1>3. ASSUME SubmitBody(r) PROVE DocInv'
    <2>1. PICK w : w = [Submission(None, Tier(doc)) EXCEPT !.size = doc, !.body = Document]
      BY Zenon
    <2>2. Document \in Seq(Nat) /\ Len(Document) = doc /\ IsPrefix(Document)
      BY <1>1, PrefixFacts, Zenon DEF Document, IsPrefix
    <2>3. w \in Submitted /\ w.id = starts + 1 /\ w.pc = Tier(doc) /\ w.done = 0 /\ w.up = None /\ w.from = None
          /\ w.body = Document /\ w.size = doc
      BY <1>1, <2>1, <2>2, ZenonT(20) DEF Submission, Submitted, Tier
    <2>4. Begin(r, w)
      BY <1>3, <2>1, Zenon DEF SubmitBody
    <2>5. IsPrefix(SourceOf(w)) /\ w.size <= Len(SourceOf(w)) /\ IsPrefix(w.body)
      BY <1>1, <2>2, <2>3 DEF SourceOf
    <2>6. req[r].pc # "count" /\ w.pc \in {"read", "put"}
      BY <1>1, <2>3, <2>4, BegunFacts, KindFacts, ZenonT(20) DEF Tier
    <2> QED BY <1>1, <2>3, <2>4, <2>5, <2>6, BegunFacts, Submitting, ZenonT(20)
  <1> QED BY <1>2, <1>3, ZenonT(40)

\* signedInput and VerifyRead: the size is that of the session by now, and what is
\* verified is the document.
LEMMA ReadInv ==
    ASSUME DocInv, NEW r \in Requests, signedInput(r) \/ VerifyRead(r)
    PROVE  DocInv'
  <1>1. PICK p \in Submitted : p = req[r] /\ p.pc \in {"open", "read"} /\ Submits(p) /\ SubmissionInv(p)
    BY RequestFacts, Zenon DEF signedInput, VerifyRead, At, DocInv, RequestInv, Submits, Submitted
  <1>2. UNCHANGED <<doc, uploadVars, objectVars, signature, starts>> /\ req[r].pc # "count"
        /\ starts <= starts' /\ starts' \in 0..MaxStarts
    BY <1>1, DocumentsAssumption DEF signedInput, VerifyRead, recordVars, DocInv, TypeInv
  <1>3. /\ p.up # None => upload[p.up] # None /\ p.up \in Uploads
        /\ p.from # None => upload[p.from] # None
        /\ p.done = 0 /\ IsPrefix(p.body) /\ IsPrefix(SourceOf(p))
        /\ p.pc = "open" => p.up # None
    BY <1>1, KindFacts, ZenonT(20) DEF DocInv, RequestInv, SubmissionInv
  <1>4. CASE Answered(r)
    <2>1. Idle \in {Idle} \cup Count \cup Drop /\ Idle.pc = "idle" /\ ~ Works(Idle)
      BY KindFacts, Zenon
    <2>2. req' = [req EXCEPT ![r] = Idle]
      BY <1>4, Zenon DEF Answered, Idle
    <2> QED BY <1>2, <2>1, <2>2, AnsweredInv, ZenonT(20)
  <1>5. CASE At(r, "open") /\ req' = [req EXCEPT ![r].size = upload[p.up].size, ![r].pc = Tier(upload[p.up].size)]
    <2>1. PICK n \in Nat : n = upload[p.up].size /\ n <= Len(SourceOf(p)) /\ p.up # None
      BY <1>1, <1>3, <1>5, SessionFacts, Zenon DEF DocInv, SessionInv, SourceOf, At
    <2>2. PICK w : w = [p EXCEPT !.size = n, !.pc = Tier(n)]
      BY Zenon
    <2>3. w \in Submitted /\ w.pc = Tier(n) /\ w.size = n /\ w.id = p.id /\ w.up = p.up /\ w.from = p.from
          /\ w.done = p.done /\ w.body = p.body
      BY <2>2, ZenonT(20) DEF Submitted, Tier
    <2>4. req' = [req EXCEPT ![r] = w]
      BY <1>1, <1>5, <2>1, <2>2, ZenonT(20) DEF DocInv, TypeInv
    <2>5. SourceOf(w) = SourceOf(p) /\ w.pc \in {"read", "put"}
      BY <2>3, Zenon DEF SourceOf, Tier
    <2> QED BY <1>1, <1>2, <1>3, <2>1, <2>3, <2>4, <2>5, Submitting, ZenonT(40)
  <1>6. CASE /\ Source(r) = Document
             /\ req' = [req EXCEPT ![r].pc = "put", ![r].up = None, ![r].body = Source(r)]
    <2>1. SourceOf(p) = Document /\ Source(r) = SourceOf(p) /\ p.size <= Len(Document)
      BY <1>1, <1>6, Zenon DEF Source, SourceOf, SubmissionInv
    <2>2. Document \in Seq(Nat) /\ IsPrefix(Document)
      BY PrefixFacts, ZenonT(20) DEF Document, IsPrefix, DocInv, TypeInv
    <2>3. PICK w : w = [p EXCEPT !.pc = "put", !.up = None, !.body = Document]
      BY Zenon
    <2>4. w \in Submitted /\ w.pc = "put" /\ w.size = p.size /\ w.id = p.id /\ w.up = None /\ w.from = p.from
          /\ w.done = p.done /\ w.body = Document
      BY <2>2, <2>3, ZenonT(20) DEF Submitted
    <2>5. req' = [req EXCEPT ![r] = w]
      BY <1>1, <1>6, <2>1, <2>3, ZenonT(20) DEF DocInv, TypeInv
    <2>6. SourceOf(w) = Document
      BY <2>4, Zenon DEF SourceOf
    <2> QED BY <1>1, <1>2, <1>3, <2>1, <2>2, <2>4, <2>5, <2>6, Submitting, ZenonT(20)
  <1> QED BY <1>1, <1>4, <1>5, <1>6, Zenon DEF signedInput, VerifyRead

-----------------------------------------------------------------------------
(* The object and the record *)

\* A submission at r goes on, to w.
LEMMA SubmissionStep ==
    ASSUME DocInv, UNCHANGED <<doc, uploadVars, starts>>, NEW r \in Requests, NEW w \in Request,
           req' = [req EXCEPT ![r] = w], Submits(req[r]), w.pc \notin {"append", "count"},
           inode' \in [1..MaxStarts -> Seq(Nat)], tmp' \in {tmp, None, req[r].id},
           object' \in {object, tmp}, signature' \in Record \cup {None},
           signature' = signature \/ signature'.by = req[r].id,
           Works(w) /\ w.up # None => upload[w.up] # None,
           Submits(w) => w.id = req[r].id /\ w.from = req[r].from /\ SubmissionInv(w)',
           RecordInv', ObjectInv'
    PROVE  DocInv'
  <1>1. UNCHANGED <<upload, mu>> /\ starts \in Nat /\ None \notin Nat /\ starts <= starts'
    BY DocumentsAssumption, SMTT(30) DEF uploadVars, DocInv, TypeInv
  <1>2. req'[r] = w /\ \A q \in Requests : q # r => req'[q] = req[q]
    BY Zenon DEF DocInv, TypeInv
  <1>3. /\ req[r] \in Submitted /\ req[r].id \in 1..starts /\ req[r].pc # "count"
        /\ req[r].from # None => upload[req[r].from] # None
    BY RequestFacts, ZenonT(20) DEF DocInv, RequestInv, SubmissionInv, Submitted
  <1>4. TypeInv'
    <2>1. tmp' \in (1..starts) \cup {None} /\ object' \in (1..starts) \cup {None}
      BY <1>3, ZenonT(20) DEF DocInv, TypeInv
    <2>2. req' \in [Requests -> Request]
      BY Zenon DEF DocInv, TypeInv
    <2> QED BY <1>1, <2>1, <2>2, ZenonT(20) DEF DocInv, TypeInv
  <1>5. (\A u \in Uploads : SessionInv(u)') /\ CountInv'
    BY <1>1, <1>2, <1>3, SessionsKept, Zenon
  <1>6. \A u \in Uploads : upload[u] # None => upload'[u] # None /\ Len(upload[u].file) <= Len(upload'[u].file)
    BY <1>1, SessionFacts DEF DocInv
  <1>7. \A q \in Requests : q # r /\ Submits(req[q]) => req[q].id # req[r].id /\ req[q].id \in Nat
    BY RequestFacts, KindFacts, ZenonT(20) DEF DocInv, RequestInv
  <1>8. \A q \in Requests : q # r /\ Submits(req[q]) =>
               /\ tmp' = tmp \/ tmp' # req[q].id
               /\ object' \in {object, tmp} \/ object' # req[q].id
               /\ signature' = signature \/ signature'.by # req[q].id
    BY <1>1, <1>7, Zenon
  <1>9. Submits(req'[r]) =>
               /\ SubmissionInv(req[r])'
               /\ req'[r].from # None => upload'[req'[r].from] # None
               /\ \A q \in Requests : q # r /\ Submits(req[q]) => req[q].id # req'[r].id
    BY <1>1, <1>2, <1>3, <1>7, ZenonT(40) DEF SubmissionInv, SourceOf
  <1>10. Works(req'[r]) /\ req'[r].up # None => upload'[req'[r].up] # None
    BY <1>1, <1>2, Zenon
  <1> QED BY <1>1, <1>2, <1>4, <1>5, <1>6, <1>8, <1>9, <1>10, StepFrame, ZenonT(40)

\* What is known of a submission that is past its reading.
LEMMA PutFacts ==
    ASSUME DocInv, NEW r \in Requests, req[r].pc \in {"put", "copy", "rename", "insert", "accept"}
    PROVE  /\ req[r] \in Submitted /\ Submits(req[r]) /\ SubmissionInv(req[r])
           /\ req[r].up # None => upload[req[r].up] # None /\ req[r].up \in Uploads
           /\ req[r].from # None => upload[req[r].from] # None /\ req[r].from \in Uploads
           /\ req[r].id \in 1..starts
           /\ \A q \in Requests : q # r /\ Submits(req[q]) => req[q].id # req[r].id
           /\ starts \in Nat /\ starts <= MaxStarts
  <1>1. req[r] \in Submitted
    BY RequestFacts, Zenon DEF DocInv
  <1>2. Submits(req[r]) /\ Works(req[r]) /\ req[r].up \in Uploads \cup {None} /\ req[r].from \in Uploads \cup {None}
    BY <1>1, KindFacts, Zenon
  <1> QED BY <1>1, <1>2, DocumentsAssumption, SMTT(30) DEF DocInv, TypeInv, RequestInv, SubmissionInv

\* PutOpen: the submission alone has <key>.tmp, or is known to overlap.
LEMMA PutOpenInv ==
    ASSUME DocInv, NEW r \in Requests, PutOpen(r)
    PROVE  DocInv'
  <1>1. PICK p \in Submitted : /\ p = req[r] /\ p.pc = "put" /\ Submits(p) /\ SubmissionInv(p)
                               /\ p.up # None => upload[p.up] # None
                               /\ p.id \in 1..starts /\ starts \in Nat /\ starts <= MaxStarts /\ MaxStarts \in Nat
    BY PutFacts, DocumentsAssumption, Zenon DEF PutOpen, At
  <1>2. PICK f \in 1..starts : f = IF tmp = None THEN p.id ELSE tmp
    BY <1>1, Zenon DEF DocInv, TypeInv
  <1>3. PICK w : w = [p EXCEPT !.pc = "copy", !.file = f]
    BY Zenon
  <1>4. w \in Submitted /\ w.pc = "copy" /\ w.file = f /\ w.done = p.done /\ w.id = p.id /\ w.up = p.up
        /\ w.from = p.from /\ w.size = p.size /\ w.body = p.body /\ Submits(w)
    <2>1. f \in Nat
      BY <1>1, <1>2, SMTT(30)
    <2>2. w \in Submitted /\ w.pc = "copy" /\ w.file = f /\ w.done = p.done /\ w.id = p.id /\ w.up = p.up
          /\ w.from = p.from /\ w.size = p.size /\ w.body = p.body
      BY <1>3, <2>1, ZenonT(20) DEF Submitted
    <2> QED BY <2>2, KindFacts, ZenonT(40)
  <1>5. /\ req' = [req EXCEPT ![r] = w] /\ inode' = [inode EXCEPT ![f] = <<>>] /\ tmp' = f
        /\ UNCHANGED <<doc, uploadVars, signature, object, renamed, starts>> /\ UNCHANGED upload
    BY <1>1, <1>2, <1>3, ZenonT(20) DEF PutOpen, DocInv, TypeInv, recordVars, uploadVars
  <1>6. /\ clash \subseteq clash'
        /\ \A q \in Requests : q # r /\ Puts(req[q]) => req[q].id \in clash' /\ p.id \in clash'
    BY <1>1, Zenon DEF PutOpen, Overlap, Putting, Puts
  <1>7. f # object /\ p.id # object /\ p.done = 0
    BY <1>1, <1>2, ZenonT(20) DEF SubmissionInv, DocInv, ObjectInv
  <1>8. f \in 1..MaxStarts /\ inode' \in [1..MaxStarts -> Seq(Nat)] /\ inode'[f] = <<>>
        /\ (object # None => inode'[object] = inode[object])
    BY <1>1, <1>2, <1>5, <1>7 DEF DocInv, TypeInv
  <1>9. req'[r] = w /\ \A q \in Requests : q # r => req'[q] = req[q]
    BY <1>5, Zenon DEF DocInv, TypeInv
  <1>10. \A id, bytes : Placed(id, bytes) => Placed(id, bytes)'
    BY <1>5, <1>6, <1>8, Zenon DEF Placed
  <1>11. ObjectInv'
    <2>1. \A q \in Requests : Puts(req'[q]) /\ req'[q].id \notin clash' =>
             tmp' = req'[q].file /\ inode'[tmp'] = Bytes(0, req'[q].done)
      <3>1. Bytes(0, 0) = <<>>
        BY DEF Bytes
      <3> QED BY <1>4, <1>5, <1>6, <1>7, <1>8, <1>9, <3>1
    <2>2. \A q, v \in Requests : q # v /\ Puts(req'[q]) /\ Puts(req'[v]) => req'[q].id \in clash'
      BY <1>4, <1>6, <1>9 DEF DocInv, ObjectInv
    <2>3. renamed' \notin clash' => \A q \in Requests : Puts(req'[q]) => req'[q].file # object'
      BY <1>4, <1>5, <1>6, <1>7, <1>9, Zenon DEF DocInv, ObjectInv
    <2>4. \A q \in Requests :
             Submits(req'[q]) /\ req'[q].pc \in {"insert", "accept"} => Placed(req'[q].id, req'[q].body)
      BY <1>4, <1>9, ZenonT(20) DEF DocInv, ObjectInv
    <2>5. \A q \in Requests :
             Submits(req'[q]) /\ req'[q].pc \in {"insert", "accept"} => Placed(req[q].id, req[q].body)'
      BY <1>10, <2>4, Zenon DEF Placed
    <2>6. signature' # None => Placed(signature.by, signature.bytes)'
      <3>1. signature # None => Placed(signature.by, signature.bytes)
        BY Zenon DEF DocInv, ObjectInv
      <3> QED BY <1>5, <1>10, <3>1, ZenonT(20) DEF Placed
    <2> QED BY <1>5, <1>7, <2>1, <2>2, <2>3, <2>5, <2>6, ZenonT(20) DEF ObjectInv
  <1>12. SubmissionInv(w)'
    <2>1. SourceOf(w)' = SourceOf(p) /\ Document' = Document
      BY <1>4, <1>5, ZenonT(20) DEF SourceOf, Document
    <2>2. Len(SourceOf(p)) \in Nat
      BY <1>1, KindFacts, SessionFacts DEF SourceOf, DocInv
    <2> QED BY <1>1, <1>2, <1>4, <1>5, <1>7, <2>1, <2>2 DEF SubmissionInv
  <1>13. RecordInv'
    BY <1>1, <1>5, RecordKept, SMTT(30)
  <1>14. w \in Request /\ tmp' \in {tmp, None, p.id} /\ signature' \in Record \cup {None}
    BY <1>2, <1>4, <1>5, Zenon DEF Request, DocInv, TypeInv
  <1> QED BY <1>1, <1>4, <1>5, <1>8, <1>11, <1>12, <1>13, <1>14, SubmissionStep, ZenonT(20)

\* Copy: some bytes further in a file that is not the object, or the end.
LEMMA CopyInv ==
    ASSUME DocInv, NEW r \in Requests, Copy(r)
    PROVE  DocInv'
  <1>1. PICK p \in Submitted : /\ p = req[r] /\ p.pc = "copy" /\ Submits(p) /\ SubmissionInv(p) /\ Puts(p)
                               /\ p.up # None => upload[p.up] # None /\ p.up \in Uploads
                               /\ p.id \in 1..starts /\ starts \in Nat /\ starts <= MaxStarts /\ MaxStarts \in Nat
    BY PutFacts, DocumentsAssumption, Zenon DEF Copy, At, Puts
  <1>2. /\ p.done \in Nat /\ p.file \in 1..MaxStarts /\ p.file \in 1..starts /\ inode \in [1..MaxStarts -> Seq(Nat)]
        /\ UNCHANGED <<doc, uploadVars, signature, tmp, object, renamed, clash, starts>> /\ UNCHANGED upload
    BY <1>1, KindFacts DEF SubmissionInv, DocInv, TypeInv, Copy, recordVars, uploadVars
  <1>3. PICK src \in Seq(Nat), n \in Nat : /\ src = SourceOf(p) /\ src = Source(r) /\ src = Bytes(0, n)
                                          /\ n = Len(src) /\ p.done <= n /\ p.size <= n
    <2>1. SourceOf(p) \in Seq(Nat) /\ SourceOf(p) = Source(r)
      BY <1>1, KindFacts, SessionFacts, Zenon DEF SourceOf, Source, DocInv
    <2> QED BY <1>1, <2>1, SMTT(30) DEF SubmissionInv, IsPrefix
  <1>4. \A q \in Requests : q # r /\ Puts(req[q]) => req[q].id \in clash
    BY <1>1, ZenonT(20) DEF DocInv, ObjectInv
  <1> DEFINE Goes(w) ==
           /\ req' = [req EXCEPT ![r] = w] /\ w.id = p.id /\ w.from = p.from /\ w.size = p.size /\ w.file = p.file
           /\ Puts(w) /\ Submits(w) /\ (Works(w) /\ w.up # None => upload[w.up] # None)
           /\ w.pc \notin {"append", "count", "open", "read", "put", "insert", "accept"}
           /\ SubmissionInv(w)'
           /\ inode' \in [1..MaxStarts -> Seq(Nat)]
           /\ \A i \in 1..MaxStarts : i # p.file => inode'[i] = inode[i]
           /\ inode[p.file] = Bytes(0, p.done) => inode'[p.file] = Bytes(0, w.done)
  <1>5. PICK w \in Submitted : Goes(w)
    <2>1. ASSUME NEW k \in 1..(n - p.done),
                 inode' = [inode EXCEPT ![p.file] =
                             Overwrite(inode[p.file], p.done, SubSeq(src, p.done + 1, p.done + k))],
                 req' = [req EXCEPT ![r].done = p.done + k]
          PROVE  \E w \in Submitted : Goes(w)
      <3>1. k \in Nat /\ p.done + k \in Nat /\ p.done + k <= n
        BY <1>2, <1>3
      <3>2. PICK b \in Seq(Nat) : /\ b = SubSeq(src, p.done + 1, p.done + k)
                                  /\ Overwrite(Bytes(0, p.done), p.done, b) = Bytes(0, p.done + k)
        <4>1. /\ SubSeq(Bytes(0, n), p.done + 1, p.done + k) \in Seq(Nat)
              /\ Overwrite(Bytes(0, p.done), p.done, SubSeq(Bytes(0, n), p.done + 1, p.done + k))
                    = Bytes(0, p.done + k)
          BY <1>2, <3>1, BytesOverwrite, Zenon
        <4> QED BY <1>3, <4>1, ZenonT(20)
      <3>3. PICK new : new = Overwrite(inode[p.file], p.done, b)
        BY Zenon
      <3>4. new \in Seq(Nat) /\ inode' = [inode EXCEPT ![p.file] = new]
        BY <1>2, <2>1, <3>2, <3>3, OverwriteType, ZenonT(20)
      <3>5. inode[p.file] = Bytes(0, p.done) => new = Bytes(0, p.done + k)
        BY <3>2, <3>3, ZenonT(20)
      <3>6. PICK w : w = [p EXCEPT !.done = p.done + k]
        BY Zenon
      <3>7. w \in Submitted /\ w.pc = "copy" /\ w.file = p.file /\ w.done = p.done + k /\ w.id = p.id /\ w.up = p.up
            /\ w.from = p.from /\ w.size = p.size /\ w.body = p.body
        BY <1>1, <3>1, <3>6, ZenonT(20) DEF Submitted
      <3>8. req' = [req EXCEPT ![r] = w]
        BY <1>1, <2>1, <3>6, Zenon DEF DocInv, TypeInv
      <3>9. SourceOf(w)' = src /\ Document' = Document
        BY <1>2, <1>3, <3>7, Zenon DEF SourceOf, Document
      <3>10. SubmissionInv(w)'
        BY <1>1, <1>2, <1>3, <3>1, <3>7, <3>9, ZenonT(20) DEF SubmissionInv
      <3>11. Puts(w) /\ Submits(w)
        BY <3>7, KindFacts, Zenon DEF Puts
      <3>12. /\ inode' \in [1..MaxStarts -> Seq(Nat)] /\ inode'[p.file] = new
             /\ \A i \in 1..MaxStarts : i # p.file => inode'[i] = inode[i]
        BY <1>2, <3>4, Zenon
      <3>13. Goes(w)
        BY <1>1, <3>5, <3>7, <3>8, <3>10, <3>11, <3>12, Zenon
      <3> HIDE DEF Goes
      <3> QED BY <3>7, <3>13, Zenon
    <2>2. ASSUME p.done = n, UNCHANGED inode,
                 req' = [req EXCEPT ![r].pc = "rename", ![r].body = src, ![r].up = None]
          PROVE  \E w \in Submitted : Goes(w)
      <3>1. PICK w : w = [p EXCEPT !.pc = "rename", !.body = src, !.up = None]
        BY Zenon
      <3>2. w \in Submitted /\ w.pc = "rename" /\ w.file = p.file /\ w.done = p.done /\ w.id = p.id /\ w.up = None
            /\ w.from = p.from /\ w.size = p.size /\ w.body = src
        BY <3>1, ZenonT(20) DEF Submitted
      <3>3. req' = [req EXCEPT ![r] = w]
        BY <1>1, <2>2, <3>1, ZenonT(20) DEF DocInv, TypeInv
      <3>4. SourceOf(w)' = src /\ Document' = Document
        BY <1>2, <3>2, ZenonT(20) DEF SourceOf, Document
      <3>5. IsPrefix(src)
        BY <1>3, Zenon DEF IsPrefix
      <3>6. Tier(p.size) = "read" => src = Document
        BY <1>1, <1>3, ZenonT(20) DEF SubmissionInv, SourceOf
      <3>7. SubmissionInv(w)'
        BY <1>1, <1>2, <1>3, <2>2, <3>2, <3>4, <3>5, <3>6, ZenonT(20) DEF SubmissionInv
      <3>8. Puts(w) /\ Submits(w)
        BY <3>2, KindFacts, Zenon DEF Puts
      <3>9. Goes(w)
        BY <1>2, <2>2, <3>2, <3>3, <3>7, <3>8, ZenonT(20)
      <3> HIDE DEF Goes
      <3> QED BY <3>2, <3>9, Zenon
    <2> QED BY <1>1, <1>3, <2>1, <2>2, Zenon DEF Copy
  <1>6. req'[r] = w /\ \A q \in Requests : q # r => req'[q] = req[q]
    BY <1>5, Zenon DEF DocInv, TypeInv
  <1>7. renamed \notin clash => p.file # object
    BY <1>1, ZenonT(20) DEF DocInv, ObjectInv
  <1>8. \A id, bytes : Placed(id, bytes) => Placed(id, bytes)'
    <2>1. object # None => object \in 1..MaxStarts
      BY <1>1 DEF DocInv, TypeInv
    <2> QED BY <1>2, <1>5, <1>7, <2>1, Zenon DEF Placed
  <1>9. ObjectInv'
    <2>1. \A q \in Requests : Puts(req'[q]) /\ req'[q].id \notin clash' =>
             tmp' = req'[q].file /\ inode'[tmp'] = Bytes(0, req'[q].done)
      <3>1. p.id \notin clash => tmp = p.file /\ inode[tmp] = Bytes(0, p.done)
        BY <1>1, ZenonT(40) DEF DocInv, ObjectInv
      <3> QED BY <1>2, <1>4, <1>5, <1>6, <3>1, SMTT(30)
    <2>2. \A q, v \in Requests : q # v /\ Puts(req'[q]) /\ Puts(req'[v]) => req'[q].id \in clash'
      BY <1>1, <1>2, <1>5, <1>6 DEF DocInv, ObjectInv
    <2>3. renamed' \notin clash' => \A q \in Requests : Puts(req'[q]) => req'[q].file # object'
      BY <1>2, <1>5, <1>6, <1>7, SMTT(30) DEF DocInv, ObjectInv
    <2>4. \A q \in Requests :
             Submits(req'[q]) /\ req'[q].pc \in {"insert", "accept"} => Placed(req'[q].id, req'[q].body)
      BY <1>5, <1>6, ZenonT(20) DEF DocInv, ObjectInv
    <2>5. \A q \in Requests :
             Submits(req'[q]) /\ req'[q].pc \in {"insert", "accept"} => Placed(req[q].id, req[q].body)'
      BY <1>8, <2>4, ZenonT(20) DEF Placed
    <2>6. signature' # None => Placed(signature.by, signature.bytes)'
      <3>1. signature # None => Placed(signature.by, signature.bytes)
        BY ZenonT(20) DEF DocInv, ObjectInv
      <3> QED BY <1>2, <1>8, <3>1, Zenon DEF Placed
    <2>7. tmp' # None => tmp' # object'
      BY <1>2, ZenonT(40) DEF DocInv, ObjectInv
    <2> QED BY <2>1, <2>2, <2>3, <2>5, <2>6, <2>7, ZenonT(40) DEF ObjectInv
  <1>10. RecordInv'
    BY <1>1, <1>2, RecordKept, SMTT(30)
  <1>11. w \in Request /\ signature' \in Record \cup {None}
    BY <1>2, Zenon DEF Request, DocInv, TypeInv
  <1> QED BY <1>1, <1>2, <1>5, <1>9, <1>10, <1>11, SubmissionStep, ZenonT(20)

\* A request past its reading ends without a change to objects or the record.
LEMMA EndInv ==
    ASSUME DocInv, NEW r \in Requests, req[r].pc # "count", Answered(r),
           UNCHANGED <<doc, uploadVars, objectVars, signature, starts>>
    PROVE  DocInv'
  <1>1. Idle \in {Idle} \cup Count \cup Drop /\ Idle.pc = "idle" /\ ~ Works(Idle)
    BY KindFacts, Zenon
  <1>2. req' = [req EXCEPT ![r] = Idle]
    BY Zenon DEF Answered, Idle
  <1> QED BY <1>1, <1>2, AnsweredInv, ZenonT(20)

\* CopyFails: <key>.tmp goes, and whoever else puts is known to overlap.
LEMMA CopyFailsInv ==
    ASSUME DocInv, NEW r \in Requests, CopyFails(r)
    PROVE  DocInv'
  <1>1. /\ req[r].pc = "copy" /\ Submits(req[r]) /\ Puts(req[r]) /\ starts \in Nat
    BY PutFacts, Zenon DEF CopyFails, At, Puts
  <1>2. /\ tmp' = None /\ req' = [req EXCEPT ![r] = Idle]
        /\ UNCHANGED <<doc, uploadVars, signature, inode, object, renamed, clash, starts>>
    BY Zenon DEF CopyFails, Answered, Idle, recordVars
  <1>3. req'[r] = Idle /\ \A q \in Requests : q # r => req'[q] = req[q]
    BY <1>2, Zenon DEF DocInv, TypeInv
  <1>4. \A q \in Requests : /\ Puts(req'[q]) => req'[q] = req[q] /\ req[q].id \in clash
                            /\ Submits(req'[q]) => req'[q] = req[q]
    BY <1>1, <1>3, KindFacts, ZenonT(40) DEF DocInv, ObjectInv, Puts
  <1>5. ObjectInv'
    BY <1>2, <1>4, SMTT(30) DEF DocInv, ObjectInv, Placed
  <1>6. RecordInv'
    BY <1>1, <1>2, RecordKept
  <1>7. /\ Idle \in Request /\ ~ Submits(Idle) /\ ~ Works(Idle) /\ Idle.pc \notin {"append", "count"}
        /\ inode' \in [1..MaxStarts -> Seq(Nat)] /\ signature' \in Record \cup {None}
    BY <1>2, KindFacts, Zenon DEF Request, DocInv, TypeInv
  <1> QED BY <1>1, <1>2, <1>5, <1>6, <1>7, SubmissionStep, ZenonT(20)

\* Rename: the file becomes the object; alone, it holds what the submission read.
LEMMA RenameInv ==
    ASSUME DocInv, NEW r \in Requests, Rename(r)
    PROVE  DocInv'
  <1>1. PICK p \in Submitted : /\ p = req[r] /\ p.pc = "rename" /\ Submits(p) /\ SubmissionInv(p) /\ Puts(p)
                               /\ starts \in Nat /\ p.up = None
                               /\ \A q \in Requests : q # r /\ Submits(req[q]) => req[q].id # p.id
    BY PutFacts, ZenonT(20) DEF Rename, At, Puts, SubmissionInv
  <1>2. CASE tmp = None
    BY <1>1, <1>2, EndInv, ZenonT(20) DEF Rename, recordVars, objectVars
  <1>3. CASE tmp # None
    <2>1. PICK w : w = [p EXCEPT !.pc = "insert"]
      BY Zenon
    <2>2. w \in Submitted /\ w.pc = "insert" /\ w.id = p.id /\ w.up = None /\ w.from = p.from /\ w.body = p.body
          /\ w.size = p.size /\ w.done = p.done
      BY <1>1, <2>1, Zenon DEF Submitted
    <2>3. /\ req' = [req EXCEPT ![r] = w] /\ object' = tmp /\ tmp' = None /\ renamed' = p.id
          /\ UNCHANGED <<doc, uploadVars, signature, inode, clash, starts>>
      BY <1>1, <1>3, <2>1, Zenon DEF Rename, Goto, DocInv, TypeInv, recordVars
    <2>4. req'[r] = w /\ ~ Puts(w) /\ \A q \in Requests : q # r => req'[q] = req[q]
      BY <2>2, <2>3, Zenon DEF DocInv, TypeInv, Puts
    <2>5. \A q \in Requests : Puts(req'[q]) => q # r /\ req'[q] = req[q] /\ req[q].id \in clash /\ p.id \in clash
      BY <1>1, <2>4, ZenonT(20) DEF DocInv, ObjectInv
    <2>6. p.id \notin clash => inode[tmp] = p.body
      <3>1. p.id \notin clash => inode[tmp] = Bytes(0, p.done)
        BY <1>1, ZenonT(40) DEF DocInv, ObjectInv
      <3> QED BY <1>1, <3>1, Zenon DEF SubmissionInv, IsPrefix
    <2>7. ObjectInv'
      <3>1. \A q \in Requests : Submits(req'[q]) /\ req'[q].pc \in {"insert", "accept"} =>
               Placed(req[q].id, req[q].body)'
        BY <1>1, <1>3, <2>2, <2>3, <2>4, <2>6 DEF Placed
      <3>2. signature' # None => Placed(signature.by, signature.bytes)'
        BY <1>1, <2>3, Zenon DEF SubmissionInv, Placed
      <3> QED BY <2>3, <2>5, <3>1, <3>2, SMTT(30) DEF ObjectInv
    <2>8. SubmissionInv(w)'
      <3>1. SourceOf(w)' = p.body /\ SourceOf(p) = p.body /\ Document' = Document
        BY <1>1, <2>2, <2>3, Zenon DEF SourceOf, Document
      <3> QED BY <1>1, <2>2, <2>3, <3>1, Zenon DEF SubmissionInv
    <2>9. RecordInv'
      BY <1>1, <2>3, RecordKept
    <2>10. w \in Request /\ inode' \in [1..MaxStarts -> Seq(Nat)] /\ signature' \in Record \cup {None}
      BY <2>2, <2>3, Zenon DEF Request, DocInv, TypeInv
    <2> QED BY <1>1, <2>2, <2>3, <2>7, <2>8, <2>9, <2>10, SubmissionStep, ZenonT(20)
  <1> QED BY <1>2, <1>3, Zenon

\* Insert: the record is about what the submission read.
LEMMA InsertInv ==
    ASSUME DocInv, NEW r \in Requests, Insert(r)
    PROVE  DocInv'
  <1>1. PICK p \in Submitted : /\ p = req[r] /\ p.pc = "insert" /\ Submits(p) /\ SubmissionInv(p)
                               /\ starts \in Nat /\ p.up = None
    BY PutFacts, ZenonT(20) DEF Insert, At, SubmissionInv
  <1>2. CASE signature # None
    BY <1>1, <1>2, EndInv, ZenonT(20) DEF Insert
  <1>3. CASE signature = None
    <2>1. PICK w : w = [p EXCEPT !.pc = "accept"]
      BY Zenon
    <2>2. w \in Submitted /\ w.pc = "accept" /\ w.id = p.id /\ w.up = None /\ w.from = p.from /\ w.body = p.body
          /\ w.size = p.size /\ w.done = p.done
      BY <1>1, <2>1, ZenonT(40) DEF Submitted
    <2>3. /\ req' = [req EXCEPT ![r] = w]
          /\ UNCHANGED <<doc, uploadVars, inode, tmp, object, renamed, clash, starts>>
      BY <1>1, <1>3, <2>1, Zenon DEF Insert, Goto, DocInv, TypeInv, objectVars
    <2>4. IsPrefix(p.body) /\ p.size <= Len(p.body) /\ p.body \in Seq(Nat) /\ p.id \in 1..starts /\ p.id \in Nat
          /\ (Tier(p.size) = "read" => p.body = Document) /\ p.size \in Nat /\ Len(p.body) \in Nat
      BY <1>1, KindFacts, SMTT(30) DEF SubmissionInv, SourceOf
    <2>5. PICK rec \in Record :
             /\ signature' = rec /\ rec.by = p.id /\ rec.bytes = p.body /\ rec.size <= Len(p.body)
             /\ rec.status = "accepted" => p.body = Document /\ rec.size = Len(p.body)
      <3>1. CASE Tier(p.size) = "read"
        <4>1. signature' = [by |-> p.id, bytes |-> p.body, size |-> Len(p.body), status |-> "accepted"]
          BY <1>1, <1>3, <3>1, ZenonT(20) DEF Insert
        <4>2. [by |-> p.id, bytes |-> p.body, size |-> Len(p.body), status |-> "accepted"] \in Record
          BY <2>4, ZenonT(20) DEF Record
        <4> QED BY <2>4, <3>1, <4>1, <4>2
      <3>2. CASE Tier(p.size) # "read"
        <4>1. signature' = [by |-> p.id, bytes |-> p.body, size |-> p.size, status |-> "stored_unverified"]
          BY <1>1, <1>3, <3>2, ZenonT(20) DEF Insert
        <4>2. [by |-> p.id, bytes |-> p.body, size |-> p.size, status |-> "stored_unverified"] \in Record
          BY <2>4, ZenonT(20) DEF Record
        <4> QED BY <2>4, <4>1, <4>2, Zenon
      <3> QED BY <3>1, <3>2, Zenon
    <2>6. RecordInv'
      <3>1. Document' = Document /\ Len(Document) = doc
        BY <2>3, PrefixFacts, Zenon DEF Document, DocInv, TypeInv
      <3> QED BY <2>3, <2>4, <2>5, <3>1, Zenon DEF RecordInv
    <2>7. req'[r] = w /\ \A q \in Requests : q # r => req'[q] = req[q]
      BY <2>3, ZenonT(40) DEF DocInv, TypeInv
    <2>8. ObjectInv'
      <3>1. Placed(p.id, p.body)
        BY <1>1, ZenonT(20) DEF DocInv, ObjectInv
      <3>2. \A q \in Requests : Puts(req'[q]) => req'[q] = req[q]
        BY <2>2, <2>7, ZenonT(40) DEF Puts
      <3>3. \A q \in Requests : Submits(req'[q]) /\ req'[q].pc \in {"insert", "accept"} =>
               Placed(req[q].id, req[q].body)'
        BY <2>2, <2>3, <2>7, <3>1, SMTT(30) DEF Placed, DocInv, ObjectInv
      <3>4. Placed(signature.by, signature.bytes)'
        BY <2>3, <2>5, <3>1, Zenon DEF Placed
      <3> QED BY <2>3, <3>2, <3>3, <3>4, SMTT(30) DEF DocInv, ObjectInv
    <2>9. SubmissionInv(w)'
      <3>1. SourceOf(w)' = p.body /\ Document' = Document
        BY <2>2, <2>3, ZenonT(20) DEF SourceOf, Document
      <3> QED BY <2>2, <2>3, <2>4, <3>1, ZenonT(20) DEF SubmissionInv
    <2>10. w \in Request /\ inode' \in [1..MaxStarts -> Seq(Nat)] /\ signature' \in Record \cup {None}
      BY <2>2, <2>3, <2>5, Zenon DEF Request, DocInv, TypeInv
    <2> QED BY <1>1, <2>2, <2>3, <2>5, <2>6, <2>8, <2>9, <2>10, SubmissionStep, ZenonT(20)
  <1> QED BY <1>2, <1>3, Zenon

\* Accept: the request is answered, or goes on to discard its session.
LEMMA AcceptInv ==
    ASSUME DocInv, NEW r \in Requests, Accept(r)
    PROVE  DocInv'
  <1>1. req[r].pc = "accept" /\ UNCHANGED <<doc, uploadVars, objectVars, signature, starts>>
    BY Zenon DEF Accept, At
  <1>2. CASE req[r].from = None
    BY <1>1, <1>2, EndInv, Zenon DEF Accept
  <1>3. CASE req[r].from # None
    <2>1. PICK w : w = [pc |-> "delete", up |-> req[r].from]
      BY Zenon
    <2>2. req[r].from \in Uploads /\ upload[req[r].from] # None
      BY <1>1, <1>3, PutFacts, ZenonT(20)
    <2>3. w \in Drop /\ w.pc = "delete" /\ w.up = req[r].from
      BY <2>1, <2>2, Zenon DEF Drop
    <2>4. req' = [req EXCEPT ![r] = w]
      BY <1>3, <2>1, Zenon DEF Accept
    <2> QED BY <1>1, <2>2, <2>3, <2>4, AnsweredInv, ZenonT(20)
  <1> QED BY <1>2, <1>3, Zenon

\* Restart: the sessions are dead and the requests gone; the files stay.
LEMMA RestartInv ==
    ASSUME DocInv, Restart PROVE DocInv'
  <1>1. /\ req' = [r \in Requests |-> Idle] /\ mu' = None
        /\ UNCHANGED <<doc, signature, inode, tmp, object, renamed, clash, starts>>
    BY Zenon DEF Restart, Idle, recordVars, objectVars
  <1>2. \A r \in Requests : req'[r] = Idle /\ ~ Works(req'[r]) /\ ~ Submits(req'[r]) /\ req'[r].pc = "idle"
    BY <1>1, KindFacts, Zenon
  <1>3. ASSUME NEW u \in Uploads
        PROVE  /\ upload'[u] \in Session \cup {None}
               /\ upload'[u] # None => /\ upload[u] # None /\ upload'[u].file = upload[u].file
                                       /\ upload'[u].size = upload[u].size /\ ~ upload'[u].live
    <2>1. CASE upload[u] = None
      BY <2>1, Zenon DEF Restart
    <2>2. CASE upload[u] # None
      <3>1. PICK old \in Session : old = upload[u]
        BY <2>2, SessionFacts, Zenon DEF DocInv
      <3>2. upload'[u] = [old EXCEPT !.live = FALSE]
        BY <2>2, <3>1, Zenon DEF Restart
      <3>3. [old EXCEPT !.live = FALSE] \in Session
        BY ZenonT(20) DEF Session
      <3> QED BY <2>2, <3>1, <3>2, <3>3, Zenon DEF Session
    <2> QED BY <2>1, <2>2, Zenon
  <1>4. TypeInv'
    <2>1. upload' = [u \in Uploads |-> upload'[u]]
      BY Zenon DEF Restart
    <2>2. upload' \in [Uploads -> Session \cup {None}]
      BY <1>3, <2>1, Zenon
    <2>3. req' \in [Requests -> Request]
      BY <1>1, Zenon DEF Request
    <2> QED BY <1>1, <2>2, <2>3, Zenon DEF DocInv, TypeInv
  <1>5. ASSUME NEW u \in Uploads PROVE SessionInv(u)'
    <2>1. SessionInv(u)
      BY Zenon DEF DocInv
    <2> QED BY <1>2, <1>3, <2>1, Zenon DEF SessionInv, SizeInv, At
  <1>6. CountInv' /\ RequestInv'
    BY <1>2, ZenonT(20) DEF CountInv, RequestInv, At
  <1>7. RecordInv'
    BY <1>1, Zenon DEF DocInv, RecordInv, Document
  <1>8. ObjectInv'
    BY <1>1, <1>2, ZenonT(20) DEF DocInv, ObjectInv, Placed, Puts
  <1> QED BY <1>4, <1>5, <1>6, <1>7, <1>8, Zenon DEF DocInv

-----------------------------------------------------------------------------
(* The specification *)

\* The invariant holds with no session, request, object or record.
LEMMA InitInv == Init => DocInv
  <1> SUFFICES ASSUME Init PROVE DocInv
    BY Zenon
  <1>1. \A r \in Requests : req[r] = Idle /\ ~ Works(req[r]) /\ ~ Submits(req[r]) /\ req[r].pc = "idle"
    BY KindFacts, ZenonT(40) DEF Init, Idle
  <1>2. TypeInv
    <2>1. req \in [Requests -> Request]
      BY Zenon DEF Init, Request, Idle
    <2>2. doc \in Nat /\ starts \in 0..MaxStarts
      BY DocumentsAssumption DEF Init
    <2> QED BY <2>1, <2>2 DEF Init, TypeInv
  <1>3. \A u \in Uploads : SessionInv(u)
    BY Zenon DEF Init, SessionInv
  <1>4. CountInv /\ RequestInv /\ RecordInv
    BY <1>1, ZenonT(20) DEF Init, CountInv, RequestInv, RecordInv, At
  <1>5. ObjectInv
    BY <1>1, ZenonT(20) DEF Init, ObjectInv, Puts
  <1> QED BY <1>2, <1>3, <1>4, <1>5, Zenon DEF DocInv

\* Every step preserves it.
LEMMA StepInv == DocInv /\ [Next]_vars => DocInv'
  <1> SUFFICES ASSUME DocInv, [Next]_vars PROVE DocInv'
    BY Zenon
  <1>1. CASE \E u \in Uploads : hUploadCreate(u) \/ reaper(u)
    BY <1>1, SessionsInv, Zenon
  <1>2. ASSUME NEW r \in Requests, NEW u \in Uploads, NEW offset \in 0..(doc - 1), NEW len \in 1..doc,
               hUploadChunk(r, u, offset, len)
        PROVE  DocInv'
    <2>1. offset \in Nat /\ len \in Nat
      BY DEF DocInv, TypeInv
    <2> QED BY <1>2, <2>1, ChunkInv, Zenon
  <1>3. ASSUME NEW r \in Requests, NEW u \in Uploads, hStamp(r, u) \/ hSubmitDocument(r, u) PROVE DocInv'
    BY <1>3, StampInv, SubmitInv, Zenon
  <1>4. ASSUME NEW r \in Requests, SubmitBody(r) PROVE DocInv'
    BY <1>4, SubmitInv, Zenon
  <1>5. ASSUME NEW r \in Requests, Step(r) PROVE DocInv'
    <2>1. CASE appendChunk(r) \/ Counted(r) \/ discard(r) \/ RemoveFile(r)
      BY <2>1, AppendInv, CountedInv, SessionsInv, Zenon
    <2>2. CASE StampRead(r) \/ signedInput(r) \/ VerifyRead(r)
      BY <2>2, StampInv, ReadInv, Zenon
    <2>3. CASE PutOpen(r) \/ Copy(r) \/ CopyFails(r) \/ Rename(r)
      BY <2>3, PutOpenInv, CopyInv, CopyFailsInv, RenameInv, Zenon
    <2>4. CASE Insert(r) \/ Accept(r)
      BY <2>4, InsertInv, AcceptInv, Zenon
    <2> QED BY <1>5, <2>1, <2>2, <2>3, <2>4, Zenon DEF Step
  <1>6. CASE UNCHANGED vars
    <2>1. UNCHANGED <<doc, upload, mu, signature, inode, tmp, object, renamed, clash, req, starts>>
      BY <1>6, Zenon DEF vars, uploadVars, recordVars, objectVars
    <2>2. TypeInv' /\ CountInv' /\ RecordInv' /\ ObjectInv' /\ RequestInv'
      BY <2>1, ZenonT(40) DEF DocInv, TypeInv, CountInv, At, RecordInv, Document, ObjectInv, Placed,
                  RequestInv, SubmissionInv, SourceOf
    <2>3. \A u \in Uploads : SessionInv(u)'
      BY <2>1, Zenon DEF DocInv, SessionInv, SizeInv, At
    <2> QED BY <2>2, <2>3, Zenon DEF DocInv
  <1> QED BY <1>1, <1>2, <1>3, <1>4, <1>5, <1>6, RestartInv, Zenon DEF Next

\* The invariant of every behaviour.
LEMMA DocumentsInvariant == Spec => []DocInv
  BY InitInv, StepInv, PTL DEF Spec

\* A session holds a beginning of the document, at most one byte more than the
\* limit, and says how much to a client that may resume.
THEOREM UploadCorrect == Spec => []UploadIsPrefix
  <1>1. DocInv => UploadIsPrefix
    <2> SUFFICES ASSUME DocInv, NEW u \in Uploads, upload[u] # None
                 PROVE  /\ upload[u].file = Bytes(0, Len(upload[u].file))
                        /\ Len(upload[u].file) <= MaxUpload + 1
                        /\ mu = None /\ Live(u) => upload[u].size = Len(upload[u].file)
      BY Zenon DEF UploadIsPrefix
    <2> QED BY LiveFacts, Zenon DEF DocInv, SessionInv, IsPrefix, get
  <1> QED BY <1>1, DocumentsInvariant, PTL

\* The record is about bytes that belong together, whatever the submission read
\* while chunks arrived.
THEOREM RecordCorrect == Spec => []RecordIsAnUpload
  <1>1. DocInv => RecordIsAnUpload
    BY Zenon DEF DocInv, RecordInv, RecordIsAnUpload, IsPrefix
  <1> QED BY <1>1, DocumentsInvariant, PTL

\* The object is the document of the record, unless puts overlapped or a later one
\* succeeded.
THEOREM ObjectCorrect == Spec => []ObjectIsRecorded
  <1>1. DocInv => ObjectIsRecorded
    BY Zenon DEF DocInv, ObjectInv, Placed, ObjectIsRecorded
  <1> QED BY <1>1, DocumentsInvariant, PTL

=============================================================================
