------------------------ MODULE ArchiveConsoleProofs ------------------------
(***************************************************************************)
(* The console proved right, for any number of items, requests, damaged    *)
(* parts, revoked keys, tickets and accounts.                              *)
(*                                                                         *)
(* Stored hashes can become anything, but a signature stays the one        *)
(* archiveFinalize made for the event of that number (Genuine), so events  *)
(* that are chained and verify are the recorded ones, from the first on    *)
(* (ChainIsOriginal).  A verification that found nothing wrong so far has  *)
(* established as much about what it read (Established), and one of        *)
(* records nobody touched finds nothing wrong (Unharmed).                  *)
(***************************************************************************)
EXTENDS ArchiveConsole, TLAPS

(* The values of the archive's columns *)

Hashes == {Hash("manifest"), Hash("integrity"), Hash("archived"), Hash(Other)}
KeyNames == {"sender", System}
Types == {"UPLOAD_RECEIVED", "INTEGRITY_VERIFIED", "ARCHIVED"}
Signatures(hashes) == [key : KeyNames, typ : Types \cup {"ARCHIVE_RECEIPT"}, txn : Items, hash : hashes]
EventRow == [seq : 1..3, typ : Types, hash : Hashes, prev : Hashes \cup {None},
             key : KeyNames, sig : Signatures(Hashes)]
ReceiptRow == [mhash : Hashes, key : {System}, sig : Signatures({Hash(Hash("manifest"))})]
ItemRow == [manifest : {"manifest", Other}, mhash : Hashes, events : Seq(EventRow),
            receipt : ReceiptRow, file : {"file", Other, None}]

\* Nobody can make a signature: a stored event has the type, the key and the
\* signature of the event archiveFinalize recorded with its number.
Genuine(i, e) ==
    LET was == OriginalEvents(i)[e.seq]
    IN  e.typ = was.typ /\ e.key = was.key /\ e.sig = was.sig

GenuineRow(i, row) ==
    /\ row \in ItemRow
    /\ \A k \in DOMAIN row.events : Genuine(i, row.events[k])
    /\ row.receipt.sig = Receipt(i, Hash("manifest")).sig

(* The requests *)

VerifyCall ==
    [op : {"verify"}, pc : {"events", "signatures", "receipt", "file", "verified"},
     item : Items, admin : Admins \cup {None}, by : Nat, deep : BOOLEAN, row : ItemRow,
     revoked : SUBSET KeyNames, checks : SUBSET BOOLEAN, next : Nat \ {0}]
DetailCall == [op : {"detail"}, pc : {"view"}, item : Items, admin : Admins, by : Nat]
DownloadCall == [op : {"download", "redeem"}, pc : {"open", "log", "copy"}, item : Items,
                 admin : Admins, by : Nat, ticket : Nat]
AssignCall == [op : {"assign"}, pc : {"member"}, account : Accounts, office : Offices]

TicketRow == [item : Items, admin : Admins, expires : Nat, used : BOOLEAN]

Call == {Idle} \cup VerifyCall \cup DetailCall \cup DownloadCall \cup AssignCall

TypeInv ==
    /\ req \in [Requests -> Call]
    /\ now \in Nat /\ begun \in Nat
    /\ ticket \in Seq(TicketRow)
    /\ streams \in Seq(Nat) /\ Len(streams) = Len(ticket)
    /\ revoked \subseteq KeyNames
    /\ office \subseteq Offices
    /\ identity \in [Accounts -> Offices \cup {DefaultOffice, None}]
    /\ member \in [Accounts -> Offices \cup {None}]
    /\ DOMAIN item = Items

-----------------------------------------------------------------------------
(* Verification *)

\* What it means that nothing was found wrong with event j.
Passed(q, j) ==
    LET e == q.row.events[j]
    IN  /\ VerifyHybridWithHash(e.key, e.typ, q.item, e.hash, e.sig)
        /\ e.key \notin q.revoked
        /\ j = 1 => e.typ = "UPLOAD_RECEIVED" /\ e.hash = q.row.mhash

ReceiptPassed(q) ==
    LET t == q.row.receipt
    IN  /\ VerifyHybridWithHash(t.key, "ARCHIVE_RECEIPT", q.item, Hash(t.mhash), t.sig)
        /\ t.key \notin q.revoked
        /\ t.mhash = q.row.mhash

\* What a verification that has found nothing wrong so far has established.
Established(q) ==
    /\ q.pc # "events" => ManifestHash(q.row) /\ EventChain(q.row.events)
    /\ q.pc = "signatures" => \A j \in 1..(q.next - 1) : Passed(q, j)
    /\ q.pc \in {"receipt", "file", "verified"} => \A j \in 1..Len(q.row.events) : Passed(q, j)
    /\ q.pc \in {"file", "verified"} => ReceiptPassed(q)
    /\ q.pc = "verified" /\ q.deep => StoredFile(q.row, q.row.file)

\* A verification that has read nothing but what was recorded.
Unharmed(q) ==
    /\ Verdict(q)
    /\ q.row.manifest = "manifest"
    /\ q.row.mhash = Hash("manifest")
    /\ q.row.receipt = Receipt(q.item, Hash("manifest"))
    /\ q.pc # "events" => q.row.events = OriginalEvents(q.item)

VerifyInv(q) ==
    /\ GenuineRow(q.item, q.row)
    /\ q.revoked \subseteq revoked
    /\ q.pc = "events" => q.next = 1
    /\ q.pc # "events" => q.row.events # <<>>
    /\ q.pc = "signatures" => q.next \in 1..Len(q.row.events)
    /\ q.pc = "file" => q.deep
    /\ Verdict(q) => Established(q)
    /\ damaged = {} => Unharmed(q)

ArchiveInv ==
    /\ \A i \in Items : GenuineRow(i, item[i])
    /\ damaged = {} => revoked = {} /\ \A i \in Items : item[i] = Original(i)
    /\ \A r \in Requests : req[r].op = "verify" => VerifyInv(req[r])

-----------------------------------------------------------------------------
(* The trail and the tickets *)

Downloading(r) == req[r].pc \in {"open", "log", "copy"}

Redeems(r, t) == Downloading(r) /\ req[r].ticket = t

TrailInv ==
    /\ AccessIsTrailed
    /\ \A r \in Requests : req[r].pc = "copy" =>
          Trail(r, "download") \in access \/ <<"log", Trail(r, "download")>> \in faults
    /\ \A t \in 1..Len(ticket) : ~ ticket[t].used => streams[t] = 0
    /\ \A r \in Requests : Downloading(r) /\ req[r].ticket # 0 =>
          /\ req[r].ticket \in 1..Len(ticket)
          /\ ticket[req[r].ticket].used
          /\ streams[req[r].ticket] = 0
    /\ \A r, s \in Requests : \A t \in 1..Len(ticket) : Redeems(r, t) /\ Redeems(s, t) => r = s

ConsoleInv == TypeInv /\ ArchiveInv /\ TrailInv /\ MemberHasOneOffice
-----------------------------------------------------------------------------
(* What archiveFinalize recorded *)

\* The three events, field by field.
LEMMA Originals ==
    ASSUME NEW i
    PROVE  /\ OriginalEvents(i) = <<Event(i, 1, "UPLOAD_RECEIVED", "sender", Hash("manifest"), None),
                 Event(i, 2, "INTEGRITY_VERIFIED", System, Hash("integrity"), Hash("manifest")),
                 Event(i, 3, "ARCHIVED", System, Hash("archived"), Hash("integrity"))>>
           /\ Len(OriginalEvents(i)) = 3
           /\ OriginalEvents(i)[1] = Event(i, 1, "UPLOAD_RECEIVED", "sender", Hash("manifest"), None)
           /\ OriginalEvents(i)[2] =
                 Event(i, 2, "INTEGRITY_VERIFIED", System, Hash("integrity"), Hash("manifest"))
           /\ OriginalEvents(i)[3] =
                 Event(i, 3, "ARCHIVED", System, Hash("archived"), Hash("integrity"))
  <1>1. OriginalEvents(i) = <<Event(i, 1, "UPLOAD_RECEIVED", "sender", Hash("manifest"), None),
            Event(i, 2, "INTEGRITY_VERIFIED", System, Hash("integrity"), Hash("manifest")),
            Event(i, 3, "ARCHIVED", System, Hash("archived"), Hash("integrity"))>>
    BY DEF OriginalEvents
  <1> QED BY <1>1

\* A recorded event is signed by its key, and its prev is the hash before.
OriginalFacts(i, e, n, prev) ==
    /\ e = [seq |-> n, typ |-> e.typ, hash |-> e.hash, prev |-> e.prev, key |-> e.key, sig |-> e.sig]
    /\ e.seq = n
    /\ e.sig = Sign(e.key, e.typ, i, e.hash)
    /\ e.prev = prev

\* What Event makes is such an event.
LEMMA EventFacts ==
    ASSUME NEW i, NEW n, NEW t, NEW k, NEW h, NEW p, NEW e, e = Event(i, n, t, k, h, p)
    PROVE  OriginalFacts(i, e, n, p) /\ e.hash = h
  BY DEF Event, OriginalFacts

\* Every event archiveFinalize recorded is signed and chained.
LEMMA OriginalsSigned ==
    ASSUME NEW i, NEW n \in 1..3
    PROVE  OriginalFacts(i, OriginalEvents(i)[n], n,
                         IF n = 1 THEN None ELSE OriginalEvents(i)[n - 1].hash)
  <1>1. n = 1 \/ n = 2 \/ n = 3
    OBVIOUS
  <1>2. CASE n = 1
    <2>1. OriginalFacts(i, OriginalEvents(i)[1], 1, None)
      <3>1. OriginalEvents(i)[1] =
              Event(i, 1, "UPLOAD_RECEIVED", "sender", Hash("manifest"), None)
        BY Originals, Zenon
      <3> QED BY ONLY <3>1, EventFacts
    <2> QED BY <2>1, <1>2, Zenon
  <1>3. CASE n = 2
    <2>1. OriginalFacts(i, OriginalEvents(i)[2], 2, OriginalEvents(i)[1].hash)
      <3>1. OriginalEvents(i)[2] =
              Event(i, 2, "INTEGRITY_VERIFIED", System, Hash("integrity"), Hash("manifest"))
        BY Originals, Zenon
      <3>2. OriginalFacts(i, OriginalEvents(i)[2], 2, Hash("manifest"))
        BY ONLY <3>1, EventFacts
      <3>3. OriginalEvents(i)[1] = Event(i, 1, "UPLOAD_RECEIVED", "sender", Hash("manifest"), None)
        BY Originals, Zenon
      <3>4. OriginalEvents(i)[1].hash = Hash("manifest")
        BY ONLY <3>3, EventFacts
      <3> QED BY <3>2, <3>4, Zenon
    <2>2. n - 1 = 1 /\ n # 1
      BY <1>3
    <2> QED BY <2>1, <2>2, <1>3, Zenon
  <1>4. CASE n = 3
    <2>1. OriginalFacts(i, OriginalEvents(i)[3], 3, OriginalEvents(i)[2].hash)
      <3>1. OriginalEvents(i)[3] =
              Event(i, 3, "ARCHIVED", System, Hash("archived"), Hash("integrity"))
        BY Originals, Zenon
      <3>2. OriginalFacts(i, OriginalEvents(i)[3], 3, Hash("integrity"))
        BY ONLY <3>1, EventFacts
      <3>3. OriginalEvents(i)[2] = Event(i, 2, "INTEGRITY_VERIFIED", System, Hash("integrity"), Hash("manifest"))
        BY Originals, Zenon
      <3>4. OriginalEvents(i)[2].hash = Hash("integrity")
        BY ONLY <3>3, EventFacts
      <3> QED BY <3>2, <3>4, Zenon
    <2>2. n - 1 = 2 /\ n # 1
      BY <1>4
    <2> QED BY <2>1, <2>2, <1>4, Zenon
  <1> QED BY <1>1, <1>2, <1>3, <1>4, Zenon

\* A signature fits one hash only.
LEMMA SignInjective ==
    ASSUME NEW k, NEW t, NEW i, NEW h, NEW g, Sign(k, t, i, h) = Sign(k, t, i, g)
    PROVE  h = g
  BY DEF Sign

\* A hash is of one value only.
LEMMA HashInjective ==
    ASSUME NEW x, NEW y, Hash(x) = Hash(y)
    PROVE  x = y
  BY DEF Hash

\* A sequence is the function of its elements.
LEMMA SeqAsFunction ==
    ASSUME NEW S, NEW s \in Seq(S)
    PROVE  s = [k \in 1..Len(s) |-> s[k]]
  OBVIOUS

\* Signed events whose numbers and hashes are chained are the recorded ones, from
\* the first on.
LEMMA ChainIsOriginal ==
    ASSUME NEW i, NEW evs \in Seq(EventRow), EventChain(evs),
           \A k \in DOMAIN evs : Genuine(i, evs[k]),
           \A k \in 1..Len(evs) :
               VerifyHybridWithHash(evs[k].key, evs[k].typ, i, evs[k].hash, evs[k].sig)
    PROVE  evs = SubSeq(OriginalEvents(i), 1, Len(evs))
  <1> DEFINE O == OriginalEvents(i)
  <1>1. Len(evs) \in Nat /\ DOMAIN evs = 1..Len(evs) /\ \A k \in 1..Len(evs) : evs[k] \in EventRow
    OBVIOUS
  <1>2. ASSUME NEW k \in 1..Len(evs)
        PROVE  /\ k \in 1..3 /\ evs[k].seq = k /\ evs[k].hash = O[k].hash
               /\ evs[k].typ = O[k].typ /\ evs[k].key = O[k].key /\ evs[k].sig = O[k].sig
    <2>1. evs[k].seq = k /\ k \in 1..3
      BY <1>1, Zenon DEF EventChain, EventRow
    <2>2. evs[k].typ = O[k].typ /\ evs[k].key = O[k].key /\ evs[k].sig = O[k].sig
      BY <1>1, <2>1, Zenon DEF Genuine
    <2>3. evs[k].sig = Sign(O[k].key, O[k].typ, i, evs[k].hash)
      BY <2>2, Zenon DEF VerifyHybridWithHash
    <2>4. O[k].sig = Sign(O[k].key, O[k].typ, i, O[k].hash)
      <3>1. OriginalFacts(i, O[k], k, IF k = 1 THEN None ELSE O[k - 1].hash)
        BY <2>1, OriginalsSigned, Zenon
      <3> QED BY <3>1, Zenon DEF OriginalFacts
    <2> QED BY <2>1, <2>2, <2>3, <2>4, SignInjective, Zenon
  <1>3. ASSUME NEW k \in 1..Len(evs) PROVE evs[k].prev = O[k].prev
    <2> OriginalFacts(i, O[k], k, IF k = 1 THEN None ELSE O[k - 1].hash)
      BY <1>2, OriginalsSigned, Zenon
    <2>1. CASE k = 1
      <3>1. evs[k].prev = None
        BY <2>1, Zenon DEF EventChain
      <3>2. O[k].prev = None
        BY <2>1, Zenon DEF OriginalFacts
      <3> QED BY <3>1, <3>2, Zenon
    <2>2. CASE k # 1
      <3>1. evs[k].prev = evs[k - 1].hash
        BY <2>2, Zenon DEF EventChain
      <3>2. k - 1 \in 1..Len(evs)
        BY <2>2, <1>1
      <3>3. O[k].prev = O[k - 1].hash
        BY <2>2, Zenon DEF OriginalFacts
      <3> QED BY <3>1, <3>2, <3>3, <1>2, Zenon
    <2> QED BY <2>1, <2>2, Zenon
  <1>4. ASSUME NEW k \in 1..Len(evs) PROVE evs[k] = O[k]
    <2>1. evs[k] \in EventRow
      BY <1>1, Zenon
    <2>2. evs[k] = [seq |-> evs[k].seq, typ |-> evs[k].typ, hash |-> evs[k].hash, prev |-> evs[k].prev,
                    key |-> evs[k].key, sig |-> evs[k].sig]
      BY <2>1 DEF EventRow
    <2>3. O[k] = [seq |-> k, typ |-> O[k].typ, hash |-> O[k].hash, prev |-> O[k].prev,
                  key |-> O[k].key, sig |-> O[k].sig]
      <3>1. OriginalFacts(i, O[k], k, IF k = 1 THEN None ELSE O[k - 1].hash)
        BY <1>2, OriginalsSigned, Zenon
      <3> QED BY <3>1, Zenon DEF OriginalFacts
    <2> QED BY <2>2, <2>3, <1>2, <1>3, Zenon
  <1>5. Len(evs) <= 3
    <2>1. CASE Len(evs) = 0
      BY <2>1
    <2>2. CASE Len(evs) # 0
      BY <2>2, <1>1, <1>2
    <2> QED BY <2>1, <2>2, Zenon
  <1>6. Len(O) = 3 /\ O \in Seq({O[1], O[2], O[3]})
    <2>1. ASSUME NEW a, NEW b, NEW c
          PROVE  <<a, b, c>> \in Seq({a, b, c}) /\ Len(<<a, b, c>>) = 3
      OBVIOUS
    <2>2. O = <<O[1], O[2], O[3]>>
      BY Originals, Zenon
    <2> HIDE DEF O
    <2> QED BY <2>1, <2>2, Zenon
  <1>7. /\ Len(SubSeq(O, 1, Len(evs))) = Len(evs)
        /\ DOMAIN SubSeq(O, 1, Len(evs)) = 1..Len(evs)
        /\ \A k \in 1..Len(evs) : SubSeq(O, 1, Len(evs))[k] = O[k]
        /\ SubSeq(O, 1, Len(evs)) \in Seq({O[1], O[2], O[3]})
    <2> HIDE DEF O
    <2> QED BY <1>1, <1>5, <1>6
  <1> DEFINE P == SubSeq(O, 1, Len(evs))
  <1>8. P = [k \in 1..Len(evs) |-> P[k]]
    <2> HIDE DEF P
    <2>1. Len(P) = Len(evs) /\ P \in Seq({O[1], O[2], O[3]})
      BY <1>7, Zenon DEF P
    <2> QED BY <2>1, SeqAsFunction, Zenon
  <1>9. evs = [k \in 1..Len(evs) |-> evs[k]]
    BY SeqAsFunction, Zenon
  <1>10. \A k \in 1..Len(evs) : evs[k] = P[k]
    BY <1>4, <1>7, Zenon
  <1> HIDE DEF P
  <1>11. evs = P
    BY <1>8, <1>9, <1>10, Zenon
  <1> QED BY <1>11 DEF P
-----------------------------------------------------------------------------
(* Which request is at which step *)

\* The step a request is at tells which handler serves it.
LEMMA CallAt ==
    ASSUME TypeInv, NEW r \in Requests
    PROVE  /\ req[r].pc \in {"events", "signatures", "receipt", "file", "verified"} =>
                 req[r] \in VerifyCall
           /\ req[r].pc = "view" => req[r] \in DetailCall
           /\ req[r].pc \in {"open", "log", "copy"} => req[r] \in DownloadCall
           /\ req[r].pc = "member" => req[r] \in AssignCall
           /\ req[r].op = "verify" => req[r] \in VerifyCall
  <1>1. req[r] \in Call
    BY Zenon DEF TypeInv
  <1>2. CASE req[r] = Idle
    BY <1>2 DEF Idle
  <1>3. CASE req[r] \in VerifyCall
    BY <1>3, Zenon DEF VerifyCall
  <1>4. CASE req[r] \in DetailCall
    BY <1>4, Zenon DEF DetailCall
  <1>5. CASE req[r] \in DownloadCall
    BY <1>5, Zenon DEF DownloadCall
  <1>6. CASE req[r] \in AssignCall
    BY <1>6, Zenon DEF AssignCall
  <1> QED BY <1>1, <1>2, <1>3, <1>4, <1>5, <1>6, Zenon DEF Call

\* A step of one request leaves the others alone.
LEMMA OneStep ==
    ASSUME TypeInv, NEW r \in Requests, NEW X, req' = [req EXCEPT ![r] = X]
    PROVE  /\ req'[r] = X
           /\ \A s \in Requests : s # r => req'[s] = req[s]
           /\ X \in Call => req' \in [Requests -> Call]
  BY Zenon DEF TypeInv

\* No request begins, or goes on with, a download.
NoDownload ==
    \A s \in Requests : req'[s] = req[s] \/ req'[s].pc \notin {"open", "log", "copy"}

\* A step that neither touches the records nor begins or goes on with a
\* verification keeps what is known about them.
LEMMA ArchiveFrame ==
    ASSUME ArchiveInv, UNCHANGED archiveVars,
           \A r \in Requests : req'[r] = req[r] \/ req'[r].op # "verify"
    PROVE  ArchiveInv'
  <1>1. item' = item /\ revoked' = revoked /\ damaged' = damaged
    BY Zenon DEF archiveVars
  <1>2. ASSUME NEW r \in Requests, req'[r].op = "verify" PROVE VerifyInv(req[r])'
    <2>1. req'[r] = req[r] /\ VerifyInv(req[r])
      BY <1>2, Zenon DEF ArchiveInv
    <2> QED BY <2>1, <1>1, Zenon DEF VerifyInv
  <1> QED BY <1>1, <1>2, Zenon DEF ArchiveInv

\* A step of one verification.
LEMMA ArchiveOne ==
    ASSUME TypeInv, ArchiveInv, UNCHANGED archiveVars, NEW r \in Requests, NEW q,
           req' = [req EXCEPT ![r] = q], VerifyInv(q)
    PROVE  ArchiveInv'
  <1>1. item' = item /\ revoked' = revoked /\ damaged' = damaged
    BY Zenon DEF archiveVars
  <1>2. ASSUME NEW s \in Requests, req'[s].op = "verify" PROVE VerifyInv(req[s])'
    <2>1. CASE s = r
      <3>1. req'[s] = q
        BY <2>1, OneStep, Zenon
      <3> QED BY <3>1, <1>1, Zenon DEF VerifyInv
    <2>2. CASE s # r
      <3>1. req'[s] = req[s] /\ VerifyInv(req[s])
        BY <1>2, <2>2, OneStep, Zenon DEF ArchiveInv
      <3> QED BY <3>1, <1>1, Zenon DEF VerifyInv
    <2> QED BY <2>1, <2>2, Zenon
  <1> QED BY <1>1, <1>2, Zenon DEF ArchiveInv
-----------------------------------------------------------------------------
(* The steps of a verification *)

\* The fields of a verification.
LEMMA VerifyFields ==
    ASSUME NEW q \in VerifyCall
    PROVE  /\ q.op = "verify" /\ q.item \in Items /\ q.row \in ItemRow /\ q.next \in Nat \ {0}
           /\ q.deep \in BOOLEAN /\ q.checks \in SUBSET BOOLEAN /\ q.revoked \in SUBSET KeyNames
           /\ q.row.events \in Seq(EventRow)
  BY Zenon DEF VerifyCall, ItemRow

\* An event as a row of its table.
LEMMA EventType ==
    ASSUME NEW i \in Items, NEW n \in 1..3, NEW t \in Types, NEW k \in KeyNames, NEW h \in Hashes,
           NEW p \in Hashes \cup {None}
    PROVE  Event(i, n, t, k, h, p) \in EventRow /\ Event(i, n, t, k, h, p).seq = n
  <1>1. Sign(k, t, i, h) \in Signatures(Hashes)
    BY Zenon DEF Sign, Signatures
  <1> QED BY <1>1, Zenon DEF Event, EventRow

\* What was archived, as a row of the tables.
LEMMA OriginalRow ==
    ASSUME NEW i \in Items
    PROVE  /\ GenuineRow(i, Original(i))
           /\ Original(i).manifest = "manifest" /\ Original(i).mhash = Hash("manifest")
           /\ Original(i).events = OriginalEvents(i) /\ Original(i).file = "file"
           /\ Original(i).receipt = Receipt(i, Hash("manifest"))
  <1>1. /\ "sender" \in KeyNames /\ System \in KeyNames
        /\ Hash("manifest") \in Hashes /\ Hash("integrity") \in Hashes /\ Hash("archived") \in Hashes
        /\ "UPLOAD_RECEIVED" \in Types /\ "INTEGRITY_VERIFIED" \in Types /\ "ARCHIVED" \in Types
    BY Zenon DEF KeyNames, Hashes, Types
  <1>2. 1 \in 1..3 /\ 2 \in 1..3 /\ 3 \in 1..3
    OBVIOUS
  <1>3. OriginalEvents(i)[1] \in EventRow /\ OriginalEvents(i)[1].seq = 1
    <2>1. OriginalEvents(i)[1] = Event(i, 1, "UPLOAD_RECEIVED", "sender", Hash("manifest"), None)
      BY Originals, Zenon
    <2> QED BY <2>1, <1>1, <1>2, EventType
  <1>4. OriginalEvents(i)[2] \in EventRow /\ OriginalEvents(i)[2].seq = 2
    <2>1. OriginalEvents(i)[2] =
            Event(i, 2, "INTEGRITY_VERIFIED", System, Hash("integrity"), Hash("manifest"))
      BY Originals, Zenon
    <2> QED BY <2>1, <1>1, <1>2, EventType
  <1>5. OriginalEvents(i)[3] \in EventRow /\ OriginalEvents(i)[3].seq = 3
    <2>1. OriginalEvents(i)[3] =
            Event(i, 3, "ARCHIVED", System, Hash("archived"), Hash("integrity"))
      BY Originals, Zenon
    <2> QED BY <2>1, <1>1, <1>2, EventType
  <1>6. OriginalEvents(i) \in Seq(EventRow) /\ DOMAIN OriginalEvents(i) = 1..3
    <2>1. ASSUME NEW a \in EventRow, NEW b \in EventRow, NEW c \in EventRow
          PROVE  <<a, b, c>> \in Seq(EventRow) /\ DOMAIN <<a, b, c>> = 1..3
      OBVIOUS
    <2>2. PICK a \in EventRow, b \in EventRow, c \in EventRow : OriginalEvents(i) = <<a, b, c>>
      <3>1. OriginalEvents(i) = <<OriginalEvents(i)[1], OriginalEvents(i)[2], OriginalEvents(i)[3]>>
        BY Originals, Zenon
      <3> QED BY <3>1, <1>3, <1>4, <1>5, Zenon
    <2> QED BY <2>2
  <1>7. ASSUME NEW k \in DOMAIN OriginalEvents(i) PROVE Genuine(i, OriginalEvents(i)[k])
    <2>1. k = 1 \/ k = 2 \/ k = 3
      BY <1>6
    <2>2. OriginalEvents(i)[k].seq = k
      BY <2>1, <1>3, <1>4, <1>5, Zenon
    <2> QED BY <2>2, Zenon DEF Genuine
  <1>8. Receipt(i, Hash("manifest")) \in ReceiptRow
    BY Zenon DEF Receipt, ReceiptRow, Sign, Signatures, KeyNames, Hashes
  <1>9. Original(i) \in ItemRow
    BY <1>6, <1>8, Zenon DEF Original, ItemRow, Hashes
  <1>10. /\ Original(i).manifest = "manifest" /\ Original(i).mhash = Hash("manifest")
         /\ Original(i).events = OriginalEvents(i) /\ Original(i).file = "file"
         /\ Original(i).receipt = Receipt(i, Hash("manifest"))
    BY Zenon DEF Original
  <1> QED BY <1>7, <1>9, <1>10, Zenon DEF GenuineRow

\* The recorded events are a chain.
LEMMA OriginalChain ==
    ASSUME NEW i
    PROVE  EventChain(OriginalEvents(i))
  <1>1. Len(OriginalEvents(i)) = 3
    BY Originals, Zenon
  <1>2. ASSUME NEW k \in 1..3
        PROVE  /\ OriginalEvents(i)[k].seq = k
               /\ OriginalEvents(i)[k].prev = IF k = 1 THEN None ELSE OriginalEvents(i)[k - 1].hash
    BY OriginalsSigned, Zenon DEF OriginalFacts
  <1> QED BY <1>1, <1>2, Zenon DEF EventChain

\* The first query of a verification.
LEMMA BeginVerify ==
    ASSUME TypeInv, ArchiveInv, ConsoleAssumption, NEW r \in Requests, NEW i \in Items,
           NEW admin \in Admins \cup {None}, NEW deep \in BOOLEAN, VerifyBegin(r, i, admin, deep)
    PROVE  TypeInv' /\ ArchiveInv' /\ NoDownload
  <1>1. PICK q : q = [op |-> "verify", pc |-> "events", item |-> i, admin |-> admin,
                 by |-> begun, deep |-> deep, row |-> [item[i] EXCEPT !.events = <<>>, !.file = None],
                 revoked |-> revoked, checks |-> {}, next |-> 1]
    BY Zenon
  <1>2. req' = [req EXCEPT ![r] = q]
    BY <1>1, Zenon DEF VerifyBegin, Begin
  <1>3. GenuineRow(i, item[i])
    BY Zenon DEF ArchiveInv
  <1>4. /\ q.row \in ItemRow /\ q.row.events = <<>> /\ q.row.receipt = item[i].receipt
        /\ q.row.manifest = item[i].manifest /\ q.row.mhash = item[i].mhash
    <2>1. <<>> \in Seq(EventRow)
      OBVIOUS
    <2> QED BY <1>1, <1>3, <2>1, Zenon DEF GenuineRow, ItemRow
  <1>5. begun \in Nat /\ revoked \in SUBSET KeyNames /\ {} \in SUBSET BOOLEAN /\ 1 \in Nat \ {0}
    BY DEF TypeInv
  <1>6. q \in VerifyCall
    BY <1>1, <1>4, <1>5, Zenon DEF VerifyCall
  <1>7. TypeInv'
    <2>1. req' \in [Requests -> Call]
      BY <1>2, <1>6, OneStep, Zenon DEF Call
    <2>2. begun' \in Nat
      BY <1>5 DEF VerifyBegin, Begin
    <2> QED BY <2>1, <2>2, Zenon DEF TypeInv, VerifyBegin, archiveVars, trailVars, memberVars
  <1>8. VerifyInv(q)
    <2>1. q.pc = "events" /\ q.item = i /\ q.revoked = revoked /\ q.next = 1 /\ q.checks = {}
      BY <1>1, Zenon
    <2>2. GenuineRow(q.item, q.row)
      <3>1. DOMAIN q.row.events = {}
        BY <1>4
      <3> QED BY <1>3, <1>4, <2>1, <3>1, Zenon DEF GenuineRow
    <2>3. ASSUME damaged = {} PROVE Unharmed(q)
      <3>1. item[i] = Original(i)
        BY <2>3, Zenon DEF ArchiveInv
      <3>2. /\ q.row.manifest = "manifest" /\ q.row.mhash = Hash("manifest")
            /\ q.row.receipt = Receipt(i, Hash("manifest"))
        BY <3>1, <1>4, OriginalRow, Zenon
      <3> QED BY <3>2, <2>1, Zenon DEF Unharmed, Verdict
    <2>4. Established(q)
      BY <2>1, Zenon DEF Established
    <2> QED BY <2>1, <2>2, <2>3, <2>4, Zenon DEF VerifyInv
  <1>9. q.pc \notin {"open", "log", "copy"}
    BY <1>1
  <1>10. NoDownload
    BY <1>2, <1>9, OneStep, Zenon DEF NoDownload
  <1> QED BY <1>2, <1>7, <1>8, <1>10, ArchiveOne, Zenon DEF VerifyBegin

\* A verification that goes on, from the fields it has then.
LEMMA GoesOn ==
    ASSUME TypeInv, ArchiveInv, NEW r \in Requests, NEW q \in VerifyCall,
           req' = [req EXCEPT ![r] = q],
           UNCHANGED <<archiveVars, trailVars, memberVars, now, boundVars>>, VerifyInv(q)
    PROVE  TypeInv' /\ ArchiveInv' /\ NoDownload
  <1>1. req' \in [Requests -> Call]
    BY OneStep, Zenon DEF Call
  <1>2. TypeInv'
    BY <1>1, Zenon DEF TypeInv, archiveVars, trailVars, memberVars, boundVars
  <1>3. q.pc \notin {"open", "log", "copy"}
    BY Zenon DEF VerifyCall
  <1>4. NoDownload
    BY <1>3, OneStep, Zenon DEF NoDownload
  <1> QED BY <1>2, <1>4, ArchiveOne, Zenon

\* A check that is not false is true.
LEMMA NotFalse == \A b \in BOOLEAN : b # FALSE => b
  BY Zenon

\* The second query.
LEMMA ReadEventsStep ==
    ASSUME TypeInv, ArchiveInv, NEW r \in Requests, ReadEvents(r)
    PROVE  TypeInv' /\ ArchiveInv' /\ NoDownload
  <1>1. PICK p : p = req[r]
    BY Zenon
  <1>2. p \in VerifyCall /\ p.pc = "events" /\ VerifyInv(p)
    BY <1>1, CallAt, VerifyFields, Zenon DEF ReadEvents, ArchiveInv
  <1>3. PICK evs : evs = item[p.item].events
    BY Zenon
  <1>4. PICK row : row = [p.row EXCEPT !.events = evs]
    BY Zenon
  <1>5. GenuineRow(p.item, item[p.item]) /\ GenuineRow(p.item, p.row) /\ p.item \in Items
    BY <1>2, VerifyFields, Zenon DEF ArchiveInv, VerifyInv
  <1>6. /\ row \in ItemRow /\ row.events = evs /\ row.manifest = p.row.manifest
        /\ row.mhash = p.row.mhash /\ row.receipt = p.row.receipt
    BY <1>3, <1>4, <1>5, Zenon DEF GenuineRow, ItemRow
  <1>7. GenuineRow(p.item, row)
    BY <1>3, <1>5, <1>6, Zenon DEF GenuineRow
  <1>8. CASE evs = <<>>
    <2>1. req' = [req EXCEPT ![r] = Idle]
      BY <1>1, <1>3, <1>8, Zenon DEF ReadEvents, Close
    <2>2. req' \in [Requests -> Call]
      BY <2>1, OneStep, Zenon DEF Call
    <2>3. TypeInv'
      BY <2>2, Zenon DEF ReadEvents, TypeInv, archiveVars, trailVars, memberVars, boundVars
    <2>4. Idle.op # "verify" /\ Idle.pc \notin {"open", "log", "copy"}
      BY DEF Idle
    <2>5. \A s \in Requests : req'[s] = req[s] \/ req'[s].op # "verify"
      BY <2>1, <2>4, OneStep, Zenon
    <2>6. NoDownload
      BY <2>1, <2>4, OneStep, Zenon DEF NoDownload
    <2> QED BY <2>3, <2>5, <2>6, ArchiveFrame, Zenon DEF ReadEvents
  <1>9. CASE evs # <<>>
    <2>1. PICK q : q = [p EXCEPT !.pc = "signatures", !.row = row,
                          !.checks = {ManifestHash(row), EventChain(evs)}]
      BY Zenon
    <2>2. req' = [req EXCEPT ![r] = q]
      BY <1>1, <1>3, <1>4, <1>9, <2>1, Zenon DEF ReadEvents
    <2>3. ManifestHash(row) \in BOOLEAN /\ EventChain(evs) \in BOOLEAN
      BY Zenon DEF ManifestHash, EventChain
    <2>4. /\ q \in VerifyCall /\ q.pc = "signatures" /\ q.row = row /\ q.item = p.item
          /\ q.checks = {ManifestHash(row), EventChain(evs)} /\ q.next = p.next
          /\ q.revoked = p.revoked /\ q.deep = p.deep
      BY <1>2, <1>6, <2>1, <2>3, Zenon DEF VerifyCall
    <2>5. q.next = 1 /\ 1 \in 1..Len(evs) /\ 1 - 1 = 0 /\ 1..0 = {}
      <3>1. q.next = 1
        BY <1>2, <2>4, Zenon DEF VerifyInv
      <3>2. evs \in Seq(EventRow)
        BY <1>3, <1>5, Zenon DEF GenuineRow, ItemRow
      <3> QED BY <3>1, <3>2, <1>9
    <2>6. ASSUME Verdict(q) PROVE ManifestHash(row) /\ EventChain(evs)
      <3>1. ManifestHash(row) # FALSE /\ EventChain(evs) # FALSE
        BY <2>4, <2>6, Zenon DEF Verdict
      <3> QED BY <2>3, <3>1, NotFalse, Zenon
    <2>7. Verdict(q) => Established(q)
      BY <2>4, <2>5, <2>6, <1>6, Zenon DEF Established
    <2>8. ASSUME damaged = {} PROVE Unharmed(q)
      <3>1. Unharmed(p) /\ item[p.item] = Original(p.item)
        BY <1>2, <1>5, <2>8, Zenon DEF VerifyInv, ArchiveInv
      <3>2. evs = OriginalEvents(p.item)
        BY <3>1, <1>3, <1>5, OriginalRow, Zenon
      <3>3. ManifestHash(row)
        BY <3>1, <1>6, Zenon DEF Unharmed, ManifestHash
      <3>4. EventChain(evs)
        BY <3>2, OriginalChain, Zenon
      <3>5. Verdict(q)
        BY <3>3, <3>4, <2>4, Zenon DEF Verdict
      <3> QED BY <3>1, <3>2, <3>5, <2>4, <1>6, Zenon DEF Unharmed
    <2>9. q.revoked \subseteq revoked /\ GenuineRow(q.item, q.row) /\ q.row.events # <<>>
      BY <1>2, <1>6, <1>7, <1>9, <2>4, Zenon DEF VerifyInv
    <2>10. VerifyInv(q)
      BY <2>4, <2>5, <1>6, <2>7, <2>8, <2>9, Zenon DEF VerifyInv
    <2> QED BY <2>2, <2>4, <2>10, GoesOn, Zenon DEF ReadEvents
  <1> QED BY <1>8, <1>9, Zenon

\* Checking the signature of one event.
LEMMA CheckSignatureStep ==
    ASSUME TypeInv, ArchiveInv, NEW r \in Requests, CheckSignature(r)
    PROVE  TypeInv' /\ ArchiveInv' /\ NoDownload
  <1>1. PICK p : p = req[r]
    BY Zenon
  <1>2. p \in VerifyCall /\ p.pc = "signatures" /\ VerifyInv(p)
    BY <1>1, CallAt, VerifyFields, Zenon DEF CheckSignature, ArchiveInv
  <1>3. PICK k : k = p.next
    BY Zenon
  <1>4. PICK n : n = Len(p.row.events)
    BY Zenon
  <1>5. k \in 1..n /\ n \in Nat /\ k + 1 \in Nat \ {0} /\ (k + 1) - 1 = k /\ p.item \in Items
    <2>1. p.row.events \in Seq(EventRow) /\ p.item \in Items /\ k \in 1..n
      BY <1>2, <1>3, <1>4, VerifyFields, Zenon DEF VerifyInv
    <2> QED BY <2>1, <1>4
  <1>6. PICK ok : ok = IF k = 1 THEN SenderSignature(p.item, p.row)
                       ELSE verifyEvent(p.item, p.row.events[k])
    BY Zenon
  <1>7. ok \in BOOLEAN
    BY <1>6, Zenon DEF SenderSignature, verifyEvent
  <1>8. PICK pc : pc = IF k = n \/ (k > 1 /\ ~ok) THEN "receipt" ELSE "signatures"
    BY Zenon
  <1>9. PICK q : q = [p EXCEPT !.checks = @ \cup {ok}, !.next = k + 1, !.pc = pc]
    BY Zenon
  <1>10. req' = [req EXCEPT ![r] = q]
    BY <1>1, <1>3, <1>4, <1>6, <1>8, <1>9, Zenon DEF CheckSignature
  <1>11. pc \in {"receipt", "signatures"}
    BY <1>8, Zenon
  <1>12. /\ q \in VerifyCall /\ q.pc = pc /\ q.row = p.row /\ q.item = p.item
         /\ q.checks = p.checks \cup {ok} /\ q.next = k + 1
         /\ q.revoked = p.revoked /\ q.deep = p.deep
    BY <1>2, <1>5, <1>7, <1>9, <1>11, Zenon DEF VerifyCall
  <1>13. ASSUME Verdict(q) PROVE ok /\ Verdict(p)
    <2>1. ok # FALSE /\ Verdict(p)
      BY <1>12, <1>13, Zenon DEF Verdict
    <2> QED BY <2>1, <1>7, NotFalse, Zenon
  <1>14. ASSUME ok PROVE Passed(p, k)
    <2>1. p.revoked \subseteq revoked
      BY <1>2, Zenon DEF VerifyInv
    <2>2. CASE k = 1
      BY <1>6, <1>14, <2>1, <2>2, Zenon DEF SenderSignature, verifyEvent, lookupKeys, Passed
    <2>3. CASE k # 1
      BY <1>6, <1>14, <2>1, <2>3, Zenon DEF verifyEvent, lookupKeys, Passed
    <2> QED BY <2>2, <2>3, Zenon
  <1>15. ASSUME Verdict(q) PROVE \A j \in 1..k : Passed(q, j)
    <2>1. \A j \in 1..(k - 1) : Passed(p, j)
      BY <1>2, <1>3, <1>13, <1>15, Zenon DEF VerifyInv, Established
    <2>2. ASSUME NEW j \in 1..k PROVE j = k \/ j \in 1..(k - 1)
      BY <1>5
    <2>3. \A j \in 1..k : Passed(p, j)
      BY <1>13, <1>14, <1>15, <2>1, <2>2, Zenon
    <2> QED BY <2>3, <1>12, Zenon DEF Passed
  <1>16. pc = "receipt" => k = n \/ ~Verdict(q)
    BY <1>8, <1>13, Zenon
  <1>17. pc = "signatures" => k + 1 \in 1..n
    <2>1. pc = "signatures" => k # n
      BY <1>8, Zenon
    <2> QED BY <2>1, <1>5
  <1>18. Verdict(q) => Established(q)
    <2>1. ASSUME Verdict(q) PROVE ManifestHash(q.row) /\ EventChain(q.row.events)
      BY <2>1, <1>2, <1>12, <1>13, Zenon DEF VerifyInv, Established
    <2> QED BY <2>1, <1>4, <1>5, <1>11, <1>12, <1>15, <1>16, Zenon DEF Established
  <1>19. ASSUME damaged = {} PROVE Unharmed(q)
    <2>1. Unharmed(p) /\ revoked = {}
      BY <1>2, <1>19, Zenon DEF VerifyInv, ArchiveInv
    <2>2. p.row.events = OriginalEvents(p.item) /\ p.row.mhash = Hash("manifest") /\ Verdict(p)
      BY <2>1, <1>2, Zenon DEF Unharmed
    <2>3. n = 3
      BY <1>4, <2>2, Originals, Zenon
    <2>4. verifyEvent(p.item, p.row.events[k])
      <3>1. OriginalFacts(p.item, OriginalEvents(p.item)[k], k,
                          IF k = 1 THEN None ELSE OriginalEvents(p.item)[k - 1].hash)
        BY <1>5, <2>3, OriginalsSigned, Zenon
      <3> QED BY <3>1, <2>1, <2>2, Zenon DEF OriginalFacts, verifyEvent, VerifyHybridWithHash, lookupKeys
    <2>5. CASE k = 1
      <3>1. OriginalEvents(p.item)[1] =
              Event(p.item, 1, "UPLOAD_RECEIVED", "sender", Hash("manifest"), None)
        BY Originals, Zenon
      <3>2. p.row.events[1].typ = "UPLOAD_RECEIVED" /\ p.row.events[1].hash = p.row.mhash
        BY <3>1, <2>2 DEF Event
      <3>3. ok
        BY <3>2, <2>4, <2>5, <1>6, Zenon DEF SenderSignature
      <3> QED BY <3>3, <2>1, <2>2, <1>2, <1>7, <1>12, Zenon DEF Unharmed, Verdict
    <2>6. CASE k # 1
      <3>1. ok
        BY <2>4, <2>6, <1>6, Zenon
      <3> QED BY <3>1, <2>1, <2>2, <1>2, <1>7, <1>12, Zenon DEF Unharmed, Verdict
    <2> QED BY <2>5, <2>6, Zenon
  <1>20. /\ q.revoked \subseteq revoked /\ GenuineRow(q.item, q.row) /\ q.row.events # <<>>
         /\ q.pc # "events" /\ q.pc # "file"
    BY <1>2, <1>11, <1>12, Zenon DEF VerifyInv
  <1>21. VerifyInv(q)
    BY <1>4, <1>12, <1>17, <1>18, <1>19, <1>20, Zenon DEF VerifyInv
  <1> QED BY <1>10, <1>12, <1>21, GoesOn, Zenon DEF CheckSignature

\* Checking the receipt.
LEMMA CheckReceiptStep ==
    ASSUME TypeInv, ArchiveInv, NEW r \in Requests, CheckReceipt(r)
    PROVE  TypeInv' /\ ArchiveInv' /\ NoDownload
  <1>1. PICK p : p = req[r]
    BY Zenon
  <1>2. p \in VerifyCall /\ p.pc = "receipt" /\ VerifyInv(p)
    BY <1>1, CallAt, VerifyFields, Zenon DEF CheckReceipt, ArchiveInv
  <1>3. PICK ok : ok = ReceiptSignature(p.item, p.row)
    BY Zenon
  <1>4. ok \in BOOLEAN
    BY <1>3, Zenon DEF ReceiptSignature
  <1>5. PICK pc : pc = IF p.deep THEN "file" ELSE "verified"
    BY Zenon
  <1>6. PICK q : q = [p EXCEPT !.pc = pc, !.checks = @ \cup {ok}]
    BY Zenon
  <1>7. req' = [req EXCEPT ![r] = q]
    BY <1>1, <1>3, <1>5, <1>6, Zenon DEF CheckReceipt
  <1>8. pc \in {"file", "verified"} /\ (pc = "file" => p.deep) /\ (pc = "verified" => ~p.deep)
    BY <1>5, Zenon
  <1>9. /\ q \in VerifyCall /\ q.pc = pc /\ q.row = p.row /\ q.item = p.item
        /\ q.checks = p.checks \cup {ok} /\ q.revoked = p.revoked /\ q.deep = p.deep
    BY <1>2, <1>4, <1>6, <1>8, Zenon DEF VerifyCall
  <1>10. p.revoked \subseteq revoked /\ GenuineRow(p.item, p.row) /\ p.row.events # <<>>
    BY <1>2, Zenon DEF VerifyInv
  <1>11. ASSUME Verdict(q) PROVE Established(q)
    <2>1. ok # FALSE /\ Verdict(p)
      BY <1>9, <1>11, Zenon DEF Verdict
    <2>2. ok
      BY <2>1, <1>4, NotFalse, Zenon
    <2>3. ReceiptPassed(p)
      BY <2>2, <1>3, <1>10, Zenon DEF ReceiptSignature, lookupKeys, ReceiptPassed
    <2>4. Established(p)
      BY <2>1, <1>2, Zenon DEF VerifyInv
    <2>5. /\ ManifestHash(p.row) /\ EventChain(p.row.events)
          /\ \A j \in 1..Len(p.row.events) : Passed(p, j)
      BY <2>4, <1>2, Zenon DEF Established
    <2>6. \A j \in 1..Len(q.row.events) : Passed(q, j)
      BY <2>5, <1>9, Zenon DEF Passed
    <2>7. ReceiptPassed(q)
      BY <2>3, <1>9, Zenon DEF ReceiptPassed
    <2> QED BY <2>5, <2>6, <2>7, <1>8, <1>9, Zenon DEF Established
  <1>12. ASSUME damaged = {} PROVE Unharmed(q)
    <2>1. Unharmed(p) /\ revoked = {}
      BY <1>2, <1>12, Zenon DEF VerifyInv, ArchiveInv
    <2>2. p.row.receipt = Receipt(p.item, Hash("manifest")) /\ p.row.mhash = Hash("manifest")
      BY <2>1, Zenon DEF Unharmed
    <2>3. /\ p.row.receipt.key = System /\ p.row.receipt.mhash = Hash("manifest")
          /\ p.row.receipt.sig = Sign(System, "ARCHIVE_RECEIPT", p.item, Hash(Hash("manifest")))
      BY <2>2 DEF Receipt
    <2>4. ok
      <3>1. System \notin revoked
        BY <2>1, Zenon
      <3>2. ReceiptSignature(p.item, p.row)
        BY <2>2, <2>3, <3>1, Zenon DEF ReceiptSignature, VerifyHybridWithHash, lookupKeys
      <3> QED BY <3>2, <1>3, Zenon
    <2> QED BY <2>1, <2>4, <1>2, <1>4, <1>9, <1>8, Zenon DEF Unharmed, Verdict
  <1>13. q.pc # "events" /\ q.pc # "signatures" /\ (q.pc = "file" => q.deep)
    BY <1>8, <1>9, Zenon
  <1>14. VerifyInv(q)
    BY <1>9, <1>10, <1>11, <1>12, <1>13, Zenon DEF VerifyInv
  <1> QED BY <1>7, <1>9, <1>14, GoesOn, Zenon DEF CheckReceipt

\* Checking the stored file.
LEMMA CheckFileStep ==
    ASSUME TypeInv, ArchiveInv, NEW r \in Requests, CheckFile(r)
    PROVE  TypeInv' /\ ArchiveInv' /\ NoDownload
  <1>1. PICK p : p = req[r]
    BY Zenon
  <1>2. p \in VerifyCall /\ p.pc = "file" /\ VerifyInv(p) /\ p.item \in Items
    BY <1>1, CallAt, VerifyFields, Zenon DEF CheckFile, ArchiveInv
  <1>3. PICK file : file = item[p.item].file
    BY Zenon
  <1>4. PICK ok : ok = StoredFile(p.row, file)
    BY Zenon
  <1>5. ok \in BOOLEAN
    BY <1>4, Zenon DEF StoredFile
  <1>6. PICK row : row = [p.row EXCEPT !.file = file]
    BY Zenon
  <1>7. PICK q : q = [p EXCEPT !.pc = "verified", !.row = row, !.checks = @ \cup {ok}]
    BY Zenon
  <1>8. req' = [req EXCEPT ![r] = q]
    BY <1>1, <1>3, <1>4, <1>6, <1>7, Zenon DEF CheckFile
  <1>9. GenuineRow(p.item, item[p.item]) /\ GenuineRow(p.item, p.row) /\ p.row.events # <<>>
        /\ p.revoked \subseteq revoked
    BY <1>2, Zenon DEF ArchiveInv, VerifyInv
  <1>10. /\ row \in ItemRow /\ row.events = p.row.events /\ row.manifest = p.row.manifest
         /\ row.mhash = p.row.mhash /\ row.receipt = p.row.receipt /\ row.file = file
    BY <1>3, <1>6, <1>9, Zenon DEF GenuineRow, ItemRow
  <1>11. GenuineRow(p.item, row)
    BY <1>9, <1>10, Zenon DEF GenuineRow
  <1>12. /\ q \in VerifyCall /\ q.pc = "verified" /\ q.row = row /\ q.item = p.item
         /\ q.checks = p.checks \cup {ok} /\ q.revoked = p.revoked /\ q.deep = p.deep
    BY <1>2, <1>5, <1>7, <1>10, Zenon DEF VerifyCall
  <1>13. ASSUME Verdict(q) PROVE Established(q)
    <2>1. ok # FALSE /\ Verdict(p)
      BY <1>12, <1>13, Zenon DEF Verdict
    <2>2. ok
      BY <2>1, <1>5, NotFalse, Zenon
    <2>3. Established(p)
      BY <2>1, <1>2, Zenon DEF VerifyInv
    <2>4. /\ ManifestHash(p.row) /\ EventChain(p.row.events) /\ ReceiptPassed(p)
          /\ \A j \in 1..Len(p.row.events) : Passed(p, j)
      BY <2>3, <1>2, Zenon DEF Established
    <2>5. \A j \in 1..Len(q.row.events) : Passed(q, j)
      BY <2>4, <1>10, <1>12, Zenon DEF Passed
    <2>6. ReceiptPassed(q)
      BY <2>4, <1>10, <1>12, Zenon DEF ReceiptPassed
    <2>7. StoredFile(q.row, q.row.file)
      BY <2>2, <1>4, <1>10, <1>12, Zenon DEF StoredFile
    <2>8. ManifestHash(q.row) /\ EventChain(q.row.events)
      BY <2>4, <1>10, <1>12, Zenon DEF ManifestHash
    <2> QED BY <2>5, <2>6, <2>7, <2>8, <1>12, Zenon DEF Established
  <1>14. ASSUME damaged = {} PROVE Unharmed(q)
    <2>1. Unharmed(p) /\ item[p.item] = Original(p.item)
      BY <1>2, <1>14, Zenon DEF VerifyInv, ArchiveInv
    <2>2. file = "file" /\ p.row.manifest = "manifest"
      BY <2>1, <1>2, <1>3, OriginalRow, Zenon DEF Unharmed
    <2>3. ok
      BY <2>2, <1>4, Zenon DEF StoredFile
    <2> QED BY <2>1, <2>3, <1>2, <1>5, <1>10, <1>12, Zenon DEF Unharmed, Verdict
  <1>15. q.pc # "events" /\ q.pc # "signatures" /\ q.pc # "file"
    BY <1>12, Zenon
  <1>16. VerifyInv(q)
    BY <1>9, <1>10, <1>11, <1>12, <1>13, <1>14, <1>15, Zenon DEF VerifyInv
  <1> QED BY <1>8, <1>12, <1>16, GoesOn, Zenon DEF CheckFile

-----------------------------------------------------------------------------
(* Damage *)

\* Stored rows that are replaced by rows nobody signed anew.
LEMMA DamageStep ==
    ASSUME TypeInv, ArchiveInv, NEW i \in Items, NEW row, GenuineRow(i, row),
           item' = [item EXCEPT ![i] = row], damaged' # {},
           UNCHANGED <<revoked, trailVars, memberVars, req, now, boundVars>>
    PROVE  TypeInv' /\ ArchiveInv'
  <1>1. TypeInv'
    BY Zenon DEF TypeInv, trailVars, memberVars, boundVars
  <1>2. ASSUME NEW j \in Items PROVE GenuineRow(j, item'[j])
    BY Zenon DEF TypeInv, ArchiveInv
  <1>3. ASSUME NEW s \in Requests, req'[s].op = "verify" PROVE VerifyInv(req[s])'
    BY <1>3, Zenon DEF ArchiveInv, VerifyInv
  <1> QED BY <1>1, <1>2, <1>3, Zenon DEF ArchiveInv

\* A row of archive_item.
LEMMA RowStep ==
    ASSUME TypeInv, ArchiveInv, NEW i \in Items, DamageRow(i)
    PROVE  TypeInv' /\ ArchiveInv'
  <1>1. PICK old : old = item[i]
    BY Zenon
  <1>2. GenuineRow(i, old) /\ old \in ItemRow
    BY <1>1, Zenon DEF ArchiveInv, GenuineRow
  <1>3. PICK row : item' = [item EXCEPT ![i] = row] /\ GenuineRow(i, row) /\ damaged' # {}
    <2>1. CASE Damaged(<<i, "manifest">>) /\ item' = [item EXCEPT ![i].manifest = Other]
      <3>1. item' = [item EXCEPT ![i] = [old EXCEPT !.manifest = Other]] /\ damaged' # {}
        BY <1>1, <2>1, Zenon DEF Damaged
      <3>2. GenuineRow(i, [old EXCEPT !.manifest = Other])
        BY <1>2, Zenon DEF GenuineRow, ItemRow
      <3> QED BY <3>1, <3>2, Zenon
    <2>2. CASE Damaged(<<i, "mhash">>) /\ item' = [item EXCEPT ![i].mhash = Hash(Other)]
      <3>1. item' = [item EXCEPT ![i] = [old EXCEPT !.mhash = Hash(Other)]] /\ damaged' # {}
        BY <1>1, <2>2, Zenon DEF Damaged
      <3>2. GenuineRow(i, [old EXCEPT !.mhash = Hash(Other)])
        BY <1>2, Zenon DEF GenuineRow, ItemRow, Hashes
      <3> QED BY <3>1, <3>2, Zenon
    <2>3. CASE Damaged(<<i, "receipt">>) /\ item' = [item EXCEPT ![i].receipt.mhash = Hash(Other)]
      <3>1. PICK t : t = [old.receipt EXCEPT !.mhash = Hash(Other)]
        BY Zenon
      <3>2. item' = [item EXCEPT ![i] = [old EXCEPT !.receipt = t]] /\ damaged' # {}
        BY <1>1, <2>3, <3>1, Zenon DEF Damaged
      <3>3. t \in ReceiptRow /\ t.sig = old.receipt.sig
        BY <1>2, <3>1, Zenon DEF ItemRow, ReceiptRow, Hashes
      <3>4. GenuineRow(i, [old EXCEPT !.receipt = t])
        BY <1>2, <3>3, Zenon DEF GenuineRow, ItemRow
      <3> QED BY <3>2, <3>4, Zenon
    <2>4. CASE Damaged(<<i, "file">>) /\ item' = [item EXCEPT ![i].file = Other]
      <3>1. item' = [item EXCEPT ![i] = [old EXCEPT !.file = Other]] /\ damaged' # {}
        BY <1>1, <2>4, Zenon DEF Damaged
      <3>2. GenuineRow(i, [old EXCEPT !.file = Other])
        BY <1>2, Zenon DEF GenuineRow, ItemRow
      <3> QED BY <3>1, <3>2, Zenon
    <2> QED BY <2>1, <2>2, <2>3, <2>4, Zenon DEF DamageRow
  <1> QED BY <1>3, DamageStep, Zenon DEF DamageRow

\* What is left of a sequence without its k-th element.
LEMMA Without ==
    ASSUME NEW S, NEW s \in Seq(S), NEW k \in 1..Len(s)
    PROVE  LET t == SubSeq(s, 1, k - 1) \o SubSeq(s, k + 1, Len(s))
           IN  t \in Seq(S) /\ \A j \in DOMAIN t : \E m \in DOMAIN s : t[j] = s[m]
  <1> DEFINE a == SubSeq(s, 1, k - 1)
             b == SubSeq(s, k + 1, Len(s))
             n == Len(s)
  <1>1. n \in Nat /\ DOMAIN s = 1..n /\ k \in 1..n
    OBVIOUS
  <1>2. a \in Seq(S) /\ Len(a) = k - 1 /\ \A j \in 1..(k - 1) : a[j] = s[j]
    OBVIOUS
  <1>3. b \in Seq(S) /\ Len(b) = n - k /\ \A j \in 1..(n - k) : b[j] = s[k + j]
    OBVIOUS
  <1> HIDE DEF a, b, n
  <1>4. a \o b \in Seq(S) /\ DOMAIN (a \o b) = 1..(n - 1)
    BY <1>1, <1>2, <1>3
  <1>5. ASSUME NEW j \in 1..(n - 1) PROVE \E m \in DOMAIN s : (a \o b)[j] = s[m]
    <2>1. CASE j < k
      <3>1. (a \o b)[j] = a[j] /\ j \in 1..(k - 1)
        BY <2>1, <1>1, <1>2, <1>3
      <3>2. j \in DOMAIN s
        BY <1>1
      <3> QED BY <3>1, <3>2, <1>2, Zenon
    <2>2. CASE ~(j < k)
      <3>1. (a \o b)[j] = b[j - (k - 1)] /\ j - (k - 1) \in 1..(n - k) /\ k + (j - (k - 1)) = j + 1
        BY <2>2, <1>1, <1>2, <1>3
      <3>2. j + 1 \in DOMAIN s
        BY <1>1
      <3> QED BY <3>1, <3>2, <1>3, Zenon
    <2> QED BY <2>1, <2>2, Zenon
  <1> QED BY <1>4, <1>5, Zenon DEF a, b

\* A row of transaction_event.
LEMMA EventStep ==
    ASSUME TypeInv, ArchiveInv, NEW i \in Items, NEW k \in 1..Len(item[i].events), DamageEvent(i, k)
    PROVE  TypeInv' /\ ArchiveInv'
  <1>1. PICK old : old = item[i]
    BY Zenon
  <1>2. PICK evs : evs = old.events
    BY Zenon
  <1>3. /\ GenuineRow(i, old) /\ old \in ItemRow /\ evs \in Seq(EventRow)
        /\ \A m \in DOMAIN evs : Genuine(i, evs[m])
    BY <1>1, <1>2, Zenon DEF ArchiveInv, GenuineRow, ItemRow
  <1>4. k \in 1..Len(evs) /\ DOMAIN evs = 1..Len(evs) /\ evs[k] \in EventRow
    BY <1>1, <1>2, <1>3
  <1>5. Hash(Other) \in Hashes
    BY Zenon DEF Hashes
  <1>6. ASSUME NEW new \in Seq(EventRow), \A m \in DOMAIN new : Genuine(i, new[m])
        PROVE  GenuineRow(i, [old EXCEPT !.events = new])
    BY <1>3, <1>6, Zenon DEF GenuineRow, ItemRow
  <1>7. ASSUME NEW e \in EventRow, Genuine(i, e)
        PROVE  /\ [evs EXCEPT ![k] = e] \in Seq(EventRow)
               /\ \A m \in DOMAIN [evs EXCEPT ![k] = e] : Genuine(i, [evs EXCEPT ![k] = e][m])
    <2>1. [evs EXCEPT ![k] = e] \in Seq(EventRow)
      BY <1>3, <1>4
    <2> QED BY <2>1, <1>3, <1>4, <1>7, Zenon
  <1>8. PICK row : item' = [item EXCEPT ![i] = row] /\ GenuineRow(i, row) /\ damaged' # {}
    <2>1. CASE Damaged(<<i, "hash">>) /\ item' = [item EXCEPT ![i].events[k].hash = Hash(Other)]
      <3>1. PICK e : e = [evs[k] EXCEPT !.hash = Hash(Other)]
        BY Zenon
      <3>2. e \in EventRow /\ Genuine(i, e)
        BY <1>3, <1>4, <1>5, <3>1, Zenon DEF Genuine, EventRow
      <3>3. item' = [item EXCEPT ![i] = [old EXCEPT !.events = [evs EXCEPT ![k] = e]]] /\ damaged' # {}
        BY <1>1, <1>2, <2>1, <3>1, Zenon DEF Damaged
      <3> QED BY <3>2, <3>3, <1>6, <1>7, Zenon
    <2>2. CASE Damaged(<<i, "prev">>) /\ item' = [item EXCEPT ![i].events[k].prev = Hash(Other)]
      <3>1. PICK e : e = [evs[k] EXCEPT !.prev = Hash(Other)]
        BY Zenon
      <3>2. e \in EventRow /\ Genuine(i, e)
        BY <1>3, <1>4, <1>5, <3>1, Zenon DEF Genuine, EventRow
      <3>3. item' = [item EXCEPT ![i] = [old EXCEPT !.events = [evs EXCEPT ![k] = e]]] /\ damaged' # {}
        BY <1>1, <1>2, <2>2, <3>1, Zenon DEF Damaged
      <3> QED BY <3>2, <3>3, <1>6, <1>7, Zenon
    <2>3. CASE /\ Damaged(<<i, "event">>)
               /\ item' = [item EXCEPT ![i].events = SubSeq(@, 1, k - 1) \o SubSeq(@, k + 1, Len(@))]
      <3>1. PICK new : new = SubSeq(evs, 1, k - 1) \o SubSeq(evs, k + 1, Len(evs))
        BY Zenon
      <3>2. new \in Seq(EventRow) /\ \A j \in DOMAIN new : \E m \in DOMAIN evs : new[j] = evs[m]
        BY <1>3, <1>4, <3>1, Without, Zenon
      <3>3. item' = [item EXCEPT ![i] = [old EXCEPT !.events = new]] /\ damaged' # {}
        BY <1>1, <1>2, <2>3, <3>1, Zenon DEF Damaged
      <3> QED BY <3>2, <3>3, <1>3, <1>6, Zenon
    <2> QED BY <2>1, <2>2, <2>3, Zenon DEF DamageEvent
  <1> QED BY <1>8, DamageStep, Zenon DEF DamageEvent

\* A key is revoked.
LEMMA RevokeStep ==
    ASSUME TypeInv, ArchiveInv, NEW key \in KeyNames, RevokeKey(key)
    PROVE  TypeInv' /\ ArchiveInv'
  <1>1. damaged' # {} /\ revoked' = revoked \cup {key} /\ item' = item /\ req' = req
    BY Zenon DEF RevokeKey, Damaged
  <1>2. TypeInv'
    BY <1>1, Zenon DEF RevokeKey, TypeInv, trailVars, memberVars, boundVars
  <1>3. ASSUME NEW s \in Requests, req'[s].op = "verify" PROVE VerifyInv(req[s])'
    <2>1. VerifyInv(req[s]) /\ req'[s] = req[s]
      BY <1>1, <1>3, Zenon DEF ArchiveInv
    <2> QED BY <2>1, <1>1, Zenon DEF VerifyInv
  <1> QED BY <1>1, <1>2, <1>3, Zenon DEF ArchiveInv

-----------------------------------------------------------------------------
(* The trail and the tickets *)

\* What logAccess does, whether its INSERT fails or not.
LEMMA Logged ==
    ASSUME NEW r, NEW action, logAccess(r, action)
    PROVE  /\ access \subseteq access' /\ faults \subseteq faults'
           /\ Trail(r, action) \in access' \/ <<"log", Trail(r, action)>> \in faults'
  BY Zenon DEF logAccess, Fails

\* A step that neither makes nor takes a ticket, nor copies a file.
LEMMA TrailStep ==
    ASSUME TrailInv, ticket' = ticket, streams' = streams,
           access \subseteq access', faults \subseteq faults',
           \A row \in shown' : row \in shown \/ row \in access' \/ <<"log", row>> \in faults',
           \A s \in Requests :
               \/ req'[s] = req[s]
               \/ req'[s].pc \notin {"open", "log", "copy"}
               \/ /\ \/ req'[s].ticket = 0
                     \/ Downloading(s) /\ req'[s].ticket = req[s].ticket
                  /\ req'[s].pc = "copy" =>
                        \/ Trail(s, "download")' \in access'
                        \/ <<"log", Trail(s, "download")'>> \in faults'
    PROVE  TrailInv'
  <1>1. AccessIsTrailed'
    BY Zenon DEF TrailInv, AccessIsTrailed
  <1>2. ASSUME NEW s \in Requests, req'[s].pc = "copy"
        PROVE  \/ Trail(s, "download")' \in access'
               \/ <<"log", Trail(s, "download")'>> \in faults'
    <2>1. CASE req'[s] = req[s]
      <3>1. Trail(s, "download")' = Trail(s, "download")
        BY <2>1, Zenon DEF Trail
      <3>2. req[s].pc = "copy"
        BY <1>2, <2>1, Zenon
      <3> QED BY <3>1, <3>2, Zenon DEF TrailInv
    <2>2. CASE req'[s] # req[s]
      BY <1>2, <2>2, Zenon
    <2> QED BY <2>1, <2>2, Zenon
  <1>3. ASSUME NEW s \in Requests, Downloading(s)', req'[s].ticket # 0
        PROVE  Downloading(s) /\ req'[s].ticket = req[s].ticket
    BY <1>3, Zenon DEF Downloading
  <1>4. \A s \in Requests : Downloading(s)' /\ req'[s].ticket # 0 =>
          /\ req'[s].ticket \in 1..Len(ticket')
          /\ ticket'[req'[s].ticket].used
          /\ streams'[req'[s].ticket] = 0
    BY <1>3, Zenon DEF TrailInv
  <1>5. \A t \in 1..Len(ticket') : t # 0
    OBVIOUS
  <1>6. ASSUME NEW r \in Requests, NEW s \in Requests, NEW t \in 1..Len(ticket'),
               Redeems(r, t)', Redeems(s, t)'
        PROVE  r = s
    <2>1. Redeems(r, t) /\ Redeems(s, t)
      BY <1>3, <1>5, <1>6, Zenon DEF Redeems
    <2> QED BY <2>1, Zenon DEF TrailInv
  <1>7. \A t \in 1..Len(ticket') : ~ ticket'[t].used => streams'[t] = 0
    BY Zenon DEF TrailInv
  <1> QED BY <1>1, <1>2, <1>4, <1>6, <1>7, Zenon DEF TrailInv

\* A step that has nothing to do with downloads.
LEMMA TrailFrame ==
    ASSUME TrailInv, NoDownload, UNCHANGED <<trailVars, faults>>
    PROVE  TrailInv'
  <1>1. ticket' = ticket /\ streams' = streams /\ access' = access /\ shown' = shown /\ faults' = faults
    BY Zenon DEF trailVars
  <1> QED BY <1>1, TrailStep, Zenon DEF NoDownload

\* A request of another handler begins, goes on or ends.
LEMMA CallStep ==
    ASSUME TypeInv, ArchiveInv, MemberHasOneOffice, NEW r \in Requests, NEW X \in Call,
           X.op # "verify", req' = [req EXCEPT ![r] = X], begun' \in Nat,
           UNCHANGED <<archiveVars, ticket, streams, memberVars, now>>
    PROVE  TypeInv' /\ ArchiveInv' /\ MemberHasOneOffice'
  <1>1. req' \in [Requests -> Call]
    BY OneStep, Zenon
  <1>2. TypeInv'
    BY <1>1, Zenon DEF TypeInv, archiveVars, memberVars
  <1>3. \A s \in Requests : req'[s] = req[s] \/ req'[s].op # "verify"
    BY OneStep, Zenon
  <1>4. ArchiveInv'
    BY <1>3, ArchiveFrame, Zenon
  <1> QED BY <1>2, <1>4, Zenon DEF MemberHasOneOffice, memberVars

\* A request that ends.
LEMMA Ends ==
    ASSUME TypeInv, ArchiveInv, MemberHasOneOffice, NEW r \in Requests, Close(r), begun' \in Nat,
           UNCHANGED <<archiveVars, ticket, streams, memberVars, now>>
    PROVE  TypeInv' /\ ArchiveInv' /\ MemberHasOneOffice' /\ NoDownload
  <1>1. Idle.op # "verify" /\ Idle.pc \notin {"open", "log", "copy"}
    BY DEF Idle
  <1>2. req' = [req EXCEPT ![r] = Idle] /\ Idle \in Call
    BY Zenon DEF Close, Call
  <1>3. NoDownload
    BY <1>1, <1>2, OneStep, Zenon DEF NoDownload
  <1> QED BY <1>1, <1>2, <1>3, CallStep, Zenon

\* The answer to a verification.
LEMMA AnswerVerifyStep ==
    ASSUME ConsoleInv, NEW r \in Requests, AnswerVerify(r)
    PROVE  ConsoleInv'
  <1>1. begun' \in Nat
    BY Zenon DEF ConsoleInv, TypeInv, AnswerVerify
  <1>2. TypeInv' /\ ArchiveInv' /\ MemberHasOneOffice' /\ NoDownload
    BY <1>1, Ends, Zenon DEF ConsoleInv, AnswerVerify
  <1>3. /\ access \subseteq access' /\ faults \subseteq faults'
        /\ \A row \in shown' : row \in shown \/ row \in access' \/ <<"log", row>> \in faults'
    <2>1. CASE req[r].admin = None
      BY <2>1, Zenon DEF AnswerVerify
    <2>2. CASE req[r].admin # None
      <3>1. logAccess(r, "verify") /\ shown' = shown \cup {Trail(r, "verify")}
        BY <2>2, Zenon DEF AnswerVerify, Show
      <3> QED BY <3>1, Logged, Zenon
    <2> QED BY <2>1, <2>2, Zenon
  <1>4. TrailInv'
    BY <1>2, <1>3, TrailStep, Zenon DEF ConsoleInv, AnswerVerify, NoDownload
  <1> QED BY <1>2, <1>4, Zenon DEF ConsoleInv

\* The answer to a view.
LEMMA AnswerDetailStep ==
    ASSUME ConsoleInv, NEW r \in Requests, AnswerDetail(r)
    PROVE  ConsoleInv'
  <1>1. begun' \in Nat
    BY Zenon DEF ConsoleInv, TypeInv, AnswerDetail
  <1>2. TypeInv' /\ ArchiveInv' /\ MemberHasOneOffice' /\ NoDownload
    BY <1>1, Ends, Zenon DEF ConsoleInv, AnswerDetail
  <1>3. /\ access \subseteq access' /\ faults \subseteq faults'
        /\ \A row \in shown' : row \in shown \/ row \in access' \/ <<"log", row>> \in faults'
    BY Logged, Zenon DEF AnswerDetail, Show
  <1>4. TrailInv'
    BY <1>2, <1>3, TrailStep, Zenon DEF ConsoleInv, AnswerDetail, NoDownload
  <1> QED BY <1>2, <1>4, Zenon DEF ConsoleInv

\* A view or a download begins.
LEMMA AccessBegins ==
    ASSUME ConsoleInv, NEW r \in Requests, NEW i \in Items, NEW admin \in Admins,
           archiveDetail(r, i, admin) \/ archiveDownload(r, i, admin)
    PROVE  ConsoleInv'
  <1>1. begun \in Nat /\ begun' \in Nat /\ 0 \in Nat
    BY DEF ConsoleInv, TypeInv, archiveDetail, archiveDownload, Begin
  <1>2. PICK q \in Call :
            /\ req' = [req EXCEPT ![r] = q] /\ q.op # "verify"
            /\ q.pc \notin {"open", "log", "copy"} \/ (q.ticket = 0 /\ q.pc # "copy")
    <2>1. CASE archiveDetail(r, i, admin)
      <3>1. PICK q : q = [op |-> "detail", pc |-> "view", item |-> i, admin |-> admin, by |-> begun]
        BY Zenon
      <3>2. q \in DetailCall /\ q.op # "verify" /\ q.pc \notin {"open", "log", "copy"}
        BY <3>1, <1>1 DEF DetailCall
      <3>3. req' = [req EXCEPT ![r] = q]
        BY <2>1, <3>1, Zenon DEF archiveDetail, Begin
      <3>4. q \in Call
        BY <3>2, Zenon DEF Call
      <3> QED BY <3>2, <3>3, <3>4, Zenon
    <2>2. CASE archiveDownload(r, i, admin)
      <3>1. PICK q : q = [op |-> "download", pc |-> "open", item |-> i, admin |-> admin,
                          by |-> begun, ticket |-> 0]
        BY Zenon
      <3>2. q \in DownloadCall /\ q.op # "verify" /\ q.ticket = 0 /\ q.pc # "copy"
        BY <3>1, <1>1 DEF DownloadCall
      <3>3. req' = [req EXCEPT ![r] = q]
        BY <2>2, <3>1, Zenon DEF archiveDownload, Begin
      <3>4. q \in Call
        BY <3>2, Zenon DEF Call
      <3> QED BY <3>2, <3>3, <3>4, Zenon
    <2> QED BY <2>1, <2>2, Zenon
  <1>3. UNCHANGED <<archiveVars, trailVars, memberVars, now, faults>>
    BY Zenon DEF archiveDetail, archiveDownload
  <1>4. ticket' = ticket /\ streams' = streams /\ access' = access /\ shown' = shown /\ faults' = faults
    BY <1>3, Zenon DEF trailVars
  <1>5. TypeInv' /\ ArchiveInv' /\ MemberHasOneOffice'
    BY <1>1, <1>2, <1>3, <1>4, CallStep, Zenon DEF ConsoleInv
  <1>6. \A s \in Requests :
            \/ req'[s] = req[s]
            \/ req'[s].pc \notin {"open", "log", "copy"}
            \/ req'[s].ticket = 0 /\ req'[s].pc # "copy"
    BY <1>2, OneStep, Zenon DEF ConsoleInv
  <1>7. TrailInv'
    BY <1>4, <1>6, TrailStep, Zenon DEF ConsoleInv
  <1> QED BY <1>5, <1>7, Zenon DEF ConsoleInv

\* A download that goes on.
LEMMA StreamStep ==
    ASSUME ConsoleInv, NEW r \in Requests, StreamOpen(r) \/ StreamLog(r)
    PROVE  ConsoleInv'
  <1>1. PICK p : p = req[r]
    BY Zenon
  <1>2. p \in DownloadCall /\ p.pc \in {"open", "log"} /\ begun' \in Nat
    <2>1. begun' \in Nat
      BY Zenon DEF ConsoleInv, TypeInv, StreamOpen, StreamLog
    <2>2. p.pc = "open" \/ p.pc = "log"
      BY <1>1, Zenon DEF StreamOpen, StreamLog
    <2> QED BY <1>1, <2>1, <2>2, CallAt, Zenon DEF ConsoleInv
  <1>3. Downloading(r)
    BY <1>1, <1>2, Zenon DEF Downloading
  <1>4. UNCHANGED <<archiveVars, ticket, streams, shown, memberVars, now>>
    BY Zenon DEF StreamOpen, StreamLog, trailVars
  <1>5. CASE Close(r)
    <2>1. TypeInv' /\ ArchiveInv' /\ MemberHasOneOffice' /\ NoDownload
      BY <1>2, <1>4, <1>5, Ends, Zenon DEF ConsoleInv
    <2>2. access \subseteq access' /\ faults \subseteq faults'
      BY Logged, Zenon DEF StreamOpen, StreamLog, trailVars, Fails
    <2>3. TrailInv'
      BY <2>1, <2>2, <1>4, TrailStep, Zenon DEF ConsoleInv, NoDownload
    <2> QED BY <2>1, <2>3, Zenon DEF ConsoleInv
  <1>6. ASSUME NEW pc \in {"log", "copy"}, Goto(r, pc),
               access \subseteq access', faults \subseteq faults',
               pc = "copy" => \/ Trail(r, "download") \in access'
                              \/ <<"log", Trail(r, "download")>> \in faults'
        PROVE  ConsoleInv'
    <2>1. PICK q : q = [p EXCEPT !.pc = pc]
      BY Zenon
    <2>2. req' = [req EXCEPT ![r] = q]
      BY <1>1, <1>6, <2>1, Zenon DEF Goto
    <2>3. /\ q \in DownloadCall /\ q.pc = pc /\ q.ticket = p.ticket /\ q.item = p.item
          /\ q.admin = p.admin /\ q.by = p.by
      BY <1>2, <1>6, <2>1, Zenon DEF DownloadCall
    <2>4. q \in Call /\ q.op # "verify"
      BY <2>3, Zenon DEF Call, DownloadCall
    <2>5. TypeInv' /\ ArchiveInv' /\ MemberHasOneOffice'
      BY <1>2, <1>4, <2>2, <2>4, CallStep, Zenon DEF ConsoleInv
    <2>6. req'[r] = q /\ \A s \in Requests : s # r => req'[s] = req[s]
      BY <2>2, OneStep, Zenon DEF ConsoleInv
    <2>7. Trail(r, "download")' = Trail(r, "download")
      BY <1>1, <2>3, <2>6, Zenon DEF Trail
    <2>8. TrailInv'
      BY <1>1, <1>3, <1>4, <1>6, <2>3, <2>6, <2>7, TrailStep, Zenon DEF ConsoleInv
    <2> QED BY <2>5, <2>8, Zenon DEF ConsoleInv
  <1>7. CASE StreamOpen(r) /\ Goto(r, "log")
    <2>1. CASE faults' = faults
      <3>1. access' = access /\ "log" # "copy"
        BY <1>7 DEF StreamOpen, trailVars
      <3> QED BY <1>6, <1>7, <2>1, <3>1, Zenon
    <2>2. CASE faults' # faults
      BY <1>5, <1>7, <2>2, Zenon DEF StreamOpen
    <2> QED BY <2>1, <2>2, Zenon
  <1>8. CASE StreamLog(r)
    BY <1>6, <1>8, Logged, Zenon DEF StreamLog
  <1> QED BY <1>5, <1>7, <1>8, Zenon DEF StreamOpen

\* A sequence and one element more.
LEMMA Longer ==
    ASSUME NEW S, NEW s \in Seq(S), NEW x \in S
    PROVE  /\ Append(s, x) \in Seq(S) /\ Len(Append(s, x)) = Len(s) + 1 /\ Len(s) \in Nat
           /\ \A t \in 1..Len(s) : Append(s, x)[t] = s[t]
           /\ Append(s, x)[Len(s) + 1] = x
  OBVIOUS

\* A ticket is made.
LEMMA TicketStep ==
    ASSUME ConsoleInv, ConsoleAssumption, NEW r \in Requests, NEW i \in Items, NEW admin \in Admins,
           archiveTicket(r, i, admin)
    PROVE  ConsoleInv'
  <1>1. PICK x : x = [item |-> i, admin |-> admin, expires |-> now + TicketTTL, used |-> FALSE]
    BY Zenon
  <1>2. ticket' = Append(ticket, x) /\ streams' = Append(streams, 0)
    BY <1>1, Zenon DEF archiveTicket
  <1>3. now + TicketTTL \in Nat /\ begun' \in Nat /\ 0 \in Nat
    BY DEF ConsoleInv, TypeInv, ConsoleAssumption, archiveTicket
  <1>4. x \in TicketRow
    BY <1>1, <1>3, Zenon DEF TicketRow
  <1>5. ticket \in Seq(TicketRow) /\ streams \in Seq(Nat) /\ Len(streams) = Len(ticket)
    BY Zenon DEF ConsoleInv, TypeInv
  <1>6. PICK n : n = Len(ticket)
    BY Zenon
  <1>7. /\ ticket' \in Seq(TicketRow) /\ Len(ticket') = n + 1 /\ n \in Nat
        /\ \A t \in 1..n : ticket'[t] = ticket[t]
    BY ONLY <1>2, <1>4, <1>5, <1>6, Longer
  <1>8. /\ streams' \in Seq(Nat) /\ Len(streams') = n + 1 /\ streams'[n + 1] = 0
        /\ \A t \in 1..n : streams'[t] = streams[t]
    BY ONLY <1>2, <1>3, <1>5, <1>6, Longer
  <1>9. UNCHANGED <<archiveVars, access, shown, memberVars, req, now, faults>>
    BY Zenon DEF archiveTicket
  <1>10. TypeInv'
    BY <1>3, <1>7, <1>8, <1>9, Zenon DEF ConsoleInv, TypeInv, archiveVars, memberVars
  <1>11. ArchiveInv' /\ MemberHasOneOffice'
    BY <1>9, ArchiveFrame, Zenon DEF ConsoleInv, MemberHasOneOffice, memberVars
  <1>12. \A t \in 1..(n + 1) : t \in 1..n \/ t = n + 1
    BY <1>7
  <1>13. DOMAIN streams' = 1..(n + 1) /\ DOMAIN streams = 1..n /\ 0 <= 1
    BY <1>5, <1>6, <1>8
  <1>14. AccessIsTrailed'
    BY <1>8, <1>9, <1>12, <1>13, Zenon DEF ConsoleInv, TrailInv, AccessIsTrailed
  <1>15. \A s \in Requests : req[s].pc = "copy" =>
            Trail(s, "download")' \in access' \/ <<"log", Trail(s, "download")'>> \in faults'
    BY <1>9, Zenon DEF ConsoleInv, TrailInv, Trail
  <1>16. \A t \in 1..Len(ticket') : ~ ticket'[t].used => streams'[t] = 0
    BY <1>6, <1>7, <1>8, <1>12, Zenon DEF ConsoleInv, TrailInv
  <1>17. ASSUME NEW s \in Requests, Downloading(s)', req'[s].ticket # 0
         PROVE  /\ req'[s].ticket \in 1..n
                /\ req'[s].ticket \in 1..Len(ticket')
                /\ ticket'[req'[s].ticket].used
                /\ streams'[req'[s].ticket] = 0
    <2>1. Downloading(s) /\ req[s].ticket # 0 /\ req'[s].ticket = req[s].ticket
      BY <1>9, <1>17, Zenon DEF Downloading
    <2>2. req[s].ticket \in 1..n /\ ticket[req[s].ticket].used /\ streams[req[s].ticket] = 0
      BY <2>1, <1>6, Zenon DEF ConsoleInv, TrailInv
    <2>3. req[s].ticket \in 1..(n + 1)
      BY <2>2, <1>7
    <2> QED BY <2>1, <2>2, <2>3, <1>7, <1>8, Zenon
  <1>18. \A t \in 1..(n + 1) : t # 0
    BY <1>7
  <1>19. ASSUME NEW s \in Requests, NEW u \in Requests, NEW t \in 1..Len(ticket'),
                Redeems(s, t)', Redeems(u, t)'
         PROVE  s = u
    <2>1. Redeems(s, t) /\ Redeems(u, t) /\ t \in 1..Len(ticket)
      BY <1>6, <1>7, <1>9, <1>17, <1>18, <1>19, Zenon DEF Redeems, Downloading
    <2> QED BY <2>1, Zenon DEF ConsoleInv, TrailInv
  <1>20. TrailInv'
    BY <1>9, <1>14, <1>15, <1>16, <1>17, <1>19, Zenon DEF TrailInv
  <1> QED BY <1>10, <1>11, <1>20, Zenon DEF ConsoleInv

\* A ticket is taken.
LEMMA RedeemStep ==
    ASSUME ConsoleInv, NEW r \in Requests, NEW t \in 1..Len(ticket), publicDownload(r, t)
    PROVE  ConsoleInv'
  <1>1. PICK q : q = [op |-> "redeem", pc |-> "open", item |-> ticket[t].item,
                      admin |-> ticket[t].admin, by |-> begun, ticket |-> t]
    BY Zenon
  <1>2. req' = [req EXCEPT ![r] = q] /\ ~ ticket[t].used
    BY <1>1, Zenon DEF publicDownload, Begin, Redeemable
  <1>3. PICK x : x = [ticket[t] EXCEPT !.used = TRUE]
    BY Zenon
  <1>4. ticket' = [ticket EXCEPT ![t] = x]
    BY <1>3, Zenon DEF publicDownload
  <1>5. ticket \in Seq(TicketRow) /\ streams \in Seq(Nat) /\ Len(streams) = Len(ticket)
    BY Zenon DEF ConsoleInv, TypeInv
  <1>6. /\ ticket[t] \in TicketRow /\ DOMAIN ticket = 1..Len(ticket) /\ t \in Nat
        /\ begun \in Nat /\ begun' \in Nat
    <2>1. begun \in Nat /\ begun' \in Nat
      BY DEF ConsoleInv, TypeInv, publicDownload, Begin
    <2> QED BY <2>1, <1>5
  <1>7. x \in TicketRow /\ x.used
    BY <1>3, <1>6, Zenon DEF TicketRow
  <1>8. ticket' \in Seq(TicketRow) /\ Len(ticket') = Len(ticket)
    BY <1>4, <1>5, <1>7
  <1>9. ticket'[t] = x /\ \A u \in 1..Len(ticket) : u # t => ticket'[u] = ticket[u]
    BY <1>4, <1>6, Zenon
  <1>10. q \in DownloadCall /\ q.pc = "open" /\ q.ticket = t /\ q.op = "redeem"
    <2>1. ticket[t].item \in Items /\ ticket[t].admin \in Admins
      BY <1>6, Zenon DEF TicketRow
    <2> QED BY <1>1, <1>6, <2>1, Zenon DEF DownloadCall
  <1>11. q \in Call /\ q.op # "verify" /\ q.pc # "copy"
    BY <1>10 DEF Call
  <1>12. req'[r] = q /\ \A s \in Requests : s # r => req'[s] = req[s]
    BY <1>2, OneStep, Zenon DEF ConsoleInv
  <1>13. UNCHANGED <<archiveVars, access, shown, streams, memberVars, now, faults>>
    BY Zenon DEF publicDownload
  <1>14. TypeInv'
    <2>1. req' \in [Requests -> Call]
      BY <1>2, <1>11, OneStep, Zenon DEF ConsoleInv
    <2> QED BY <2>1, <1>6, <1>8, <1>13, Zenon DEF ConsoleInv, TypeInv, archiveVars, memberVars
  <1>15. ArchiveInv' /\ MemberHasOneOffice'
    <2>1. \A s \in Requests : req'[s] = req[s] \/ req'[s].op # "verify"
      BY <1>11, <1>12, Zenon
    <2> QED BY <2>1, <1>13, ArchiveFrame, Zenon DEF ConsoleInv, MemberHasOneOffice, memberVars
  <1>16. AccessIsTrailed'
    BY <1>13, Zenon DEF ConsoleInv, TrailInv, AccessIsTrailed
  <1>17. ASSUME NEW s \in Requests, req'[s].pc = "copy"
         PROVE  Trail(s, "download")' \in access' \/ <<"log", Trail(s, "download")'>> \in faults'
    <2>1. req'[s] = req[s]
      BY <1>11, <1>12, <1>17, Zenon
    <2>2. Trail(s, "download")' = Trail(s, "download") /\ req[s].pc = "copy"
      BY <2>1, <1>17, Zenon DEF Trail
    <2> QED BY <2>2, <1>13, Zenon DEF ConsoleInv, TrailInv
  <1>18. \A u \in 1..Len(ticket') : ~ ticket'[u].used => streams'[u] = 0
    BY <1>7, <1>8, <1>9, <1>13, Zenon DEF ConsoleInv, TrailInv
  <1>19. streams'[t] = 0
    BY <1>2, <1>13, Zenon DEF ConsoleInv, TrailInv
  <1>20. ASSUME NEW s \in Requests, s # r, Downloading(s)', req'[s].ticket # 0
         PROVE  /\ req'[s].ticket \in 1..Len(ticket) /\ req'[s].ticket # t
                /\ ticket'[req'[s].ticket].used /\ streams'[req'[s].ticket] = 0
                /\ Downloading(s) /\ req'[s].ticket = req[s].ticket
    <2>1. Downloading(s) /\ req'[s].ticket = req[s].ticket /\ req[s].ticket # 0
      BY <1>12, <1>20, Zenon DEF Downloading
    <2>2. /\ req[s].ticket \in 1..Len(ticket) /\ ticket[req[s].ticket].used
          /\ streams[req[s].ticket] = 0
      BY <2>1, Zenon DEF ConsoleInv, TrailInv
    <2> QED BY <2>1, <2>2, <1>2, <1>9, <1>13, Zenon
  <1>21. \A s \in Requests : Downloading(s)' /\ req'[s].ticket # 0 =>
            /\ req'[s].ticket \in 1..Len(ticket')
            /\ ticket'[req'[s].ticket].used
            /\ streams'[req'[s].ticket] = 0
    BY <1>7, <1>8, <1>9, <1>10, <1>12, <1>19, <1>20, Zenon
  <1>22. \A u \in 1..Len(ticket) : u # 0
    OBVIOUS
  <1>23. ASSUME NEW s \in Requests, NEW v \in Requests, NEW u \in 1..Len(ticket'),
                Redeems(s, u)', Redeems(v, u)'
         PROVE  s = v
    <2>1. u # 0 /\ u \in 1..Len(ticket) /\ req'[s].ticket = u /\ req'[v].ticket = u
      BY <1>8, <1>22, <1>23, Zenon DEF Redeems
    <2>2. CASE s # r /\ v # r
      <3>1. Redeems(s, u) /\ Redeems(v, u)
        BY <2>1, <2>2, <1>20, <1>23, Zenon DEF Redeems
      <3> QED BY <3>1, <2>1, Zenon DEF ConsoleInv, TrailInv
    <2>3. CASE s = r \/ v = r
      <3>1. u = t
        BY <2>1, <2>3, <1>10, <1>12, Zenon
      <3> QED BY <3>1, <2>1, <2>3, <1>20, <1>23, Zenon DEF Redeems
    <2> QED BY <2>2, <2>3, Zenon
  <1>24. TrailInv'
    BY <1>16, <1>17, <1>18, <1>21, <1>23, Zenon DEF TrailInv
  <1> QED BY <1>14, <1>15, <1>24, Zenon DEF ConsoleInv

\* The file is sent.
LEMMA CopyStep ==
    ASSUME ConsoleInv, NEW r \in Requests, StreamCopy(r)
    PROVE  ConsoleInv'
  <1>1. req[r].pc = "copy" /\ req[r] \in DownloadCall /\ Downloading(r)
    BY CallAt, Zenon DEF StreamCopy, ConsoleInv, Downloading
  <1>2. PICK t : t = req[r].ticket
    BY Zenon
  <1>3. req' = [req EXCEPT ![r] = Idle]
    BY Zenon DEF StreamCopy, Close
  <1>4. Idle.op # "verify" /\ Idle.pc \notin {"open", "log", "copy"} /\ Idle \in Call
    BY DEF Idle, Call
  <1>5. \A s \in Requests : s # r => req'[s] = req[s]
    BY <1>3, OneStep, Zenon DEF ConsoleInv
  <1>6. req'[r] = Idle /\ req' \in [Requests -> Call]
    BY <1>3, <1>4, OneStep, Zenon DEF ConsoleInv
  <1>7. ticket \in Seq(TicketRow) /\ streams \in Seq(Nat) /\ Len(streams) = Len(ticket)
    BY Zenon DEF ConsoleInv, TypeInv
  <1>8. UNCHANGED <<archiveVars, ticket, access, memberVars, now, boundVars>>
    BY Zenon DEF StreamCopy
  <1>9. /\ streams' \in Seq(Nat) /\ Len(streams') = Len(ticket)
        /\ \A u \in 1..Len(ticket) : streams'[u] <= 1
        /\ \A u \in 1..Len(ticket) : ~ ticket[u].used => streams'[u] = 0
        /\ \A u \in 1..Len(ticket) : u # t => streams'[u] = streams[u]
    <2>1. \A u \in 1..Len(ticket) : streams[u] <= 1 /\ (~ ticket[u].used => streams[u] = 0)
      <3>1. DOMAIN streams = 1..Len(ticket)
        BY <1>7
      <3> QED BY <3>1, Zenon DEF ConsoleInv, TrailInv, AccessIsTrailed
    <2>2. CASE t = 0
      <3>1. streams' = streams
        BY <1>2, <2>2, Zenon DEF StreamCopy
      <3> QED BY <3>1, <2>1, <1>7, Zenon
    <2>3. CASE t # 0
      <3>1. t \in 1..Len(ticket) /\ ticket[t].used /\ streams[t] = 0
        BY <1>1, <1>2, <2>3, Zenon DEF ConsoleInv, TrailInv
      <3>2. streams' = [streams EXCEPT ![t] = @ + 1]
        BY <1>2, <2>3, Zenon DEF StreamCopy
      <3>3. /\ streams' \in Seq(Nat) /\ Len(streams') = Len(ticket) /\ streams'[t] <= 1
            /\ \A u \in 1..Len(ticket) : u # t => streams'[u] = streams[u]
        BY <3>1, <3>2, <1>7
      <3> QED BY <3>1, <3>3, <2>1, Zenon
    <2> QED BY <2>2, <2>3, Zenon
  <1>10. TypeInv'
    BY <1>6, <1>8, <1>9, Zenon DEF ConsoleInv, TypeInv, archiveVars, memberVars, boundVars
  <1>11. ArchiveInv' /\ MemberHasOneOffice'
    <2>1. \A s \in Requests : req'[s] = req[s] \/ req'[s].op # "verify"
      BY <1>4, <1>5, <1>6, Zenon
    <2> QED BY <2>1, <1>8, ArchiveFrame, Zenon DEF ConsoleInv, MemberHasOneOffice, memberVars
  <1>12. AccessIsTrailed'
    <2>1. DOMAIN streams' = 1..Len(ticket)
      BY <1>9
    <2>2. shown' = shown \cup {Trail(r, "download")} /\ faults' = faults
      BY Zenon DEF StreamCopy, Show, boundVars
    <2>3. Trail(r, "download") \in access \/ <<"log", Trail(r, "download")>> \in faults
      BY <1>1, Zenon DEF ConsoleInv, TrailInv
    <2> QED BY <2>1, <2>2, <2>3, <1>8, <1>9, Zenon DEF ConsoleInv, TrailInv, AccessIsTrailed
  <1>13. ASSUME NEW s \in Requests, req'[s].pc \in {"open", "log", "copy"}
         PROVE  s # r /\ req'[s] = req[s] /\ Downloading(s)
    BY <1>4, <1>5, <1>6, <1>13, Zenon DEF Downloading
  <1>14. ASSUME NEW s \in Requests, req'[s].pc = "copy"
         PROVE  Trail(s, "download")' \in access' \/ <<"log", Trail(s, "download")'>> \in faults'
    <2>1. req'[s] = req[s]
      BY <1>13, <1>14, Zenon
    <2>2. Trail(s, "download")' = Trail(s, "download") /\ req[s].pc = "copy"
      BY <2>1, <1>14, Zenon DEF Trail
    <2> QED BY <2>2, <1>8, Zenon DEF ConsoleInv, TrailInv, boundVars
  <1>15. ASSUME NEW s \in Requests, Downloading(s)', req'[s].ticket # 0
         PROVE  /\ req'[s].ticket \in 1..Len(ticket') /\ ticket'[req'[s].ticket].used
                /\ streams'[req'[s].ticket] = 0
    <2>1. s # r /\ req'[s] = req[s] /\ Downloading(s)
      BY <1>13, <1>15, Zenon DEF Downloading
    <2>2. PICK u : u = req[s].ticket
      BY Zenon
    <2>3. u \in 1..Len(ticket) /\ ticket[u].used /\ streams[u] = 0
      BY <2>1, <2>2, <1>15, Zenon DEF ConsoleInv, TrailInv
    <2>4. u # t
      <3>1. Redeems(s, u) /\ (u = t => Redeems(r, u))
        BY <2>1, <2>2, <1>1, <1>2, Zenon DEF Redeems
      <3> QED BY <3>1, <2>1, <2>3, Zenon DEF ConsoleInv, TrailInv
    <2> QED BY <2>1, <2>2, <2>3, <2>4, <1>8, <1>9, Zenon
  <1>16. ASSUME NEW s \in Requests, NEW v \in Requests, NEW u \in 1..Len(ticket'),
                Redeems(s, u)', Redeems(v, u)'
         PROVE  s = v
    <2>1. Redeems(s, u) /\ Redeems(v, u)
      BY <1>13, <1>16, Zenon DEF Redeems, Downloading
    <2> QED BY <2>1, <1>8, Zenon DEF ConsoleInv, TrailInv
  <1>17. \A u \in 1..Len(ticket') : ~ ticket'[u].used => streams'[u] = 0
    BY <1>8, <1>9, Zenon
  <1>18. TrailInv'
    BY <1>12, <1>14, <1>15, <1>16, <1>17, Zenon DEF TrailInv
  <1> QED BY <1>10, <1>11, <1>18, Zenon DEF ConsoleInv

-----------------------------------------------------------------------------
(* Offices and members *)

\* A step of the offices that leaves the requests alone.
LEMMA MemberFrame ==
    ASSUME ConsoleInv, UNCHANGED <<archiveVars, trailVars, req, now, faults>>, begun' \in Nat,
           office' \subseteq Offices,
           identity' \in [Accounts -> Offices \cup {DefaultOffice, None}],
           member' \in [Accounts -> Offices \cup {None}], MemberHasOneOffice'
    PROVE  ConsoleInv'
  <1>1. TypeInv'
    BY Zenon DEF ConsoleInv, TypeInv, archiveVars, trailVars
  <1>2. ArchiveInv'
    BY ArchiveFrame, Zenon DEF ConsoleInv
  <1>3. NoDownload
    BY Zenon DEF NoDownload
  <1>4. TrailInv'
    BY <1>3, TrailFrame, Zenon DEF ConsoleInv
  <1> QED BY <1>1, <1>2, <1>4, Zenon DEF ConsoleInv

\* An office is made, an identity provisioned, a member removed.
LEMMA OfficeSteps ==
    ASSUME ConsoleInv,
           \/ \E o \in Offices : archiveCreateOffice(o)
           \/ \E a \in Accounts : officeAuth(a) \/ RemoveMember(a)
    PROVE  ConsoleInv'
  <1>1. /\ begun \in Nat /\ office \subseteq Offices
        /\ identity \in [Accounts -> Offices \cup {DefaultOffice, None}]
        /\ member \in [Accounts -> Offices \cup {None}]
    BY Zenon DEF ConsoleInv, TypeInv
  <1>2. MemberHasOneOffice
    BY Zenon DEF ConsoleInv
  <1>3. ASSUME NEW o \in Offices, archiveCreateOffice(o) PROVE ConsoleInv'
    <2>1. begun' \in Nat
      BY <1>1, <1>3 DEF archiveCreateOffice
    <2>2. /\ office' = office \cup {o} /\ identity' = identity /\ member' = member
          /\ UNCHANGED <<archiveVars, trailVars, req, now, faults>>
      BY <1>3, Zenon DEF archiveCreateOffice
    <2>3. office' \subseteq Offices /\ MemberHasOneOffice'
      BY <1>1, <1>2, <2>2, Zenon DEF MemberHasOneOffice
    <2> QED BY <1>1, <2>1, <2>2, <2>3, MemberFrame, Zenon
  <1>4. ASSUME NEW a \in Accounts, officeAuth(a) PROVE ConsoleInv'
    <2>1. /\ identity[a] = None /\ identity' = [identity EXCEPT ![a] = DefaultOffice]
          /\ office' = office /\ member' = member /\ begun' = begun
          /\ UNCHANGED <<archiveVars, trailVars, req, now, faults>>
      BY <1>4, Zenon DEF officeAuth, boundVars
    <2>2. identity' \in [Accounts -> Offices \cup {DefaultOffice, None}]
      BY <1>1, <2>1, Zenon
    <2>3. MemberHasOneOffice'
      BY <1>1, <1>2, <2>1, Zenon DEF MemberHasOneOffice
    <2> QED BY <1>1, <2>1, <2>2, <2>3, MemberFrame, Zenon
  <1>5. ASSUME NEW a \in Accounts, RemoveMember(a) PROVE ConsoleInv'
    <2>1. begun' \in Nat
      BY <1>1, <1>5 DEF RemoveMember
    <2>2. /\ member' = [member EXCEPT ![a] = None] /\ office' = office /\ identity' = identity
          /\ UNCHANGED <<archiveVars, trailVars, req, now, faults>>
      BY <1>5, Zenon DEF RemoveMember
    <2>3. member' \in [Accounts -> Offices \cup {None}] /\ MemberHasOneOffice'
      BY <1>1, <1>2, <2>2, Zenon DEF MemberHasOneOffice
    <2> QED BY <1>1, <2>1, <2>2, <2>3, MemberFrame, Zenon
  <1> QED BY <1>3, <1>4, <1>5, Zenon

\* An assignment: the identity and the member row change together.
LEMMA AssignSteps ==
    ASSUME ConsoleInv, NEW r \in Requests,
           AssignMember(r) \/ \E a \in Accounts, o \in Offices : AssignIdentity(r, a, o)
    PROVE  ConsoleInv'
  <1>1. /\ begun \in Nat /\ office \subseteq Offices
        /\ identity \in [Accounts -> Offices \cup {DefaultOffice, None}]
        /\ member \in [Accounts -> Offices \cup {None}] /\ MemberHasOneOffice
    BY Zenon DEF ConsoleInv, TypeInv
  <1>2. ASSUME NEW X \in Call, req' = [req EXCEPT ![r] = X], X.op # "verify",
               X.pc \notin {"open", "log", "copy"}, begun' \in Nat, faults \subseteq faults',
               UNCHANGED <<archiveVars, trailVars, office, now>>,
               identity' \in [Accounts -> Offices \cup {DefaultOffice, None}],
               member' \in [Accounts -> Offices \cup {None}], MemberHasOneOffice'
        PROVE  ConsoleInv'
    <2>1. req' \in [Requests -> Call]
      BY <1>2, OneStep, Zenon DEF ConsoleInv
    <2>2. \A s \in Requests : /\ req'[s] = req[s] \/ req'[s].op # "verify"
                              /\ req'[s] = req[s] \/ req'[s].pc \notin {"open", "log", "copy"}
      BY <1>2, OneStep, Zenon DEF ConsoleInv
    <2>3. TypeInv'
      BY <1>2, <2>1, Zenon DEF ConsoleInv, TypeInv, archiveVars, trailVars
    <2>4. ArchiveInv'
      BY <1>2, <2>2, ArchiveFrame, Zenon DEF ConsoleInv
    <2>5. ticket' = ticket /\ streams' = streams /\ access' = access /\ shown' = shown
      BY <1>2, Zenon DEF trailVars
    <2>6. TrailInv'
      BY <1>2, <2>2, <2>5, TrailStep, Zenon DEF ConsoleInv
    <2> QED BY <1>2, <2>3, <2>4, <2>6, Zenon DEF ConsoleInv
  <1>3. ASSUME NEW a \in Accounts, NEW o \in Offices, AssignIdentity(r, a, o) PROVE ConsoleInv'
    <2>1. PICK q : q = [op |-> "assign", pc |-> "member", account |-> a, office |-> o]
      BY Zenon
    <2>2. req' = [req EXCEPT ![r] = q]
      BY <1>3, <2>1, Zenon DEF AssignIdentity, Begin
    <2>3. q \in AssignCall /\ q.op # "verify" /\ q.pc \notin {"open", "log", "copy"}
      BY <2>1 DEF AssignCall
    <2>4. q \in Call
      BY <2>3, Zenon DEF Call
    <2>5. begun' \in Nat
      BY <1>1, <1>3 DEF AssignIdentity, Begin
    <2>6. /\ UNCHANGED <<archiveVars, trailVars, office, now>>
          /\ identity' = identity /\ member' = member /\ faults' = faults
      BY <1>3, Zenon DEF AssignIdentity
    <2>7. MemberHasOneOffice'
      BY <1>1, <2>6, Zenon DEF MemberHasOneOffice
    <2> QED BY <1>1, <1>2, <2>2, <2>3, <2>4, <2>5, <2>6, <2>7, Zenon
  <1>4. CASE AssignMember(r)
    <2>1. req[r] \in AssignCall
      BY <1>4, CallAt, Zenon DEF AssignMember, ConsoleInv
    <2>2. PICK a \in Accounts : a = req[r].account
      BY <2>1, Zenon DEF AssignCall
    <2>3. PICK o \in Offices : o = req[r].office
      BY <2>1, Zenon DEF AssignCall
    <2>4. Idle \in Call /\ Idle.op # "verify" /\ Idle.pc \notin {"open", "log", "copy"}
      BY DEF Idle, Call
    <2>5. /\ req' = [req EXCEPT ![r] = Idle] /\ begun' = begun
          /\ UNCHANGED <<archiveVars, trailVars, office, now>>
      BY <1>4, Zenon DEF AssignMember, Close
    <2>6. \/ /\ identity' = [identity EXCEPT ![a] = o] /\ member' = [member EXCEPT ![a] = o]
             /\ faults' = faults
          \/ faults \subseteq faults' /\ identity' = identity /\ member' = member
      BY <1>4, <2>2, <2>3, Zenon DEF AssignMember, AssignedIdentity, Fails
    <2>7. /\ identity' \in [Accounts -> Offices \cup {DefaultOffice, None}]
          /\ member' \in [Accounts -> Offices \cup {None}] /\ faults \subseteq faults'
      BY <1>1, <2>6, Zenon
    <2>8. MemberHasOneOffice'
      BY <1>1, <2>6, Zenon DEF MemberHasOneOffice
    <2> QED BY <1>1, <1>2, <2>4, <2>5, <2>7, <2>8, Zenon
  <1> QED BY <1>3, <1>4, Zenon

-----------------------------------------------------------------------------
(* The theorems *)

\* The invariant holds at the start.
LEMMA ConsoleStart == Init => ConsoleInv
  <1> SUFFICES ASSUME Init PROVE ConsoleInv
    OBVIOUS
  <1>1. Idle \in Call /\ Idle.op # "verify" /\ Idle.pc \notin {"open", "log", "copy"} /\ Idle.pc # "copy"
    BY DEF Idle, Call
  <1>2. \A r \in Requests : req[r] = Idle
    BY Zenon DEF Init
  <1>3. /\ 0 \in Nat /\ <<>> \in Seq(TicketRow) /\ <<>> \in Seq(Nat)
        /\ Len(<<>>) = 0 /\ 1..0 = {} /\ DOMAIN <<>> = {}
    OBVIOUS
  <1>4. TypeInv
    BY <1>1, <1>3, Zenon DEF Init, TypeInv
  <1>5. ArchiveInv
    BY <1>1, <1>2, OriginalRow, Zenon DEF Init, ArchiveInv
  <1>6. TrailInv
    BY <1>1, <1>2, <1>3, Zenon DEF Init, TrailInv, AccessIsTrailed, Downloading, Redeems
  <1>7. MemberHasOneOffice
    BY Zenon DEF Init, MemberHasOneOffice
  <1> QED BY <1>4, <1>5, <1>6, <1>7, Zenon DEF ConsoleInv

\* Every step of a verification, and of what happens to the records, keeps it.
LEMMA VerifySteps ==
    ASSUME ConsoleInv, VerifyNext
    PROVE  ConsoleInv'
  <1>1. Verifiers \subseteq Requests /\ Deep \subseteq BOOLEAN /\ FALSE \in BOOLEAN
    BY ConsoleAssumption, Zenon DEF ConsoleAssumption
  <1>2. TypeInv /\ ArchiveInv /\ TrailInv /\ MemberHasOneOffice
    BY Zenon DEF ConsoleInv
  <1>3. ASSUME TypeInv', ArchiveInv', NoDownload, UNCHANGED <<trailVars, memberVars, faults>>
        PROVE  ConsoleInv'
    BY <1>2, <1>3, TrailFrame, Zenon DEF ConsoleInv, MemberHasOneOffice, memberVars
  <1>4. ASSUME NEW r \in Verifiers, NEW i \in Items, NEW admin \in Admins \cup {None},
               NEW deep \in BOOLEAN, VerifyBegin(r, i, admin, deep)
        PROVE  ConsoleInv'
    <2>1. TypeInv' /\ ArchiveInv' /\ NoDownload
      BY <1>1, <1>2, <1>4, BeginVerify, ConsoleAssumption, Zenon
    <2> QED BY <1>3, <1>4, <2>1, Zenon DEF VerifyBegin
  <1>5. ASSUME NEW r \in Verifiers, ReadEvents(r) PROVE ConsoleInv'
    BY <1>1, <1>2, <1>3, <1>5, ReadEventsStep, Zenon DEF ReadEvents, boundVars
  <1>6. ASSUME NEW r \in Verifiers, CheckSignature(r) PROVE ConsoleInv'
    BY <1>1, <1>2, <1>3, <1>6, CheckSignatureStep, Zenon DEF CheckSignature, boundVars
  <1>7. ASSUME NEW r \in Verifiers, CheckReceipt(r) PROVE ConsoleInv'
    BY <1>1, <1>2, <1>3, <1>7, CheckReceiptStep, Zenon DEF CheckReceipt, boundVars
  <1>8. ASSUME NEW r \in Verifiers, CheckFile(r) PROVE ConsoleInv'
    BY <1>1, <1>2, <1>3, <1>8, CheckFileStep, Zenon DEF CheckFile, boundVars
  <1>9. ASSUME NEW r \in Verifiers, AnswerVerify(r) PROVE ConsoleInv'
    BY <1>1, <1>9, AnswerVerifyStep, Zenon
  <1>10. ASSUME req' = req PROVE NoDownload
    BY <1>10, Zenon DEF NoDownload
  <1>11. ASSUME NEW i \in Items, DamageRow(i) PROVE ConsoleInv'
    BY <1>2, <1>3, <1>10, <1>11, RowStep, Zenon DEF DamageRow, boundVars
  <1>12. ASSUME NEW i \in Items, NEW k \in 1..Len(item[i].events), DamageEvent(i, k) PROVE ConsoleInv'
    BY <1>2, <1>3, <1>10, <1>12, EventStep, Zenon DEF DamageEvent, boundVars
  <1>13. ASSUME NEW key \in {"sender", System}, RevokeKey(key) PROVE ConsoleInv'
    BY <1>2, <1>3, <1>10, <1>13, RevokeStep, Zenon DEF RevokeKey, KeyNames, boundVars
  <1>14. ASSUME NEW r \in Verifiers, NEW i \in Items,
                \/ \E admin \in Admins, deep \in Deep : archiveVerify(r, i, admin, deep)
                \/ publicReceipt(r, i)
         PROVE  ConsoleInv'
    BY <1>1, <1>4, <1>14, Zenon DEF archiveVerify, publicReceipt
  <1> QED BY <1>5, <1>6, <1>7, <1>8, <1>9, <1>11, <1>12, <1>13, <1>14, Zenon DEF VerifyNext

\* Every step of the console keeps the invariant.
LEMMA ConsoleSteps == ConsoleInv /\ [Next]_vars => ConsoleInv'
  <1> SUFFICES ASSUME ConsoleInv, [Next]_vars PROVE ConsoleInv'
    OBVIOUS
  <1>1. CASE VerifyNext
    BY <1>1, VerifySteps, Zenon
  <1>2. CASE AccessNext
    <2>1. CASE Tick
      <3>1. now' \in Nat
        BY <2>1 DEF ConsoleInv, TypeInv, Tick
      <3>2. TypeInv'
        BY <2>1, <3>1, Zenon DEF ConsoleInv, TypeInv, Tick, archiveVars, trailVars, memberVars, boundVars
      <3>3. NoDownload /\ UNCHANGED <<archiveVars, trailVars, faults>>
        BY <2>1, Zenon DEF Tick, NoDownload, boundVars
      <3>4. ArchiveInv' /\ TrailInv'
        BY <2>1, <3>3, ArchiveFrame, TrailFrame, Zenon DEF ConsoleInv, Tick
      <3> QED BY <2>1, <3>2, <3>4, Zenon DEF ConsoleInv, MemberHasOneOffice, Tick, memberVars
    <2> QED BY <1>2, <2>1, AccessBegins, TicketStep, AnswerDetailStep, StreamStep, CopyStep, RedeemStep,
               ConsoleAssumption, Zenon DEF AccessNext
  <1>3. CASE MemberNext
    BY <1>3, OfficeSteps, AssignSteps, Zenon DEF MemberNext
  <1>4. CASE UNCHANGED vars
    <2>1. /\ UNCHANGED <<archiveVars, trailVars, memberVars, req, now, boundVars>>
          /\ begun' = begun /\ faults' = faults
      BY <1>4, Zenon DEF vars, boundVars
    <2>2. TypeInv'
      BY <2>1, Zenon DEF ConsoleInv, TypeInv, archiveVars, trailVars, memberVars
    <2>3. NoDownload
      BY <2>1, Zenon DEF NoDownload
    <2>4. ArchiveInv' /\ TrailInv'
      BY <2>1, <2>3, ArchiveFrame, TrailFrame, Zenon DEF ConsoleInv
    <2> QED BY <2>1, <2>2, <2>4, Zenon DEF ConsoleInv, MemberHasOneOffice, memberVars
  <1> QED BY <1>1, <1>2, <1>3, <1>4, Zenon DEF Next

\* The inductive invariant of the console.
THEOREM ConsoleInvariant == Spec => []ConsoleInv
  BY ConsoleStart, ConsoleSteps, PTL DEF Spec

\* verifyItem's verdict is right, for any number of items, requests, damaged parts
\* and revoked keys.
THEOREM VerdictRight == Spec => []VerdictIsRight
  <1>1. ConsoleInv => VerdictIsRight
    <2> SUFFICES ASSUME ConsoleInv, NEW r \in Requests, req[r].pc = "verified"
                 PROVE  IF Verdict(req[r])
                        THEN /\ ReadIntact(req[r])
                             /\ \A k \in DOMAIN req[r].row.events :
                                   req[r].row.events[k].key \notin req[r].revoked
                             /\ System \notin req[r].revoked
                        ELSE damaged # {}
      BY Zenon DEF VerdictIsRight
    <2>1. PICK q : q = req[r]
      BY Zenon
    <2>2. q \in VerifyCall /\ VerifyInv(q) /\ q.pc = "verified"
      BY <2>1, CallAt, VerifyFields, Zenon DEF ConsoleInv, ArchiveInv
    <2>3. CASE ~ Verdict(q)
      BY <2>1, <2>2, <2>3, Zenon DEF VerifyInv, Unharmed
    <2>4. CASE Verdict(q)
      <3>1. /\ ManifestHash(q.row) /\ EventChain(q.row.events) /\ ReceiptPassed(q)
            /\ \A j \in 1..Len(q.row.events) : Passed(q, j)
            /\ q.deep => StoredFile(q.row, q.row.file)
            /\ GenuineRow(q.item, q.row)
        BY <2>2, <2>4, Zenon DEF VerifyInv, Established
      <3>2. q.item \in Items /\ q.row.events \in Seq(EventRow) /\ q.row \in ItemRow
        BY <2>2, VerifyFields, Zenon
      <3>3. q.row.events = SubSeq(OriginalEvents(q.item), 1, Len(q.row.events))
        BY <3>1, <3>2, ChainIsOriginal, Zenon DEF GenuineRow, Passed
      <3>4. /\ q.row.receipt.sig = Sign(q.row.receipt.key, "ARCHIVE_RECEIPT", q.item, Hash(q.row.receipt.mhash))
            /\ q.row.receipt.mhash = q.row.mhash
            /\ q.row.receipt.key \notin q.revoked
        BY <3>1, Zenon DEF ReceiptPassed, VerifyHybridWithHash
      <3>5. q.row.receipt.sig = Sign(System, "ARCHIVE_RECEIPT", q.item, Hash(Hash("manifest")))
        <4>1. ASSUME NEW i, NEW m
              PROVE  Receipt(i, m).sig = Sign(System, "ARCHIVE_RECEIPT", i, Hash(m))
          BY DEF Receipt
        <4> QED BY <4>1, <3>1, Zenon DEF GenuineRow
      <3>6. q.row.receipt \in ReceiptRow /\ q.row.receipt.key = System
        BY <3>2, Zenon DEF ItemRow, ReceiptRow
      <3>7. q.row.receipt.mhash = Hash("manifest")
        <4>1. Sign(System, "ARCHIVE_RECEIPT", q.item, Hash(q.row.receipt.mhash))
                = Sign(System, "ARCHIVE_RECEIPT", q.item, Hash(Hash("manifest")))
          BY <3>4, <3>5, <3>6, Zenon
        <4>2. Hash(q.row.receipt.mhash) = Hash(Hash("manifest"))
          BY ONLY <4>1, SignInjective
        <4> QED BY ONLY <4>2, HashInjective
      <3>8. q.row.mhash = Hash("manifest") /\ q.row.manifest = "manifest"
        BY <3>1, <3>4, <3>7, HashInjective, Zenon DEF ManifestHash
      <3>9. q.row.receipt = Receipt(q.item, Hash("manifest"))
        <4>1. ASSUME NEW t \in ReceiptRow
              PROVE  t = [mhash |-> t.mhash, key |-> t.key, sig |-> t.sig]
          BY DEF ReceiptRow
        <4> QED BY <4>1, <3>5, <3>6, <3>7, Zenon DEF Receipt
      <3>10. q.deep => q.row.file = "file"
        BY <3>1, Zenon DEF StoredFile
      <3>11. ReadIntact(q)
        BY <3>2, <3>3, <3>8, <3>9, <3>10, OriginalRow, Zenon DEF ReadIntact
      <3>12. \A k \in DOMAIN q.row.events : q.row.events[k].key \notin q.revoked
        <4>1. DOMAIN q.row.events = 1..Len(q.row.events)
          BY <3>2
        <4> QED BY <4>1, <3>1, Zenon DEF Passed
      <3> QED BY <2>1, <2>4, <3>4, <3>6, <3>11, <3>12, Zenon
    <2> QED BY <2>1, <2>3, <2>4, Zenon
  <1> QED BY <1>1, ConsoleInvariant, PTL

\* Every disclosure is on the trail, and a ticket is one download.
THEOREM AccessTrailed == Spec => []AccessIsTrailed
  <1>1. ConsoleInv => AccessIsTrailed
    BY Zenon DEF ConsoleInv, TrailInv
  <1> QED BY <1>1, ConsoleInvariant, PTL

\* A member's two office columns agree.
THEOREM MemberOneOffice == Spec => []MemberHasOneOffice
  <1>1. ConsoleInv => MemberHasOneOffice
    BY Zenon DEF ConsoleInv
  <1> QED BY <1>1, ConsoleInvariant, PTL
=============================================================================
