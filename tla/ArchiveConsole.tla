--------------------------- MODULE ArchiveConsole ---------------------------
(***************************************************************************)
(* The archive console of the central admin                                *)
(* (api/internal/httpapi/archive_admin.go, archive_verify.go) after an     *)
(* upload was archived: verification of an item from its stored records,   *)
(* view and download, one-time download tickets, the access trail, and the *)
(* offices and their members.                                              *)
(*                                                                         *)
(* No handler here reads in a transaction, so every query is a step, and   *)
(* stored parts can be damaged, and keys revoked, between two of them.     *)
(* Hashes and signatures are the terms they are made from; the two keys of *)
(* a hybrid identity are one, named after the identity.                    *)
(***************************************************************************)
EXTENDS Integers, Sequences, FiniteSets

CONSTANTS
    Requests,      \* request goroutines
    Verifiers,     \* the ones that verify an item
    Items,         \* archived submissions
    Admins,        \* central admins
    Accounts,      \* senders
    Offices,       \* ids an office can be given
    Deep,          \* the values of ?deep: a subset of BOOLEAN
    None,          \* no row, no value
    TicketTTL,     \* life of a download ticket
    MaxNow,        \* bound: the clock
    MaxWork        \* bound: requests, damaged parts, revoked keys and
                   \* failing statements together

ASSUME ConsoleAssumption ==
    /\ {TicketTTL, MaxNow, MaxWork} \subseteq Nat
    /\ Deep \subseteq BOOLEAN
    /\ Verifiers \subseteq Requests
    /\ None \notin Requests \cup Items \cup Admins \cup Accounts \cup Offices

VARIABLES
    item,       \* archive_item, transaction_event and object, by item
    revoked,    \* identities whose key_reference row says revoked
    ticket,     \* archive_ticket: a sequence of rows
    access,     \* archive_access: its rows
    office,     \* organization rows made by the console
    identity,   \* user_identity.organization_id by account, or None
    member,     \* office_member.organization_id by account, or None
    lock,       \* the request whose transaction holds an account's rows
    req,        \* the running requests
    now,        \* the clock
    damaged,    \* parts damaged and keys revoked so far
    shown,      \* auxiliary: the answers that disclosed an item, each as the row
                \* that belongs to it
    streams,    \* downloads per ticket
    begun,      \* requests so far: their bound, and the number of the next
    faults      \* failed statements, by the statement

archiveVars == <<item, revoked, damaged>>
trailVars == <<ticket, access, shown, streams>>
memberVars == <<office, identity, member, lock>>
boundVars == <<begun, faults>>
vars == <<archiveVars, trailVars, memberVars, req, now, boundVars>>

-----------------------------------------------------------------------------
(* What archiveFinalize recorded *)

System == "system"
Other == "other"
Hash(x) == [of |-> x]

\* A signature binds the signer, the context (type, transaction) and the hash.
Sign(key, typ, i, hash) == [key |-> key, typ |-> typ, txn |-> i, hash |-> hash]

Event(i, seq, typ, key, hash, prev) ==
    [seq |-> seq, typ |-> typ, hash |-> hash, prev |-> prev, key |-> key,
     sig |-> Sign(key, typ, i, hash)]

OriginalEvents(i) ==
    LET h == <<Hash("manifest"), Hash("integrity"), Hash("archived")>>
    IN  <<Event(i, 1, "UPLOAD_RECEIVED", "sender", h[1], None),
          Event(i, 2, "INTEGRITY_VERIFIED", System, h[2], h[1]),
          Event(i, 3, "ARCHIVED", System, h[3], h[2])>>

Receipt(i, mhash) ==
    [mhash |-> mhash, key |-> System, sig |-> Sign(System, "ARCHIVE_RECEIPT", i, Hash(mhash))]

Original(i) ==
    [manifest |-> "manifest", mhash |-> Hash("manifest"), events |-> OriginalEvents(i),
     receipt |-> Receipt(i, Hash("manifest")), file |-> "file"]

Idle == [op |-> "none", pc |-> "idle"]

Init ==
    /\ item = [i \in Items |-> Original(i)]
    /\ revoked = {}
    /\ ticket = <<>>
    /\ access = {}
    /\ office = {}
    /\ identity = [a \in Accounts |-> None]
    /\ member = [a \in Accounts |-> None]
    /\ lock = [a \in Accounts |-> None]
    /\ req = [r \in Requests |-> Idle]
    /\ now = 0
    /\ damaged = {}
    /\ shown = {}
    /\ streams = <<>>
    /\ begun = 0
    /\ faults = {}

-----------------------------------------------------------------------------
(* Steps the handlers share *)

MoreWork == begun + Cardinality(damaged) + Cardinality(faults) < MaxWork

Begin(r, record) ==
    /\ req[r].pc = "idle"
    /\ MoreWork
    /\ begun' = begun + 1
    /\ req' = [req EXCEPT ![r] = record]

Goto(r, pc) == req' = [req EXCEPT ![r].pc = pc]

Close(r) == req' = [req EXCEPT ![r] = Idle]

Fails(statement) ==
    /\ MoreWork
    /\ statement \notin faults
    /\ faults' = faults \cup {statement}

\* A row of archive_access; by is the request that it is about.
Trail(r, action) ==
    [item |-> req[r].item, admin |-> req[r].admin, action |-> action, by |-> req[r].by]

\* A faulty variant that leaves the trail to the caller when the access came
\* through a ticket.
logAccessSession(r, action) ==
    \/ /\ req[r].op # "redeem"
       /\ access' = access \cup {Trail(r, action)}
       /\ UNCHANGED faults
    \/ /\ req[r].op = "redeem"
       /\ UNCHANGED <<access, faults>>
    \/ /\ Fails(<<"log", Trail(r, action)>>)
       /\ UNCHANGED access

\* logAccess ignores the error of its INSERT.
logAccess(r, action) ==
    \/ /\ access' = access \cup {Trail(r, action)}
       /\ UNCHANGED faults
    \/ /\ Fails(<<"log", Trail(r, action)>>)
       /\ UNCHANGED access

Show(r, action) == shown' = shown \cup {Trail(r, action)}

-----------------------------------------------------------------------------
(* verifyItem, behind archiveVerify and publicReceipt *)

\* The first query: the item's row.
VerifyBegin(r, i, admin, deep) ==
    /\ Begin(r, [op |-> "verify", pc |-> "events", item |-> i, admin |-> admin,
                 by |-> begun, deep |-> deep, row |-> [item[i] EXCEPT !.events = <<>>, !.file = None],
                 revoked |-> revoked, checks |-> {}, next |-> 1])
    /\ UNCHANGED <<archiveVars, trailVars, memberVars, now, faults>>

archiveVerify(r, i, admin, deep) == VerifyBegin(r, i, admin, deep)

publicReceipt(r, i) == VerifyBegin(r, i, None, FALSE)

ManifestHash(row) == Hash(row.manifest) = row.mhash

\* A faulty variant that compares with the previous hash only.
EventChainLoose(evs) ==
    \A k \in 2..Len(evs) : evs[k].prev = evs[k - 1].hash

EventChain(evs) ==
    \A k \in 1..Len(evs) :
        /\ evs[k].seq = k
        /\ evs[k].prev = IF k = 1 THEN None ELSE evs[k - 1].hash

\* The second query: the events, in sequence order.  No event is an error.
ReadEvents(r) ==
    LET evs == item[req[r].item].events
        row == [req[r].row EXCEPT !.events = evs]
    IN  /\ req[r].pc = "events"
        /\ IF evs = <<>>
           THEN Close(r)
           ELSE req' = [req EXCEPT ![r].pc = "signatures", ![r].row = row,
                          ![r].checks = {ManifestHash(row), EventChain(evs)}]
        /\ UNCHANGED <<archiveVars, trailVars, memberVars, now, boundVars>>

VerifyHybridWithHash(key, typ, i, hash, sig) == sig = Sign(key, typ, i, hash)

\* lookupKeys answers with the keys and whether one of them is revoked now.
lookupKeys(key) == key \in revoked

verifyEvent(i, e) ==
    /\ VerifyHybridWithHash(e.key, e.typ, i, e.hash, e.sig)
    /\ ~ lookupKeys(e.key)

SenderSignature(i, row) ==
    LET first == row.events[1]
    IN  /\ verifyEvent(i, first)
        /\ first.typ = "UPLOAD_RECEIVED"
        /\ first.hash = row.mhash

\* One event at a time: the first for the sender's signature, the others until
\* one of them fails.
CheckSignature(r) ==
    LET row == req[r].row
        k == req[r].next
        ok == IF k = 1 THEN SenderSignature(req[r].item, row)
              ELSE verifyEvent(req[r].item, row.events[k])
    IN  /\ req[r].pc = "signatures"
        /\ req' = [req EXCEPT ![r].checks = @ \cup {ok}, ![r].next = k + 1,
                     ![r].pc = IF k = Len(row.events) \/ (k > 1 /\ ~ok)
                               THEN "receipt" ELSE "signatures"]
        /\ UNCHANGED <<archiveVars, trailVars, memberVars, now, boundVars>>

ReceiptSignature(i, row) ==
    /\ VerifyHybridWithHash(row.receipt.key, "ARCHIVE_RECEIPT", i,
                            Hash(row.receipt.mhash), row.receipt.sig)
    /\ ~ lookupKeys(row.receipt.key)
    /\ row.receipt.mhash = row.mhash

CheckReceipt(r) ==
    /\ req[r].pc = "receipt"
    /\ req' = [req EXCEPT ![r].pc = IF req[r].deep THEN "file" ELSE "verified",
                 ![r].checks = @ \cup {ReceiptSignature(req[r].item, req[r].row)}]
    /\ UNCHANGED <<archiveVars, trailVars, memberVars, now, boundVars>>

\* deep: the manifest names the hashes of the file.
StoredFile(row, file) == row.manifest = "manifest" /\ file = "file"

CheckFile(r) ==
    LET file == item[req[r].item].file
    IN  /\ req[r].pc = "file"
        /\ req' = [req EXCEPT ![r].pc = "verified", ![r].row.file = file,
                     ![r].checks = @ \cup {StoredFile(req[r].row, file)}]
        /\ UNCHANGED <<archiveVars, trailVars, memberVars, now, boundVars>>

Verdict(q) == FALSE \notin q.checks

\* archiveVerify writes the trail and answers; publicReceipt only answers.
AnswerVerify(r) ==
    /\ req[r].pc = "verified"
    /\ IF req[r].admin = None
       THEN UNCHANGED <<access, shown, faults>>
       ELSE logAccess(r, "verify") /\ Show(r, "verify")
    /\ Close(r)
    /\ UNCHANGED <<archiveVars, ticket, streams, memberVars, now, begun>>

-----------------------------------------------------------------------------
(* archiveDetail, archiveDownload, archiveTicket, publicDownload *)

archiveDetail(r, i, admin) ==
    /\ Begin(r, [op |-> "detail", pc |-> "view", item |-> i, admin |-> admin, by |-> begun])
    /\ UNCHANGED <<archiveVars, trailVars, memberVars, now, faults>>

AnswerDetail(r) ==
    /\ req[r].pc = "view"
    /\ logAccess(r, "view")
    /\ Show(r, "view")
    /\ Close(r)
    /\ UNCHANGED <<archiveVars, ticket, streams, memberVars, now, begun>>

archiveDownload(r, i, admin) ==
    /\ Begin(r, [op |-> "download", pc |-> "open", item |-> i, admin |-> admin,
                 by |-> begun, ticket |-> 0])
    /\ UNCHANGED <<archiveVars, trailVars, memberVars, now, faults>>

archiveTicket(r, i, admin) ==
    /\ MoreWork
    /\ req[r].pc = "idle"
    /\ begun' = begun + 1
    /\ ticket' = Append(ticket, [item |-> i, admin |-> admin,
                                 expires |-> now + TicketTTL, used |-> FALSE])
    /\ streams' = Append(streams, 0)
    /\ UNCHANGED <<archiveVars, access, shown, memberVars, req, now, faults>>

\* The WHERE clause of the UPDATE that takes the ticket.
Redeemable(t) ==
    /\ ~ticket[t].used
    /\ ticket[t].expires > now

publicDownload(r, t) ==
    /\ Redeemable(t)
    /\ Begin(r, [op |-> "redeem", pc |-> "open", item |-> ticket[t].item,
                 admin |-> ticket[t].admin, by |-> begun, ticket |-> t])
    /\ ticket' = [ticket EXCEPT ![t].used = TRUE]
    /\ UNCHANGED <<archiveVars, access, shown, streams, memberVars, now, faults>>

\* streamItem: the row and the object are there, or the answer is an error.
StreamOpen(r) ==
    /\ req[r].pc = "open"
    /\ \/ Goto(r, "log") /\ UNCHANGED faults
       \/ Fails(<<"object">>) /\ Close(r)
    /\ UNCHANGED <<archiveVars, trailVars, memberVars, now, begun>>

StreamLog(r) ==
    /\ req[r].pc = "log"
    /\ logAccess(r, "download")
    /\ Goto(r, "copy")
    /\ UNCHANGED <<archiveVars, ticket, shown, streams, memberVars, now, begun>>

StreamCopy(r) ==
    /\ req[r].pc = "copy"
    /\ Show(r, "download")
    /\ streams' = IF req[r].ticket = 0 THEN streams
                  ELSE [streams EXCEPT ![req[r].ticket] = @ + 1]
    /\ Close(r)
    /\ UNCHANGED <<archiveVars, ticket, access, memberVars, now, boundVars>>

-----------------------------------------------------------------------------
(* Offices and members *)

DefaultOffice == "org-a"

\* INSERT ... ON CONFLICT DO NOTHING: the second one is answered 409.
archiveCreateOffice(o) ==
    /\ MoreWork
    /\ o \notin office
    /\ begun' = begun + 1
    /\ office' = office \cup {o}
    /\ UNCHANGED <<archiveVars, trailVars, identity, member, lock, req, now, faults>>

\* officeAuth provisions the identity of whoever calls and leaves the office of
\* an existing one alone.  The row may be locked by an assignment.
officeAuth(a) ==
    /\ lock[a] = None
    /\ identity[a] = None
    /\ identity' = [identity EXCEPT ![a] = DefaultOffice]
    /\ UNCHANGED <<archiveVars, trailVars, office, member, lock, req, now, boundVars>>

\* Assignment: the office exists, the identity is upserted, its row locked.
AssignIdentity(r, a, o) ==
    /\ o \in office
    /\ lock[a] = None
    /\ lock' = [lock EXCEPT ![a] = r]
    /\ Begin(r, [op |-> "assign", pc |-> "member", account |-> a, office |-> o])
    /\ UNCHANGED <<archiveVars, trailVars, office, identity, member, now, faults>>

\* A faulty variant that only provisions the identity.
AssignedIdentityOnce(a, o) ==
    IF identity[a] = None THEN [identity EXCEPT ![a] = o] ELSE identity

\* ON CONFLICT (id) DO UPDATE SET organization_id
AssignedIdentity(a, o) == [identity EXCEPT ![a] = o]

\* The member row and the commit; or an error, and the deferred Rollback.
AssignMember(r) ==
    LET a == req[r].account
        o == req[r].office
    IN  /\ req[r].pc = "member"
        /\ \/ /\ identity' = AssignedIdentity(a, o)
              /\ member' = [member EXCEPT ![a] = o]
              /\ UNCHANGED faults
           \/ /\ Fails(<<"assign">>)
              /\ UNCHANGED <<identity, member>>
        /\ lock' = [lock EXCEPT ![a] = None]
        /\ Close(r)
        /\ UNCHANGED <<archiveVars, trailVars, office, now, begun>>

\* organization_id "": only the membership goes.  The DELETE does not wait for
\* the identity's lock; a member row the assignment wrote is not visible yet.
RemoveMember(a) ==
    /\ MoreWork
    /\ member[a] # None
    /\ begun' = begun + 1
    /\ member' = [member EXCEPT ![a] = None]
    /\ UNCHANGED <<archiveVars, trailVars, office, identity, lock, req, now, faults>>

-----------------------------------------------------------------------------
(* The environment *)

Tick ==
    /\ now < MaxNow
    /\ now' = now + 1
    /\ UNCHANGED <<archiveVars, trailVars, memberVars, req, boundVars>>

Damaged(part) ==
    /\ MoreWork
    /\ part \notin damaged
    /\ damaged' = damaged \cup {part}

\* A stored value is replaced: hashes by the hash that would go with another
\* manifest, anything else by something else.  No signature can be made.
DamageRow(i) ==
    /\ \/ /\ Damaged(<<i, "manifest">>)
          /\ item' = [item EXCEPT ![i].manifest = Other]
       \/ /\ Damaged(<<i, "mhash">>)
          /\ item' = [item EXCEPT ![i].mhash = Hash(Other)]
       \/ /\ Damaged(<<i, "receipt">>)
          /\ item' = [item EXCEPT ![i].receipt.mhash = Hash(Other)]
       \/ /\ Damaged(<<i, "file">>)
          /\ item' = [item EXCEPT ![i].file = Other]
    /\ UNCHANGED <<revoked, trailVars, memberVars, req, now, boundVars>>

DamageEvent(i, k) ==
    /\ \/ /\ Damaged(<<i, "hash">>)
          /\ item' = [item EXCEPT ![i].events[k].hash = Hash(Other)]
       \/ /\ Damaged(<<i, "prev">>)
          /\ item' = [item EXCEPT ![i].events[k].prev = Hash(Other)]
       \/ /\ Damaged(<<i, "event">>)
          /\ item' = [item EXCEPT ![i].events = SubSeq(@, 1, k - 1) \o SubSeq(@, k + 1, Len(@))]
    /\ UNCHANGED <<revoked, trailVars, memberVars, req, now, boundVars>>

RevokeKey(key) ==
    /\ Damaged(<<"key", key>>)
    /\ revoked' = revoked \cup {key}
    /\ UNCHANGED <<item, trailVars, memberVars, req, now, boundVars>>

VerifyNext ==
    \/ \E r \in Verifiers, i \in Items :
          \/ \E admin \in Admins, deep \in Deep : archiveVerify(r, i, admin, deep)
          \/ publicReceipt(r, i)
    \/ \E r \in Verifiers :
          ReadEvents(r) \/ CheckSignature(r) \/ CheckReceipt(r) \/ CheckFile(r) \/ AnswerVerify(r)
    \/ \E i \in Items : DamageRow(i) \/ \E k \in 1..Len(item[i].events) : DamageEvent(i, k)
    \/ \E key \in {"sender", System} : RevokeKey(key)

AccessNext ==
    \/ \E r \in Requests, i \in Items, admin \in Admins :
          archiveDetail(r, i, admin) \/ archiveDownload(r, i, admin) \/ archiveTicket(r, i, admin)
    \/ \E r \in Requests :
          \/ AnswerDetail(r) \/ StreamOpen(r) \/ StreamLog(r) \/ StreamCopy(r)
          \/ \E t \in 1..Len(ticket) : publicDownload(r, t)
    \/ Tick

MemberNext ==
    \/ \E o \in Offices : archiveCreateOffice(o)
    \/ \E a \in Accounts : officeAuth(a) \/ RemoveMember(a)
    \/ \E r \in Requests :
          AssignMember(r) \/ \E a \in Accounts, o \in Offices : AssignIdentity(r, a, o)

Next == VerifyNext \/ AccessNext \/ MemberNext

Spec == Init /\ [][Next]_vars

-----------------------------------------------------------------------------
(* Properties *)

\* What a verification read is what archiveFinalize recorded: of the events a
\* first part, since nothing verifyItem reads says how many there were.
ReadIntact(q) ==
    LET was == Original(q.item)
    IN  /\ q.row.manifest = was.manifest
        /\ q.row.mhash = was.mhash
        /\ q.row.receipt = was.receipt
        /\ q.row.events = SubSeq(was.events, 1, Len(q.row.events))
        /\ q.deep => q.row.file = was.file

\* verifyItem re-checks "everything the archive claims": it never answers ok
\* for records that are not the ones archived, however many stored parts were
\* changed together and whenever between its queries, nor for a key that was
\* already revoked when it began; and it never raises a false alarm.
VerdictIsRight ==
    \A r \in Requests :
        req[r].pc = "verified" =>
            IF Verdict(req[r])
            THEN /\ ReadIntact(req[r])
                 /\ \A k \in DOMAIN req[r].row.events :
                       req[r].row.events[k].key \notin req[r].revoked
                 /\ System \notin req[r].revoked
            ELSE damaged # {}

\* The access trail: every view, verification and download an admin was
\* answered, through a ticket too, has its own archive_access row, unless the
\* INSERT itself failed; and a ticket, whose one row stands for one download, is
\* redeemed "exactly once" (publicDownload), however many requests present it.
AccessIsTrailed ==
    /\ \A row \in shown : row \in access \/ <<"log", row>> \in faults
    /\ \A t \in DOMAIN streams : streams[t] <= 1

\* The two places that hold a sender's office never disagree: an account with
\* a membership has an identity row in the same office, whatever assignments,
\* removals and first requests of the account run at once.
MemberHasOneOffice ==
    \A a \in Accounts : member[a] # None => member[a] = identity[a]
=============================================================================
