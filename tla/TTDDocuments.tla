---------------------------- MODULE TTDDocuments ----------------------------
(***************************************************************************)
(* The bytes of a signed PDF on their way through the TTD server: pushed   *)
(* in chunks to a scratch file (ttd/server/internal/api/uploads.go), read  *)
(* back by /document or /stamp (handlers.go signedInput), written to the   *)
(* file system object store (store/objectstore.go fsObjects) and recorded. *)
(*                                                                         *)
(* One reservation and one signed document, whose byte i is the number i.  *)
(* The checks of strictVerify other than that of the bytes are in          *)
(* TTDSubmission.                                                          *)
(*                                                                         *)
(* uploadManager.mu is held while a chunk is copied, but a session that    *)
(* get returned is used without it: its size is read, and its file opened  *)
(* and read, while chunks arrive and the session is discarded.  A put goes *)
(* through <key>.tmp, a name that all puts to the key share.               *)
(***************************************************************************)
EXTENDS Integers, Sequences

CONSTANTS
    Requests,     \* requests that can be in progress at the same time
    Uploads,      \* upload ids
    DocLengths,   \* possible lengths of the document
    MaxStamp, MaxVerify, MaxUpload,   \* MaxStampBytes, MaxVerifyBytes, MaxUploadBytes
    None,         \* no upload, file, record or lock holder
    MaxStarts,    \* bound: requests altogether
    MaxFaults     \* bound: failing copies and updates, restarts

ASSUME DocumentsAssumption ==
    /\ DocLengths \subseteq Nat /\ MaxVerify \in Nat /\ MaxUpload \in Nat /\ MaxStarts \in Nat
    /\ None \notin Requests \cup Uploads \cup Nat
    /\ None \notin [live : BOOLEAN, linked : BOOLEAN, file : Seq(Nat), size : Nat]

VARIABLES
    doc,          \* length of the document
    upload,       \* the sessions, with their files
    mu,           \* the request that holds uploadManager.mu
    reservation,  \* reserved or accepted
    signature,    \* the signature row
    inode,        \* contents of the object store's files
    tmp, object,  \* the files that <key>.tmp and <key> name
    req,          \* the requests in progress
    renamed,      \* auxiliary: the submission whose put was the last to succeed
    clash,        \* auxiliary: submissions whose puts overlapped
    starts, faults   \* bounds only

uploadVars == <<upload, mu>>
objectVars == <<inode, tmp, object, renamed, clash>>
recordVars == <<reservation, signature>>
vars == <<doc, uploadVars, recordVars, objectVars, req, starts, faults>>

Bytes(from, n) == [i \in 1..n |-> from + i]
Document == Bytes(0, doc)

Init ==
    /\ doc \in DocLengths
    /\ upload = [u \in Uploads |-> None]
    /\ mu = None
    /\ reservation = "reserved"
    /\ signature = None
    /\ inode = [i \in 1..MaxStarts |-> <<>>]
    /\ tmp = None /\ object = None
    /\ req = [r \in Requests |-> [pc |-> "idle"]]
    /\ renamed = 0 /\ clash = {}
    /\ starts = 0 /\ faults = 0

-----------------------------------------------------------------------------
At(r, pc) == req[r].pc = pc
Goto(r, pc) == req' = [req EXCEPT ![r].pc = pc]
Answered(r) == req' = [req EXCEPT ![r] = [pc |-> "idle"]]
Fault == faults < MaxFaults /\ faults' = faults + 1

Live(u) == upload[u] # None /\ upload[u].live
Linked(u) == upload[u].linked

\* A new request; one that works on a session begins with uploadManager.get.
Begin(r, request) ==
    /\ At(r, "idle") /\ starts < MaxStarts
    /\ starts' = starts + 1
    /\ req' = [req EXCEPT ![r] = request]
    /\ UNCHANGED <<doc, uploadVars, recordVars, objectVars, faults>>

get(u) == mu = None /\ Live(u)

(* Resumable uploads *)

\* create: the file is there before the session is.
hUploadCreate(u) ==
    /\ upload[u] = None /\ mu = None
    /\ upload' = [upload EXCEPT ![u] = [live |-> TRUE, linked |-> TRUE, file |-> <<>>, size |-> 0]]
    /\ UNCHANGED <<doc, mu, recordVars, objectVars, req, starts, faults>>

\* A chunk, perhaps sent before: the len bytes of the document after offset.
hUploadChunk(r, u, offset, len) ==
    /\ get(u)
    /\ offset + len <= doc
    /\ Begin(r, [pc |-> "append", up |-> u, offset |-> offset, len |-> len])

\* io.Copy through a LimitReader of room bytes; a broken connection ends it early.
CopyChunk(r, u, room) ==
    \E n \in 0..req[r].len :
        /\ n <= room
        /\ upload' = [upload EXCEPT ![u].file = @ \o Bytes(req[r].offset, n)]
        /\ mu' = r
        /\ req' = [req EXCEPT ![r] = [pc |-> "count", up |-> u, n |-> n]]

\* A faulty variant that takes a chunk at any offset.
appendChunkAnywhere(r) ==
    LET u == req[r].up IN
    /\ At(r, "append") /\ mu = None
    /\ IF ~ Linked(u)
       THEN Answered(r) /\ UNCHANGED uploadVars
       ELSE CopyChunk(r, u, MaxUpload - upload[u].size + 1)
    /\ UNCHANGED <<doc, recordVars, objectVars, starts, faults>>

\* appendChunk takes the lock; another offset than the size, or a file that is
\* gone, is answered with an error.
appendChunk(r) ==
    LET u == req[r].up IN
    /\ At(r, "append") /\ mu = None
    /\ IF req[r].offset # upload[u].size \/ ~ Linked(u)
       THEN Answered(r) /\ UNCHANGED uploadVars
       ELSE CopyChunk(r, u, MaxUpload - upload[u].size + 1)
    /\ UNCHANGED <<doc, recordVars, objectVars, starts, faults>>

\* s.size += n, and the lock is released.  Past the limit the session is
\* discarded, unless the copy failed as well: that error is answered first.
Counted(r) ==
    LET u == req[r].up IN
    /\ At(r, "count")
    /\ upload' = [upload EXCEPT ![u].size = @ + req[r].n]
    /\ mu' = None
    /\ \/ Answered(r)
       \/ upload'[u].size > MaxUpload /\ Goto(r, "delete")
    /\ UNCHANGED <<doc, recordVars, objectVars, starts, faults>>

\* discard: the session, then the file.
discard(r) ==
    /\ At(r, "delete") /\ mu = None
    /\ upload' = [upload EXCEPT ![req[r].up].live = FALSE]
    /\ Goto(r, "remove")
    /\ UNCHANGED <<doc, mu, recordVars, objectVars, starts, faults>>

RemoveFile(r) ==
    /\ At(r, "remove")
    /\ upload' = [upload EXCEPT ![req[r].up].linked = FALSE]
    /\ Answered(r)
    /\ UNCHANGED <<doc, mu, recordVars, objectVars, starts, faults>>

\* A session that was not written to for two hours.
reaper(u) ==
    /\ get(u)
    /\ upload' = [upload EXCEPT ![u].live = FALSE, ![u].linked = FALSE]
    /\ UNCHANGED <<doc, mu, recordVars, objectVars, req, starts, faults>>

-----------------------------------------------------------------------------
(* Requests that read the document: signedInput, hStamp, hSubmitDocument *)

\* What a submission reads: the buffered body or, as far as it has been
\* written, the file it opened, which it can read even when its name is gone.
Source(r) == IF req[r].up = None THEN req[r].body ELSE upload[req[r].up].file

Submission(u, pc) ==
    [pc |-> pc, id |-> starts + 1, up |-> u, from |-> u, size |-> 0, body |-> <<>>,
     file |-> 0, done |-> 0]

hStamp(r, u) ==
    /\ reservation # "accepted"
    /\ get(u)
    /\ Begin(r, [pc |-> "stamp", up |-> u])

\* A document that is not too large to be stamped is read, and the session discarded.
StampRead(r) ==
    /\ At(r, "stamp")
    /\ IF Linked(req[r].up) /\ upload[req[r].up].size <= MaxStamp
       THEN Goto(r, "delete") ELSE Answered(r)
    /\ UNCHANGED <<doc, uploadVars, recordVars, objectVars, starts, faults>>

\* An accepted reservation is answered with its record.
hSubmitDocument(r, u) ==
    /\ reservation # "accepted"
    /\ get(u)
    /\ Begin(r, Submission(u, "open"))

Tier(size) == IF size <= MaxVerify THEN "read" ELSE "put"

\* The document as the body of the request.
SubmitBody(r) ==
    /\ reservation # "accepted"
    /\ doc <= MaxUpload
    /\ Begin(r, [Submission(None, Tier(doc)) EXCEPT !.size = doc, !.body = Document])

\* os.Open and sess.size, without the lock.
signedInput(r) ==
    /\ At(r, "open")
    /\ LET u == req[r].up IN
       IF Linked(u)
       THEN req' = [req EXCEPT ![r].size = upload[u].size, ![r].pc = Tier(upload[u].size)]
       ELSE Answered(r)
    /\ UNCHANGED <<doc, uploadVars, recordVars, objectVars, starts, faults>>

\* A faulty variant: what was read is verified as far as the session's size.
VerifyReadSized(r) ==
    /\ At(r, "read")
    /\ IF signature = None /\ Source(r) # <<>> /\ Len(Source(r)) >= req[r].size
       THEN req' = [req EXCEPT ![r].pc = "put", ![r].up = None, ![r].body = Source(r)]
       ELSE Answered(r)
    /\ UNCHANGED <<doc, uploadVars, recordVars, objectVars, starts, faults>>

\* io.ReadAll and strictVerify: no record yet, and the bytes that were signed.
VerifyRead(r) ==
    /\ At(r, "read")
    /\ IF signature = None /\ Source(r) = Document
       THEN req' = [req EXCEPT ![r].pc = "put", ![r].up = None, ![r].body = Source(r)]
       ELSE Answered(r)
    /\ UNCHANGED <<doc, uploadVars, recordVars, objectVars, starts, faults>>

Putting(r) == req[r].pc \in {"copy", "rename"}

\* Auxiliary: r and the puts in progress, if any, overlap.
Overlap(r) ==
    LET others == {q \in Requests \ {r} : Putting(q)} IN
    clash' = IF others = {} THEN clash
             ELSE clash \cup {req[q].id : q \in others \cup {r}}

\* A faulty variant that writes the object itself.
PutOpenInPlace(r) ==
    LET f == IF object = None THEN req[r].id ELSE object IN
    /\ At(r, "put")
    /\ inode' = [inode EXCEPT ![f] = <<>>]
    /\ tmp' = f
    /\ object' = f
    /\ req' = [req EXCEPT ![r].pc = "copy", ![r].file = f]
    /\ Overlap(r)
    /\ UNCHANGED <<doc, uploadVars, recordVars, renamed, starts, faults>>

\* fsObjects.PutObjectFrom opens <key>.tmp, empty: a new file unless there is one.
PutOpen(r) ==
    LET f == IF tmp = None THEN req[r].id ELSE tmp IN
    /\ At(r, "put")
    /\ inode' = [inode EXCEPT ![f] = <<>>]
    /\ tmp' = f
    /\ req' = [req EXCEPT ![r].pc = "copy", ![r].file = f]
    /\ Overlap(r)
    /\ UNCHANGED <<doc, uploadVars, recordVars, object, renamed, starts, faults>>

\* A write at position at + 1; a gap left by a truncation reads as zeros.
Overwrite(old, at, bytes) ==
    LET end == at + Len(bytes) IN
    [i \in 1..(IF end > Len(old) THEN end ELSE Len(old)) |->
        IF i \in (at + 1)..end THEN bytes[i - at] ELSE IF i <= Len(old) THEN old[i] ELSE 0]

\* io.Copy: some bytes further, or the end of the source.  The store-only tier
\* hashes what it copies.
Copy(r) ==
    LET done == req[r].done IN
    /\ At(r, "copy")
    /\ \/ \E k \in 1..(Len(Source(r)) - done) :
             /\ inode' = [inode EXCEPT ![req[r].file] =
                             Overwrite(@, done, SubSeq(Source(r), done + 1, done + k))]
             /\ req' = [req EXCEPT ![r].done = done + k]
       \/ /\ done = Len(Source(r))
          /\ req' = [req EXCEPT ![r].pc = "rename", ![r].body = Source(r), ![r].up = None]
          /\ UNCHANGED inode
    /\ UNCHANGED <<doc, uploadVars, recordVars, tmp, object, renamed, clash, starts, faults>>

\* The copy fails: <key>.tmp is removed, whoever's it is by now.
CopyFails(r) ==
    /\ At(r, "copy") /\ Fault
    /\ tmp' = None
    /\ Answered(r)
    /\ UNCHANGED <<doc, uploadVars, recordVars, inode, object, renamed, clash, starts>>

\* os.Rename(tmp, p): an error when another put has renamed or removed it.
Rename(r) ==
    /\ At(r, "rename")
    /\ IF tmp = None
       THEN Answered(r) /\ UNCHANGED <<tmp, object, renamed>>
       ELSE object' = tmp /\ tmp' = None /\ renamed' = req[r].id /\ Goto(r, "insert")
    /\ UNCHANGED <<doc, uploadVars, recordVars, inode, clash, starts, faults>>

\* CreateSignature; the verified tier records the length of the body, the
\* store-only tier the size of the session.  A second record is a conflict.
Insert(r) ==
    /\ At(r, "insert")
    /\ IF signature = None
       THEN /\ signature' = IF Tier(req[r].size) = "read"
               THEN [by |-> req[r].id, bytes |-> req[r].body, size |-> Len(req[r].body),
                     status |-> "accepted"]
               ELSE [by |-> req[r].id, bytes |-> req[r].body, size |-> req[r].size,
                     status |-> "stored_unverified"]
            /\ Goto(r, "accept")
       ELSE Answered(r) /\ UNCHANGED signature
    /\ UNCHANGED <<doc, uploadVars, reservation, objectVars, starts, faults>>

\* SetReservationStatus, whose error is ignored; an upload is discarded.
Accept(r) ==
    /\ At(r, "accept")
    /\ \/ reservation' = "accepted" /\ UNCHANGED faults
       \/ Fault /\ UNCHANGED reservation
    /\ IF req[r].from = None THEN Answered(r)
       ELSE req' = [req EXCEPT ![r] = [pc |-> "delete", up |-> req[r].from]]
    /\ UNCHANGED <<doc, uploadVars, signature, objectVars, starts>>

\* The process dies: sessions and requests are gone, every file stays.
Restart ==
    /\ Fault
    /\ upload' = [u \in Uploads |-> IF upload[u] = None THEN None ELSE [upload[u] EXCEPT !.live = FALSE]]
    /\ mu' = None
    /\ req' = [r \in Requests |-> [pc |-> "idle"]]
    /\ UNCHANGED <<doc, recordVars, objectVars, starts>>

-----------------------------------------------------------------------------
Step(r) ==
    \/ appendChunk(r) \/ Counted(r) \/ discard(r) \/ RemoveFile(r)
    \/ StampRead(r) \/ signedInput(r) \/ VerifyRead(r)
    \/ PutOpen(r) \/ Copy(r) \/ CopyFails(r) \/ Rename(r) \/ Insert(r) \/ Accept(r)

Next ==
    \/ \E u \in Uploads : hUploadCreate(u) \/ reaper(u)
    \/ \E r \in Requests :
          \/ \E u \in Uploads :
                \/ \E offset \in 0..(doc - 1), len \in 1..doc : hUploadChunk(r, u, offset, len)
                \/ hStamp(r, u)
                \/ hSubmitDocument(r, u)
          \/ SubmitBody(r)
          \/ Step(r)
    \/ Restart

Spec == Init /\ [][Next]_vars

-----------------------------------------------------------------------------
(* Properties *)

\* A resumable upload holds the beginning of the document, whatever chunks are
\* repeated, reordered or cut off, and passes the limit by at most one byte; the
\* size a client is told to resume from is that of the file.
UploadIsPrefix ==
    \A u \in Uploads : upload[u] # None =>
        /\ upload[u].file = Bytes(0, Len(upload[u].file))
        /\ Len(upload[u].file) <= MaxUpload + 1
        /\ mu = None /\ Live(u) => upload[u].size = Len(upload[u].file)

\* The record is about bytes that belong together: an accepted one about the
\* whole signed document and its length, a stored-only one about a beginning of
\* it no shorter than the recorded size, although the size is read while chunks
\* arrive and the file is read while it grows or is discarded.
RecordIsAnUpload ==
    signature # None =>
        /\ signature.bytes = Bytes(0, Len(signature.bytes))
        /\ signature.size <= Len(signature.bytes)
        /\ signature.status = "accepted" =>
              signature.bytes = Document /\ signature.size = doc

\* The object is the document of the record as long as the recorded submission's
\* put overlapped no other and no later one succeeded: failing copies, restarts
\* in the middle of a put and what they leave behind do not show.
ObjectIsRecorded ==
    signature # None /\ signature.by = renamed /\ signature.by \notin clash =>
        object # None /\ inode[object] = signature.bytes
=============================================================================
