--------------------------- MODULE ArchiveUpload ---------------------------
(***************************************************************************)
(* One resumable upload of the archive (api/internal/httpapi/archive.go):  *)
(* PATCH chunks, POST complete and DELETE requests of its sender, running  *)
(* concurrently, the janitor, and the four places the upload lives in: the *)
(* archive_upload row, the scratch file, the in-memory uploadRT (a lock    *)
(* and the running hashes) and, once archived, the object store and the    *)
(* archive_item row.                                                       *)
(*                                                                         *)
(* The byte at position i of the sender's file is the number i, so a file  *)
(* or hash is right exactly when it is 1, 2, ..., and a digest is modelled *)
(* by the sequence that was fed to it.                                     *)
(***************************************************************************)
EXTENDS Integers, Sequences, FiniteSets

CONSTANTS
    Requests,     \* request goroutines
    Size,         \* declared size of the file
    None,         \* no file, no hash, no owner
    MaxStarts,    \* bound: requests started
    MaxFaults,    \* bound: failures, of different kinds
    FaultKinds    \* the failures that happen

AllFaults == {"body", "update", "lostUpdate", "commit", "lostCommit", "delete",
              "corrupt", "store", "janitor", "crash"}

ASSUME ArchiveAssumption ==
    /\ Size \in Nat \ {0}
    /\ MaxStarts \in Nat
    /\ MaxFaults \in Nat
    /\ FaultKinds \subseteq AllFaults
    /\ None \notin Requests
    /\ None \notin Seq(Nat)

VARIABLES
    status, received,   \* the archive_upload row
    temp,               \* the scratch file, or None
    rts,                \* every uploadRT ever made: lock owner, n and hashes
    current,            \* the one in arch.uploads, 0 for none
    req,                \* the running requests
    objects,            \* object store: the bytes under each key
    items,              \* archive_item rows: [key, sum]
    acked,              \* keys whose complete was answered 201
    janitor,            \* TRUE between the janitor's UPDATE and its clean-up
    starts,             \* requests so far (bound only)
    faults              \* the kinds of failure that have happened

rowVars == <<status, received>>
rtVars == <<rts, current>>
storeVars == <<objects, items, acked>>
boundVars == <<starts, faults>>
vars == <<rowVars, temp, rtVars, req, storeVars, janitor, boundVars>>

Bytes(n) == [i \in 1..n |-> i]

Idle == [op |-> "none", pc |-> "idle", rt |-> 0, offset |-> 0, n |-> 0, key |-> 0]

\* archiveCreateUpload has made the row and the empty scratch file.
Init ==
    /\ status = "open"
    /\ received = 0
    /\ temp = <<>>
    /\ rts = <<>>
    /\ current = 0
    /\ req = [r \in Requests |-> Idle]
    /\ objects = <<>>
    /\ items = {}
    /\ acked = {}
    /\ janitor = FALSE
    /\ starts = 0
    /\ faults = {}

-----------------------------------------------------------------------------
(* What the requests share *)

Faults(kinds) ==
    /\ kinds \subseteq FaultKinds \ faults
    /\ Cardinality(faults \cup kinds) <= MaxFaults
    /\ faults' = faults \cup kinds

Fault(kind) == Faults({kind})

FreshRT == [owner |-> None, n |-> 0, h |-> None]

\* A request begins.  archiveAbort looks at the row before it takes the lock.
Start(r, op) ==
    /\ req[r].pc = "idle"
    /\ starts < MaxStarts
    /\ op = "abort" => status = "open"
    /\ starts' = starts + 1
    /\ req' = [req EXCEPT ![r] = [Idle EXCEPT !.op = op, !.pc = "rt"]]
    /\ UNCHANGED <<rowVars, temp, rtVars, storeVars, janitor, faults>>

\* s.uploadRT(id)
GetRT(r) ==
    /\ req[r].pc = "rt"
    /\ IF current = 0
       THEN rts' = Append(rts, FreshRT) /\ current' = Len(rts) + 1
       ELSE UNCHANGED rtVars
    /\ req' = [req EXCEPT ![r].pc = "lock", ![r].rt = current']
    /\ UNCHANGED <<rowVars, temp, storeVars, janitor, boundVars>>

\* A faulty variant that does not wait for the lock.
LockAnyway(r) ==
    /\ req[r].pc = "lock"
    /\ rts' = [rts EXCEPT ![req[r].rt].owner = r]
    /\ req' = [req EXCEPT ![r].pc = "locked"]
    /\ UNCHANGED <<rowVars, temp, current, storeVars, janitor, boundVars>>

Lock(r) ==
    /\ req[r].pc = "lock"
    /\ rts[req[r].rt].owner = None
    /\ rts' = [rts EXCEPT ![req[r].rt].owner = r]
    /\ req' = [req EXCEPT ![r].pc = "locked"]
    /\ UNCHANGED <<rowVars, temp, current, storeVars, janitor, boundVars>>

\* The handler answers; its deferred Unlock runs.  rt is what it leaves in its
\* uploadRT.
Leave(r, rt) ==
    /\ rts' = [rts EXCEPT ![req[r].rt] = [rt EXCEPT !.owner = None]]
    /\ req' = [req EXCEPT ![r] = Idle]

MyRT(r) == rts[req[r].rt]

Goto(r, pc) == req' = [req EXCEPT ![r].pc = pc]

\* ensureHashes: the state it leaves, h = None when it returned an error.
ensureHashes(rt, n) ==
    IF rt.h # None /\ rt.n = n THEN rt
    ELSE IF n = 0 THEN [rt EXCEPT !.h = <<>>, !.n = 0]
    ELSE IF temp = None THEN [rt EXCEPT !.h = None, !.n = 0]
    ELSE IF Len(temp) < n THEN [rt EXCEPT !.h = None, !.n = 0]
    ELSE [rt EXCEPT !.h = SubSeq(temp, 1, n), !.n = n]

-----------------------------------------------------------------------------
(* archiveUploadChunk *)

\* A faulty variant that returns without the Unlock.
ChunkRefusedLocked(r) ==
    /\ req[r].op = "chunk" /\ req[r].pc = "locked"
    /\ req' = [req EXCEPT ![r] = Idle]
    /\ UNCHANGED <<rowVars, temp, rtVars, storeVars, janitor, boundVars>>

\* Not open, or the Upload-Offset is not what the server has.
ChunkRefused(r) ==
    /\ req[r].op = "chunk" /\ req[r].pc = "locked"
    /\ Leave(r, MyRT(r))
    /\ UNCHANGED <<rowVars, temp, current, storeVars, janitor, boundVars>>

\* A faulty variant that takes the client's word for the offset.
ChunkAcceptedAnywhere(r) ==
    /\ req[r].op = "chunk" /\ req[r].pc = "locked"
    /\ status = "open"
    /\ \E o \in 0..Size : req' = [req EXCEPT ![r].pc = "copy", ![r].offset = o]
    /\ UNCHANGED <<rowVars, temp, rtVars, storeVars, janitor, boundVars>>

ChunkAccepted(r) ==
    /\ req[r].op = "chunk" /\ req[r].pc = "locked"
    /\ status = "open"
    /\ req' = [req EXCEPT ![r].pc = "copy", ![r].offset = received]
    /\ UNCHANGED <<rowVars, temp, rtVars, storeVars, janitor, boundVars>>

\* The file after data was written at offset o (a gap would read as 0).
Write(file, o, data) ==
    [i \in 1..(IF Len(file) > o + Len(data) THEN Len(file) ELSE o + Len(data)) |->
        IF i > o /\ i <= o + Len(data) THEN data[i - o]
        ELSE IF i <= Len(file) THEN file[i] ELSE 0]

Truncate(file, n) == [i \in 1..n |-> IF i <= Len(file) THEN file[i] ELSE 0]

\* The hash state or the file is not there.
CopyFails(r) ==
    LET rt == ensureHashes(MyRT(r), req[r].offset) IN
    /\ req[r].pc = "copy"
    /\ rt.h = None \/ temp = None
    /\ Leave(r, rt)
    /\ UNCHANGED <<rowVars, temp, current, storeVars, janitor, boundVars>>

\* At most one byte more than fits is read.  The bytes may arrive damaged; a
\* connection that breaks leaves what had arrived.
Copy(r) ==
    LET rt == ensureHashes(MyRT(r), req[r].offset)
        o == req[r].offset
        Receive(data, pc) ==
            /\ temp' = Write(temp, o, data)
            /\ rts' = [rts EXCEPT ![req[r].rt] = [rt EXCEPT !.h = rt.h \o data]]
            /\ req' = [req EXCEPT ![r].pc = pc, ![r].n = Len(data)]
    IN  /\ req[r].pc = "copy"
        /\ rt.h # None /\ temp # None
        /\ \E n \in 0..(Size - o + 1) :
              \/ Receive([i \in 1..n |-> o + i], "copied") /\ UNCHANGED faults
              \/ Receive([i \in 1..n |-> 0], "copied") /\ Fault("corrupt")
              \/ Receive([i \in 1..n |-> o + i], "undo") /\ Fault("body")
        /\ UNCHANGED <<rowVars, current, storeVars, janitor, starts>>

\* rollback: the file is cut back and the hashes are dropped.
Rollback(r) ==
    /\ temp' = IF temp = None THEN None ELSE Truncate(temp, req[r].offset)
    /\ Leave(r, [MyRT(r) EXCEPT !.n = 0, !.h = None])
    /\ UNCHANGED <<current, storeVars, janitor, starts>>

TooMuch(r) == req[r].n > Size - req[r].offset

ChunkUndone(r) ==
    /\ \/ req[r].pc = "undo"
       \/ req[r].pc = "copied" /\ TooMuch(r)
    /\ Rollback(r)
    /\ UNCHANGED <<rowVars, faults>>

\* rt.n is advanced, then the row.
ChunkRecorded(r) ==
    /\ req[r].pc = "copied" /\ ~ TooMuch(r)
    /\ received' = req[r].offset + req[r].n
    /\ Leave(r, [MyRT(r) EXCEPT !.n = req[r].offset + req[r].n])
    /\ UNCHANGED <<status, temp, current, storeVars, janitor, boundVars>>

\* The UPDATE returns an error: it did not happen, or it did and the answer
\* was lost (the request's context is cancelled when the client goes away).
ChunkUpdateFails(r) ==
    /\ req[r].pc = "copied" /\ ~ TooMuch(r)
    /\ \/ Fault("update") /\ UNCHANGED received
       \/ Fault("lostUpdate") /\ received' = req[r].offset + req[r].n
    /\ Rollback(r)
    /\ UNCHANGED status

-----------------------------------------------------------------------------
(* archiveAbort, past the lock *)

Abort(r) ==
    /\ req[r].op = "abort" /\ req[r].pc = "locked"
    /\ \/ status' = "aborted" /\ UNCHANGED faults
       \/ Fault("update") /\ UNCHANGED status
    /\ Goto(r, "cleanup")
    /\ UNCHANGED <<received, temp, rtVars, storeVars, janitor, starts>>

-----------------------------------------------------------------------------
(* archiveComplete and archiveFinalize *)

CompleteRefused(r) ==
    /\ req[r].op = "complete" /\ req[r].pc = "locked"
    /\ Leave(r, MyRT(r))
    /\ UNCHANGED <<rowVars, temp, current, storeVars, janitor, boundVars>>

CompleteAccepted(r) ==
    /\ req[r].op = "complete" /\ req[r].pc = "locked"
    /\ status = "open"
    /\ received = Size
    /\ Goto(r, "sum")
    /\ UNCHANGED <<rowVars, temp, rtVars, storeVars, janitor, boundVars>>

\* client_sha256 is the digest of the file the browser has.
ClientSum == Bytes(Size)

\* A faulty variant that does not compare with the browser's digest.
SumUnchecked(r) ==
    LET rt == ensureHashes(MyRT(r), Size) IN
    /\ req[r].pc = "sum"
    /\ IF rt.h = None
       THEN Leave(r, rt)
       ELSE Goto(r, "put") /\ rts' = [rts EXCEPT ![req[r].rt] = rt]
    /\ UNCHANGED <<rowVars, temp, current, storeVars, janitor, boundVars>>

Sum(r) ==
    LET rt == ensureHashes(MyRT(r), Size) IN
    /\ req[r].pc = "sum"
    /\ IF rt.h = None \/ rt.h # ClientSum
       THEN Leave(r, rt)
       ELSE Goto(r, "put") /\ rts' = [rts EXCEPT ![req[r].rt] = rt]
    /\ UNCHANGED <<rowVars, temp, current, storeVars, janitor, boundVars>>

\* PutStream of Size bytes of the scratch file under a fresh key.  The store
\* may fail, or keep something else.
Put(r) ==
    LET Stored(bytes) ==
            /\ objects' = Append(objects, bytes)
            /\ req' = [req EXCEPT ![r].pc = "readback", ![r].key = Len(objects) + 1]
            /\ UNCHANGED rts
        Failed == Leave(r, MyRT(r)) /\ UNCHANGED objects
        readable == IF temp = None THEN FALSE ELSE Len(temp) >= Size
    IN  /\ req[r].pc = "put"
        /\ \/ ~ readable /\ Failed /\ UNCHANGED faults
           \/ readable /\ Stored(SubSeq(temp, 1, Size)) /\ UNCHANGED faults
           \/ readable /\ Stored(Truncate(<<>>, Size)) /\ Fault("store")
           \/ readable /\ Failed /\ Fault("store")
        /\ UNCHANGED <<rowVars, temp, current, items, acked, janitor, starts>>

\* A faulty variant that leaves the object.
DeleteObjectNever(r, failures) == Faults(failures) /\ UNCHANGED objects

\* The deferred Delete of the object after the given failures; its own error is
\* ignored.
DeleteObject(r, failures) ==
    \/ Faults(failures) /\ objects' = [objects EXCEPT ![req[r].key] = None]
    \/ Faults(failures \cup {"delete"}) /\ UNCHANGED objects

ReadBack(r) ==
    /\ req[r].pc = "readback"
    /\ IF objects[req[r].key] = MyRT(r).h
       THEN Goto(r, "commit") /\ UNCHANGED <<rts, objects, faults>>
       ELSE Leave(r, MyRT(r)) /\ DeleteObject(r, {})
    /\ UNCHANGED <<rowVars, temp, current, items, acked, janitor, starts>>

Item(r) == [key |-> req[r].key, sum |-> MyRT(r).h]

Commit(r) ==
    /\ req[r].pc = "commit"
    /\ items' = items \cup {Item(r)}
    /\ Goto(r, "finish")
    /\ UNCHANGED <<rowVars, temp, rtVars, objects, acked, janitor, boundVars>>

\* A faulty variant that carries on after the error.
CommitFailsIgnored(r) ==
    /\ req[r].pc = "commit"
    /\ Fault("commit")
    /\ Goto(r, "finish")
    /\ UNCHANGED <<rowVars, temp, rtVars, storeVars, janitor, starts>>

\* The database step returns an error: nothing was committed, or it was and
\* the answer was lost.  Either way the object is deleted.
CommitFails(r) ==
    /\ req[r].pc = "commit"
    /\ \/ DeleteObject(r, {"commit"}) /\ UNCHANGED items
       \/ DeleteObject(r, {"lostCommit"}) /\ items' = items \cup {Item(r)}
    /\ Leave(r, MyRT(r))
    /\ UNCHANGED <<rowVars, temp, current, acked, janitor, starts>>

\* UPDATE ... 'completed', its error ignored.
Finish(r) ==
    /\ req[r].pc = "finish"
    /\ \/ status' = "completed" /\ UNCHANGED faults
       \/ Fault("update") /\ UNCHANGED status
    /\ Goto(r, "cleanup")
    /\ UNCHANGED <<received, temp, rtVars, storeVars, janitor, starts>>

\* os.Remove, dropUploadRT and the answer, of complete and of abort.
Cleanup(r) ==
    /\ req[r].pc = "cleanup"
    /\ temp' = None
    /\ current' = 0
    /\ acked' = IF req[r].op = "complete" THEN acked \cup {req[r].key} ELSE acked
    /\ Leave(r, MyRT(r))
    /\ UNCHANGED <<rowVars, objects, items, janitor, boundVars>>

-----------------------------------------------------------------------------
(* The janitor, a crash of the process, and the specification *)

\* The janitor's UPDATE of an expired upload; it takes no lock.
JanitorSweeps ==
    /\ status = "open" /\ ~ janitor
    /\ Fault("janitor")
    /\ status' = "aborted"
    /\ janitor' = TRUE
    /\ UNCHANGED <<received, temp, rtVars, req, storeVars, starts>>

\* os.Remove and dropUploadRT, later.
JanitorCleans ==
    /\ janitor
    /\ janitor' = FALSE
    /\ temp' = None
    /\ current' = 0
    /\ UNCHANGED <<rowVars, rts, req, storeVars, boundVars>>

\* Requests and memory are lost, an open database transaction is rolled back;
\* rows, scratch file and object store stay.
Crash ==
    /\ Fault("crash")
    /\ rts' = <<>> /\ current' = 0
    /\ req' = [r \in Requests |-> Idle]
    /\ janitor' = FALSE
    /\ UNCHANGED <<rowVars, temp, storeVars, starts>>

ChunkStep(r) ==
    \/ ChunkRefused(r) \/ ChunkAccepted(r) \/ CopyFails(r) \/ Copy(r)
    \/ ChunkUndone(r) \/ ChunkRecorded(r) \/ ChunkUpdateFails(r)

CompleteStep(r) ==
    \/ CompleteRefused(r) \/ CompleteAccepted(r) \/ Sum(r) \/ Put(r)
    \/ ReadBack(r) \/ Commit(r) \/ CommitFails(r) \/ Finish(r)

\* What a request does once it holds the lock.
Work(r) == ChunkStep(r) \/ CompleteStep(r) \/ Abort(r) \/ Cleanup(r)

Next ==
    \/ \E r \in Requests :
          \/ \E op \in {"chunk", "complete", "abort"} : Start(r, op)
          \/ GetRT(r) \/ Lock(r) \/ Work(r)
    \/ JanitorSweeps \/ JanitorCleans \/ Crash

Spec == Init /\ [][Next]_vars

\* Goroutines are scheduled, and sync.Mutex does not starve a waiter: a waiter
\* that fails to get it for 1ms is handed it directly.
FairSpec ==
    /\ Spec
    /\ \A r \in Requests :
          WF_vars(GetRT(r)) /\ SF_vars(Lock(r)) /\ WF_vars(Work(r))

-----------------------------------------------------------------------------
(* Properties *)

Quiet == \A r \in Requests : req[r].pc = "idle"

\* When no request runs, an open upload can be continued from the offset GET
\* reports: the scratch file holds at least that many bytes, whatever chunks
\* were cut off, oversized, refused or damaged before and wherever the process
\* died, unless an UPDATE of the row failed.
CanResume ==
    (status = "open" /\ Quiet /\ faults \cap {"update", "lostUpdate"} = {}) =>
        /\ temp # None
        /\ Len(temp) >= received

\* An archived item records the digest of the sender's own file, and its
\* object, if it is there, holds exactly that file: a damaged chunk, an object
\* store that keeps something else, a janitor that removes the scratch file
\* half-way, a crash or a second complete never make it something else.
ArchivedIsWhatWasSent ==
    \A item \in items :
        /\ item.sum = Bytes(Size)
        /\ objects[item.key] \in {None, Bytes(Size)}

\* An upload whose complete was answered 201 stays archived: the item is
\* recorded and its object is there with the sender's bytes, whatever happens
\* afterwards.
AckedIsDurable ==
    \A k \in acked :
        /\ \E item \in items : item.key = k
        /\ objects[k] = Bytes(Size)

\* One upload makes one item: two completes at once, or a complete repeated
\* after an error, do not archive the file twice.  Only a crash after the
\* commit, or a commit that was reported as failed, lets it happen.
OneItemPerUpload ==
    faults \cap {"crash", "lostCommit"} = {} => \A i, j \in items : i = j

ItemsAndObjectsAgree ==
    {k \in DOMAIN objects : objects[k] # None} = {item.key : item \in items}

\* When no request runs, items and objects agree: every item has its object and
\* every object belongs to an item, unless the process died in between or the
\* answer of the commit or the clean-up of the object was lost.
AllOrNothing ==
    (Quiet /\ faults \cap {"crash", "lostCommit", "delete"} = {}) => ItemsAndObjectsAgree

\* Every request is answered: no chunk, complete or abort waits for ever for
\* the lock of an upload.
EveryRequestIsAnswered ==
    \A r \in Requests : (req[r].pc # "idle") ~> (req[r].pc = "idle")
=============================================================================
