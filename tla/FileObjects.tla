---------------------------- MODULE FileObjects ----------------------------
(* The life of a stored file: the finalizer that turns a completed upload    *)
(* into a deduplicated file object (internal/uploads/finalize.go), the       *)
(* maintenance pass that collects and reconciles file objects                *)
(* (internal/files/service.go), and the message operations that create and   *)
(* drop references to them (internal/messages/attachments.go).               *)
(*                                                                           *)
(* Every action is one access to shared state: a PostgreSQL transaction, a   *)
(* filesystem call on the NAS, or a call on the VM staging directory.  The   *)
(* actors are one finalizer per upload (a request holding the upload's       *)
(* exclusive lock), the single scheduler goroutine (here the "sweep"), and   *)
(* message requests.  A crash loses everything that is not in the database   *)
(* or on a disk.                                                             *)
EXTENDS Naturals, FiniteSets, Sums

CONSTANTS
    Uploads,       \* upload session ids
    Contents,      \* (sha256, size) pairs
    Objs,          \* file object ids handed out by ids.New(); a named bound
    Messages,      \* message ids
    ContentOf,     \* what the client uploaded in each session
    SizeOf,        \* bytes of each content
    Images,        \* contents whose MIME type gets a thumbnail job
    MaxStorage,    \* system_settings.max_storage_bytes
    FinalizeSlots, \* FILE_FINALIZE_CONCURRENCY
    MaxCrashes,    \* bound on process crashes
    MaxFaults,     \* bound on I/O or database errors met by the sweep
    None

ASSUME ContentsAssumption ==
    /\ ContentOf \in [Uploads -> Contents]
    /\ SizeOf \in [Contents -> Nat]
    /\ Images \subseteq Contents
ASSUME BoundsAssumption ==
    /\ MaxStorage \in Nat
    /\ FinalizeSlots \in Nat \ {0}
    /\ MaxCrashes \in Nat
    /\ MaxFaults \in Nat
ASSUME NoneAssumption == None \notin Objs \cup Messages \cup Contents

VARIABLES
    sess,      \* upload_sessions.status
    sessObj,   \* upload_sessions.file_object_id
    consumed,  \* sessions with consumed_at set
    leaseOld,  \* sessions whose completed_at is 24 hours old
    staged,    \* uploads with a staging file on the VM
    row,       \* file_objects.status; "ABSENT" is an id not handed out yet
    rowContent,\* file_objects.(sha256, size_bytes)
    readyOld,  \* objects whose ready_at is 24 hours old
    temp,      \* .commit-tmp/<id>
    final,     \* objects/<id>
    attach,    \* message_attachments: <<message, upload (its filename), object>>
    job,       \* the thumbnail background job of an object
    finPc,     \* where each upload's finalizer stands
    finObj,    \* the file object it works on
    fwd,       \* the forward transaction in progress
    swPc,      \* where the sweep stands
    swPend,    \* PENDING rows of the page Reconcile read, not handled yet
    swDel,     \* DELETING rows of that page, not handled yet
    swObj,     \* the row Reconcile is handling
    gcCand,    \* rows the GC's SELECT returned
    gcSess,    \* sessions the GC transaction has deleted, not committed
    mode,      \* "start" until the startup Reconcile is done, then "up"
    crashes, faults

sessVars == <<sess, sessObj, consumed, leaseOld, staged>>
rowVars  == <<row, rowContent, readyOld>>
fileVars == <<temp, final>>
refVars  == <<attach, job>>
finVars  == <<finPc, finObj>>
swVars   == <<swPc, swPend, swDel, swObj, gcCand, gcSess>>
procVars == <<mode, crashes, faults>>
vars == <<sessVars, rowVars, fileVars, refVars, finVars, fwd, swVars, procVars>>

SessionStatus == {"UPLOADING", "COMPLETING", "COMPLETED", "FAILED", "DELETED"}
LiveRow == {"PENDING", "READY", "DELETING"}
RowStatus == LiveRow \cup {"ABSENT", "GONE"}
FileState == {"none", "partial", "full"}
NoForward == [src |-> None, dst |-> None, items |-> {}]

\* Steps of Finalize before the content lock is taken, after it, and after
\* the reservation of a PENDING row.
BeforeLock == {"idle", "acquire", "hash", "find"}
Reserved   == {"mktemp", "copy", "rename", "exists", "statFinal", "ready",
               "dropTemp", "dropRow"}
UnderLock  == Reserved \cup {"recStat", "recTemp", "recRow", "recReady",
                             "reserve", "complete", "unstage"}
FinPc == BeforeLock \cup UnderLock
SwPc == {"idle", "gcMark", "scan", "pick", "rTemp", "rRow", "rReady", "dRow"}

----------------------------------------------------------------------------
(* Queries *)

\* SELECT ... FROM file_objects WHERE sha256=$1 AND size_bytes=$2
RowsFor(c) == {o \in Objs : row[o] \in LiveRow /\ rowContent[o] = c}

\* NOT EXISTS(SELECT 1 FROM message_attachments WHERE file_object_id=$1)
Attached(o) == \E a \in attach : a[3] = o

\* A completed upload is a 24 hour lease on its object until it is consumed.
Leased(o) == \E u \in Uploads : /\ sess[u] = "COMPLETED"
                                /\ sessObj[u] = o
                                /\ u \notin consumed
                                /\ u \notin leaseOld

\* The conditions that the GC's SELECT and its UPDATE share.
Unreferenced(o) == ~Attached(o) /\ ~Leased(o) /\ job[o] # "live"

\* SELECT SUM(size_bytes) over PENDING, READY and DELETING rows
LiveObjs == {o \in Objs : row[o] \in LiveRow}
RowSize == [o \in LiveObjs |-> SizeOf[rowContent[o]]]
StorageUsed == SumOver(RowSize, LiveObjs)

----------------------------------------------------------------------------
(* The finalizer *)

\* The finalizer of u moves on, holding o; returning forgets it.
FinTake(u, pc, o) ==
    /\ finPc' = [finPc EXCEPT ![u] = pc]
    /\ finObj' = [finObj EXCEPT ![u] = IF pc = "idle" THEN None ELSE o]
FinGoto(u, pc) == FinTake(u, pc, finObj[u])

\* Complete: the session becomes (or already is) COMPLETING and, still under
\* the upload's exclusive lock, Finalize starts.
CompleteUpload(u) ==
    /\ mode = "up" /\ finPc[u] = "idle"
    /\ sess[u] \in {"UPLOADING", "COMPLETING"}
    /\ sess' = [sess EXCEPT ![u] = "COMPLETING"]
    /\ FinGoto(u, "acquire")
    /\ UNCHANGED <<sessObj, consumed, leaseOld, staged, rowVars, fileVars,
                   refVars, fwd, swVars, procVars>>

\* A finalize slot is held from here to the return of Finalize.
AcquireSlot(u) ==
    /\ finPc[u] = "acquire"
    /\ Cardinality({v \in Uploads : finPc[v] \notin {"idle", "acquire"}})
           < FinalizeSlots
    /\ FinGoto(u, "hash")
    /\ UNCHANGED <<sessVars, rowVars, fileVars, refVars, fwd, swVars,
                   procVars>>

HashStaging(u) ==
    /\ finPc[u] = "hash"
    /\ u \in staged
    /\ FinGoto(u, "find")
    /\ UNCHANGED <<sessVars, rowVars, fileVars, refVars, fwd, swVars,
                   procVars>>

\* The staging file is missing, short or unreadable.
MarkFailed(u) ==
    /\ finPc[u] = "hash"
    /\ sess' = IF sess[u] = "COMPLETING" THEN [sess EXCEPT ![u] = "FAILED"]
                                         ELSE sess
    /\ FinGoto(u, "idle")
    /\ UNCHANGED <<sessObj, consumed, leaseOld, staged, rowVars, fileVars,
                   refVars, fwd, swVars, procVars>>

\* Mutant: the content lock is keyed by the upload and excludes nobody.
ContentLockPerUpload(u) == TRUE

\* contentFinalizeLocks: one finalizer per (hash, size) past the lookup.
ContentLockFree(u) ==
    \A v \in Uploads \ {u} :
        ContentOf[v] = ContentOf[u] => finPc[v] \notin UnderLock

\* What Finalize does with the row that the lookup returned.
OnFound == [PENDING |-> "recStat", READY |-> "complete", DELETING |-> "idle"]

Find(u) ==
    /\ finPc[u] = "find"
    /\ ContentLockFree(u)
    /\ \/ /\ RowsFor(ContentOf[u]) = {}
          /\ FinGoto(u, "reserve")
       \/ \E o \in RowsFor(ContentOf[u]) :
             FinTake(u, OnFound[row[o]], o)
    /\ UNCHANGED <<sessVars, rowVars, fileVars, refVars, fwd, swVars, procVars>>

\* reconcilePending: no final file means the reservation is dropped, a final
\* file of the right size and hash means it becomes READY.
RecStat(u) ==
    /\ finPc[u] = "recStat"
    /\ FinGoto(u, CASE final[finObj[u]] = "none" -> "recTemp"
                     [] final[finObj[u]] = "full" -> "recReady"
                     [] OTHER -> "idle")
    /\ UNCHANGED <<sessVars, rowVars, fileVars, refVars, fwd, swVars,
                   procVars>>

RecTemp(u) ==
    /\ finPc[u] = "recTemp"
    /\ temp' = [temp EXCEPT ![finObj[u]] = "none"]
    /\ FinGoto(u, "recRow")
    /\ UNCHANGED <<sessVars, rowVars, final, refVars, fwd, swVars,
                   procVars>>

RecRow(u) ==
    /\ finPc[u] = "recRow"
    /\ IF /\ row[finObj[u]] = "PENDING"
          /\ ~Attached(finObj[u])
          /\ \A v \in Uploads : sessObj[v] # finObj[u]
       THEN /\ row' = [row EXCEPT ![finObj[u]] = "GONE"]
            /\ FinGoto(u, "reserve")
       ELSE /\ FinGoto(u, "idle")
            /\ UNCHANGED row
    /\ UNCHANGED <<sessVars, rowContent, readyOld, fileVars, refVars, fwd, swVars, procVars>>

\* Mutant: the UPDATE to READY lacks AND status='PENDING'.
RecReadyUnconditional(u) ==
    /\ finPc[u] = "recReady"
    /\ row' = [row EXCEPT ![finObj[u]] = "READY"]
    /\ FinGoto(u, "complete")
    /\ UNCHANGED <<sessVars, rowContent, readyOld, fileVars, refVars, fwd, swVars,
                   procVars>>

RecReady(u) ==
    /\ finPc[u] = "recReady"
    /\ IF row[finObj[u]] = "PENDING"
       THEN /\ row' = [row EXCEPT ![finObj[u]] = "READY"]
            /\ FinGoto(u, "complete")
       ELSE /\ FinGoto(u, "idle")
            /\ UNCHANGED row
    /\ UNCHANGED <<sessVars, rowContent, readyOld, fileVars, refVars, fwd, swVars, procVars>>

\* Mutant: DELETING rows are left out of the sum.
WithinQuotaLive(c) ==
    SumOver(RowSize, {o \in Objs : row[o] \in {"PENDING", "READY"}})
      + SizeOf[c] <= MaxStorage

\* The quota test of reservePending.
WithinQuota(c) == StorageUsed + SizeOf[c] <= MaxStorage

\* reservePending, one transaction under an advisory lock.  A row that is
\* already there is treated like one that the lookup found.  (Finalize tries
\* this twice and then gives up; here it may try again.)
Reserve(u) ==
    LET c == ContentOf[u] IN
    /\ finPc[u] = "reserve"
    /\ IF RowsFor(c) = {}
       THEN /\ WithinQuota(c)
            /\ \E o \in Objs :
                 /\ row[o] = "ABSENT"
                 /\ row' = [row EXCEPT ![o] = "PENDING"]
                 /\ rowContent' = [rowContent EXCEPT ![o] = c]
                 /\ FinTake(u, "mktemp", o)
       ELSE \E o \in RowsFor(c) :
                 /\ FinTake(u, OnFound[row[o]], o)
                 /\ UNCHANGED <<row, rowContent>>
    /\ UNCHANGED <<sessVars, readyOld, fileVars, refVars, fwd, swVars, procVars>>

----------------------------------------------------------------------------
(* The finalizer after the reservation *)

\* Any stale temp is removed, then the temp is created with O_EXCL.
CreateCommitTemp(u) ==
    /\ finPc[u] = "mktemp"
    /\ temp' = [temp EXCEPT ![finObj[u]] = "partial"]
    /\ FinGoto(u, "copy")
    /\ UNCHANGED <<sessVars, rowVars, final, refVars, fwd, swVars,
                   procVars>>

\* Copy, fsync and close.  If the sweep unlinked the temp meanwhile, the bytes
\* go to an inode without a name.
CopyAndSync(u) ==
    /\ finPc[u] = "copy"
    /\ temp' = IF temp[finObj[u]] = "none" THEN temp
               ELSE [temp EXCEPT ![finObj[u]] = "full"]
    /\ FinGoto(u, "rename")
    /\ UNCHANGED <<sessVars, rowVars, final, refVars, fwd, swVars,
                   procVars>>

\* Commit: rename(2) followed by fsync of the directory.  The rename may have
\* happened although Commit returns an error.
Commit(u) ==
    /\ finPc[u] = "rename"
    /\ temp[finObj[u]] # "none" /\ final[finObj[u]] = "none"
    /\ final' = [final EXCEPT ![finObj[u]] = temp[finObj[u]]]
    /\ temp' = [temp EXCEPT ![finObj[u]] = "none"]
    /\ \E synced \in BOOLEAN : FinGoto(u, IF synced THEN "statFinal" ELSE "exists")
    /\ UNCHANGED <<sessVars, rowVars, refVars, fwd, swVars, procVars>>

\* finalExists after a failed Commit decides whether the row is kept.
FinalExists(u) ==
    /\ finPc[u] = "exists"
    /\ FinGoto(u, IF final[finObj[u]] = "none" THEN "dropTemp" ELSE "idle")
    /\ UNCHANGED <<sessVars, rowVars, fileVars, refVars, fwd, swVars,
                   procVars>>

StatFinal(u) ==
    /\ finPc[u] = "statFinal"
    /\ FinGoto(u, IF final[finObj[u]] = "full" THEN "ready" ELSE "idle")
    /\ UNCHANGED <<sessVars, rowVars, fileVars, refVars, fwd, swVars,
                   procVars>>

\* The session's half of completeWith and readyAndComplete.
CompleteSession(u) ==
    /\ sess' = [sess EXCEPT ![u] = "COMPLETED"]
    /\ sessObj' = [sessObj EXCEPT ![u] = finObj[u]]
    /\ UNCHANGED <<consumed, leaseOld, staged>>

\* One transaction: the row becomes READY and the session COMPLETED, or
\* neither does.
ReadyAndComplete(u) ==
    /\ finPc[u] = "ready"
    /\ IF sess[u] = "COMPLETING" /\ row[finObj[u]] = "PENDING"
       THEN /\ row' = [row EXCEPT ![finObj[u]] = "READY"]
            /\ CompleteSession(u)
            /\ FinGoto(u, "unstage")
       ELSE /\ FinGoto(u, "idle")
            /\ UNCHANGED <<row, sessVars>>
    /\ UNCHANGED <<rowContent, readyOld, fileVars, refVars, fwd, swVars,
                   procVars>>

\* Mutant: the status found by the lookup is trusted.
MayCompleteStale(u) == sess[u] = "COMPLETING"

\* completeWith locks the session and then the object, and looks again at
\* both: the object was READY when it was looked up, but the GC may have
\* marked it since.
MayComplete(u) == sess[u] = "COMPLETING" /\ row[finObj[u]] = "READY"

CompleteWith(u) ==
    /\ finPc[u] = "complete"
    /\ IF MayComplete(u)
       THEN CompleteSession(u) /\ FinGoto(u, "unstage")
       ELSE FinGoto(u, "idle") /\ UNCHANGED sessVars
    /\ UNCHANGED <<rowVars, fileVars, refVars, fwd, swVars, procVars>>

DeleteStaging(u) ==
    /\ finPc[u] = "unstage"
    /\ staged' = staged \ {u}
    /\ FinGoto(u, "idle")
    /\ UNCHANGED <<sess, sessObj, consumed, leaseOld, rowVars, fileVars, refVars,
                   fwd, swVars, procVars>>

\* The deferred cleanup of a reservation that produced no final file.
DropTemp(u) ==
    /\ finPc[u] = "dropTemp"
    /\ temp' = [temp EXCEPT ![finObj[u]] = "none"]
    /\ FinGoto(u, "dropRow")
    /\ UNCHANGED <<sessVars, rowVars, final, refVars, fwd, swVars,
                   procVars>>

DropRow(u) ==
    /\ finPc[u] = "dropRow"
    /\ row' = IF row[finObj[u]] = "PENDING"
              THEN [row EXCEPT ![finObj[u]] = "GONE"] ELSE row
    /\ FinGoto(u, "idle")
    /\ UNCHANGED <<sessVars, rowContent, readyOld, fileVars, refVars, fwd, swVars, procVars>>

\* Mutant: a short write goes on to the rename.
OnErrorShortWrite(pc) == CASE pc = "mktemp" -> "dropTemp"
                           [] pc = "copy" -> "rename"
                           [] pc = "rename" -> "exists"
                           [] pc = "dropTemp" -> "dropRow"
                           [] OTHER -> "idle"

\* Where Finalize goes when the access at pc fails (an I/O or database error,
\* a quota refusal, or the client going away): the deferred cleanup runs from
\* the reservation until the final file may exist.
OnError(pc) == CASE pc \in {"mktemp", "copy"} -> "dropTemp"
                 [] pc = "rename" -> "exists"
                 [] pc = "dropTemp" -> "dropRow"
                 [] OTHER -> "idle"

FinError(u) ==
    /\ finPc[u] # "idle"
    /\ FinGoto(u, OnError(finPc[u]))
    /\ UNCHANGED <<sessVars, rowVars, fileVars, refVars, fwd, swVars,
                   procVars>>

Finalizer(u) ==
    \/ AcquireSlot(u) \/ HashStaging(u) \/ MarkFailed(u) \/ Find(u)
    \/ RecStat(u) \/ RecTemp(u) \/ RecRow(u) \/ RecReady(u)
    \/ Reserve(u) \/ CreateCommitTemp(u) \/ CopyAndSync(u) \/ Commit(u)
    \/ FinalExists(u) \/ StatFinal(u) \/ ReadyAndComplete(u)
    \/ CompleteWith(u) \/ DeleteStaging(u) \/ DropTemp(u) \/ DropRow(u)
    \/ FinError(u)

----------------------------------------------------------------------------
(* References *)

\* EnsureThumbnailJobTx: at most one job per object, images only.
EnsureJobs(os) ==
    job' = [o \in Objs |->
              IF o \in os /\ job[o] = "none" /\ rowContent[o] \in Images
              THEN "live" ELSE job[o]]

\* bindUploads inside Create, DirectSend or AddAttachments: the session and
\* the object are locked FOR UPDATE, so the GC transaction is either entirely
\* before or entirely after, except that it may hold the session's row.
Bindable(u, o) ==
    /\ sess[u] = "COMPLETED" /\ sessObj[u] = o
    /\ u \notin consumed
    /\ row[o] = "READY"

\* Every operation on a message locks its row FOR UPDATE first.
MessageFree(m) == m # fwd.src

BindUpload(u, m) ==
    /\ mode = "up" /\ MessageFree(m) /\ m # fwd.dst
    /\ u \notin gcSess
    /\ \E o \in Objs :
         /\ Bindable(u, o)
         /\ attach' = attach \cup {<<m, u, o>>}
         /\ EnsureJobs({o})
    /\ consumed' = consumed \cup {u}
    /\ UNCHANGED <<sess, sessObj, leaseOld, staged, rowVars, fileVars, finVars,
                   fwd, swVars, procVars>>

RemoveAttachment(a) ==
    /\ mode = "up" /\ MessageFree(a[1])
    /\ attach' = attach \ {a}
    /\ UNCHANGED <<sessVars, rowVars, fileVars, job, finVars, fwd, swVars,
                   procVars>>

\* PermanentlyDelete and purgeTrash: the attachments go with the message.
DeleteMessage(m) ==
    /\ mode = "up" /\ MessageFree(m)
    /\ \E a \in attach : a[1] = m
    /\ attach' = {a \in attach : a[1] # m}
    /\ UNCHANGED <<sessVars, rowVars, fileVars, job, finVars, fwd, swVars,
                   procVars>>

\* Forward locks the source message, reads its attachments whose object is
\* READY and gives up unless that is all of them.
ForwardRead(s, d) ==
    LET items == {a \in attach : a[1] = s} IN
    /\ mode = "up" /\ fwd = NoForward /\ s # d
    /\ items # {}
    /\ \A a \in attach : a[1] # d
    /\ \A a \in items : row[a[3]] = "READY"
    /\ fwd' = [src |-> s, dst |-> d, items |-> items]
    /\ UNCHANGED <<sessVars, rowVars, fileVars, refVars, finVars, swVars, procVars>>

\* The copies are inserted; only the foreign key looks at the objects again.
ForwardCommit ==
    /\ fwd # NoForward
    /\ \A a \in fwd.items : row[a[3]] \in LiveRow
    /\ attach' = attach \cup {<<fwd.dst, a[2], a[3]>> : a \in fwd.items}
    /\ EnsureJobs({a[3] : a \in fwd.items})
    /\ fwd' = NoForward
    /\ UNCHANGED <<sessVars, rowVars, fileVars, finVars, swVars, procVars>>

ForwardAbort ==
    /\ fwd # NoForward
    /\ fwd' = NoForward
    /\ UNCHANGED <<sessVars, rowVars, fileVars, refVars, finVars, swVars, procVars>>

\* The worker completes the thumbnail job or gives up on it.
JobEnds(o) ==
    /\ job[o] = "live" /\ mode = "up"
    /\ job' = [job EXCEPT ![o] = "done"]
    /\ UNCHANGED <<sessVars, rowVars, fileVars, attach, finVars, fwd, swVars,
                   procVars>>

\* Mutant: COMPLETING is missing from the active statuses.
InactiveWithCompleting == {"COMPLETING", "COMPLETED", "DELETED"}

\* Statuses that GetActiveUploadIDs does not return.
Inactive == {"COMPLETED", "DELETED"}

\* ReconcileStaging removes the staging file of a session that is not active.
ReconcileStaging(u) ==
    /\ finPc[u] = "idle" /\ u \in staged
    /\ sess[u] \in Inactive
    /\ staged' = staged \ {u}
    /\ UNCHANGED <<sess, sessObj, consumed, leaseOld, rowVars, fileVars, refVars,
                   finVars, fwd, swVars, procVars>>

\* 24 hours pass: an object is READY at the latest when a session completes.
ReadyAges(o) ==
    /\ row[o] = "READY" /\ o \notin readyOld
    /\ readyOld' = readyOld \cup {o}
    /\ UNCHANGED <<sessVars, row, rowContent, fileVars, refVars, finVars, fwd,
                   swVars, procVars>>

LeaseAges(u) ==
    /\ sess[u] = "COMPLETED" /\ u \notin leaseOld
    /\ sessObj[u] \in readyOld \cup {None}
    /\ leaseOld' = leaseOld \cup {u}
    /\ UNCHANGED <<sess, sessObj, consumed, staged, rowVars, fileVars, refVars,
                   finVars, fwd, swVars, procVars>>

----------------------------------------------------------------------------
(* The sweep: files.GC and files.Reconcile in the scheduler goroutine *)

\* GC, first half: completed sessions past their lease are deleted and the
\* candidates are read.  The SELECT judges the references by its snapshot and
\* locks the rows afterwards, so a reference may commit in between.
GCSelect ==
    /\ mode = "up" /\ swPc = "idle"
    /\ gcSess' = {u \in Uploads : sess[u] = "COMPLETED" /\ u \in leaseOld}
    /\ gcCand' = {o \in Objs : /\ row[o] = "READY" /\ o \in readyOld
                               /\ Unreferenced(o)}
    /\ swPc' = "gcMark"
    /\ UNCHANGED <<sessVars, rowVars, fileVars, refVars, finVars, fwd, swPend,
                   swDel, swObj, procVars>>

\* Mutant: the UPDATE trusts the SELECT's snapshot.
StillCollectableStale(o) == row[o] = "READY"

\* The WHERE clause of the UPDATE to DELETING, evaluated under the row lock.
StillCollectable(o) == row[o] = "READY" /\ Unreferenced(o)

\* GC, second half: candidates that still qualify become DELETING; commit.
GCMark ==
    /\ swPc = "gcMark"
    /\ row' = [o \in Objs |-> IF o \in gcCand /\ StillCollectable(o)
                              THEN "DELETING" ELSE row[o]]
    /\ sess' = [u \in Uploads |-> IF u \in gcSess THEN "DELETED" ELSE sess[u]]
    /\ sessObj' = [u \in Uploads |-> IF u \in gcSess THEN None ELSE sessObj[u]]
    /\ gcSess' = {} /\ gcCand' = {}
    /\ swPc' = "scan"
    /\ UNCHANGED <<consumed, leaseOld, staged, rowContent, readyOld, fileVars,
                   refVars, finVars, fwd, swPend, swDel, swObj, procVars>>

\* Mutant: every row that is not PENDING is handed to deleteObject.
ScanNotPending ==
    /\ swPc = "scan"
    /\ swPend' = {o \in Objs : row[o] = "PENDING"}
    /\ swDel' = {o \in Objs : row[o] \in {"READY", "DELETING"}}
    /\ swPc' = "pick"
    /\ UNCHANGED <<sessVars, rowVars, fileVars, refVars, finVars, fwd, swObj,
                   gcCand, gcSess, procVars>>

\* Mutant: rows left in DELETING by an earlier pass are never taken up again.
ScanPendingOnly ==
    /\ swPc = "scan"
    /\ swPend' = {o \in Objs : row[o] = "PENDING"}
    /\ swDel' = {}
    /\ swPc' = "pick"
    /\ UNCHANGED <<sessVars, rowVars, fileVars, refVars, finVars, fwd, swObj,
                   gcCand, gcSess, procVars>>

\* Reconcile reads the unfinished rows with their status.
Scan ==
    /\ swPc = "scan"
    /\ swPend' = {o \in Objs : row[o] = "PENDING"}
    /\ swDel' = {o \in Objs : row[o] = "DELETING"}
    /\ swPc' = "pick"
    /\ UNCHANGED <<sessVars, rowVars, fileVars, refVars, finVars, fwd, swObj,
                   gcCand, gcSess, procVars>>

\* reconcilePending, first access: Stat (and the hash of what is there).  It
\* does not ask whether a finalizer is still working on the row.
SweepStat(o) ==
    /\ swPc = "pick" /\ o \in swPend
    /\ swPend' = swPend \ {o}
    /\ swPc' = CASE final[o] = "none" -> "rTemp"
                 [] final[o] = "full" -> "rReady"
                 [] OTHER -> "pick"
    /\ swObj' = IF final[o] = "partial" THEN swObj ELSE o
    /\ UNCHANGED <<sessVars, rowVars, fileVars, refVars, finVars, fwd, swDel,
                   gcCand, gcSess, procVars>>

\* An error of this Delete is ignored.
SweepTemp ==
    /\ swPc = "rTemp"
    /\ \/ temp' = [temp EXCEPT ![swObj] = "none"]
       \/ UNCHANGED temp
    /\ swPc' = "rRow"
    /\ UNCHANGED <<sessVars, rowVars, final, refVars, finVars, fwd, swPend, swDel,
                   swObj, gcCand, gcSess, procVars>>

\* DELETE FROM file_objects; upload_sessions.file_object_id ON DELETE SET NULL.
DeleteRow(o) ==
    /\ row' = [row EXCEPT ![o] = "GONE"]
    /\ sessObj' = [u \in Uploads |-> IF sessObj[u] = o THEN None ELSE sessObj[u]]

\* The end of one item of Reconcile.
ItemDone == swPc' = "pick" /\ swObj' = None

SweepRow ==
    /\ swPc = "rRow"
    /\ IF row[swObj] = "PENDING" /\ ~Attached(swObj)
       THEN DeleteRow(swObj) ELSE UNCHANGED <<row, sessObj>>
    /\ ItemDone
    /\ UNCHANGED <<sess, consumed, leaseOld, staged, rowContent, readyOld,
                   fileVars, refVars, finVars, fwd, swPend, swDel, gcCand,
                   gcSess, procVars>>

SweepReady ==
    /\ swPc = "rReady"
    /\ row' = IF row[swObj] = "PENDING" THEN [row EXCEPT ![swObj] = "READY"]
                                        ELSE row
    /\ ItemDone
    /\ UNCHANGED <<sessVars, rowContent, readyOld, fileVars, refVars, finVars, fwd,
                   swPend, swDel, gcCand, gcSess, procVars>>

\* deleteObject: the file first, then the row.
DeleteObjectFile(o) ==
    /\ swPc = "pick" /\ o \in swDel
    /\ swDel' = swDel \ {o}
    /\ final' = [final EXCEPT ![o] = "none"]
    /\ swPc' = "dRow" /\ swObj' = o
    /\ UNCHANGED <<sessVars, rowVars, temp, refVars, finVars, fwd, swPend, gcCand,
                   gcSess, procVars>>

DeleteObjectRow ==
    /\ swPc = "dRow"
    /\ IF row[swObj] = "DELETING" /\ ~Attached(swObj)
       THEN DeleteRow(swObj) ELSE UNCHANGED <<row, sessObj>>
    /\ ItemDone
    /\ UNCHANGED <<sess, consumed, leaseOld, staged, rowContent, readyOld,
                   fileVars, refVars, finVars, fwd, swPend, swDel, gcCand,
                   gcSess, procVars>>

\* Mutant: commit temps are left to their finalizers.
CleanupNoTemps ==
    /\ swPc = "pick" /\ swPend = {} /\ swDel = {}
    /\ swPc' = "idle" /\ mode' = "up"
    /\ UNCHANGED <<sessVars, rowVars, fileVars, refVars, finVars, fwd, swPend,
                   swDel, swObj, gcCand, gcSess, crashes, faults>>

\* cleanupTemps: temps without a PENDING owner go.  Ids are never reused, so
\* an owner that was absent when it was looked up stays absent.
CleanupTemps ==
    /\ swPc = "pick" /\ swPend = {} /\ swDel = {}
    /\ temp' = [o \in Objs |-> IF row[o] = "PENDING" THEN temp[o] ELSE "none"]
    /\ swPc' = "idle" /\ mode' = "up"
    /\ UNCHANGED <<sessVars, rowVars, final, refVars, finVars, fwd, swPend, swDel,
                   swObj, gcCand, gcSess, crashes, faults>>

\* The access at hand fails.  The transaction of GC rolls back; an item is
\* skipped until the next pass, and a failed scan leaves only the temps to be
\* cleaned up.  At startup the process exits and is started again.
SweepError ==
    /\ swPc \notin {"idle", "rTemp"} /\ faults < MaxFaults
    /\ faults' = faults + 1
    /\ \/ /\ mode = "start" \/ swPc = "gcMark"
          /\ swPc' = "scan" /\ swPend' = {} /\ swDel' = {}
       \/ /\ mode = "up" /\ swPc \notin {"gcMark", "pick"}
          /\ swPc' = "pick" /\ UNCHANGED <<swPend, swDel>>
       \/ /\ mode = "up" /\ swPc = "pick"
          /\ \E o \in swPend \cup swDel : swPend' = swPend \ {o} /\ swDel' = swDel \ {o}
          /\ UNCHANGED swPc
       \/ /\ mode = "up" /\ swPc = "pick" /\ swPend \cup swDel = {}
          /\ swPc' = "idle" /\ UNCHANGED <<swPend, swDel>>
    /\ swObj' = None /\ gcCand' = {} /\ gcSess' = {}
    /\ UNCHANGED <<sessVars, rowVars, fileVars, refVars, finVars, fwd, mode,
                   crashes>>

Sweep ==
    \/ Scan \/ GCMark \/ SweepTemp \/ SweepRow \/ SweepReady
    \/ DeleteObjectRow \/ CleanupTemps
    \/ \E o \in Objs : SweepStat(o) \/ DeleteObjectFile(o)

\* The process dies: open transactions roll back and all memory is lost.
\* main runs Reconcile before it starts to serve.
Crash ==
    /\ crashes < MaxCrashes
    /\ crashes' = crashes + 1
    /\ mode' = "start"
    /\ finPc' = [u \in Uploads |-> "idle"]
    /\ finObj' = [u \in Uploads |-> None]
    /\ fwd' = NoForward
    /\ swPc' = "scan" /\ swObj' = None
    /\ swPend' = {} /\ swDel' = {} /\ gcCand' = {} /\ gcSess' = {}
    /\ UNCHANGED <<sessVars, rowVars, fileVars, refVars, faults>>

----------------------------------------------------------------------------
(* Specification *)

Init ==
    /\ sess = [u \in Uploads |-> "UPLOADING"]
    /\ sessObj = [u \in Uploads |-> None]
    /\ consumed = {} /\ leaseOld = {} /\ staged = Uploads
    /\ row = [o \in Objs |-> "ABSENT"]
    /\ rowContent = [o \in Objs |-> None]
    /\ readyOld = {}
    /\ temp = [o \in Objs |-> "none"] /\ final = [o \in Objs |-> "none"]
    /\ attach = {} /\ job = [o \in Objs |-> "none"]
    /\ finPc = [u \in Uploads |-> "idle"]
    /\ finObj = [u \in Uploads |-> None]
    /\ fwd = NoForward
    /\ swPc = "scan" /\ swObj = None
    /\ swPend = {} /\ swDel = {} /\ gcCand = {} /\ gcSess = {}
    /\ mode = "start" /\ crashes = 0 /\ faults = 0

Next ==
    \/ \E u \in Uploads : \/ CompleteUpload(u) \/ Finalizer(u)
                          \/ ReconcileStaging(u) \/ LeaseAges(u)
                          \/ \E m \in Messages : BindUpload(u, m)
    \/ \E a \in attach : RemoveAttachment(a)
    \/ \E m \in Messages : DeleteMessage(m)
    \/ \E s, d \in Messages : ForwardRead(s, d)
    \/ ForwardCommit \/ ForwardAbort
    \/ \E o \in Objs : JobEnds(o) \/ ReadyAges(o)
    \/ GCSelect \/ Sweep \/ SweepError
    \/ Crash

Spec == Init /\ [][Next]_vars

\* The scheduler goroutine keeps ticking and a pass that has begun goes on.
Fairness == WF_vars(GCSelect) /\ WF_vars(Sweep)

LiveSpec == Spec /\ Fairness

----------------------------------------------------------------------------
(* Properties *)

\* Every variable holds what its database column, file or local variable can
\* hold.
TypeOK ==
    /\ sess \in [Uploads -> SessionStatus]
    /\ sessObj \in [Uploads -> Objs \cup {None}]
    /\ consumed \subseteq Uploads /\ leaseOld \subseteq Uploads
    /\ staged \subseteq Uploads
    /\ row \in [Objs -> RowStatus]
    /\ rowContent \in [Objs -> Contents \cup {None}]
    /\ readyOld \subseteq Objs
    /\ temp \in [Objs -> FileState] /\ final \in [Objs -> FileState]
    /\ attach \subseteq (Messages \X Uploads \X Objs)
    /\ job \in [Objs -> {"none", "live", "done"}]
    /\ finPc \in [Uploads -> FinPc]
    /\ finObj \in [Uploads -> Objs \cup {None}]
    /\ fwd \in [src : Messages \cup {None}, dst : Messages \cup {None},
                items : SUBSET (Messages \X Uploads \X Objs)]
    /\ swPc \in SwPc /\ swObj \in Objs \cup {None}
    /\ swPend \subseteq Objs /\ swDel \subseteq Objs /\ gcCand \subseteq Objs
    /\ gcSess \subseteq Uploads
    /\ mode \in {"start", "up"}
    /\ crashes \in Nat /\ faults \in Nat

\* An attachment always leads to the bytes that were uploaded: its object is
\* READY, holds the content of the upload it came from, and the complete file
\* is in place.  This is what a download relies on (files/service.go Open),
\* whatever finalizers, the GC, forwards and crashes do.
AttachmentsIntact ==
    \A a \in attach : /\ row[a[3]] = "READY"
                      /\ rowContent[a[3]] = ContentOf[a[2]]
                      /\ final[a[3]] = "full"

\* A completed upload that has not been consumed can be bound to a message for
\* 24 hours: its object is not collected although nothing refers to it.
LeaseHolds ==
    \A u \in Uploads :
        sess[u] = "COMPLETED" /\ u \notin consumed \cup leaseOld
            => /\ sessObj[u] \in Objs
               /\ row[sessObj[u]] = "READY"
               /\ final[sessObj[u]] = "full"

\* A READY row has its complete file under objects/, also when a crash, a
\* failed directory sync or the sweep's Reconcile came between the rename and
\* the status change (VerifyReady refuses to start otherwise).
ReadyHasFile == \A o \in Objs : row[o] = "READY" => final[o] = "full"

\* The content lock: while one request writes a reservation, no other request
\* reconciles it away, although both see the same PENDING row.
ReservationsNotStolen ==
    \A u, v \in Uploads :
        /\ finPc[u] \in {"recStat", "recTemp", "recRow", "recReady"}
        /\ finPc[v] \in Reserved
        => finObj[u] # finObj[v]

\* The rows never add up to more than max_storage_bytes, DELETING rows whose
\* file may still be there included.
QuotaRespected == StorageUsed <= MaxStorage

\* The staging file is there until the session is COMPLETED or FAILED, so that
\* a failed Complete can be repeated after any error or crash.
StagingOutlivesUpload ==
    \A u \in Uploads : sess[u] \in {"UPLOADING", "COMPLETING"} => u \in staged

\* A file under objects/ always has a row that leads to it.
NoOrphanFinal == \A o \in Objs : final[o] # "none" => row[o] \in LiveRow

\* A file object's status only advances, PENDING to READY to DELETING to gone:
\* a late status change of a finalizer or of the sweep, decided on a Stat made
\* earlier, never brings back an object that is being deleted.
StatusOnlyAdvances ==
    [][\A o \in Objs : /\ row[o] = "GONE" => row'[o] = "GONE"
                       /\ row[o] = "DELETING" => row'[o] \in {"DELETING", "GONE"}
                       /\ row[o] = "READY" => row'[o] \in {"READY", "DELETING"}]_vars

\* A reservation is resolved: whatever became of its finalizer, a PENDING row
\* becomes READY or is removed by some pass of Reconcile.
PendingResolved ==
    \A o \in Objs : row[o] = "PENDING" ~> row[o] # "PENDING"

\* Garbage is collected: an old READY object that nothing refers to is removed
\* with its file, unless a reference appears first.
GarbageCollected ==
    \A o \in Objs : /\ row[o] = "READY" /\ o \in readyOld /\ Unreferenced(o)
                    ~> \/ row[o] = "GONE" /\ final[o] = "none"
                       \/ ~Unreferenced(o)

\* Temporary files of dead finalizers do not pile up in .commit-tmp.
TempsCleaned == \A o \in Objs : temp[o] # "none" ~> temp[o] = "none"
=============================================================================
