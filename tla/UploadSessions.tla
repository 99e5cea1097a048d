--------------------------- MODULE UploadSessions ---------------------------
(* Resumable uploads into VM staging: internal/uploads/service.go,           *)
(* repository.go, locks.go and platform/staging/manager.go.                  *)
(*                                                                           *)
(* The actors are the Create request of each upload, PutPart requests, the   *)
(* Complete request of each upload and the scheduler.  Create begins with    *)
(* the same expiry pass that the scheduler runs, so a pass is owned either   *)
(* by an upload's Create or by the scheduler.  The locks are not variables:  *)
(* who holds them follows from where the actors stand.  Finalize is reduced  *)
(* to its outcomes; the module FileObjects has the rest of it.               *)
EXTENDS Naturals, FiniteSets, Sums

CONSTANTS
    Uploads,     \* upload ids; each is created at most once
    Parts,       \* part numbers
    PartsOf,     \* the parts of each upload (PartCount; none for size 0)
    SizeOf,      \* expected_size
    Puts,        \* PutPart requests that may be in flight together
    Scheduler,   \* the scheduler goroutine
    MaxStaging,  \* UPLOAD_STAGING_MAX_BYTES
    MaxWrites,   \* server active chunk writes
    Batch,       \* uploads handled by one expiry pass
    MaxCrashes,  \* bound on crashes
    MaxFaults,   \* bound on errors met by Create and by expiry passes
    None

ASSUME UploadsAssumption ==
    /\ PartsOf \in [Uploads -> SUBSET Parts]
    /\ SizeOf \in [Uploads -> Nat]
    /\ Scheduler \notin Uploads
    /\ None \notin Uploads
ASSUME LimitsAssumption ==
    /\ MaxStaging \in Nat
    /\ MaxWrites \in Nat \ {0}
    /\ Batch \in Nat \ {0}
    /\ MaxCrashes \in Nat
    /\ MaxFaults \in Nat

VARIABLES
    status,   \* upload_sessions.status; "ABSENT" before the row exists
    due,      \* sessions whose expires_at has passed
    marker,   \* upload_parts of each session
    staged,   \* uploads with a staging file
    data,     \* the bytes of each part in the staging file
    known,    \* uploads whose Create has answered 201
    pc,       \* where each Create or expiry pass stands
    todo,     \* what is left of the list the pass has read
    hold,     \* the upload a pass is cleaning under the exclusive lock
    left,     \* how many orphans the pass may still delete
    put,      \* the PutPart requests in flight
    cpPc,     \* where the Complete request of each upload stands
    serving,  \* FALSE from a crash to the end of the startup pass
    crashes, faults

rowVars  == <<status, due, marker>>
diskVars == <<staged, data>>
passVars == <<pc, todo, hold, left>>
procVars == <<serving, crashes, faults>>
vars == <<rowVars, diskVars, known, passVars, put, cpPc, procVars>>

Open      == {"CREATED", "UPLOADING"}
Active    == Open \cup {"COMPLETING", "FAILED"}
Status    == Active \cup {"ABSENT", "COMPLETED", "EXPIRED"}
PartState == {"hole", "torn", "dirty", "synced"}
Owners    == Uploads \cup {Scheduler}
PassPc    == {"due", "mark", "clean", "parts", "owned", "active", "recon"}
CreatePc  == {"reserve", "mkfile", "insert", "undo"}
CpPc      == {"idle", "transition", "finalize", "unstage"}
PutPc     == {"invalidate", "open", "copy", "sync", "commit"}
NoPut     == [pc |-> "none", u |-> None, p |-> None]

----------------------------------------------------------------------------
(* Locks *)

\* locks.Chunk: the shared lifecycle lock of the upload and the part's mutex.
PutsOn(u) == {r \in Puts : put[r].pc # "none" /\ put[r].u = u}

\* locks.Exclusive, held by Complete to the end of Finalize and by a pass
\* while it removes the staging file and the parts of one upload.
ExclusiveHeld(u) ==
    \/ cpPc[u] # "idle"
    \/ \E a \in Owners : hold[a] = u

\* Mutant: Exclusive waits for other exclusive holders only.
ExclusiveFreeOfPuts(u) == ~ExclusiveHeld(u)

ExclusiveFree(u) == ~ExclusiveHeld(u) /\ PutsOn(u) = {}

\* Mutant: the lock covers the upload, and parts do not exclude each other.
ChunkFreeShared(u, p) == ~ExclusiveHeld(u)

ChunkFree(u, p) == ~ExclusiveHeld(u) /\ \A r \in PutsOn(u) : put[r].p # p

\* stagingLife: Create reads, ReconcileStaging writes.
LifeRead  == {u \in Uploads : pc[u] \in {"mkfile", "insert", "undo"}}
LifeWrite == {a \in Owners : pc[a] \in {"active", "recon"}}

\* pg_advisory_xact_lock of the create transaction
ReservationFree == \A u \in Uploads : pc[u] \notin {"mkfile", "insert"}

----------------------------------------------------------------------------
(* Create *)

Goto(a, p) == pc' = [pc EXCEPT ![a] = p]

Create(u) ==
    /\ serving /\ pc[u] = "idle" /\ status[u] = "ABSENT" /\ u \notin staged
    /\ Goto(u, "due")
    /\ UNCHANGED <<rowVars, diskVars, known, todo, hold, left, put, cpPc, procVars>>

\* SUM(expected_size) over the active statuses
ActiveUploads == {u \in Uploads : status[u] \in Active}
ActiveBytes == SumOver(SizeOf, ActiveUploads)

\* Mutant: sessions being finalized are not counted.
FitsWithoutCompleting(u) ==
    SumOver(SizeOf, {v \in Uploads : status[v] \in Open}) + SizeOf[u] <= MaxStaging

Fits(u) == ActiveBytes + SizeOf[u] <= MaxStaging

\* The create transaction up to its checks.  Being refused ends the request;
\* so may the free space probe.
Reserve(u) ==
    /\ pc[u] = "reserve" /\ LifeWrite = {} /\ ReservationFree
    /\ \/ Fits(u) /\ Goto(u, "mkfile")
       \/ Goto(u, "idle")
    /\ UNCHANGED <<rowVars, diskVars, known, todo, hold, left, put, cpPc, procVars>>

\* staging.Create: a sparse file of the expected size.
MakeFile(u) ==
    /\ pc[u] = "mkfile"
    /\ staged' = staged \cup {u}
    /\ Goto(u, "insert")
    /\ UNCHANGED <<rowVars, data, known, todo, hold, left, put, cpPc, procVars>>

\* The row is inserted and committed.
Insert(u) ==
    /\ pc[u] = "insert"
    /\ status' = [status EXCEPT ![u] = "CREATED"]
    /\ known' = known \cup {u}
    /\ Goto(u, "idle")
    /\ UNCHANGED <<due, marker, diskVars, todo, hold, left, put, cpPc, procVars>>

\* The transaction fails, or its commit is reported as failed though it was
\* not: the staging file is removed either way.
InsertError(u) ==
    /\ pc[u] = "insert" /\ faults < MaxFaults
    /\ \E committed \in BOOLEAN :
         status' = IF committed THEN [status EXCEPT ![u] = "CREATED"] ELSE status
    /\ faults' = faults + 1
    /\ Goto(u, "undo")
    /\ UNCHANGED <<due, marker, diskVars, known, todo, hold, left, put, cpPc, serving,
                   crashes>>

UndoCreate(u) ==
    /\ pc[u] = "undo"
    /\ \E deleted \in BOOLEAN : staged' = IF deleted THEN staged \ {u} ELSE staged
    /\ Goto(u, "idle")
    /\ UNCHANGED <<rowVars, data, known, todo, hold, left, put, cpPc, procVars>>

----------------------------------------------------------------------------
(* PutPart *)

PutGoto(r, p) == put' = [put EXCEPT ![r].pc = p]
PutReturn(r)  == put' = [put EXCEPT ![r] = NoPut]

\* The chunk lock, the session read and the checks on it.
PutPart(r, u, p) ==
    /\ serving /\ put[r].pc = "none" /\ u \in known /\ p \in PartsOf[u]
    /\ ChunkFree(u, p)
    /\ status[u] \in Open /\ u \notin due
    /\ put' = [put EXCEPT ![r] = [pc |-> "invalidate", u |-> u, p |-> p]]
    /\ UNCHANGED <<rowVars, diskVars, known, passVars, cpPc, procVars>>

InvalidatePart(r) ==
    /\ put[r].pc = "invalidate"
    /\ marker' = [marker EXCEPT ![put[r].u] = @ \ {put[r].p}]
    /\ PutGoto(r, "open")
    /\ UNCHANGED <<status, due, diskVars, known, passVars, cpPc, procVars>>

\* A write slot is taken and the first bytes are written over the part.
OpenAndWrite(r) ==
    /\ put[r].pc = "open" /\ put[r].u \in staged
    /\ Cardinality({q \in Puts : put[q].pc \in {"copy", "sync", "commit"}})
           < MaxWrites
    /\ data' = [data EXCEPT ![put[r].u][put[r].p] = "torn"]
    /\ PutGoto(r, "copy")
    /\ UNCHANGED <<rowVars, staged, known, passVars, cpPc, procVars>>

\* Exactly the expected number of bytes has arrived.
CopyPart(r) ==
    /\ put[r].pc = "copy"
    /\ data' = [data EXCEPT ![put[r].u][put[r].p] = "dirty"]
    /\ PutGoto(r, "sync")
    /\ UNCHANGED <<rowVars, staged, known, passVars, cpPc, procVars>>

\* fsync of the staging file
Synced(u) == [p \in Parts |-> IF data[u][p] = "dirty" THEN "synced" ELSE data[u][p]]

SyncPart(r) ==
    /\ put[r].pc = "sync"
    /\ data' = [data EXCEPT ![put[r].u] = Synced(put[r].u)]
    /\ PutGoto(r, "commit")
    /\ UNCHANGED <<rowVars, staged, known, passVars, cpPc, procVars>>

UpsertCompletedPart(u, p) == [marker EXCEPT ![u] = @ \cup {p}]

\* The transaction looks at the session again, under its row lock.
CommitPart(r) ==
    LET u == put[r].u IN
    /\ put[r].pc = "commit"
    /\ IF u \notin due /\ status[u] \in Open
       THEN /\ marker' = UpsertCompletedPart(u, put[r].p)
            /\ status' = [status EXCEPT ![u] = "UPLOADING"]
       ELSE UNCHANGED <<marker, status>>
    /\ PutReturn(r)
    /\ UNCHANGED <<due, diskVars, known, passVars, cpPc, procVars>>

\* The access at hand fails, the client goes away, or the body is too short.
PutError(r) ==
    /\ put[r].pc # "none"
    /\ PutReturn(r)
    /\ UNCHANGED <<rowVars, diskVars, known, passVars, cpPc, procVars>>

----------------------------------------------------------------------------
(* Complete *)

CpGoto(u, p) == cpPc' = [cpPc EXCEPT ![u] = p]

\* The validation: the staging file is there and so is every part.
AllParts(u) == u \in staged /\ marker[u] = PartsOf[u]

\* The first half of the transaction: the staging file is synced and the
\* parts are validated under the exclusive lock and the row lock.
CompleteValidate(u) ==
    /\ serving /\ u \in known /\ ExclusiveFree(u)
    /\ status[u] \in Open /\ u \notin due
    /\ data' = IF u \in staged THEN [data EXCEPT ![u] = Synced(u)] ELSE data
    /\ CpGoto(u, IF AllParts(u) THEN "transition" ELSE "idle")
    /\ UNCHANGED <<rowVars, staged, known, passVars, put, procVars>>

TransitionUploadToCompleting(u) == [status EXCEPT ![u] = "COMPLETING"]

CompleteTransition(u) ==
    /\ cpPc[u] = "transition"
    /\ status' = TransitionUploadToCompleting(u)
    /\ CpGoto(u, "finalize")
    /\ UNCHANGED <<due, marker, diskVars, known, passVars, put, procVars>>

\* Complete of a session that is already COMPLETING goes on with Finalize,
\* also when the session is past its expiry.
CompleteAgain(u) ==
    /\ serving /\ u \in known /\ ExclusiveFree(u)
    /\ status[u] = "COMPLETING"
    /\ CpGoto(u, "finalize")
    /\ UNCHANGED <<rowVars, diskVars, known, passVars, put, procVars>>

\* Finalize completes the session or marks it FAILED.
FinalizeEnds(u) ==
    /\ cpPc[u] = "finalize"
    /\ \/ /\ u \in staged
          /\ status' = [status EXCEPT ![u] = "COMPLETED"]
          /\ CpGoto(u, "unstage")
       \/ /\ status' = [status EXCEPT ![u] = "FAILED"]
          /\ CpGoto(u, "idle")
    /\ UNCHANGED <<due, marker, diskVars, known, passVars, put, procVars>>

FinalizeUnstage(u) ==
    /\ cpPc[u] = "unstage"
    /\ staged' = staged \ {u}
    /\ CpGoto(u, "idle")
    /\ UNCHANGED <<rowVars, data, known, passVars, put, procVars>>

\* Any step of Complete may fail; the transaction at hand rolls back.
CompleteError(u) ==
    /\ cpPc[u] # "idle"
    /\ CpGoto(u, "idle")
    /\ UNCHANGED <<rowVars, diskVars, known, passVars, put, procVars>>

----------------------------------------------------------------------------
(* ExpireDueUploads: the pass owned by a *)

PassGoto(a, p, list) ==
    /\ Goto(a, p)
    /\ todo' = [todo EXCEPT ![a] = list]

\* Mutant: sessions that failed are kept.
ExpirableOpen == Open

\* The statuses of FindDueActiveUploads and MarkExpired.
Expirable == Open \cup {"FAILED"}

\* The scheduler's tick
Tick ==
    /\ serving /\ pc[Scheduler] = "idle"
    /\ Goto(Scheduler, "due")
    /\ UNCHANGED <<rowVars, diskVars, known, todo, hold, left, put, cpPc, procVars>>

FindDueActiveUploads(a) ==
    LET found == {u \in Uploads : status[u] \in Expirable /\ u \in due} IN
    /\ pc[a] = "due"
    /\ \E list \in SUBSET found :
         /\ list = found \/ Cardinality(list) = Batch
         /\ Cardinality(list) <= Batch
         /\ PassGoto(a, "mark", list)
    /\ UNCHANGED <<rowVars, diskVars, known, hold, left, put, cpPc, procVars>>

\* Mutant: the list of due sessions is trusted.
MarkExpiredStale(a, u) ==
    /\ pc[a] = "mark" /\ u \in todo[a] /\ ExclusiveFree(u)
    /\ status' = [status EXCEPT ![u] = "EXPIRED"]
    /\ PassGoto(a, "mark", todo[a] \ {u})
    /\ UNCHANGED <<due, marker, diskVars, known, hold, left, put, cpPc, procVars>>

MarkUploadExpired(u) ==
    IF status[u] \in Expirable /\ u \in due THEN [status EXCEPT ![u] = "EXPIRED"] ELSE status

\* The session is looked at again, under the exclusive lock and its row lock.
MarkExpired(a, u) ==
    /\ pc[a] = "mark" /\ u \in todo[a] /\ ExclusiveFree(u)
    /\ status' = MarkUploadExpired(u)
    /\ PassGoto(a, "mark", todo[a] \ {u})
    /\ UNCHANGED <<due, marker, diskVars, known, hold, left, put, cpPc, procVars>>

FindExpiredCleanupCandidates(a) ==
    /\ pc[a] = "mark" /\ todo[a] = {}
    /\ PassGoto(a, "clean",
                {u \in Uploads : status[u] = "EXPIRED" /\ marker[u] # {}})
    /\ UNCHANGED <<rowVars, diskVars, known, hold, left, put, cpPc, procVars>>

\* The staging file goes first, so that a failure leaves the markers that make
\* the next pass try again.
CleanStaging(a, u) ==
    /\ pc[a] = "clean" /\ u \in todo[a] /\ ExclusiveFree(u)
    /\ staged' = staged \ {u}
    /\ hold' = [hold EXCEPT ![a] = u]
    /\ PassGoto(a, "parts", todo[a] \ {u})
    /\ UNCHANGED <<rowVars, data, known, left, put, cpPc, procVars>>

\* Mutant: the markers of an expired session are kept.
DeletePartsSkipped(a) ==
    /\ pc[a] = "parts"
    /\ hold' = [hold EXCEPT ![a] = None]
    /\ Goto(a, "clean")
    /\ UNCHANGED <<rowVars, diskVars, known, todo, left, put, cpPc, procVars>>

DeleteParts(a) ==
    /\ pc[a] = "parts"
    /\ marker' = [marker EXCEPT ![hold[a]] = {}]
    /\ hold' = [hold EXCEPT ![a] = None]
    /\ Goto(a, "clean")
    /\ UNCHANGED <<status, due, diskVars, known, todo, left, put, cpPc, procVars>>

\* Mutant: ReconcileStaging does not wait for Creates in progress.
OwnedFilesUnlocked(a) ==
    /\ pc[a] = "clean" /\ todo[a] = {}
    /\ LifeWrite = {}
    /\ PassGoto(a, "active", staged)
    /\ UNCHANGED <<rowVars, diskVars, known, hold, left, put, cpPc, procVars>>

\* ReconcileStaging, alone with stagingLife: the directory is listed ...
OwnedFiles(a) ==
    /\ pc[a] = "clean" /\ todo[a] = {}
    /\ LifeWrite = {} /\ LifeRead = {}
    /\ PassGoto(a, "active", staged)
    /\ UNCHANGED <<rowVars, diskVars, known, hold, left, put, cpPc, procVars>>

\* Mutant: only files of sessions that are known to be over are deleted.
OrphansWithRow(a) == {u \in todo[a] : status[u] \in {"COMPLETED", "EXPIRED"}}

Orphans(a) == {u \in todo[a] : status[u] \notin Active}

\* ... the active sessions are taken out ...
ActiveUploadIDs(a) ==
    /\ pc[a] = "active"
    /\ PassGoto(a, "recon", Orphans(a))
    /\ left' = [left EXCEPT ![a] = Batch]
    /\ UNCHANGED <<rowVars, diskVars, known, hold, put, cpPc, procVars>>

WithinLimit(a) == left[a] > 0

\* ... and what remains is deleted, up to the limit.
DeleteOrphan(a, u) ==
    /\ pc[a] = "recon" /\ u \in todo[a] /\ WithinLimit(a) /\ ExclusiveFree(u)
    /\ staged' = staged \ {u}
    /\ left' = [left EXCEPT ![a] = @ - 1]
    /\ PassGoto(a, "recon", todo[a] \ {u})
    /\ UNCHANGED <<rowVars, data, known, hold, put, cpPc, procVars>>

\* The end of the pass.  Create goes on with its reservation; main starts to
\* serve (after one more ReconcileStaging, which the scheduler's passes stand
\* for).
EndPass(a) ==
    /\ pc[a] = "recon" /\ (todo[a] = {} \/ ~WithinLimit(a))
    /\ PassGoto(a, IF a = Scheduler THEN "idle" ELSE "reserve", {})
    /\ serving' = TRUE
    /\ UNCHANGED <<rowVars, diskVars, known, hold, left, put, cpPc, crashes,
                   faults>>

\* An access of the pass fails: a failed query skips its part of the pass, a
\* failed item is left to the next pass.
PassError(a) ==
    /\ faults < MaxFaults
    /\ faults' = faults + 1
    /\ \/ /\ pc[a] = "due" /\ PassGoto(a, "mark", {})
          /\ UNCHANGED hold
       \/ /\ pc[a] = "mark" /\ todo[a] = {} /\ PassGoto(a, "clean", {})
          /\ UNCHANGED hold
       \/ /\ pc[a] = "clean" /\ todo[a] = {} /\ LifeWrite = {} /\ LifeRead = {}
          /\ PassGoto(a, "recon", {})
          /\ UNCHANGED hold
       \/ /\ pc[a] \in {"mark", "clean", "recon"}
          /\ \E u \in todo[a] : PassGoto(a, pc[a], todo[a] \ {u})
          /\ UNCHANGED hold
       \/ /\ pc[a] = "parts" /\ Goto(a, "clean")
          /\ hold' = [hold EXCEPT ![a] = None]
          /\ UNCHANGED todo
       \/ /\ pc[a] = "active" /\ PassGoto(a, "recon", {})
          /\ UNCHANGED hold
    /\ UNCHANGED <<rowVars, diskVars, known, left, put, cpPc, serving, crashes>>

\* The steps of a pass that wait for an upload's exclusive lock.
PassItem(a) == \E u \in Uploads : \/ MarkExpired(a, u) \/ CleanStaging(a, u)
                                  \/ DeleteOrphan(a, u)

Pass(a) ==
    \/ PassItem(a)
    \/ FindDueActiveUploads(a) \/ FindExpiredCleanupCandidates(a)
    \/ DeleteParts(a) \/ OwnedFiles(a) \/ ActiveUploadIDs(a) \/ EndPass(a)

----------------------------------------------------------------------------
(* Time and crashes *)

\* upload_retention_hours go by.
Expires(u) ==
    /\ status[u] # "ABSENT" /\ u \notin due
    /\ due' = due \cup {u}
    /\ UNCHANGED <<status, marker, diskVars, known, passVars, put, cpPc, procVars>>

\* The VM or the process stops: bytes that were not synced may be lost, open
\* transactions roll back.  main runs an expiry pass before it serves.
Crash ==
    /\ crashes < MaxCrashes
    /\ crashes' = crashes + 1
    /\ serving' = FALSE
    /\ \E power \in BOOLEAN :
         data' = [u \in Uploads |-> [p \in Parts |->
                    IF power /\ data[u][p] = "dirty" THEN "torn" ELSE data[u][p]]]
    /\ pc' = [a \in Owners |-> IF a = Scheduler THEN "due" ELSE "idle"]
    /\ todo' = [a \in Owners |-> {}] /\ hold' = [a \in Owners |-> None]
    /\ left' = [a \in Owners |-> 0]
    /\ put' = [r \in Puts |-> NoPut]
    /\ cpPc' = [u \in Uploads |-> "idle"]
    /\ UNCHANGED <<rowVars, staged, known, faults>>

----------------------------------------------------------------------------
(* Specification *)

Init ==
    /\ status = [u \in Uploads |-> "ABSENT"]
    /\ due = {} /\ marker = [u \in Uploads |-> {}]
    /\ staged = {} /\ data = [u \in Uploads |-> [p \in Parts |-> "hole"]]
    /\ known = {}
    /\ pc = [a \in Owners |-> IF a = Scheduler THEN "due" ELSE "idle"]
    /\ todo = [a \in Owners |-> {}] /\ hold = [a \in Owners |-> None]
    /\ left = [a \in Owners |-> 0]
    /\ put = [r \in Puts |-> NoPut]
    /\ cpPc = [u \in Uploads |-> "idle"]
    /\ serving = FALSE /\ crashes = 0 /\ faults = 0

CreateStep(u) == Reserve(u) \/ MakeFile(u) \/ Insert(u) \/ InsertError(u)
                    \/ UndoCreate(u)
PutStep(r) == \/ InvalidatePart(r) \/ OpenAndWrite(r) \/ CopyPart(r)
              \/ SyncPart(r) \/ CommitPart(r) \/ PutError(r)
CompleteStep(u) == \/ CompleteTransition(u) \/ FinalizeEnds(u)
                   \/ FinalizeUnstage(u) \/ CompleteError(u)

Next ==
    \/ \E u \in Uploads : \/ Create(u) \/ CreateStep(u) \/ Expires(u)
                          \/ CompleteValidate(u) \/ CompleteAgain(u)
                          \/ CompleteStep(u)
    \/ \E r \in Puts : \/ \E u \in Uploads, p \in Parts : PutPart(r, u, p)
                       \/ PutStep(r)
    \/ Tick
    \/ \E a \in Owners : Pass(a) \/ PassError(a)
    \/ Crash

Spec == Init /\ [][Next]_vars

\* The scheduler keeps ticking, every pass goes on, and requests in progress
\* end: a PutPart whose client stalls is cut off by the proxy.  A goroutine
\* waiting for a Go mutex gets it although others keep coming.
Fairness ==
    /\ WF_vars(Tick)
    /\ \A a \in Owners : WF_vars(Pass(a)) /\ SF_vars(PassItem(a))
    /\ \A u \in Uploads : WF_vars(CreateStep(u)) /\ WF_vars(CompleteStep(u))
    /\ \A r \in Puts : WF_vars(PutStep(r))

LiveSpec == Spec /\ Fairness

----------------------------------------------------------------------------
(* Properties *)

\* Every variable holds what its column, file or local variable can hold; the
\* number of deletions left to a pass of ReconcileStaging stays in its limit.
TypeOK ==
    /\ status \in [Uploads -> Status] /\ due \subseteq Uploads
    /\ marker \in [Uploads -> SUBSET Parts]
    /\ staged \subseteq Uploads /\ data \in [Uploads -> [Parts -> PartState]]
    /\ known \subseteq Uploads
    /\ pc \in [Owners -> {"idle"} \cup PassPc \cup CreatePc]
    /\ todo \in [Owners -> SUBSET Uploads]
    /\ hold \in [Owners -> Uploads \cup {None}]
    /\ left \in [Owners -> 0 .. Batch]
    /\ put \in [Puts -> [pc : PutPc, u : Uploads, p : Parts] \cup {NoPut}]
    /\ cpPc \in [Uploads -> CpPc]
    /\ serving \in BOOLEAN /\ crashes \in Nat /\ faults \in Nat

\* A completed part that a client may skip when it resumes is on the disk:
\* its bytes are complete and synced, whatever repeated PutParts, errors and
\* crashes came before.
MarkersDurable ==
    \A u \in known : \A p \in marker[u] :
        status[u] \in Active => u \in staged /\ data[u][p] = "synced"

\* What Finalize hashes and copies is the upload: from the moment the session
\* is COMPLETING no part is missing, torn or being rewritten.
CompletingIntact ==
    \A u \in Uploads :
        status[u] = "COMPLETING" \/ cpPc[u] = "finalize"
            => /\ \A p \in PartsOf[u] : data[u][p] = "synced"
               /\ \A r \in PutsOn(u) : put[r].p \notin PartsOf[u]

\* A session that Create has returned to its client keeps its staging file
\* while it is active: no pass of ReconcileStaging takes it for an orphan.
KnownHasStaging ==
    \A u \in known : status[u] \in Active => u \in staged

\* Concurrent Creates never reserve more than UPLOAD_STAGING_MAX_BYTES.
StagingReserved == ActiveBytes <= MaxStaging

\* A session's status only advances: a pass that read a session as due before
\* Complete took it up does not expire it afterwards.
SessionAdvances ==
    [][\A u \in Uploads :
         /\ status[u] \in {"COMPLETED", "EXPIRED"} => status'[u] = status[u]
         /\ status[u] = "COMPLETING" => status'[u] \notin Open \cup {"EXPIRED"}]_vars

\* Staging does not fill up: a file whose session is over, or was never
\* created, is deleted.
OrphansDeleted ==
    \A u \in Uploads : u \in staged /\ status[u] \notin Active
                          ~> u \notin staged \/ status[u] \in Active

\* A session past its expiry is expired, unless a Complete takes it up first.
DueExpires ==
    \A u \in Uploads : u \in due /\ status[u] \in Open \cup {"FAILED"}
                          ~> status[u] \notin Open \cup {"FAILED"}

\* The parts of an expired session are cleared.
PartsCleared ==
    \A u \in Uploads : status[u] = "EXPIRED" ~> marker[u] = {}

\* An upload that is still incomplete when its retention ends is expired.
RetentionEnforced ==
    \A u \in Uploads : u \in due /\ status[u] \in Active
                          ~> status[u] \in {"COMPLETED", "EXPIRED"}
=============================================================================
