----------------------------- MODULE Thumbnails -----------------------------
(***************************************************************************)
(* The background worker and its only handler, the thumbnailer             *)
(* (internal/jobs, internal/files/thumbnail.go), together with the parts   *)
(* of the hourly scheduler that touch the same rows and files: recovery of *)
(* stuck jobs, the backfill, the collection of source objects and the      *)
(* removal of commit temps.                                                *)
(*                                                                         *)
(* The process has one worker goroutine and one scheduler goroutine.  An   *)
(* action is one transaction or one call on the storage adapter.           *)
(***************************************************************************)
EXTENDS Naturals, FiniteSets

CONSTANTS Files,        \* image objects that were READY at the start
          MaxAttempts,  \* DefaultMaxAttempts
          MaxCrashes, MaxFaults,  \* bounds on crashes and on errors of the sweep
          None

ASSUME AttemptsPositive == MaxAttempts \in Nat \ {0}
ASSUME BoundsNatural == MaxCrashes \in Nat /\ MaxFaults \in Nat
ASSUME NoneIsNoFile == None \notin Files

VARIABLES
    \* PostgreSQL
    job,       \* status of the thumbnail job of a file, "none" without a row
    attempts,  \* background_jobs.attempts
    due,       \* files whose PENDING job has next_run_at <= now
    old,       \* files whose RUNNING job was started more than 15 minutes ago
    src,       \* file_objects: "READY", "DELETING", "gone"
    attached,  \* files that a message refers to
    deriv,     \* file_derivatives: "none", "PENDING", "READY", "FAILED"
    \* the NAS
    temp,      \* commit temp of the derivative: "none", "partial", "full"
    final,     \* file under derivatives/: "none", "full"
    \* the worker
    pc,        \* what it does next
    cur,       \* file of the job it has claimed
    att,       \* attempts of that job as claimed
    out,       \* outcome of the handler: "ok", "retry", "permanent"
    \* the sweep of the scheduler
    swPc, swCur,
    crashes, faults

dbVars == <<job, attempts, due, old, src, attached, deriv>>
queueVars == <<job, attempts, due, old>>
workerVars == <<pc, cur, att, out>>
sweepVars == <<swPc, swCur>>
bounds == <<crashes, faults>>
vars == <<dbVars, temp, final, workerVars, sweepVars, bounds>>

Live == {f \in Files : job[f] \in {"PENDING", "RUNNING"}}

Init ==
    /\ job = [f \in Files |-> "none"]
    /\ attempts = [f \in Files |-> 0]
    /\ due = {} /\ old = {}
    /\ src = [f \in Files |-> "READY"]
    /\ attached \in SUBSET Files
    /\ deriv = [f \in Files |-> "none"]
    /\ temp = [f \in Files |-> "none"]
    /\ final = [f \in Files |-> "none"]
    /\ pc = "idle" /\ cur = None /\ att = 0 /\ out = "ok"
    /\ swPc = "idle" /\ swCur = None
    /\ crashes = 0 /\ faults = 0

-----------------------------------------------------------------------------
(* Messages: a file is bound to a message, or a message lets go of it.      *)

\* INSERT ... ON CONFLICT DO NOTHING against the unique index on subject_id:
\* one job per file for ever, whatever its status.
EnsureThumbnailJob(f) ==
    IF deriv[f] # "READY" /\ job[f] = "none"
    THEN /\ job' = [job EXCEPT ![f] = "PENDING"]
         /\ due' = due \union {f}
    ELSE UNCHANGED <<job, due>>

Attach(f) ==
    /\ src[f] = "READY"
    /\ attached' = attached \union {f}
    /\ EnsureThumbnailJob(f)
    /\ UNCHANGED <<attempts, old, src, deriv, temp, final, workerVars, sweepVars, bounds>>

Detach(f) ==
    /\ f \in attached
    /\ attached' = attached \ {f}
    /\ UNCHANGED <<queueVars, src, deriv, temp, final, workerVars, sweepVars, bounds>>

-----------------------------------------------------------------------------
(* Time.                                                                    *)

BackoffEnds(f) ==
    /\ job[f] = "PENDING" /\ f \notin due
    /\ due' = due \union {f}
    /\ UNCHANGED <<job, attempts, old, src, attached, deriv, temp, final, workerVars, sweepVars, bounds>>

ClaimAges(f) ==
    /\ job[f] = "RUNNING" /\ f \notin old
    /\ old' = old \union {f}
    /\ UNCHANGED <<job, attempts, due, src, attached, deriv, temp, final, workerVars, sweepVars, bounds>>

-----------------------------------------------------------------------------
(* The scheduler's jobs passes.                                             *)

\* A derivative of a job that is failed for good is failed with it.
FailDerivatives(F) ==
    deriv' = [f \in Files |-> IF f \in F /\ deriv[f] = "PENDING" THEN "FAILED" ELSE deriv[f]]

\* Mutant: a job that has used up its attempts is left alone.
RecoverStuckUnspent(F) ==
    /\ F # {} /\ F \subseteq {f \in old : attempts[f] < MaxAttempts}
    /\ job' = [f \in Files |-> IF f \in F THEN "PENDING" ELSE job[f]]
    /\ due' = due \union F
    /\ old' = old \ F
    /\ UNCHANGED <<attempts, src, attached, deriv, temp, final, workerVars, sweepVars, bounds>>

\* RecoverStuck: rows that another transaction has locked are skipped.
RecoverStuck(F) ==
    /\ F # {} /\ F \subseteq old
    /\ LET spent == {f \in F : attempts[f] >= MaxAttempts}
       IN  /\ job' = [f \in Files |-> IF f \in spent THEN "FAILED"
                                      ELSE IF f \in F THEN "PENDING" ELSE job[f]]
           /\ due' = due \union (F \ spent)
           /\ FailDerivatives(spent)
    /\ old' = old \ F
    /\ UNCHANGED <<attempts, src, attached, temp, final, workerVars, sweepVars, bounds>>

Missing(f) == src[f] = "READY" /\ f \in attached /\ deriv[f] # "READY" /\ job[f] = "none"

EnqueueMissingThumbnailJobs ==
    /\ \E f \in Files : Missing(f)
    /\ LET new == {f \in Files : Missing(f)}
       IN  /\ job' = [f \in Files |-> IF f \in new THEN "PENDING" ELSE job[f]]
           /\ due' = due \union new
    /\ UNCHANGED <<attempts, old, src, attached, deriv, temp, final, workerVars, sweepVars, bounds>>

-----------------------------------------------------------------------------
(* The worker.                                                              *)

Goto(p) == pc' = p /\ UNCHANGED <<cur, att, out>>

\* The handler returns; execute goes on to record the outcome.
Return(o) == pc' = "persist" /\ out' = o /\ UNCHANGED <<cur, att>>

Claim(f) ==
    /\ pc = "idle"
    /\ job[f] = "PENDING" /\ f \in due
    /\ job' = [job EXCEPT ![f] = "RUNNING"]
    /\ attempts' = [attempts EXCEPT ![f] = @ + 1]
    /\ due' = due \ {f}
    /\ pc' = "prepare" /\ cur' = f /\ att' = attempts[f] + 1
    /\ UNCHANGED <<old, src, attached, deriv, temp, final, out, sweepVars, bounds>>

\* Mutant: a derivative that failed before is not tried again.
PrepareOnce ==
    /\ pc = "prepare"
    /\ IF src[cur] # "READY" \/ deriv[cur] \in {"READY", "FAILED"}
       THEN Return("ok") /\ UNCHANGED deriv
       ELSE Goto("validate") /\ deriv' = [deriv EXCEPT ![cur] = "PENDING"]
    /\ UNCHANGED <<queueVars, src, attached, temp, final, sweepVars, bounds>>

\* One transaction, with the rows of the source and of the derivative locked.
\* The source may turn out to be no image that has a thumbnail.
Prepare ==
    /\ pc = "prepare"
    /\ \/ /\ src[cur] # "READY" \/ deriv[cur] = "READY"
          /\ Return("ok") /\ UNCHANGED deriv
       \/ /\ src[cur] = "READY"
          /\ Return("permanent") /\ UNCHANGED deriv
       \/ /\ src[cur] = "READY" /\ deriv[cur] # "READY"
          /\ Goto("validate") /\ deriv' = [deriv EXCEPT ![cur] = "PENDING"]
    /\ UNCHANGED <<queueVars, src, attached, temp, final, sweepVars, bounds>>

\* validateFinal: an earlier attempt may have got as far as the rename; a file
\* that is no thumbnail is given up (THUMBNAIL_OUTPUT_INVALID).
ValidateFinal ==
    /\ pc = "validate"
    /\ Goto(CASE final[cur] = "full" -> "mark"
              [] final[cur] = "partial" -> "giveup"
              [] final[cur] = "none" -> "decode")
    /\ UNCHANGED <<dbVars, temp, final, sweepVars, bounds>>

\* Removes a leftover temp, which may fail unnoticed, and reads the source.
Decode ==
    /\ pc = "decode"
    /\ temp' \in {temp, [temp EXCEPT ![cur] = "none"]}
    /\ Goto("create") \/ Goto("giveup")
    /\ UNCHANGED <<dbVars, final, sweepVars, bounds>>

\* Mutant: the temp is renamed before it is written and synced.
CreateTempUnsynced ==
    /\ pc = "create"
    /\ IF temp[cur] = "none"
       THEN Goto("rename") /\ temp' = [temp EXCEPT ![cur] = "partial"]
       ELSE Return("retry") /\ UNCHANGED temp
    /\ UNCHANGED <<dbVars, final, sweepVars, bounds>>

\* CreateCommitTemp opens with O_EXCL.
CreateTemp ==
    /\ pc = "create"
    /\ IF temp[cur] = "none"
       THEN Goto("encode") /\ temp' = [temp EXCEPT ![cur] = "partial"]
       ELSE Return("retry") /\ UNCHANGED temp
    /\ UNCHANGED <<dbVars, final, sweepVars, bounds>>

\* Encode, Sync and Close.  When cleanupTemps has removed the name, the bytes
\* go to a file without a name.
Encode ==
    /\ pc = "encode"
    /\ temp' = [temp EXCEPT ![cur] = IF @ = "none" THEN "none" ELSE "full"]
    /\ Goto("rename")
    /\ UNCHANGED <<dbVars, final, sweepVars, bounds>>

\* Commit refuses an existing destination and may fail after the rename; the
\* handler then looks whether the file is there.
Rename ==
    /\ pc = "rename"
    /\ IF temp[cur] # "none" /\ final[cur] = "none"
       THEN /\ final' = [final EXCEPT ![cur] = temp[cur]]
            /\ temp' = [temp EXCEPT ![cur] = "none"]
            /\ Goto("mark")
       ELSE /\ IF final[cur] = "full" THEN Goto("mark") ELSE Return("retry")
            /\ UNCHANGED <<temp, final>>
    /\ UNCHANGED <<dbVars, sweepVars, bounds>>

\* The bytes are there; the row says so unless the source has gone or the
\* derivative is not PENDING any more ("derivative state changed").
MarkReady ==
    /\ pc = "mark"
    /\ IF src[cur] # "READY" THEN Goto("cleanFile") /\ UNCHANGED deriv
       ELSE IF deriv[cur] = "PENDING"
       THEN Return("ok") /\ deriv' = [deriv EXCEPT ![cur] = "READY"]
       ELSE Return("retry") /\ UNCHANGED deriv
    /\ UNCHANGED <<queueVars, src, attached, temp, final, sweepVars, bounds>>

\* cleanupUnownedDerivative: first the file, then the row.
CleanFile ==
    /\ pc = "cleanFile"
    /\ final' = [final EXCEPT ![cur] = "none"]
    /\ Goto("cleanRow")
    /\ UNCHANGED <<dbVars, temp, sweepVars, bounds>>

CleanRow ==
    /\ pc = "cleanRow"
    /\ deriv' = [deriv EXCEPT ![cur] = IF @ = "PENDING" THEN "none" ELSE @]
    /\ Return("ok")
    /\ UNCHANGED <<queueVars, src, attached, temp, final, sweepVars, bounds>>

PermanentFailure ==
    /\ pc = "giveup"
    /\ FailDerivatives({cur})
    /\ Return("permanent")
    /\ UNCHANGED <<queueVars, src, attached, temp, final, sweepVars, bounds>>

\* Any access of the handler fails, its effect lost, and the job is to be
\* retried; after a failed write the temp is removed if that works.
HandlerError ==
    /\ pc \notin {"idle", "persist"}
    /\ temp' \in {temp, IF pc = "encode" THEN [temp EXCEPT ![cur] = "none"] ELSE temp}
    /\ Return("retry")
    /\ UNCHANGED <<dbVars, final, sweepVars, bounds>>

\* Complete and Fail change a RUNNING job only.
Complete ==
    /\ job' = [job EXCEPT ![cur] = "COMPLETED"]
    /\ UNCHANGED <<due, deriv>>

Fail ==
    IF out = "permanent" \/ att >= MaxAttempts
    THEN /\ job' = [job EXCEPT ![cur] = "FAILED"]
         /\ FailDerivatives({cur})
         /\ UNCHANGED due
    ELSE /\ job' = [job EXCEPT ![cur] = "PENDING"]
         /\ UNCHANGED <<due, deriv>>

\* reconcileComplete and reconcileFail: a job that is not RUNNING was settled by
\* an earlier call of this attempt, or its claim is lost.  Both end persist.
ReconcileOutcome == UNCHANGED <<job, due, deriv, old>>

\* A commit reported as failed is repeated.
Persist ==
    /\ pc = "persist"
    /\ IF job[cur] = "RUNNING"
       THEN /\ IF out = "ok" THEN Complete ELSE Fail
            /\ old' = old \ {cur}
       ELSE ReconcileOutcome
    /\ \/ pc' = "idle" /\ cur' = None /\ UNCHANGED <<att, out>>
       \/ job[cur] = "RUNNING" /\ UNCHANGED workerVars
    /\ UNCHANGED <<attempts, src, attached, temp, final, sweepVars, bounds>>

Worker ==
    \/ \E f \in Files : Claim(f)
    \/ Prepare \/ ValidateFinal \/ Decode \/ CreateTemp \/ Encode \/ Rename
    \/ MarkReady \/ CleanFile \/ CleanRow \/ PermanentFailure \/ HandlerError
    \/ Persist

-----------------------------------------------------------------------------
(* The sweep: GC marks, deleteObject removes, cleanupTemps.                 *)

\* No reference and no live job, judged again by the UPDATE itself.
Collectable(f) == src[f] = "READY" /\ f \notin attached /\ f \notin Live

Collect(f) ==
    /\ swPc = "idle"
    /\ Collectable(f)
    /\ src' = [src EXCEPT ![f] = "DELETING"]
    /\ UNCHANGED <<queueVars, attached, deriv, temp, final, workerVars, sweepVars, bounds>>

DeleteObject(f) ==
    /\ swPc = "idle"
    /\ src[f] = "DELETING"
    /\ swCur' = f
    /\ swPc' = IF deriv[f] # "none" THEN "file" ELSE "object"
    /\ UNCHANGED <<dbVars, temp, final, workerVars, bounds>>

DeleteDerivativeFile ==
    /\ swPc = "file"
    /\ final' = [final EXCEPT ![swCur] = "none"]
    /\ swPc' = "row"
    /\ UNCHANGED <<dbVars, temp, workerVars, swCur, bounds>>

DeleteDerivativeRow ==
    /\ swPc = "row"
    /\ deriv' = [deriv EXCEPT ![swCur] = "none"]
    /\ swPc' = "object"
    /\ UNCHANGED <<queueVars, src, attached, temp, final, workerVars, swCur, bounds>>

DeleteObjectRow ==
    /\ swPc = "object"
    /\ src' = [src EXCEPT ![swCur] = "gone"]
    /\ swPc' = "idle" /\ swCur' = None
    /\ UNCHANGED <<queueVars, attached, deriv, temp, final, workerVars, bounds>>

\* Mutant: a temp whose derivative is unknown is kept.
TempOwnedUnknown(f) == deriv[f] \in {"PENDING", "none"}

\* cleanupTemps asks for the owner of a temp and then deletes it.
TempOwned(f) == deriv[f] = "PENDING"

CheckTemp(f) ==
    /\ swPc = "idle"
    /\ temp[f] # "none" /\ ~TempOwned(f)
    /\ swPc' = "temp" /\ swCur' = f
    /\ UNCHANGED <<dbVars, temp, final, workerVars, bounds>>

DeleteTemp ==
    /\ swPc = "temp"
    /\ temp' = [temp EXCEPT ![swCur] = "none"]
    /\ swPc' = "idle" /\ swCur' = None
    /\ UNCHANGED <<dbVars, final, workerVars, bounds>>

SweepError ==
    /\ swPc # "idle" /\ faults < MaxFaults
    /\ faults' = faults + 1
    /\ swPc' = "idle" /\ swCur' = None
    /\ UNCHANGED <<dbVars, temp, final, workerVars, crashes>>

Sweep ==
    \/ \E f \in Files : DeleteObject(f) \/ CheckTemp(f)
    \/ DeleteDerivativeFile \/ DeleteDerivativeRow \/ DeleteObjectRow \/ DeleteTemp

-----------------------------------------------------------------------------
Crash ==
    /\ crashes < MaxCrashes
    /\ crashes' = crashes + 1
    /\ pc' = "idle" /\ cur' = None /\ att' = 0 /\ out' = "ok"
    /\ swPc' = "idle" /\ swCur' = None
    /\ UNCHANGED <<dbVars, temp, final, faults>>

Next ==
    \/ \E f \in Files : Attach(f) \/ Detach(f) \/ BackoffEnds(f) \/ ClaimAges(f) \/ Collect(f)
    \/ \E F \in SUBSET Files : RecoverStuck(F)
    \/ EnqueueMissingThumbnailJobs
    \/ Worker
    \/ Sweep
    \/ SweepError
    \/ Crash

Spec == Init /\ [][Next]_vars

\* The worker polls every 45 seconds and runs what it has begun; the clock
\* goes on; the scheduler runs every hour.
Fairness ==
    /\ WF_vars(Worker)
    /\ \A f \in Files : /\ WF_vars(BackoffEnds(f)) /\ WF_vars(ClaimAges(f))
                        /\ WF_vars(\E F \in SUBSET Files : f \in F /\ RecoverStuck(F))
    /\ WF_vars(Sweep)

LiveSpec == Spec /\ Fairness

-----------------------------------------------------------------------------
TypeOK ==
    /\ job \in [Files -> {"none", "PENDING", "RUNNING", "COMPLETED", "FAILED"}]
    /\ attempts \in [Files -> 0..MaxAttempts]
    /\ due \subseteq {f \in Files : job[f] = "PENDING"}
    /\ old \subseteq {f \in Files : job[f] = "RUNNING"}
    /\ src \in [Files -> {"READY", "DELETING", "gone"}]
    /\ attached \subseteq Files
    /\ deriv \in [Files -> {"none", "PENDING", "READY", "FAILED"}]
    /\ temp \in [Files -> {"none", "partial", "full"}]
    /\ final \in [Files -> {"none", "partial", "full"}]
    /\ pc \in {"idle", "prepare", "validate", "decode", "create", "encode", "rename",
               "mark", "cleanFile", "cleanRow", "giveup", "persist"}
    /\ cur \in Files \union {None} /\ (cur = None <=> pc = "idle")
    /\ att \in 0..MaxAttempts
    /\ out \in {"ok", "retry", "permanent"}
    /\ swPc \in {"idle", "file", "row", "object", "temp"}
    /\ swCur \in Files \union {None} /\ (swCur = None <=> swPc = "idle")
    /\ crashes \in 0..MaxCrashes /\ faults \in 0..MaxFaults

\* A thumbnail that downloads may serve (derivative and source READY) is a
\* complete file, whatever attempt wrote it and whoever removed leftovers.
ReadyIntact ==
    \A f \in Files : deriv[f] = "READY" /\ src[f] = "READY" => final[f] = "full"

\* What the queue promises: jobs, retries, recovery of stuck jobs and lost
\* claims together implement JobQueue, where a subject is served once its
\* thumbnail is READY or its source is no longer READY.
Served == {f \in Files : deriv[f] = "READY" \/ src[f] # "READY"}

Queue == INSTANCE JobQueue WITH Jobs <- Files, status <- job, served <- Served

QueueKept == Queue!Spec

\* Every job is completed or failed in the end, through crashes, errors and
\* handlers that are slower than the recovery of stuck jobs.
JobsSettle ==
    \A f \in Files : job[f] \in {"PENDING", "RUNNING"} ~> job[f] \in {"COMPLETED", "FAILED"}

\* Once the source is gone no commit temp of its derivative is left for good,
\* although a handler may still create one.
TempsRemoved == \A f \in Files : src[f] = "gone" ~> temp[f] = "none"

\* The comment of cleanupUnownedDerivative: a derivative file always has its
\* row, or a handler or a job that will remove it.
NoOrphanDerivative ==
    \A f \in Files : final[f] # "none" => deriv[f] # "none" \/ cur = f \/ swCur = f \/ f \in Live
=============================================================================
