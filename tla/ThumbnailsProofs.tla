-------------------------- MODULE ThumbnailsProofs --------------------------
(* Invariance proofs for Thumbnails and the proof that the worker, the       *)
(* recovery of stuck jobs and the sweep together implement JobQueue, for any *)
(* number of files, attempts, crashes and failed accesses.                   *)
EXTENDS Thumbnails, TLAPS

(* The inductive invariant.                                                  *)

\* What the handler and the sweep may rely on at each step: a file under
\* derivatives/ is whole, only a whole temp is renamed, what is marked READY
\* is there, and what is removed belongs to a source that is not READY.
FilesInv ==
    /\ \A f \in Files : final[f] # "partial"
    /\ pc = "rename" => temp[cur] # "partial"
    /\ pc = "mark" => final[cur] = "full" \/ src[cur] # "READY"
    /\ pc \in {"cleanFile", "cleanRow"} => src[cur] # "READY"
    /\ swPc \in {"file", "row", "object"} => src[swCur] = "DELETING"

\* A handler that succeeded has served its job; the attempts it was told are
\* those of the row as long as the claim is its own; a job that is PENDING has
\* an attempt left.
QueueInv ==
    /\ pc = "persist" /\ out = "ok" => cur \in Served
    /\ pc # "idle" /\ job[cur] = "RUNNING" => attempts[cur] = att
    /\ pc # "idle" => att # 0
    /\ \A f \in Files : job[f] \in {"none", "PENDING"} => attempts[f] < MaxAttempts
    /\ \A f \in Files : job[f] = "none" => attempts[f] = 0

IInv == TypeOK /\ ReadyIntact /\ FilesInv /\ QueueInv

-----------------------------------------------------------------------------
(* One lemma per action.                                                     *)


LEMMA AttachKeeps ==
  ASSUME IInv, NEW f \in Files, Attach(f)
  PROVE  IInv'
  <1>1. TypeOK'
    BY AttemptsPositive, BoundsNatural, NoneIsNoFile DEF IInv, TypeOK, QueueInv, Attach, EnsureThumbnailJob, bounds, sweepVars, workerVars
  <1>2. ReadyIntact' /\ FilesInv'
    BY NoneIsNoFile DEF IInv, TypeOK, ReadyIntact, FilesInv, Attach, EnsureThumbnailJob, bounds, sweepVars, workerVars
  <1>3. QueueInv'
    BY AttemptsPositive, NoneIsNoFile DEF IInv, TypeOK, FilesInv, QueueInv, Served, Attach, EnsureThumbnailJob, bounds, sweepVars, workerVars
  <1>. QED
    BY <1>1, <1>2, <1>3 DEF IInv

LEMMA DetachKeeps ==
  ASSUME IInv, NEW f \in Files, Detach(f)
  PROVE  IInv'
  <1>1. TypeOK'
    BY AttemptsPositive, BoundsNatural, NoneIsNoFile DEF IInv, TypeOK, QueueInv, Detach, bounds, queueVars, sweepVars, workerVars
  <1>2. ReadyIntact' /\ FilesInv'
    BY NoneIsNoFile DEF IInv, TypeOK, ReadyIntact, FilesInv, Detach, bounds, queueVars, sweepVars, workerVars
  <1>3. QueueInv'
    BY AttemptsPositive, NoneIsNoFile DEF IInv, TypeOK, FilesInv, QueueInv, Served, Detach, bounds, queueVars, sweepVars, workerVars
  <1>. QED
    BY <1>1, <1>2, <1>3 DEF IInv

LEMMA BackoffEndsKeeps ==
  ASSUME IInv, NEW f \in Files, BackoffEnds(f)
  PROVE  IInv'
  <1>1. TypeOK'
    BY AttemptsPositive, BoundsNatural, NoneIsNoFile DEF IInv, TypeOK, QueueInv, BackoffEnds, bounds, sweepVars, workerVars
  <1>2. ReadyIntact' /\ FilesInv'
    BY NoneIsNoFile DEF IInv, TypeOK, ReadyIntact, FilesInv, BackoffEnds, bounds, sweepVars, workerVars
  <1>3. QueueInv'
    BY AttemptsPositive, NoneIsNoFile DEF IInv, TypeOK, FilesInv, QueueInv, Served, BackoffEnds, bounds, sweepVars, workerVars
  <1>. QED
    BY <1>1, <1>2, <1>3 DEF IInv

LEMMA ClaimAgesKeeps ==
  ASSUME IInv, NEW f \in Files, ClaimAges(f)
  PROVE  IInv'
  <1>1. TypeOK'
    BY AttemptsPositive, BoundsNatural, NoneIsNoFile DEF IInv, TypeOK, QueueInv, ClaimAges, bounds, sweepVars, workerVars
  <1>2. ReadyIntact' /\ FilesInv'
    BY NoneIsNoFile DEF IInv, TypeOK, ReadyIntact, FilesInv, ClaimAges, bounds, sweepVars, workerVars
  <1>3. QueueInv'
    BY AttemptsPositive, NoneIsNoFile DEF IInv, TypeOK, FilesInv, QueueInv, Served, ClaimAges, bounds, sweepVars, workerVars
  <1>. QED
    BY <1>1, <1>2, <1>3 DEF IInv

LEMMA CollectKeeps ==
  ASSUME IInv, NEW f \in Files, Collect(f)
  PROVE  IInv'
  <1>1. TypeOK'
    BY AttemptsPositive, BoundsNatural, NoneIsNoFile DEF IInv, TypeOK, QueueInv, Collect, Collectable, Live, bounds, queueVars, sweepVars, workerVars
  <1>2. ReadyIntact' /\ FilesInv'
    BY NoneIsNoFile DEF IInv, TypeOK, ReadyIntact, FilesInv, Collect, Collectable, Live, bounds, queueVars, sweepVars, workerVars
  <1>3. QueueInv'
    BY AttemptsPositive, NoneIsNoFile DEF IInv, TypeOK, FilesInv, QueueInv, Served, Collect, Collectable, Live, bounds, queueVars, sweepVars, workerVars
  <1>. QED
    BY <1>1, <1>2, <1>3 DEF IInv

LEMMA RecoverStuckKeeps ==
  ASSUME IInv, NEW F \in SUBSET Files, RecoverStuck(F)
  PROVE  IInv'
  <1>1. TypeOK'
    BY AttemptsPositive, BoundsNatural, NoneIsNoFile DEF IInv, TypeOK, QueueInv, RecoverStuck, FailDerivatives, bounds, sweepVars, workerVars
  <1>2. ReadyIntact' /\ FilesInv'
    BY NoneIsNoFile DEF IInv, TypeOK, ReadyIntact, FilesInv, RecoverStuck, FailDerivatives, bounds, sweepVars, workerVars
  <1>3. QueueInv'
    BY AttemptsPositive, NoneIsNoFile DEF IInv, TypeOK, FilesInv, QueueInv, Served, RecoverStuck, FailDerivatives, bounds, sweepVars, workerVars
  <1>. QED
    BY <1>1, <1>2, <1>3 DEF IInv

LEMMA EnqueueMissingThumbnailJobsKeeps ==
  ASSUME IInv, EnqueueMissingThumbnailJobs
  PROVE  IInv'
  <1>1. TypeOK'
    BY AttemptsPositive, BoundsNatural, NoneIsNoFile DEF IInv, TypeOK, QueueInv, EnqueueMissingThumbnailJobs, Missing, bounds, sweepVars, workerVars
  <1>2. ReadyIntact' /\ FilesInv'
    BY NoneIsNoFile DEF IInv, TypeOK, ReadyIntact, FilesInv, EnqueueMissingThumbnailJobs, Missing, bounds, sweepVars, workerVars
  <1>3. QueueInv'
    BY AttemptsPositive, NoneIsNoFile DEF IInv, TypeOK, FilesInv, QueueInv, Served, EnqueueMissingThumbnailJobs, Missing, bounds, sweepVars, workerVars
  <1>. QED
    BY <1>1, <1>2, <1>3 DEF IInv

LEMMA ClaimKeeps ==
  ASSUME IInv, NEW f \in Files, Claim(f)
  PROVE  IInv'
  <1>1. TypeOK'
    BY AttemptsPositive, BoundsNatural, NoneIsNoFile DEF IInv, TypeOK, QueueInv, Claim, bounds, sweepVars
  <1>2. ReadyIntact' /\ FilesInv'
    BY NoneIsNoFile DEF IInv, TypeOK, ReadyIntact, FilesInv, Claim, bounds, sweepVars
  <1>3. QueueInv'
    BY AttemptsPositive, NoneIsNoFile DEF IInv, TypeOK, FilesInv, QueueInv, Served, Claim, bounds, sweepVars
  <1>. QED
    BY <1>1, <1>2, <1>3 DEF IInv

LEMMA PrepareKeeps ==
  ASSUME IInv, Prepare
  PROVE  IInv'
  <1>1. TypeOK'
    BY AttemptsPositive, BoundsNatural, NoneIsNoFile DEF IInv, TypeOK, QueueInv, Prepare, Goto, Return, bounds, queueVars, sweepVars
  <1>2. ReadyIntact' /\ FilesInv'
    BY NoneIsNoFile DEF IInv, TypeOK, ReadyIntact, FilesInv, Prepare, Goto, Return, bounds, queueVars, sweepVars
  <1>3. QueueInv'
    BY AttemptsPositive, NoneIsNoFile DEF IInv, TypeOK, FilesInv, QueueInv, Served, Prepare, Goto, Return, bounds, queueVars, sweepVars
  <1>. QED
    BY <1>1, <1>2, <1>3 DEF IInv

LEMMA ValidateFinalKeeps ==
  ASSUME IInv, ValidateFinal
  PROVE  IInv'
  <1>1. TypeOK'
    BY AttemptsPositive, BoundsNatural, NoneIsNoFile DEF IInv, TypeOK, QueueInv, ValidateFinal, Goto, bounds, dbVars, sweepVars
  <1>2. ReadyIntact' /\ FilesInv'
    BY NoneIsNoFile DEF IInv, TypeOK, ReadyIntact, FilesInv, ValidateFinal, Goto, bounds, dbVars, sweepVars
  <1>3. QueueInv'
    BY AttemptsPositive, NoneIsNoFile DEF IInv, TypeOK, FilesInv, QueueInv, Served, ValidateFinal, Goto, bounds, dbVars, sweepVars
  <1>. QED
    BY <1>1, <1>2, <1>3 DEF IInv

LEMMA DecodeKeeps ==
  ASSUME IInv, Decode
  PROVE  IInv'
  <1>1. TypeOK'
    BY AttemptsPositive, BoundsNatural, NoneIsNoFile DEF IInv, TypeOK, QueueInv, Decode, Goto, bounds, dbVars, sweepVars
  <1>2. ReadyIntact' /\ FilesInv'
    BY NoneIsNoFile DEF IInv, TypeOK, ReadyIntact, FilesInv, Decode, Goto, bounds, dbVars, sweepVars
  <1>3. QueueInv'
    BY AttemptsPositive, NoneIsNoFile DEF IInv, TypeOK, FilesInv, QueueInv, Served, Decode, Goto, bounds, dbVars, sweepVars
  <1>. QED
    BY <1>1, <1>2, <1>3 DEF IInv

LEMMA CreateTempKeeps ==
  ASSUME IInv, CreateTemp
  PROVE  IInv'
  <1>1. TypeOK'
    BY AttemptsPositive, BoundsNatural, NoneIsNoFile DEF IInv, TypeOK, QueueInv, CreateTemp, Goto, Return, bounds, dbVars, sweepVars
  <1>2. ReadyIntact' /\ FilesInv'
    BY NoneIsNoFile DEF IInv, TypeOK, ReadyIntact, FilesInv, CreateTemp, Goto, Return, bounds, dbVars, sweepVars
  <1>3. QueueInv'
    BY AttemptsPositive, NoneIsNoFile DEF IInv, TypeOK, FilesInv, QueueInv, Served, CreateTemp, Goto, Return, bounds, dbVars, sweepVars
  <1>. QED
    BY <1>1, <1>2, <1>3 DEF IInv

LEMMA EncodeKeeps ==
  ASSUME IInv, Encode
  PROVE  IInv'
  <1>1. TypeOK'
    BY AttemptsPositive, BoundsNatural, NoneIsNoFile DEF IInv, TypeOK, QueueInv, Encode, Goto, bounds, dbVars, sweepVars
  <1>2. ReadyIntact' /\ FilesInv'
    BY NoneIsNoFile DEF IInv, TypeOK, ReadyIntact, FilesInv, Encode, Goto, bounds, dbVars, sweepVars
  <1>3. QueueInv'
    BY AttemptsPositive, NoneIsNoFile DEF IInv, TypeOK, FilesInv, QueueInv, Served, Encode, Goto, bounds, dbVars, sweepVars
  <1>. QED
    BY <1>1, <1>2, <1>3 DEF IInv

LEMMA RenameKeeps ==
  ASSUME IInv, Rename
  PROVE  IInv'
  <1>1. TypeOK'
    BY AttemptsPositive, BoundsNatural, NoneIsNoFile DEF IInv, TypeOK, QueueInv, Rename, Goto, Return, bounds, dbVars, sweepVars
  <1>2. ReadyIntact' /\ FilesInv'
    BY NoneIsNoFile DEF IInv, TypeOK, ReadyIntact, FilesInv, Rename, Goto, Return, bounds, dbVars, sweepVars
  <1>3. QueueInv'
    BY AttemptsPositive, NoneIsNoFile DEF IInv, TypeOK, FilesInv, QueueInv, Served, Rename, Goto, Return, bounds, dbVars, sweepVars
  <1>. QED
    BY <1>1, <1>2, <1>3 DEF IInv

LEMMA MarkReadyKeeps ==
  ASSUME IInv, MarkReady
  PROVE  IInv'
  <1>1. TypeOK'
    BY AttemptsPositive, BoundsNatural, NoneIsNoFile DEF IInv, TypeOK, QueueInv, MarkReady, Goto, Return, bounds, queueVars, sweepVars
  <1>2. ReadyIntact' /\ FilesInv'
    BY NoneIsNoFile DEF IInv, TypeOK, ReadyIntact, FilesInv, MarkReady, Goto, Return, bounds, queueVars, sweepVars
  <1>3. QueueInv'
    BY AttemptsPositive, NoneIsNoFile DEF IInv, TypeOK, FilesInv, QueueInv, Served, MarkReady, Goto, Return, bounds, queueVars, sweepVars
  <1>. QED
    BY <1>1, <1>2, <1>3 DEF IInv

LEMMA CleanFileKeeps ==
  ASSUME IInv, CleanFile
  PROVE  IInv'
  <1>1. TypeOK'
    BY AttemptsPositive, BoundsNatural, NoneIsNoFile DEF IInv, TypeOK, QueueInv, CleanFile, Goto, bounds, dbVars, sweepVars
  <1>2. ReadyIntact' /\ FilesInv'
    BY NoneIsNoFile DEF IInv, TypeOK, ReadyIntact, FilesInv, CleanFile, Goto, bounds, dbVars, sweepVars
  <1>3. QueueInv'
    BY AttemptsPositive, NoneIsNoFile DEF IInv, TypeOK, FilesInv, QueueInv, Served, CleanFile, Goto, bounds, dbVars, sweepVars
  <1>. QED
    BY <1>1, <1>2, <1>3 DEF IInv

LEMMA CleanRowKeeps ==
  ASSUME IInv, CleanRow
  PROVE  IInv'
  <1>1. TypeOK'
    BY AttemptsPositive, BoundsNatural, NoneIsNoFile DEF IInv, TypeOK, QueueInv, CleanRow, Return, bounds, queueVars, sweepVars
  <1>2. ReadyIntact' /\ FilesInv'
    BY NoneIsNoFile DEF IInv, TypeOK, ReadyIntact, FilesInv, CleanRow, Return, bounds, queueVars, sweepVars
  <1>3. QueueInv'
    BY AttemptsPositive, NoneIsNoFile DEF IInv, TypeOK, FilesInv, QueueInv, Served, CleanRow, Return, bounds, queueVars, sweepVars
  <1>. QED
    BY <1>1, <1>2, <1>3 DEF IInv

LEMMA PermanentFailureKeeps ==
  ASSUME IInv, PermanentFailure
  PROVE  IInv'
  <1>1. TypeOK'
    BY AttemptsPositive, BoundsNatural, NoneIsNoFile DEF IInv, TypeOK, QueueInv, PermanentFailure, Return, FailDerivatives, bounds, queueVars, sweepVars
  <1>2. ReadyIntact' /\ FilesInv'
    BY NoneIsNoFile DEF IInv, TypeOK, ReadyIntact, FilesInv, PermanentFailure, Return, FailDerivatives, bounds, queueVars, sweepVars
  <1>3. QueueInv'
    BY AttemptsPositive, NoneIsNoFile DEF IInv, TypeOK, FilesInv, QueueInv, Served, PermanentFailure, Return, FailDerivatives, bounds, queueVars, sweepVars
  <1>. QED
    BY <1>1, <1>2, <1>3 DEF IInv

LEMMA HandlerErrorKeeps ==
  ASSUME IInv, HandlerError
  PROVE  IInv'
  <1>1. TypeOK'
    BY AttemptsPositive, BoundsNatural, NoneIsNoFile DEF IInv, TypeOK, QueueInv, HandlerError, Return, bounds, dbVars, sweepVars
  <1>2. ReadyIntact' /\ FilesInv'
    BY NoneIsNoFile DEF IInv, TypeOK, ReadyIntact, FilesInv, HandlerError, Return, bounds, dbVars, sweepVars
  <1>3. QueueInv'
    BY AttemptsPositive, NoneIsNoFile DEF IInv, TypeOK, FilesInv, QueueInv, Served, HandlerError, Return, bounds, dbVars, sweepVars
  <1>. QED
    BY <1>1, <1>2, <1>3 DEF IInv

LEMMA PersistKeeps ==
  ASSUME IInv, Persist
  PROVE  IInv'
  <1>1. TypeOK'
    BY AttemptsPositive, BoundsNatural, NoneIsNoFile DEF IInv, TypeOK, QueueInv, Persist, ReconcileOutcome, Complete, Fail, FailDerivatives, bounds, sweepVars, workerVars
  <1>2. ReadyIntact' /\ FilesInv'
    BY NoneIsNoFile DEF IInv, TypeOK, ReadyIntact, FilesInv, Persist, ReconcileOutcome, Complete, Fail, FailDerivatives, bounds, sweepVars, workerVars
  <1>3. QueueInv'
    BY AttemptsPositive, NoneIsNoFile DEF IInv, TypeOK, FilesInv, QueueInv, Served, Persist, ReconcileOutcome, Complete, Fail, FailDerivatives, bounds, sweepVars, workerVars
  <1>. QED
    BY <1>1, <1>2, <1>3 DEF IInv

LEMMA DeleteObjectKeeps ==
  ASSUME IInv, NEW f \in Files, DeleteObject(f)
  PROVE  IInv'
  <1>1. TypeOK'
    BY AttemptsPositive, BoundsNatural, NoneIsNoFile DEF IInv, TypeOK, QueueInv, DeleteObject, bounds, dbVars, workerVars
  <1>2. ReadyIntact' /\ FilesInv'
    BY NoneIsNoFile DEF IInv, TypeOK, ReadyIntact, FilesInv, DeleteObject, bounds, dbVars, workerVars
  <1>3. QueueInv'
    BY AttemptsPositive, NoneIsNoFile DEF IInv, TypeOK, FilesInv, QueueInv, Served, DeleteObject, bounds, dbVars, workerVars
  <1>. QED
    BY <1>1, <1>2, <1>3 DEF IInv

LEMMA CheckTempKeeps ==
  ASSUME IInv, NEW f \in Files, CheckTemp(f)
  PROVE  IInv'
  <1>1. TypeOK'
    BY AttemptsPositive, BoundsNatural, NoneIsNoFile DEF IInv, TypeOK, QueueInv, CheckTemp, TempOwned, bounds, dbVars, workerVars
  <1>2. ReadyIntact' /\ FilesInv'
    BY NoneIsNoFile DEF IInv, TypeOK, ReadyIntact, FilesInv, CheckTemp, TempOwned, bounds, dbVars, workerVars
  <1>3. QueueInv'
    BY AttemptsPositive, NoneIsNoFile DEF IInv, TypeOK, FilesInv, QueueInv, Served, CheckTemp, TempOwned, bounds, dbVars, workerVars
  <1>. QED
    BY <1>1, <1>2, <1>3 DEF IInv

LEMMA DeleteDerivativeFileKeeps ==
  ASSUME IInv, DeleteDerivativeFile
  PROVE  IInv'
  <1>1. TypeOK'
    BY AttemptsPositive, BoundsNatural, NoneIsNoFile DEF IInv, TypeOK, QueueInv, DeleteDerivativeFile, bounds, dbVars, workerVars
  <1>2. ReadyIntact' /\ FilesInv'
    BY NoneIsNoFile DEF IInv, TypeOK, ReadyIntact, FilesInv, DeleteDerivativeFile, bounds, dbVars, workerVars
  <1>3. QueueInv'
    BY AttemptsPositive, NoneIsNoFile DEF IInv, TypeOK, FilesInv, QueueInv, Served, DeleteDerivativeFile, bounds, dbVars, workerVars
  <1>. QED
    BY <1>1, <1>2, <1>3 DEF IInv

LEMMA DeleteDerivativeRowKeeps ==
  ASSUME IInv, DeleteDerivativeRow
  PROVE  IInv'
  <1>1. TypeOK'
    BY AttemptsPositive, BoundsNatural, NoneIsNoFile DEF IInv, TypeOK, QueueInv, DeleteDerivativeRow, bounds, queueVars, workerVars
  <1>2. ReadyIntact' /\ FilesInv'
    BY NoneIsNoFile DEF IInv, TypeOK, ReadyIntact, FilesInv, DeleteDerivativeRow, bounds, queueVars, workerVars
  <1>3. QueueInv'
    BY AttemptsPositive, NoneIsNoFile DEF IInv, TypeOK, FilesInv, QueueInv, Served, DeleteDerivativeRow, bounds, queueVars, workerVars
  <1>. QED
    BY <1>1, <1>2, <1>3 DEF IInv

LEMMA DeleteObjectRowKeeps ==
  ASSUME IInv, DeleteObjectRow
  PROVE  IInv'
  <1>1. TypeOK'
    BY AttemptsPositive, BoundsNatural, NoneIsNoFile DEF IInv, TypeOK, QueueInv, DeleteObjectRow, bounds, queueVars, workerVars
  <1>2. ReadyIntact' /\ FilesInv'
    BY NoneIsNoFile DEF IInv, TypeOK, ReadyIntact, FilesInv, DeleteObjectRow, bounds, queueVars, workerVars
  <1>3. QueueInv'
    BY AttemptsPositive, NoneIsNoFile DEF IInv, TypeOK, FilesInv, QueueInv, Served, DeleteObjectRow, bounds, queueVars, workerVars
  <1>. QED
    BY <1>1, <1>2, <1>3 DEF IInv

LEMMA DeleteTempKeeps ==
  ASSUME IInv, DeleteTemp
  PROVE  IInv'
  <1>1. TypeOK'
    BY AttemptsPositive, BoundsNatural, NoneIsNoFile DEF IInv, TypeOK, QueueInv, DeleteTemp, bounds, dbVars, workerVars
  <1>2. ReadyIntact' /\ FilesInv'
    BY NoneIsNoFile DEF IInv, TypeOK, ReadyIntact, FilesInv, DeleteTemp, bounds, dbVars, workerVars
  <1>3. QueueInv'
    BY AttemptsPositive, NoneIsNoFile DEF IInv, TypeOK, FilesInv, QueueInv, Served, DeleteTemp, bounds, dbVars, workerVars
  <1>. QED
    BY <1>1, <1>2, <1>3 DEF IInv

LEMMA SweepErrorKeeps ==
  ASSUME IInv, SweepError
  PROVE  IInv'
  <1>1. TypeOK'
    BY AttemptsPositive, BoundsNatural, NoneIsNoFile DEF IInv, TypeOK, QueueInv, SweepError, dbVars, workerVars
  <1>2. ReadyIntact' /\ FilesInv'
    BY NoneIsNoFile DEF IInv, TypeOK, ReadyIntact, FilesInv, SweepError, dbVars, workerVars
  <1>3. QueueInv'
    BY AttemptsPositive, NoneIsNoFile DEF IInv, TypeOK, FilesInv, QueueInv, Served, SweepError, dbVars, workerVars
  <1>. QED
    BY <1>1, <1>2, <1>3 DEF IInv

LEMMA CrashKeeps ==
  ASSUME IInv, Crash
  PROVE  IInv'
  <1>1. TypeOK'
    BY AttemptsPositive, BoundsNatural, NoneIsNoFile DEF IInv, TypeOK, QueueInv, Crash, dbVars
  <1>2. ReadyIntact' /\ FilesInv'
    BY NoneIsNoFile DEF IInv, TypeOK, ReadyIntact, FilesInv, Crash, dbVars
  <1>3. QueueInv'
    BY AttemptsPositive, NoneIsNoFile DEF IInv, TypeOK, FilesInv, QueueInv, Served, Crash, dbVars
  <1>. QED
    BY <1>1, <1>2, <1>3 DEF IInv

-----------------------------------------------------------------------------
(* The refinement of JobQueue.                                               *)

Refined == [Queue!Next]_Queue!vars

\* Steps that neither touch a job nor serve or unserve its subject.
Idle == UNCHANGED <<job, attempts, Served>>

LEMMA IdleRefines == Idle => Refined
  BY DEF Idle, Refined, Queue!vars

\* Messages, the passes over jobs, and the collection of a source.
LEMMA QueueingRefines ==
  ASSUME IInv, NEW f \in Files, Attach(f) \/ Detach(f) \/ BackoffEnds(f) \/ ClaimAges(f) \/ Collect(f)
  PROVE  Refined
  <1>1. CASE Attach(f)
    <2>1. Served' = Served
      BY <1>1 DEF Attach, Served
    <2>2. CASE deriv[f] # "READY" /\ job[f] = "none"
      <3>1. Queue!Enqueue({f})
        BY <1>1, <2>1, <2>2 DEF Attach, EnsureThumbnailJob, Queue!Enqueue, IInv, TypeOK
      <3>. QED
        BY <3>1 DEF Refined, Queue!Next
    <2>3. CASE ~(deriv[f] # "READY" /\ job[f] = "none")
      BY <1>1, <2>1, <2>3, IdleRefines DEF Attach, EnsureThumbnailJob, Idle
    <2>. QED
      BY <2>2, <2>3
  <1>2. CASE Detach(f) \/ BackoffEnds(f) \/ ClaimAges(f)
    BY <1>2, IdleRefines DEF Detach, BackoffEnds, ClaimAges, queueVars, Idle, Served
  <1>3. CASE Collect(f)
    <2>1. Served' = Served \union {f}
      BY <1>3 DEF Collect, Served, IInv, TypeOK
    <2>2. Queue!Serve(f)
      BY <1>3, <2>1 DEF Collect, queueVars, Queue!Serve
    <2>. QED
      BY <2>2 DEF Refined, Queue!Next
  <1>. QED
    BY <1>1, <1>2, <1>3

LEMMA RecoverStuckRefines ==
  ASSUME IInv, NEW F \in SUBSET Files, RecoverStuck(F)
  PROVE  Refined
  <1>. DEFINE spent == {f \in F : attempts[f] >= MaxAttempts}
  <1>1. Served' = Served
    BY DEF RecoverStuck, FailDerivatives, Served, IInv, TypeOK
  <1>2. \A f \in F : job[f] = "RUNNING"
    BY DEF RecoverStuck, IInv, TypeOK
  <1>3. \A f \in F \ spent : attempts[f] < MaxAttempts
    BY AttemptsPositive DEF IInv, TypeOK
  <1>4. /\ job' = [f \in Files |-> IF f \in spent THEN "FAILED"
                                   ELSE IF f \in F \ spent THEN "PENDING" ELSE job[f]]
        /\ attempts' = attempts
    BY DEF RecoverStuck
  <1>5. Queue!Release(F \ spent, spent)
    BY <1>1, <1>2, <1>3, <1>4 DEF Queue!Release
  <1>. QED
    BY <1>5 DEF Refined, Queue!Next

LEMMA EnqueueMissingRefines ==
  ASSUME IInv, EnqueueMissingThumbnailJobs
  PROVE  Refined
  <1>. DEFINE new == {f \in Files : Missing(f)}
  <1>1. Served' = Served
    BY DEF EnqueueMissingThumbnailJobs, Served
  <1>2. Queue!Enqueue(new)
    BY <1>1 DEF EnqueueMissingThumbnailJobs, Missing, Queue!Enqueue
  <1>. QED
    BY <1>2 DEF Refined, Queue!Next

LEMMA WorkerRefines ==
  ASSUME IInv, Worker
  PROVE  Refined
  <1>1. ASSUME NEW f \in Files, Claim(f)
        PROVE  Refined
    <2>1. Queue!Start(f)
      BY <1>1 DEF Claim, Queue!Start, Served, IInv, QueueInv
    <2>. QED
      BY <2>1 DEF Refined, Queue!Next
  <1>2. CASE Prepare
    BY <1>2, IdleRefines DEF Prepare, Idle, Served, queueVars, IInv, TypeOK
  <1>3. CASE \/ ValidateFinal \/ Decode \/ CreateTemp \/ Encode \/ Rename
             \/ CleanFile \/ HandlerError
    BY <1>3, IdleRefines
       DEF ValidateFinal, Decode, CreateTemp, Encode, Rename, CleanFile, HandlerError,
           Idle, Served, dbVars
  <1>4. CASE MarkReady
    <2>1. CASE src[cur] = "READY" /\ deriv[cur] = "PENDING"
      <3>1. cur \in Files
        BY <1>4 DEF MarkReady, IInv, TypeOK
      <3>2. Served' = Served \union {cur}
        BY <1>4, <2>1, <3>1 DEF MarkReady, Served, IInv, TypeOK
      <3>3. Queue!Serve(cur)
        BY <1>4, <3>2 DEF MarkReady, queueVars, Queue!Serve
      <3>. QED
        BY <3>1, <3>3 DEF Refined, Queue!Next
    <2>2. CASE ~(src[cur] = "READY" /\ deriv[cur] = "PENDING")
      BY <1>4, <2>2, IdleRefines DEF MarkReady, Idle, Served, queueVars
    <2>. QED
      BY <2>1, <2>2
  <1>5. CASE CleanRow \/ PermanentFailure
    BY <1>5, IdleRefines
       DEF CleanRow, PermanentFailure, FailDerivatives, Idle, Served, queueVars, IInv, TypeOK
  <1>6. CASE Persist
    <2>1. cur \in Files
      BY <1>6 DEF Persist, ReconcileOutcome, IInv, TypeOK
    <2>2. Served' = Served
      BY <1>6 DEF Persist, ReconcileOutcome, Complete, Fail, FailDerivatives, Served, IInv, TypeOK
    <2>3. CASE job[cur] # "RUNNING"
      BY <1>6, <2>2, <2>3, IdleRefines DEF Persist, ReconcileOutcome, Idle
    <2>4. CASE job[cur] = "RUNNING" /\ out = "ok"
      <3>1. Queue!Finish(cur)
        BY <1>6, <2>2, <2>4 DEF Persist, ReconcileOutcome, Complete, Queue!Finish, IInv, QueueInv
      <3>. QED
        BY <2>1, <3>1 DEF Refined, Queue!Next
    <2>5. CASE job[cur] = "RUNNING" /\ out # "ok" /\ (out = "permanent" \/ att >= MaxAttempts)
      <3>1. Queue!Release({}, {cur})
        BY <1>6, <2>1, <2>2, <2>5 DEF Persist, ReconcileOutcome, Fail, Queue!Release, IInv, TypeOK
      <3>. QED
        BY <2>1, <3>1 DEF Refined, Queue!Next
    <2>6. CASE job[cur] = "RUNNING" /\ out # "ok" /\ ~(out = "permanent" \/ att >= MaxAttempts)
      <3>1. attempts[cur] < MaxAttempts
        BY <1>6, <2>6, AttemptsPositive DEF Persist, ReconcileOutcome, IInv, TypeOK, QueueInv
      <3>2. Queue!Release({cur}, {})
        BY <1>6, <2>1, <2>2, <2>6, <3>1 DEF Persist, ReconcileOutcome, Fail, Queue!Release, IInv, TypeOK
      <3>. QED
        BY <2>1, <3>2 DEF Refined, Queue!Next
    <2>. QED
      BY <2>3, <2>4, <2>5, <2>6
  <1>. QED
    BY <1>1, <1>2, <1>3, <1>4, <1>5, <1>6 DEF Worker

LEMMA SweepRefines ==
  ASSUME IInv, Sweep \/ SweepError \/ Crash
  PROVE  Refined
  <1>1. CASE \/ \E f \in Files : DeleteObject(f) \/ CheckTemp(f)
             \/ DeleteDerivativeFile \/ DeleteTemp \/ SweepError \/ Crash
    BY <1>1, IdleRefines
       DEF DeleteObject, CheckTemp, DeleteDerivativeFile, DeleteTemp, SweepError, Crash,
           Idle, Served, dbVars
  <1>2. CASE DeleteDerivativeRow \/ DeleteObjectRow
    BY <1>2, IdleRefines
       DEF DeleteDerivativeRow, DeleteObjectRow, Idle, Served, queueVars, IInv, TypeOK, FilesInv
  <1>. QED
    BY <1>1, <1>2 DEF Sweep

-----------------------------------------------------------------------------
LEMMA InitEstablishes == Init => IInv
  BY AttemptsPositive, BoundsNatural, NoneIsNoFile
     DEF Init, IInv, TypeOK, ReadyIntact, FilesInv, QueueInv, Served

LEMMA StepKeeps == IInv /\ [Next]_vars => IInv'
  <1>. SUFFICES ASSUME IInv, [Next]_vars
                PROVE  IInv'
    OBVIOUS
  <1>1. CASE Worker
    BY <1>1, ClaimKeeps, PrepareKeeps, ValidateFinalKeeps, DecodeKeeps, CreateTempKeeps,
       EncodeKeeps, RenameKeeps, MarkReadyKeeps, CleanFileKeeps, CleanRowKeeps,
       PermanentFailureKeeps, HandlerErrorKeeps, PersistKeeps
       DEF Worker
  <1>2. CASE Sweep
    BY <1>2, DeleteObjectKeeps, CheckTempKeeps, DeleteDerivativeFileKeeps,
       DeleteDerivativeRowKeeps, DeleteObjectRowKeeps, DeleteTempKeeps
       DEF Sweep
  <1>3. CASE UNCHANGED vars
    BY <1>3 DEF IInv, TypeOK, ReadyIntact, FilesInv, QueueInv, Served, vars, dbVars,
       workerVars, sweepVars, bounds
  <1>. QED
    BY <1>1, <1>2, <1>3, AttachKeeps, DetachKeeps, BackoffEndsKeeps, ClaimAgesKeeps, CollectKeeps,
       RecoverStuckKeeps, EnqueueMissingThumbnailJobsKeeps, SweepErrorKeeps, CrashKeeps
       DEF Next

LEMMA StepRefines == IInv /\ [Next]_vars => Refined
  <1>. SUFFICES ASSUME IInv, [Next]_vars
                PROVE  Refined
    OBVIOUS
  <1>1. CASE UNCHANGED vars
    BY <1>1, IdleRefines DEF Idle, Served, vars, dbVars
  <1>. QED
    BY <1>1, QueueingRefines, RecoverStuckRefines, EnqueueMissingRefines, WorkerRefines, SweepRefines
       DEF Next

LEMMA Invariance == Spec => []IInv
  BY InitEstablishes, StepKeeps, PTL DEF Spec

\* Every variable keeps its type: no job is attempted more than MaxAttempts
\* times, only PENDING jobs wait for their time and only RUNNING jobs age.
THEOREM TypeCorrect == Spec => []TypeOK
  <1>1. IInv => TypeOK
    BY DEF IInv
  <1>. QED
    BY <1>1, Invariance, PTL

\* A derivative that downloads may serve is a complete file, for any number of
\* attempts, crashes and sweeps (markReady, deleteObject, cleanupTemps).
THEOREM ReadyStaysIntact == Spec => []ReadyIntact
  <1>1. IInv => ReadyIntact
    BY DEF IInv
  <1>. QED
    BY <1>1, Invariance, PTL

\* The worker with its retries, the recovery of stuck jobs and lost claims
\* implement the queue that JobQueue describes.
THEOREM QueueRefined == Spec => QueueKept
  <1>1. Init => Queue!Init
    BY DEF Init, Queue!Init, Served
  <1>2. IInv /\ [Next]_vars => [Queue!Next]_Queue!vars
    BY StepRefines DEF Refined
  <1>. QED
    BY <1>1, <1>2, Invariance, PTL DEF Spec, QueueKept, Queue!Spec
=============================================================================
