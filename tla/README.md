# RelayShelf in TLA+

RelayShelf is a self-hosted message and file shelf: one Go process, PostgreSQL, a
NAS mounted over NFS for finished files and a directory on the VM for uploads in
progress. No transaction spans the database and the two file systems. What makes
the program correct is the order in which it touches them, the checks it repeats
under locks, the versions and keys that requests carry, and the passes that clean
up after crashes. This directory models those parts, checks them with TLC and
proves their safety with TLAPS.

## Inventory

| Component | State | Operations | What is hard | What must hold |
|---|---|---|---|---|
| Upload sessions (`internal/uploads`, `internal/platform/staging`) | `upload_sessions`, `upload_parts`, staging files, lock registry | Create, PutPart, Complete, ExpireDueUploads, ReconcileStaging | repeated parts, Complete against PutPart, expiry against both, a Create seen half done, a crash between write and marker | a recorded part is on disk; Finalize reads the whole upload; live uploads keep their file; the staging limit; cleanup happens |
| Finalizer (`internal/uploads/finalize.go`) | `file_objects`, commit temps, final files, content locks, slots | hash, look up, reconcile, reserve, copy, rename, READY, complete | two uploads of one content, a PENDING row left by a crash, a rename reported as failed, an object collected between lookup and use | READY means complete file; nobody steals a reservation; quota |
| File GC and reconciliation (`internal/files/service.go`) | the same, and `file_derivatives` | GC, Reconcile, deleteObject, cleanupTemps | snapshot against references, Stat against rename, failures between file and row | referenced and leased objects stay; garbage and leftovers go |
| Attachments (`internal/messages/attachments.go`) | `message_attachments`, `consumed_at` | bind, add, remove, copy for a forward | forward against delete and GC | an attachment leads to its bytes |
| Messages, tags (`internal/messages`, `internal/tags`) | `messages`, `message_tags`, `idempotency_keys` | create, send, forward, edit, lifecycle, trash, tags, sensitive bodies, passes | lost answers repeated with a key, concurrent changes, passes against clients, a forward of a sensitive message | one effect per key; no lost update; coherent rows; sensitive bodies sealed |
| Background jobs (`internal/jobs`) | `background_jobs` | enqueue, claim, complete, fail, recover | slow handler against RecoverStuck, crash while running | a job is started a bounded number of times and settles |
| Thumbnails (`internal/files/thumbnail.go`) | `file_derivatives`, derivative files and temps | Handle, cleanup | source collected meanwhile, an attempt that outlives its claim, crash before READY | what is served is complete; nothing is left behind |
| Authentication (`internal/auth`, `internal/users`) | users, sessions, `user_totp`, `totp_challenges` | login, second factor, enrollment, touch, revoke, account changes | reads and writes of concurrent requests, replaced enrollments | a code opens one session; only proved secrets; revocation is final |
| Login limiter (`internal/auth/ratelimit.go`) | table in memory | Allow, Failure, AllowChallenge, Success | requests that passed together, a full table | a burst is limited |
| Realtime hub (`internal/realtime`, `web/src/app/realtime.ts`) | subscriptions and their queues; the tab's state | Subscribe, Publish, Close, GetEvents | full queue, lost connections, restart, ended session | a tab catches up; streams end |
| Storage monitor (`internal/storage/monitor.go`) | health, gate, failure count | probe, settle | a probe that hangs and answers late | the health follows the NAS |
| Process and scheduler (`cmd/relayshelf/main.go`, `internal/jobs/scheduler.go`) | goroutines, advisory lock, pool | start, signal, shutdown; one pass an hour | a task that hangs while the process is to stop | shutdown ends |
| Settings, search, audit, ZIP, HTTP layer, configuration | single tables, none | queries, streaming | little | |

How they meet. A Complete request holds the upload's exclusive lock and runs the
finalizer; both work on the session's row. A completed session is a 24 hour lease
on its object until a message consumes it. Binding an image enqueues a thumbnail
job; the GC refuses objects that an attachment, a lease or a live job refers to.
The scheduler runs message expiry, purging, upload expiry, GC, Reconcile, job
recovery and the challenge cleanup in one goroutine; Create runs an upload expiry
pass of its own. At startup `main` runs the recovery passes before it serves.
Requests publish hints on the hub after their commit.

## Modules

| Module | Models | Proofs |
|---|---|---|
| `FileObjects` | finalizer, GC, reconciliation, references | `FileObjectsProofs` |
| `UploadSessions` | Create, PutPart, Complete, expiry, staging reconciliation | `UploadSessionsProofs` |
| `JobQueue` | abstract: what the job table promises | |
| `Thumbnails` | job table, worker, thumbnail handler, sweep of derivatives; implements `JobQueue` | `ThumbnailsProofs` |
| `Messages` | messages, tags, idempotency keys, expiry and purge | `MessagesProofs` |
| `Authentication` | accounts, sessions, TOTP | `AuthenticationProofs` |
| `RealtimeHub`, `StorageMonitor` | parts of the process, composed by `Server` | |
| `Server` | process life with the hub, the monitor, the worker and the scheduler as tasks | `ServerProofs` |
| `RateLimiter` | login limiter and the requests that use it | `RateLimiterProofs` |
| `Sums` | SUM over the rows of a query, for the two quotas | `SumsProofs` |
| `MC...` | instances for TLC | |

An action is one access to shared state: one PostgreSQL transaction (or one
statement outside a transaction), one call on the storage adapter or on staging,
one method of an object that holds its mutex. Between two actions anything else
may happen. What a request or a pass keeps from one access to the next is state.
A mutex is not a variable where its holder follows from the program counters.
Definitions marked `Mutant` are faulty variants of the definition that follows
them; no specification uses them.

### FileObjects

`sess`, `sessObj`, `consumed`, `leaseOld` are columns of `upload_sessions` (CREATED
and UPLOADING are one status here, and the row's deletion by the GC is the status
DELETED); `row`, `rowContent`, `readyOld` of `file_objects`; `attach` is
`message_attachments`; `job` says whether an object has a live thumbnail job.
`temp` and `final` are the files of an object. `finPc[u]`, `finObj[u]` are the
finalizer of upload `u`; `swPc` and what follows is the scheduler goroutine; `fwd`
is a forward between its SELECT and its INSERT.

- `CompleteUpload` to `DeleteStaging` are the steps of `Finalize`. `FinError` is
  any failing access or a client that goes away: before the reservation it ends
  the request, after it the deferred cleanup runs (`DropTemp`, `DropRow`), and
  after a failed rename `FinalExists` decides. `Commit` may rename and still
  report an error.
- Hash and size are one value, the content.
- A read and the write based on it are one action only where the code holds the
  row lock over both (`CompleteWith`, `ReadyAndComplete`, `BindUpload`) or one SQL
  statement does both (`SweepRow`, `StillCollectable`).
- `GCSelect` and `GCMark` are the two halves of the GC transaction: the SELECT
  judges references by its snapshot, the UPDATE judges them again.
- `ForwardRead` locks the source message, not the objects.
- The 24 hours of `ready_at` and `completed_at` are the sets `readyOld` and
  `leaseOld`; a lease is never older than the READY state of its object.
- `SweepError` is any failing access of a pass: a Stat that fails skips its row, a
  failed scan goes on with the temps, a failed cleanup ends the pass.
- `Crash` loses every program counter and starts the startup Reconcile.

Left out: batch sizes and paging, free space on the NAS (a refusal is a
`FinError`), MIME detection. Derivatives are in `Thumbnails`.

### UploadSessions

`status`, `due` (expiry passed) and `marker` are the tables, `staged` and `data`
the staging directory: each part is a hole, torn, complete in the page cache, or
synced. `pc[a]`, `todo[a]`, `hold[a]`, `left[a]` belong to the expiry pass owned
by `a`, the scheduler or the Create request of an upload. `put[r]` is a PutPart
request, `cpPc[u]` the Complete request of `u`. Only uploads in `known` (Create has
answered) can be addressed by a client.

- `PutsOn`, `ExclusiveHeld`, `LifeRead`, `LifeWrite`, `ReservationFree` give the
  holders of the part and lifecycle locks, of `stagingLife` and of the advisory
  lock.
- `InsertError` includes a commit that succeeds and is reported as failed.
- `PassError` is any failing access of an expiry pass, its two listings and
  `OwnedFiles` included.
- `Crash` may lose bytes that were not synced. Directory entries are taken to
  survive, as on a journaled file system.
- Finalize is reduced to its outcomes: completed, failed, or an error that leaves
  the session COMPLETING.
- Clients repeat any part and any Complete in any order: this is how lost answers
  and the browser's retries appear.

Left out: owner checks, the content of a body, the free space probe (a refusal).

### JobQueue and Thumbnails

`JobQueue` knows a job's status and attempts and whether its subject is served. It
says that a job starts at most `MaxAttempts` times, is completed only when served,
and stays as it is once COMPLETED or FAILED.

`Thumbnails` has the table (`job`, `attempts`, `due` for `next_run_at`, `old` for
the 15 minutes of RecoverStuck), the source rows and their attachments, the
derivative rows, the temp and the final file, the worker (`pc`, `cur`, `att`,
`out`) and the sweep (`swPc`, `swCur`). Each access of `Handle` is an action, with
`HandlerError` for its failures. `Persist` with `ReconcileOutcome` is the late
outcome of an attempt whose claim is lost. `Served` maps a job to its
subject: the thumbnail is READY, or its source is no longer READY. `Prepare`,
`ValidateFinal` and `Decode` may each find a permanent failure. The slow handler appears because `ClaimAges` may
happen at any time in an attempt; after a crash the RUNNING row stays and
`RecoverStuck` gives it back.

### Messages

`msg` holds a row with its tags and attachments; `claims` and `req` are the
idempotency keys and the create, send and forward requests that hold one; `tagTx`
is a tag's deletion between its lock and its DELETE; `seen` is the snapshot of a
slow client, loaded in two queries; `born` and `lost` are history. A change of one
message is one transaction under its row lock, so one action (`Mutate`); every
change may come from a client that has just read the row or from the slow one,
and carries the version it has seen.

- `Edit` ... `RemoveAttachment` return the outcomes of the function given to
  `mutate`: none on an error, or the row and whether it changed.
- `ClaimIdempotency` reads the clock before it waits for the lock, as the service
  does; an expired claim is deleted by the commit.
- `Encrypt` binds a body to its message and owner (the AAD), `Decrypt` refuses a
  foreign one: forwarding seals the body again.
- `ExpireTemporary` and `PurgeTrash` take a batch and go on while it is full.

Left out: lengths, cursors, order and limit of attachments, renaming a tag (it
changes no message).

### Authentication

A request reads rows, computes and writes later: `req[r]` holds what it has read.
A code is known by the step of time it was made for; `via` of a session names the
challenge, the secret and the step it was opened with; `proved` is the history of
secrets for which a code was presented. Passwords and devices are left out, so a
password check may end either way; any request may be refused by the limiter and
is then not made. A wrong code is counted by two statements whose errors are
ignored: `CodeRefused` raises the failures of the enrollment or does not,
`CountAttempt` the attempts of the challenge.

### RateLimiter

One address, several names and several requests that passed `Allow` and are busy
with Argon2 or the database. `burst` is history: challenges granted at one moment.

### Server, RealtimeHub, StorageMonitor

`stage` is where `main` is; a signal, `ListenAndServe` returning, the bounded wait
for the background tasks, `Close` of the hub, and the deferred close of the pool,
which waits for the connection a scheduler pass holds. A crash may come at any
time. A process is started again when the storage answers; between `Restart` and
`Started` it runs the startup passes (modelled in `FileObjects` and
`UploadSessions`), and it exits if Reconcile or VerifyReady fails (`StartFails`).

A queue of the hub is its length, since every hint makes the tab read everything
again; what the tab shows is the number of changes it has read. `missed` is
history: a hint was published while the tab had no subscription, before its first
connection or between the flush of the header and `Subscribe`
(`internal/realtime/handler.go:46`).

The browser reconnects an EventSource only while nothing answers. Any answer other
than a 200, such as a proxy's 502 during a restart or the 401 that the middleware
gives for every error of Authenticate, closes it, and `realtime.ts` does not make a
new one (`ConnectFails`; `source` is then `closed`). A read that fails is retried
once and then left until the next hint, connection or showing of the tab
(`FetchFails`, `failed`); it may fail while the server serves. `SignedOut` is the
way to the login page, which stops the stream.

The monitor's probe is a goroutine of its own that holds the gate until it leaves;
the NAS is well, failing or hung. A tick that is buffered can meet the gate of a
probe that has answered and not left yet, which counts as a failure; the threshold
of two keeps this from being reported.

## Runs

| Run | Instance | Result |
|---|---|---|
| `fo_core` | 3 uploads, two of one content and one of another, any two of them per behaviour (`TwoAtATime`), 2 object ids, 2 messages, room for one object, 1 crash, 1 error of the sweep; 2.3 million states | `AttachmentsIntact`, `LeaseHolds`, `ReadyHasFile`, `ReservationsNotStolen`, `StagingOutlivesUpload`, `QuotaRespected`, `StatusOnlyAdvances` hold |
| `fo_live` | 1 upload, 2 object ids, 1 crash, 1 error | `PendingResolved`, `GarbageCollected`, `TempsCleaned` hold |
| `fo_orphan` | 2 uploads of one content | `NoOrphanFinal` is violated |
| `up_core` | 2 uploads of 2 and 1 parts, 2 PutPart requests, room for one of them, batch 1, passes of both Creates and of the scheduler, 1 crash, 1 error | `KnownHasStaging`, `StagingReserved`, `MarkersDurable`, `CompletingIntact`, `SessionAdvances` hold |
| `up_live` | 2 uploads, one of them empty, 1 crash or 1 error of a pass or of a Create, no part written after it (`OneMishap`) | `OrphansDeleted`, `DueExpires`, `PartsCleared` hold |
| `up_retention` | 1 upload | `RetentionEnforced` is violated |
| `thumbs` | 1 image, 3 attempts, 2 crashes, 2 errors of the sweep | `ReadyIntact`, `QueueKept` (the refinement), `JobsSettle`, `TempsRemoved` hold |
| `thumbs_orphan` | 1 image, 2 attempts, 1 error | `NoOrphanDerivative` is violated |
| `messages` | 2 users, 2 messages, 2 requests with 1 key, 1 tag, 1 upload, batch 1; 1.4 million states | `LifecycleCoherent`, `SensitiveSealed`, `ContentKept`, `NoLostUpdate`, `OneMessagePerKey`, `OnlyTrashPurged` hold |
| `msg_tags` | the same | `VersionNamesTags` is violated |
| `auth` | 1 account, 2 requests, 3 sessions of which at most two by password alone (`TwoPasswordSessions`), 2 challenges, 2 secrets, idle lifetime 2 and absolute lifetime 3, so that activity extends a session; 2.5 million states | `SecondFactorOnce`, `ConfirmedSecretOnly`, `FailuresLock`, `AttemptsBounded`, `RevokedFinal` hold |
| `server` | 2 connections, buffer 1, 2 changes, 1 lost connection, 2 changes of the NAS, threshold 2, 2 restarts; 3 login requests, 2 names, table of 3 | `CaughtUp`, `DegradedForCause`, `ChallengesLimited`, `CatchesUp`, `StreamsEnd`, `HealthFollowsNas`, `ShutdownEnds` hold |

Bounds. Two uploads of one content are what the content lock, deduplication and a
PENDING row left by another request need; the third competes for the quota; a
second object id is needed when the first was collected and the content comes
back. Two messages make a forward. One crash can fall between any two steps, and
errors of requests are not bounded; a sweep's are, because a sweep that always
fails makes no progress. Batch 1 makes the limits of a pass bite. Three attempts
let a recovery, a retry and a last attempt follow each other. A key lives for two units of
time, so that it can expire and be used again. In `auth` the third session must be
opened with a code: two codes and a password session are what a double use needs.
A behaviour of `auth` either extends sessions or enrolls second factors (`focus`,
`InFocus`), which have only the validity of sessions in common.
In `server` the three parts share only the variables of the process, so a
behaviour follows one of them (`focus`). Runs whose bounds stop the system say
`CHECK_DEADLOCK FALSE`.

Fairness. Where it is stated it is weak fairness of goroutines and timers that the
Go runtime schedules: the scheduler's ticks and a pass that has begun
(`FileObjects`, `Thumbnails`), the worker's poll, the clock. `UploadSessions`
assumes besides that requests in progress end, since a failing access or the proxy
ends them, and that a pass waiting for an exclusive lock gets it although requests
keep coming (strong fairness of `PassItem`), which Go's mutexes guarantee. `Server`
assumes that a request to a server that keeps serving is answered, a stream's and a
read's alike, in one way or the other (`StreamAnswered`, `ReadAnswered`: weak
fairness of the disjunction of success and failure), that the browser keeps trying
while nothing answers, and that a process which exited is started again and gets
through its startup passes or fails; that an answer is a good one is not assumed. A
pass ends only while the file system does not hang. No fairness makes a
client start or repeat a request.

## What the runs found

- `fo_orphan`: Reconcile finds no final file for a PENDING row and deletes the row;
  a slow finalizer of that row renames its file in between. The upload is repeated
  under another id and nothing is lost, but nobody ever removes the file, and the
  quota does not count it (`internal/files/service.go:278`, against
  `docs/DATA_MODEL.md:623`).
- `up_retention`: a session that is COMPLETING is never expired
  (`internal/uploads/repository.go:280`), where `docs/PRD.md:393` gives incomplete
  uploads 24 hours.
- `thumbs_orphan`: the comment at `internal/files/thumbnail.go:216` says that the
  RUNNING job keeps a way to clean up. It does not when the attempt was the last
  one and RecoverStuck has failed the job already: a derivative file can stay
  without a row and without a job.
- `msg_tags`: a message that receives a tag while the tag is deleted loses it
  without a new version (`internal/tags/repository.go:73`), which
  `internal/messages/repository_integration_test.go:531` asks for.

Not checked by a run of their own: Finalize takes over a PENDING row of its content
(`internal/uploads/finalize.go:130`) where `docs/ARCHITECTURE.md:598` asks for a
retryable error; `ReservationsNotStolen` shows that the content lock makes it safe.
A scheduler pass that hangs in the file system keeps its pool connection
(`internal/jobs/scheduler.go:76`), and the deferred `db.Close()`
(`cmd/relayshelf/main.go:170`) waits for it after the 30 seconds that
`docs/ARCHITECTURE.md:1127` gives: `ShutdownEnds` excepts this case. `CatchesUp`
excepts a tab whose EventSource was closed by an answer other than 200 and one whose
read failed twice: both stay behind until the tab is shown again, or a hint arrives
in the second case (`web/src/app/realtime.ts:50`, `web/src/app/queryClient.ts:7`).

## Proofs

Each module of proofs has an inductive invariant `IInv`, one lemma per action
(`<Action>Keeps`) with a step per part of `IInv` the action can disturb, and
theorems that follow from `Spec => []IInv`. They hold for any values of the
constants that satisfy the named assumptions of the modules, which only give the
constants their types and keep `None` out of them; TLC evaluates these in every run.

`FileObjectsProofs`: `TypeOK`, `AttachmentsIntact`, `LeaseHolds`, `ReadyHasFile`,
`ReservationsNotStolen`, `StagingOutlivesUpload`, `StatusOnlyAdvances`,
`QuotaRespected`. None of them is inductive: `ReadyHasFile` says nothing of a
finalizer that has seen a complete file and will set READY in a later step. `IInv`
adds what stays true between a decision and its effect:

- `Verified`: while somebody is about to set READY on a row that is still PENDING,
  the file is complete; `Doomed`: the sweep deletes only files of rows that were
  DELETING when it read them, and DELETING is never left for an earlier status.
- `KnownIds`: an id that anybody holds has been handed out, so a new reservation
  never meets an old decision; `Holding`, `SameContentHeld`: who acts on an object
  holds one of the right content.
- `RefsReady`, `LeaseReady`: attachments and leases refer to READY rows; the GC
  keeps this because its UPDATE repeats the test, `completeWith` because it looks
  again under the lock. `ForwardValid`: what a forward has read still exists.
- `OldSessions`, `ContentLock`, `StagingDone`: the GC deletes only sessions that
  are leases no more; one finalizer of a content is past the lookup; staging files
  go after the session is over.

The quota has an invariant on top of `IInv`: `Accounted`, finitely many live rows,
each with a size, within the limit. Every step is one of two kinds (`NewRow`, the
transaction of `Reserve`, or `RowsKept`: no live row is added and none changes its
content), and two facts about sums finish the argument.

`SumsProofs` has those facts: a sum over a finite set does not depend on the order
in which it is taken, an element adds its weight, a subset weighs no more. The
definition behind `SumOver` recurses over the set, and induction schemes take an
operator the provers cannot instantiate; the proofs take a smallest counterexample
instead, which exists because strict inclusion of finite subsets is well founded.

`UploadSessionsProofs`: `TypeOK` (with the limit of ReconcileStaging),
`MarkersDurable`, `CompletingIntact`, `KnownHasStaging`, `SessionAdvances`,
`StagingReserved`. The locks are not variables, so `IInv` says what their holders may rely on: `PutsValid`
and `PartMutex` (a PutPart is alone with its part and no Complete is in progress),
`Written` (no marker between its removal and the sync), `CompleteStage` (what was
validated stays), `Creating`, `LifeExclusive` and `Lists` (what a pass has listed
for deletion is over, and no half-made upload is listed). Create compares the sum
of the active sessions with the limit, makes the staging file and inserts the row
in later steps; `Reservation` says that at most one Create is between the two and
that its verdict still holds, since all other steps only end sessions.

`ThumbnailsProofs`: `TypeOK`, `ReadyIntact`, and `QueueKept`, the refinement of
`JobQueue`: initial states map to initial states, and every action is a step of the
queue or leaves it alone. `FilesInv` says what the handler and the sweep rely on at
each step. `QueueInv` is what the mapping needs: a handler that succeeded has
served its job, the attempts it was told are those of the row while the claim is
its own, and a PENDING job has an attempt left.

`MessagesProofs`: `TypeOK`, `LifecycleCoherent`, `SensitiveSealed`, `ContentKept`,
`NoLostUpdate`, `OneMessagePerKey`, `OnlyTrashPurged`. `RowsGood` joins the
properties of one row, since an edit keeps each of them only with the others.
`SeenAges` makes `NoLostUpdate` inductive: a snapshot of the current version equals
the row, up to tags and what is not loaded yet. `KeysClaimed`: one claim per key,
which outlives every message made with it, and a request in progress has its key
for itself.

`AuthenticationProofs`: `TypeOK`, `SecondFactorOnce`, `ConfirmedSecretOnly`,
`FailuresLock`, `AttemptsBounded`, `RevokedFinal`. `FactorsSpent`: the challenge of
a session is consumed, and its enrollment, while it is the same one, has claimed
the step; `SecretsFresh`: no secret is made twice; `TasksGood`: what a request
carries between its read and its write; `AttemptsCounted` counts the requests that
are about to raise a counter.

`ServerProofs`: `ServerTypeOK`, `CaughtUp`, and `DegradedForCause` for every
threshold of at least two. `TabReason`: a tab that is behind has a reason to read
again, a hint to come, on its way or missed, a lost connection or a read that is
still owed, or it was signed out; `StreamsKnown`: a live stream the hub does not know is cut off.
`Blameless`: without a failure to blame at most one probe found the gate held, and
the ticker does not fire before that gate is released.

`RateLimiterProofs`: `LimiterTypeOK` and `ChallengesLimited`, for `LimiterSpec`, the
limiter by itself; in the run it is composed with the server, with which it shares
no variable. `Counted`: the challenges granted at a moment are counted
in the entry of the address, which no cleanup of that moment removes and which
blocks from the limit on, until a success clears it or a full table is trimmed. A
block lasts at least a second because a power of two is the number of subsets of a
finite set and so at least one.

That the live rows, the active sessions and the limiter's entries are finite is
proved as part of these invariants and not assumed: the sets of ids may be infinite.

Model-checked only: the liveness properties, since the prover has no rule for
fairness and none for ENABLED.

## Not modelled

Search and its query language, saved searches, settings, the audit log, ZIP
streaming, range reads and the status page: single statements or pure I/O on
state that the models already have; no step of theirs changes what another
component decides later. Routing, generated API code and configuration carry no
state. Of the browser only the realtime client is modelled; the upload manager's
queue lives in the browser, and its retries are the repeated requests of
`UploadSessions`. Devices and profile changes of accounts touch no modelled state.
Presentation and deployment scripts are left out.
