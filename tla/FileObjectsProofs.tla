------------------------- MODULE FileObjectsProofs -------------------------
(* Invariance proofs for FileObjects, for any number of uploads, contents,   *)
(* object ids and messages.                                                  *)
EXTENDS FileObjects, SumsProofs, TLAPS

(* The inductive invariant.  The properties alone are not inductive: each    *)
(* decision of a finalizer or of the sweep is made in one step and acted on  *)
(* in a later one, and the parts below say what is still true in between.    *)

\* Ids known to anybody have been handed out.
KnownIds ==
    /\ \A u \in Uploads : finObj[u] # None => row[finObj[u]] # "ABSENT"
    /\ \A u \in Uploads : sessObj[u] # None => row[sessObj[u]] # "ABSENT"
    /\ swObj # None => row[swObj] # "ABSENT"
    /\ \A o \in swPend : row[o] # "ABSENT"
    /\ \A o \in Objs : row[o] = "ABSENT" => final[o] = "none"

\* A finalizer past the lookup, and Reconcile inside an item, hold an object.
Holding ==
    /\ \A u \in Uploads :
         finPc[u] \notin BeforeLock \cup {"reserve"} => finObj[u] # None
    /\ swPc \in {"rTemp", "rRow", "rReady", "dRow"} => swObj # None

\* A verdict that a PENDING row's file is complete stays true until acted on.
Verified ==
    /\ \A u \in Uploads : /\ finPc[u] \in {"recReady", "ready"}
                          /\ row[finObj[u]] = "PENDING"
                          => final[finObj[u]] = "full"
    /\ swPc = "rReady" /\ row[swObj] = "PENDING" => final[swObj] = "full"

\* Rows that Reconcile read as DELETING are never in use again.
Doomed == \A o \in swDel : row[o] \in {"DELETING", "GONE"}

\* Finalizers and sessions hold objects of their own content.
SameContentHeld ==
    /\ \A u \in Uploads : finObj[u] # None => rowContent[finObj[u]] = ContentOf[u]
    /\ \A u \in Uploads : sessObj[u] # None => rowContent[sessObj[u]] = ContentOf[u]

\* What a forward has read is still there: it holds the source message.
ForwardValid ==
    /\ fwd.items \subseteq attach
    /\ \A a \in fwd.items : a[1] = fwd.src
    /\ fwd.items # {} => fwd.dst \in Messages

\* The GC transaction only holds sessions past their lease.
OldSessions == gcSess \subseteq leaseOld

RefsReady ==
    \A a \in attach : row[a[3]] = "READY" /\ rowContent[a[3]] = ContentOf[a[2]]

LeaseReady ==
    \A u \in Uploads :
        sess[u] = "COMPLETED" /\ u \notin consumed \cup leaseOld
            => sessObj[u] # None /\ row[sessObj[u]] = "READY"

\* Two finalizers of the same content are never past the lookup together.
ContentLock ==
    \A u, v \in Uploads :
        u # v /\ ContentOf[u] = ContentOf[v] /\ finPc[u] \in UnderLock
            => finPc[v] \notin UnderLock

\* The staging file of a session is only removed once the session is done.
StagingDone ==
    /\ StagingOutlivesUpload
    /\ \A u \in Uploads :
         finPc[u] = "unstage" => sess[u] \in {"COMPLETED", "DELETED"}

IInv == /\ TypeOK /\ ReadyHasFile /\ KnownIds /\ Holding /\ Verified /\ Doomed
        /\ SameContentHeld /\ ForwardValid /\ OldSessions
        /\ RefsReady /\ LeaseReady /\ ContentLock /\ StagingDone

----------------------------------------------------------------------------
(* One lemma per action: the steps are the parts of IInv that it can disturb *)
(* and, last, those whose variables it leaves alone.                         *)

\* The empty database and the empty directories satisfy the invariant.
LEMMA InitIInv == Init => IInv
  <1>. SUFFICES ASSUME Init PROVE IInv
    OBVIOUS
  <1>. USE DEF Init
  <1>1. TypeOK
    BY DEF TypeOK, NoForward, SessionStatus, RowStatus, FileState, FinPc,
           BeforeLock, SwPc
  <1>2. ReadyHasFile /\ KnownIds /\ Holding /\ Verified /\ Doomed
    BY DEF ReadyHasFile, KnownIds, Holding, Verified, Doomed, BeforeLock
  <1>3. SameContentHeld /\ ForwardValid /\ OldSessions /\ RefsReady /\ LeaseReady
    BY DEF SameContentHeld, ForwardValid, OldSessions, RefsReady, LeaseReady,
           NoForward
  <1>4. ContentLock /\ StagingDone
    BY DEF ContentLock, StagingDone, StagingOutlivesUpload, UnderLock, Reserved
  <1>. QED
    BY <1>1, <1>2, <1>3, <1>4 DEF IInv

\* A Complete request starts a finalizer that holds nothing yet.
LEMMA CompleteUploadKeeps ==
  ASSUME IInv, NEW u \in Uploads, CompleteUpload(u)
  PROVE  IInv'
  <1>. USE DEF IInv, TypeOK, CompleteUpload, FinGoto, FinTake, rowVars,
               fileVars, refVars, swVars, procVars
  <1>1. TypeOK'
    BY DEF SessionStatus, FinPc, BeforeLock
  <1>2. KnownIds'
    BY DEF KnownIds
  <1>3. Holding'
    BY DEF Holding, BeforeLock
  <1>4. Verified'
    BY DEF Verified
  <1>5. SameContentHeld'
    BY DEF SameContentHeld
  <1>6. LeaseReady'
    BY DEF LeaseReady
  <1>7. ContentLock'
    BY DEF ContentLock, UnderLock, Reserved
  <1>8. StagingDone'
    BY DEF StagingDone, StagingOutlivesUpload
  <1>9. /\ ReadyHasFile' /\ Doomed' /\ ForwardValid'
        /\ OldSessions' /\ RefsReady'
    BY DEF ReadyHasFile, Doomed, ForwardValid, OldSessions, RefsReady
  <1>. QED
    BY <1>1, <1>2, <1>3, <1>4, <1>5, <1>6, <1>7, <1>8, <1>9

\* Waiting for a finalize slot touches neither rows nor files.
LEMMA AcquireSlotKeeps ==
  ASSUME IInv, NEW u \in Uploads, AcquireSlot(u)
  PROVE  IInv'
  <1>. USE DEF IInv, TypeOK, AcquireSlot, FinGoto, FinTake, sessVars,
               rowVars, fileVars, refVars, swVars, procVars
  <1>1. TypeOK'
    BY DEF FinPc, BeforeLock
  <1>2. KnownIds'
    BY DEF KnownIds
  <1>3. Holding'
    BY DEF Holding, BeforeLock
  <1>4. Verified'
    BY DEF Verified
  <1>5. SameContentHeld'
    BY DEF SameContentHeld
  <1>6. ContentLock'
    BY DEF ContentLock, UnderLock, Reserved
  <1>7. StagingDone'
    BY DEF StagingDone, StagingOutlivesUpload
  <1>8. /\ ReadyHasFile' /\ Doomed' /\ ForwardValid' /\ OldSessions'
        /\ RefsReady' /\ LeaseReady'
    BY DEF ReadyHasFile, Doomed, ForwardValid, OldSessions, RefsReady, LeaseReady
  <1>. QED
    BY <1>1, <1>2, <1>3, <1>4, <1>5, <1>6, <1>7, <1>8

\* Hashing the staging file leads to the lookup, still without a lock.
LEMMA HashStagingKeeps ==
  ASSUME IInv, NEW u \in Uploads, HashStaging(u)
  PROVE  IInv'
  <1>. USE DEF IInv, TypeOK, HashStaging, FinGoto, FinTake, sessVars,
               rowVars, fileVars, refVars, swVars, procVars
  <1>1. TypeOK'
    BY DEF FinPc, BeforeLock
  <1>2. KnownIds'
    BY DEF KnownIds
  <1>3. Holding'
    BY DEF Holding, BeforeLock
  <1>4. Verified'
    BY DEF Verified
  <1>5. SameContentHeld'
    BY DEF SameContentHeld
  <1>6. ContentLock'
    BY DEF ContentLock, UnderLock, Reserved
  <1>7. StagingDone'
    BY DEF StagingDone, StagingOutlivesUpload
  <1>8. /\ ReadyHasFile' /\ Doomed' /\ ForwardValid' /\ OldSessions'
        /\ RefsReady' /\ LeaseReady'
    BY DEF ReadyHasFile, Doomed, ForwardValid, OldSessions, RefsReady, LeaseReady
  <1>. QED
    BY <1>1, <1>2, <1>3, <1>4, <1>5, <1>6, <1>7, <1>8

\* A session that fails loses no staging file that it still needs: FAILED is
\* final.
LEMMA MarkFailedKeeps ==
  ASSUME IInv, NEW u \in Uploads, MarkFailed(u)
  PROVE  IInv'
  <1>. USE DEF IInv, TypeOK, MarkFailed, FinGoto, FinTake, rowVars, fileVars,
               refVars, swVars, procVars
  <1>1. TypeOK'
    BY DEF SessionStatus, FinPc, BeforeLock
  <1>2. KnownIds'
    BY DEF KnownIds
  <1>3. Holding'
    BY DEF Holding, BeforeLock
  <1>4. Verified'
    BY DEF Verified
  <1>5. SameContentHeld'
    BY DEF SameContentHeld
  <1>6. LeaseReady'
    BY DEF LeaseReady
  <1>7. ContentLock'
    BY DEF ContentLock, UnderLock, Reserved
  <1>8. StagingDone'
    BY DEF StagingDone, StagingOutlivesUpload
  <1>9. /\ ReadyHasFile' /\ Doomed' /\ ForwardValid'
        /\ OldSessions' /\ RefsReady'
    BY DEF ReadyHasFile, Doomed, ForwardValid, OldSessions, RefsReady
  <1>. QED
    BY <1>1, <1>2, <1>3, <1>4, <1>5, <1>6, <1>7, <1>8, <1>9

\* The lookup takes the content lock, so no finalizer of the same content is
\* past it, and the row that it returns has that content.
LEMMA FindKeeps ==
  ASSUME IInv, NEW u \in Uploads, Find(u)
  PROVE  IInv'
  <1>. USE DEF IInv, TypeOK, Find, FinGoto, FinTake, RowsFor, OnFound,
               LiveRow, sessVars, rowVars, fileVars, refVars, swVars,
               procVars
  <1>1. TypeOK'
    BY DEF FinPc, BeforeLock, UnderLock
  <1>2. KnownIds'
    BY DEF KnownIds
  <1>3. Holding'
    BY NoneAssumption DEF Holding, BeforeLock
  <1>4. Verified'
    BY DEF Verified
  <1>5. SameContentHeld'
    BY DEF SameContentHeld
  <1>6. ContentLock'
    BY DEF ContentLock, ContentLockFree
  <1>7. StagingDone'
    BY DEF StagingDone, StagingOutlivesUpload
  <1>8. /\ ReadyHasFile' /\ Doomed' /\ ForwardValid' /\ OldSessions'
        /\ RefsReady' /\ LeaseReady'
    BY DEF ReadyHasFile, Doomed, ForwardValid, OldSessions, RefsReady, LeaseReady
  <1>. QED
    BY <1>1, <1>2, <1>3, <1>4, <1>5, <1>6, <1>7, <1>8

\* Stat's verdict "full" is true of the object that recReady acts on.
LEMMA RecStatKeeps ==
  ASSUME IInv, NEW u \in Uploads, RecStat(u)
  PROVE  IInv'
  <1>. USE DEF IInv, TypeOK, RecStat, FinGoto, FinTake, sessVars, rowVars,
               fileVars, refVars, swVars, procVars
  <1>1. TypeOK'
    BY DEF FinPc, BeforeLock, UnderLock
  <1>2. KnownIds'
    BY DEF KnownIds
  <1>3. Holding'
    BY DEF Holding, BeforeLock
  <1>4. Verified'
    BY DEF Verified
  <1>5. SameContentHeld'
    BY DEF SameContentHeld
  <1>6. ContentLock'
    BY DEF ContentLock, UnderLock
  <1>7. StagingDone'
    BY DEF StagingDone, StagingOutlivesUpload
  <1>8. /\ ReadyHasFile' /\ Doomed' /\ ForwardValid' /\ OldSessions'
        /\ RefsReady' /\ LeaseReady'
    BY DEF ReadyHasFile, Doomed, ForwardValid, OldSessions, RefsReady, LeaseReady
  <1>. QED
    BY <1>1, <1>2, <1>3, <1>4, <1>5, <1>6, <1>7, <1>8

\* Removing a commit temp leaves every final file alone.
LEMMA RecTempKeeps ==
  ASSUME IInv, NEW u \in Uploads, RecTemp(u)
  PROVE  IInv'
  <1>. USE DEF IInv, TypeOK, RecTemp, FinGoto, FinTake, sessVars, rowVars,
               refVars, swVars, procVars
  <1>1. TypeOK'
    BY DEF FileState, FinPc, UnderLock
  <1>2. KnownIds'
    BY DEF KnownIds
  <1>3. Holding'
    BY DEF Holding, BeforeLock
  <1>4. Verified'
    BY DEF Verified
  <1>5. SameContentHeld'
    BY DEF SameContentHeld
  <1>6. ContentLock'
    BY DEF ContentLock, UnderLock
  <1>7. StagingDone'
    BY DEF StagingDone, StagingOutlivesUpload
  <1>8. /\ ReadyHasFile' /\ Doomed' /\ ForwardValid' /\ OldSessions'
        /\ RefsReady' /\ LeaseReady'
    BY DEF ReadyHasFile, Doomed, ForwardValid, OldSessions, RefsReady, LeaseReady
  <1>. QED
    BY <1>1, <1>2, <1>3, <1>4, <1>5, <1>6, <1>7, <1>8

\* The reservation is deleted only while it is PENDING and unreferenced, so no
\* attachment and no session loses its object.
LEMMA RecRowKeeps ==
  ASSUME IInv, NEW u \in Uploads, RecRow(u)
  PROVE  IInv'
  <1>. USE DEF IInv, TypeOK, RecRow, FinGoto, FinTake, sessVars, fileVars,
               refVars, swVars, procVars
  <1>1. TypeOK'
    BY DEF RowStatus, FinPc, BeforeLock, UnderLock
  <1>2. ReadyHasFile'
    BY DEF ReadyHasFile
  <1>3. KnownIds'
    BY DEF KnownIds
  <1>4. Holding'
    BY DEF Holding, BeforeLock
  <1>5. Verified'
    BY DEF Verified, Holding, BeforeLock
  <1>6. Doomed'
    BY DEF Doomed
  <1>7. SameContentHeld'
    BY DEF SameContentHeld
  <1>8. RefsReady'
    BY DEF RefsReady
  <1>9. LeaseReady'
    BY DEF LeaseReady
  <1>10. ContentLock'
    BY DEF ContentLock, UnderLock
  <1>11. StagingDone'
    BY DEF StagingDone, StagingOutlivesUpload
  <1>12. ForwardValid' /\ OldSessions'
    BY DEF ForwardValid, OldSessions
  <1>. QED
    BY <1>1, <1>2, <1>3, <1>4, <1>5, <1>6, <1>7, <1>8, <1>9, <1>10, <1>11, <1>12

\* A reservation becomes READY only if its file was found complete.
LEMMA RecReadyKeeps ==
  ASSUME IInv, NEW u \in Uploads, RecReady(u)
  PROVE  IInv'
  <1>. USE DEF IInv, TypeOK, RecReady, FinGoto, FinTake, sessVars, fileVars,
               refVars, swVars, procVars
  <1>1. TypeOK'
    BY DEF RowStatus, LiveRow, FinPc, BeforeLock, UnderLock
  <1>2. ReadyHasFile'
    BY DEF ReadyHasFile, Verified
  <1>3. KnownIds'
    BY DEF KnownIds
  <1>4. Holding'
    BY DEF Holding, BeforeLock
  <1>5. Verified'
    BY DEF Verified, Holding, BeforeLock
  <1>6. Doomed'
    BY DEF Doomed
  <1>7. SameContentHeld'
    BY DEF SameContentHeld
  <1>8. RefsReady'
    BY DEF RefsReady
  <1>9. LeaseReady'
    BY DEF LeaseReady
  <1>10. ContentLock'
    BY DEF ContentLock, UnderLock
  <1>11. StagingDone'
    BY DEF StagingDone, StagingOutlivesUpload
  <1>12. ForwardValid' /\ OldSessions'
    BY DEF ForwardValid, OldSessions
  <1>. QED
    BY <1>1, <1>2, <1>3, <1>4, <1>5, <1>6, <1>7, <1>8, <1>9, <1>10, <1>11, <1>12

\* A new reservation has an id nobody knows; a row found instead is handled as
\* by the lookup.
LEMMA ReserveKeeps ==
  ASSUME IInv, NEW u \in Uploads, Reserve(u)
  PROVE  IInv'
  <1>. USE DEF IInv, TypeOK, Reserve, FinGoto, FinTake, RowsFor, OnFound,
               LiveRow, sessVars, fileVars, refVars, swVars, procVars
  <1>1. TypeOK'
    BY ContentsAssumption DEF RowStatus, FinPc, BeforeLock, UnderLock,
       Reserved
  <1>2. ReadyHasFile'
    BY DEF ReadyHasFile
  <1>3. KnownIds'
    BY DEF KnownIds
  <1>4. Holding'
    BY NoneAssumption DEF Holding, BeforeLock
  <1>5. Verified'
    BY DEF Verified, KnownIds, Holding, BeforeLock
  <1>6. Doomed'
    BY DEF Doomed
  <1>7. SameContentHeld'
    BY DEF SameContentHeld, KnownIds
  <1>8. RefsReady'
    BY DEF RefsReady
  <1>9. LeaseReady'
    BY DEF LeaseReady
  <1>10. ContentLock'
    BY DEF ContentLock, UnderLock
  <1>11. StagingDone'
    BY DEF StagingDone, StagingOutlivesUpload
  <1>12. ForwardValid' /\ OldSessions'
    BY DEF ForwardValid, OldSessions
  <1>. QED
    BY <1>1, <1>2, <1>3, <1>4, <1>5, <1>6, <1>7, <1>8, <1>9, <1>10, <1>11, <1>12

\* The commit temp is not a final file.
LEMMA CreateCommitTempKeeps ==
  ASSUME IInv, NEW u \in Uploads, CreateCommitTemp(u)
  PROVE  IInv'
  <1>. USE DEF IInv, TypeOK, CreateCommitTemp, FinGoto, FinTake, sessVars,
               rowVars, refVars, swVars, procVars
  <1>1. TypeOK'
    BY DEF FileState, FinPc, UnderLock, Reserved
  <1>2. KnownIds'
    BY DEF KnownIds
  <1>3. Holding'
    BY DEF Holding, BeforeLock
  <1>4. Verified'
    BY DEF Verified
  <1>5. SameContentHeld'
    BY DEF SameContentHeld
  <1>6. ContentLock'
    BY DEF ContentLock, UnderLock, Reserved
  <1>7. StagingDone'
    BY DEF StagingDone, StagingOutlivesUpload
  <1>8. /\ ReadyHasFile' /\ Doomed' /\ ForwardValid' /\ OldSessions'
        /\ RefsReady' /\ LeaseReady'
    BY DEF ReadyHasFile, Doomed, ForwardValid, OldSessions, RefsReady, LeaseReady
  <1>. QED
    BY <1>1, <1>2, <1>3, <1>4, <1>5, <1>6, <1>7, <1>8

\* Copying fills the temp and no final file.
LEMMA CopyAndSyncKeeps ==
  ASSUME IInv, NEW u \in Uploads, CopyAndSync(u)
  PROVE  IInv'
  <1>. USE DEF IInv, TypeOK, CopyAndSync, FinGoto, FinTake, sessVars,
               rowVars, refVars, swVars, procVars
  <1>1. TypeOK'
    BY DEF FileState, FinPc, UnderLock, Reserved
  <1>2. KnownIds'
    BY DEF KnownIds
  <1>3. Holding'
    BY DEF Holding, BeforeLock
  <1>4. Verified'
    BY DEF Verified
  <1>5. SameContentHeld'
    BY DEF SameContentHeld
  <1>6. ContentLock'
    BY DEF ContentLock, UnderLock, Reserved
  <1>7. StagingDone'
    BY DEF StagingDone, StagingOutlivesUpload
  <1>8. /\ ReadyHasFile' /\ Doomed' /\ ForwardValid' /\ OldSessions'
        /\ RefsReady' /\ LeaseReady'
    BY DEF ReadyHasFile, Doomed, ForwardValid, OldSessions, RefsReady, LeaseReady
  <1>. QED
    BY <1>1, <1>2, <1>3, <1>4, <1>5, <1>6, <1>7, <1>8

\* The rename only fills a final file that was missing, hence none of a READY
\* row.
LEMMA CommitKeeps ==
  ASSUME IInv, NEW u \in Uploads, Commit(u)
  PROVE  IInv'
  <1>. USE DEF IInv, TypeOK, Commit, FinGoto, FinTake, sessVars, rowVars,
               refVars, swVars, procVars
  <1>1. TypeOK'
    BY DEF FinPc, UnderLock, Reserved
  <1>2. ReadyHasFile'
    BY DEF ReadyHasFile
  <1>3. KnownIds'
    BY DEF KnownIds, Holding, BeforeLock
  <1>4. Holding'
    BY DEF Holding, BeforeLock
  <1>5. Verified'
    BY DEF Verified
  <1>6. SameContentHeld'
    BY DEF SameContentHeld
  <1>7. ContentLock'
    BY DEF ContentLock, UnderLock, Reserved
  <1>8. StagingDone'
    BY DEF StagingDone, StagingOutlivesUpload
  <1>9. Doomed' /\ ForwardValid' /\ OldSessions' /\ RefsReady' /\ LeaseReady'
    BY DEF Doomed, ForwardValid, OldSessions, RefsReady, LeaseReady
  <1>. QED
    BY <1>1, <1>2, <1>3, <1>4, <1>5, <1>6, <1>7, <1>8, <1>9

\* finalExists keeps the object in hand for the cleanup.
LEMMA FinalExistsKeeps ==
  ASSUME IInv, NEW u \in Uploads, FinalExists(u)
  PROVE  IInv'
  <1>. USE DEF IInv, TypeOK, FinalExists, FinGoto, FinTake, sessVars,
               rowVars, fileVars, refVars, swVars, procVars
  <1>1. TypeOK'
    BY DEF FinPc, BeforeLock, UnderLock, Reserved
  <1>2. KnownIds'
    BY DEF KnownIds
  <1>3. Holding'
    BY DEF Holding, BeforeLock
  <1>4. Verified'
    BY DEF Verified
  <1>5. SameContentHeld'
    BY DEF SameContentHeld
  <1>6. ContentLock'
    BY DEF ContentLock, UnderLock, Reserved
  <1>7. StagingDone'
    BY DEF StagingDone, StagingOutlivesUpload
  <1>8. /\ ReadyHasFile' /\ Doomed' /\ ForwardValid' /\ OldSessions'
        /\ RefsReady' /\ LeaseReady'
    BY DEF ReadyHasFile, Doomed, ForwardValid, OldSessions, RefsReady, LeaseReady
  <1>. QED
    BY <1>1, <1>2, <1>3, <1>4, <1>5, <1>6, <1>7, <1>8

\* Stat after the rename is what readyAndComplete relies on.
LEMMA StatFinalKeeps ==
  ASSUME IInv, NEW u \in Uploads, StatFinal(u)
  PROVE  IInv'
  <1>. USE DEF IInv, TypeOK, StatFinal, FinGoto, FinTake, sessVars, rowVars,
               fileVars, refVars, swVars, procVars
  <1>1. TypeOK'
    BY DEF FinPc, BeforeLock, UnderLock, Reserved
  <1>2. KnownIds'
    BY DEF KnownIds
  <1>3. Holding'
    BY DEF Holding, BeforeLock
  <1>4. Verified'
    BY DEF Verified
  <1>5. SameContentHeld'
    BY DEF SameContentHeld
  <1>6. ContentLock'
    BY DEF ContentLock, UnderLock, Reserved
  <1>7. StagingDone'
    BY DEF StagingDone, StagingOutlivesUpload
  <1>8. /\ ReadyHasFile' /\ Doomed' /\ ForwardValid' /\ OldSessions'
        /\ RefsReady' /\ LeaseReady'
    BY DEF ReadyHasFile, Doomed, ForwardValid, OldSessions, RefsReady, LeaseReady
  <1>. QED
    BY <1>1, <1>2, <1>3, <1>4, <1>5, <1>6, <1>7, <1>8

\* The row becomes READY and the session a lease on it in one transaction.
LEMMA ReadyAndCompleteKeeps ==
  ASSUME IInv, NEW u \in Uploads, ReadyAndComplete(u)
  PROVE  IInv'
  <1>. USE DEF IInv, TypeOK, ReadyAndComplete, FinGoto, FinTake,
               CompleteSession, fileVars, refVars, swVars, procVars, sessVars
  <1>1. TypeOK'
    BY DEF SessionStatus, RowStatus, LiveRow, FinPc, BeforeLock, UnderLock
  <1>2. ReadyHasFile'
    BY DEF ReadyHasFile, Verified
  <1>3. KnownIds'
    BY DEF KnownIds
  <1>4. Holding'
    BY DEF Holding, BeforeLock
  <1>5. Verified'
    BY DEF Verified, Holding, BeforeLock
  <1>6. Doomed'
    BY DEF Doomed
  <1>7. SameContentHeld'
    BY DEF SameContentHeld
  <1>8. OldSessions'
    BY DEF OldSessions
  <1>9. RefsReady'
    BY DEF RefsReady
  <1>10. LeaseReady'
    BY DEF LeaseReady, Holding, BeforeLock
  <1>11. ContentLock'
    BY DEF ContentLock, UnderLock, Reserved
  <1>12. StagingDone'
    BY DEF StagingDone, StagingOutlivesUpload
  <1>13. ForwardValid'
    BY DEF ForwardValid
  <1>. QED
    BY <1>1, <1>2, <1>3, <1>4, <1>5, <1>6, <1>7, <1>8, <1>9, <1>10, <1>11, <1>12, <1>13

\* The session becomes a lease on an object that is READY under the lock.
LEMMA CompleteWithKeeps ==
  ASSUME IInv, NEW u \in Uploads, CompleteWith(u)
  PROVE  IInv'
  <1>. USE DEF IInv, TypeOK, CompleteWith, FinGoto, FinTake, CompleteSession,
               MayComplete, rowVars, fileVars, refVars, swVars, procVars,
               sessVars
  <1>1. TypeOK'
    BY DEF SessionStatus, FinPc, BeforeLock, UnderLock
  <1>2. KnownIds'
    BY DEF KnownIds
  <1>3. Holding'
    BY DEF Holding, BeforeLock
  <1>4. Verified'
    BY DEF Verified
  <1>5. SameContentHeld'
    BY DEF SameContentHeld
  <1>6. OldSessions'
    BY DEF OldSessions
  <1>7. LeaseReady'
    BY DEF LeaseReady, Holding, BeforeLock
  <1>8. ContentLock'
    BY DEF ContentLock, UnderLock
  <1>9. StagingDone'
    BY DEF StagingDone, StagingOutlivesUpload
  <1>10. ReadyHasFile' /\ Doomed' /\ ForwardValid' /\ RefsReady'
    BY DEF ReadyHasFile, Doomed, ForwardValid, RefsReady
  <1>. QED
    BY <1>1, <1>2, <1>3, <1>4, <1>5, <1>6, <1>7, <1>8, <1>9, <1>10

\* The staging file goes after the session is COMPLETED.
LEMMA DeleteStagingKeeps ==
  ASSUME IInv, NEW u \in Uploads, DeleteStaging(u)
  PROVE  IInv'
  <1>. USE DEF IInv, TypeOK, DeleteStaging, FinGoto, FinTake, rowVars,
               fileVars, refVars, swVars, procVars
  <1>1. TypeOK'
    BY DEF FinPc, BeforeLock
  <1>2. KnownIds'
    BY DEF KnownIds
  <1>3. Holding'
    BY DEF Holding, BeforeLock
  <1>4. Verified'
    BY DEF Verified
  <1>5. SameContentHeld'
    BY DEF SameContentHeld
  <1>6. ContentLock'
    BY DEF ContentLock, UnderLock
  <1>7. StagingDone'
    BY DEF StagingDone, StagingOutlivesUpload
  <1>8. /\ ReadyHasFile' /\ Doomed' /\ ForwardValid' /\ OldSessions'
        /\ RefsReady' /\ LeaseReady'
    BY DEF ReadyHasFile, Doomed, ForwardValid, OldSessions, RefsReady, LeaseReady
  <1>. QED
    BY <1>1, <1>2, <1>3, <1>4, <1>5, <1>6, <1>7, <1>8

\* The deferred cleanup removes the temp first.
LEMMA DropTempKeeps ==
  ASSUME IInv, NEW u \in Uploads, DropTemp(u)
  PROVE  IInv'
  <1>. USE DEF IInv, TypeOK, DropTemp, FinGoto, FinTake, sessVars, rowVars,
               refVars, swVars, procVars
  <1>1. TypeOK'
    BY DEF FileState, FinPc, UnderLock, Reserved
  <1>2. KnownIds'
    BY DEF KnownIds
  <1>3. Holding'
    BY DEF Holding, BeforeLock
  <1>4. Verified'
    BY DEF Verified
  <1>5. SameContentHeld'
    BY DEF SameContentHeld
  <1>6. ContentLock'
    BY DEF ContentLock, UnderLock, Reserved
  <1>7. StagingDone'
    BY DEF StagingDone, StagingOutlivesUpload
  <1>8. /\ ReadyHasFile' /\ Doomed' /\ ForwardValid' /\ OldSessions'
        /\ RefsReady' /\ LeaseReady'
    BY DEF ReadyHasFile, Doomed, ForwardValid, OldSessions, RefsReady, LeaseReady
  <1>. QED
    BY <1>1, <1>2, <1>3, <1>4, <1>5, <1>6, <1>7, <1>8

\* The deferred cleanup deletes a row only while it is PENDING.
LEMMA DropRowKeeps ==
  ASSUME IInv, NEW u \in Uploads, DropRow(u)
  PROVE  IInv'
  <1>. USE DEF IInv, TypeOK, DropRow, FinGoto, FinTake, sessVars, fileVars,
               refVars, swVars, procVars
  <1>1. TypeOK'
    BY DEF RowStatus, FinPc, BeforeLock
  <1>2. ReadyHasFile'
    BY DEF ReadyHasFile
  <1>3. KnownIds'
    BY DEF KnownIds
  <1>4. Holding'
    BY DEF Holding, BeforeLock
  <1>5. Verified'
    BY DEF Verified
  <1>6. Doomed'
    BY DEF Doomed
  <1>7. SameContentHeld'
    BY DEF SameContentHeld
  <1>8. RefsReady'
    BY DEF RefsReady
  <1>9. LeaseReady'
    BY DEF LeaseReady
  <1>10. ContentLock'
    BY DEF ContentLock, UnderLock, Reserved
  <1>11. StagingDone'
    BY DEF StagingDone, StagingOutlivesUpload
  <1>12. ForwardValid' /\ OldSessions'
    BY DEF ForwardValid, OldSessions
  <1>. QED
    BY <1>1, <1>2, <1>3, <1>4, <1>5, <1>6, <1>7, <1>8, <1>9, <1>10, <1>11, <1>12

\* A failed access leads to the cleanup or to the end of Finalize.
LEMMA FinErrorKeeps ==
  ASSUME IInv, NEW u \in Uploads, FinError(u)
  PROVE  IInv'
  <1>. USE DEF IInv, TypeOK, FinError, FinGoto, FinTake, OnError, sessVars,
               rowVars, fileVars, refVars, swVars, procVars
  <1>1. TypeOK'
    BY DEF FinPc, BeforeLock, UnderLock, Reserved
  <1>2. KnownIds'
    BY DEF KnownIds
  <1>3. Holding'
    BY DEF Holding, BeforeLock
  <1>4. Verified'
    BY DEF Verified
  <1>5. SameContentHeld'
    BY DEF SameContentHeld
  <1>6. ContentLock'
    BY DEF ContentLock, UnderLock, Reserved
  <1>7. StagingDone'
    BY DEF StagingDone, StagingOutlivesUpload
  <1>8. /\ ReadyHasFile' /\ Doomed' /\ ForwardValid' /\ OldSessions'
        /\ RefsReady' /\ LeaseReady'
    BY DEF ReadyHasFile, Doomed, ForwardValid, OldSessions, RefsReady, LeaseReady
  <1>. QED
    BY <1>1, <1>2, <1>3, <1>4, <1>5, <1>6, <1>7, <1>8

\* A message is bound to the READY object of a session that becomes consumed.
LEMMA BindUploadKeeps ==
  ASSUME IInv, NEW u \in Uploads, NEW m \in Messages, BindUpload(u, m)
  PROVE  IInv'
  <1>. USE DEF IInv, TypeOK, BindUpload, EnsureJobs, Bindable, rowVars,
               fileVars, finVars, swVars, procVars
  <1>1. TypeOK'
    OBVIOUS
  <1>2. ForwardValid'
    BY DEF ForwardValid
  <1>3. RefsReady'
    BY NoneAssumption DEF RefsReady, SameContentHeld
  <1>4. LeaseReady'
    BY DEF LeaseReady
  <1>5. /\ ReadyHasFile' /\ KnownIds' /\ Holding' /\ Verified' /\ Doomed'
        /\ SameContentHeld' /\ OldSessions' /\ ContentLock' /\ StagingDone'
    BY DEF ReadyHasFile, KnownIds, Holding, Verified, Doomed, SameContentHeld,
           OldSessions, ContentLock, StagingDone, StagingOutlivesUpload
  <1>. QED
    BY <1>1, <1>2, <1>3, <1>4, <1>5

\* An attachment that a forward has read stays: its message is locked.
LEMMA RemoveAttachmentKeeps ==
  ASSUME IInv, NEW a \in attach, RemoveAttachment(a)
  PROVE  IInv'
  <1>. USE DEF IInv, TypeOK, RemoveAttachment, MessageFree, sessVars,
               rowVars, fileVars, finVars, swVars, procVars
  <1>1. TypeOK'
    OBVIOUS
  <1>2. ForwardValid'
    BY DEF ForwardValid
  <1>3. RefsReady'
    BY DEF RefsReady
  <1>4. /\ ReadyHasFile' /\ KnownIds' /\ Holding' /\ Verified' /\ Doomed' /\ SameContentHeld'
        /\ OldSessions' /\ LeaseReady' /\ ContentLock' /\ StagingDone'
    BY DEF ReadyHasFile, KnownIds, Holding, Verified, Doomed, SameContentHeld,
           OldSessions, LeaseReady, ContentLock, StagingDone, StagingOutlivesUpload
  <1>. QED
    BY <1>1, <1>2, <1>3, <1>4

\* So do all attachments of a message that is being forwarded.
LEMMA DeleteMessageKeeps ==
  ASSUME IInv, NEW m \in Messages, DeleteMessage(m)
  PROVE  IInv'
  <1>. USE DEF IInv, TypeOK, DeleteMessage, MessageFree, sessVars, rowVars,
               fileVars, finVars, swVars, procVars
  <1>1. TypeOK'
    OBVIOUS
  <1>2. ForwardValid'
    BY DEF ForwardValid
  <1>3. RefsReady'
    BY DEF RefsReady
  <1>4. /\ ReadyHasFile' /\ KnownIds' /\ Holding' /\ Verified' /\ Doomed' /\ SameContentHeld'
        /\ OldSessions' /\ LeaseReady' /\ ContentLock' /\ StagingDone'
    BY DEF ReadyHasFile, KnownIds, Holding, Verified, Doomed, SameContentHeld,
           OldSessions, LeaseReady, ContentLock, StagingDone, StagingOutlivesUpload
  <1>. QED
    BY <1>1, <1>2, <1>3, <1>4

\* A forward remembers attachments that exist.
LEMMA ForwardReadKeeps ==
  ASSUME IInv, NEW s \in Messages, NEW d \in Messages, ForwardRead(s, d)
  PROVE  IInv'
  <1>. USE DEF IInv, TypeOK, ForwardRead, NoForward, sessVars, rowVars,
               fileVars, refVars, finVars, swVars, procVars
  <1>1. TypeOK'
    OBVIOUS
  <1>2. ForwardValid'
    BY DEF ForwardValid
  <1>3. /\ ReadyHasFile' /\ KnownIds' /\ Holding' /\ Verified' /\ Doomed' /\ SameContentHeld'
        /\ OldSessions' /\ RefsReady' /\ LeaseReady' /\ ContentLock' /\ StagingDone'
    BY DEF ReadyHasFile, KnownIds, Holding, Verified, Doomed, SameContentHeld,
           OldSessions, RefsReady, LeaseReady, ContentLock, StagingDone,
           StagingOutlivesUpload
  <1>. QED
    BY <1>1, <1>2, <1>3

\* The copies lead to the objects of attachments that still exist.
LEMMA ForwardCommitKeeps ==
  ASSUME IInv, ForwardCommit
  PROVE  IInv'
  <1>. USE DEF IInv, TypeOK, ForwardCommit, EnsureJobs, NoForward, LiveRow,
               sessVars, rowVars, fileVars, finVars, swVars, procVars
  <1>1. TypeOK'
    BY DEF ForwardValid
  <1>2. ForwardValid'
    BY DEF ForwardValid
  <1>3. RefsReady'
    BY DEF RefsReady, ForwardValid
  <1>4. /\ ReadyHasFile' /\ KnownIds' /\ Holding' /\ Verified' /\ Doomed' /\ SameContentHeld'
        /\ OldSessions' /\ LeaseReady' /\ ContentLock' /\ StagingDone'
    BY DEF ReadyHasFile, KnownIds, Holding, Verified, Doomed, SameContentHeld,
           OldSessions, LeaseReady, ContentLock, StagingDone, StagingOutlivesUpload
  <1>. QED
    BY <1>1, <1>2, <1>3, <1>4

\* A forward that rolls back leaves nothing behind.
LEMMA ForwardAbortKeeps ==
  ASSUME IInv, ForwardAbort
  PROVE  IInv'
  <1>. USE DEF IInv, TypeOK, ForwardAbort, NoForward, sessVars, rowVars,
               fileVars, refVars, finVars, swVars, procVars
  <1>1. TypeOK'
    OBVIOUS
  <1>2. ForwardValid'
    BY DEF ForwardValid
  <1>3. /\ ReadyHasFile' /\ KnownIds' /\ Holding' /\ Verified' /\ Doomed' /\ SameContentHeld'
        /\ OldSessions' /\ RefsReady' /\ LeaseReady' /\ ContentLock' /\ StagingDone'
    BY DEF ReadyHasFile, KnownIds, Holding, Verified, Doomed, SameContentHeld,
           OldSessions, RefsReady, LeaseReady, ContentLock, StagingDone,
           StagingOutlivesUpload
  <1>. QED
    BY <1>1, <1>2, <1>3

\* The end of a thumbnail job changes no reference.
LEMMA JobEndsKeeps ==
  ASSUME IInv, NEW o \in Objs, JobEnds(o)
  PROVE  IInv'
  <1>. USE DEF IInv, TypeOK, JobEnds, sessVars, rowVars, fileVars, finVars,
               swVars, procVars
  <1>1. TypeOK'
    OBVIOUS
  <1>2. /\ ReadyHasFile' /\ KnownIds' /\ Holding' /\ Verified' /\ Doomed' /\ SameContentHeld' /\ ForwardValid'
        /\ OldSessions' /\ RefsReady' /\ LeaseReady' /\ ContentLock' /\ StagingDone'
    BY DEF ReadyHasFile, KnownIds, Holding, Verified, Doomed, SameContentHeld,
           ForwardValid, OldSessions, RefsReady, LeaseReady, ContentLock,
           StagingDone, StagingOutlivesUpload
  <1>. QED
    BY <1>1, <1>2

\* Only staging files of sessions that are over are removed.
LEMMA ReconcileStagingKeeps ==
  ASSUME IInv, NEW u \in Uploads, ReconcileStaging(u)
  PROVE  IInv'
  <1>. USE DEF IInv, TypeOK, ReconcileStaging, rowVars, fileVars, refVars,
               finVars, swVars, procVars
  <1>1. TypeOK'
    OBVIOUS
  <1>2. StagingDone'
    BY DEF StagingDone, StagingOutlivesUpload, Inactive
  <1>3. /\ ReadyHasFile' /\ KnownIds' /\ Holding' /\ Verified' /\ Doomed' /\ SameContentHeld'
        /\ ForwardValid' /\ OldSessions' /\ RefsReady' /\ LeaseReady' /\ ContentLock'
    BY DEF ReadyHasFile, KnownIds, Holding, Verified, Doomed, SameContentHeld,
           ForwardValid, OldSessions, RefsReady, LeaseReady, ContentLock
  <1>. QED
    BY <1>1, <1>2, <1>3

\* Time passing for an object changes nothing but its age.
LEMMA ReadyAgesKeeps ==
  ASSUME IInv, NEW o \in Objs, ReadyAges(o)
  PROVE  IInv'
  <1>. USE DEF IInv, TypeOK, ReadyAges, sessVars, fileVars, refVars, finVars,
               swVars, procVars
  <1>1. TypeOK'
    OBVIOUS
  <1>2. /\ ReadyHasFile' /\ KnownIds' /\ Holding' /\ Verified' /\ Doomed' /\ SameContentHeld' /\ ForwardValid'
        /\ OldSessions' /\ RefsReady' /\ LeaseReady' /\ ContentLock' /\ StagingDone'
    BY DEF ReadyHasFile, KnownIds, Holding, Verified, Doomed, SameContentHeld,
           ForwardValid, OldSessions, RefsReady, LeaseReady, ContentLock,
           StagingDone, StagingOutlivesUpload
  <1>. QED
    BY <1>1, <1>2

\* A lease that ends no longer protects its object.
LEMMA LeaseAgesKeeps ==
  ASSUME IInv, NEW u \in Uploads, LeaseAges(u)
  PROVE  IInv'
  <1>. USE DEF IInv, TypeOK, LeaseAges, rowVars, fileVars, refVars, finVars,
               swVars, procVars
  <1>1. TypeOK'
    OBVIOUS
  <1>2. OldSessions'
    BY DEF OldSessions
  <1>3. LeaseReady'
    BY DEF LeaseReady
  <1>4. /\ ReadyHasFile' /\ KnownIds' /\ Holding' /\ Verified' /\ Doomed' /\ SameContentHeld'
        /\ ForwardValid' /\ RefsReady' /\ ContentLock' /\ StagingDone'
    BY DEF ReadyHasFile, KnownIds, Holding, Verified, Doomed, SameContentHeld,
           ForwardValid, RefsReady, ContentLock, StagingDone, StagingOutlivesUpload
  <1>. QED
    BY <1>1, <1>2, <1>3, <1>4

\* The GC's SELECT changes no row, and its sessions are past their lease.
LEMMA GCSelectKeeps ==
  ASSUME IInv, GCSelect
  PROVE  IInv'
  <1>. USE DEF IInv, TypeOK, GCSelect, sessVars, rowVars, fileVars, refVars,
               finVars, procVars
  <1>1. TypeOK'
    BY DEF SwPc
  <1>2. Holding'
    BY DEF Holding
  <1>3. Verified'
    BY DEF Verified
  <1>4. OldSessions'
    BY DEF OldSessions
  <1>5. /\ ReadyHasFile' /\ KnownIds' /\ Doomed' /\ SameContentHeld' /\ ForwardValid'
        /\ RefsReady' /\ LeaseReady' /\ ContentLock' /\ StagingDone'
    BY DEF ReadyHasFile, KnownIds, Doomed, SameContentHeld, ForwardValid, RefsReady,
           LeaseReady, ContentLock, StagingDone, StagingOutlivesUpload
  <1>. QED
    BY <1>1, <1>2, <1>3, <1>4, <1>5

\* The GC's UPDATE looks at the references again, so no attachment and no
\* lease loses its object although the candidates are stale.
LEMMA GCMarkKeeps ==
  ASSUME IInv, GCMark
  PROVE  IInv'
  <1>. USE DEF IInv, TypeOK, GCMark, StillCollectable, Unreferenced, Leased,
               Attached, fileVars, refVars, finVars, procVars
  <1>1. TypeOK'
    BY DEF SessionStatus, RowStatus, LiveRow, SwPc
  <1>2. ReadyHasFile'
    BY DEF ReadyHasFile
  <1>3. KnownIds'
    BY DEF KnownIds
  <1>4. Holding'
    BY DEF Holding
  <1>5. Verified'
    BY DEF Verified, Holding, BeforeLock
  <1>6. Doomed'
    BY DEF Doomed
  <1>7. SameContentHeld'
    BY DEF SameContentHeld
  <1>8. OldSessions'
    BY DEF OldSessions
  <1>9. RefsReady'
    BY DEF RefsReady
  <1>10. LeaseReady'
    BY DEF LeaseReady
  <1>11. StagingDone'
    BY DEF StagingDone, StagingOutlivesUpload
  <1>12. ForwardValid' /\ ContentLock'
    BY DEF ForwardValid, ContentLock
  <1>. QED
    BY <1>1, <1>2, <1>3, <1>4, <1>5, <1>6, <1>7, <1>8, <1>9, <1>10, <1>11, <1>12

\* Reconcile reads rows that are DELETING, which is for good.
LEMMA ScanKeeps ==
  ASSUME IInv, Scan
  PROVE  IInv'
  <1>. USE DEF IInv, TypeOK, Scan, sessVars, rowVars, fileVars, refVars,
               finVars, procVars
  <1>1. TypeOK'
    BY DEF SwPc
  <1>2. KnownIds'
    BY DEF KnownIds
  <1>3. Holding'
    BY DEF Holding
  <1>4. Verified'
    BY DEF Verified
  <1>5. Doomed'
    BY DEF Doomed
  <1>6. /\ ReadyHasFile' /\ SameContentHeld' /\ ForwardValid' /\ OldSessions' /\ RefsReady'
        /\ LeaseReady' /\ ContentLock' /\ StagingDone'
    BY DEF ReadyHasFile, SameContentHeld, ForwardValid, OldSessions, RefsReady,
           LeaseReady, ContentLock, StagingDone, StagingOutlivesUpload
  <1>. QED
    BY <1>1, <1>2, <1>3, <1>4, <1>5, <1>6

\* Stat's verdict "full" is true of the row that Reconcile goes on to.
LEMMA SweepStatKeeps ==
  ASSUME IInv, NEW o \in Objs, SweepStat(o)
  PROVE  IInv'
  <1>. USE DEF IInv, TypeOK, SweepStat, sessVars, rowVars, fileVars, refVars,
               finVars, procVars
  <1>1. TypeOK'
    BY DEF SwPc
  <1>2. KnownIds'
    BY DEF KnownIds
  <1>3. Holding'
    BY NoneAssumption DEF Holding
  <1>4. Verified'
    BY DEF Verified
  <1>5. /\ ReadyHasFile' /\ Doomed' /\ SameContentHeld' /\ ForwardValid' /\ OldSessions'
        /\ RefsReady' /\ LeaseReady' /\ ContentLock' /\ StagingDone'
    BY DEF ReadyHasFile, Doomed, SameContentHeld, ForwardValid, OldSessions,
           RefsReady, LeaseReady, ContentLock, StagingDone, StagingOutlivesUpload
  <1>. QED
    BY <1>1, <1>2, <1>3, <1>4, <1>5

\* Removing a commit temp leaves every final file alone.
LEMMA SweepTempKeeps ==
  ASSUME IInv, SweepTemp
  PROVE  IInv'
  <1>. USE DEF IInv, TypeOK, SweepTemp, sessVars, rowVars, refVars, finVars,
               procVars
  <1>1. TypeOK'
    BY DEF FileState, SwPc
  <1>2. Holding'
    BY DEF Holding
  <1>3. Verified'
    BY DEF Verified
  <1>4. /\ ReadyHasFile' /\ KnownIds' /\ Doomed' /\ SameContentHeld' /\ ForwardValid' /\ OldSessions'
        /\ RefsReady' /\ LeaseReady' /\ ContentLock' /\ StagingDone'
    BY DEF ReadyHasFile, KnownIds, Doomed, SameContentHeld, ForwardValid,
           OldSessions, RefsReady, LeaseReady, ContentLock, StagingDone,
           StagingOutlivesUpload
  <1>. QED
    BY <1>1, <1>2, <1>3, <1>4

\* Reconcile deletes a row only while it is PENDING, which no reference is to.
LEMMA SweepRowKeeps ==
  ASSUME IInv, SweepRow
  PROVE  IInv'
  <1>. USE DEF IInv, TypeOK, SweepRow, DeleteRow, Attached, ItemDone,
               fileVars, refVars, finVars, procVars
  <1>1. TypeOK'
    BY DEF RowStatus, SwPc
  <1>2. ReadyHasFile'
    BY DEF ReadyHasFile
  <1>3. KnownIds'
    BY DEF KnownIds
  <1>4. Holding'
    BY DEF Holding
  <1>5. Verified'
    BY DEF Verified, Holding, BeforeLock
  <1>6. Doomed'
    BY DEF Doomed
  <1>7. SameContentHeld'
    BY DEF SameContentHeld
  <1>8. RefsReady'
    BY DEF RefsReady
  <1>9. LeaseReady'
    BY DEF LeaseReady
  <1>10. ForwardValid' /\ OldSessions' /\ ContentLock' /\ StagingDone'
    BY DEF ForwardValid, OldSessions, ContentLock, StagingDone,
           StagingOutlivesUpload
  <1>. QED
    BY <1>1, <1>2, <1>3, <1>4, <1>5, <1>6, <1>7, <1>8, <1>9, <1>10

\* Reconcile makes a row READY only if its file was found complete.
LEMMA SweepReadyKeeps ==
  ASSUME IInv, SweepReady
  PROVE  IInv'
  <1>. USE DEF IInv, TypeOK, SweepReady, ItemDone, sessVars, fileVars,
               refVars, finVars, procVars
  <1>1. TypeOK'
    BY DEF RowStatus, LiveRow, SwPc
  <1>2. ReadyHasFile'
    BY DEF ReadyHasFile, Verified
  <1>3. KnownIds'
    BY DEF KnownIds
  <1>4. Holding'
    BY DEF Holding
  <1>5. Verified'
    BY DEF Verified
  <1>6. Doomed'
    BY DEF Doomed
  <1>7. RefsReady'
    BY DEF RefsReady
  <1>8. LeaseReady'
    BY DEF LeaseReady
  <1>9. /\ SameContentHeld' /\ ForwardValid' /\ OldSessions'
        /\ ContentLock' /\ StagingDone'
    BY DEF SameContentHeld, ForwardValid, OldSessions, ContentLock, StagingDone,
           StagingOutlivesUpload
  <1>. QED
    BY <1>1, <1>2, <1>3, <1>4, <1>5, <1>6, <1>7, <1>8, <1>9

\* The file that is deleted belongs to a row that was DELETING when it was
\* read, so to no READY row.
LEMMA DeleteObjectFileKeeps ==
  ASSUME IInv, NEW o \in Objs, DeleteObjectFile(o)
  PROVE  IInv'
  <1>. USE DEF IInv, TypeOK, DeleteObjectFile, sessVars, rowVars, refVars,
               finVars, procVars
  <1>1. TypeOK'
    BY DEF FileState, SwPc
  <1>2. ReadyHasFile'
    BY DEF ReadyHasFile, Doomed
  <1>3. KnownIds'
    BY DEF KnownIds, Doomed
  <1>4. Holding'
    BY NoneAssumption DEF Holding
  <1>5. Verified'
    BY DEF Verified, Doomed
  <1>6. Doomed'
    BY DEF Doomed
  <1>7. /\ SameContentHeld' /\ ForwardValid' /\ OldSessions' /\ RefsReady'
        /\ LeaseReady' /\ ContentLock' /\ StagingDone'
    BY DEF SameContentHeld, ForwardValid, OldSessions, RefsReady, LeaseReady,
           ContentLock, StagingDone, StagingOutlivesUpload
  <1>. QED
    BY <1>1, <1>2, <1>3, <1>4, <1>5, <1>6, <1>7

\* The row that is deleted is DELETING, which no reference is to.
LEMMA DeleteObjectRowKeeps ==
  ASSUME IInv, DeleteObjectRow
  PROVE  IInv'
  <1>. USE DEF IInv, TypeOK, DeleteObjectRow, DeleteRow, Attached, ItemDone,
               fileVars, refVars, finVars, procVars
  <1>1. TypeOK'
    BY DEF RowStatus, SwPc
  <1>2. ReadyHasFile'
    BY DEF ReadyHasFile
  <1>3. KnownIds'
    BY DEF KnownIds
  <1>4. Holding'
    BY DEF Holding
  <1>5. Verified'
    BY DEF Verified, Holding, BeforeLock
  <1>6. Doomed'
    BY DEF Doomed
  <1>7. SameContentHeld'
    BY DEF SameContentHeld
  <1>8. RefsReady'
    BY DEF RefsReady
  <1>9. LeaseReady'
    BY DEF LeaseReady
  <1>10. ForwardValid' /\ OldSessions' /\ ContentLock' /\ StagingDone'
    BY DEF ForwardValid, OldSessions, ContentLock, StagingDone,
           StagingOutlivesUpload
  <1>. QED
    BY <1>1, <1>2, <1>3, <1>4, <1>5, <1>6, <1>7, <1>8, <1>9, <1>10

\* Removing commit temps leaves every final file alone.
LEMMA CleanupTempsKeeps ==
  ASSUME IInv, CleanupTemps
  PROVE  IInv'
  <1>. USE DEF IInv, TypeOK, CleanupTemps, sessVars, rowVars, refVars,
               finVars
  <1>1. TypeOK'
    BY DEF FileState, SwPc
  <1>2. Holding'
    BY DEF Holding
  <1>3. Verified'
    BY DEF Verified
  <1>4. /\ ReadyHasFile' /\ KnownIds' /\ Doomed' /\ SameContentHeld' /\ ForwardValid' /\ OldSessions'
        /\ RefsReady' /\ LeaseReady' /\ ContentLock' /\ StagingDone'
    BY DEF ReadyHasFile, KnownIds, Doomed, SameContentHeld, ForwardValid,
           OldSessions, RefsReady, LeaseReady, ContentLock, StagingDone,
           StagingOutlivesUpload
  <1>. QED
    BY <1>1, <1>2, <1>3, <1>4

\* An error in the sweep only forgets what the pass had in hand.
LEMMA SweepErrorKeeps ==
  ASSUME IInv, SweepError
  PROVE  IInv'
  <1>. USE DEF IInv, TypeOK, SweepError, sessVars, rowVars, fileVars,
               refVars, finVars
  <1>1. TypeOK'
    BY DEF SwPc
  <1>2. KnownIds'
    BY DEF KnownIds
  <1>3. Holding'
    BY DEF Holding
  <1>4. Verified'
    BY DEF Verified
  <1>5. Doomed'
    BY DEF Doomed
  <1>6. OldSessions'
    BY DEF OldSessions
  <1>7. /\ ReadyHasFile' /\ SameContentHeld' /\ ForwardValid' /\ RefsReady'
        /\ LeaseReady' /\ ContentLock' /\ StagingDone'
    BY DEF ReadyHasFile, SameContentHeld, ForwardValid, RefsReady, LeaseReady,
           ContentLock, StagingDone, StagingOutlivesUpload
  <1>. QED
    BY <1>1, <1>2, <1>3, <1>4, <1>5, <1>6, <1>7

\* After a crash nobody holds anything, and rows, files and references are as
\* they were.
LEMMA CrashKeeps ==
  ASSUME IInv, Crash
  PROVE  IInv'
  <1>. USE DEF IInv, TypeOK, Crash, NoForward, sessVars, rowVars, fileVars,
               refVars
  <1>1. TypeOK'
    BY DEF FinPc, BeforeLock, SwPc
  <1>2. KnownIds'
    BY DEF KnownIds
  <1>3. Holding'
    BY DEF Holding, BeforeLock
  <1>4. Verified'
    BY DEF Verified
  <1>5. Doomed'
    BY DEF Doomed
  <1>6. SameContentHeld'
    BY DEF SameContentHeld
  <1>7. ForwardValid'
    BY DEF ForwardValid
  <1>8. OldSessions'
    BY DEF OldSessions
  <1>9. ContentLock'
    BY DEF ContentLock, UnderLock, Reserved
  <1>10. StagingDone'
    BY DEF StagingDone, StagingOutlivesUpload
  <1>11. ReadyHasFile' /\ RefsReady' /\ LeaseReady'
    BY DEF ReadyHasFile, RefsReady, LeaseReady
  <1>. QED
    BY <1>1, <1>2, <1>3, <1>4, <1>5, <1>6, <1>7, <1>8, <1>9, <1>10, <1>11

----------------------------------------------------------------------------
\* Every step of a finalizer preserves the invariant.
LEMMA FinalizerKeeps ==
  ASSUME IInv, NEW u \in Uploads, Finalizer(u)
  PROVE  IInv'
  BY AcquireSlotKeeps, HashStagingKeeps, MarkFailedKeeps, FindKeeps,
     RecStatKeeps, RecTempKeeps, RecRowKeeps, RecReadyKeeps, ReserveKeeps,
     CreateCommitTempKeeps, CopyAndSyncKeeps, CommitKeeps, FinalExistsKeeps,
     StatFinalKeeps, ReadyAndCompleteKeeps, CompleteWithKeeps,
     DeleteStagingKeeps, DropTempKeeps, DropRowKeeps, FinErrorKeeps
     DEF Finalizer

\* Every step of the sweep preserves the invariant.
LEMMA SweepKeeps ==
  ASSUME IInv, Sweep
  PROVE  IInv'
  BY ScanKeeps, GCMarkKeeps, SweepTempKeeps, SweepRowKeeps, SweepReadyKeeps,
     DeleteObjectRowKeeps, CleanupTempsKeeps, SweepStatKeeps,
     DeleteObjectFileKeeps
     DEF Sweep

\* The invariant is inductive: no step of any actor, and no crash, breaks it.
LEMMA NextIInv == IInv /\ [Next]_vars => IInv'
  <1>. SUFFICES ASSUME IInv, [Next]_vars PROVE IInv'
    OBVIOUS
  <1>1. ASSUME NEW u \in Uploads,
               \/ CompleteUpload(u) \/ Finalizer(u)
               \/ ReconcileStaging(u) \/ LeaseAges(u)
               \/ \E m \in Messages : BindUpload(u, m)
        PROVE  IInv'
    BY <1>1, CompleteUploadKeeps, FinalizerKeeps, ReconcileStagingKeeps,
       LeaseAgesKeeps, BindUploadKeeps
  <1>2. CASE \E a \in attach : RemoveAttachment(a)
    BY <1>2, RemoveAttachmentKeeps
  <1>3. CASE \E m \in Messages : DeleteMessage(m)
    BY <1>3, DeleteMessageKeeps
  <1>4. CASE \E s, d \in Messages : ForwardRead(s, d)
    BY <1>4, ForwardReadKeeps
  <1>5. CASE ForwardCommit \/ ForwardAbort
    BY <1>5, ForwardCommitKeeps, ForwardAbortKeeps
  <1>6. CASE \E o \in Objs : JobEnds(o) \/ ReadyAges(o)
    BY <1>6, JobEndsKeeps, ReadyAgesKeeps
  <1>7. CASE GCSelect \/ Sweep \/ SweepError \/ Crash
    BY <1>7, GCSelectKeeps, SweepKeeps, SweepErrorKeeps, CrashKeeps
  <1>8. CASE UNCHANGED vars
    BY <1>8 DEF vars, sessVars, rowVars, fileVars, refVars, finVars, swVars,
       procVars, IInv, TypeOK, ReadyHasFile, KnownIds, Holding, Verified,
       Doomed, SameContentHeld, ForwardValid, OldSessions, RefsReady,
       LeaseReady, ContentLock, StagingDone, StagingOutlivesUpload
  <1>. QED
    BY <1>1, <1>2, <1>3, <1>4, <1>5, <1>6, <1>7, <1>8 DEF Next

\* The invariant holds in every state of every behaviour of the finalizers,
\* the sweep, the message requests and the crashes.
THEOREM Invariance == Spec => []IInv
  BY InitIInv, NextIInv, PTL DEF Spec

\* Every column, file and local variable only ever holds values of its type.
THEOREM TypeCorrect == Spec => []TypeOK
  <1>1. IInv => TypeOK
    BY DEF IInv
  <1>. QED
    BY <1>1, Invariance, PTL

\* An attachment always leads to the complete bytes of the upload it came from,
\* which is what Open serves.
THEOREM AttachmentsStayIntact == Spec => []AttachmentsIntact
  <1>1. IInv => AttachmentsIntact
    BY DEF IInv, TypeOK, RefsReady, ReadyHasFile, AttachmentsIntact
  <1>. QED
    BY <1>1, Invariance, PTL

\* For 24 hours the GC leaves alone the object of a completed upload that no
\* message has consumed.
THEOREM LeasesHold == Spec => []LeaseHolds
  <1>1. IInv => LeaseHolds
    BY DEF IInv, TypeOK, LeaseReady, ReadyHasFile, LeaseHolds
  <1>. QED
    BY <1>1, Invariance, PTL

\* VerifyReady's precondition: a READY row always has its complete file.
THEOREM ReadyFilesExist == Spec => []ReadyHasFile
  <1>1. IInv => ReadyHasFile
    BY DEF IInv
  <1>. QED
    BY <1>1, Invariance, PTL

\* The content lock of Finalize keeps one request from reconciling away the
\* reservation that another is writing.
THEOREM ReservationsSafe == Spec => []ReservationsNotStolen
  <1>1. IInv => ReservationsNotStolen
    <2>1. SUFFICES ASSUME IInv, NEW u \in Uploads, NEW v \in Uploads,
                          finPc[u] \in {"recStat", "recTemp", "recRow", "recReady"},
                          finPc[v] \in Reserved, finObj[u] = finObj[v]
                   PROVE  FALSE
      BY DEF ReservationsNotStolen
    <2>2. finObj[u] # None
      BY <2>1 DEF IInv, Holding, BeforeLock
    <2>3. ContentOf[u] = ContentOf[v]
      BY <2>1, <2>2 DEF IInv, SameContentHeld
    <2>4. finPc[u] \in UnderLock /\ finPc[v] \in UnderLock /\ u # v
      BY <2>1 DEF UnderLock, Reserved
    <2>. QED
      BY <2>1, <2>3, <2>4 DEF IInv, ContentLock
  <1>. QED
    BY <1>1, Invariance, PTL

\* Whatever fails in Complete and Finalize, the staging file is there for the
\* next attempt until the session is over.
THEOREM StagingSafe == Spec => []StagingOutlivesUpload
  <1>1. IInv => StagingOutlivesUpload
    BY DEF IInv, StagingDone
  <1>. QED
    BY <1>1, Invariance, PTL

\* A file object's status only advances, whoever changes it and however old
\* the Stat behind the change is.
THEOREM StatusAdvances == Spec => StatusOnlyAdvances
  <1>. DEFINE Forward ==
         \A o \in Objs :
            /\ row[o] = "GONE" => row'[o] = "GONE"
            /\ row[o] = "DELETING" => row'[o] \in {"DELETING", "GONE"}
            /\ row[o] = "READY" => row'[o] \in {"READY", "DELETING"}
  <1>1. IInv /\ [Next]_vars => [Forward]_vars
    <2>. SUFFICES ASSUME IInv, Next PROVE Forward
      OBVIOUS
    <2>. USE DEF IInv, TypeOK, vars, sessVars, rowVars
    <2>1. ASSUME NEW u \in Uploads, Finalizer(u) PROVE Forward
      BY <2>1 DEF Finalizer, AcquireSlot, HashStaging, MarkFailed, Find,
         RecStat, RecTemp, RecRow, RecReady, Reserve, CreateCommitTemp,
         CopyAndSync, Commit, FinalExists, StatFinal, ReadyAndComplete,
         CompleteWith, DeleteStaging, DropTemp, DropRow, FinError
    <2>2. CASE Sweep
      BY <2>2 DEF Sweep, Scan, GCMark, StillCollectable, SweepTemp, SweepRow,
         SweepReady, DeleteObjectRow, DeleteRow, CleanupTemps, SweepStat,
         DeleteObjectFile
    <2>3. ASSUME \/ \E u \in Uploads :
                       \/ CompleteUpload(u) \/ ReconcileStaging(u) \/ LeaseAges(u)
                       \/ \E m \in Messages : BindUpload(u, m)
                 \/ \E a \in attach : RemoveAttachment(a)
                 \/ \E m \in Messages : DeleteMessage(m)
                 \/ \E s, d \in Messages : ForwardRead(s, d)
                 \/ ForwardCommit \/ ForwardAbort
                 \/ \E o \in Objs : JobEnds(o) \/ ReadyAges(o)
                 \/ GCSelect \/ SweepError \/ Crash
          PROVE  UNCHANGED row
      BY <2>3 DEF CompleteUpload, ReconcileStaging, LeaseAges, BindUpload,
         RemoveAttachment, DeleteMessage, ForwardRead, ForwardCommit,
         ForwardAbort, JobEnds, ReadyAges, GCSelect, SweepError, Crash
    <2>4. ASSUME UNCHANGED row PROVE Forward
      BY <2>4
    <2>. QED
      BY <2>1, <2>2, <2>3, <2>4 DEF Next
  <1>2. [Forward]_vars => [\A o \in Objs :
                 /\ row[o] = "GONE" => row'[o] = "GONE"
                 /\ row[o] = "DELETING" => row'[o] \in {"DELETING", "GONE"}
                 /\ row[o] = "READY" => row'[o] \in {"READY", "DELETING"}]_vars
    OBVIOUS
  <1>. QED
    BY <1>1, <1>2, Invariance, PTL DEF Spec, StatusOnlyAdvances
----------------------------------------------------------------------------
(* The quota.  Reserve compares a sum with the limit and adds one row in the *)
(* same transaction; every other step leaves the live rows as they are or    *)
(* takes some away.  The facts about sums are those of SumsProofs.           *)

\* There are finitely many live rows, each has a size, and they are within the
\* quota.
Accounted ==
    /\ IsFiniteSet(LiveObjs)
    /\ \A o \in LiveObjs : rowContent[o] \in Contents
    /\ QuotaRespected

\* The transaction of Reserve that inserts the row o for the content c.
NewRow(o, c) ==
    /\ o \in Objs /\ row[o] = "ABSENT" /\ c \in Contents
    /\ row' = [row EXCEPT ![o] = "PENDING"]
    /\ rowContent' = [rowContent EXCEPT ![o] = c]
    /\ WithinQuota(c)

\* What a step may do to the live rows.
RowsKept == LiveObjs' \subseteq LiveObjs /\ rowContent' = rowContent

\* Every live row has a size.
LEMMA RowsWeigh ==
  ASSUME Accounted
  PROVE  /\ Weighs(RowSize, LiveObjs) /\ StorageUsed \in Nat
         /\ \A o \in LiveObjs : RowSize[o] = SizeOf[rowContent[o]]
  <1>1. \A o \in LiveObjs : RowSize[o] = SizeOf[rowContent[o]] /\ RowSize[o] \in Nat
    BY ContentsAssumption DEF Accounted, RowSize
  <1>2. Weighs(RowSize, LiveObjs)
    BY <1>1 DEF Weighs
  <1>3. StorageUsed \in Nat
    BY <1>2, SumNat DEF StorageUsed, Accounted
  <1>. QED
    BY <1>1, <1>2, <1>3

\* A finalizer inserts a row within the quota or keeps the rows.
LEMMA FinalizerRows ==
  ASSUME IInv, NEW u \in Uploads, Finalizer(u)
  PROVE  RowsKept \/ \E o \in Objs : NewRow(o, ContentOf[u])
  <1>. USE DEF IInv, TypeOK, sessVars, rowVars
  <1>1. CASE Reserve(u)
    <2>1. CASE RowsFor(ContentOf[u]) = {}
      BY <1>1, <2>1, ContentsAssumption DEF Reserve, NewRow
    <2>2. CASE RowsFor(ContentOf[u]) # {}
      BY <1>1, <2>2 DEF Reserve, RowsKept, LiveObjs
    <2>. QED
      BY <2>1, <2>2
  <1>2. CASE RecRow(u) \/ RecReady(u) \/ ReadyAndComplete(u) \/ DropRow(u)
    <2>. HIDE DEF IInv, TypeOK
    <2>1. row \in [Objs -> RowStatus] /\ rowContent' = rowContent
      BY <1>2 DEF RecRow, RecReady, ReadyAndComplete, DropRow, IInv, TypeOK
    <2>2. \/ row' = row
          \/ /\ row[finObj[u]] = "PENDING"
             /\ \E st \in {"GONE", "READY"} : row' = [row EXCEPT ![finObj[u]] = st]
      BY <1>2 DEF RecRow, RecReady, ReadyAndComplete, DropRow
    <2>. QED
      BY <2>1, <2>2 DEF RowsKept, LiveObjs, LiveRow
  <1>3. CASE UNCHANGED rowVars
    BY <1>3 DEF RowsKept, LiveObjs
  <1>. QED
    BY <1>1, <1>2, <1>3 DEF Finalizer, AcquireSlot, HashStaging, MarkFailed, Find, RecStat,
       RecTemp, CreateCommitTemp, CopyAndSync, Commit, FinalExists, StatFinal,
       CompleteWith, DeleteStaging, DropTemp, FinError

\* The sweep marks rows and takes rows away.
LEMMA SweepRows ==
  ASSUME IInv, Sweep
  PROVE  RowsKept
  <1>1. row \in [Objs -> RowStatus]
    BY DEF IInv, TypeOK
  <1>2. CASE GCMark
    BY <1>1, <1>2 DEF GCMark, StillCollectable, RowsKept, LiveObjs, LiveRow
  <1>3. CASE SweepRow \/ SweepReady \/ DeleteObjectRow
    <2>1. rowContent' = rowContent
      BY <1>3 DEF SweepRow, SweepReady, DeleteObjectRow, rowVars
    <2>2. \/ row' = row
          \/ /\ row[swObj] \in {"PENDING", "DELETING"}
             /\ \E st \in {"GONE", "READY"} : row' = [row EXCEPT ![swObj] = st]
      BY <1>3 DEF SweepRow, SweepReady, DeleteObjectRow, DeleteRow
    <2>. QED
      BY <1>1, <2>1, <2>2 DEF RowsKept, LiveObjs, LiveRow
  <1>4. CASE UNCHANGED rowVars
    BY <1>4 DEF RowsKept, LiveObjs, rowVars
  <1>. QED
    BY <1>2, <1>3, <1>4 DEF Sweep, Scan, SweepTemp, CleanupTemps, SweepStat, DeleteObjectFile

\* No other step touches the status or the content of a row.
LEMMA NextRows ==
  ASSUME IInv, [Next]_vars
  PROVE  RowsKept \/ \E o \in Objs, u \in Uploads : NewRow(o, ContentOf[u])
  <1>1. ASSUME NEW u \in Uploads, Finalizer(u)
        PROVE  RowsKept \/ \E o \in Objs : NewRow(o, ContentOf[u])
    BY <1>1, FinalizerRows
  <1>2. CASE Sweep
    BY <1>2, SweepRows
  <1>3. CASE UNCHANGED <<row, rowContent>>
    BY <1>3 DEF RowsKept, LiveObjs
  <1>4. ASSUME \/ \E u \in Uploads :
                     \/ CompleteUpload(u) \/ ReconcileStaging(u) \/ LeaseAges(u)
                     \/ \E m \in Messages : BindUpload(u, m)
               \/ \E a \in attach : RemoveAttachment(a)
               \/ \E m \in Messages : DeleteMessage(m)
               \/ \E s, d \in Messages : ForwardRead(s, d)
               \/ ForwardCommit \/ ForwardAbort
               \/ \E o \in Objs : JobEnds(o) \/ ReadyAges(o)
               \/ GCSelect \/ SweepError \/ Crash \/ UNCHANGED vars
        PROVE  UNCHANGED <<row, rowContent>>
    BY <1>4 DEF CompleteUpload, ReconcileStaging, LeaseAges, BindUpload,
       RemoveAttachment, DeleteMessage, ForwardRead, ForwardCommit, ForwardAbort,
       JobEnds, ReadyAges, GCSelect, SweepError, Crash, rowVars, vars
  <1>. QED
    BY <1>1, <1>2, <1>3, <1>4 DEF Next

\* The sum does not grow with the rows.
LEMMA RowsKeptAccounted ==
  ASSUME Accounted, RowsKept
  PROVE  Accounted'
  <1>1. IsFiniteSet(LiveObjs')
    BY FS_Subset DEF Accounted, RowsKept
  <1>2. \A o \in LiveObjs' : rowContent'[o] \in Contents
    BY DEF Accounted, RowsKept
  <1>3. \A o \in LiveObjs' : RowSize'[o] = RowSize[o]
    BY DEF RowsKept, RowSize
  <1>4. StorageUsed' = SumOver(RowSize, LiveObjs')
    BY <1>1, <1>3, SumSameWeights DEF StorageUsed
  <1>5. SumOver(RowSize, LiveObjs') <= StorageUsed
    BY RowsWeigh, SumMonotonic DEF StorageUsed, Accounted, RowsKept
  <1>6. SumOver(RowSize, LiveObjs') \in Nat
    <2>1. Weighs(RowSize, LiveObjs')
      BY RowsWeigh DEF Weighs, RowsKept
    <2>. QED
      BY <1>1, <2>1, SumNat
  <1>7. StorageUsed' <= MaxStorage
    BY <1>4, <1>5, <1>6, RowsWeigh, BoundsAssumption DEF Accounted, QuotaRespected
  <1>. QED
    BY <1>1, <1>2, <1>7 DEF Accounted, QuotaRespected

\* The new row adds its size, which the transaction has compared with the limit.
LEMMA NewRowAccounted ==
  ASSUME IInv, Accounted, NEW o \in Objs, NEW c \in Contents, NewRow(o, c)
  PROVE  Accounted'
  <1>1. o \notin LiveObjs /\ LiveObjs' = LiveObjs \union {o}
    BY DEF NewRow, LiveObjs, LiveRow, IInv, TypeOK
  <1>2. IsFiniteSet(LiveObjs')
    BY <1>1, FS_AddElement DEF Accounted
  <1>3. rowContent'[o] = c /\ \A x \in LiveObjs : rowContent'[x] = rowContent[x]
    BY <1>1 DEF NewRow, IInv, TypeOK, LiveObjs
  <1>4. \A x \in LiveObjs' : rowContent'[x] \in Contents
    BY <1>1, <1>3 DEF Accounted
  <1>5. /\ RowSize'[o] = SizeOf[c] /\ SizeOf[c] \in Nat
        /\ \A x \in LiveObjs : RowSize'[x] = RowSize[x] /\ RowSize[x] \in Nat
    BY <1>1, <1>3, <1>4, RowsWeigh, ContentsAssumption DEF RowSize, Weighs
  <1>6. Weighs(RowSize', LiveObjs \union {o})
    BY <1>5 DEF Weighs
  <1>7. StorageUsed' = SumOver(RowSize', LiveObjs) + SizeOf[c]
    BY <1>1, <1>5, <1>6, SumAdd DEF StorageUsed, Accounted
  <1>8. SumOver(RowSize', LiveObjs) = StorageUsed
    BY <1>5, SumSameWeights DEF StorageUsed, Accounted
  <1>9. StorageUsed' <= MaxStorage
    BY <1>7, <1>8 DEF NewRow, WithinQuota
  <1>. QED
    BY <1>2, <1>4, <1>9 DEF Accounted, QuotaRespected

\* PENDING, READY and DELETING rows never add up to more than
\* max_storage_bytes, however many finalizers reserve at the same time.
THEOREM QuotaHolds == Spec => []QuotaRespected
  <1>1. Init => Accounted
    <2>. SUFFICES ASSUME Init PROVE Accounted
      OBVIOUS
    <2>1. LiveObjs = {}
      BY DEF Init, LiveObjs, LiveRow
    <2>2. StorageUsed = 0
      BY <2>1, SumEmpty DEF StorageUsed
    <2>. QED
      BY <2>1, <2>2, FS_EmptySet, BoundsAssumption DEF Accounted, QuotaRespected
  <1>2. IInv /\ Accounted /\ [Next]_vars => Accounted'
    <2>. SUFFICES ASSUME IInv, Accounted, [Next]_vars PROVE Accounted'
      OBVIOUS
    <2>1. CASE RowsKept
      BY <2>1, RowsKeptAccounted
    <2>2. ASSUME NEW o \in Objs, NEW u \in Uploads, NewRow(o, ContentOf[u])
          PROVE  Accounted'
      BY <2>2, NewRowAccounted, ContentsAssumption
    <2>. QED
      BY <2>1, <2>2, NextRows
  <1>3. Accounted => QuotaRespected
    BY DEF Accounted
  <1>. QED
    BY <1>1, <1>2, <1>3, Invariance, PTL DEF Spec
=============================================================================
