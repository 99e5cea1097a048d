------------------------ MODULE UploadSessionsProofs ------------------------
(* Invariance proofs for UploadSessions, for any number of uploads, parts    *)
(* and concurrent requests.                                                  *)
EXTENDS UploadSessions, SumsProofs, TLAPS

(* The inductive invariant.  The locks are not variables, so what a request  *)
(* or a pass may rely on while it holds one has to be said.                  *)

\* Under the chunk lock a session neither leaves CREATED and UPLOADING nor is
\* it being completed.
PutsValid ==
    \A r \in Puts : put[r].pc # "none" =>
        /\ put[r].u \in known /\ put[r].p \in PartsOf[put[r].u]
        /\ status[put[r].u] \in Open
        /\ cpPc[put[r].u] = "idle"

\* One request at a time has the mutex of a part.
PartMutex ==
    \A q, r \in Puts :
        q # r /\ put[q].pc # "none" /\ put[r].pc # "none"
            => put[q].u # put[r].u \/ put[q].p # put[r].p

\* A part that is being written has no marker until its bytes are synced.
Written ==
    \A r \in Puts :
        /\ put[r].pc \in {"open", "copy", "sync", "commit"}
              => put[r].p \notin marker[put[r].u]
        /\ put[r].pc = "sync" => data[put[r].u][put[r].p] \in {"dirty", "synced"}
        /\ put[r].pc = "commit" => data[put[r].u][put[r].p] = "synced"

\* How far the status and the bytes are at each step of Complete.
CompleteStage ==
    \A u \in Uploads :
        /\ cpPc[u] = "transition" => status[u] \in Open
        /\ cpPc[u] = "finalize" => status[u] = "COMPLETING"
        /\ cpPc[u] = "unstage" => status[u] = "COMPLETED"
        /\ cpPc[u] = "transition" \/ status[u] = "COMPLETING"
              => \A p \in PartsOf[u] : data[u][p] = "synced"

\* An upload that is being created has no row, no client and no parts.
Creating ==
    \A u \in Uploads :
        /\ pc[u] \notin {"idle", "undo"} => status[u] = "ABSENT"
        /\ pc[u] # "idle" => u \notin known
        /\ pc[u] = "insert" => u \in staged
        /\ u \in known => status[u] # "ABSENT"
        /\ u \notin known => marker[u] = {}

\* What a pass has listed for removal stays removable.
Lists ==
    \A a \in Owners :
        /\ pc[a] \in {"clean", "parts"} =>
              \A u \in todo[a] : status[u] = "EXPIRED"
        /\ pc[a] = "recon" => \A u \in todo[a] : status[u] \notin Active
        /\ pc[a] = "parts" => hold[a] # None
        /\ hold[a] # None => status[hold[a]] = "EXPIRED"

\* stagingLife: no Create is inside its reservation during ReconcileStaging.
LifeExclusive ==
    \A u \in Uploads, a \in Owners :
        pc[u] \in {"mkfile", "insert", "undo"} => pc[a] \notin {"active", "recon"}

IInv == /\ TypeOK /\ PutsValid /\ PartMutex /\ Written /\ MarkersDurable
        /\ KnownHasStaging /\ CompleteStage /\ Creating /\ Lists
        /\ LifeExclusive

----------------------------------------------------------------------------
(* One lemma per action: the steps are the parts of IInv that it can disturb *)
(* and, last, those whose variables it leaves alone.                         *)

\* A PutPart that goes on keeps its upload and part; one that ends is NoPut.
LEMMA PutTypes ==
  ASSUME TypeOK, NEW r \in Puts, NEW q \in PutPc,
         (put[r].pc # "none" /\ PutGoto(r, q)) \/ PutReturn(r)
  PROVE  put' \in [Puts -> [pc : PutPc, u : Uploads, p : Parts] \cup {NoPut}]
  <1>. DEFINE Rec == [pc : PutPc, u : Uploads, p : Parts]
  <1>1. CASE put[r].pc # "none" /\ PutGoto(r, q)
    <2>1. put \in [Puts -> Rec \cup {NoPut}]
      BY DEF TypeOK
    <2>2. put[r] \in Rec
      BY <1>1, <2>1 DEF NoPut
    <2>3. [put[r] EXCEPT !.pc = q] \in Rec
      BY <2>2
    <2>. QED
      BY <1>1, <2>1, <2>3 DEF PutGoto
  <1>2. CASE PutReturn(r)
    BY <1>2 DEF PutReturn, TypeOK
  <1>. QED
    BY <1>1, <1>2

\* What the requests rely on is left alone by a step that touches neither the
\* rows nor the bytes nor the requests.
LEMMA RequestsKept ==
  ASSUME IInv, UNCHANGED <<status, marker, data, known, put, cpPc>>
  PROVE  /\ PutsValid' /\ PartMutex' /\ Written' /\ CompleteStage'
         /\ staged' = staged => MarkersDurable' /\ KnownHasStaging'
  <1>1. PutsValid /\ PartMutex /\ Written /\ CompleteStage /\ MarkersDurable /\ KnownHasStaging
    BY DEF IInv
  <1>2. PutsValid'
    BY <1>1 DEF PutsValid
  <1>3. PartMutex'
    BY <1>1 DEF PartMutex
  <1>4. Written'
    BY <1>1 DEF Written
  <1>5. CompleteStage'
    BY <1>1 DEF CompleteStage
  <1>6. staged' = staged => MarkersDurable' /\ KnownHasStaging'
    BY <1>1 DEF MarkersDurable, KnownHasStaging
  <1>. QED
    BY <1>2, <1>3, <1>4, <1>5, <1>6

\* What the passes and Creates rely on is left alone by a step of a request
\* that changes no status.
LEMMA PassesKept ==
  ASSUME IInv, UNCHANGED <<status, known, pc, todo, hold>>
  PROVE  Lists' /\ LifeExclusive' /\ (UNCHANGED <<marker, staged>> => Creating')
  <1>1. Lists /\ LifeExclusive /\ Creating
    BY DEF IInv
  <1>2. Lists'
    BY <1>1 DEF Lists
  <1>3. LifeExclusive'
    BY <1>1 DEF LifeExclusive
  <1>4. UNCHANGED <<marker, staged>> => Creating'
    BY <1>1 DEF Creating
  <1>. QED
    BY <1>2, <1>3, <1>4

\* A PutPart that goes on.
LEMMA PutMoves ==
  ASSUME TypeOK, NEW r \in Puts, NEW q \in PutPc, put[r].pc # "none", PutGoto(r, q)
  PROVE  /\ put[r].u \in Uploads /\ put[r].p \in Parts
         /\ put'[r].pc = q /\ put'[r].u = put[r].u /\ put'[r].p = put[r].p
         /\ \A x \in Puts \ {r} : put'[x] = put[x]
  <1>. DEFINE Rec == [pc : PutPc, u : Uploads, p : Parts]
  <1>1. put \in [Puts -> Rec \cup {NoPut}]
    BY DEF TypeOK
  <1>2. put[r] \in Rec
    BY <1>1 DEF NoPut
  <1>3. put'[r] = [put[r] EXCEPT !.pc = q] /\ \A x \in Puts \ {r} : put'[x] = put[x]
    BY <1>1 DEF PutGoto
  <1>. QED
    BY <1>2, <1>3

\* The empty database and the empty staging directory satisfy the invariant.
LEMMA InitIInv == Init => IInv
  <1>. SUFFICES ASSUME Init PROVE IInv
    OBVIOUS
  <1>. USE DEF Init, Owners
  <1>1. TypeOK
    <2>1. put \in [Puts -> [pc : PutPc, u : Uploads, p : Parts] \cup {NoPut}]
      OBVIOUS
    <2>2. left \in [Owners -> 0 .. Batch]
      BY LimitsAssumption
    <2>3. pc \in [Owners -> {"idle"} \cup PassPc \cup CreatePc]
      BY DEF PassPc
    <2>4. /\ status \in [Uploads -> Status]
          /\ data \in [Uploads -> [Parts -> PartState]]
          /\ cpPc \in [Uploads -> CpPc]
      BY DEF Status, PartState, CpPc
    <2>. QED
      BY <2>1, <2>2, <2>3, <2>4 DEF TypeOK
  <1>2. PutsValid /\ PartMutex /\ Written /\ MarkersDurable /\ KnownHasStaging
    BY DEF PutsValid, PartMutex, Written, MarkersDurable, KnownHasStaging, NoPut
  <1>3. CompleteStage /\ Creating /\ Lists /\ LifeExclusive
    BY UploadsAssumption DEF CompleteStage, Creating, Lists, LifeExclusive
  <1>. QED
    BY <1>1, <1>2, <1>3 DEF IInv

\* Create begins with an expiry pass and has touched nothing.
LEMMA CreateKeeps ==
  ASSUME IInv, NEW u \in Uploads, Create(u)
  PROVE  IInv'
  <1>. USE DEF IInv, TypeOK, Create, Goto, Owners, rowVars, diskVars, procVars
  <1>1. TypeOK'
    BY DEF PassPc
  <1>2. Creating'
    BY DEF Creating
  <1>3. Lists'
    BY DEF Lists
  <1>4. LifeExclusive'
    BY DEF LifeExclusive
  <1>5. /\ PutsValid' /\ PartMutex' /\ Written' /\ MarkersDurable'
        /\ KnownHasStaging' /\ CompleteStage'
    <2>1. UNCHANGED <<status, marker, data, known, put, cpPc, staged>>
      OBVIOUS
    <2>. HIDE DEF IInv, TypeOK, Create, Goto, Owners, rowVars, diskVars, procVars
    <2>. QED
      BY <2>1, RequestsKept
  <1>. QED
    BY <1>1, <1>2, <1>3, <1>4, <1>5

\* The reservation takes stagingLife only while no ReconcileStaging has it.
LEMMA ReserveKeeps ==
  ASSUME IInv, NEW u \in Uploads, Reserve(u)
  PROVE  IInv'
  <1>. USE DEF IInv, TypeOK, Reserve, LifeWrite, ReservationFree, Goto,
               Owners, rowVars, diskVars, procVars
  <1>1. TypeOK'
    BY DEF CreatePc
  <1>2. Creating'
    BY DEF Creating
  <1>3. Lists'
    BY DEF Lists
  <1>4. LifeExclusive'
    BY DEF LifeExclusive
  <1>5. /\ PutsValid' /\ PartMutex' /\ Written' /\ MarkersDurable'
        /\ KnownHasStaging' /\ CompleteStage'
    <2>1. UNCHANGED <<status, marker, data, known, put, cpPc, staged>>
      OBVIOUS
    <2>. HIDE DEF IInv, TypeOK, Reserve, LifeWrite, ReservationFree, Goto,
               Owners, rowVars, diskVars, procVars
    <2>. QED
      BY <2>1, RequestsKept
  <1>. QED
    BY <1>1, <1>2, <1>3, <1>4, <1>5

\* The staging file exists before the row does.
LEMMA MakeFileKeeps ==
  ASSUME IInv, NEW u \in Uploads, MakeFile(u)
  PROVE  IInv'
  <1>. USE DEF IInv, TypeOK, MakeFile, Goto, Owners, rowVars, procVars
  <1>1. TypeOK'
    BY DEF CreatePc
  <1>2. MarkersDurable'
    BY DEF MarkersDurable
  <1>3. KnownHasStaging'
    BY DEF KnownHasStaging
  <1>4. Creating'
    BY DEF Creating
  <1>5. Lists'
    BY DEF Lists
  <1>6. LifeExclusive'
    BY DEF LifeExclusive
  <1>7. PutsValid' /\ PartMutex' /\ Written' /\ CompleteStage'
    <2>1. UNCHANGED <<status, marker, data, known, put, cpPc>>
      OBVIOUS
    <2>. HIDE DEF IInv, TypeOK, MakeFile, Goto, Owners, rowVars, procVars
    <2>. QED
      BY <2>1, RequestsKept
  <1>. QED
    BY <1>1, <1>2, <1>3, <1>4, <1>5, <1>6, <1>7

\* The row appears with its staging file, and no pass has listed the file as
\* an orphan.
LEMMA InsertKeeps ==
  ASSUME IInv, NEW u \in Uploads, Insert(u)
  PROVE  IInv'
  <1>. USE DEF IInv, TypeOK, Insert, Goto, Owners, diskVars, procVars
  <1>1. TypeOK'
    BY DEF Status, Active, Open
  <1>2. PutsValid'
    BY DEF PutsValid, Open
  <1>3. MarkersDurable'
    BY DEF MarkersDurable, Creating
  <1>4. KnownHasStaging'
    BY DEF KnownHasStaging, Creating
  <1>5. CompleteStage'
    BY DEF CompleteStage, Creating, Lists, Open
  <1>6. Creating'
    BY DEF Creating
  <1>7. Lists'
    <2>1. /\ status[u] = "ABSENT"
          /\ \A a \in Owners : pc[a] \notin {"active", "recon"}
      BY DEF Creating, LifeExclusive
    <2>2. \A v \in Uploads : v # u => status'[v] = status[v]
      OBVIOUS
    <2>3. \A a \in Owners : pc'[a] = pc[a] \/ pc'[a] = "idle"
      OBVIOUS
    <2>4. \A a \in Owners :
            todo[a] \subseteq Uploads /\ hold[a] \in Uploads \cup {None}
      OBVIOUS
    <2>. HIDE DEF IInv, TypeOK, Insert
    <2>5. todo' = todo /\ hold' = hold /\ Lists
      BY DEF Insert, IInv
    <2>. QED
      BY <2>1, <2>2, <2>3, <2>4, <2>5 DEF Lists
  <1>8. LifeExclusive'
    BY DEF LifeExclusive
  <1>9. PartMutex' /\ Written'
    BY DEF PartMutex, Written
  <1>. QED
    BY <1>1, <1>2, <1>3, <1>4, <1>5, <1>6, <1>7, <1>8, <1>9

\* A row that was committed although the commit failed is known to nobody.
LEMMA InsertErrorKeeps ==
  ASSUME IInv, NEW u \in Uploads, InsertError(u)
  PROVE  IInv'
  <1>. USE DEF IInv, TypeOK, InsertError, Goto, Owners, diskVars
  <1>1. TypeOK'
    BY DEF Status, Active, Open, CreatePc
  <1>2. PutsValid'
    BY DEF PutsValid, Open
  <1>3. MarkersDurable'
    BY DEF MarkersDurable, Creating
  <1>4. KnownHasStaging'
    BY DEF KnownHasStaging, Creating
  <1>5. CompleteStage'
    BY DEF CompleteStage, Creating, Open
  <1>6. Creating'
    BY DEF Creating
  <1>7. Lists'
    <2>1. /\ status[u] = "ABSENT"
          /\ \A a \in Owners : pc[a] \notin {"active", "recon"}
      BY DEF Creating, LifeExclusive
    <2>2. \A v \in Uploads : v # u => status'[v] = status[v]
      OBVIOUS
    <2>3. \A a \in Owners : pc'[a] = pc[a] \/ pc'[a] = "undo"
      OBVIOUS
    <2>4. \A a \in Owners :
            todo[a] \subseteq Uploads /\ hold[a] \in Uploads \cup {None}
      OBVIOUS
    <2>. HIDE DEF IInv, TypeOK, InsertError
    <2>5. todo' = todo /\ hold' = hold /\ Lists
      BY DEF InsertError, IInv
    <2>. QED
      BY <2>1, <2>2, <2>3, <2>4, <2>5 DEF Lists
  <1>8. LifeExclusive'
    BY DEF LifeExclusive
  <1>9. PartMutex' /\ Written'
    BY DEF PartMutex, Written
  <1>. QED
    BY <1>1, <1>2, <1>3, <1>4, <1>5, <1>6, <1>7, <1>8, <1>9

\* The staging file that is removed belongs to an upload no client knows.
LEMMA UndoCreateKeeps ==
  ASSUME IInv, NEW u \in Uploads, UndoCreate(u)
  PROVE  IInv'
  <1>. USE DEF IInv, TypeOK, UndoCreate, Goto, Owners, rowVars, procVars
  <1>1. TypeOK'
    OBVIOUS
  <1>2. MarkersDurable'
    BY DEF MarkersDurable, Creating
  <1>3. KnownHasStaging'
    BY DEF KnownHasStaging, Creating
  <1>4. Creating'
    BY DEF Creating
  <1>5. Lists'
    BY DEF Lists
  <1>6. LifeExclusive'
    BY DEF LifeExclusive
  <1>7. PutsValid' /\ PartMutex' /\ Written' /\ CompleteStage'
    <2>1. UNCHANGED <<status, marker, data, known, put, cpPc>>
      OBVIOUS
    <2>. HIDE DEF IInv, TypeOK, UndoCreate, Goto, Owners, rowVars, procVars
    <2>. QED
      BY <2>1, RequestsKept
  <1>. QED
    BY <1>1, <1>2, <1>3, <1>4, <1>5, <1>6, <1>7

\* PutPart starts on an open session, alone with its part.
LEMMA PutPartKeeps ==
  ASSUME IInv, NEW r \in Puts, NEW u \in Uploads, NEW p \in Parts,
         PutPart(r, u, p)
  PROVE  IInv'
  <1>. USE DEF IInv, TypeOK, PutPart, ChunkFree, ExclusiveHeld, PutsOn,
               Owners, rowVars, diskVars, passVars, procVars
  <1>1. TypeOK'
    BY DEF PutPc
  <1>2. PutsValid'
    BY DEF PutsValid
  <1>3. PartMutex'
    BY DEF PartMutex
  <1>4. Written'
    BY DEF Written
  <1>5. /\ MarkersDurable' /\ KnownHasStaging' /\ CompleteStage' /\ Creating'
        /\ Lists' /\ LifeExclusive'
    BY DEF MarkersDurable, KnownHasStaging, CompleteStage, Creating, Lists,
       LifeExclusive
  <1>. QED
    BY <1>1, <1>2, <1>3, <1>4, <1>5

\* Removing a marker harms no other part.
LEMMA InvalidatePartKeeps ==
  ASSUME IInv, NEW r \in Puts, InvalidatePart(r)
  PROVE  IInv'
  <1>. USE DEF IInv, TypeOK, InvalidatePart, PutGoto, Owners, diskVars,
               passVars, procVars
  <1>1. TypeOK'
    <2>1. put' \in [Puts -> [pc : PutPc, u : Uploads, p : Parts] \cup {NoPut}]
      BY PutTypes DEF PutPc
    <2>. QED
      BY <2>1
  <1>2. PutsValid'
    BY DEF PutsValid
  <1>3. PartMutex'
    BY DEF PartMutex
  <1>4. Written'
    BY DEF Written, NoPut
  <1>5. MarkersDurable'
    BY DEF MarkersDurable
  <1>6. Creating'
    BY DEF Creating
  <1>7. KnownHasStaging' /\ CompleteStage' /\ Lists' /\ LifeExclusive'
    BY DEF KnownHasStaging, CompleteStage, Lists, LifeExclusive
  <1>. QED
    BY <1>1, <1>2, <1>3, <1>4, <1>5, <1>6, <1>7

\* The part whose bytes are overwritten has no marker.
LEMMA OpenAndWriteKeeps ==
  ASSUME IInv, NEW r \in Puts, OpenAndWrite(r)
  PROVE  IInv'
  <1>. USE DEF IInv, TypeOK, OpenAndWrite, PutGoto, Owners, rowVars, passVars,
               procVars
  <1>1. TypeOK'
    <2>1. put' \in [Puts -> [pc : PutPc, u : Uploads, p : Parts] \cup {NoPut}]
      BY PutTypes DEF PutPc
    <2>. QED
      BY <2>1 DEF PartState
  <1>2. /\ put[r].pc = "open" /\ PutGoto(r, "copy") /\ "copy" \in PutPc
        /\ UNCHANGED <<status, marker, staged, known, pc, todo, hold, cpPc>>
    BY DEF PutPc
  <1>. HIDE DEF IInv, TypeOK, OpenAndWrite, PutGoto, Owners, rowVars, passVars, procVars
  <1>3. PICK v, p : v = put[r].u /\ p = put[r].p
    OBVIOUS
  <1>4. /\ v \in Uploads /\ p \in Parts
        /\ put'[r].pc = "copy" /\ put'[r].u = v /\ put'[r].p = p
        /\ \A x \in Puts \ {r} : put'[x] = put[x]
    BY <1>2, <1>3, PutMoves DEF IInv
  <1>5. /\ data'[v][p] = "torn"
        /\ \A w \in Uploads, x \in Parts : w # v \/ x # p => data'[w][x] = data[w][x]
    BY <1>3, <1>4 DEF OpenAndWrite, IInv, TypeOK
  <1>6. PutsValid /\ PartMutex /\ Written /\ MarkersDurable /\ KnownHasStaging /\ CompleteStage
    BY DEF IInv
  <1>7. PutsValid'
    BY <1>2, <1>3, <1>4, <1>6 DEF PutsValid
  <1>8. PartMutex'
    BY <1>2, <1>3, <1>4, <1>6 DEF PartMutex
  <1>9. Written'
    <2>. SUFFICES ASSUME NEW x \in Puts
                  PROVE  /\ put'[x].pc \in {"open", "copy", "sync", "commit"}
                               => put'[x].p \notin marker[put'[x].u]
                         /\ put'[x].pc = "sync"
                               => data'[put'[x].u][put'[x].p] \in {"dirty", "synced"}
                         /\ put'[x].pc = "commit" => data'[put'[x].u][put'[x].p] = "synced"
      BY <1>2 DEF Written
    <2>1. CASE x = r
      BY <1>2, <1>3, <1>4, <1>5, <1>6, <2>1 DEF Written
    <2>2. CASE x # r /\ put[x].pc # "none"
      <3>1. /\ put'[x] = put[x] /\ put[x].u \in Uploads /\ put[x].p \in Parts
            /\ (put[x].u # v \/ put[x].p # p)
        <4>1. put[x] \in [pc : PutPc, u : Uploads, p : Parts]
          BY <2>2 DEF IInv, TypeOK, NoPut
        <4>. QED
          BY <1>2, <1>3, <1>4, <1>6, <2>2, <4>1 DEF PartMutex
      <3>. QED
        BY <1>5, <1>6, <3>1 DEF Written
    <2>3. CASE x # r /\ put[x].pc = "none"
      BY <1>4, <2>3
    <2>. QED
      BY <2>1, <2>2, <2>3
  <1>10. MarkersDurable'
    <2>1. p \notin marker[v] /\ marker \in [Uploads -> SUBSET Parts] /\ known \subseteq Uploads
      BY <1>2, <1>3, <1>6 DEF Written, IInv, TypeOK
    <2>. QED
      BY <1>2, <1>5, <1>6, <2>1 DEF MarkersDurable
  <1>11. CompleteStage'
    <2>1. cpPc[v] = "idle" /\ status[v] # "COMPLETING"
      BY <1>2, <1>3, <1>6 DEF PutsValid, Open
    <2>2. \A w \in Uploads : PartsOf[w] \subseteq Parts
      BY UploadsAssumption
    <2>. QED
      BY <1>2, <1>5, <1>6, <2>1, <2>2 DEF CompleteStage
  <1>12. KnownHasStaging' /\ Creating' /\ Lists' /\ LifeExclusive'
    BY <1>2, <1>6, PassesKept DEF KnownHasStaging
  <1>. QED
    BY <1>1, <1>7, <1>8, <1>9, <1>10, <1>11, <1>12 DEF IInv

\* The part whose bytes arrive has no marker yet.
LEMMA CopyPartKeeps ==
  ASSUME IInv, NEW r \in Puts, CopyPart(r)
  PROVE  IInv'
  <1>. USE DEF IInv, TypeOK, CopyPart, PutGoto, Owners, rowVars, passVars,
               procVars
  <1>1. TypeOK'
    <2>1. put' \in [Puts -> [pc : PutPc, u : Uploads, p : Parts] \cup {NoPut}]
      BY PutTypes DEF PutPc
    <2>. QED
      BY <2>1 DEF PartState
  <1>2. /\ put[r].pc = "copy" /\ PutGoto(r, "sync") /\ "sync" \in PutPc
        /\ UNCHANGED <<status, marker, staged, known, pc, todo, hold, cpPc>>
    BY DEF PutPc
  <1>. HIDE DEF IInv, TypeOK, CopyPart, PutGoto, Owners, rowVars, passVars, procVars
  <1>3. PICK v, p : v = put[r].u /\ p = put[r].p
    OBVIOUS
  <1>4. /\ v \in Uploads /\ p \in Parts
        /\ put'[r].pc = "sync" /\ put'[r].u = v /\ put'[r].p = p
        /\ \A x \in Puts \ {r} : put'[x] = put[x]
    BY <1>2, <1>3, PutMoves DEF IInv
  <1>5. /\ data'[v][p] = "dirty"
        /\ \A w \in Uploads, x \in Parts : w # v \/ x # p => data'[w][x] = data[w][x]
    BY <1>3, <1>4 DEF CopyPart, IInv, TypeOK
  <1>6. PutsValid /\ PartMutex /\ Written /\ MarkersDurable /\ KnownHasStaging /\ CompleteStage
    BY DEF IInv
  <1>7. PutsValid'
    BY <1>2, <1>3, <1>4, <1>6 DEF PutsValid
  <1>8. PartMutex'
    BY <1>2, <1>3, <1>4, <1>6 DEF PartMutex
  <1>9. Written'
    <2>. SUFFICES ASSUME NEW x \in Puts
                  PROVE  /\ put'[x].pc \in {"open", "copy", "sync", "commit"}
                               => put'[x].p \notin marker[put'[x].u]
                         /\ put'[x].pc = "sync"
                               => data'[put'[x].u][put'[x].p] \in {"dirty", "synced"}
                         /\ put'[x].pc = "commit" => data'[put'[x].u][put'[x].p] = "synced"
      BY <1>2 DEF Written
    <2>1. CASE x = r
      BY <1>2, <1>3, <1>4, <1>5, <1>6, <2>1 DEF Written
    <2>2. CASE x # r /\ put[x].pc # "none"
      <3>1. /\ put'[x] = put[x] /\ put[x].u \in Uploads /\ put[x].p \in Parts
            /\ (put[x].u # v \/ put[x].p # p)
        <4>1. put[x] \in [pc : PutPc, u : Uploads, p : Parts]
          BY <2>2 DEF IInv, TypeOK, NoPut
        <4>. QED
          BY <1>2, <1>3, <1>4, <1>6, <2>2, <4>1 DEF PartMutex
      <3>. QED
        BY <1>5, <1>6, <3>1 DEF Written
    <2>3. CASE x # r /\ put[x].pc = "none"
      BY <1>4, <2>3
    <2>. QED
      BY <2>1, <2>2, <2>3
  <1>10. MarkersDurable'
    <2>1. p \notin marker[v] /\ marker \in [Uploads -> SUBSET Parts] /\ known \subseteq Uploads
      BY <1>2, <1>3, <1>6 DEF Written, IInv, TypeOK
    <2>. QED
      BY <1>2, <1>5, <1>6, <2>1 DEF MarkersDurable
  <1>11. CompleteStage'
    <2>1. cpPc[v] = "idle" /\ status[v] # "COMPLETING"
      BY <1>2, <1>3, <1>6 DEF PutsValid, Open
    <2>2. \A w \in Uploads : PartsOf[w] \subseteq Parts
      BY UploadsAssumption
    <2>. QED
      BY <1>2, <1>5, <1>6, <2>1, <2>2 DEF CompleteStage
  <1>12. KnownHasStaging' /\ Creating' /\ Lists' /\ LifeExclusive'
    BY <1>2, <1>6, PassesKept DEF KnownHasStaging
  <1>. QED
    BY <1>1, <1>7, <1>8, <1>9, <1>10, <1>11, <1>12 DEF IInv

\* fsync completes the part and damages no other.
LEMMA SyncPartKeeps ==
  ASSUME IInv, NEW r \in Puts, SyncPart(r)
  PROVE  IInv'
  <1>. USE DEF IInv, TypeOK, SyncPart, PutGoto, Synced, Owners, rowVars,
               passVars, procVars
  <1>1. TypeOK'
    <2>1. put' \in [Puts -> [pc : PutPc, u : Uploads, p : Parts] \cup {NoPut}]
      BY PutTypes DEF PutPc
    <2>. QED
      BY <2>1 DEF PartState
  <1>2. /\ put[r].pc = "sync" /\ PutGoto(r, "commit") /\ "commit" \in PutPc
        /\ UNCHANGED <<status, marker, staged, known, pc, todo, hold, cpPc>>
    BY DEF PutPc
  <1>. HIDE DEF IInv, TypeOK, SyncPart, PutGoto, Synced, Owners, rowVars, passVars, procVars
  <1>3. PICK v, p : v = put[r].u /\ p = put[r].p
    OBVIOUS
  <1>4. /\ v \in Uploads /\ p \in Parts
        /\ put'[r].pc = "commit" /\ put'[r].u = v /\ put'[r].p = p
        /\ \A x \in Puts \ {r} : put'[x] = put[x]
    BY <1>2, <1>3, PutMoves DEF IInv
  <1>5. \A w \in Uploads, x \in Parts :
            /\ data[w][x] = "synced" => data'[w][x] = "synced"
            /\ data[w][x] = "dirty" => data'[w][x] \in {"dirty", "synced"}
            /\ w = v /\ data[w][x] = "dirty" => data'[w][x] = "synced"
    <2>1. data \in [Uploads -> [Parts -> PartState]] /\ data' = [data EXCEPT ![v] = Synced(v)]
      BY <1>3 DEF SyncPart, IInv, TypeOK
    <2>2. \A x \in Parts :
             Synced(v)[x] = IF data[v][x] = "dirty" THEN "synced" ELSE data[v][x]
      BY DEF Synced
    <2>. HIDE DEF Synced
    <2>. QED
      BY <1>4, <2>1, <2>2
  <1>6. PutsValid /\ PartMutex /\ Written /\ MarkersDurable /\ KnownHasStaging /\ CompleteStage
    BY DEF IInv
  <1>7. PutsValid'
    BY <1>2, <1>3, <1>4, <1>6 DEF PutsValid
  <1>8. PartMutex'
    BY <1>2, <1>3, <1>4, <1>6 DEF PartMutex
  <1>9. Written'
    <2>. SUFFICES ASSUME NEW x \in Puts
                  PROVE  /\ put'[x].pc \in {"open", "copy", "sync", "commit"}
                               => put'[x].p \notin marker[put'[x].u]
                         /\ put'[x].pc = "sync"
                               => data'[put'[x].u][put'[x].p] \in {"dirty", "synced"}
                         /\ put'[x].pc = "commit" => data'[put'[x].u][put'[x].p] = "synced"
      BY <1>2 DEF Written
    <2>1. CASE x = r
      BY <1>2, <1>3, <1>4, <1>5, <1>6, <2>1 DEF Written
    <2>2. CASE x # r /\ put[x].pc # "none"
      <3>1. put'[x] = put[x] /\ put[x].u \in Uploads /\ put[x].p \in Parts
        <4>1. put[x] \in [pc : PutPc, u : Uploads, p : Parts]
          BY <2>2 DEF IInv, TypeOK, NoPut
        <4>. QED
          BY <1>4, <2>2, <4>1
      <3>. QED
        BY <1>5, <1>6, <3>1 DEF Written
    <2>3. CASE x # r /\ put[x].pc = "none"
      BY <1>4, <2>3
    <2>. QED
      BY <2>1, <2>2, <2>3
  <1>10. MarkersDurable'
    <2>1. marker \in [Uploads -> SUBSET Parts] /\ known \subseteq Uploads
      BY DEF IInv, TypeOK
    <2>. QED
      BY <1>2, <1>5, <1>6, <2>1 DEF MarkersDurable
  <1>11. CompleteStage'
    <2>1. \A w \in Uploads : PartsOf[w] \subseteq Parts
      BY UploadsAssumption
    <2>. QED
      BY <1>2, <1>5, <1>6, <2>1 DEF CompleteStage
  <1>12. KnownHasStaging' /\ Creating' /\ Lists' /\ LifeExclusive'
    BY <1>2, <1>6, PassesKept DEF KnownHasStaging
  <1>. QED
    BY <1>1, <1>7, <1>8, <1>9, <1>10, <1>11, <1>12 DEF IInv

\* The marker is set on bytes that are synced, under the chunk lock.
LEMMA CommitPartKeeps ==
  ASSUME IInv, NEW r \in Puts, CommitPart(r)
  PROVE  IInv'
  <1>1. PICK v, p : v = put[r].u /\ p = put[r].p
    OBVIOUS
  <1>2. /\ PutsValid /\ PartMutex /\ Written /\ MarkersDurable /\ KnownHasStaging
        /\ CompleteStage /\ Creating /\ Lists /\ LifeExclusive /\ TypeOK
    BY DEF IInv
  <1>3. /\ put[r].pc = "commit" /\ PutReturn(r)
        /\ UNCHANGED <<due, staged, data, known, pc, todo, hold, left, cpPc, serving,
                       crashes, faults>>
    BY DEF CommitPart, diskVars, passVars, procVars
  <1>4. v \in known /\ v \in Uploads /\ p \in Parts /\ status[v] \in Open /\ cpPc[v] = "idle"
    <2>1. put[r] \in [pc : PutPc, u : Uploads, p : Parts]
      BY <1>2, <1>3 DEF TypeOK, NoPut
    <2>. QED
      BY <1>1, <1>2, <1>3, <2>1 DEF PutsValid
  <1>5. \/ UNCHANGED <<status, marker>>
        \/ /\ status' = [status EXCEPT ![v] = "UPLOADING"]
           /\ marker' = [marker EXCEPT ![v] = marker[v] \cup {p}]
    BY <1>1 DEF CommitPart, UpsertCompletedPart
  <1>6. /\ marker' \in [Uploads -> SUBSET Parts]
        /\ \A w \in Uploads, x \in Parts :
              x \in marker'[w] => x \in marker[w] \/ (w = v /\ x = p)
    <2>1. marker \in [Uploads -> SUBSET Parts]
      BY <1>2 DEF TypeOK
    <2>. QED
      BY <1>4, <1>5, <2>1
  <1>7. /\ status' \in [Uploads -> Status]
        /\ \A w \in Uploads : status'[w] = status[w] \/ (w = v /\ status'[w] = "UPLOADING")
    BY <1>2, <1>4, <1>5 DEF TypeOK, Status, Active, Open
  <1>8. put'[r].pc = "none" /\ \A x \in Puts \ {r} : put'[x] = put[x]
    BY <1>2, <1>3 DEF TypeOK, PutReturn, NoPut
  <1>9. TypeOK'
    <2>1. put' \in [Puts -> [pc : PutPc, u : Uploads, p : Parts] \cup {NoPut}]
      BY <1>2, <1>3 DEF PutReturn, TypeOK
    <2>. QED
      BY <1>2, <1>3, <1>6, <1>7, <2>1 DEF TypeOK
  <1>10. ASSUME NEW x \in Puts, put'[x].pc # "none"
         PROVE  /\ x # r /\ put'[x] = put[x] /\ put[x].u \in Uploads /\ put[x].p \in Parts
                /\ put[x].p \in marker'[put[x].u] => put[x].p \in marker[put[x].u]
    <2>1. x # r /\ put'[x] = put[x]
      BY <1>8, <1>10
    <2>2. put[x] \in [pc : PutPc, u : Uploads, p : Parts]
      BY <1>2, <1>10, <2>1 DEF TypeOK, NoPut
    <2>3. put[x].u # v \/ put[x].p # p
      BY <1>1, <1>2, <1>3, <1>10, <2>1 DEF PartMutex
    <2>. QED
      BY <1>6, <2>1, <2>2, <2>3
  <1>11. PutsValid'
    BY <1>2, <1>3, <1>7, <1>10 DEF PutsValid, Open
  <1>12. PartMutex'
    BY <1>2, <1>10 DEF PartMutex
  <1>13. Written'
    BY <1>2, <1>3, <1>10 DEF Written
  <1>14. MarkersDurable'
    <2>. SUFFICES ASSUME NEW w \in known, NEW x \in marker'[w], status'[w] \in Active
                  PROVE  w \in staged /\ data[w][x] = "synced"
      BY <1>3 DEF MarkersDurable
    <2>1. w \in Uploads /\ x \in Parts /\ status[w] \in Active
      BY <1>2, <1>4, <1>6, <1>7 DEF TypeOK, Active
    <2>2. w \in staged
      BY <1>2, <2>1 DEF KnownHasStaging
    <2>3. CASE x \in marker[w]
      BY <1>2, <2>1, <2>3 DEF MarkersDurable
    <2>4. CASE w = v /\ x = p
      BY <1>1, <1>2, <1>3, <2>2, <2>4 DEF Written
    <2>. QED
      BY <1>6, <2>1, <2>3, <2>4
  <1>15. KnownHasStaging'
    BY <1>2, <1>3, <1>4, <1>7 DEF KnownHasStaging, TypeOK, Active
  <1>16. CompleteStage'
    BY <1>2, <1>3, <1>4, <1>7 DEF CompleteStage, Open
  <1>17. Creating'
    <2>1. \A w \in Uploads : /\ status'[w] = "ABSENT" <=> status[w] = "ABSENT"
                             /\ w \notin known => marker'[w] = marker[w]
      <3>1. \A w \in Uploads : w # v => marker'[w] = marker[w]
        BY <1>2, <1>5 DEF TypeOK
      <3>. QED
        BY <1>4, <1>7, <3>1 DEF Open
    <2>. QED
      BY <1>2, <1>3, <2>1 DEF Creating
  <1>18. Lists'
    <2>1. \A w \in Uploads : /\ status[w] = "EXPIRED" => status'[w] = "EXPIRED"
                             /\ status[w] \notin Active => status'[w] \notin Active
      BY <1>4, <1>7 DEF Open, Active
    <2>2. \A a \in Owners : todo[a] \subseteq Uploads /\ hold[a] \in Uploads \cup {None}
      BY <1>2 DEF TypeOK
    <2>. QED
      BY <1>2, <1>3, <2>1, <2>2 DEF Lists
  <1>19. LifeExclusive'
    BY <1>2, <1>3 DEF LifeExclusive
  <1>. QED
    BY <1>9, <1>11, <1>12, <1>13, <1>14, <1>15, <1>16, <1>17, <1>18, <1>19 DEF IInv

\* A PutPart that ends early leaves no marker.
LEMMA PutErrorKeeps ==
  ASSUME IInv, NEW r \in Puts, PutError(r)
  PROVE  IInv'
  <1>. USE DEF IInv, TypeOK, PutError, PutReturn, Owners, rowVars, diskVars,
               passVars, procVars
  <1>1. TypeOK'
    <2>1. put' \in [Puts -> [pc : PutPc, u : Uploads, p : Parts] \cup {NoPut}]
      BY PutTypes DEF PutPc
    <2>. QED
      BY <2>1
  <1>2. PutsValid'
    BY DEF PutsValid, NoPut
  <1>3. PartMutex'
    BY DEF PartMutex, NoPut
  <1>4. Written'
    BY DEF Written, NoPut
  <1>5. /\ MarkersDurable' /\ KnownHasStaging' /\ CompleteStage' /\ Creating'
        /\ Lists' /\ LifeExclusive'
    BY DEF MarkersDurable, KnownHasStaging, CompleteStage, Creating, Lists,
       LifeExclusive
  <1>. QED
    BY <1>1, <1>2, <1>3, <1>4, <1>5

\* Every part has a marker, so all bytes are synced; no PutPart is in progress.
LEMMA CompleteValidateKeeps ==
  ASSUME IInv, NEW u \in Uploads, CompleteValidate(u)
  PROVE  IInv'
  <1>. USE DEF IInv, TypeOK, CompleteValidate, CpGoto, AllParts, Synced,
               ExclusiveFree, PutsOn, Owners, rowVars, passVars, procVars
  <1>1. TypeOK'
    BY DEF PartState, CpPc
  <1>2. PutsValid'
    BY DEF PutsValid
  <1>3. Written'
    BY DEF Written
  <1>4. MarkersDurable'
    BY DEF MarkersDurable
  <1>5. CompleteStage'
    BY DEF CompleteStage, MarkersDurable, Open, Active
  <1>6. /\ PartMutex' /\ KnownHasStaging' /\ Creating' /\ Lists'
        /\ LifeExclusive'
    BY DEF PartMutex, KnownHasStaging, Creating, Lists, LifeExclusive
  <1>. QED
    BY <1>1, <1>2, <1>3, <1>4, <1>5, <1>6

\* The bytes validated before the transition are still the same.
LEMMA CompleteTransitionKeeps ==
  ASSUME IInv, NEW u \in Uploads, CompleteTransition(u)
  PROVE  IInv'
  <1>. USE DEF IInv, TypeOK, CompleteTransition, TransitionUploadToCompleting, CpGoto, Owners, diskVars,
               passVars, procVars
  <1>1. TypeOK'
    BY DEF Status, Active, CpPc
  <1>2. PutsValid'
    BY DEF PutsValid
  <1>3. MarkersDurable'
    BY DEF MarkersDurable, CompleteStage, Active
  <1>4. KnownHasStaging'
    BY DEF KnownHasStaging, CompleteStage, Active
  <1>5. CompleteStage'
    BY DEF CompleteStage
  <1>6. Creating'
    BY DEF Creating, CompleteStage, Open
  <1>7. Lists'
    BY DEF Lists, CompleteStage, Open, Active
  <1>8. PartMutex' /\ Written' /\ LifeExclusive'
    BY DEF PartMutex, Written, LifeExclusive
  <1>. QED
    BY <1>1, <1>2, <1>3, <1>4, <1>5, <1>6, <1>7, <1>8

\* Finalize runs again on a session that is COMPLETING.
LEMMA CompleteAgainKeeps ==
  ASSUME IInv, NEW u \in Uploads, CompleteAgain(u)
  PROVE  IInv'
  <1>. USE DEF IInv, TypeOK, CompleteAgain, CpGoto, ExclusiveFree, PutsOn,
               Owners, rowVars, diskVars, passVars, procVars
  <1>1. TypeOK'
    BY DEF CpPc
  <1>2. PutsValid'
    BY DEF PutsValid
  <1>3. CompleteStage'
    BY DEF CompleteStage
  <1>4. /\ PartMutex' /\ Written' /\ MarkersDurable' /\ KnownHasStaging'
        /\ Creating' /\ Lists' /\ LifeExclusive'
    BY DEF PartMutex, Written, MarkersDurable, KnownHasStaging, Creating,
       Lists, LifeExclusive
  <1>. QED
    BY <1>1, <1>2, <1>3, <1>4

\* The session leaves COMPLETING.
LEMMA FinalizeEndsKeeps ==
  ASSUME IInv, NEW u \in Uploads, FinalizeEnds(u)
  PROVE  IInv'
  <1>. USE DEF IInv, TypeOK, FinalizeEnds, CpGoto, Owners, diskVars, passVars,
               procVars
  <1>1. TypeOK'
    <2>1. status' \in [Uploads -> Status]
      BY DEF Status, Active
    <2>2. cpPc' \in [Uploads -> CpPc]
      BY DEF CpPc
    <2>. QED
      BY <2>1, <2>2
  <1>2. PutsValid'
    BY DEF PutsValid, Written, CompleteStage, LifeExclusive
  <1>3. MarkersDurable'
    BY DEF MarkersDurable, CompleteStage, Open, Active
  <1>4. KnownHasStaging'
    <2>1. /\ KnownHasStaging /\ known' = known /\ staged' = staged /\ known \subseteq Uploads
          /\ status[u] = "COMPLETING" /\ \A v \in Uploads \ {u} : status'[v] = status[v]
      BY DEF CompleteStage
    <2>. HIDE DEF IInv, TypeOK, FinalizeEnds, CpGoto, Owners, diskVars, passVars, procVars
    <2>. QED
      BY <2>1 DEF KnownHasStaging, Active
  <1>5. CompleteStage'
    <2>. HIDE DEF IInv, TypeOK, FinalizeEnds, CpGoto, Owners, diskVars,
               passVars, procVars
    <2>1. CompleteStage /\ data' = data
      BY DEF IInv, FinalizeEnds, diskVars
    <2>2. \/ status'[u] = "COMPLETED" /\ cpPc'[u] = "unstage"
          \/ status'[u] = "FAILED" /\ cpPc'[u] = "idle"
      BY DEF IInv, TypeOK, FinalizeEnds, CpGoto
    <2>3. \A v \in Uploads \ {u} : status'[v] = status[v] /\ cpPc'[v] = cpPc[v]
      BY DEF IInv, TypeOK, FinalizeEnds, CpGoto
    <2>. QED
      BY <2>1, <2>2, <2>3 DEF CompleteStage
  <1>6. Creating'
    BY DEF Creating, CompleteStage
  <1>7. Lists'
    BY DEF Lists, CompleteStage, Open, Active
  <1>8. PartMutex' /\ Written' /\ LifeExclusive'
    BY DEF PartMutex, Written, LifeExclusive
  <1>. QED
    BY <1>1, <1>2, <1>3, <1>4, <1>5, <1>6, <1>7, <1>8

\* The staging file that is removed belongs to a COMPLETED session.
LEMMA FinalizeUnstageKeeps ==
  ASSUME IInv, NEW u \in Uploads, FinalizeUnstage(u)
  PROVE  IInv'
  <1>. USE DEF IInv, TypeOK, FinalizeUnstage, CpGoto, Owners, rowVars,
               passVars, procVars
  <1>1. TypeOK'
    BY DEF CpPc
  <1>2. PutsValid'
    BY DEF PutsValid
  <1>3. MarkersDurable'
    BY DEF MarkersDurable, CompleteStage, Open, Active
  <1>4. KnownHasStaging'
    BY DEF KnownHasStaging, CompleteStage, Open, Active
  <1>5. CompleteStage'
    BY DEF CompleteStage
  <1>6. Creating'
    BY DEF Creating, CompleteStage
  <1>7. PartMutex' /\ Written' /\ Lists' /\ LifeExclusive'
    BY DEF PartMutex, Written, Lists, LifeExclusive
  <1>. QED
    BY <1>1, <1>2, <1>3, <1>4, <1>5, <1>6, <1>7

\* Complete ends and leaves the session as it is.
LEMMA CompleteErrorKeeps ==
  ASSUME IInv, NEW u \in Uploads, CompleteError(u)
  PROVE  IInv'
  <1>. USE DEF IInv, TypeOK, CompleteError, CpGoto, Owners, rowVars, diskVars,
               passVars, procVars
  <1>1. TypeOK'
    BY DEF CpPc
  <1>2. PutsValid'
    BY DEF PutsValid
  <1>3. CompleteStage'
    BY DEF CompleteStage
  <1>4. /\ PartMutex' /\ Written' /\ MarkersDurable' /\ KnownHasStaging'
        /\ Creating' /\ Lists' /\ LifeExclusive'
    BY DEF PartMutex, Written, MarkersDurable, KnownHasStaging, Creating,
       Lists, LifeExclusive
  <1>. QED
    BY <1>1, <1>2, <1>3, <1>4

\* The scheduler starts a pass.
LEMMA TickKeeps ==
  ASSUME IInv, Tick
  PROVE  IInv'
  <1>. USE DEF IInv, TypeOK, Tick, Goto, Owners, rowVars, diskVars, procVars
  <1>1. TypeOK'
    BY DEF PassPc
  <1>2. Creating'
    BY UploadsAssumption DEF Creating
  <1>3. Lists'
    BY DEF Lists
  <1>4. LifeExclusive'
    BY DEF LifeExclusive
  <1>5. /\ PutsValid' /\ PartMutex' /\ Written' /\ MarkersDurable'
        /\ KnownHasStaging' /\ CompleteStage'
    <2>1. UNCHANGED <<status, marker, data, known, put, cpPc, staged>>
      OBVIOUS
    <2>. HIDE DEF IInv, TypeOK, Tick, Goto, Owners, rowVars, diskVars, procVars
    <2>. QED
      BY <2>1, RequestsKept
  <1>. QED
    BY <1>1, <1>2, <1>3, <1>4, <1>5

\* Reading the due sessions changes none of them.
LEMMA FindDueActiveUploadsKeeps ==
  ASSUME IInv, NEW a \in Owners, FindDueActiveUploads(a)
  PROVE  IInv'
  <1>. USE DEF IInv, TypeOK, FindDueActiveUploads, PassGoto, Goto, Owners,
               rowVars, diskVars, procVars
  <1>1. TypeOK'
    BY DEF PassPc
  <1>2. Creating'
    BY DEF Creating
  <1>3. Lists'
    BY DEF Lists
  <1>4. LifeExclusive'
    BY DEF LifeExclusive
  <1>5. /\ PutsValid' /\ PartMutex' /\ Written' /\ MarkersDurable'
        /\ KnownHasStaging' /\ CompleteStage'
    <2>1. UNCHANGED <<status, marker, data, known, put, cpPc, staged>>
      OBVIOUS
    <2>. HIDE DEF IInv, TypeOK, FindDueActiveUploads, PassGoto, Goto, Owners,
               rowVars, diskVars, procVars
    <2>. QED
      BY <2>1, RequestsKept
  <1>. QED
    BY <1>1, <1>2, <1>3, <1>4, <1>5

\* A session expires only under its exclusive lock, so no PutPart and no
\* Complete is in progress.
LEMMA MarkExpiredKeeps ==
  ASSUME IInv, NEW a \in Owners, NEW u \in Uploads, MarkExpired(a, u)
  PROVE  IInv'
  <1>. USE DEF IInv, TypeOK, MarkExpired, MarkUploadExpired, PassGoto, ExclusiveFree,
               ExclusiveHeld, PutsOn, Expirable, Goto, Owners, diskVars,
               procVars
  <1>1. TypeOK'
    BY DEF Status
  <1>2. PutsValid'
    BY DEF PutsValid
  <1>3. MarkersDurable'
    BY DEF MarkersDurable, Active
  <1>4. KnownHasStaging'
    BY DEF KnownHasStaging, Active
  <1>5. CompleteStage'
    BY DEF CompleteStage
  <1>6. Creating'
    BY DEF Creating, Open
  <1>7. Lists'
    BY DEF Lists, Active
  <1>8. LifeExclusive'
    BY DEF LifeExclusive
  <1>9. PartMutex' /\ Written'
    BY DEF PartMutex, Written
  <1>. QED
    BY <1>1, <1>2, <1>3, <1>4, <1>5, <1>6, <1>7, <1>8, <1>9

\* The sessions that are listed are EXPIRED, which is final.
LEMMA FindExpiredCleanupCandidatesKeeps ==
  ASSUME IInv, NEW a \in Owners, FindExpiredCleanupCandidates(a)
  PROVE  IInv'
  <1>. USE DEF IInv, TypeOK, FindExpiredCleanupCandidates, PassGoto, Goto,
               Owners, rowVars, diskVars, procVars
  <1>1. TypeOK'
    BY DEF PassPc
  <1>2. Creating'
    BY DEF Creating
  <1>3. Lists'
    BY DEF Lists
  <1>4. LifeExclusive'
    BY DEF LifeExclusive
  <1>5. /\ PutsValid' /\ PartMutex' /\ Written' /\ MarkersDurable'
        /\ KnownHasStaging' /\ CompleteStage'
    <2>1. UNCHANGED <<status, marker, data, known, put, cpPc, staged>>
      OBVIOUS
    <2>. HIDE DEF IInv, TypeOK, FindExpiredCleanupCandidates, PassGoto, Goto,
               Owners, rowVars, diskVars, procVars
    <2>. QED
      BY <2>1, RequestsKept
  <1>. QED
    BY <1>1, <1>2, <1>3, <1>4, <1>5

\* The staging file that is removed belongs to an EXPIRED session.
LEMMA CleanStagingKeeps ==
  ASSUME IInv, NEW a \in Owners, NEW u \in Uploads, CleanStaging(a, u)
  PROVE  IInv'
  <1>. USE DEF IInv, TypeOK, CleanStaging, PassGoto, Goto, Owners, rowVars,
               procVars
  <1>1. TypeOK'
    BY DEF PassPc
  <1>2. MarkersDurable'
    BY DEF MarkersDurable, Lists, Open, Active
  <1>3. KnownHasStaging'
    BY DEF KnownHasStaging, Lists, Open, Active
  <1>4. Creating'
    BY DEF Creating, Lists
  <1>5. Lists'
    BY UploadsAssumption DEF Lists
  <1>6. LifeExclusive'
    BY DEF LifeExclusive
  <1>7. PutsValid' /\ PartMutex' /\ Written' /\ CompleteStage'
    <2>1. UNCHANGED <<status, marker, data, known, put, cpPc>>
      OBVIOUS
    <2>. HIDE DEF IInv, TypeOK, CleanStaging, PassGoto, Goto, Owners, rowVars, procVars
    <2>. QED
      BY <2>1, RequestsKept
  <1>. QED
    BY <1>1, <1>2, <1>3, <1>4, <1>5, <1>6, <1>7

\* Removing the markers of an expired session harms no live one.
LEMMA DeletePartsKeeps ==
  ASSUME IInv, NEW a \in Owners, DeleteParts(a)
  PROVE  IInv'
  <1>. USE DEF IInv, TypeOK, DeleteParts, Goto, Owners, diskVars, procVars
  <1>1. TypeOK'
    BY DEF PassPc
  <1>2. Written'
    BY DEF Written
  <1>3. MarkersDurable'
    BY DEF MarkersDurable
  <1>4. Creating'
    BY DEF Creating
  <1>5. Lists'
    BY DEF Lists
  <1>6. LifeExclusive'
    BY DEF LifeExclusive
  <1>7. PutsValid' /\ PartMutex' /\ KnownHasStaging' /\ CompleteStage'
    BY DEF PutsValid, PartMutex, KnownHasStaging, CompleteStage
  <1>. QED
    BY <1>1, <1>2, <1>3, <1>4, <1>5, <1>6, <1>7

\* ReconcileStaging has stagingLife while no Create is inside its reservation.
LEMMA OwnedFilesKeeps ==
  ASSUME IInv, NEW a \in Owners, OwnedFiles(a)
  PROVE  IInv'
  <1>. USE DEF IInv, TypeOK, OwnedFiles, PassGoto, LifeRead, Goto, Owners,
               rowVars, diskVars, procVars
  <1>1. TypeOK'
    BY DEF PassPc
  <1>2. Creating'
    BY DEF Creating
  <1>3. Lists'
    BY DEF Lists
  <1>4. LifeExclusive'
    BY DEF LifeExclusive
  <1>5. /\ PutsValid' /\ PartMutex' /\ Written' /\ MarkersDurable'
        /\ KnownHasStaging' /\ CompleteStage'
    <2>1. UNCHANGED <<status, marker, data, known, put, cpPc, staged>>
      OBVIOUS
    <2>. HIDE DEF IInv, TypeOK, OwnedFiles, PassGoto, LifeRead, Goto, Owners,
               rowVars, diskVars, procVars
    <2>. QED
      BY <2>1, RequestsKept
  <1>. QED
    BY <1>1, <1>2, <1>3, <1>4, <1>5

\* What is listed as an orphan has no active session.
LEMMA ActiveUploadIDsKeeps ==
  ASSUME IInv, NEW a \in Owners, ActiveUploadIDs(a)
  PROVE  IInv'
  <1>. USE DEF IInv, TypeOK, ActiveUploadIDs, PassGoto, Orphans, Goto, Owners,
               rowVars, diskVars, procVars
  <1>1. TypeOK'
    BY LimitsAssumption DEF PassPc
  <1>2. Creating'
    BY DEF Creating
  <1>3. Lists'
    BY DEF Lists
  <1>4. LifeExclusive'
    BY DEF LifeExclusive
  <1>5. /\ PutsValid' /\ PartMutex' /\ Written' /\ MarkersDurable'
        /\ KnownHasStaging' /\ CompleteStage'
    <2>1. UNCHANGED <<status, marker, data, known, put, cpPc, staged>>
      OBVIOUS
    <2>. HIDE DEF IInv, TypeOK, ActiveUploadIDs, PassGoto, Orphans, Goto,
               Owners, rowVars, diskVars, procVars
    <2>. QED
      BY <2>1, RequestsKept
  <1>. QED
    BY <1>1, <1>2, <1>3, <1>4, <1>5

\* An orphan cannot have become active: Create is kept out.
LEMMA DeleteOrphanKeeps ==
  ASSUME IInv, NEW a \in Owners, NEW u \in Uploads, DeleteOrphan(a, u)
  PROVE  IInv'
  <1>. USE DEF IInv, TypeOK, DeleteOrphan, PassGoto, WithinLimit, Goto,
               Owners, rowVars, procVars
  <1>1. TypeOK'
    BY LimitsAssumption
  <1>2. MarkersDurable'
    BY DEF MarkersDurable, Lists
  <1>3. KnownHasStaging'
    BY DEF KnownHasStaging, Lists
  <1>4. Creating'
    BY DEF Creating, LifeExclusive
  <1>5. Lists'
    BY DEF Lists
  <1>6. LifeExclusive'
    BY DEF LifeExclusive
  <1>7. PutsValid' /\ PartMutex' /\ Written' /\ CompleteStage'
    <2>1. UNCHANGED <<status, marker, data, known, put, cpPc>>
      OBVIOUS
    <2>. HIDE DEF IInv, TypeOK, DeleteOrphan, PassGoto, WithinLimit, Goto,
               Owners, rowVars, procVars
    <2>. QED
      BY <2>1, RequestsKept
  <1>. QED
    BY <1>1, <1>2, <1>3, <1>4, <1>5, <1>6, <1>7

\* The end of a pass releases stagingLife.
LEMMA EndPassKeeps ==
  ASSUME IInv, NEW a \in Owners, EndPass(a)
  PROVE  IInv'
  <1>. USE DEF IInv, TypeOK, EndPass, PassGoto, Goto, Owners, rowVars,
               diskVars
  <1>1. TypeOK'
    BY DEF CreatePc
  <1>2. Creating'
    BY DEF Creating
  <1>3. Lists'
    BY DEF Lists
  <1>4. LifeExclusive'
    BY DEF LifeExclusive
  <1>5. /\ PutsValid' /\ PartMutex' /\ Written' /\ MarkersDurable'
        /\ KnownHasStaging' /\ CompleteStage'
    <2>1. UNCHANGED <<status, marker, data, known, put, cpPc, staged>>
      OBVIOUS
    <2>. HIDE DEF IInv, TypeOK, EndPass, PassGoto, Goto, Owners, rowVars, diskVars
    <2>. QED
      BY <2>1, RequestsKept
  <1>. QED
    BY <1>1, <1>2, <1>3, <1>4, <1>5

\* An error only shortens what the pass has listed.
LEMMA PassErrorKeeps ==
  ASSUME IInv, NEW a \in Owners, PassError(a)
  PROVE  IInv'
  <1>. USE DEF IInv, TypeOK, PassError, PassGoto, Goto, Owners, rowVars,
               diskVars
  <1>1. TypeOK'
    <2>1. pc' \in [Owners -> {"idle"} \cup PassPc \cup CreatePc]
      BY DEF PassPc
    <2>2. todo' \in [Owners -> SUBSET Uploads]
      OBVIOUS
    <2>3. hold' \in [Owners -> Uploads \cup {None}]
      OBVIOUS
    <2>4. faults' \in Nat /\ UNCHANGED <<status, due, marker, staged, data, known, left, put,
                                         cpPc, serving, crashes>>
      OBVIOUS
    <2>5. TypeOK
      OBVIOUS
    <2>. HIDE DEF IInv, TypeOK, PassError, PassGoto, Goto, Owners, rowVars, diskVars
    <2>. QED
      BY <2>1, <2>2, <2>3, <2>4, <2>5 DEF TypeOK
  <1>2. Creating'
    BY DEF Creating
  <1>3. Lists'
    <2>1. /\ pc \in [Owners -> {"idle"} \cup PassPc \cup CreatePc] /\ UNCHANGED status
          /\ todo \in [Owners -> SUBSET Uploads] /\ hold \in [Owners -> Uploads \cup {None}]
      OBVIOUS
    <2>2. \A b \in Owners \ {a} : pc'[b] = pc[b] /\ todo'[b] = todo[b] /\ hold'[b] = hold[b]
      BY <2>1
    <2>3. /\ pc'[a] # "parts" /\ hold'[a] \in {hold[a], None}
          /\ \/ todo'[a] = {}
             \/ todo'[a] \subseteq todo[a] /\ pc'[a] = pc[a]
             \/ todo'[a] = todo[a] /\ pc[a] = "parts" /\ pc'[a] = "clean"
      BY <2>1
    <2>4. Lists
      OBVIOUS
    <2>. HIDE DEF IInv, TypeOK, PassError, PassGoto, Goto, rowVars, diskVars
    <2>. QED
      BY <2>1, <2>2, <2>3, <2>4 DEF Lists
  <1>4. LifeExclusive'
    BY DEF LifeExclusive, LifeRead
  <1>5. /\ PutsValid' /\ PartMutex' /\ Written' /\ MarkersDurable'
        /\ KnownHasStaging' /\ CompleteStage'
    <2>1. UNCHANGED <<status, marker, data, known, put, cpPc, staged>>
      OBVIOUS
    <2>. HIDE DEF IInv, TypeOK, PassError, PassGoto, Goto, Owners, rowVars, diskVars
    <2>. QED
      BY <2>1, RequestsKept
  <1>. QED
    BY <1>1, <1>2, <1>3, <1>4, <1>5

\* Time passing changes no status.
LEMMA ExpiresKeeps ==
  ASSUME IInv, NEW u \in Uploads, Expires(u)
  PROVE  IInv'
  <1>. USE DEF IInv, TypeOK, Expires, Owners, diskVars, passVars, procVars
  <1>1. TypeOK'
    OBVIOUS
  <1>2. /\ PutsValid' /\ PartMutex' /\ Written' /\ MarkersDurable'
        /\ KnownHasStaging' /\ CompleteStage' /\ Creating' /\ Lists'
        /\ LifeExclusive'
    <2>1. UNCHANGED <<status, marker, data, known, put, cpPc, staged, pc, todo, hold>>
      OBVIOUS
    <2>. HIDE DEF IInv, TypeOK, Expires, Owners, diskVars, passVars, procVars
    <2>. QED
      BY <2>1, RequestsKept, PassesKept
  <1>. QED
    BY <1>1, <1>2

\* Only bytes that were not synced are lost, and no marker depends on them.
LEMMA CrashKeeps ==
  ASSUME IInv, Crash
  PROVE  IInv'
  <1>. USE DEF IInv, TypeOK, Crash, Owners, rowVars
  <1>1. TypeOK'
    <2>1. put' \in [Puts -> [pc : PutPc, u : Uploads, p : Parts] \cup {NoPut}]
      OBVIOUS
    <2>2. left' \in [Owners -> 0 .. Batch]
      BY LimitsAssumption
    <2>3. pc' \in [Owners -> {"idle"} \cup PassPc \cup CreatePc]
      BY DEF PassPc
    <2>4. data' \in [Uploads -> [Parts -> PartState]] /\ cpPc' \in [Uploads -> CpPc]
      BY DEF PartState, CpPc
    <2>5. crashes' \in Nat
      OBVIOUS
    <2>. QED
      BY <2>1, <2>2, <2>3, <2>4, <2>5
  <1>2. PutsValid'
    BY DEF PutsValid, NoPut
  <1>3. PartMutex'
    BY DEF PartMutex, NoPut
  <1>4. Written'
    BY DEF Written, NoPut
  <1>5. MarkersDurable'
    BY DEF MarkersDurable
  <1>6. CompleteStage'
    BY UploadsAssumption DEF CompleteStage
  <1>7. Creating'
    BY UploadsAssumption DEF Creating
  <1>8. Lists'
    BY DEF Lists
  <1>9. LifeExclusive'
    BY DEF LifeExclusive
  <1>10. KnownHasStaging'
    BY DEF KnownHasStaging
  <1>. QED
    BY <1>1, <1>2, <1>3, <1>4, <1>5, <1>6, <1>7, <1>8, <1>9, <1>10

----------------------------------------------------------------------------
(* The invariance proof *)

\* A step of Create, or the passing of the retention time.
LEMMA CreateStepKeeps ==
  ASSUME IInv, NEW u \in Uploads, Create(u) \/ CreateStep(u) \/ Expires(u)
  PROVE  IInv'
  BY CreateKeeps, ReserveKeeps, MakeFileKeeps, InsertKeeps, InsertErrorKeeps,
     UndoCreateKeeps, ExpiresKeeps DEF CreateStep

\* A step of PutPart.
LEMMA PutStepKeeps ==
  ASSUME IInv, NEW r \in Puts,
         (\E u \in Uploads, p \in Parts : PutPart(r, u, p)) \/ PutStep(r)
  PROVE  IInv'
  BY PutPartKeeps, InvalidatePartKeeps, OpenAndWriteKeeps, CopyPartKeeps,
     SyncPartKeeps, CommitPartKeeps, PutErrorKeeps DEF PutStep

\* A step of Complete.
LEMMA CompleteStepKeeps ==
  ASSUME IInv, NEW u \in Uploads,
         CompleteValidate(u) \/ CompleteAgain(u) \/ CompleteStep(u)
  PROVE  IInv'
  BY CompleteValidateKeeps, CompleteTransitionKeeps, CompleteAgainKeeps,
     FinalizeEndsKeeps, FinalizeUnstageKeeps, CompleteErrorKeeps
     DEF CompleteStep

\* A step of an expiry pass.
LEMMA PassKeeps ==
  ASSUME IInv, NEW a \in Owners, Pass(a) \/ PassError(a)
  PROVE  IInv'
  BY FindDueActiveUploadsKeeps, MarkExpiredKeeps,
     FindExpiredCleanupCandidatesKeeps, CleanStagingKeeps, DeletePartsKeeps,
     OwnedFilesKeeps, ActiveUploadIDsKeeps, DeleteOrphanKeeps, EndPassKeeps,
     PassErrorKeeps DEF Pass, PassItem

\* No step breaks the invariant.
LEMMA NextIInv == IInv /\ [Next]_vars => IInv'
  <1>. SUFFICES ASSUME IInv, [Next]_vars PROVE IInv'
    OBVIOUS
  <1>1. CASE UNCHANGED vars
    <2>. USE <1>1 DEF vars, rowVars, diskVars, passVars, procVars
    <2>1. TypeOK'
      BY DEF IInv, TypeOK
    <2>2. PutsValid' /\ PartMutex' /\ Written' /\ MarkersDurable'
      BY DEF IInv, PutsValid, PartMutex, Written, MarkersDurable
    <2>3. KnownHasStaging' /\ CompleteStage' /\ Creating'
      BY DEF IInv, KnownHasStaging, CompleteStage, Creating
    <2>4. Lists' /\ LifeExclusive'
      BY DEF IInv, Lists, LifeExclusive
    <2>. QED
      BY <2>1, <2>2, <2>3, <2>4 DEF IInv
  <1>2. CASE \E u \in Uploads : Create(u) \/ CreateStep(u) \/ Expires(u)
    BY <1>2, CreateStepKeeps
  <1>3. CASE \E u \in Uploads :
               CompleteValidate(u) \/ CompleteAgain(u) \/ CompleteStep(u)
    BY <1>3, CompleteStepKeeps
  <1>4. CASE \E r \in Puts :
               (\E u \in Uploads, p \in Parts : PutPart(r, u, p)) \/ PutStep(r)
    BY <1>4, PutStepKeeps
  <1>5. CASE \E a \in Owners : Pass(a) \/ PassError(a)
    BY <1>5, PassKeeps
  <1>6. CASE Tick \/ Crash
    BY <1>6, TickKeeps, CrashKeeps
  <1>. QED
    BY <1>1, <1>2, <1>3, <1>4, <1>5, <1>6 DEF Next

\* The invariant holds for any number of uploads, parts and requests.
THEOREM Invariance == Spec => []IInv
  BY InitIInv, NextIInv, PTL DEF Spec

\* Every row, file and local variable keeps its type; no pass of
\* ReconcileStaging deletes more than its limit.
THEOREM TypeCorrect == Spec => []TypeOK
  <1>1. IInv => TypeOK
    BY DEF IInv
  <1>. QED
    BY <1>1, Invariance, PTL

\* The parts that GET reports as complete, and PutPart lets a client skip, are
\* on the disk.
THEOREM MarkersStayDurable == Spec => []MarkersDurable
  <1>1. IInv => MarkersDurable
    BY DEF IInv
  <1>. QED
    BY <1>1, Invariance, PTL

\* Complete hands Finalize a staging file that is whole and stays so.
THEOREM CompletingStaysIntact == Spec => []CompletingIntact
  <1>1. IInv => CompletingIntact
    BY DEF IInv, PutsValid, CompleteStage, CompletingIntact, PutsOn, Open
  <1>. QED
    BY <1>1, Invariance, PTL

\* ReconcileStaging never deletes the file of an active session that a client
\* knows.
THEOREM KnownKeepStaging == Spec => []KnownHasStaging
  <1>1. IInv => KnownHasStaging
    BY DEF IInv
  <1>. QED
    BY <1>1, Invariance, PTL

\* No PutPart, Complete or pass takes a session back, and no pass expires a
\* session that Complete has taken up.
THEOREM SessionsAdvance == Spec => SessionAdvances
  <1>. DEFINE Forward(u) ==
         /\ status[u] \in {"COMPLETED", "EXPIRED"} => status'[u] = status[u]
         /\ status[u] = "COMPLETING" => status'[u] \notin Open \cup {"EXPIRED"}
  <1>1. ASSUME IInv, [Next]_vars, NEW u \in Uploads PROVE Forward(u)
    <2>. status \in [Uploads -> Status]
      BY <1>1 DEF IInv, TypeOK
    <2>1. ASSUME NEW v \in Uploads, CreateStep(v) PROVE Forward(u)
      <3>1. pc[v] = "insert" => status[v] = "ABSENT"
        BY <1>1 DEF IInv, Creating
      <3>2. \/ status' = status
            \/ pc[v] = "insert" /\ status' = [status EXCEPT ![v] = "CREATED"]
        BY <2>1 DEF CreateStep, Reserve, MakeFile, Insert, InsertError,
           UndoCreate, rowVars
      <3>. QED
        BY <3>1, <3>2 DEF Open
    <2>2. ASSUME NEW v \in Uploads, CompleteStep(v) PROVE Forward(u)
      BY <1>1, <2>2 DEF IInv, CompleteStage, CompleteStep, CompleteTransition, TransitionUploadToCompleting,
         FinalizeEnds, FinalizeUnstage, CompleteError, rowVars, Open
    <2>3. ASSUME NEW r \in Puts, PutStep(r) PROVE Forward(u)
      BY <1>1, <2>3 DEF IInv, PutsValid, PutStep, InvalidatePart, OpenAndWrite,
         CopyPart, SyncPart, CommitPart, UpsertCompletedPart, PutError, rowVars, Open
    <2>4. ASSUME NEW a \in Owners, Pass(a) \/ PassError(a) PROVE Forward(u)
      BY <2>4 DEF Pass, PassItem, PassError, MarkExpired, MarkUploadExpired, CleanStaging,
         DeleteOrphan, FindDueActiveUploads, FindExpiredCleanupCandidates,
         DeleteParts, OwnedFiles, ActiveUploadIDs, EndPass, Expirable, Open,
         rowVars
    <2>5. CASE UNCHANGED status
      BY <2>5 DEF Open
    <2>. QED
      BY <1>1, <2>1, <2>2, <2>3, <2>4, <2>5 DEF Next, Create, Expires,
         CompleteValidate, CompleteAgain, PutPart, Tick, Crash, vars, rowVars
  <1>2. IInv /\ [Next]_vars => [\A u \in Uploads : Forward(u)]_vars
    BY <1>1
  <1>. QED
    BY <1>2, Invariance, PTL DEF Spec, SessionAdvances

----------------------------------------------------------------------------
(* The staging reservation.  The create transaction compares the sum of the  *)
(* active sessions with the limit, makes the staging file and only then      *)
(* inserts the row, so between the comparison and the insertion the verdict  *)
(* has to stay true.                                                         *)

\* Creates between the comparison and the end of their transaction.
Reserving == {u \in Uploads : pc[u] \in {"mkfile", "insert"}}

\* The advisory lock lets one Create at a time into its transaction, and what
\* it found to fit still fits.
Reservation ==
    /\ IsFiniteSet(ActiveUploads)
    /\ StagingReserved
    /\ \A u, v \in Reserving : u = v
    /\ \A u \in Reserving : Fits(u)

\* What most steps may do: sessions end, and so do reservations.
OnlyReleases == ActiveUploads' \subseteq ActiveUploads /\ Reserving' \subseteq Reserving

\* The active sessions add up to a natural number.
LEMMA ActiveWeigh ==
  ASSUME IsFiniteSet(ActiveUploads)
  PROVE  Weighs(SizeOf, ActiveUploads) /\ ActiveBytes \in Nat
  <1>1. Weighs(SizeOf, ActiveUploads)
    BY UploadsAssumption DEF Weighs, ActiveUploads
  <1>. QED
    BY <1>1, SumNat DEF ActiveBytes

\* The sum does not grow with the sessions, and the verdict stays true.
LEMMA ReleaseKeeps ==
  ASSUME Reservation, OnlyReleases
  PROVE  Reservation'
  <1>1. IsFiniteSet(ActiveUploads) /\ IsFiniteSet(ActiveUploads')
    BY FS_Subset DEF Reservation, OnlyReleases
  <1>2. ActiveBytes' <= ActiveBytes
    BY <1>1, ActiveWeigh, SumMonotonic DEF ActiveBytes, OnlyReleases
  <1>3. ActiveBytes \in Nat /\ ActiveBytes' \in Nat
    <2>1. Weighs(SizeOf, ActiveUploads')
      BY UploadsAssumption DEF Weighs, ActiveUploads
    <2>. QED
      BY <1>1, <2>1, ActiveWeigh, SumNat DEF ActiveBytes
  <1>4. StagingReserved'
    BY <1>2, <1>3, LimitsAssumption DEF Reservation, StagingReserved
  <1>5. ASSUME NEW u \in Reserving'
        PROVE  ActiveBytes' + SizeOf[u] <= MaxStaging
    <2>1. u \in Reserving /\ u \in Uploads
      BY <1>5 DEF OnlyReleases, Reserving
    <2>2. ActiveBytes + SizeOf[u] <= MaxStaging
      BY <2>1 DEF Reservation, Fits
    <2>. QED
      BY <1>2, <1>3, <2>1, <2>2, UploadsAssumption, LimitsAssumption
  <1>6. \A u, v \in Reserving' : u = v
    BY DEF Reservation, OnlyReleases
  <1>. QED
    BY <1>1, <1>4, <1>5, <1>6 DEF Reservation, Fits

\* Reserve takes the lock while nobody has it, and compares.
LEMMA ReserveReserves ==
  ASSUME IInv, Reservation, NEW u \in Uploads, Reserve(u)
  PROVE  Reservation'
  <1>1. status' = status /\ Reserving = {}
    BY DEF Reserve, rowVars, ReservationFree, Reserving
  <1>2. \A v \in Uploads : v # u => pc'[v] = pc[v]
    BY DEF Reserve, Goto, IInv, TypeOK, Owners
  <1>3. Reserving' \subseteq {u} /\ (u \in Reserving' => Fits(u))
    <2>1. Fits(u) \/ pc'[u] = "idle"
      BY DEF Reserve, Goto, IInv, TypeOK, Owners
    <2>. QED
      BY <1>1, <1>2, <2>1 DEF Reserving
  <1>4. ActiveUploads' = ActiveUploads
    BY <1>1 DEF ActiveUploads
  <1>5. ActiveBytes' = ActiveBytes
    BY <1>4 DEF ActiveBytes
  <1>. QED
    BY <1>3, <1>4, <1>5 DEF Reservation, StagingReserved, Fits

\* The row that is inserted is the one that fitted, and nobody else holds a
\* verdict that it could spoil.
LEMMA InsertReserves ==
  ASSUME IInv, Reservation, NEW u \in Uploads, Insert(u) \/ InsertError(u)
  PROVE  Reservation'
  <1>1. u \in Reserving /\ status[u] = "ABSENT"
    BY DEF Insert, InsertError, Reserving, IInv, Creating
  <1>2. Reserving = {u} /\ Fits(u)
    BY <1>1 DEF Reservation
  <1>3. Reserving' = {}
    <2>1. pc'[u] \in {"idle", "undo"} /\ \A v \in Uploads : v # u => pc'[v] = pc[v]
      BY DEF Insert, InsertError, Goto, IInv, TypeOK, Owners
    <2>. QED
      BY <1>2, <2>1 DEF Reserving
  <1>4. u \notin ActiveUploads
    BY <1>1 DEF ActiveUploads, Active, Open
  <1>5. CASE status' = status
    BY <1>3, <1>5, ReleaseKeeps DEF OnlyReleases, ActiveUploads
  <1>6. CASE status' = [status EXCEPT ![u] = "CREATED"]
    <2>1. ActiveUploads' = ActiveUploads \union {u}
      BY <1>6 DEF ActiveUploads, Active, Open, IInv, TypeOK
    <2>2. IsFiniteSet(ActiveUploads')
      BY <2>1, FS_AddElement DEF Reservation
    <2>3. Weighs(SizeOf, ActiveUploads \union {u})
      BY UploadsAssumption DEF Weighs, ActiveUploads
    <2>4. ActiveBytes' = ActiveBytes + SizeOf[u]
      BY <1>4, <2>1, <2>3, SumAdd DEF ActiveBytes, Reservation
    <2>5. ActiveBytes' <= MaxStaging
      BY <1>2, <2>4 DEF Fits
    <2>. QED
      BY <1>3, <2>2, <2>5 DEF Reservation, StagingReserved
  <1>. QED
    BY <1>5, <1>6 DEF Insert, InsertError

\* The steps of Create besides.
LEMMA CreateReleases ==
  ASSUME IInv, NEW u \in Uploads,
         Create(u) \/ MakeFile(u) \/ UndoCreate(u) \/ Expires(u)
  PROVE  OnlyReleases
  <1>1. status' = status
    BY DEF Create, MakeFile, UndoCreate, Expires, rowVars
  <1>2. \A v \in Uploads : pc'[v] \in {"mkfile", "insert"} => pc[v] \in {"mkfile", "insert"}
    BY DEF Create, MakeFile, UndoCreate, Expires, Goto, passVars, IInv, TypeOK, Owners
  <1>. QED
    BY <1>1, <1>2 DEF OnlyReleases, ActiveUploads, Reserving

\* PutPart and Complete change the status of active sessions only.
LEMMA RequestReleases ==
  ASSUME IInv,
         \/ \E u \in Uploads :
              CompleteValidate(u) \/ CompleteAgain(u) \/ CompleteStep(u)
         \/ \E r \in Puts :
              (\E u \in Uploads, p \in Parts : PutPart(r, u, p)) \/ PutStep(r)
  PROVE  OnlyReleases
  <1>1. pc' = pc
    BY DEF CompleteValidate, CompleteAgain, CompleteStep, CompleteTransition, FinalizeEnds,
       FinalizeUnstage, CompleteError, PutPart, PutStep, InvalidatePart, OpenAndWrite,
       CopyPart, SyncPart, CommitPart, PutError, passVars
  <1>2. status \in [Uploads -> Status]
    BY DEF IInv, TypeOK
  <1>3. \/ status' = status
        \/ \E u \in Uploads : /\ status[u] \in Active
                              /\ \E st : status' = [status EXCEPT ![u] = st]
    <2>1. ASSUME NEW u \in Uploads, CompleteStep(u) PROVE <1>3!2 \/ status' = status
      <3>1. cpPc[u] \in {"transition", "finalize"} => status[u] \in Active
        BY DEF IInv, CompleteStage, Active
      <3>. QED
        BY <2>1, <3>1 DEF CompleteStep, CompleteTransition, TransitionUploadToCompleting,
           FinalizeEnds, FinalizeUnstage, CompleteError, rowVars
    <2>2. ASSUME NEW r \in Puts, PutStep(r) PROVE <1>3!2 \/ status' = status
      <3>1. put[r].pc # "none" => put[r].u \in Uploads /\ status[put[r].u] \in Active
        BY DEF IInv, TypeOK, PutsValid, Active
      <3>. QED
        BY <2>2, <3>1 DEF PutStep, InvalidatePart, OpenAndWrite, CopyPart, SyncPart,
           CommitPart, PutError, rowVars
    <2>. QED
      BY <2>1, <2>2 DEF CompleteValidate, CompleteAgain, PutPart, rowVars
  <1>. QED
    BY <1>1, <1>2, <1>3 DEF OnlyReleases, ActiveUploads, Reserving

\* A pass expires sessions and never enters a reservation.
LEMMA PassReleases ==
  ASSUME IInv, \/ Tick \/ Crash \/ UNCHANGED vars
               \/ \E a \in Owners : Pass(a) \/ PassError(a)
  PROVE  OnlyReleases
  <1>1. ASSUME NEW a \in Owners, Pass(a) \/ PassError(a)
        PROVE  \E p \in PassPc \union {"idle", "reserve"} : pc' = [pc EXCEPT ![a] = p]
    BY <1>1 DEF Pass, PassItem, PassError, MarkExpired, CleanStaging, DeleteOrphan,
       FindDueActiveUploads, FindExpiredCleanupCandidates, DeleteParts, OwnedFiles,
       ActiveUploadIDs, EndPass, PassGoto, Goto, PassPc
  <1>2. \A u \in Uploads : pc'[u] \in {"mkfile", "insert"} => pc[u] \in {"mkfile", "insert"}
    <2>1. pc \in [Owners -> {"idle"} \cup PassPc \cup CreatePc] /\ Uploads \subseteq Owners
      BY DEF IInv, TypeOK, Owners
    <2>2. CASE Crash
      BY <2>1, <2>2 DEF Crash
    <2>3. CASE Tick \/ UNCHANGED vars
      BY <2>1, <2>3 DEF Tick, Goto, vars, passVars
    <2>. QED
      BY <1>1, <2>1, <2>2, <2>3 DEF PassPc
  <1>3. status' = status \/ \E u \in Uploads : status' = MarkUploadExpired(u)
    <2>1. ASSUME NEW a \in Owners, PassItem(a)
          PROVE  status' = status \/ \E u \in Uploads : status' = MarkUploadExpired(u)
      BY <2>1 DEF PassItem, MarkExpired, CleanStaging, DeleteOrphan, rowVars
    <2>2. ASSUME NEW a \in Owners, Pass(a), ~PassItem(a)
          PROVE  status' = status
      BY <2>2 DEF Pass, FindDueActiveUploads, FindExpiredCleanupCandidates, DeleteParts,
         OwnedFiles, ActiveUploadIDs, EndPass, rowVars
    <2>3. ASSUME NEW a \in Owners, PassError(a)
          PROVE  status' = status
      BY <2>3 DEF PassError, rowVars
    <2>4. Tick \/ Crash \/ UNCHANGED vars => status' = status
      BY DEF Tick, Crash, vars, rowVars
    <2>. QED
      BY <2>1, <2>2, <2>3, <2>4
  <1>4. ActiveUploads' \subseteq ActiveUploads
    <2>1. status \in [Uploads -> Status]
      BY DEF IInv, TypeOK
    <2>. QED
      BY <1>3, <2>1 DEF ActiveUploads, MarkUploadExpired, Active, Open
  <1>. QED
    BY <1>2, <1>4 DEF OnlyReleases, Reserving

\* Concurrent Creates, expiry passes, errors and crashes never reserve more
\* than UPLOAD_STAGING_MAX_BYTES for the active sessions.
THEOREM ReservationHolds == Spec => []StagingReserved
  <1>1. Init => Reservation
    <2>. SUFFICES ASSUME Init PROVE Reservation
      OBVIOUS
    <2>1. ActiveUploads = {} /\ Reserving = {}
      BY DEF Init, ActiveUploads, Active, Open, Reserving, Owners
    <2>2. ActiveBytes = 0
      BY <2>1, SumEmpty DEF ActiveBytes
    <2>. QED
      BY <2>1, <2>2, FS_EmptySet, LimitsAssumption DEF Reservation, StagingReserved
  <1>2. IInv /\ Reservation /\ [Next]_vars => Reservation'
    <2>. SUFFICES ASSUME IInv, Reservation, [Next]_vars PROVE Reservation'
      OBVIOUS
    <2>1. ASSUME NEW u \in Uploads, Create(u) \/ CreateStep(u) \/ Expires(u)
          PROVE  Reservation'
      BY <2>1, CreateReleases, ReleaseKeeps, ReserveReserves, InsertReserves DEF CreateStep
    <2>2. CASE \/ \E u \in Uploads :
                    CompleteValidate(u) \/ CompleteAgain(u) \/ CompleteStep(u)
               \/ \E r \in Puts :
                    (\E u \in Uploads, p \in Parts : PutPart(r, u, p)) \/ PutStep(r)
      BY <2>2, RequestReleases, ReleaseKeeps
    <2>3. CASE \/ Tick \/ Crash \/ UNCHANGED vars
               \/ \E a \in Owners : Pass(a) \/ PassError(a)
      BY <2>3, PassReleases, ReleaseKeeps
    <2>. QED
      BY <2>1, <2>2, <2>3 DEF Next
  <1>3. Reservation => StagingReserved
    BY DEF Reservation
  <1>. QED
    BY <1>1, <1>2, <1>3, Invariance, PTL DEF Spec

=============================================================================
