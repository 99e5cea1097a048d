--------------------------- MODULE MessagesProofs ---------------------------
(* Invariance proofs for Messages, for any number of users, messages, keys,  *)
(* requests, tags and uploads, any commands and any times.                   *)
EXTENDS Messages, FiniteSetTheorems, TLAPS

(* The inductive invariant.                                                  *)

\* What LifecycleCoherent, SensitiveSealed and ContentKept say of one row.
Coherent(m) ==
    /\ (m.life = "TEMPORARY") <=> (m.exp # None)
    /\ m.fav => m.life = "PERMANENT"
    /\ m.trashed <=> (m.purge # None)

Sealed(id, m) ==
    IF m.sensitive
    THEN m.plain = None /\ m.cipher # None /\ m.cipher.id = id /\ m.cipher.owner = m.owner
    ELSE m.cipher = None

GoodRow(id, m) == m \in Rows /\ Coherent(m) /\ Sealed(id, m) /\ HasContent(m)

RowsGood == \A id \in Existing : GoodRow(id, msg[id])

\* Everything a snapshot holds but what LoadDetails adds.
Bare(m) == [m EXCEPT !.tags = {}, !.files = {}]

\* A snapshot is as old as its version says.
SeenAges ==
    /\ \A id \in Existing : born[id] # None
    /\ seen # None => born[seen.id] # None
    /\ (seen # None /\ msg[seen.id] # None) =>
        /\ seen.row.version <= msg[seen.id].version
        /\ seen.row.version = msg[seen.id].version =>
              /\ Bare(seen.row) = Bare(msg[seen.id])
              /\ seen.loaded => seen.row.files = msg[seen.id].files

\* There is one claim per key, it outlives every message made with the key, and
\* a request in progress has the key for itself and found no live claim.
KeysClaimed ==
    /\ \A c, d \in claims : c.key = d.key => c = d
    /\ \A m \in Msgs : born[m] # None =>
         \E c \in claims : c.key = born[m].key /\ born[m].at + KeyTTL <= c.exp
    /\ \A r \in Reqs : req[r] # None =>
         /\ ValidCommand(req[r].cmd)
         /\ \A c \in claims : c.key = KeyOf(req[r]) => c.exp <= req[r].at
         /\ \A s \in Reqs \ {r} : req[s] # None => KeyOf(req[s]) # KeyOf(req[r])

IInv == TypeOK /\ RowsGood /\ SeenAges /\ NoLostUpdate /\ KeysClaimed /\ OneMessagePerKey

-----------------------------------------------------------------------------
(* What the functions given to mutate return.                                *)

GoodOutcomes(id, m, O) ==
    \A o \in O : GoodRow(id, o.row) /\ o.changed \in BOOLEAN /\ o.row.version = m.version

LEMMA SameGood ==
  ASSUME NEW id, NEW m, GoodRow(id, m)
  PROVE  GoodOutcomes(id, m, Same(m))
  <1>1. \A o \in Same(m) : o.row = m /\ o.changed = FALSE
    BY DEF Same
  <1>. QED
    BY <1>1 DEF GoodOutcomes

LEMMA ChangedGood ==
  ASSUME NEW id, NEW m, NEW n, GoodRow(id, n), n.version = m.version
  PROVE  GoodOutcomes(id, m, Changed(n)) /\ GoodOutcomes(id, m, ChangedIf(m, n))
  BY DEF GoodOutcomes, Changed, ChangedIf

LEMMA EmptyGood ==
  ASSUME NEW id, NEW m
  PROVE  GoodOutcomes(id, m, {})
  BY DEF GoodOutcomes

LEMMA EditGood ==
  ASSUME NEW id \in Msgs, NEW m, GoodRow(id, m), NEW c \in EditCommands
  PROVE  GoodOutcomes(id, m, Edit(m, c))
  <1>. DEFINE n == [m EXCEPT !.meta = IF c.meta = None THEN @ ELSE c.meta,
                             !.plain = IF c.clear THEN None
                                       ELSE IF c.body = None \/ @ = None THEN @ ELSE c.body]
  <1>1. m \in Rows
    BY DEF GoodRow
  <1>2. /\ c.meta \in Metas \union {None} /\ c.body \in Bodies \union {None} /\ c.clear \in BOOLEAN
    BY DEF EditCommands
  <1>3. n \in Rows /\ n.version = m.version
    <2>1. PICK x : x = IF c.meta = None THEN m.meta ELSE c.meta
      OBVIOUS
    <2>2. PICK y : y = IF c.clear THEN None
                       ELSE IF c.body = None \/ m.plain = None THEN m.plain ELSE c.body
      OBVIOUS
    <2>3. x \in Metas /\ y \in Bodies \union {None}
      BY <1>1, <1>2, <2>1, <2>2 DEF Rows
    <2>4. n = [m EXCEPT !.meta = x, !.plain = y]
      BY <2>1, <2>2
    <2>. HIDE DEF n
    <2>. QED
      BY <1>1, <2>3, <2>4 DEF Rows
  <1>4. Coherent(n)
    BY <1>1, <1>2 DEF Rows, GoodRow, Coherent
  <1>5. CASE Edit(m, c) = {}
    BY <1>5, EmptyGood
  <1>6. CASE Edit(m, c) # {}
    <2>1. ~(m.sensitive /\ (c.body # None \/ c.clear)) /\ ~(c.clear /\ m.files = {})
      BY <1>6 DEF Edit
    <2>2. Sealed(id, n)
      BY <1>1, <1>2, <2>1 DEF Rows, GoodRow, Sealed
    <2>3. HasContent(n)
      BY <1>1, <1>2, <2>1, NoneIsNothing DEF Rows, GoodRow, HasContent
    <2>4. Edit(m, c) = ChangedIf(m, n)
      BY <1>6 DEF Edit
    <2>5. GoodRow(id, n)
      BY <1>3, <1>4, <2>2, <2>3 DEF GoodRow
    <2>. HIDE DEF n
    <2>. QED
      BY <1>3, <2>4, <2>5, ChangedGood
  <1>. QED
    BY <1>5, <1>6

LEMMA MakePermanentGood ==
  ASSUME NEW id \in Msgs, NEW m, GoodRow(id, m)
  PROVE  GoodOutcomes(id, m, MakePermanent(m))
  <1>. DEFINE n == [m EXCEPT !.life = "PERMANENT", !.exp = None]
  <1>1. m \in Rows
    BY DEF GoodRow
  <1>2. n \in Rows /\ n.version = m.version
    BY <1>1 DEF Rows, Lifecycles
  <1>3. GoodRow(id, n)
    BY <1>1, <1>2 DEF Rows, GoodRow, Coherent, Sealed, HasContent
  <1>. HIDE DEF n
  <1>4. MakePermanent(m) \in {{}, Same(m), Changed(n)}
    BY DEF MakePermanent, n
  <1>. QED
    BY <1>2, <1>3, <1>4, EmptyGood, SameGood, ChangedGood

LEMMA ExtendExpiryGood ==
  ASSUME NEW id \in Msgs, NEW m, GoodRow(id, m), NEW days \in Nat
  PROVE  GoodOutcomes(id, m, ExtendExpiry(m, days))
  <1>. DEFINE n == [m EXCEPT !.exp = @ + days]
  <1>1. m \in Rows
    BY DEF GoodRow
  <1>2. CASE m.trashed \/ m.life # "TEMPORARY"
    BY <1>2, EmptyGood DEF ExtendExpiry
  <1>3. CASE ~(m.trashed \/ m.life # "TEMPORARY")
    <2>1. m.exp \in Nat
      BY <1>1, <1>3 DEF Rows, GoodRow, Coherent
    <2>2. n \in Rows /\ n.version = m.version
      BY <1>1, <2>1 DEF Rows
    <2>3. GoodRow(id, n)
      BY <1>1, <1>3, <2>1, <2>2, NoneIsNothing DEF Rows, GoodRow, Coherent, Sealed, HasContent
    <2>. HIDE DEF n
    <2>4. ExtendExpiry(m, days) = Changed(n)
      BY <1>3 DEF ExtendExpiry, n
    <2>. QED
      BY <2>2, <2>3, <2>4, ChangedGood
  <1>. QED
    BY <1>2, <1>3

LEMMA SetFavoriteGood ==
  ASSUME NEW id \in Msgs, NEW m, GoodRow(id, m), NEW favorite \in BOOLEAN
  PROVE  GoodOutcomes(id, m, SetFavorite(m, favorite))
  <1>. DEFINE n == [m EXCEPT !.fav = favorite]
  <1>1. m \in Rows
    BY DEF GoodRow
  <1>2. CASE m.trashed \/ (favorite /\ m.life # "PERMANENT")
    BY <1>2, EmptyGood DEF SetFavorite
  <1>3. CASE ~(m.trashed \/ (favorite /\ m.life # "PERMANENT"))
    <2>1. n \in Rows /\ n.version = m.version
      BY <1>1 DEF Rows
    <2>2. GoodRow(id, n)
      BY <1>1, <1>3, <2>1 DEF Rows, GoodRow, Coherent, Sealed, HasContent
    <2>. HIDE DEF n
    <2>3. SetFavorite(m, favorite) = ChangedIf(m, n)
      BY <1>3 DEF SetFavorite, n
    <2>. QED
      BY <2>1, <2>2, <2>3, ChangedGood
  <1>. QED
    BY <1>2, <1>3

LEMMA TrashGood ==
  ASSUME NEW id \in Msgs, NEW m, GoodRow(id, m), now \in Nat
  PROVE  GoodOutcomes(id, m, Trash(m))
  <1>. DEFINE n == [m EXCEPT !.trashed = TRUE, !.purge = now + TrashTTL]
  <1>1. m \in Rows
    BY DEF GoodRow
  <1>2. now + TrashTTL \in Nat
    BY TimesPositive
  <1>3. n \in Rows /\ n.version = m.version
    BY <1>1, <1>2 DEF Rows
  <1>4. GoodRow(id, n)
    BY <1>1, <1>2, <1>3, NoneIsNothing DEF Rows, GoodRow, Coherent, Sealed, HasContent
  <1>. HIDE DEF n
  <1>5. Trash(m) \in {Same(m), Changed(n)}
    BY DEF Trash, n
  <1>. QED
    BY <1>3, <1>4, <1>5, SameGood, ChangedGood

LEMMA RestoreGood ==
  ASSUME NEW id \in Msgs, NEW m, GoodRow(id, m), now \in Nat
  PROVE  GoodOutcomes(id, m, Restore(m))
  <1>. DEFINE e == IF m.life = "PERMANENT" THEN None
                   ELSE IF m.exp = None \/ m.exp <= now THEN now + TemporaryTTL ELSE m.exp
              n == [m EXCEPT !.trashed = FALSE, !.purge = None, !.exp = e]
  <1>1. m \in Rows
    BY DEF GoodRow
  <1>2. e \in Nat \union {None} /\ (e = None <=> m.life = "PERMANENT")
    BY <1>1, TimesPositive, NoneIsNothing DEF Rows, Lifecycles
  <1>3. Restore(m) \in {{}, Changed(n)}
    BY <1>1 DEF Restore, Rows
  <1>. HIDE DEF e
  <1>4. n \in Rows /\ n.version = m.version
    BY <1>1, <1>2 DEF Rows
  <1>5. GoodRow(id, n)
    BY <1>1, <1>2, <1>4 DEF Rows, Lifecycles, GoodRow, Coherent, Sealed, HasContent
  <1>. HIDE DEF n
  <1>. QED
    BY <1>3, <1>4, <1>5, EmptyGood, ChangedGood

LEMMA SetSensitiveGood ==
  ASSUME NEW id \in Msgs, NEW m, GoodRow(id, m), NEW sensitive \in BOOLEAN
  PROVE  GoodOutcomes(id, m, SetSensitive(id, m, sensitive))
  <1>. DEFINE up == [m EXCEPT !.sensitive = TRUE, !.plain = None,
                              !.cipher = Encrypt(id, m.owner, m.plain)]
              down(body) == [m EXCEPT !.sensitive = FALSE, !.plain = body, !.cipher = None]
  <1>1. m \in Rows
    BY DEF GoodRow
  <1>2. CASE m.trashed \/ (sensitive /\ m.sensitive # sensitive /\ m.plain = None)
    BY <1>2, EmptyGood DEF SetSensitive
  <1>3. CASE ~m.trashed /\ m.sensitive = sensitive
    BY <1>3, SameGood DEF SetSensitive
  <1>4. CASE ~m.trashed /\ m.sensitive # sensitive /\ sensitive /\ m.plain # None
    <2>1. Encrypt(id, m.owner, m.plain) \in Ciphers
      BY <1>1, <1>4 DEF Encrypt, Ciphers, Rows
    <2>2. up \in Rows /\ up.version = m.version
      BY <1>1, <2>1 DEF Rows
    <2>3. GoodRow(id, up)
      BY <1>1, <1>4, <2>1, <2>2, NoneIsNoRecord
         DEF Rows, GoodRow, Coherent, Sealed, HasContent, Encrypt
    <2>. HIDE DEF up
    <2>4. SetSensitive(id, m, sensitive) = Changed(up)
      BY <1>4 DEF SetSensitive, up
    <2>. QED
      BY <2>2, <2>3, <2>4, ChangedGood
  <1>5. CASE ~m.trashed /\ m.sensitive # sensitive /\ ~sensitive
    <2>1. SetSensitive(id, m, sensitive) = UNION {Changed(down(body)) : body \in Decrypt(id, m)}
      BY <1>5 DEF SetSensitive
    <2>2. ASSUME NEW body \in Decrypt(id, m)
          PROVE  GoodOutcomes(id, m, Changed(down(body)))
      <3>1. m.cipher \in Ciphers /\ body = m.cipher.body
        BY <1>1, <2>2 DEF Decrypt, Rows
      <3>2. body \in Bodies
        BY <3>1 DEF Ciphers
      <3>3. down(body) \in Rows /\ down(body).version = m.version
        BY <1>1, <3>2 DEF Rows
      <3>4. GoodRow(id, down(body))
        BY <1>1, <3>2, <3>3, NoneIsNothing DEF Rows, GoodRow, Coherent, Sealed, HasContent
      <3>. QED
        BY <3>3, <3>4, ChangedGood
    <2>. HIDE DEF down
    <2>. QED
      BY <2>1, <2>2 DEF GoodOutcomes
  <1>. QED
    BY <1>1, <1>2, <1>3, <1>4, <1>5 DEF Rows

LEMMA EditSensitiveGood ==
  ASSUME NEW id \in Msgs, NEW m, GoodRow(id, m), NEW body \in Bodies,
         NEW meta \in Metas \union {None}
  PROVE  GoodOutcomes(id, m, EditSensitive(id, m, body, meta))
  <1>. DEFINE n == [m EXCEPT !.cipher = Encrypt(id, m.owner, body),
                             !.meta = IF meta = None THEN @ ELSE meta]
  <1>1. m \in Rows
    BY DEF GoodRow
  <1>2. Encrypt(id, m.owner, body) \in Ciphers
    BY <1>1 DEF Encrypt, Ciphers, Rows
  <1>3. n \in Rows /\ n.version = m.version
    BY <1>1, <1>2 DEF Rows
  <1>4. CASE m.trashed \/ ~m.sensitive
    BY <1>4, EmptyGood DEF EditSensitive
  <1>5. CASE ~(m.trashed \/ ~m.sensitive)
    <2>1. GoodRow(id, n)
      BY <1>1, <1>2, <1>3, <1>5, NoneIsNoRecord
         DEF Rows, GoodRow, Coherent, Sealed, HasContent, Encrypt
    <2>. HIDE DEF n
    <2>2. EditSensitive(id, m, body, meta) = Changed(n)
      BY <1>5 DEF EditSensitive, n
    <2>. QED
      BY <1>3, <2>1, <2>2, ChangedGood
  <1>. QED
    BY <1>4, <1>5

LEMMA ReplaceTagsGood ==
  ASSUME NEW id \in Msgs, NEW m, GoodRow(id, m), NEW T \in SUBSET Tags
  PROVE  GoodOutcomes(id, m, ReplaceTags(m, T))
  <1>. DEFINE n == WithTags(m, T)
  <1>1. m \in Rows
    BY DEF GoodRow
  <1>2. n \in Rows /\ n.version = m.version
    BY <1>1 DEF Rows, WithTags
  <1>3. GoodRow(id, n)
    BY <1>1, <1>2 DEF Rows, GoodRow, Coherent, Sealed, HasContent, WithTags
  <1>. HIDE DEF n
  <1>4. ReplaceTags(m, T) \in {{}, ChangedIf(m, n)}
    BY DEF ReplaceTags, n
  <1>. QED
    BY <1>2, <1>3, <1>4, EmptyGood, ChangedGood

LEMMA AddAttachmentsGood ==
  ASSUME NEW id \in Msgs, NEW m, GoodRow(id, m), NEW files \in SUBSET Uploads
  PROVE  GoodOutcomes(id, m, AddAttachments(m, files))
  <1>. DEFINE n == [m EXCEPT !.files = @ \union files]
  <1>1. m \in Rows
    BY DEF GoodRow
  <1>2. n \in Rows /\ n.version = m.version
    BY <1>1 DEF Rows
  <1>3. GoodRow(id, n)
    BY <1>1, <1>2 DEF Rows, GoodRow, Coherent, Sealed, HasContent
  <1>. HIDE DEF n
  <1>4. AddAttachments(m, files) \in {{}, Changed(n)}
    BY DEF AddAttachments, n
  <1>. QED
    BY <1>2, <1>3, <1>4, EmptyGood, ChangedGood

\* An attachment that is not the only content: the body is there, or a second
\* attachment is.
LEMMA RemoveAttachmentGood ==
  ASSUME NEW id \in Msgs, NEW m, GoodRow(id, m), NEW file \in Uploads
  PROVE  GoodOutcomes(id, m, RemoveAttachment(m, file))
  <1>. DEFINE n == [m EXCEPT !.files = @ \ {file}]
  <1>1. m \in Rows
    BY DEF GoodRow
  <1>2. n \in Rows /\ n.version = m.version
    BY <1>1 DEF Rows
  <1>3. CASE \/ m.trashed \/ file \notin m.files
             \/ m.plain = None /\ m.cipher = None /\ Cardinality(m.files) <= 1
    BY <1>3, EmptyGood DEF RemoveAttachment
  <1>4. CASE ~(\/ m.trashed \/ file \notin m.files
               \/ m.plain = None /\ m.cipher = None /\ Cardinality(m.files) <= 1)
    <2>1. m.plain = None /\ m.cipher = None => m.files \ {file} # {}
      <3>. SUFFICES ASSUME m.plain = None, m.cipher = None, m.files \ {file} = {}
                    PROVE  FALSE
        OBVIOUS
      <3>1. m.files = {file}
        BY <1>4
      <3>2. Cardinality(m.files) = 1
        BY <3>1, FS_Singleton
      <3>. QED
        BY <1>4, <3>2
    <2>2. GoodRow(id, n)
      BY <1>1, <1>2, <2>1 DEF Rows, GoodRow, Coherent, Sealed, HasContent
    <2>. HIDE DEF n
    <2>3. RemoveAttachment(m, file) = Changed(n)
      BY <1>4 DEF RemoveAttachment, n
    <2>. QED
      BY <1>2, <2>2, <2>3, ChangedGood
  <1>. QED
    BY <1>3, <1>4

-----------------------------------------------------------------------------
(* One lemma per kind of step.                                               *)

LEMMA RowIsSome ==
  ASSUME NEW m \in Rows
  PROVE  SaveMessage(m) \in Rows /\ SaveMessage(m).version = m.version + 1
  BY DEF Rows, SaveMessage

LEMMA SavedGood ==
  ASSUME NEW id \in Msgs, NEW m, GoodRow(id, m)
  PROVE  GoodRow(id, SaveMessage(m))
  <1>1. m \in Rows
    BY DEF GoodRow
  <1>. QED
    BY <1>1, RowIsSome DEF GoodRow, Rows, Coherent, Sealed, HasContent, SaveMessage

\* A step that leaves the messages, the claims and the requests alone.
KeysSame == UNCHANGED <<born, claims, req>>

LEMMA KeysSameKeeps ==
  ASSUME IInv, KeysSame
  PROVE  KeysClaimed' /\ OneMessagePerKey'
  BY DEF IInv, KeysSame, KeysClaimed, OneMessagePerKey, KeyOf

\* What happens to a row in one step, as far as a snapshot is concerned: it
\* stays, it goes, it gets a later version, or it only loses tags.
RowStep(m, n) ==
    \/ n = None
    \/ n \in Rows /\ n.version > m.version
    \/ n \in Rows /\ n.version = m.version /\ Visible(n) = Visible(m)

LEMMA VisibleBare ==
  ASSUME NEW m \in Rows, NEW n \in Rows, Visible(n) = Visible(m)
  PROVE  Bare(n) = Bare(m) /\ n.files = m.files
  <1>1. \A r \in Rows : Bare(r) = [Visible(r) EXCEPT !.files = {}] /\ r.files = Visible(r).files
    BY DEF Rows, Visible, Bare
  <1>. QED
    BY <1>1

LEMMA RowStepsKeepSeen ==
  ASSUME IInv, msg' \in [Msgs -> Rows \union {None}], UNCHANGED <<born, seen>>,
         \A id \in Msgs : IF msg[id] = None THEN msg'[id] = None ELSE RowStep(msg[id], msg'[id])
  PROVE  SeenAges'
  <1>1. /\ \A id \in Existing : born[id] # None
        /\ seen # None => born[seen.id] # None
    BY DEF IInv, SeenAges
  <1>2. /\ \A id \in Existing' : born'[id] # None
        /\ seen' # None => born'[seen'.id] # None
    BY <1>1 DEF Existing
  <1>3. ASSUME seen # None, msg'[seen.id] # None
        PROVE  /\ seen.row.version <= msg'[seen.id].version
               /\ seen.row.version = msg'[seen.id].version =>
                     /\ Bare(seen.row) = Bare(msg'[seen.id])
                     /\ seen.loaded => seen.row.files = msg'[seen.id].files
    <2>1. seen.id \in Msgs /\ seen.row \in Rows
      BY <1>3 DEF IInv, TypeOK
    <2>. DEFINE m == msg[seen.id]
                n == msg'[seen.id]
    <2>2. m # None /\ RowStep(m, n)
      BY <1>3, <2>1
    <2>3. m \in Rows /\ n \in Rows
      BY <1>3, <2>1, <2>2 DEF IInv, TypeOK
    <2>4. /\ seen.row.version <= m.version
          /\ seen.row.version = m.version =>
                /\ Bare(seen.row) = Bare(m)
                /\ seen.loaded => seen.row.files = m.files
      BY <1>3, <2>2 DEF IInv, SeenAges
    <2>5. m.version \in Nat /\ n.version \in Nat /\ seen.row.version \in Nat
      BY <2>1, <2>3 DEF Rows
    <2>6. CASE n.version > m.version
      BY <2>4, <2>5, <2>6
    <2>7. CASE n.version = m.version /\ Visible(n) = Visible(m)
      <3>1. Bare(n) = Bare(m) /\ n.files = m.files
        BY <2>3, <2>7, VisibleBare
      <3>. QED
        BY <2>4, <2>5, <2>7, <3>1
    <2>. QED
      BY <1>3, <2>2, <2>6, <2>7 DEF RowStep
  <1>. QED
    BY <1>2, <1>3 DEF SeenAges

LEMMA MutateKeeps ==
  ASSUME IInv, NEW id \in Msgs, NEW O,
         GoodRow(id, msg[id]) /\ now \in Nat => GoodOutcomes(id, msg[id], O),
         Mutate(id, O), consumed' \in SUBSET Uploads
  PROVE  IInv'
  <1>1. msg[id] # None /\ GoodRow(id, msg[id]) /\ msg[id] \in Rows /\ now \in Nat
    BY DEF IInv, TypeOK, RowsGood, Existing, GoodRow, Mutate, LockOwnedMessage
  <1>2. PICK base \in Bases(id), o \in O :
          /\ VersionMatches(msg[id], base.version)
          /\ msg' = [msg EXCEPT ![id] = IF o.changed THEN SaveMessage(o.row) ELSE @]
          /\ lost' = (lost \/ (o.changed /\ Visible(base) # Visible(msg[id])))
    BY DEF Mutate
  <1>3. GoodRow(id, o.row) /\ o.changed \in BOOLEAN /\ o.row.version = msg[id].version
    BY <1>1, <1>2 DEF GoodOutcomes
  <1>4. o.row \in Rows
    BY <1>3 DEF GoodRow
  <1>. DEFINE n == IF o.changed THEN SaveMessage(o.row) ELSE msg[id]
  <1>5. GoodRow(id, n) /\ n \in Rows
    BY <1>1, <1>3, <1>4, SavedGood, RowIsSome
  <1>6. RowStep(msg[id], n)
    <2>1. CASE o.changed
      <3>1. n.version = msg[id].version + 1 /\ msg[id].version \in Nat
        BY <1>1, <1>3, <1>4, <2>1, RowIsSome DEF Rows
      <3>. QED
        BY <1>5, <3>1 DEF RowStep
    <2>2. CASE ~o.changed
      BY <1>5, <2>2 DEF RowStep
    <2>. QED
      BY <2>1, <2>2
  <1>7. msg' = [msg EXCEPT ![id] = n]
    BY <1>2
  <1>. HIDE DEF n
  <1>8. msg' \in [Msgs -> Rows \union {None}]
    BY <1>5, <1>7 DEF IInv, TypeOK
  <1>9. RowsGood'
    BY <1>5, <1>7, <1>8 DEF IInv, TypeOK, RowsGood, Existing
  <1>10. SeenAges'
    <2>1. \A i \in Msgs : IF msg[i] = None THEN msg'[i] = None ELSE RowStep(msg[i], msg'[i])
      <3>1. ASSUME NEW i \in Msgs, i # id, msg[i] # None
            PROVE  RowStep(msg[i], msg'[i])
        <4>1. msg'[i] = msg[i] /\ msg[i] \in Rows
          BY <1>7, <3>1 DEF IInv, TypeOK
        <4>. QED
          BY <4>1 DEF RowStep
      <3>2. msg'[id] = n
        BY <1>7 DEF IInv, TypeOK
      <3>. QED
        BY <1>1, <1>6, <1>7, <3>1, <3>2 DEF IInv, TypeOK
    <2>. QED
      BY <1>8, <2>1, RowStepsKeepSeen DEF Mutate
  <1>11. Visible(base) = Visible(msg[id])
    <2>1. CASE base = msg[id]
      BY <2>1
    <2>2. CASE Holds(id) /\ base = seen.row
      <3>1. seen # None /\ seen.id = id /\ seen.loaded /\ seen.row \in Rows
        BY <2>2 DEF Holds, IInv, TypeOK
      <3>2. Bare(base) = Bare(msg[id]) /\ base.files = msg[id].files
        BY <1>1, <1>2, <2>2, <3>1 DEF VersionMatches, IInv, SeenAges
      <3>3. \A r \in Rows : Visible(r) = [Bare(r) EXCEPT !.files = r.files]
        BY DEF Rows, Visible, Bare
      <3>. QED
        BY <1>1, <2>2, <3>1, <3>2, <3>3
    <2>. QED
      BY <1>2, <2>1, <2>2 DEF Bases
  <1>12. lost' = lost
    BY <1>2, <1>11 DEF IInv, TypeOK
  <1>13. TypeOK'
    BY <1>8, <1>12 DEF IInv, TypeOK, Mutate
  <1>14. KeysSame
    BY DEF Mutate, KeysSame
  <1>. QED
    BY <1>9, <1>10, <1>12, <1>13, <1>14, KeysSameKeeps DEF IInv, NoLostUpdate

\* A change of one message other than its deletion is a call of mutate whose
\* function keeps the row good.
GoodMutation(id) ==
    /\ consumed' \in SUBSET Uploads
    /\ \E O : /\ Mutate(id, O)
              /\ GoodRow(id, msg[id]) /\ now \in Nat => GoodOutcomes(id, msg[id], O)

LEMMA ChangesMutate ==
  ASSUME IInv, NEW id \in Msgs, Change(id), ~PermanentlyDelete(id)
  PROVE  GoodMutation(id)
  <1>1. UNCHANGED consumed => consumed' \in SUBSET Uploads
    BY DEF IInv, TypeOK
  <1>2. CASE EditMessage(id)
    BY <1>1, <1>2, EditGood DEF EditMessage, GoodMutation
  <1>3. CASE MakeMessagePermanent(id)
    BY <1>1, <1>3, MakePermanentGood DEF MakeMessagePermanent, GoodMutation
  <1>4. CASE ExtendMessageExpiry(id)
    BY <1>1, <1>4, ExtendExpiryGood DEF ExtendMessageExpiry, GoodMutation
  <1>5. CASE SetMessageFavorite(id)
    BY <1>1, <1>5, SetFavoriteGood DEF SetMessageFavorite, GoodMutation
  <1>6. CASE TrashMessage(id)
    BY <1>1, <1>6, TrashGood DEF TrashMessage, GoodMutation
  <1>7. CASE RestoreMessage(id)
    BY <1>1, <1>7, RestoreGood DEF RestoreMessage, GoodMutation
  <1>8. CASE SetMessageSensitive(id)
    BY <1>1, <1>8, SetSensitiveGood DEF SetMessageSensitive, GoodMutation
  <1>9. CASE EditSensitiveBody(id)
    BY <1>1, <1>9, EditSensitiveGood DEF EditSensitiveBody, GoodMutation
  <1>10. CASE ReplaceMessageTags(id)
    BY <1>1, <1>10, ReplaceTagsGood DEF ReplaceMessageTags, GoodMutation
  <1>11. CASE RemoveMessageAttachment(id)
    BY <1>1, <1>11, RemoveAttachmentGood DEF RemoveMessageAttachment, GoodMutation
  <1>12. CASE AddMessageAttachments(id)
    <2>1. PICK files \in SUBSET Uploads :
            Mutate(id, AddAttachments(msg[id], files)) /\ consumed' = consumed \union files
      BY <1>12 DEF AddMessageAttachments
    <2>2. consumed' \in SUBSET Uploads
      BY <2>1 DEF IInv, TypeOK
    <2>. QED
      BY <2>1, <2>2, AddAttachmentsGood DEF GoodMutation
  <1>. QED
    BY <1>2, <1>3, <1>4, <1>5, <1>6, <1>7, <1>8, <1>9, <1>10, <1>11, <1>12 DEF Change

LEMMA ChangeKeeps ==
  ASSUME IInv, NEW id \in Msgs, Change(id)
  PROVE  IInv'
  <1>1. CASE PermanentlyDelete(id)
    <2>1. msg' = [msg EXCEPT ![id] = None]
      BY <1>1 DEF PermanentlyDelete, DeleteTrashedOwnedMessage
    <2>2. UNCHANGED <<born, claims, consumed, tags, req, tagTx, seen, lost, now>>
      BY <1>1 DEF PermanentlyDelete, client
    <2>3. TypeOK'
      BY <2>1, <2>2 DEF IInv, TypeOK
    <2>4. RowsGood'
      BY <2>1 DEF IInv, TypeOK, RowsGood, Existing
    <2>5. \A i \in Msgs : IF msg[i] = None THEN msg'[i] = None ELSE RowStep(msg[i], msg'[i])
      BY <2>1 DEF IInv, TypeOK, RowStep
    <2>6. SeenAges'
      BY <2>2, <2>3, <2>5, RowStepsKeepSeen DEF TypeOK
    <2>. QED
      BY <2>2, <2>3, <2>4, <2>6, KeysSameKeeps DEF IInv, KeysSame, NoLostUpdate
  <1>2. CASE ~PermanentlyDelete(id)
    BY <1>2, ChangesMutate, MutateKeeps DEF GoodMutation
  <1>. QED
    BY <1>1, <1>2

\* A step that leaves the tables alone.
LEMMA ReadersKeep ==
  ASSUME IInv, UNCHANGED <<msg, born, lost>>, KeysClaimed', TypeOK', SeenAges'
  PROVE  IInv'
  BY DEF IInv, RowsGood, Existing, NoLostUpdate, OneMessagePerKey

LEMMA ClaimKeeps ==
  ASSUME IInv, NEW r \in Reqs, NEW op, ClaimIdempotency(r, op)
  PROVE  IInv'
  <1>1. PICK cmd \in Commands[r], key \in Keys, at \in 0 .. now :
          /\ ValidCommand(cmd)
          /\ LockIdempotencyClaim(r, [cmd |-> cmd, key |-> key, at |-> at])
          /\ \A c \in GetIdempotencyClaim([cmd |-> cmd, key |-> key, at |-> at]) : c.exp <= at
          /\ req' = [req EXCEPT ![r] = [cmd |-> cmd, key |-> key, at |-> at]]
    BY DEF ClaimIdempotency
  <1>. DEFINE q == [cmd |-> cmd, key |-> key, at |-> at]
  <1>2. UNCHANGED <<msg, born, claims, consumed, tags, tagTx, seen, lost, now>>
    BY DEF ClaimIdempotency, tables, client
  <1>3. cmd \in CommandType /\ at \in Nat
    <2>1. cmd \in CommandType
      BY CommandsTyped
    <2>2. now \in Nat
      BY DEF IInv, TypeOK
    <2>. QED
      BY <2>1, <2>2
  <1>4. TypeOK'
    <2>1. q \in [cmd : CommandType, key : Keys, at : Nat] /\ req' = [req EXCEPT ![r] = q]
      BY <1>1, <1>3
    <2>. HIDE DEF q
    <2>. QED
      BY <1>2, <2>1 DEF IInv, TypeOK
  <1>5. req'[r] = q /\ \A s \in Reqs \ {r} : req'[s] = req[s]
    BY <1>1 DEF IInv, TypeOK
  <1>6. KeysClaimed'
    <2>1. \A c \in claims : c.key = KeyOf(q) => c.exp <= q.at
      BY <1>1 DEF GetIdempotencyClaim
    <2>2. \A s \in Reqs \ {r} : req[s] # None => KeyOf(req[s]) # KeyOf(q)
      BY <1>1 DEF LockIdempotencyClaim
    <2>3. ValidCommand(q.cmd)
      BY <1>1
    <2>4. KeysClaimed
      BY DEF IInv
    <2>. HIDE DEF q
    <2>. QED
      BY <1>2, <1>5, <2>1, <2>2, <2>3, <2>4 DEF KeysClaimed, KeyOf
  <1>7. SeenAges'
    BY <1>2 DEF IInv, SeenAges, Existing
  <1>. QED
    BY <1>2, <1>4, <1>6, <1>7, ReadersKeep

\* The row that a request makes.
LEMMA NewMessageGood ==
  ASSUME NEW id \in Msgs, NEW owner \in Users, NEW meta \in Metas, NEW body \in Bodies \union {None},
         NEW life \in Lifecycles, NEW sensitive \in BOOLEAN, NEW files \in SUBSET Uploads,
         NEW T \in SUBSET Tags, NEW at \in Nat,
         body # None \/ files # {}, sensitive => body # None
  PROVE  GoodRow(id, NewMessage(id, owner, meta, body, life, sensitive, files, T, at))
  <1>. DEFINE n == NewMessage(id, owner, meta, body, life, sensitive, files, T, at)
  <1>1. at + TemporaryTTL \in Nat /\ at + TemporaryTTL # None
    BY TimesPositive, NoneIsNothing
  <1>2. sensitive => Encrypt(id, owner, body) \in Ciphers /\ Encrypt(id, owner, body) # None
    BY NoneIsNoRecord DEF Encrypt, Ciphers
  <1>3. n \in Rows
    BY <1>1, <1>2 DEF NewMessage, Rows
  <1>4. Coherent(n)
    BY <1>1 DEF NewMessage, Coherent, Lifecycles
  <1>5. Sealed(id, n)
    BY <1>2 DEF NewMessage, Sealed, Encrypt
  <1>6. HasContent(n)
    BY <1>2 DEF NewMessage, HasContent
  <1>. QED
    BY <1>3, <1>4, <1>5, <1>6 DEF GoodRow

LEMMA InsertedGood ==
  ASSUME IInv, NEW id \in Msgs, NEW cmd \in CommandType, ValidCommand(cmd), NEW at \in Nat,
         NEW row \in InsertRows(id, cmd, at)
  PROVE  GoodRow(id, row)
  <1>1. /\ cmd.user \in Users /\ cmd.to \in Users /\ cmd.meta \in Metas
        /\ cmd.body \in Bodies \union {None} /\ cmd.life \in Lifecycles /\ cmd.sensitive \in BOOLEAN
        /\ cmd.files \in SUBSET Uploads /\ cmd.tags \in SUBSET Tags
        /\ cmd.op \in {"create", "direct", "forward"} /\ cmd.src \in Msgs \union {None}
    BY DEF CommandType
  <1>2. CASE cmd.op = "create"
    <2>1. row = NewMessage(id, cmd.user, cmd.meta, cmd.body, cmd.life, cmd.sensitive,
                           cmd.files, cmd.tags, at)
      BY <1>2 DEF InsertRows, CreateRows
    <2>. QED
      BY <1>1, <1>2, <2>1, NewMessageGood DEF ValidCommand
  <1>3. CASE cmd.op = "direct"
    <2>1. row = NewMessage(id, cmd.to, cmd.meta, cmd.body, "TEMPORARY", cmd.sensitive,
                           cmd.files, {}, at)
      BY <1>3 DEF InsertRows, DirectRows
    <2>. QED
      BY <1>1, <1>3, <2>1, NewMessageGood DEF ValidCommand, Lifecycles
  <1>4. CASE cmd.op = "forward"
    <2>. DEFINE m == msg[cmd.src]
    <2>1. cmd.src \in Msgs
      BY <1>1, <1>4 DEF ValidCommand
    <2>2. LockOwnedMessage(cmd.src)
      BY <1>4 DEF InsertRows, ForwardRows
    <2>3. PICK body \in ForwardBodies(cmd.src, m) :
            row = NewMessage(id, cmd.to, m.meta, body, "TEMPORARY", m.sensitive, m.files, {}, at)
      BY <1>4 DEF InsertRows, ForwardRows
    <2>4. GoodRow(cmd.src, m) /\ m \in Rows
      BY <2>1, <2>2 DEF LockOwnedMessage, IInv, RowsGood, Existing, GoodRow
    <2>5. m.meta \in Metas /\ m.sensitive \in BOOLEAN /\ m.files \in SUBSET Uploads
          /\ m.plain \in Bodies \union {None} /\ m.cipher \in Ciphers \union {None}
      BY <2>4 DEF Rows
    <2>6. /\ body \in Bodies \union {None}
          /\ body # None \/ m.files # {}
          /\ m.sensitive => body # None
      <3>1. CASE m.sensitive
        <4>1. m.cipher \in Ciphers /\ body = m.cipher.body
          BY <2>3, <2>5, <3>1 DEF ForwardBodies, Decrypt
        <4>2. body \in Bodies
          BY <4>1 DEF Ciphers
        <4>. QED
          BY <4>2, NoneIsNothing
      <3>2. CASE ~m.sensitive
        BY <2>3, <2>5, <3>2 DEF ForwardBodies
      <3>. QED
        BY <3>1, <3>2
    <2>. HIDE DEF m
    <2>. QED
      BY <1>1, <2>3, <2>5, <2>6, NewMessageGood DEF Lifecycles
  <1>. QED
    BY <1>1, <1>2, <1>3, <1>4

-----------------------------------------------------------------------------
(* The commit of a request.                                                  *)

\* The new claim of the key replaces one that had expired when the request
\* read the clock.
LEMMA CommittedKeys ==
  ASSUME IInv, NEW r \in Reqs, req[r] # None, NEW id \in Msgs, born[id] = None,
         born' = [born EXCEPT ![id] = [key |-> KeyOf(req[r]), at |-> req[r].at]],
         claims' = CompleteIdempotency(req[r]),
         req' = [req EXCEPT ![r] = None]
  PROVE  KeysClaimed' /\ OneMessagePerKey'
  <1>. DEFINE q == req[r]
              k == KeyOf(req[r])
              b == [key |-> k, at |-> q.at]
              d == [key |-> k, cmd |-> q.cmd, exp |-> q.at + KeyTTL]
  <1>1. q.at \in Nat /\ KeyTTL \in Nat
    BY TimesPositive DEF IInv, TypeOK
  <1>2. k \in KeyType
    BY DEF IInv, TypeOK, KeyOf, KeyType, CommandType
  <1>3. b \in Births /\ b # None /\ b.key = k /\ b.at = q.at
    BY <1>1, <1>2, NoneIsNoRecord DEF Births
  <1>4. born'[id] = b /\ \A m \in Msgs \ {id} : born'[m] = born[m]
    BY DEF IInv, TypeOK
  <1>5. \A m \in Msgs : born[m] # None => born[m].at \in Nat
    BY DEF IInv, TypeOK, Births
  <1>6. \A c \in claims : c.exp \in Nat
    BY DEF IInv, TypeOK
  <1>7. \A c : c \in claims' <=> (c \in claims /\ c.key # k) \/ c = d
    BY DEF CompleteIdempotency, GetIdempotencyClaim
  <1>8. d.key = k /\ d.exp = q.at + KeyTTL
    OBVIOUS
  <1>9. req'[r] = None /\ \A s \in Reqs \ {r} : req'[s] = req[s]
    BY DEF IInv, TypeOK
  <1>10. /\ \A c \in claims : c.key = k => c.exp <= q.at
         /\ \A s \in Reqs \ {r} : req[s] # None => KeyOf(req[s]) # k
    BY DEF IInv, KeysClaimed
  <1>11. /\ \A c, e \in claims : c.key = e.key => c = e
         /\ \A m \in Msgs : born[m] # None =>
              \E c \in claims : c.key = born[m].key /\ born[m].at + KeyTTL <= c.exp
         /\ \A s \in Reqs : req[s] # None =>
              /\ ValidCommand(req[s].cmd)
              /\ \A c \in claims : c.key = KeyOf(req[s]) => c.exp <= req[s].at
              /\ \A t \in Reqs \ {s} : req[t] # None => KeyOf(req[t]) # KeyOf(req[s])
    BY DEF IInv, KeysClaimed
  <1>12. \A m \in Msgs : (born[m] # None /\ born[m].key = k) => born[m].at + KeyTTL <= q.at
    <2>. SUFFICES ASSUME NEW m \in Msgs, born[m] # None, born[m].key = k
                  PROVE  born[m].at + KeyTTL <= q.at
      OBVIOUS
    <2>1. PICK c \in claims : c.key = born[m].key /\ born[m].at + KeyTTL <= c.exp
      BY <1>11
    <2>2. c.exp <= q.at
      BY <1>10, <2>1
    <2>. QED
      BY <1>1, <1>5, <1>6, <2>1, <2>2
  <1>. HIDE DEF q, k, b, d
  <1>13. \A c, e \in claims' : c.key = e.key => c = e
    BY <1>7, <1>8, <1>11
  <1>14. ASSUME NEW m \in Msgs, born'[m] # None
         PROVE  \E c \in claims' : c.key = born'[m].key /\ born'[m].at + KeyTTL <= c.exp
    <2>1. CASE m = id
      BY <1>1, <1>3, <1>4, <1>7, <1>8, <2>1
    <2>2. CASE m # id /\ born[m].key = k
      <3>1. born'[m] = born[m] /\ born[m].at + KeyTTL <= q.at
        BY <1>4, <1>12, <1>14, <2>2
      <3>2. born[m].at + KeyTTL <= q.at + KeyTTL
        BY <1>1, <1>4, <1>5, <1>14, <2>2, <3>1
      <3>. QED
        BY <1>7, <1>8, <2>2, <3>1, <3>2
    <2>3. CASE m # id /\ born[m].key # k
      BY <1>4, <1>7, <1>11, <1>14, <2>3
    <2>. QED
      BY <2>1, <2>2, <2>3
  <1>15. ASSUME NEW s \in Reqs, req'[s] # None
         PROVE  /\ ValidCommand(req'[s].cmd)
                /\ \A c \in claims' : c.key = KeyOf(req'[s]) => c.exp <= req'[s].at
                /\ \A t \in Reqs \ {s} : req'[t] # None => KeyOf(req'[t]) # KeyOf(req'[s])
    <2>1. s # r /\ req'[s] = req[s] /\ req[s] # None
      BY <1>9, <1>15
    <2>2. KeyOf(req[s]) # k
      BY <1>10, <2>1
    <2>3. \A t \in Reqs \ {s} : req'[t] # None => req'[t] = req[t]
      BY <1>9
    <2>. QED
      BY <1>7, <1>8, <1>11, <2>1, <2>2, <2>3
  <1>16. KeysClaimed'
    BY <1>13, <1>14, <1>15 DEF KeysClaimed, KeyOf
  <1>17. OneMessagePerKey'
    <2>. SUFFICES ASSUME NEW m \in Msgs, NEW n \in Msgs, m # n, born'[m] # None, born'[n] # None,
                         born'[m].key = born'[n].key
                  PROVE  \/ born'[m].at + KeyTTL <= born'[n].at
                         \/ born'[n].at + KeyTTL <= born'[m].at
      BY DEF OneMessagePerKey
    <2>1. CASE m = id
      BY <1>3, <1>4, <1>12, <2>1
    <2>2. CASE n = id
      BY <1>3, <1>4, <1>12, <2>2
    <2>3. CASE m # id /\ n # id
      BY <1>4, <2>3 DEF IInv, OneMessagePerKey
    <2>. QED
      BY <2>1, <2>2, <2>3
  <1>. QED
    BY <1>16, <1>17

LEMMA CommitKeeps ==
  ASSUME IInv, NEW r \in Reqs, Commit(r)
  PROVE  IInv'
  <1>1. PICK id \in NewIds : \E row \in InsertRows(id, req[r].cmd, req[r].at) :
          /\ msg' = [msg EXCEPT ![id] = row]
          /\ born' = [born EXCEPT ![id] = [key |-> KeyOf(req[r]), at |-> req[r].at]]
          /\ claims' = CompleteIdempotency(req[r])
    BY DEF Commit
  <1>2. PICK row \in InsertRows(id, req[r].cmd, req[r].at) :
          /\ msg' = [msg EXCEPT ![id] = row]
          /\ born' = [born EXCEPT ![id] = [key |-> KeyOf(req[r]), at |-> req[r].at]]
          /\ claims' = CompleteIdempotency(req[r])
    BY <1>1
  <1>3. /\ req[r] # None /\ req' = [req EXCEPT ![r] = None]
        /\ consumed' = consumed \union req[r].cmd.files
        /\ UNCHANGED <<tags, tagTx, seen, lost, now>>
    BY DEF Commit, client
  <1>4. req[r].cmd \in CommandType /\ req[r].at \in Nat /\ req[r].key \in Keys
    BY <1>3 DEF IInv, TypeOK
  <1>5. ValidCommand(req[r].cmd)
    BY <1>3 DEF IInv, KeysClaimed
  <1>6. id \in Msgs /\ born[id] = None
    BY BoundsTyped DEF NewIds, Msgs
  <1>7. msg[id] = None /\ (seen # None => seen.id # id)
    BY <1>6 DEF IInv, SeenAges, Existing
  <1>8. GoodRow(id, row) /\ row \in Rows
    BY <1>4, <1>5, <1>6, InsertedGood DEF GoodRow
  <1>9. KeysClaimed' /\ OneMessagePerKey'
    BY <1>2, <1>3, <1>6, CommittedKeys
  <1>10. KeyOf(req[r]) \in KeyType
    BY <1>4 DEF KeyOf, KeyType, CommandType
  <1>. DEFINE b == [key |-> KeyOf(req[r]), at |-> req[r].at]
  <1>11. b \in Births /\ b # None
    BY <1>4, <1>10, NoneIsNoRecord DEF Births
  <1>12. born' = [born EXCEPT ![id] = b]
    BY <1>2
  <1>. HIDE DEF b
  <1>13. /\ msg' \in [Msgs -> Rows \union {None}]
         /\ born' \in [Msgs -> Births \union {None}]
         /\ consumed' \subseteq Uploads
         /\ req' \in [Reqs -> [cmd : CommandType, key : Keys, at : Nat] \union {None}]
    <2>1. req[r].cmd.files \in SUBSET Uploads
      BY <1>4 DEF CommandType
    <2>. QED
      BY <1>2, <1>3, <1>8, <1>11, <1>12, <2>1 DEF IInv, TypeOK
  <1>14. claims' \subseteq [key : KeyType, cmd : CommandType, exp : Nat]
    <2>1. req[r].at + KeyTTL \in Nat
      BY <1>4, TimesPositive
    <2>2. [key |-> KeyOf(req[r]), cmd |-> req[r].cmd, exp |-> req[r].at + KeyTTL]
            \in [key : KeyType, cmd : CommandType, exp : Nat]
      BY <1>4, <1>10, <2>1
    <2>. QED
      BY <1>2, <2>2 DEF CompleteIdempotency, IInv, TypeOK
  <1>15. TypeOK'
    BY <1>3, <1>13, <1>14 DEF IInv, TypeOK
  <1>16. RowsGood'
    BY <1>2, <1>8, <1>13 DEF IInv, TypeOK, RowsGood, Existing
  <1>17. SeenAges'
    <2>1. \A i \in Msgs : born[i] # None => born'[i] # None
      BY <1>11, <1>12 DEF IInv, TypeOK
    <2>2. \A i \in Msgs : i # id => msg'[i] = msg[i]
      BY <1>2 DEF IInv, TypeOK
    <2>3. born'[id] # None
      BY <1>6, <1>11, <1>12 DEF IInv, TypeOK
    <2>4. seen # None => seen.id \in Msgs
      BY DEF IInv, TypeOK
    <2>5. \A i \in Existing' : born'[i] # None
      BY <2>1, <2>2, <2>3 DEF IInv, SeenAges, Existing
    <2>6. ASSUME seen # None PROVE msg'[seen.id] = msg[seen.id] /\ born'[seen.id] # None
      BY <1>7, <2>1, <2>2, <2>4, <2>6 DEF IInv, SeenAges
    <2>. QED
      BY <1>3, <2>5, <2>6 DEF IInv, SeenAges
  <1>. QED
    BY <1>3, <1>9, <1>15, <1>16, <1>17 DEF IInv, NoLostUpdate

LEMMA RollbackKeeps ==
  ASSUME IInv, NEW r \in Reqs, Rollback(r)
  PROVE  IInv'
  <1>1. /\ req' = [req EXCEPT ![r] = None]
        /\ UNCHANGED <<msg, born, claims, consumed, tags, tagTx, seen, lost, now>>
    BY DEF Rollback, tables, client
  <1>2. TypeOK'
    BY <1>1 DEF IInv, TypeOK
  <1>3. \A s \in Reqs : req'[s] # None => req'[s] = req[s]
    BY <1>1 DEF IInv, TypeOK
  <1>4. KeysClaimed'
    BY <1>1, <1>3 DEF IInv, KeysClaimed, KeyOf
  <1>5. SeenAges'
    BY <1>1 DEF IInv, SeenAges, Existing
  <1>. QED
    BY <1>1, <1>2, <1>4, <1>5, ReadersKeep

-----------------------------------------------------------------------------
(* Tags, readers, the clock and the scheduler.                               *)

\* A step that changes neither messages nor requests nor what was seen.
LEMMA QuietKeeps ==
  ASSUME IInv, UNCHANGED <<msg, born, claims, req, seen, lost>>, TypeOK'
  PROVE  IInv'
  <1>1. KeysClaimed' /\ OneMessagePerKey'
    BY KeysSameKeeps DEF KeysSame
  <1>2. SeenAges'
    BY DEF IInv, SeenAges, Existing
  <1>. QED
    BY <1>1, <1>2, ReadersKeep

LEMMA TagsKeep ==
  ASSUME IInv, NEW t \in Tags, CreateTag(t) \/ DeleteTagLock(t)
  PROVE  IInv'
  <1>1. CASE CreateTag(t)
    BY <1>1, QuietKeeps DEF CreateTag, client, IInv, TypeOK
  <1>2. CASE DeleteTagLock(t)
    <2>1. LockTagAffectedMessages(t) \in SUBSET Msgs
      BY DEF LockTagAffectedMessages
    <2>2. TypeOK'
      BY <1>2, <2>1 DEF DeleteTagLock, tables, client, IInv, TypeOK
    <2>. QED
      BY <1>2, <2>2, QuietKeeps DEF DeleteTagLock, tables, client
  <1>. QED
    BY <1>1, <1>2

LEMMA TickKeeps ==
  ASSUME IInv, Tick
  PROVE  IInv'
  BY QuietKeeps DEF Tick, tables, client, IInv, TypeOK

\* A step of a transaction that changes rows, each for itself.
LEMMA RowsKeep ==
  ASSUME IInv, UNCHANGED <<born, claims, req, seen, lost>>, TypeOK',
         \A id \in Msgs : \/ msg'[id] = msg[id]
                          \/ msg'[id] = None
                          \/ /\ msg[id] # None /\ GoodRow(id, msg'[id])
                             /\ RowStep(msg[id], msg'[id])
  PROVE  IInv'
  <1>1. RowsGood'
    BY DEF IInv, RowsGood, Existing
  <1>2. \A id \in Msgs : msg[id] # None => msg[id] \in Rows
    BY DEF IInv, TypeOK
  <1>3. \A id \in Msgs : IF msg[id] = None THEN msg'[id] = None ELSE RowStep(msg[id], msg'[id])
    BY <1>2 DEF RowStep
  <1>4. SeenAges'
    BY <1>3, RowStepsKeepSeen DEF TypeOK
  <1>5. KeysClaimed' /\ OneMessagePerKey'
    BY KeysSameKeeps DEF KeysSame
  <1>. QED
    BY <1>1, <1>4, <1>5 DEF IInv, NoLostUpdate

LEMMA UntaggedGood ==
  ASSUME NEW id \in Msgs, NEW m, GoodRow(id, m), NEW t
  PROVE  LET n == [m EXCEPT !.tags = @ \ {t}] IN
         GoodRow(id, n) /\ n.version = m.version /\ Visible(n) = Visible(m)
  <1>. DEFINE n == [m EXCEPT !.tags = @ \ {t}]
  <1>1. m \in Rows
    BY DEF GoodRow
  <1>2. n \in Rows /\ n.version = m.version
    BY <1>1 DEF Rows
  <1>3. Visible(n) = Visible(m)
    BY <1>1 DEF Rows, Visible
  <1>4. GoodRow(id, n)
    BY <1>1, <1>2 DEF Rows, GoodRow, Coherent, Sealed, HasContent
  <1>. QED
    BY <1>2, <1>3, <1>4

LEMMA DeleteTagKeeps ==
  ASSUME IInv, DeleteTag
  PROVE  IInv'
  <1>. DEFINE new(id) == [BumpTagAffectedMessages(id) EXCEPT !.tags = @ \ {tagTx.tag}]
  <1>1. UNCHANGED <<born, claims, consumed, req, seen, lost, now>>
    BY DEF DeleteTag, client
  <1>2. \A id \in Msgs : msg'[id] = IF msg[id] = None THEN None ELSE new(id)
    BY DEF DeleteTag
  <1>3. ASSUME NEW id \in Msgs, msg[id] # None
        PROVE  GoodRow(id, new(id)) /\ RowStep(msg[id], new(id)) /\ new(id) \in Rows
    <2>1. GoodRow(id, msg[id]) /\ msg[id] \in Rows
      BY <1>3 DEF IInv, RowsGood, Existing, GoodRow
    <2>2. msg[id].version \in Nat
      BY <2>1 DEF Rows
    <2>3. CASE id \in tagTx.locked
      <3>1. BumpTagAffectedMessages(id) = SaveMessage(msg[id])
        BY <2>3 DEF BumpTagAffectedMessages
      <3>2. GoodRow(id, SaveMessage(msg[id])) /\ SaveMessage(msg[id]).version = msg[id].version + 1
        BY <2>1, SavedGood, RowIsSome
      <3>3. GoodRow(id, new(id)) /\ new(id).version = msg[id].version + 1
        BY <3>1, <3>2, UntaggedGood
      <3>. HIDE DEF new
      <3>4. new(id) \in Rows
        BY <3>3 DEF GoodRow
      <3>. QED
        BY <2>2, <3>3, <3>4 DEF RowStep
    <2>4. CASE id \notin tagTx.locked
      <3>1. BumpTagAffectedMessages(id) = msg[id]
        BY <2>4 DEF BumpTagAffectedMessages
      <3>2. GoodRow(id, new(id)) /\ new(id).version = msg[id].version
            /\ Visible(new(id)) = Visible(msg[id])
        BY <2>1, <3>1, UntaggedGood
      <3>. HIDE DEF new
      <3>3. new(id) \in Rows
        BY <3>2 DEF GoodRow
      <3>. QED
        BY <3>2, <3>3 DEF RowStep
    <2>. QED
      BY <2>3, <2>4
  <1>4. msg' = [id \in Msgs |-> IF msg[id] = None THEN None ELSE new(id)]
    BY DEF DeleteTag
  <1>5. tags' = [tags EXCEPT ![tagTx.tag] = "deleted"] /\ tagTx' = None
    BY DEF DeleteTag
  <1>. HIDE DEF new
  <1>6. TypeOK'
    BY <1>1, <1>3, <1>4, <1>5 DEF IInv, TypeOK
  <1>. QED
    BY <1>1, <1>2, <1>3, <1>6, RowsKeep

LEMMA ReadKeeps ==
  ASSUME IInv, NEW id \in Msgs, msg[id] # None, Read(id)
  PROVE  IInv'
  <1>1. /\ seen' = [id |-> id, row |-> msg[id], loaded |-> FALSE]
        /\ UNCHANGED <<msg, born, claims, consumed, tags, req, tagTx, lost, now>>
    BY DEF Read, tables
  <1>2. msg[id] \in Rows /\ msg[id].version \in Nat
    BY DEF IInv, TypeOK, Rows
  <1>3. TypeOK'
    BY <1>1, <1>2 DEF IInv, TypeOK
  <1>4. seen'.id = id /\ seen'.row = msg[id] /\ seen'.loaded = FALSE
    BY <1>1
  <1>5. \A i \in Existing : born[i] # None
    BY DEF IInv, SeenAges
  <1>6. SeenAges'
    BY <1>1, <1>2, <1>4, <1>5 DEF SeenAges, Existing
  <1>7. KeysClaimed'
    BY <1>1, KeysSameKeeps DEF KeysSame
  <1>. QED
    BY <1>1, <1>3, <1>6, <1>7, ReadersKeep

LEMMA LoadKeeps ==
  ASSUME IInv, LoadDetails
  PROVE  IInv'
  <1>. DEFINE T == ListMessageTags(seen.id)
              F == LoadAttachments(seen.id)
              row == [seen.row EXCEPT !.tags = T, !.files = F]
  <1>1. seen # None /\ UNCHANGED <<msg, born, claims, consumed, tags, req, tagTx, lost, now>>
    BY DEF LoadDetails, tables
  <1>2. seen.id \in Msgs /\ seen.row \in Rows /\ seen \in [id : Msgs, row : Rows, loaded : BOOLEAN]
    BY <1>1 DEF IInv, TypeOK
  <1>3. T \in SUBSET Tags /\ F \in SUBSET Uploads
    BY <1>2 DEF ListMessageTags, LoadAttachments, IInv, TypeOK, Rows
  <1>4. msg[seen.id] # None => F = msg[seen.id].files
    BY DEF LoadAttachments
  <1>. HIDE DEF T, F
  <1>5. row \in Rows /\ Bare(row) = Bare(seen.row) /\ row.version = seen.row.version
        /\ row.files = F
    BY <1>2, <1>3 DEF Rows, Bare
  <1>6. seen' = [id |-> seen.id, row |-> row, loaded |-> TRUE]
    BY <1>2 DEF LoadDetails, Rows, T, F
  <1>. HIDE DEF row
  <1>7. TypeOK'
    BY <1>1, <1>2, <1>5, <1>6 DEF IInv, TypeOK
  <1>8. seen'.id = seen.id /\ seen'.row = row /\ seen'.loaded
    BY <1>6
  <1>9. SeenAges'
    BY <1>1, <1>4, <1>5, <1>8 DEF IInv, SeenAges, Existing
  <1>10. KeysClaimed'
    BY <1>1, KeysSameKeeps DEF KeysSame
  <1>. QED
    BY <1>1, <1>7, <1>9, <1>10, ReadersKeep

LEMMA ExpiredGood ==
  ASSUME NEW id \in Msgs, NEW m, GoodRow(id, m), now \in Nat
  PROVE  GoodRow(id, ExpireDueTemporary(m)) /\ RowStep(m, ExpireDueTemporary(m))
  <1>. DEFINE n == ExpireDueTemporary(m)
  <1>1. m \in Rows
    BY DEF GoodRow
  <1>2. now + TrashTTL \in Nat
    BY TimesPositive
  <1>3. n \in Rows /\ n.version = m.version + 1 /\ m.version \in Nat
    <2>1. m.version \in Nat /\ m.version + 1 \in Nat
      BY <1>1 DEF Rows
    <2>. QED
      BY <1>1, <1>2, <2>1 DEF Rows, ExpireDueTemporary
  <1>4. GoodRow(id, n)
    BY <1>1, <1>2, <1>3, NoneIsNothing
       DEF Rows, GoodRow, Coherent, Sealed, HasContent, ExpireDueTemporary
  <1>. QED
    BY <1>3, <1>4 DEF RowStep

LEMMA ExpireKeeps ==
  ASSUME IInv, ExpireTemporary
  PROVE  IInv'
  <1>1. PICK S \in FullBatches(DueTemporary) :
          msg' = [id \in Msgs |-> IF id \in S THEN ExpireDueTemporary(msg[id]) ELSE msg[id]]
    BY DEF ExpireTemporary
  <1>2. UNCHANGED <<born, claims, consumed, tags, req, tagTx, seen, lost, now>>
    BY DEF ExpireTemporary, client
  <1>3. \A id \in S : id \in Msgs /\ msg[id] # None
    BY DEF FullBatches, DueTemporary
  <1>4. \A id \in S : GoodRow(id, ExpireDueTemporary(msg[id]))
                      /\ RowStep(msg[id], ExpireDueTemporary(msg[id]))
    BY <1>3, ExpiredGood DEF IInv, TypeOK, RowsGood, Existing
  <1>5. \A id \in S : ExpireDueTemporary(msg[id]) \in Rows
    BY <1>4 DEF GoodRow
  <1>6. TypeOK'
    BY <1>1, <1>2, <1>5 DEF IInv, TypeOK
  <1>. QED
    BY <1>1, <1>2, <1>3, <1>4, <1>6, RowsKeep

LEMMA PurgeKeeps ==
  ASSUME IInv, PurgeTrash
  PROVE  IInv'
  <1>1. PICK S \in FullBatches(DuePurge) :
          msg' = [id \in Msgs |-> IF id \in S THEN None ELSE msg[id]]
    BY DEF PurgeTrash
  <1>2. UNCHANGED <<born, claims, consumed, tags, req, tagTx, seen, lost, now>>
    BY DEF PurgeTrash, client
  <1>3. TypeOK'
    BY <1>1, <1>2 DEF IInv, TypeOK
  <1>. QED
    BY <1>1, <1>2, <1>3, RowsKeep

-----------------------------------------------------------------------------
(* The theorems.                                                             *)

LEMMA InitEstablishes ==
  ASSUME Init
  PROVE  IInv
  BY DEF Init, IInv, TypeOK, RowsGood, Existing, SeenAges, NoLostUpdate, KeysClaimed,
         OneMessagePerKey

LEMMA StepKeeps ==
  ASSUME IInv, [Next]_vars
  PROVE  IInv'
  <1>1. CASE UNCHANGED vars
    <2>1. UNCHANGED <<msg, born, claims, consumed, tags, req, tagTx, seen, lost, now>>
      BY <1>1 DEF vars, tables, client
    <2>2. TypeOK'
      BY <2>1 DEF IInv, TypeOK
    <2>. QED
      BY <2>1, <2>2, QuietKeeps
  <1>2. CASE \E id \in Msgs : Change(id) \/ GetMessage(id)
    BY <1>2, ChangeKeeps, ReadKeeps DEF GetMessage, GetOwnedMessage
  <1>3. CASE \E r \in Reqs : Request(r)
    BY <1>3, ClaimKeeps, CommitKeeps, RollbackKeeps
       DEF Request, CreateMessage, DirectSendMessage, ForwardMessage
  <1>4. CASE \E t \in Tags : CreateTag(t) \/ DeleteTagLock(t)
    BY <1>4, TagsKeep
  <1>5. CASE \E u \in Users : ListMessages(u)
    BY <1>5, ReadKeeps DEF ListMessages, Page, ListActiveMessages, ListTrashedMessages
  <1>. QED
    BY <1>1, <1>2, <1>3, <1>4, <1>5, LoadKeeps, DeleteTagKeeps, TickKeeps, ExpireKeeps,
       PurgeKeeps DEF Next

LEMMA Invariance == Spec => []IInv
  BY InitEstablishes, StepKeeps, PTL DEF Spec

\* The tables, requests, transactions and snapshots keep their types.
THEOREM TypeCorrect == Spec => []TypeOK
  <1>1. IInv => TypeOK
    BY DEF IInv
  <1>. QED
    BY <1>1, Invariance, PTL

\* No sequence of edits, lifecycle changes, expiry passes and tag deletions
\* makes a row that the CHECK constraints of the messages table would refuse.
THEOREM LifecyclesCoherent == Spec => []LifecycleCoherent
  <1>1. IInv => LifecycleCoherent
    BY DEF IInv, RowsGood, GoodRow, Coherent, LifecycleCoherent
  <1>. QED
    BY <1>1, Invariance, PTL

\* Every sensitive body, forwarded ones included, is stored only encrypted and
\* can be revealed by the owner of its message.
THEOREM SensitiveStaysSealed == Spec => []SensitiveSealed
  <1>1. IInv => SensitiveSealed
    BY DEF IInv, RowsGood, GoodRow, Sealed, SensitiveSealed, Decrypt
  <1>. QED
    BY <1>1, Invariance, PTL

\* No message is ever left without a body and without attachments.
THEOREM ContentStays == Spec => []ContentKept
  <1>1. IInv => ContentKept
    BY DEF IInv, RowsGood, GoodRow, ContentKept
  <1>. QED
    BY <1>1, Invariance, PTL

\* The expected version lets no change of a stale snapshot through: the rows
\* of one version differ at most in the labels of their tags.
THEOREM NoUpdateLost == Spec => []NoLostUpdate
  <1>1. IInv => NoLostUpdate
    BY DEF IInv
  <1>. QED
    BY <1>1, Invariance, PTL

\* However many requests with one Idempotency-Key run at the same time or one
\* after the other, two messages made with it are at least KeyTTL apart.
THEOREM OnePerKey == Spec => []OneMessagePerKey
  <1>1. IInv => OneMessagePerKey
    BY DEF IInv
  <1>. QED
    BY <1>1, Invariance, PTL

-----------------------------------------------------------------------------
(* The action property.                                                      *)

LEMMA MutateKeepsRow ==
  ASSUME IInv, NEW id \in Msgs, GoodMutation(id), NEW i \in Existing
  PROVE  msg'[i] # None
  <1>1. PICK O : /\ Mutate(id, O)
                 /\ GoodRow(id, msg[id]) /\ now \in Nat => GoodOutcomes(id, msg[id], O)
    BY DEF GoodMutation
  <1>2. msg[id] # None /\ GoodRow(id, msg[id]) /\ now \in Nat
    BY <1>1 DEF IInv, TypeOK, RowsGood, Existing, Mutate, LockOwnedMessage
  <1>3. PICK o \in O : msg' = [msg EXCEPT ![id] = IF o.changed THEN SaveMessage(o.row) ELSE @]
    BY <1>1 DEF Mutate
  <1>4. o.row \in Rows
    BY <1>1, <1>2, <1>3 DEF GoodOutcomes, GoodRow
  <1>5. SaveMessage(o.row) # None
    BY <1>4, RowIsSome, NoneIsNoRecord
  <1>. QED
    BY <1>2, <1>3, <1>5 DEF IInv, TypeOK, Existing

LEMMA StepPurgesTrash ==
  ASSUME IInv, [Next]_vars, NEW i \in Existing, msg'[i] = None
  PROVE  msg[i].trashed
  <1>0. i \in Msgs /\ msg[i] # None /\ GoodRow(i, msg[i])
    BY DEF Existing, IInv, RowsGood
  <1>1. CASE UNCHANGED msg
    BY <1>0, <1>1
  <1>2. ASSUME NEW id \in Msgs, Change(id) PROVE msg[i].trashed
    <2>1. CASE PermanentlyDelete(id)
      BY <1>0, <2>1 DEF PermanentlyDelete, DeleteTrashedOwnedMessage, IInv, TypeOK
    <2>2. CASE ~PermanentlyDelete(id)
      BY <1>2, <2>2, ChangesMutate, MutateKeepsRow
    <2>. QED
      BY <2>1, <2>2
  <1>3. ASSUME NEW r \in Reqs, Commit(r) PROVE msg[i].trashed
    <2>1. PICK id \in NewIds : \E row : msg' = [msg EXCEPT ![id] = row]
      BY <1>3 DEF Commit
    <2>2. id \in Msgs /\ born[id] = None
      BY BoundsTyped DEF NewIds, Msgs
    <2>3. i # id
      BY <2>2 DEF IInv, SeenAges
    <2>. QED
      BY <1>0, <2>1, <2>3 DEF IInv, TypeOK
  <1>4. CASE DeleteTag
    <2>. DEFINE m == BumpTagAffectedMessages(i)
    <2>1. msg'[i] = [m EXCEPT !.tags = @ \ {tagTx.tag}]
      BY <1>0, <1>4 DEF DeleteTag
    <2>2. GoodRow(i, m)
      BY <1>0, SavedGood DEF BumpTagAffectedMessages
    <2>. HIDE DEF m
    <2>3. m \in Rows
      BY <2>2 DEF GoodRow
    <2>4. msg'[i] \in Rows
      BY <2>1, <2>3 DEF Rows
    <2>. QED
      BY <2>4, NoneIsNoRecord
  <1>5. CASE ExpireTemporary
    <2>1. PICK S \in FullBatches(DueTemporary) :
            msg' = [id \in Msgs |-> IF id \in S THEN ExpireDueTemporary(msg[id]) ELSE msg[id]]
      BY <1>5 DEF ExpireTemporary
    <2>2. ExpireDueTemporary(msg[i]) \in Rows
      BY <1>0, ExpiredGood DEF GoodRow, IInv, TypeOK
    <2>. QED
      BY <1>0, <2>1, <2>2, NoneIsNoRecord
  <1>6. CASE PurgeTrash
    <2>1. PICK S \in FullBatches(DuePurge) :
            msg' = [id \in Msgs |-> IF id \in S THEN None ELSE msg[id]]
      BY <1>6 DEF PurgeTrash
    <2>2. i \in S /\ msg[i].purge # None
      BY <1>0, <2>1 DEF FullBatches, DuePurge
    <2>. QED
      BY <1>0, <2>2 DEF GoodRow, Coherent
  <1>7. \/ UNCHANGED msg
        \/ \E id \in Msgs : Change(id)
        \/ \E r \in Reqs : Commit(r)
        \/ DeleteTag \/ ExpireTemporary \/ PurgeTrash
    BY DEF Next, vars, tables, GetMessage, ListMessages, Read, Request, CreateMessage,
       DirectSendMessage, ForwardMessage, ClaimIdempotency, Rollback, CreateTag, DeleteTagLock,
       LoadDetails, Tick
  <1>. QED
    BY <1>1, <1>2, <1>3, <1>4, <1>5, <1>6, <1>7

\* Every step that makes a message disappear finds it in the trash.
THEOREM PurgesTrashOnly == Spec => OnlyTrashPurged
  <1>1. IInv /\ [Next]_vars => [\A id \in Existing : msg'[id] = None => msg[id].trashed]_vars
    BY StepPurgesTrash
  <1>. QED
    BY <1>1, Invariance, PTL DEF Spec, OnlyTrashPurged

=============================================================================
