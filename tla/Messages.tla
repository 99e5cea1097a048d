------------------------------ MODULE Messages ------------------------------
(***************************************************************************)
(* Messages, their tags and the idempotency keys of the requests that      *)
(* create them (internal/messages, internal/tags, the expiry and purge     *)
(* passes of internal/jobs/scheduler.go).                                  *)
(*                                                                         *)
(* A change of one message is one PostgreSQL transaction that holds the    *)
(* row lock of the message, so it is one action.  What takes several       *)
(* actions is what other transactions see in between: a request that       *)
(* claims an idempotency key and commits, the deletion of a tag, and the   *)
(* read of a message, whose tags and attachments come from later queries.  *)
(*                                                                         *)
(* Besides the clients that change what they have just read there is a     *)
(* slow client, whose snapshot seen may be old when it is used.            *)
(***************************************************************************)
EXTENDS Naturals, FiniteSets

CONSTANTS Users, MaxMsgs, Keys, Reqs, Bodies, Tags, Uploads,
          TagOwner,      \* user of a tag
          Metas,         \* values of title, format and detected type
          Commands,      \* create, send and forward requests of a client
          TemporaryTTL, TrashTTL, KeyTTL,
          Batch,         \* batch of the scheduler's passes
          MaxVersion,    \* bound on the changes of a message by its owner
          MaxTime,       \* bound of the clock
          None

\* UUIDv7 of the messages, in the order they are made.
Msgs == 1 .. MaxMsgs

Lifecycles == {"TEMPORARY", "PERMANENT"}

\* Create, DirectSend and Forward share one record; a field an operation has
\* no use for is constant.
CommandType == [op : {"create", "direct", "forward"}, user : Users, to : Users,
                meta : Metas,
                body : Bodies \union {None}, sensitive : BOOLEAN,
                life : Lifecycles, tags : SUBSET Tags, files : SUBSET Uploads,
                src : Msgs \union {None}, expected : Nat]

\* Ciphertexts, rows of the messages table, idempotency keys and, for history,
\* what made a message.
Ciphers == [id : Msgs, owner : Users, body : Bodies]

Rows == [owner : Users, meta : Metas, life : Lifecycles, sensitive : BOOLEAN,
         plain : Bodies \union {None}, cipher : Ciphers \union {None},
         fav : BOOLEAN, exp : Nat \union {None}, trashed : BOOLEAN,
         purge : Nat \union {None}, files : SUBSET Uploads, tags : SUBSET Tags,
         version : Nat]

KeyType == Users \X {"create", "direct", "forward"} \X Keys

Births == [key : KeyType, at : Nat]

ASSUME BoundsTyped == MaxMsgs \in Nat /\ MaxVersion \in [Msgs -> Nat]
ASSUME TimesPositive == TemporaryTTL \in Nat \ {0} /\ TrashTTL \in Nat \ {0} /\ KeyTTL \in Nat \ {0}
ASSUME CommandsTyped == Commands \in [Reqs -> SUBSET CommandType]
ASSUME OwnersTyped == TagOwner \in [Tags -> Users]
ASSUME NoneIsNothing == None \notin Bodies \union Metas \union Nat
ASSUME NoneIsNoRecord == None \notin Rows /\ None \notin Ciphers /\ None \notin Births

VARIABLES
    msg,       \* the messages table with message_tags and message_attachments
    born,      \* history: request that made a message, for ever
    claims,    \* idempotency_keys
    req,       \* create, send and forward requests in progress
    consumed,  \* uploads with consumed_at
    tags,      \* tags: "none" until it is created, "made", "deleted"
    tagTx,     \* transaction that deletes a tag: the tag and the locked messages
    seen,      \* the slow client's snapshot of a message, loaded without
               \* (FALSE) or with (TRUE) its tags and attachments
    now,       \* the clock
    lost       \* history: a change replaced something its author had not seen

tables == <<msg, born, claims, consumed, tags>>
client == <<seen, lost>>
vars == <<tables, req, tagTx, client, now>>

Init ==
    /\ msg = [m \in Msgs |-> None]
    /\ born = [m \in Msgs |-> None]
    /\ claims = {}
    /\ req = [r \in Reqs |-> None]
    /\ consumed = {}
    /\ tags = [t \in Tags |-> "none"]
    /\ tagTx = None
    /\ seen = None
    /\ now = 0
    /\ lost = FALSE

-----------------------------------------------------------------------------
(* Rows.                                                                    *)

\* The AAD of a ciphertext is the message and its owner: Decrypt refuses the
\* ciphertext of another message.
Encrypt(id, owner, body) == [id |-> id, owner |-> owner, body |-> body]

Decrypt(id, m) ==
    IF m.cipher # None /\ m.cipher.id = id /\ m.cipher.owner = m.owner
    THEN {m.cipher.body} ELSE {}

NewMessage(id, owner, meta, body, life, sensitive, files, tagSet, at) ==
    [owner |-> owner, meta |-> meta, life |-> life, sensitive |-> sensitive,
     plain |-> IF sensitive THEN None ELSE body,
     cipher |-> IF sensitive THEN Encrypt(id, owner, body) ELSE None,
     fav |-> FALSE,
     exp |-> IF life = "TEMPORARY" THEN at + TemporaryTTL ELSE None,
     trashed |-> FALSE, purge |-> None,
     files |-> files, tags |-> tagSet, version |-> 1]

HasContent(m) == m.plain # None \/ m.cipher # None \/ m.files # {}

\* What one of the functions given to mutate returns: nothing on an error, or
\* the row and whether it changed.
Same(m) == {[row |-> m, changed |-> FALSE]}
Changed(m) == {[row |-> m, changed |-> TRUE]}
ChangedIf(m, n) == {[row |-> n, changed |-> n # m]}

Locked == IF tagTx = None THEN {} ELSE tagTx.locked

LockOwnedMessage(id) == msg[id] # None /\ id \notin Locked

Holds(id) == seen # None /\ seen.id = id /\ seen.loaded

\* Snapshots a change of the message can be based on: a client that has just
\* read it, or the slow one.
Bases(id) == {msg[id]} \union (IF Holds(id) THEN {seen.row} ELSE {})

\* What a client sees of a message without the labels of its tags.
Visible(m) == [m EXCEPT !.tags = {}]

SaveMessage(m) == [m EXCEPT !.version = @ + 1]

-----------------------------------------------------------------------------
(* Changes of one message: mutate, mutateWithSettings and the transactions  *)
(* of the same form.                                                        *)

\* Mutant: an older version is accepted too.
VersionUnchecked(m, expected) == expected <= m.version

VersionMatches(m, expected) == m.version = expected

Mutate(id, outcomes) ==
    /\ LockOwnedMessage(id)
    /\ msg[id].version < MaxVersion[id]
    /\ \E base \in Bases(id), o \in outcomes :
         /\ VersionMatches(msg[id], base.version)
         /\ msg' = [msg EXCEPT ![id] = IF o.changed THEN SaveMessage(o.row) ELSE @]
         /\ lost' = (lost \/ (o.changed /\ Visible(base) # Visible(msg[id])))
    /\ UNCHANGED <<born, claims, tags, req, tagTx, seen, now>>

\* Mutant: a body can be cleared when there is no attachment.
EditClearAlways(m, c) ==
    IF m.trashed \/ (m.sensitive /\ (c.body # None \/ c.clear)) THEN {}
    ELSE ChangedIf(m, [m EXCEPT
           !.meta = IF c.meta = None THEN @ ELSE c.meta,
           !.plain = IF c.clear THEN None
                     ELSE IF c.body = None \/ @ = None THEN @ ELSE c.body])

\* PATCH of the body, or of the title and the other attributes.  The new body
\* is left out when the message has no plain body.
Edit(m, c) ==
    IF \/ m.trashed
       \/ m.sensitive /\ (c.body # None \/ c.clear)
       \/ c.clear /\ m.files = {}
    THEN {}
    ELSE ChangedIf(m, [m EXCEPT
           !.meta = IF c.meta = None THEN @ ELSE c.meta,
           !.plain = IF c.clear THEN None
                     ELSE IF c.body = None \/ @ = None THEN @ ELSE c.body])

EditCommands ==
    {c \in [body : Bodies \union {None}, clear : BOOLEAN, meta : Metas \union {None}] :
        /\ c.body # None \/ c.clear \/ c.meta # None
        /\ c.body = None \/ ~c.clear}

EditMessage(id) ==
    /\ \E c \in EditCommands : Mutate(id, Edit(msg[id], c))
    /\ UNCHANGED consumed

\* Mutant: the expiry is kept.
MakePermanentUntilExpiry(m) ==
    IF m.trashed THEN {}
    ELSE IF m.life = "PERMANENT" THEN Same(m)
    ELSE Changed([m EXCEPT !.life = "PERMANENT"])

MakePermanent(m) ==
    IF m.trashed THEN {}
    ELSE IF m.life = "PERMANENT" THEN Same(m)
    ELSE Changed([m EXCEPT !.life = "PERMANENT", !.exp = None])

MakeMessagePermanent(id) == Mutate(id, MakePermanent(msg[id])) /\ UNCHANGED consumed

\* The new expiry is counted from the old one, not from now.
ExtendExpiry(m, days) ==
    IF m.trashed \/ m.life # "TEMPORARY" THEN {}
    ELSE Changed([m EXCEPT !.exp = @ + days])

ExtendMessageExpiry(id) == Mutate(id, ExtendExpiry(msg[id], 1)) /\ UNCHANGED consumed

SetFavorite(m, favorite) ==
    IF m.trashed \/ (favorite /\ m.life # "PERMANENT") THEN {}
    ELSE ChangedIf(m, [m EXCEPT !.fav = favorite])

SetMessageFavorite(id) ==
    /\ \E favorite \in BOOLEAN : Mutate(id, SetFavorite(msg[id], favorite))
    /\ UNCHANGED consumed

Trash(m) ==
    IF m.trashed THEN Same(m)
    ELSE Changed([m EXCEPT !.trashed = TRUE, !.purge = now + TrashTTL])

TrashMessage(id) == Mutate(id, Trash(msg[id])) /\ UNCHANGED consumed

\* Mutant: the time of the purge is kept.
RestoreKeepingPurge(m) ==
    IF ~m.trashed THEN {}
    ELSE Changed([m EXCEPT !.trashed = FALSE,
                    !.exp = IF m.life = "PERMANENT" THEN None
                            ELSE IF @ = None \/ @ <= now THEN now + TemporaryTTL ELSE @])

Restore(m) ==
    IF ~m.trashed THEN {}
    ELSE Changed([m EXCEPT !.trashed = FALSE, !.purge = None,
                    !.exp = IF m.life = "PERMANENT" THEN None
                            ELSE IF @ = None \/ @ <= now THEN now + TemporaryTTL ELSE @])

RestoreMessage(id) == Mutate(id, Restore(msg[id])) /\ UNCHANGED consumed

SetSensitive(id, m, sensitive) ==
    IF m.trashed THEN {}
    ELSE IF m.sensitive = sensitive THEN Same(m)
    ELSE IF sensitive
    THEN IF m.plain = None THEN {}
         ELSE Changed([m EXCEPT !.sensitive = TRUE, !.plain = None,
                                !.cipher = Encrypt(id, m.owner, m.plain)])
    ELSE UNION {Changed([m EXCEPT !.sensitive = FALSE, !.plain = body, !.cipher = None]) :
                  body \in Decrypt(id, m)}

SetMessageSensitive(id) ==
    /\ \E sensitive \in BOOLEAN : Mutate(id, SetSensitive(id, msg[id], sensitive))
    /\ UNCHANGED consumed

\* Counts as a change even when body and title are the same: the nonce is new.
EditSensitive(id, m, body, meta) ==
    IF m.trashed \/ ~m.sensitive THEN {}
    ELSE Changed([m EXCEPT !.cipher = Encrypt(id, m.owner, body),
                           !.meta = IF meta = None THEN @ ELSE meta])

EditSensitiveBody(id) ==
    /\ \E body \in Bodies, meta \in Metas \union {None} :
         Mutate(id, EditSensitive(id, msg[id], body, meta))
    /\ UNCHANGED consumed

CountOwnedTags(owner, T) == {t \in T : tags[t] = "made" /\ TagOwner[t] = owner}

ValidTags(owner, T) == CountOwnedTags(owner, T) = T

\* DELETE and INSERT of message_tags.
WithTags(m, T) == [m EXCEPT !.tags = T]

ReplaceTags(m, T) ==
    IF m.trashed \/ ~ValidTags(m.owner, T) THEN {}
    ELSE ChangedIf(m, WithTags(m, T))

\* A message can be given a tag until the row of the tag is deleted.
ReplaceMessageTags(id) ==
    /\ \E T \in SUBSET Tags : Mutate(id, ReplaceTags(msg[id], T))
    /\ UNCHANGED consumed

Bindable(files) == files \intersect consumed = {}

AddAttachments(m, files) ==
    IF m.trashed \/ ~Bindable(files) THEN {}
    ELSE Changed([m EXCEPT !.files = @ \union files])

AddMessageAttachments(id) ==
    \E files \in SUBSET Uploads \ {{}} :
        /\ Mutate(id, AddAttachments(msg[id], files))
        /\ consumed' = consumed \union files

RemoveAttachment(m, file) ==
    IF \/ m.trashed \/ file \notin m.files
       \/ m.plain = None /\ m.cipher = None /\ Cardinality(m.files) <= 1
    THEN {}
    ELSE Changed([m EXCEPT !.files = @ \ {file}])

RemoveMessageAttachment(id) ==
    /\ \E file \in Uploads : Mutate(id, RemoveAttachment(msg[id], file))
    /\ UNCHANGED consumed

DeleteTrashedOwnedMessage(id) == msg[id].trashed /\ msg' = [msg EXCEPT ![id] = None]

PermanentlyDelete(id) ==
    /\ LockOwnedMessage(id)
    /\ DeleteTrashedOwnedMessage(id)
    /\ UNCHANGED <<born, claims, consumed, tags, req, tagTx, client, now>>

-----------------------------------------------------------------------------
(* Requests with an Idempotency-Key.                                        *)

KeyOf(q) == <<q.cmd.user, q.cmd.op, q.key>>

\* Mutant: no advisory lock is taken.
LockNothing(r, q) == TRUE

\* pg_advisory_xact_lock on user, operation and key, held until the commit.
LockIdempotencyClaim(r, q) ==
    \A s \in Reqs \ {r} : req[s] # None => KeyOf(req[s]) # KeyOf(q)

GetIdempotencyClaim(q) == {c \in claims : c.key = KeyOf(q)}

\* The validation before the transaction begins.
ValidCommand(cmd) ==
    IF cmd.op = "forward" THEN cmd.src # None /\ cmd.expected >= 1
    ELSE /\ cmd.body # None \/ cmd.files # {}
         /\ cmd.sensitive => cmd.body # None

\* A live row ends the request: the answer is repeated, or refused when the
\* request is another one.  An expired row is deleted by the commit.  The
\* service read the clock before its transaction began and waited for the lock.
ClaimIdempotency(r, op) ==
    /\ req[r] = None
    /\ \E cmd \in {c \in Commands[r] : c.op = op /\ ValidCommand(c)},
          key \in Keys, at \in 0 .. now :
         LET q == [cmd |-> cmd, key |-> key, at |-> at] IN
         /\ LockIdempotencyClaim(r, q)
         /\ \A c \in GetIdempotencyClaim(q) : c.exp <= at
         /\ req' = [req EXCEPT ![r] = q]
    /\ UNCHANGED <<tables, tagTx, client, now>>

CreateMessage(r) == ClaimIdempotency(r, "create")

DirectSendMessage(r) == ClaimIdempotency(r, "direct")

ForwardMessage(r) == ClaimIdempotency(r, "forward")

CreateRows(id, cmd, at) ==
    IF ~ValidTags(cmd.user, cmd.tags) \/ ~Bindable(cmd.files) THEN {}
    ELSE {NewMessage(id, cmd.user, cmd.meta, cmd.body, cmd.life,
                     cmd.sensitive, cmd.files, cmd.tags, at)}

DirectRows(id, cmd, at) ==
    IF ~Bindable(cmd.files) THEN {}
    ELSE {NewMessage(id, cmd.to, cmd.meta, cmd.body, "TEMPORARY",
                     cmd.sensitive, cmd.files, {}, at)}

\* Body of the source that the copy is made of: decrypted, plain or none.
ForwardBodies(src, m) ==
    IF m.sensitive THEN Decrypt(src, m)
    ELSE IF m.plain # None \/ m.files # {} THEN {m.plain} ELSE {}

\* Mutant: the ciphertext is copied.
ForwardRowsVerbatim(id, cmd, at) ==
    LET m == msg[cmd.src] IN
    IF \/ ~LockOwnedMessage(cmd.src) \/ m.owner # cmd.user
       \/ m.version # cmd.expected \/ m.trashed
    THEN {}
    ELSE {[NewMessage(id, cmd.to, m.meta, m.plain, "TEMPORARY", FALSE, m.files, {}, at)
             EXCEPT !.sensitive = m.sensitive, !.cipher = m.cipher]}

ForwardRows(id, cmd, at) ==
    LET m == msg[cmd.src] IN
    IF \/ ~LockOwnedMessage(cmd.src) \/ m.owner # cmd.user
       \/ m.version # cmd.expected \/ m.trashed
    THEN {}
    ELSE {NewMessage(id, cmd.to, m.meta, body, "TEMPORARY", m.sensitive, m.files, {}, at) :
            body \in ForwardBodies(cmd.src, m)}

InsertRows(id, cmd, at) ==
    IF cmd.op = "create" THEN CreateRows(id, cmd, at)
    ELSE IF cmd.op = "direct" THEN DirectRows(id, cmd, at)
    ELSE ForwardRows(id, cmd, at)

CompleteIdempotency(q) ==
    (claims \ GetIdempotencyClaim(q))
        \union {[key |-> KeyOf(q), cmd |-> q.cmd, exp |-> q.at + KeyTTL]}

NewIds == {id \in Msgs : \A n \in Msgs : born[n] = None <=> n >= id}

\* The rest of the transaction: the checks, the row, its uploads and tags and
\* the key, all or nothing.
Commit(r) ==
    /\ req[r] # None
    /\ \E id \in NewIds : \E row \in InsertRows(id, req[r].cmd, req[r].at) :
         /\ msg' = [msg EXCEPT ![id] = row]
         /\ born' = [born EXCEPT ![id] = [key |-> KeyOf(req[r]), at |-> req[r].at]]
         /\ claims' = CompleteIdempotency(req[r])
    /\ consumed' = consumed \union req[r].cmd.files
    /\ req' = [req EXCEPT ![r] = None]
    /\ UNCHANGED <<tags, tagTx, client, now>>

\* Validation errors, a recipient that is not ACTIVE, a lost connection or a
\* cancelled request.
Rollback(r) ==
    /\ req[r] # None
    /\ req' = [req EXCEPT ![r] = None]
    /\ UNCHANGED <<tables, tagTx, client, now>>

-----------------------------------------------------------------------------
(* Tags and the clock.                                                      *)

CreateTag(t) ==
    /\ tags[t] = "none"
    /\ tags' = [tags EXCEPT ![t] = "made"]
    /\ UNCHANGED <<msg, born, claims, consumed, req, tagTx, client, now>>

LockTagAffectedMessages(t) ==
    {id \in Msgs : msg[id] # None /\ msg[id].owner = TagOwner[t] /\ t \in msg[id].tags}

\* First statement of the transaction that deletes a tag.
DeleteTagLock(t) ==
    /\ tagTx = None /\ tags[t] = "made"
    /\ tagTx' = [tag |-> t, locked |-> LockTagAffectedMessages(t)]
    /\ UNCHANGED <<tables, req, client, now>>

\* The locked messages get a new version; message_tags cascades to every row.
BumpTagAffectedMessages(id) ==
    IF id \in tagTx.locked THEN SaveMessage(msg[id]) ELSE msg[id]

\* DELETE of the tag, the new versions and the commit.
DeleteTag ==
    /\ tagTx # None
    /\ tags' = [tags EXCEPT ![tagTx.tag] = "deleted"]
    /\ msg' = [id \in Msgs |-> IF msg[id] = None THEN None
                 ELSE [BumpTagAffectedMessages(id) EXCEPT !.tags = @ \ {tagTx.tag}]]
    /\ tagTx' = None
    /\ UNCHANGED <<born, claims, consumed, req, client, now>>

Tick ==
    /\ now < MaxTime
    /\ now' = now + 1
    /\ UNCHANGED <<tables, req, tagTx, client>>

-----------------------------------------------------------------------------
(* The slow client.                                                         *)

ListActiveMessages(u) ==
    {id \in Msgs : /\ msg[id] # None /\ msg[id].owner = u /\ ~msg[id].trashed
                   /\ msg[id].exp # None => msg[id].exp > now}

ListTrashedMessages(u) ==
    {id \in Msgs : msg[id] # None /\ msg[id].owner = u /\ msg[id].trashed}

Read(id) ==
    /\ seen' = [id |-> id, row |-> msg[id], loaded |-> FALSE]
    /\ UNCHANGED <<tables, req, tagTx, lost, now>>

GetOwnedMessage(id) == msg[id] # None

GetMessage(id) == GetOwnedMessage(id) /\ Read(id)

Page(u) == ListActiveMessages(u) \union ListTrashedMessages(u)

ListMessages(u) == \E id \in Page(u) : Read(id)

ListMessageTags(id) == IF msg[id] = None THEN {} ELSE msg[id].tags

LoadAttachments(id) == IF msg[id] = None THEN {} ELSE msg[id].files

\* Tags and attachments of a row are read later and outside a transaction.
LoadDetails ==
    /\ seen # None /\ ~seen.loaded
    /\ seen' = [seen EXCEPT !.loaded = TRUE,
                            !.row.tags = ListMessageTags(seen.id),
                            !.row.files = LoadAttachments(seen.id)]
    /\ UNCHANGED <<tables, req, tagTx, lost, now>>

-----------------------------------------------------------------------------
(* The scheduler.  Both passes skip locked rows.                            *)

DueTemporary ==
    {id \in Msgs : /\ msg[id] # None /\ msg[id].life = "TEMPORARY"
                   /\ ~msg[id].trashed /\ msg[id].exp <= now}

DuePurge == {id \in Msgs : msg[id] # None /\ msg[id].purge # None /\ msg[id].purge <= now}

\* FOR UPDATE SKIP LOCKED LIMIT batch.
FullBatches(due) ==
    {S \in SUBSET (due \ Locked) :
        /\ S # {} /\ Cardinality(S) <= Batch
        /\ S = due \ Locked \/ Cardinality(S) = Batch}

ExpireDueTemporary(m) ==
    [m EXCEPT !.trashed = TRUE, !.purge = now + TrashTTL, !.version = @ + 1]

ExpireTemporary ==
    /\ \E S \in FullBatches(DueTemporary) :
         msg' = [id \in Msgs |-> IF id \in S THEN ExpireDueTemporary(msg[id]) ELSE msg[id]]
    /\ UNCHANGED <<born, claims, consumed, tags, req, tagTx, client, now>>

PurgeTrash ==
    /\ \E S \in FullBatches(DuePurge) :
         msg' = [id \in Msgs |-> IF id \in S THEN None ELSE msg[id]]
    /\ UNCHANGED <<born, claims, consumed, tags, req, tagTx, client, now>>

-----------------------------------------------------------------------------
Change(id) ==
    \/ EditMessage(id) \/ MakeMessagePermanent(id) \/ ExtendMessageExpiry(id)
    \/ SetMessageFavorite(id) \/ TrashMessage(id) \/ RestoreMessage(id)
    \/ SetMessageSensitive(id) \/ EditSensitiveBody(id) \/ ReplaceMessageTags(id)
    \/ AddMessageAttachments(id) \/ RemoveMessageAttachment(id) \/ PermanentlyDelete(id)

Request(r) ==
    \/ CreateMessage(r) \/ DirectSendMessage(r) \/ ForwardMessage(r)
    \/ Commit(r) \/ Rollback(r)

Next ==
    \/ \E id \in Msgs : Change(id) \/ GetMessage(id)
    \/ \E r \in Reqs : Request(r)
    \/ \E t \in Tags : CreateTag(t) \/ DeleteTagLock(t)
    \/ \E u \in Users : ListMessages(u)
    \/ LoadDetails \/ DeleteTag \/ Tick \/ ExpireTemporary \/ PurgeTrash

Spec == Init /\ [][Next]_vars

-----------------------------------------------------------------------------
(* Properties.                                                              *)

TypeOK ==
    /\ msg \in [Msgs -> Rows \union {None}]
    /\ born \in [Msgs -> Births \union {None}]
    /\ claims \subseteq [key : KeyType, cmd : CommandType, exp : Nat]
    /\ req \in [Reqs -> [cmd : CommandType, key : Keys, at : Nat] \union {None}]
    /\ consumed \subseteq Uploads /\ tags \in [Tags -> {"none", "made", "deleted"}]
    /\ tagTx \in [tag : Tags, locked : SUBSET Msgs] \union {None}
    /\ seen \in [id : Msgs, row : Rows, loaded : BOOLEAN] \union {None}
    /\ now \in Nat /\ lost \in BOOLEAN

Existing == {id \in Msgs : msg[id] # None}

\* Whatever sequence of lifecycle changes a message goes through, its row
\* satisfies the CHECK constraints of the messages table: it expires if and
\* only if it is temporary, only permanent messages are favorites, and it has
\* a purge time if and only if it is in the trash.
LifecycleCoherent ==
    \A id \in Existing :
        /\ (msg[id].life = "TEMPORARY") <=> (msg[id].exp # None)
        /\ msg[id].fav => msg[id].life = "PERMANENT"
        /\ msg[id].trashed <=> (msg[id].purge # None)

\* A sensitive body is stored encrypted only, and for the message and the
\* owner that hold it, so that Reveal can decrypt it; also after a forward to
\* another user and after the body was edited and made sensitive again.
SensitiveSealed ==
    \A id \in Existing :
        IF msg[id].sensitive
        THEN msg[id].plain = None /\ Decrypt(id, msg[id]) # {}
        ELSE msg[id].cipher = None

\* No sequence of edits, attachment changes and forwards leaves a message with
\* neither a body nor an attachment.
ContentKept == \A id \in Existing : HasContent(msg[id])

\* No change of a client, of the expiry pass or of another device is lost: a
\* change that is accepted is based on what the message still was.
NoLostUpdate == ~lost

\* A repeated or concurrent request with the same key makes no second message
\* before the key has expired, whatever happened to the first message.
OneMessagePerKey ==
    \A m, n \in Msgs :
        (m # n /\ born[m] # None /\ born[n] # None /\ born[m].key = born[n].key)
            => \/ born[m].at + KeyTTL <= born[n].at
               \/ born[n].at + KeyTTL <= born[m].at

\* Only a message that is in the trash disappears: the passes never purge one
\* that was restored, made permanent or extended in the meantime.
OnlyTrashPurged ==
    [][\A id \in Existing : msg'[id] = None => msg[id].trashed]_vars

\* The version of a message says which tags it has: a client that holds the
\* current version also holds the current tags (deleting a tag gives every
\* message that had it a new version).
VersionNamesTags ==
    \A id \in Existing :
        (Holds(id) /\ seen.row.version = msg[id].version) => seen.row.tags = msg[id].tags

=============================================================================
