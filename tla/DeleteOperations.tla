-------------------------- MODULE DeleteOperations --------------------------
(***************************************************************************)
(* Permanent deletion (backend/delete_operations.py, with what it calls in *)
(* asset_deletion_service.py and chat_deletion_service.py).                *)
(*                                                                         *)
(* Emptying the Trash, or deleting a chat, leaves an operation that one    *)
(* worker carries out: the identity goes first, then the rows of the media *)
(* nobody else owns, then the bytes.  The bytes are removed outside every  *)
(* transaction; the items of an operation record what is still to be       *)
(* removed, and a lease on them lets a new process resume.  Media of equal *)
(* content share one storage object.                                       *)
(*                                                                         *)
(* An action is a transaction, or the removal of files between two.  Left  *)
(* out: files in watched folders, sidecars, thumbnails, editor artifacts,  *)
(* soft-deleted media and the scrubbing of references, whose only effect   *)
(* here is that it may fail.                                               *)
(***************************************************************************)
EXTENDS Integers, FiniteSets, FiniteSetsExt

CONSTANTS
    NumAssets,      \* assets are 1..NumAssets, in the order of their ids
    NumMedia,       \* ids of media are 1..NumMedia
    Content,        \* what bytes may hold
    None,           \* no content
    Scenarios       \* the circumstances to study

Asset == 1..NumAssets
Chat == 0
\* The owner of an operation: an asset, or the chat.
Op == {Chat} \cup Asset
\* Whoever else may own media.
Other == -1
Media == 1..NumMedia

\* What may disturb a deletion.
EventKind == {
    "restore",  \* somebody restores an asset while its deletion is asked for
    "import",   \* media are imported
    "adopt",    \* media get another owner, in one step
    "late_adopt",  \* or in two: they are looked at, and owned later
    "scrub",    \* the rows of some media cannot be deleted
    "unlink",   \* a file cannot be removed
    "busy",     \* the write-ahead log cannot be truncated
    "retry",    \* somebody retries a failed operation
    "crash"}    \* the process dies

\* holds are the media an asset or the chat owns, retired the media of which
\* an asset keeps a retired revision or snapshot, slice is
\* ASSET_IDENTITY_BATCH_SIZE, limit a bound: how many disturbances there are.
Scenario == [holds : [Op -> SUBSET Media], retired : [Asset -> SUBSET Media],
             content : [Media -> Content], slice : Nat \ {0},
             events : SUBSET EventKind, limit : Nat]

ASSUME DeleteAssumption ==
    /\ NumAssets \in Nat /\ NumMedia \in Nat /\ None \notin Content
    /\ \A s \in Scenarios :
          /\ DOMAIN s = {"holds", "retired", "content", "slice", "events", "limit"}
          /\ s.holds \in [Op -> SUBSET Media] /\ s.retired \in [Asset -> SUBSET Media]
          /\ s.content \in [Media -> Content]
          /\ s.slice \in Nat \ {0} /\ s.limit \in Nat /\ s.events \subseteq EventKind

VARIABLES
    scenario,   \* the circumstances of this behaviour
    asset,      \* Asset.state
    chat,       \* the chat; "deleted": its undo period is over
    media,      \* MediaItem and the MediaOwners of each
    object,     \* StorageObject of each content
    disk,       \* the contents whose bytes are on disk
    op,         \* DeleteOperation
    item,       \* DeleteOperationItem
    worker,     \* the delete worker
    lapsed,     \* are the leases of a former process over?
    adopting,   \* media that were looked at and are to get another owner
    spent       \* disturbances so far

db == <<asset, chat, media, object, op, item>>
vars == <<scenario, db, disk, worker, lapsed, adopting, spent>>

NoRow == [content |-> None, sid |-> 0, owners |-> {}, pending |-> FALSE]
NoOp == [status |-> "none", phase |-> "other", id |-> 0,
         total |-> 0, processed |-> 0, deleted |-> 0, failed |-> 0]
NoItem == [state |-> "none", content |-> None, sid |-> 0, key |-> FALSE]
Idle == [pc |-> "idle", ops |-> {}, work |-> {}, kept |-> {}, broken |-> {}]

Status == {"none", "queued", "running", "checkpointing", "completed", "failed", "superseded"}
\* "other" stands for the phases no statement reads.
Phase == {"identity_queued", "identity_refs_scrubbed", "unlinking_artifacts", "other"}
Leased == {"claimed", "unlinking", "unlinking_retry"}
ItemState == Leased \cup {"none", "pending", "failed", "media_deleted", "unlink_retry", "unlink_failed"}

\* The points between two transactions of a pass.
Points == {"idle", "stage", "prepare", "stage again", "recover", "batch", "unlink batch",
           "settle batch", "head", "finalize", "unlink", "settle", "claim", "scrub", "mark",
           "checkpoint"}

Rows == {m \in Media : media[m].content # None}

\* The rows of md that point at the storage object s of content c.
Refs(md, c, s) == {m \in Media : md[m].content = c /\ md[m].sid = s}

\* Those among them that somebody owns: _media_has_live_root.
Rooted(md, c, s) == {m \in Refs(md, c, s) : md[m].owners # {}}

\* ASSET_QUEUE_ACTIVE_STATUSES
ActiveStatus == {"queued", "running", "checkpointing", "failed"}
In(o, states) == {m \in Media : item[o][m].state \in states}

\* The n operations of ops that were created first.
First(ops, n) == {o \in ops : Cardinality({p \in ops : op[p].id < op[o].id}) < n}

May(kind) == kind \in scenario.events /\ spent < scenario.limit
Spend(kind) == May(kind) /\ spent' = spent + 1
\* Either nothing happens to what, or a disturbance of that kind.
Disturbed(kind, what) == IF what THEN Spend(kind) ELSE UNCHANGED spent

-----------------------------------------------------------------------------
\* The world before anything is deleted.

Init ==
    /\ scenario \in Scenarios
    /\ media = [m \in Media |->
           IF \E o \in Op : m \in scenario.holds[o] THEN
               [content |-> scenario.content[m], sid |-> 1, pending |-> FALSE,
                owners |-> {o \in Op : m \in scenario.holds[o]}]
           ELSE NoRow]
    /\ disk = {media[m].content : m \in Rows}
    /\ object = [c \in Content |-> [state |-> IF c \in disk THEN "available" ELSE "none", sid |-> 1]]
    /\ asset = [a \in Asset |->
           IF scenario.holds[a] \cup scenario.retired[a] # {} THEN "trashed" ELSE "gone"]
    /\ chat = IF scenario.holds[Chat] # {} THEN "live" ELSE "gone"
    /\ op = [o \in Op |-> NoOp]
    /\ item = [o \in Op |-> [m \in Media |-> NoItem]]
    /\ worker = Idle
    /\ lapsed = FALSE
    /\ adopting = {}
    /\ spent = 0

-----------------------------------------------------------------------------
\* What people do.

\* The id of the operation that was created last.
Newest == Max({op[o].id : o \in Op})

\* enqueue_asset_delete_operations for the assets of chosen, with
\* prepare_asset_delete_queue.  The route looked at the states of the assets
\* before: one may have been restored since.
Enqueue(chosen) ==
    LET active == {a \in Asset : op[a].status \in ActiveStatus}
        fresh == chosen \ active
    IN  /\ chosen # {}
        /\ \A a \in chosen : asset[a] = "trashed" \/ (asset[a] = "active" /\ "restore" \in scenario.events)
        /\ op' = [o \in Op |->
               IF o \in fresh THEN
                   [NoOp EXCEPT !.status = "queued", !.phase = "identity_queued",
                                !.id = Newest + Cardinality({a \in fresh : a <= o})]
               ELSE IF active = {} /\ o \in Asset /\ op[o].status = "completed"
               THEN [op[o] EXCEPT !.status = "superseded"] ELSE op[o]]
        /\ asset' = [a \in Asset |->
               IF a \in chosen /\ asset[a] = "trashed" THEN "deleting" ELSE asset[a]]
        /\ UNCHANGED <<scenario, chat, media, object, disk, item, worker, lapsed, spent>>

\* restore_asset
Restore(a) ==
    /\ Spend("restore")
    /\ asset[a] = "trashed"
    /\ asset' = [asset EXCEPT ![a] = "active"]
    /\ UNCHANGED <<scenario, chat, media, object, disk, op, item, worker, lapsed>>

\* trash_asset
Trash(a) ==
    /\ Spend("restore")
    /\ asset[a] = "active"
    /\ asset' = [asset EXCEPT ![a] = "trashed"]
    /\ UNCHANGED <<scenario, chat, media, object, disk, op, item, worker, lapsed>>

\* A chat is deleted, and not undone within CHAT_DELETE_GRACE_SECONDS.
DeleteChat ==
    /\ chat = "live"
    /\ chat' = "deleted"
    /\ UNCHANGED <<scenario, asset, media, object, disk, op, item, worker, lapsed, spent>>

\* retry_delete_operation.  Media of a chat were never in the Trash: an
\* operation of a chat that left rows behind is refused.
Retry(o) ==
    LET broken == In(o, {"failed", "unlink_failed"})
        surviving == In(o, {"failed"}) \cap Rows
    IN  /\ Spend("retry")
        /\ op[o].status = "failed"
        /\ o = Chat => surviving = {}
        /\ \A m \in surviving : media[m].owners = {}
        /\ item' = [item EXCEPT ![o] = [m \in Media |->
               IF m \in broken THEN
                   [item[o][m] EXCEPT !.state = IF m \in surviving THEN "pending" ELSE "unlink_retry"]
               ELSE item[o][m]]]
        /\ media' = [m \in Media |->
               IF m \in surviving THEN [media[m] EXCEPT !.pending = TRUE] ELSE media[m]]
        /\ op' = [op EXCEPT ![o] = [op[o] EXCEPT
               !.status = "queued", !.failed = 0,
               !.processed = IF op[o].processed > op[o].failed
                             THEN op[o].processed - op[o].failed ELSE 0,
               !.phase = IF o \in Asset /\ asset[o] # "gone" /\ broken = {}
                         THEN "identity_queued" ELSE "other"]]
        /\ UNCHANGED <<scenario, asset, chat, object, disk, worker, lapsed>>

\* Variant of Refused with a fault: bytes that are being removed count as there.
TakesAnything(c) == FALSE

\* stage_managed_object
Refused(c) == object[c].state = "deleting"

\* Media with content c are imported, with an owner.  SQLite does not use an id
\* again (sqlite_autoincrement); the model does, as it has few, but not the id of
\* media that are still to be adopted.
Import(m, c) ==
    /\ Spend("import")
    /\ m \notin Rows \cup adopting
    /\ ~Refused(c)
    /\ object' = [object EXCEPT ![c] =
           IF object[c].state = "none" THEN [state |-> "available", sid |-> object[c].sid + 1] ELSE @]
    /\ disk' = disk \cup {c}
    /\ media' = [media EXCEPT ![m] =
           [content |-> c, sid |-> object'[c].sid, owners |-> {Other}, pending |-> FALSE]]
    /\ UNCHANGED <<scenario, asset, chat, op, item, worker, lapsed>>

\* acquire_media_owner, undisturbed
Adopt(m) ==
    /\ Spend("adopt")
    /\ m \in Rows
    /\ ~media[m].pending
    /\ media' = [media EXCEPT ![m].owners = @ \cup {Other}]
    /\ UNCHANGED <<scenario, asset, chat, object, disk, op, item, worker, lapsed>>

\* acquire_media_owner, over its awaits: the barrier is read by _live_media,
\* outside every write transaction, and not again when the owner is inserted.
AskToAdopt(m) ==
    /\ Spend("late_adopt")
    /\ m \in Rows
    /\ ~media[m].pending
    /\ adopting' = adopting \cup {m}
    /\ UNCHANGED <<scenario, db, disk, worker, lapsed>>

\* The insert fails for a row that is gone: MediaOwner.media_id is a foreign key.
AdoptLate(m) ==
    /\ m \in adopting
    /\ adopting' = adopting \ {m}
    /\ media' = IF m \in Rows THEN [media EXCEPT ![m].owners = @ \cup {Other}] ELSE media
    /\ UNCHANGED <<scenario, asset, chat, object, disk, op, item, worker, lapsed, spent>>

-----------------------------------------------------------------------------
\* The worker.  A pass goes through the profile's operations once.

Goes(pc) == worker' = [worker EXCEPT !.pc = pc]
Takes(pc, ops, work, kept) ==
    worker' = [pc |-> pc, ops |-> ops, work |-> work, kept |-> kept, broken |-> {}]
EndsPass == worker' = Idle

\* Variant of Collect with a fault: no row is barred.
NoBarrier(md, ms) == md

\* populate_delete_operation and _finalize_one_chat: a row nobody owns any more
\* is barred from new owners and gets an item.
Collect(md, ms) == [m \in Media |-> IF m \in ms THEN [md[m] EXCEPT !.pending = TRUE] ELSE md[m]]
Pending(ms) == [m \in Media |-> IF m \in ms THEN [NoItem EXCEPT !.state = "pending"] ELSE NoItem]

\* A pass starts with the deleted chat (finalize_due_chat_deletions).  Passes
\* that find nothing to do change nothing and are left out.
BeginPass ==
    /\ worker.pc = "idle"
    /\ \/ chat = "deleted"
       \/ \E o \in Op : op[o].status \in {"queued", "running", "checkpointing"}
    /\ Goes("stage")
    /\ IF chat = "deleted" THEN
           LET kept == [m \in Media |-> [media[m] EXCEPT !.owners = @ \ {Chat}]]
               mine == {m \in Rows : Chat \in media[m].owners /\ kept[m].owners = {} /\ ~media[m].pending}
           IN  /\ chat' = "gone"
               /\ media' = Collect(kept, mine)
               /\ item' = [item EXCEPT ![Chat] = Pending(mine)]
               /\ op' = [op EXCEPT ![Chat] =
                      [NoOp EXCEPT !.status = "queued", !.id = Newest + 1, !.total = Cardinality(mine)]]
       ELSE UNCHANGED <<chat, media, item, op>>
    /\ UNCHANGED <<scenario, asset, object, disk, lapsed, spent>>

Queued(phase) == {a \in Asset : op[a].status = "queued" /\ op[a].phase = phase}

\* What becomes of an operation whose asset cannot be deleted: it is gone
\* already, or it is no longer in the Trash.
Rejected(a) ==
    IF asset[a] = "gone" THEN [op[a] EXCEPT !.status = "checkpointing", !.phase = "other"]
    ELSE [op[a] EXCEPT !.status = "failed", !.phase = "other", !.failed = 1]
Deletable(ops) == {a \in ops : asset[a] \in {"trashed", "deleting"}}

\* The order in which the assets of a slice are deleted.
UpTo(a, ops) == {b \in ops : op[b].id <= op[a].id}

\* Variant of Collectible with a fault: what others own is collected too.
EvenOwned(a, ops) == {m \in Rows : a \in media[m].owners \/ m \in scenario.retired[a]}

\* permanently_delete_asset: the media of an asset, retired ones included, that
\* nobody owns once the assets of the slice up to it are gone.
Collectible(a, ops) ==
    {m \in Rows : /\ a \in media[m].owners \/ m \in scenario.retired[a]
                  /\ media[m].owners \ UpTo(a, ops) = {}}

\* populate_delete_operation raises for a row that is barred already.
Barred(a, ops) ==
    \E m \in Collectible(a, ops) :
        media[m].pending \/ \E b \in UpTo(a, ops) \ {a} : m \in Collectible(b, ops)

\* prestage_delete_operation_items: an object is kept for its live roots only.
Staged(md, m) ==
    [state |-> "media_deleted", content |-> media[m].content, sid |-> media[m].sid,
     key |-> /\ object[media[m].content].sid = media[m].sid
             /\ object[media[m].content].state # "none"
             /\ Rooted(md, media[m].content, media[m].sid) = {}]

\* The objects whose bytes the items of staged are to remove.
Doomed(staged) == {staged[m].content : m \in {m \in DOMAIN staged : staged[m].key}}
Deleting(contents) ==
    [c \in Content |-> IF c \in contents THEN [object[c] EXCEPT !.state = "deleting"] ELSE object[c]]

\* _stage_queued_asset_identities: the assets of a slice are deleted, and their
\* media as well unless the rows of one cannot be deleted.
StageSlice(slice, scrubbed) ==
    LET valid == Deletable(slice)
        mine(a) == IF a \in valid THEN Collectible(a, valid) ELSE {}
        all == UNION {mine(a) : a \in valid}
        md == Collect([m \in Media |-> [media[m] EXCEPT !.owners = @ \ valid]], all)
        staged == [m \in all |-> Staged(md, m)]
    IN  /\ asset' = [a \in Asset |-> IF a \in valid THEN "gone" ELSE asset[a]]
        /\ media' = [m \in Media |-> IF scrubbed /\ m \in all THEN NoRow ELSE md[m]]
        /\ object' = IF scrubbed THEN Deleting(Doomed(staged)) ELSE object
        /\ item' = [o \in Op |->
               IF o \notin valid THEN item[o]
               ELSE IF scrubbed
               THEN [m \in Media |-> IF m \in mine(o) THEN staged[m] ELSE NoItem]
               ELSE Pending(mine(o))]
        /\ op' = [o \in Op |->
               IF o \notin slice THEN op[o]
               ELSE IF o \notin valid THEN Rejected(o)
               ELSE IF mine(o) = {} THEN [op[o] EXCEPT !.status = "checkpointing", !.phase = "other"]
               ELSE [op[o] EXCEPT !.total = Cardinality(mine(o)),
                                  !.status = IF scrubbed THEN "running" ELSE "queued",
                                  !.phase = IF scrubbed THEN "unlinking_artifacts" ELSE "other"]]

StageIdentities ==
    LET slice == First(Queued("identity_refs_scrubbed"), scenario.slice)
    IN  /\ worker.pc \in {"stage", "stage again"}
        /\ IF \E a \in Deletable(slice) : Barred(a, Deletable(slice)) THEN
               \* the exception ends the pass
               EndsPass /\ UNCHANGED <<db, spent>>
           ELSE \E scrubbed \in BOOLEAN :
               /\ Disturbed("scrub", ~scrubbed)
               /\ ~scrubbed => \E a \in Deletable(slice) : Collectible(a, Deletable(slice)) # {}
               /\ StageSlice(slice, scrubbed)
               /\ chat' = chat
               /\ Goes(IF slice = {} /\ worker.pc = "stage" THEN "prepare" ELSE "recover")
        /\ UNCHANGED <<scenario, disk, lapsed>>

\* _prepare_queued_asset_references; ASSET_REFERENCE_BATCH_SIZE is never reached.
PrepareReferences ==
    LET queue == Queued("identity_queued")
    IN  /\ worker.pc = "prepare"
        /\ op' = [o \in Op |->
               IF o \notin queue THEN op[o]
               ELSE IF o \in Deletable(queue) THEN [op[o] EXCEPT !.phase = "identity_refs_scrubbed"]
               ELSE Rejected(o)]
        /\ Goes("stage again")
        /\ UNCHANGED <<scenario, asset, chat, media, object, disk, item, lapsed, spent>>

\* Variant of Recovered with a fault: a removal that was retried stays leased.
OnceOnly(state) ==
    CASE state = "claimed" -> "pending" [] state = "unlinking" -> "media_deleted" [] OTHER -> state

\* Where an item continues once its lease is over.
Recovered(state) ==
    CASE state = "claimed" -> "pending"
      [] state = "unlinking" -> "media_deleted"
      [] state = "unlinking_retry" -> "unlink_retry"
      [] OTHER -> state

\* A new process takes up the items whose leases are over.
RecoverLeases ==
    /\ worker.pc = "recover"
    /\ item' = IF ~lapsed THEN item ELSE
           [o \in Op |-> [m \in Media |-> [item[o][m] EXCEPT !.state = Recovered(@)]]]
    /\ lapsed' = FALSE
    /\ Goes("batch")
    /\ UNCHANGED <<scenario, asset, chat, media, object, disk, op, spent>>

\* The storage objects of the items of ops that a live root retains.
Retained(ops) ==
    {k \in {<<media[m].content, media[m].sid>> : m \in {n \in Rows : media[n].owners # {}}} :
        \E o \in ops, m \in Media : k = <<item[o][m].content, item[o][m].sid>>}

\* _finalize_staged_asset_batch, up to its first commit.
ClaimBatch ==
    LET ready == {a \in Asset : op[a].status = "running" /\ op[a].phase = "unlinking_artifacts"}
        eligible == {a \in ready : In(a, {"media_deleted"}) # {}}
    IN  /\ worker.pc = "batch"
        /\ item' = [o \in Op |-> [m \in Media |->
               IF o \in eligible /\ item[o][m].state = "media_deleted"
               THEN [item[o][m] EXCEPT !.state = "unlinking"] ELSE item[o][m]]]
        /\ IF eligible = {} THEN Goes("head")
           ELSE Takes("unlink batch", eligible, {}, Retained(eligible))
        /\ UNCHANGED <<scenario, asset, chat, media, object, disk, op, lapsed, spent>>

\* The oldest operation is taken up.
TakeUpOldest ==
    LET active == {o \in Op : op[o].status \in {"queued", "running"} /\ op[o].phase # "identity_queued"}
        oldest == First(active, 1)
    IN  /\ worker.pc = "head"
        /\ op' = [o \in Op |->
               IF o \in oldest /\ op[o].status = "queued"
               THEN [op[o] EXCEPT !.status = "running", !.phase = "other"] ELSE op[o]]
        /\ CASE oldest = {} -> Goes("checkpoint")
             [] \E o \in oldest : In(o, {"pending"}) # {} -> Takes("claim", oldest, {}, {})
             [] OTHER -> Takes("finalize", oldest, {}, {})
        /\ UNCHANGED <<scenario, asset, chat, media, object, disk, item, lapsed, spent>>

\* _finalize_staged_deletion, up to its first commit.
Finalize ==
    \E o \in worker.ops :
        /\ worker.pc = "finalize"
        /\ item' = [item EXCEPT ![o] = [m \in Media |-> [item[o][m] EXCEPT !.state =
               CASE @ = "media_deleted" -> "unlinking"
                 [] @ = "unlink_retry" -> "unlinking_retry"
                 [] OTHER -> @]]]
        /\ IF In(o, {"media_deleted", "unlink_retry"}) = {} THEN Goes("claim")
           ELSE Takes("unlink", {o}, {}, Retained({o}))
        /\ UNCHANGED <<scenario, asset, chat, media, object, disk, op, lapsed, spent>>

\* Variant of Outcome with a fault: failed items are not looked at.
AlwaysWell(o) == "completed"

\* An operation that reports failed items has failed.
Outcome(o) == IF op[o].failed > 0 THEN "failed" ELSE "completed"

\* Pending items are claimed; DELETE_BATCH_SIZE is never reached.
Claim ==
    \E o \in worker.ops :
        LET pending == In(o, {"pending"})
        IN  /\ worker.pc = "claim"
            /\ pending # {}
            /\ item' = [item EXCEPT ![o] = [m \in Media |->
                   IF m \in pending THEN [item[o][m] EXCEPT !.state = "claimed"] ELSE item[o][m]]]
            /\ op' = [op EXCEPT ![o].phase = "other"]
            /\ Takes("scrub", {o}, pending, {})
            /\ UNCHANGED <<scenario, asset, chat, media, object, disk, lapsed, spent>>

\* There is nothing to claim: items wait for their lease, or the operation is
\* done.  That of a chat completes once the write-ahead log is truncated.
Conclude ==
    \E o \in worker.ops :
        /\ worker.pc = "claim"
        /\ In(o, {"pending"}) = {}
        /\ IF In(o, ItemState \ {"none", "failed"}) # {} THEN
               EndsPass /\ UNCHANGED <<op, spent>>
           ELSE IF o \in Asset THEN
               /\ op' = [op EXCEPT ![o].status = "checkpointing", ![o].phase = "other"]
               /\ Goes("checkpoint")
               /\ UNCHANGED spent
           ELSE \E busy \in BOOLEAN :
               /\ Disturbed("busy", busy)
               /\ op' = [op EXCEPT ![o].status = IF busy THEN @ ELSE Outcome(o), ![o].phase = "other"]
               /\ EndsPass
        /\ UNCHANGED <<scenario, asset, chat, media, object, disk, item, lapsed>>

\* References are scrubbed and the rows of the claimed media deleted, in one
\* transaction with the record of the files to remove: an object is kept for
\* every other row that points at it.  The rows of some media may fail, and
\* those of media that somebody owns do.
DeleteRows ==
    \E o \in worker.ops, bad \in SUBSET worker.work :
        LET owned == {m \in worker.work : media[m].owners # {}}
            good == (worker.work \ bad) \cap Rows
            refs(m) == Refs(media, media[m].content, media[m].sid)
            staged == [m \in good |-> [Staged(media, m) EXCEPT !.key =
                /\ object[media[m].content].sid = media[m].sid
                /\ object[media[m].content].state # "none"
                /\ refs(m) \subseteq good]]
        IN  /\ worker.pc = "scrub"
            /\ owned \subseteq bad
            /\ Disturbed("scrub", bad # owned)
            /\ media' = [m \in Media |-> IF m \in good THEN NoRow ELSE media[m]]
            /\ object' = Deleting(Doomed(staged))
            /\ item' = [item EXCEPT ![o] = [m \in Media |->
                   IF m \in good THEN staged[m]
                   ELSE IF m \in worker.work \ bad THEN [item[o][m] EXCEPT !.state = "media_deleted"]
                   ELSE item[o][m]]]
            /\ op' = [op EXCEPT ![o].phase = IF bad = worker.work THEN @ ELSE "unlinking_artifacts"]
            /\ IF bad = {} THEN EndsPass ELSE Takes("mark", {o}, bad, {})
            /\ UNCHANGED <<scenario, asset, chat, disk, lapsed>>

\* The items whose rows could not be deleted have failed.
MarkFailed ==
    \E o \in worker.ops :
        /\ worker.pc = "mark"
        /\ item' = [item EXCEPT ![o] = [m \in Media |->
               IF m \in worker.work THEN [item[o][m] EXCEPT !.state = "failed"] ELSE item[o][m]]]
        /\ op' = [op EXCEPT ![o].processed = @ + Cardinality(worker.work),
                            ![o].failed = @ + Cardinality(worker.work)]
        /\ EndsPass
        /\ UNCHANGED <<scenario, asset, chat, media, object, disk, lapsed, spent>>

InUnlink(o) == In(o, {"unlinking", "unlinking_retry"})

\* _unlink_staged_manifests, in a thread: the bytes that the claimed items
\* record are removed, except those found retained when the items were claimed.
\* A failure leaves some of an operation's files.
Unlink ==
    LET doomed(o) == {item[o][m].content : m \in {n \in InUnlink(o) :
            item[o][n].key /\ <<item[o][n].content, item[o][n].sid>> \notin worker.kept}}
        all(ops) == UNION {doomed(o) : o \in ops}
    IN  /\ worker.pc \in {"unlink", "unlink batch"}
        /\ \E broken \in SUBSET worker.ops : \E some \in SUBSET all(broken) :
               /\ Disturbed("unlink", broken # {})
               /\ disk' = disk \ (all(worker.ops \ broken) \cup some)
               /\ worker' = [worker EXCEPT
                      !.pc = IF @ = "unlink" THEN "settle" ELSE "settle batch", !.broken = broken]
        /\ UNCHANGED <<scenario, db, lapsed>>

\* The objects behind the items of ops are dropped, unless they are needed
\* again: inUse are the contents whose object is.
Dropped(ops, inUse) ==
    [c \in Content |->
        IF /\ object[c].state = "deleting"
           /\ \E o \in ops : \E m \in InUnlink(o) :
                  item[o][m].content = c /\ item[o][m].sid = object[c].sid
        THEN [object[c] EXCEPT !.state = IF c \in inUse THEN "available" ELSE "none"]
        ELSE object[c]]

\* Variant of UnlinkFailed with a fault: a state that no statement selects.
Misspelt(o) ==
    [m \in Media |-> IF m \in InUnlink(o) THEN [item[o][m] EXCEPT !.state = "unlinking_failed"] ELSE item[o][m]]
\* Variant of UnlinkFailed with a fault: the items are dropped, files or no files.
Dismissed(o) == [m \in Media |-> IF m \in InUnlink(o) THEN NoItem ELSE item[o][m]]

\* The claimed items of an operation after a failure, and after a success.
UnlinkFailed(o) ==
    [m \in Media |-> IF m \in InUnlink(o) THEN [item[o][m] EXCEPT !.state = "unlink_failed"] ELSE item[o][m]]
Unlinked(o) == [m \in Media |-> IF m \in InUnlink(o) THEN NoItem ELSE item[o][m]]

\* Variant of Counted with a fault: failed items are not counted as processed.
FailedApart(o, n) ==
    IF o \in worker.broken THEN [op[o] EXCEPT !.status = "failed", !.phase = "other", !.failed = @ + n]
    ELSE [op[o] EXCEPT !.phase = "other", !.processed = @ + n, !.deleted = @ + n]

\* The counts of an operation whose claimed items were, or were not, removed.
Counted(o, n) ==
    IF o \in worker.broken
    THEN [op[o] EXCEPT !.status = "failed", !.phase = "other", !.processed = @ + n, !.failed = @ + n]
    ELSE [op[o] EXCEPT !.phase = "other", !.processed = @ + n, !.deleted = @ + n]

\* _finalize_staged_deletion, its last transaction: an object is kept for any
\* row that points at it.
Settle ==
    \E o \in worker.ops :
        LET n == Cardinality(InUnlink(o))
            inUse == {c \in Content : Refs(media, c, object[c].sid) # {}}
            left == In(o, ItemState \ {"none", "failed"}) \ InUnlink(o)
        IN  /\ worker.pc = "settle"
            /\ object' = Dropped(worker.ops \ worker.broken, inUse)
            /\ item' = [item EXCEPT ![o] = IF o \in worker.broken THEN UnlinkFailed(o) ELSE Unlinked(o)]
            /\ op' = [op EXCEPT ![o] =
                   IF o \in Asset \ worker.broken /\ left = {}
                   THEN [Counted(o, n) EXCEPT !.status = "checkpointing"] ELSE Counted(o, n)]
            /\ EndsPass
            /\ UNCHANGED <<scenario, asset, chat, media, disk, lapsed, spent>>

\* _finalize_staged_asset_batch, its last transaction: an object is kept for
\* its live roots only.
SettleBatch ==
    LET inUse == {c \in Content : Rooted(media, c, object[c].sid) # {}}
    IN  /\ worker.pc = "settle batch"
        /\ object' = Dropped(worker.ops \ worker.broken, inUse)
        /\ item' = [o \in Op |->
               CASE o \in worker.broken -> UnlinkFailed(o)
                 [] o \in worker.ops \ worker.broken -> Unlinked(o)
                 [] OTHER -> item[o]]
        /\ op' = [o \in Op |->
               IF o \notin worker.ops THEN op[o]
               ELSE IF o \in worker.broken THEN Counted(o, Cardinality(InUnlink(o)))
               ELSE [Counted(o, Cardinality(InUnlink(o))) EXCEPT !.status = "checkpointing"]]
        /\ EndsPass
        /\ UNCHANGED <<scenario, asset, chat, media, disk, lapsed, spent>>

\* _checkpoint_asset_queue_if_drained
Checkpoint ==
    LET drained == \A a \in Asset : op[a].status \notin {"queued", "running"}
        waiting == {a \in Asset : op[a].status = "checkpointing"}
    IN  /\ worker.pc = "checkpoint"
        /\ IF ~drained \/ waiting = {} THEN UNCHANGED <<op, spent>>
           ELSE \E busy \in BOOLEAN :
               /\ Disturbed("busy", busy)
               /\ op' = [o \in Op |->
                      IF o \in waiting /\ ~busy THEN [op[o] EXCEPT !.status = Outcome(o)] ELSE op[o]]
        /\ EndsPass
        /\ UNCHANGED <<scenario, asset, chat, media, object, disk, item, lapsed>>

Works ==
    /\ \/ BeginPass \/ StageIdentities \/ PrepareReferences \/ RecoverLeases
       \/ ClaimBatch \/ TakeUpOldest \/ Finalize \/ Claim \/ Conclude
       \/ DeleteRows \/ MarkFailed \/ Unlink \/ Settle \/ SettleBatch \/ Checkpoint
    /\ UNCHANGED adopting

\* The process dies, and another starts.
Crash ==
    /\ Spend("crash")
    /\ worker.pc # "idle"
    /\ EndsPass
    /\ adopting' = {}
    /\ UNCHANGED <<scenario, db, disk, lapsed>>

\* LEASE_SECONDS pass after a crash.
LeasesLapse ==
    /\ ~lapsed
    /\ worker.pc = "idle"
    /\ \E o \in Op : In(o, Leased) # {}
    /\ lapsed' = TRUE
    /\ UNCHANGED <<scenario, db, disk, worker, adopting, spent>>

People ==
    /\ \/ \E chosen \in SUBSET Asset : Enqueue(chosen)
       \/ \E a \in Asset : Restore(a) \/ Trash(a)
       \/ DeleteChat
       \/ \E o \in Op : Retry(o)
       \/ \E m \in Media : (\E c \in Content : Import(m, c)) \/ Adopt(m)
    /\ UNCHANGED adopting

LateOwners == \E m \in Media : AskToAdopt(m) \/ AdoptLate(m)

Next == People \/ LateOwners \/ Works \/ Crash \/ LeasesLapse

Spec == Init /\ [][Next]_vars

\* The worker's loop is started with the process and when something is
\* enqueued, wakes up every 300 seconds, and catches what a pass raises; leases
\* run out.
FairSpec == Spec /\ WF_vars(Works) /\ SF_vars(LeasesLapse)

-----------------------------------------------------------------------------
\* Properties.

\* Every variable holds values of its kind.
TypeOK ==
    /\ scenario \in Scenarios
    /\ asset \in [Asset -> {"active", "trashed", "deleting", "gone"}]
    /\ chat \in {"live", "deleted", "gone"}
    /\ media \in [Media -> [content : Content \cup {None}, sid : Nat,
                            owners : SUBSET (Op \cup {Other}), pending : BOOLEAN]]
    /\ object \in [Content -> [state : {"none", "available", "deleting"}, sid : Nat]]
    /\ disk \subseteq Content
    /\ op \in [Op -> [status : Status, phase : Phase, id : Nat, total : Nat,
                      processed : Nat, deleted : Nat, failed : Nat]]
    /\ item \in [Op -> [Media -> [state : ItemState, content : Content \cup {None},
                                  sid : Nat, key : BOOLEAN]]]
    /\ worker \in [pc : Points, ops : SUBSET Op, work : SUBSET Media,
                   kept : SUBSET ((Content \cup {None}) \X Nat), broken : SUBSET Op]
    /\ lapsed \in BOOLEAN
    /\ adopting \subseteq Media /\ (adopting # {} => "late_adopt" \in scenario.events)
    /\ spent \in 0..scenario.limit

\* The bytes of media that somebody owns are on disk, whatever is deleted,
\* imported or resumed meanwhile: media of equal content share them
\* (_retained_storage_ids, stage_managed_object).  Left out: media whose owner had
\* looked at them before they were barred, and comes after.
OwnedBytesKept ==
    \A m \in Rows : media[m].owners # {} /\ ~(media[m].pending /\ "late_adopt" \in scenario.events) =>
                       media[m].content \in disk

\* No bytes are forgotten: those still on disk belong to a row, or an item of
\* an operation remembers to remove them, across crashes, failures and retries.
BytesAccountedFor ==
    \A c \in disk :
        \/ \E m \in Rows : media[m].content = c
        \/ \E o \in Op, m \in Media : item[o][m].key /\ item[o][m].content = c

\* The operations that are to delete a row.
Hands(m) == {o \in Op : item[o][m].state \in {"pending", "claimed", "failed"}}

\* A row is barred from new owners (deletion_pending_at) exactly while one
\* operation that has not completed is to delete it.  Nobody owns it, but for
\* those who had looked at it before it was barred: nobody looks again.
BarredRowIsInHand ==
    \A m \in Rows :
        /\ media[m].pending = (Hands(m) # {})
        /\ media[m].pending =>
              /\ Cardinality(Hands(m)) = 1
              /\ media[m].owners = {} \/ ("late_adopt" \in scenario.events /\ media[m].owners = {Other})
              /\ \A o \in Hands(m) : op[o].status \notin {"completed", "superseded"}

\* An operation reported as completed has deleted its identity, owns no row
\* any more, and nothing is left for it to remove.
CompletedIsGone ==
    \A o \in Op : op[o].status \in {"completed", "superseded"} =>
        /\ o \in Asset => asset[o] = "gone"
        /\ \A m \in Rows : o \notin media[m].owners
        /\ In(o, ItemState \ {"none"}) = {}

\* What an operation reports agrees with its items: each is deleted, failed or
\* still to do, and none is counted twice, across crashes and retries.
CountsAddUp ==
    \A o \in Op : op[o].total > 0 =>
        /\ op[o].processed = op[o].deleted + op[o].failed
        /\ op[o].deleted + Cardinality(In(o, ItemState \ {"none"})) = op[o].total
        /\ op[o].failed = Cardinality(In(o, {"failed", "unlink_failed"}))

\* Media that others own, imported ones included, are never deleted: neither by
\* an operation whose items outlive the rows they name (they keep ids, and the
\* model gives ids again, which SQLite does not) nor by one that had barred them.
StrangersUntouched ==
    [][\A m \in Rows : Other \in media[m].owners =>
           media'[m].content = media[m].content /\ Other \in media'[m].owners]_vars

\* Every operation ends: it completes, or fails for somebody to retry it;
\* crashes, failures and leases only delay it.  Left out: an asset that keeps a
\* retired revision of media which another operation is deleting.
EveryOperationEnds ==
    \A o \in Op :
        (op[o].status \in {"queued", "running", "checkpointing"}
            /\ \A a \in Asset : scenario.retired[a] = {})
        ~> op[o].status \in {"completed", "failed", "superseded"}
=============================================================================
