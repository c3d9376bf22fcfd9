------------------------------ MODULE FileStore ------------------------------
(***************************************************************************)
(* The file store of a vault (agent/state.rs): the rows of the table       *)
(* files, the encrypted blobs the rows name, and the one database writer   *)
(* that keeps the two in step.  A row is committed by SQLite and a blob is *)
(* a file of its own, so that every operation on both is several steps,    *)
(* and the agent may die between any two of them.                          *)
(*                                                                         *)
(* The writer serves one command at a time.  A caller does nothing between *)
(* sending a command and getting its answer, so that sending a command is  *)
(* the step in which the writer takes it up.                               *)
(*                                                                         *)
(* A content stands for its SHA-256 and its size; a day stands for the 24  *)
(* hours an orphan is kept.  What a power failure does to files that were  *)
(* written and not synced is outside the model.                            *)
(***************************************************************************)
EXTENDS Integers, FiniteSets, Functions

CONSTANTS
    Contents,   \* what files may contain
    Ids,        \* file ids: random, so an id in use is never drawn again
    Names,      \* the items files are attached to
    MaxDay,     \* bound: how many days a behaviour lasts
    MaxHarm     \* bound: how many I/O errors and crashes a behaviour has

VARIABLES
    rows,       \* the table files: id -> content and created_at
    blobs,      \* the blob files: id -> what decrypting it gives
    temps,      \* ids whose temporary file exists (<store>/tmp/<id>.tmp)
    items,      \* item_version_file_mapping: item -> the ids attached to it
    claimed,    \* history: the ids that have been attached to some item
    writer,     \* what the writer is doing
    answer,     \* caller -> the answer waiting for it
    day,        \* the wall clock
    harm        \* how many I/O errors, crashes and failed deletions of a
                \* row whose blob is gone there have been

storeVars == <<rows, blobs, temps, items, claimed, writer, answer, day, harm>>

(***************************************************************************)
(* Nobody is the caller whose task or handler is gone.                     *)
(***************************************************************************)
Nobody == "nobody"
Idle == [op |-> "idle"]

Without(f, S) == Restrict(f, DOMAIN f \ S)
With(f, x, y) == [z \in DOMAIN f \cup {x} |-> IF z = x THEN y ELSE f[z]]

Harmed(kind) == harm[kind] > 0

Harm(kind) ==
    /\ harm.disk + harm.crash + harm.delete < MaxHarm
    /\ harm' = [harm EXCEPT ![kind] = @ + 1]

IsAttached(id) == \E name \in DOMAIN items : id \in items[name]

(***************************************************************************)
(* The answers of the writer: a status, and for an upload the id and       *)
(* whether this upload created it.                                         *)
(***************************************************************************)
Status(s) == [status |-> s]
File(id, new) == [status |-> "ok", id |-> id, new |-> new]

Answer(who, a) ==
    /\ answer' = IF who = Nobody THEN answer ELSE With(answer, who, a)
    /\ writer' = Idle

TakeAnswer(who) ==
    /\ who \in DOMAIN answer
    /\ answer' = Without(answer, {who})

(***************************************************************************)
(* create_file: the temporary file is opened under a fresh id, and         *)
(* created_at is the time at which the upload begins.  sound is FALSE for  *)
(* a body with a chunk that is too large, with another length than         *)
(* announced or with another checksum than expected.                       *)
(***************************************************************************)
BeginUpload(who, id, content, sound) ==
    /\ writer = Idle
    /\ temps' = temps \cup {id}
    /\ writer' = [op |-> "upload", at |-> "body", who |-> who, id |-> id,
                  content |-> content, sound |-> sound, day |-> day]
    /\ UNCHANGED <<rows, blobs, items, claimed, answer, day, harm>>

Uploading(at) == writer.op = "upload" /\ writer.at = at

RefuseBody ==
    /\ Uploading("body")
    /\ ~writer.sound
    /\ temps' = temps \ {writer.id}
    /\ Answer(writer.who, Status("bad_request"))
    /\ UNCHANGED <<rows, blobs, items, claimed, day, harm>>

(***************************************************************************)
(* An error in writing the temporary file returns without removing it.     *)
(***************************************************************************)
BodyWriteFails ==
    /\ Uploading("body")
    /\ Harm("disk")
    /\ Answer(writer.who, Status("internal"))
    /\ UNCHANGED <<rows, blobs, temps, items, claimed, day>>

(***************************************************************************)
(* file_id_by_sha256: a content that has a row is not stored again, and    *)
(* the answer is the id it has; created_at stays as it is.                 *)
(***************************************************************************)
Existing(content) == {id \in DOMAIN rows : rows[id].content = content}

Deduplicate ==
    /\ Uploading("body")
    /\ writer.sound
    /\ Existing(writer.content) # {}
    /\ temps' = temps \ {writer.id}
    /\ \E id \in Existing(writer.content) : Answer(writer.who, File(id, FALSE))
    /\ UNCHANGED <<rows, blobs, items, claimed, day, harm>>

(***************************************************************************)
(* The row is inserted in a transaction (writer.at is then "commit" or     *)
(* the upload is answered), the temporary file renamed, and only then the  *)
(* transaction committed.                                                  *)
(***************************************************************************)
RenameBlob ==
    /\ Uploading("body")
    /\ writer.sound
    /\ Existing(writer.content) = {}
    /\ \/ /\ blobs' = With(blobs, writer.id, writer.content)
          /\ writer' = [writer EXCEPT !.at = "commit"]
          /\ UNCHANGED <<answer, harm>>
       \/ /\ Harm("disk")
          /\ Answer(writer.who, Status("internal"))
          /\ UNCHANGED blobs
    /\ temps' = temps \ {writer.id}
    /\ UNCHANGED <<rows, items, claimed, day>>

CommitRow ==
    /\ Uploading("commit")
    /\ \/ /\ rows' = With(rows, writer.id,
                          [content |-> writer.content, day |-> writer.day])
          /\ Answer(writer.who, File(writer.id, TRUE))
          /\ UNCHANGED <<blobs, harm>>
       \/ /\ Harm("disk")
          /\ blobs' = Without(blobs, {writer.id})
          /\ Answer(writer.who, Status("internal"))
          /\ UNCHANGED rows
    /\ UNCHANGED <<temps, items, claimed, day>>

(***************************************************************************)
(* delete_unattached_file: the blob is unlinked (a blob that is not there  *)
(* is no error), then the row is deleted if nothing is attached to it.  If *)
(* SQLite cannot delete it, the row stays without its blob.                *)
(***************************************************************************)
BeginDeleteUnchecked(who, id) ==
    /\ writer = Idle
    /\ writer' = [op |-> "delete", at |-> "unlink", who |-> who, id |-> id]
    /\ UNCHANGED <<rows, blobs, temps, items, claimed, answer, day, harm>>

BeginDelete(who, id) ==
    /\ writer = Idle
    /\ IF IsAttached(id)
       THEN Answer(who, Status("ok"))
       ELSE /\ writer' = [op |-> "delete", at |-> "unlink", who |-> who, id |-> id]
            /\ UNCHANGED answer
    /\ UNCHANGED <<rows, blobs, temps, items, claimed, day, harm>>

Deleting(at) == writer.op = "delete" /\ writer.at = at

UnlinkDeleted ==
    /\ Deleting("unlink")
    /\ \/ /\ blobs' = Without(blobs, {writer.id})
          /\ writer' = [writer EXCEPT !.at = "row"]
          /\ UNCHANGED <<answer, harm>>
       \/ /\ Harm("disk")
          /\ Answer(writer.who, Status("internal"))
          /\ UNCHANGED blobs
    /\ UNCHANGED <<rows, temps, items, claimed, day>>

DeleteRow(id) == rows' = IF IsAttached(id) THEN rows ELSE Without(rows, {id})

DeleteDeletedRow ==
    /\ Deleting("row")
    /\ \/ /\ DeleteRow(writer.id)
          /\ Answer(writer.who, Status("ok"))
          /\ UNCHANGED harm
       \/ /\ Harm("delete")
          /\ Answer(writer.who, Status("internal"))
          /\ UNCHANGED rows
    /\ UNCHANGED <<blobs, temps, items, claimed, day>>

(***************************************************************************)
(* cleanup_orphan_files: the ids are selected first; each blob is then     *)
(* unlinked and its row deleted, and an id whose blob cannot be unlinked   *)
(* keeps its row.  A row that cannot be deleted ends the cleanup.          *)
(***************************************************************************)
FileCutoffAtOnce == day

FileCutoff == day - 1

Orphans == {id \in DOMAIN rows : rows[id].day <= FileCutoff /\ ~IsAttached(id)}

BeginCleanup ==
    /\ writer = Idle
    /\ writer' = [op |-> "cleanup", at |-> "unlink", todo |-> Orphans]
    /\ UNCHANGED <<rows, blobs, temps, items, claimed, answer, day, harm>>

Cleaning(at) == writer.op = "cleanup" /\ writer.at = at

UnlinkOrphan ==
    /\ Cleaning("unlink")
    /\ \E id \in writer.todo :
          \/ /\ blobs' = Without(blobs, {id})
             /\ writer' = [op |-> "cleanup", at |-> "row", id |-> id,
                           todo |-> writer.todo \ {id}]
             /\ UNCHANGED harm
          \/ /\ Harm("disk")
             /\ writer' = [writer EXCEPT !.todo = @ \ {id}]
             /\ UNCHANGED blobs
    /\ UNCHANGED <<rows, temps, items, claimed, answer, day>>

DeleteOrphanRow ==
    /\ Cleaning("row")
    /\ \/ /\ DeleteRow(writer.id)
          /\ writer' = [op |-> "cleanup", at |-> "unlink", todo |-> writer.todo]
          /\ UNCHANGED harm
       \/ /\ Harm("delete")
          /\ writer' = Idle
          /\ UNCHANGED rows
    /\ UNCHANGED <<blobs, temps, items, claimed, answer, day>>

EndCleanup ==
    /\ Cleaning("unlink")
    /\ writer.todo = {}
    /\ writer' = Idle
    /\ UNCHANGED <<rows, blobs, temps, items, claimed, answer, day, harm>>

(***************************************************************************)
(* create_item and delete_item, as far as files go: one transaction each.  *)
(* attach_existing_file refuses an id that has no row, and with it the     *)
(* whole item.                                                             *)
(***************************************************************************)
CreateStatus(name, ids) ==
    IF name \in DOMAIN items THEN "conflict"
    ELSE IF ~(ids \subseteq DOMAIN rows) THEN "bad_request" ELSE "ok"

CreateItem(name, ids) ==
    /\ writer = Idle
    /\ IF CreateStatus(name, ids) = "ok"
       THEN items' = With(items, name, ids) /\ claimed' = claimed \cup ids
       ELSE UNCHANGED <<items, claimed>>
    /\ UNCHANGED <<rows, blobs, temps, writer, answer, day, harm>>

DeleteItem(name) ==
    /\ writer = Idle
    /\ name \in DOMAIN items
    /\ items' = Without(items, {name})
    /\ UNCHANGED <<rows, blobs, temps, claimed, writer, answer, day, harm>>

(***************************************************************************)
(* stream_decrypt_stored_file opens the blob by its id, on a thread of its *)
(* own and after the row was read.                                         *)
(***************************************************************************)
CanOpen(id) == id \in DOMAIN blobs

NextDay ==
    /\ day < MaxDay
    /\ day' = day + 1
    /\ UNCHANGED <<rows, blobs, temps, items, claimed, writer, answer, harm>>

(***************************************************************************)
(* The agent dies and is started again: committed rows and files remain.   *)
(***************************************************************************)
CrashStore ==
    /\ Harm("crash")
    /\ writer' = Idle
    /\ answer' = [w \in {} |-> Status("ok")]
    /\ UNCHANGED <<rows, blobs, temps, items, claimed, day>>

WriterStep ==
    \/ RefuseBody \/ BodyWriteFails \/ Deduplicate \/ RenameBlob \/ CommitRow
    \/ UnlinkDeleted \/ DeleteDeletedRow
    \/ UnlinkOrphan \/ DeleteOrphanRow \/ EndCleanup

InitStore ==
    /\ rows = [id \in {} |-> [content |-> "", day |-> 0]]
    /\ blobs = [id \in {} |-> ""]
    /\ temps = {}
    /\ items = [name \in {} |-> {}]
    /\ claimed = {}
    /\ writer = Idle
    /\ answer = [w \in {} |-> Status("ok")]
    /\ day = 0
    /\ harm = [disk |-> 0, crash |-> 0, delete |-> 0]
==============================================================================
