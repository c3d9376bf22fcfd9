--------------------------- MODULE Transfers_proofs ---------------------------
(***************************************************************************)
(* The file store keeps its promises: what is attached to an item can be   *)
(* read back, and what goes wrong leaves nothing over.                     *)
(***************************************************************************)
EXTENDS Transfers, TLAPS

-----------------------------------------------------------------------------
(* The invariants *)

(***************************************************************************)
(* f is a function from some of S to T.                                    *)
(***************************************************************************)
Partial(f, S, T) == f \in [DOMAIN f -> T] /\ DOMAIN f \subseteq S

Callers == Clients \cup Jobs

WriterStates ==
    [op: {"idle"}]
    \cup [op: {"upload"}, at: {"body", "commit"}, who: Callers \cup {Nobody}, id: Ids,
          content: Stored, sound: BOOLEAN, day: Nat]
    \cup [op: {"delete"}, at: {"unlink", "row"}, who: Callers, id: Ids]
    \cup [op: {"cleanup"}, at: {"unlink"}, todo: SUBSET Ids]
    \cup [op: {"cleanup"}, at: {"row"}, todo: SUBSET Ids, id: Ids]

Uploaded ==
    [status: {"ok"}, id: Ids, new: BOOLEAN] \cup [status: {"bad_request", "internal"}]

Deleted == [status: {"ok", "internal"}]

StoreTypeOK ==
    /\ Partial(rows, Ids, [content: Stored, day: Nat])
    /\ Partial(blobs, Ids, Stored)
    /\ temps \subseteq Ids
    /\ Partial(items, Names, SUBSET Ids)
    /\ claimed \subseteq Ids
    /\ writer \in WriterStates
    /\ Partial(answer, Callers, Uploaded \cup Deleted)
    /\ day \in Nat
    /\ harm \in [disk: Nat, crash: Nat, delete: Nat]

ClientStates ==
    [at: {"free"}, uploads: Nat]
    \cup [at: {"upload"}, uploads: Nat, day: Nat]
    \cup [at: {"holds"}, uploads: Nat, id: Ids, new: BOOLEAN, day: Nat]

Streams == [id: Ids \cup {0}, whole: BOOLEAN, seen: {"none", "file", "error"}]

JobRows ==
    [kind: {"import", "export"}, status: {"none", "queued", "running", "succeeded", "failed"},
     name: Names]

Tasks ==
    [kind: {"import", "export"},
     at: {"creating", "created", "refused", "leaving", "left", "queued", "parse", "upload",
          "create", "clean", "cleaning", "snapshot", "stream", "mark", "remark", "ended"},
     left: Seq(Stored), ids: SUBSET Ids, mine: SUBSET Ids, made: SUBSET Ids,
     flaw: Flaws, whole: BOOLEAN, failed: BOOLEAN]

(***************************************************************************)
(* Who the writer works for, or has answered, waits for just that.         *)
(***************************************************************************)
Waits(who, at) ==
    \/ who \in Clients /\ client[who].at = "upload" /\ at = "upload"
    \/ who \in DOMAIN task /\ task[who].at = at

Awaited ==
    /\ writer.op = "upload" /\ writer.who # Nobody =>
           writer.who \notin DOMAIN answer /\ Waits(writer.who, "upload")
    /\ writer.op = "delete" =>
           writer.who \notin DOMAIN answer /\ writer.who \in Jobs /\ Waits(writer.who, "cleaning")
    /\ \A who \in DOMAIN answer :
           \/ Waits(who, "upload") /\ answer[who] \in Uploaded
           \/ who \in Jobs /\ Waits(who, "cleaning") /\ answer[who] \in Deleted

TypeOK ==
    /\ StoreTypeOK
    /\ client \in [Clients -> ClientStates]
    /\ stream \in [Clients -> Streams]
    /\ Partial(jobs, Jobs, JobRows)
    /\ Partial(task, DOMAIN jobs, Tasks)
    /\ spool \subseteq Jobs
    /\ Partial(output, Jobs, SUBSET Stored)
    /\ due \in BOOLEAN
    /\ Awaited

(***************************************************************************)
(* The file the writer is taking away, its blob first.                     *)
(***************************************************************************)
Going(id) == writer.op \in {"delete", "cleanup"} /\ writer.at = "row" /\ writer.id = id

(***************************************************************************)
(* Every row names its blob but the one that is on its way out, and what   *)
(* the writer is to remove is attached to nothing.                         *)
(***************************************************************************)
RowsReadable ==
    /\ \A name \in DOMAIN items : items[name] \subseteq DOMAIN rows
    /\ \A id \in DOMAIN rows : Going(id) \/ Readable(id)
    /\ writer.op = "delete" => ~IsAttached(writer.id)
    /\ writer.op = "cleanup" => \A id \in writer.todo : ~IsAttached(id)
    /\ writer.op = "cleanup" /\ writer.at = "row" => ~IsAttached(writer.id)
    /\ writer.op = "upload" => writer.id \notin DOMAIN rows
    /\ Uploading("commit") => writer.id \in DOMAIN blobs /\ blobs[writer.id] = writer.content

Intact == ~Harmed("crash") /\ ~Harmed("delete")

ReadableInv == TypeOK /\ (Intact => RowsReadable)

(***************************************************************************)
(* In between the writer owns the files that have no row yet, or no blob   *)
(* any more.                                                               *)
(***************************************************************************)
NoStrays ==
    /\ temps = IF Uploading("body") THEN {writer.id} ELSE {}
    /\ \A id \in DOMAIN rows : id \in DOMAIN blobs \/ Going(id)
    /\ \A id \in DOMAIN blobs : id \in DOMAIN rows \/ (Uploading("commit") /\ id = writer.id)
    /\ \A id \in Ids : Going(id) => id \notin DOMAIN blobs
    /\ Uploading("commit") => writer.id \in DOMAIN blobs

(***************************************************************************)
(* An import's task ends in the states of an import, an export's in those  *)
(* of an export, only an import creates files, and a task that has failed  *)
(* does nothing more but clean up and say so.  While its row is created a  *)
(* job has done nothing.                                                   *)
(***************************************************************************)
Unspawned == {"creating", "created", "refused", "leaving"}

KindsApart ==
    \A j \in DOMAIN task :
        /\ task[j].at \in {"parse", "upload", "create", "clean", "cleaning"}
              => task[j].kind = "import"
        /\ task[j].at \in {"snapshot", "stream"} => task[j].kind = "export"
        /\ task[j].kind = "export" => task[j].made = {}
        /\ task[j].mine \subseteq task[j].made
        /\ task[j].at \in {"queued", "parse", "upload", "create", "snapshot", "stream"}
              => ~task[j].failed
        /\ task[j].at \in Unspawned => task[j].made = {} /\ ~task[j].failed

(***************************************************************************)
(* The caller who has, or is being told of, a file that its upload created.*)
(***************************************************************************)
HasMade(who, id) ==
    \/ who \in DOMAIN answer /\ answer[who] = File(id, TRUE)
    \/ who \in Clients /\ client[who].at = "holds" /\ client[who].new /\ client[who].id = id
    \/ who \in DOMAIN task /\ id \in task[who].made

(***************************************************************************)
(* A file is created once and for one caller, and only that caller asks    *)
(* for its removal.                                                        *)
(***************************************************************************)
OneMaker ==
    /\ \A id \in Ids : \A v, w \in Callers : HasMade(v, id) /\ HasMade(w, id) => v = w
    /\ writer.op = "upload" => \A w \in Callers : ~HasMade(w, writer.id)
    /\ writer.op = "delete" => writer.id \in task[writer.who].made

ItemsClaimed == \A name \in DOMAIN items : items[name] \subseteq claimed

(***************************************************************************)
(* The files an import created that are still there for nobody.            *)
(***************************************************************************)
LeftOver(j) == (task[j].made \cap DOMAIN rows) \ claimed

(***************************************************************************)
(* What an import has left over it is yet to remove, or the writer is      *)
(* removing for it; and a failed one is not marked before it has.          *)
(***************************************************************************)
Tidy(j) ==
    /\ task[j].at \in {"queued", "parse", "upload", "create", "clean", "cleaning"} =>
           \A id \in LeftOver(j) :
               \/ id \in task[j].mine
               \/ writer.op = "delete" /\ writer.who = j /\ writer.id = id
    /\ task[j].at = "mark" /\ task[j].failed => LeftOver(j) = {}
    /\ task[j].at = "ended" /\ jobs[j].status = "failed" => LeftOver(j) = {}
    /\ task[j].at # "remark"

ImportsTidy == \A j \in DOMAIN task : Tidy(j)

TidyInv == Unharmed => NoStrays /\ ImportsTidy

(***************************************************************************)
(* The row of a file a client created today is of today, and a cleanup     *)
(* only goes for rows of earlier days.                                     *)
(***************************************************************************)
Today(c, id) == client[c].at # "free" /\ HasMade(c, id) /\ client[c].day = day /\ id \notin claimed

OwnFiles ==
    /\ \A c \in Clients : client[c].at # "free" => client[c].day <= day
    /\ writer.op = "upload" /\ writer.who \in Clients => writer.day = client[writer.who].day
    /\ writer.op = "cleanup" =>
           \A id \in DOMAIN rows :
               id \in writer.todo \/ (writer.at = "row" /\ writer.id = id) => rows[id].day < day
    /\ \A c \in Clients, id \in Ids :
           Today(c, id) => id \in DOMAIN rows /\ rows[id].day = day

(***************************************************************************)
(* What is being read whole is attached, and so readable.                  *)
(***************************************************************************)
ReadsAttached ==
    /\ \A c \in Clients : stream[c].id # 0 /\ stream[c].whole => IsAttached(stream[c].id)
    /\ \A j \in DOMAIN task :
           task[j].at = "stream" /\ task[j].whole =>
               jobs[j].name \in DOMAIN items /\ task[j].ids \subseteq items[jobs[j].name]

GivenInv == OwnFiles /\ ReadsAttached /\ DownloadsSurvive

MadeInv == KindsApart /\ OneMaker /\ ItemsClaimed

(***************************************************************************)
(* What a step of the store owes to both.                                  *)
(***************************************************************************)
KeepsBoth ==
    /\ RowsReadable /\ Intact' => RowsReadable'
    /\ NoStrays /\ RowsReadable /\ Unharmed' => NoStrays'

-----------------------------------------------------------------------------
(* Partial functions *)

(***************************************************************************)
(* What With and Without return.                                           *)
(***************************************************************************)
LEMMA WithFacts ==
    ASSUME NEW f, NEW x, NEW y
    PROVE  /\ DOMAIN With(f, x, y) = DOMAIN f \cup {x}
           /\ With(f, x, y)[x] = y
           /\ \A z \in DOMAIN f \ {x} : With(f, x, y)[z] = f[z]
BY DEF With

(***************************************************************************)
(* Adding a pair keeps the type of a table.                                 *)
(***************************************************************************)
LEMMA WithType ==
    ASSUME NEW S, NEW T, NEW f, Partial(f, S, T), NEW x \in S, NEW y \in T
    PROVE  Partial(With(f, x, y), S, T)
BY DEF With, Partial

(***************************************************************************)
(* What a table holds after some rows were deleted.                         *)
(***************************************************************************)
LEMMA WithoutFacts ==
    ASSUME NEW f, NEW D
    PROVE  /\ DOMAIN Without(f, D) = DOMAIN f \ D
           /\ \A z \in DOMAIN f \ D : Without(f, D)[z] = f[z]
BY DEF Without, Restrict

(***************************************************************************)
(* Deleting rows keeps the type of a table.                                 *)
(***************************************************************************)
LEMMA WithoutType ==
    ASSUME NEW S, NEW T, NEW f, Partial(f, S, T), NEW D
    PROVE  Partial(Without(f, D), S, T)
BY DEF Without, Restrict, Partial

(***************************************************************************)
(* An entry of a partial function is replaced.                             *)
(***************************************************************************)
LEMMA ExceptType ==
    ASSUME NEW S, NEW T, NEW f, Partial(f, S, T), NEW x \in DOMAIN f, NEW y \in T
    PROVE  /\ Partial([f EXCEPT ![x] = y], S, T)
           /\ DOMAIN [f EXCEPT ![x] = y] = DOMAIN f
           /\ [f EXCEPT ![x] = y][x] = y
           /\ \A z \in DOMAIN f \ {x} : [f EXCEPT ![x] = y][z] = f[z]
BY DEF Partial

-----------------------------------------------------------------------------
(* Type correctness of the store *)

(***************************************************************************)
(* Something goes wrong.                                                   *)
(***************************************************************************)
LEMMA HarmType ==
    ASSUME StoreTypeOK, NEW kind \in {"disk", "crash", "delete"}, Harm(kind)
    PROVE  /\ harm' \in [disk: Nat, crash: Nat, delete: Nat]
           /\ Harmed(kind)'
           /\ \A k \in {"disk", "crash", "delete"} : Harmed(k) => Harmed(k)'
BY DEF StoreTypeOK, Harm, Harmed

(***************************************************************************)
(* The writer answers and is idle.                                         *)
(***************************************************************************)
LEMMA AnswerType ==
    ASSUME StoreTypeOK, NEW who \in Callers \cup {Nobody}, NEW a \in Uploaded \cup Deleted,
           Answer(who, a)
    PROVE  /\ Partial(answer', Callers, Uploaded \cup Deleted)
           /\ writer' = Idle /\ writer' \in WriterStates
           /\ DOMAIN answer' \subseteq DOMAIN answer \cup ({who} \ {Nobody})
           /\ \A w \in DOMAIN answer' : answer'[w] = IF w = who THEN a ELSE answer[w]
<1>i. Idle \in WriterStates
  BY DEF Idle, WriterStates
<1>1. CASE who = Nobody
  BY <1>1, <1>i, TransferAssumption DEF StoreTypeOK, Answer, Partial, Callers
<1>2. CASE who # Nobody
  <2>1. answer' = With(answer, who, a) /\ writer' = Idle /\ who \in Callers
    BY <1>2 DEF Answer
  <2>2. Partial(answer', Callers, Uploaded \cup Deleted)
    BY <2>1, WithType DEF StoreTypeOK
  <2>3. /\ DOMAIN answer' = DOMAIN answer \cup {who}
        /\ answer'[who] = a
        /\ \A w \in DOMAIN answer \ {who} : answer'[w] = answer[w]
    BY <2>1 DEF With
  <2> QED
    BY <1>2, <1>i, <2>1, <2>2, <2>3
<1> QED
  BY <1>1, <1>2

(***************************************************************************)
(* Taking an answer removes that answer and no other.                       *)
(***************************************************************************)
LEMMA TakeAnswerType ==
    ASSUME StoreTypeOK, NEW who, TakeAnswer(who)
    PROVE  /\ Partial(answer', Callers, Uploaded \cup Deleted)
           /\ DOMAIN answer' = DOMAIN answer \ {who}
           /\ \A w \in DOMAIN answer' : answer'[w] = answer[w]
<1>1. answer' = Without(answer, {who})
  BY DEF TakeAnswer
<1>2. Partial(answer, Callers, Uploaded \cup Deleted)
  BY DEF StoreTypeOK
<1>3. Partial(answer', Callers, Uploaded \cup Deleted)
  BY <1>1, <1>2, WithoutType
<1>4. /\ DOMAIN answer' = DOMAIN answer \ {who}
      /\ \A w \in DOMAIN answer \ {who} : answer'[w] = answer[w]
  BY <1>1, WithoutFacts
<1> QED
  BY <1>3, <1>4

(***************************************************************************)
(* What the writer is doing, read off its record.                          *)
(***************************************************************************)
LEMMA WriterRecords ==
    ASSUME writer \in WriterStates
    PROVE  /\ writer.op = "upload" =>
                  writer \in [op: {"upload"}, at: {"body", "commit"}, who: Callers \cup {Nobody},
                              id: Ids, content: Stored, sound: BOOLEAN, day: Nat]
           /\ writer.op = "delete" =>
                  writer \in [op: {"delete"}, at: {"unlink", "row"}, who: Callers, id: Ids]
           /\ writer.op = "cleanup" /\ writer.at = "unlink" =>
                  writer \in [op: {"cleanup"}, at: {"unlink"}, todo: SUBSET Ids]
           /\ writer.op = "cleanup" /\ writer.at = "row" =>
                  writer \in [op: {"cleanup"}, at: {"row"}, todo: SUBSET Ids, id: Ids]
           /\ writer.op = "cleanup" => writer.at \in {"unlink", "row"}
BY DEF WriterStates

(***************************************************************************)
(* The answers have their types.                                           *)
(***************************************************************************)
LEMMA AnswerValues ==
    /\ Status("bad_request") \in Uploaded /\ Status("internal") \in Uploaded
    /\ Status("ok") \in Deleted /\ Status("internal") \in Deleted
    /\ \A id \in Ids, new \in BOOLEAN : File(id, new) \in Uploaded
BY DEF Status, File, Uploaded, Deleted

(***************************************************************************)
(* The steps of the writer, one lemma per command.                         *)
(***************************************************************************)
LEMMA UploadStepType ==
    ASSUME StoreTypeOK,
           RefuseBody \/ BodyWriteFails \/ Deduplicate \/ RenameBlob \/ CommitRow
    PROVE  StoreTypeOK'
<1>w. /\ writer \in [op: {"upload"}, at: {"body", "commit"}, who: Callers \cup {Nobody},
                     id: Ids, content: Stored, sound: BOOLEAN, day: Nat]
      /\ Partial(rows, Ids, [content: Stored, day: Nat]) /\ Partial(blobs, Ids, Stored)
  BY WriterRecords DEF StoreTypeOK, RefuseBody, BodyWriteFails, Deduplicate, RenameBlob,
                       CommitRow, Uploading
<1>1. CASE RefuseBody
  <2>1. Answer(writer.who, Status("bad_request"))
    BY <1>1 DEF RefuseBody
  <2>2. Partial(answer', Callers, Uploaded \cup Deleted) /\ writer' \in WriterStates
    BY <1>w, <2>1, AnswerType, AnswerValues
  <2> QED
    BY <1>1, <2>2 DEF RefuseBody, StoreTypeOK
<1>2. CASE BodyWriteFails
  <2>1. Answer(writer.who, Status("internal"))
    BY <1>2 DEF BodyWriteFails
  <2>2. Partial(answer', Callers, Uploaded \cup Deleted) /\ writer' \in WriterStates
    BY <1>w, <2>1, AnswerType, AnswerValues
  <2>3. harm' \in [disk: Nat, crash: Nat, delete: Nat]
    BY <1>2, HarmType DEF BodyWriteFails
  <2> QED
    BY <1>2, <2>2, <2>3 DEF BodyWriteFails, StoreTypeOK
<1>3. CASE Deduplicate
  <2>1. PICK id \in Existing(writer.content) : Answer(writer.who, File(id, FALSE))
    BY <1>3 DEF Deduplicate
  <2>2. id \in Ids
    BY <1>w DEF Existing, Partial
  <2>3. Partial(answer', Callers, Uploaded \cup Deleted) /\ writer' \in WriterStates
    BY <1>w, <2>1, <2>2, AnswerType, AnswerValues
  <2> QED
    BY <1>3, <2>3 DEF Deduplicate, StoreTypeOK
<1>4. CASE RenameBlob
  <2>1. CASE blobs' = With(blobs, writer.id, writer.content)
             /\ writer' = [writer EXCEPT !.at = "commit"] /\ UNCHANGED <<answer, harm>>
    <3>1. Partial(blobs', Ids, Stored)
      BY <1>w, <2>1, WithType
    <3>2. writer' \in WriterStates
      BY <1>w, <2>1 DEF WriterStates
    <3> QED
      BY <1>4, <2>1, <3>1, <3>2 DEF RenameBlob, StoreTypeOK
  <2>2. CASE Harm("disk") /\ Answer(writer.who, Status("internal")) /\ UNCHANGED blobs
    <3>1. Partial(answer', Callers, Uploaded \cup Deleted) /\ writer' \in WriterStates
      BY <1>w, <2>2, AnswerType, AnswerValues
    <3>2. harm' \in [disk: Nat, crash: Nat, delete: Nat]
      BY <2>2, HarmType
    <3> QED
      BY <1>4, <2>2, <3>1, <3>2 DEF RenameBlob, StoreTypeOK
  <2> QED
    BY <1>4, <2>1, <2>2 DEF RenameBlob
<1>5. CASE CommitRow
  <2>1. CASE rows' = With(rows, writer.id, [content |-> writer.content, day |-> writer.day])
             /\ Answer(writer.who, File(writer.id, TRUE)) /\ UNCHANGED <<blobs, harm>>
    <3>1. Partial(rows', Ids, [content: Stored, day: Nat])
      BY <1>w, <2>1, WithType
    <3>2. Partial(answer', Callers, Uploaded \cup Deleted) /\ writer' \in WriterStates
      BY <1>w, <2>1, AnswerType, AnswerValues
    <3> QED
      BY <1>5, <2>1, <3>1, <3>2 DEF CommitRow, StoreTypeOK
  <2>2. CASE Harm("disk") /\ blobs' = Without(blobs, {writer.id})
             /\ Answer(writer.who, Status("internal")) /\ UNCHANGED rows
    <3>1. Partial(blobs', Ids, Stored)
      BY <1>w, <2>2, WithoutType
    <3>2. Partial(answer', Callers, Uploaded \cup Deleted) /\ writer' \in WriterStates
      BY <1>w, <2>2, AnswerType, AnswerValues
    <3>3. harm' \in [disk: Nat, crash: Nat, delete: Nat]
      BY <2>2, HarmType
    <3> QED
      BY <1>5, <2>2, <3>1, <3>2, <3>3 DEF CommitRow, StoreTypeOK
  <2> QED
    BY <1>5, <2>1, <2>2 DEF CommitRow
<1> QED
  BY <1>1, <1>2, <1>3, <1>4, <1>5

(***************************************************************************)
(* The two steps of a deletion keep the store's type.                       *)
(***************************************************************************)
LEMMA DeleteStepType ==
    ASSUME StoreTypeOK, UnlinkDeleted \/ DeleteDeletedRow
    PROVE  StoreTypeOK'
<1>w. /\ writer \in [op: {"delete"}, at: {"unlink", "row"}, who: Callers, id: Ids]
      /\ Partial(rows, Ids, [content: Stored, day: Nat]) /\ Partial(blobs, Ids, Stored)
  BY WriterRecords DEF StoreTypeOK, UnlinkDeleted, DeleteDeletedRow, Deleting
<1>1. CASE UnlinkDeleted
  <2>1. CASE blobs' = Without(blobs, {writer.id}) /\ writer' = [writer EXCEPT !.at = "row"]
             /\ UNCHANGED <<answer, harm>>
    <3>1. Partial(blobs', Ids, Stored)
      BY <1>w, <2>1, WithoutType
    <3>2. writer' \in WriterStates
      BY <1>w, <2>1 DEF WriterStates
    <3> QED
      BY <1>1, <2>1, <3>1, <3>2 DEF UnlinkDeleted, StoreTypeOK
  <2>2. CASE Harm("disk") /\ Answer(writer.who, Status("internal")) /\ UNCHANGED blobs
    <3>1. Partial(answer', Callers, Uploaded \cup Deleted) /\ writer' \in WriterStates
      BY <1>w, <2>2, AnswerType, AnswerValues
    <3>2. harm' \in [disk: Nat, crash: Nat, delete: Nat]
      BY <2>2, HarmType
    <3> QED
      BY <1>1, <2>2, <3>1, <3>2 DEF UnlinkDeleted, StoreTypeOK
  <2> QED
    BY <1>1, <2>1, <2>2 DEF UnlinkDeleted
<1>2. CASE DeleteDeletedRow
  <2>1. \E a \in Deleted : Answer(writer.who, a)
    BY <1>2, AnswerValues DEF DeleteDeletedRow
  <2>2. Partial(answer', Callers, Uploaded \cup Deleted) /\ writer' \in WriterStates
    BY <1>w, <2>1, AnswerType
  <2>3. Partial(rows', Ids, [content: Stored, day: Nat])
    BY <1>w, <1>2, WithoutType DEF DeleteDeletedRow, DeleteRow
  <2>4. harm' \in [disk: Nat, crash: Nat, delete: Nat]
    BY <1>2, HarmType DEF DeleteDeletedRow, StoreTypeOK
  <2> QED
    BY <1>2, <2>2, <2>3, <2>4 DEF DeleteDeletedRow, StoreTypeOK
<1> QED
  BY <1>1, <1>2

(***************************************************************************)
(* The steps of the cleanup of orphans keep the store's type.               *)
(***************************************************************************)
LEMMA CleanupStepType ==
    ASSUME StoreTypeOK, UnlinkOrphan \/ DeleteOrphanRow \/ EndCleanup
    PROVE  StoreTypeOK'
<1>i. Idle \in WriterStates
  BY DEF Idle, WriterStates
<1>t. Partial(rows, Ids, [content: Stored, day: Nat]) /\ Partial(blobs, Ids, Stored)
  BY DEF StoreTypeOK
<1>1. CASE UnlinkOrphan
  <2>w. writer \in [op: {"cleanup"}, at: {"unlink"}, todo: SUBSET Ids]
    BY <1>1, WriterRecords DEF StoreTypeOK, UnlinkOrphan, Cleaning
  <2>1. PICK id \in writer.todo :
          \/ /\ blobs' = Without(blobs, {id})
             /\ writer' = [op |-> "cleanup", at |-> "row", id |-> id,
                           todo |-> writer.todo \ {id}]
             /\ UNCHANGED harm
          \/ /\ Harm("disk")
             /\ writer' = [writer EXCEPT !.todo = @ \ {id}]
             /\ UNCHANGED blobs
    BY <1>1 DEF UnlinkOrphan
  <2>2. writer' \in WriterStates
    BY <2>w, <2>1 DEF WriterStates
  <2>3. Partial(blobs', Ids, Stored)
    BY <1>t, <2>1, WithoutType
  <2>4. harm' \in [disk: Nat, crash: Nat, delete: Nat]
    BY <2>1, HarmType DEF StoreTypeOK
  <2> QED
    BY <1>1, <2>2, <2>3, <2>4 DEF UnlinkOrphan, StoreTypeOK
<1>2. CASE DeleteOrphanRow
  <2>w. writer \in [op: {"cleanup"}, at: {"row"}, todo: SUBSET Ids, id: Ids]
    BY <1>2, WriterRecords DEF StoreTypeOK, DeleteOrphanRow, Cleaning
  <2>1. writer' \in WriterStates
    BY <1>2, <1>i, <2>w DEF DeleteOrphanRow, WriterStates
  <2>2. Partial(rows', Ids, [content: Stored, day: Nat])
    BY <1>t, <1>2, WithoutType DEF DeleteOrphanRow, DeleteRow
  <2>3. harm' \in [disk: Nat, crash: Nat, delete: Nat]
    BY <1>2, HarmType DEF DeleteOrphanRow, StoreTypeOK
  <2> QED
    BY <1>2, <2>1, <2>2, <2>3 DEF DeleteOrphanRow, StoreTypeOK
<1>3. CASE EndCleanup
  BY <1>3, <1>i DEF EndCleanup, StoreTypeOK
<1> QED
  BY <1>1, <1>2, <1>3

(***************************************************************************)
(* Every step of the writer keeps the store's type.                         *)
(***************************************************************************)
LEMMA WriterStepType == StoreTypeOK /\ WriterStep => StoreTypeOK'
BY UploadStepType, DeleteStepType, CleanupStepType DEF WriterStep

-----------------------------------------------------------------------------
(* The rows and the blobs *)

(***************************************************************************)
(* A writer that was uploading and has answered leaves the items alone and *)
(* takes nothing away.                                                     *)
(***************************************************************************)
LEMMA UploadStepKeeps ==
    ASSUME StoreTypeOK,
           RefuseBody \/ BodyWriteFails \/ Deduplicate \/ RenameBlob \/ CommitRow
    PROVE  KeepsBoth
<1> USE DEF KeepsBoth, Uploading, Going, Idle
<1>w. /\ writer \in [op: {"upload"}, at: {"body", "commit"}, who: Callers \cup {Nobody},
                     id: Ids, content: Stored, sound: BOOLEAN, day: Nat]
      /\ items' = items
  BY WriterRecords DEF StoreTypeOK, RefuseBody, BodyWriteFails, Deduplicate, RenameBlob,
                       CommitRow
<1>1. CASE RefuseBody
  BY <1>1, <1>w DEF RefuseBody, Answer, RowsReadable, NoStrays, Readable, IsAttached
<1>2. CASE BodyWriteFails
  <2>1. ~Unharmed'
    BY <1>2, HarmType DEF BodyWriteFails, Unharmed
  <2> QED
    BY <1>2, <1>w, <2>1 DEF BodyWriteFails, Answer, RowsReadable, Readable, IsAttached
<1>3. CASE Deduplicate
  <2>1. writer' = Idle
    BY <1>3 DEF Deduplicate, Answer
  <2> QED
    BY <1>3, <1>w, <2>1 DEF Deduplicate, RowsReadable, NoStrays, Readable, IsAttached
<1>4. CASE RenameBlob
  <2>1. CASE blobs' = With(blobs, writer.id, writer.content)
             /\ writer' = [writer EXCEPT !.at = "commit"] /\ UNCHANGED <<answer, harm>>
    <3>1. /\ DOMAIN blobs' = DOMAIN blobs \cup {writer.id}
          /\ blobs'[writer.id] = writer.content
          /\ \A id \in DOMAIN blobs \ {writer.id} : blobs'[id] = blobs[id]
      BY <2>1 DEF With
    <3>2. /\ writer'.op = "upload" /\ writer'.at = "commit" /\ writer'.id = writer.id
          /\ writer'.content = writer.content
      BY <1>w, <2>1
    <3>3. rows' = rows /\ temps' = temps \ {writer.id} /\ writer.at = "body"
      BY <1>4 DEF RenameBlob
    <3>4. RowsReadable => RowsReadable'
      BY <1>w, <3>1, <3>2, <3>3 DEF RowsReadable, Readable, IsAttached
    <3>5. NoStrays => NoStrays'
      BY <1>w, <3>1, <3>2, <3>3 DEF NoStrays
    <3> QED
      BY <3>4, <3>5
  <2>2. CASE Harm("disk") /\ Answer(writer.who, Status("internal")) /\ UNCHANGED blobs
    <3>1. ~Unharmed'
      BY <2>2, HarmType DEF Unharmed
    <3>2. rows' = rows /\ writer' = Idle /\ blobs' = blobs
      BY <1>4, <2>2 DEF RenameBlob, Answer
    <3> QED
      BY <1>w, <3>1, <3>2 DEF RowsReadable, Readable, IsAttached
  <2> QED
    BY <1>4, <2>1, <2>2 DEF RenameBlob
<1>5. CASE CommitRow
  <2>1. CASE rows' = With(rows, writer.id, [content |-> writer.content, day |-> writer.day])
             /\ Answer(writer.who, File(writer.id, TRUE)) /\ UNCHANGED <<blobs, harm>>
    <3>1. /\ DOMAIN rows' = DOMAIN rows \cup {writer.id}
          /\ rows'[writer.id].content = writer.content
          /\ \A id \in DOMAIN rows \ {writer.id} : rows'[id] = rows[id]
      BY <2>1 DEF With
    <3>2. writer' = Idle /\ blobs' = blobs /\ temps' = temps /\ writer.at = "commit"
      BY <1>5, <2>1 DEF CommitRow, Answer
    <3>3. RowsReadable => RowsReadable'
      BY <1>w, <3>1, <3>2 DEF RowsReadable, Readable, IsAttached
    <3>4. NoStrays => NoStrays'
      BY <1>w, <3>1, <3>2 DEF NoStrays
    <3> QED
      BY <3>3, <3>4
  <2>2. CASE Harm("disk") /\ blobs' = Without(blobs, {writer.id})
             /\ Answer(writer.who, Status("internal")) /\ UNCHANGED rows
    <3>1. ~Unharmed'
      BY <2>2, HarmType DEF Unharmed
    <3>2. /\ rows' = rows /\ writer' = Idle
          /\ DOMAIN blobs' = DOMAIN blobs \ {writer.id}
          /\ \A id \in DOMAIN blobs \ {writer.id} : blobs'[id] = blobs[id]
      BY <2>2 DEF Answer, Without, Restrict
    <3> QED
      BY <1>w, <3>1, <3>2 DEF RowsReadable, Readable, IsAttached
  <2> QED
    BY <1>5, <2>1, <2>2 DEF CommitRow
<1> QED
  BY <1>1, <1>2, <1>3, <1>4, <1>5

(***************************************************************************)
(* A deletion takes the row that nothing is attached to after its blob.    *)
(***************************************************************************)
LEMMA DeleteStepKeeps ==
    ASSUME StoreTypeOK, UnlinkDeleted \/ DeleteDeletedRow
    PROVE  KeepsBoth
<1> USE DEF KeepsBoth, Uploading, Going, Idle
<1>w. /\ writer \in [op: {"delete"}, at: {"unlink", "row"}, who: Callers, id: Ids]
      /\ items' = items /\ temps' = temps
  BY WriterRecords DEF StoreTypeOK, UnlinkDeleted, DeleteDeletedRow, Deleting
<1>1. CASE UnlinkDeleted
  <2>1. CASE blobs' = Without(blobs, {writer.id}) /\ writer' = [writer EXCEPT !.at = "row"]
             /\ UNCHANGED <<answer, harm>>
    <3>1. /\ DOMAIN blobs' = DOMAIN blobs \ {writer.id}
          /\ \A id \in DOMAIN blobs \ {writer.id} : blobs'[id] = blobs[id]
      BY <2>1 DEF Without, Restrict
    <3>2. writer'.op = "delete" /\ writer'.at = "row" /\ writer'.id = writer.id
      BY <1>w, <2>1
    <3>3. rows' = rows /\ writer.at = "unlink"
      BY <1>1 DEF UnlinkDeleted, Deleting
    <3>4. RowsReadable => RowsReadable'
      BY <1>w, <3>1, <3>2, <3>3 DEF RowsReadable, Readable, IsAttached
    <3>5. NoStrays => NoStrays'
      BY <1>w, <3>1, <3>2, <3>3 DEF NoStrays
    <3> QED
      BY <3>4, <3>5
  <2>2. CASE Harm("disk") /\ Answer(writer.who, Status("internal")) /\ UNCHANGED blobs
    <3>1. ~Unharmed'
      BY <2>2, HarmType DEF Unharmed
    <3>2. rows' = rows /\ writer' = Idle /\ blobs' = blobs /\ writer.at = "unlink"
      BY <1>1, <2>2 DEF UnlinkDeleted, Answer, Deleting
    <3> QED
      BY <1>w, <3>1, <3>2 DEF RowsReadable, Readable, IsAttached
  <2> QED
    BY <1>1, <2>1, <2>2 DEF UnlinkDeleted
<1>2. CASE DeleteDeletedRow
  <2>1. writer' = Idle /\ blobs' = blobs /\ writer.at = "row"
    BY <1>2 DEF DeleteDeletedRow, Answer, Deleting
  <2>2. CASE Harm("delete")
    <3>1. ~Unharmed' /\ ~Intact'
      BY <2>2, HarmType DEF Unharmed, Intact
    <3> QED
      BY <3>1
  <2>3. CASE DeleteRow(writer.id)
    <3>1. RowsReadable => RowsReadable'
      <4> SUFFICES ASSUME RowsReadable
                   PROVE  RowsReadable'
        OBVIOUS
      <4>1. ~IsAttached(writer.id)
        BY <1>w DEF RowsReadable
      <4>2. /\ DOMAIN rows' = DOMAIN rows \ {writer.id}
            /\ \A id \in DOMAIN rows \ {writer.id} : rows'[id] = rows[id]
        BY <2>3, <4>1 DEF DeleteRow, Without, Restrict
      <4> QED
        BY <1>w, <2>1, <4>1, <4>2 DEF RowsReadable, Readable, IsAttached
    <3>2. NoStrays /\ RowsReadable => NoStrays'
      <4> SUFFICES ASSUME NoStrays, RowsReadable
                   PROVE  NoStrays'
        OBVIOUS
      <4>1. ~IsAttached(writer.id)
        BY <1>w DEF RowsReadable
      <4>2. DOMAIN rows' = DOMAIN rows \ {writer.id}
        BY <2>3, <4>1 DEF DeleteRow, Without, Restrict
      <4> QED
        BY <1>w, <2>1, <4>2 DEF NoStrays
    <3> QED
      BY <3>1, <3>2
  <2> QED
    BY <1>2, <2>2, <2>3 DEF DeleteDeletedRow
<1> QED
  BY <1>1, <1>2

(***************************************************************************)
(* A cleanup does the same for each of the orphans it selected.            *)
(***************************************************************************)
LEMMA CleanupStepKeeps ==
    ASSUME StoreTypeOK, UnlinkOrphan \/ DeleteOrphanRow \/ EndCleanup
    PROVE  KeepsBoth
<1> USE DEF KeepsBoth, Uploading, Going, Idle
<1>w. items' = items /\ temps' = temps /\ writer.op = "cleanup"
  BY DEF UnlinkOrphan, DeleteOrphanRow, EndCleanup, Cleaning
<1>1. CASE UnlinkOrphan
  <2>w. writer \in [op: {"cleanup"}, at: {"unlink"}, todo: SUBSET Ids] /\ rows' = rows
    BY <1>1, WriterRecords DEF StoreTypeOK, UnlinkOrphan, Cleaning
  <2>1. ASSUME NEW id \in writer.todo,
               blobs' = Without(blobs, {id}),
               writer' = [op |-> "cleanup", at |-> "row", id |-> id,
                          todo |-> writer.todo \ {id}],
               UNCHANGED harm
        PROVE  KeepsBoth
    <3>1. /\ DOMAIN blobs' = DOMAIN blobs \ {id}
          /\ \A i \in DOMAIN blobs \ {id} : blobs'[i] = blobs[i]
      BY <2>1 DEF Without, Restrict
    <3>2. /\ writer'.op = "cleanup" /\ writer'.at = "row" /\ writer'.id = id
          /\ writer'.todo \subseteq writer.todo
      BY <2>1
    <3>3. RowsReadable => RowsReadable'
      BY <1>w, <2>w, <3>1, <3>2 DEF RowsReadable, Readable, IsAttached
    <3>4. NoStrays => NoStrays'
      BY <1>w, <2>w, <3>1, <3>2 DEF NoStrays
    <3> QED
      BY <3>3, <3>4
  <2>2. ASSUME NEW id \in writer.todo,
               Harm("disk"), writer' = [writer EXCEPT !.todo = @ \ {id}], UNCHANGED blobs
        PROVE  KeepsBoth
    <3>1. ~Unharmed'
      BY <2>2, HarmType DEF Unharmed
    <3>2. writer'.op = "cleanup" /\ writer'.at = "unlink" /\ writer'.todo \subseteq writer.todo
      BY <2>w, <2>2
    <3> QED
      BY <1>w, <2>w, <2>2, <3>1, <3>2 DEF RowsReadable, Readable, IsAttached
  <2> QED
    BY <1>1, <2>1, <2>2 DEF UnlinkOrphan
<1>2. CASE DeleteOrphanRow
  <2>w. writer \in [op: {"cleanup"}, at: {"row"}, todo: SUBSET Ids, id: Ids] /\ blobs' = blobs
    BY <1>2, WriterRecords DEF StoreTypeOK, DeleteOrphanRow, Cleaning
  <2>1. CASE Harm("delete")
    <3>1. ~Unharmed' /\ ~Intact'
      BY <2>1, HarmType DEF Unharmed, Intact
    <3> QED
      BY <3>1
  <2>2. CASE DeleteRow(writer.id)
             /\ writer' = [op |-> "cleanup", at |-> "unlink", todo |-> writer.todo]
    <3>1. writer'.op = "cleanup" /\ writer'.at = "unlink" /\ writer'.todo = writer.todo
      BY <2>2
    <3> SUFFICES ASSUME RowsReadable
                 PROVE  RowsReadable' /\ (NoStrays => NoStrays')
      OBVIOUS
    <3>2. ~IsAttached(writer.id)
      BY <1>w, <2>w DEF RowsReadable
    <3>3. /\ DOMAIN rows' = DOMAIN rows \ {writer.id}
          /\ \A id \in DOMAIN rows \ {writer.id} : rows'[id] = rows[id]
      BY <2>2, <3>2 DEF DeleteRow, Without, Restrict
    <3>4. RowsReadable'
      BY <1>w, <2>w, <3>1, <3>2, <3>3 DEF RowsReadable, Readable, IsAttached
    <3>5. NoStrays => NoStrays'
      BY <1>w, <2>w, <3>1, <3>3 DEF NoStrays
    <3> QED
      BY <3>4, <3>5
  <2> QED
    BY <1>2, <2>1, <2>2 DEF DeleteOrphanRow
<1>3. CASE EndCleanup
  BY <1>w, <1>3 DEF EndCleanup, Cleaning, RowsReadable, NoStrays, Readable, IsAttached
<1> QED
  BY <1>1, <1>2, <1>3

(***************************************************************************)
(* Every step of the writer keeps rows, blobs and temporary files in        *)
(* agreement.                                                               *)
(***************************************************************************)
LEMMA WriterStepKeeps == StoreTypeOK /\ WriterStep => KeepsBoth
BY UploadStepKeeps, DeleteStepKeeps, CleanupStepKeeps DEF WriterStep

-----------------------------------------------------------------------------
(* The store as its callers use it *)

(***************************************************************************)
(* An upload begins under an id that nobody has.                           *)
(***************************************************************************)
LEMMA BeginUploadKeeps ==
    ASSUME StoreTypeOK, NEW who \in Callers, NEW id \in Ids, NEW content \in Stored,
           NEW sound \in BOOLEAN, BeginUpload(who, id, content, sound),
           id \notin DOMAIN rows, id \notin DOMAIN blobs
    PROVE  StoreTypeOK' /\ KeepsBoth
<1>1. writer' \in WriterStates
  BY DEF StoreTypeOK, BeginUpload, WriterStates
<1>2. StoreTypeOK'
  BY <1>1 DEF StoreTypeOK, BeginUpload
<1>3. /\ writer'.op = "upload" /\ writer'.at = "body" /\ writer'.id = id
      /\ writer = Idle
      /\ temps' = temps \cup {id}
  BY DEF BeginUpload
<1>4. rows' = rows /\ blobs' = blobs /\ items' = items
  BY DEF BeginUpload
<1>5. RowsReadable => RowsReadable'
  BY <1>3, <1>4 DEF Idle, RowsReadable, Going, Uploading, Readable, IsAttached
<1>6. NoStrays => NoStrays'
  BY <1>3, <1>4 DEF Idle, NoStrays, Going, Uploading
<1> QED
  BY <1>2, <1>5, <1>6 DEF KeepsBoth

(***************************************************************************)
(* A deletion is refused of a file that is attached.                       *)
(***************************************************************************)
LEMMA BeginDeleteKeeps ==
    ASSUME StoreTypeOK, NEW who \in Callers, NEW id \in Ids, BeginDelete(who, id)
    PROVE  StoreTypeOK' /\ KeepsBoth
<1>1. CASE IsAttached(id)
  <2>1. Answer(who, Status("ok"))
    BY <1>1 DEF BeginDelete
  <2>2. Partial(answer', Callers, Uploaded \cup Deleted) /\ writer' \in WriterStates
        /\ writer' = Idle
    BY <2>1, AnswerType, AnswerValues
  <2>3. UNCHANGED <<rows, blobs, temps, items, claimed, day, harm>> /\ writer = Idle
    BY DEF BeginDelete
  <2>4. StoreTypeOK'
    BY <2>2, <2>3 DEF StoreTypeOK
  <2> QED
    BY <2>2, <2>3, <2>4 DEF KeepsBoth, RowsReadable, NoStrays, Going, Uploading, Readable,
                            IsAttached
<1>2. CASE ~IsAttached(id)
  <2>1. /\ writer' = [op |-> "delete", at |-> "unlink", who |-> who, id |-> id]
        /\ writer = Idle
        /\ UNCHANGED <<rows, blobs, temps, items, claimed, day, harm, answer>>
    BY <1>2 DEF BeginDelete
  <2>2. writer' \in WriterStates
    BY <2>1 DEF WriterStates
  <2>3. StoreTypeOK'
    BY <2>1, <2>2 DEF StoreTypeOK
  <2>4. writer'.op = "delete" /\ writer'.at = "unlink" /\ writer'.id = id
    BY <2>1
  <2>5. RowsReadable => RowsReadable'
    BY <1>2, <2>1, <2>4 DEF Idle, RowsReadable, Going, Uploading, Readable, IsAttached
  <2>6. NoStrays => NoStrays'
    BY <2>1, <2>4 DEF Idle, NoStrays, Going, Uploading
  <2> QED
    BY <2>3, <2>5, <2>6 DEF KeepsBoth
<1> QED
  BY <1>1, <1>2

(***************************************************************************)
(* A cleanup selects files that nothing is attached to.                    *)
(***************************************************************************)
LEMMA BeginCleanupKeeps ==
    ASSUME StoreTypeOK, BeginCleanup
    PROVE  StoreTypeOK' /\ KeepsBoth
<1>1. /\ writer' = [op |-> "cleanup", at |-> "unlink", todo |-> Orphans]
      /\ writer = Idle
      /\ UNCHANGED <<rows, blobs, temps, items, claimed, day, harm, answer>>
  BY DEF BeginCleanup
<1>2. Orphans \subseteq Ids /\ \A id \in Orphans : ~IsAttached(id)
  BY DEF Orphans, StoreTypeOK, Partial
<1>3. writer' \in WriterStates
  BY <1>1, <1>2 DEF WriterStates
<1>4. StoreTypeOK'
  BY <1>1, <1>3 DEF StoreTypeOK
<1>5. writer'.op = "cleanup" /\ writer'.at = "unlink" /\ writer'.todo = Orphans
  BY <1>1
<1>6. RowsReadable => RowsReadable'
  BY <1>1, <1>2, <1>5 DEF Idle, RowsReadable, Going, Uploading, Readable, IsAttached
<1>7. NoStrays => NoStrays'
  BY <1>1, <1>5 DEF Idle, NoStrays, Going, Uploading
<1> QED
  BY <1>4, <1>6, <1>7 DEF KeepsBoth

(***************************************************************************)
(* An item is given only ids that have rows; deleting one takes nothing    *)
(* from the others.                                                        *)
(***************************************************************************)
LEMMA CreateItemKeeps ==
    ASSUME StoreTypeOK, NEW name \in Names, NEW ids \in SUBSET Ids, CreateItem(name, ids)
    PROVE  StoreTypeOK' /\ KeepsBoth
<1>1. UNCHANGED <<rows, blobs, temps, writer, answer, day, harm>> /\ writer = Idle
  BY DEF CreateItem
<1>2. CASE items' = items /\ claimed' = claimed
  BY <1>1, <1>2 DEF StoreTypeOK, KeepsBoth, RowsReadable, NoStrays, Going, Uploading, Readable,
                    IsAttached
<1>3. CASE CreateStatus(name, ids) = "ok"
           /\ items' = With(items, name, ids) /\ claimed' = claimed \cup ids
  <2>1. name \notin DOMAIN items /\ ids \subseteq DOMAIN rows
    BY <1>3 DEF CreateStatus
  <2>2. Partial(items', Names, SUBSET Ids)
    BY <1>3, WithType DEF StoreTypeOK
  <2>3. /\ DOMAIN items' = DOMAIN items \cup {name}
        /\ items'[name] = ids
        /\ \A z \in DOMAIN items : items'[z] = items[z]
    BY <1>3, <2>1 DEF With
  <2>4. StoreTypeOK'
    BY <1>1, <1>3, <2>2 DEF StoreTypeOK
  <2>5. RowsReadable => RowsReadable'
    BY <1>1, <2>1, <2>3 DEF RowsReadable, Going, Uploading, Readable, IsAttached, Idle
  <2>6. NoStrays => NoStrays'
    BY <1>1 DEF NoStrays, Going, Uploading
  <2> QED
    BY <2>4, <2>5, <2>6 DEF KeepsBoth
<1> QED
  BY <1>2, <1>3 DEF CreateItem

(***************************************************************************)
(* So does the deletion of an item.                                         *)
(***************************************************************************)
LEMMA DeleteItemKeeps ==
    ASSUME StoreTypeOK, NEW name, DeleteItem(name)
    PROVE  StoreTypeOK' /\ KeepsBoth
<1>1. UNCHANGED <<rows, blobs, temps, claimed, writer, answer, day, harm>> /\ writer = Idle
  BY DEF DeleteItem
<1>2. items' = Without(items, {name})
  BY DEF DeleteItem
<1>3. Partial(items', Names, SUBSET Ids)
  BY <1>2, WithoutType DEF StoreTypeOK
<1>4. /\ DOMAIN items' \subseteq DOMAIN items
      /\ \A z \in DOMAIN items' : items'[z] = items[z]
  BY <1>2 DEF Without, Restrict
<1>5. StoreTypeOK'
  BY <1>1, <1>3 DEF StoreTypeOK
<1>6. RowsReadable => RowsReadable'
  BY <1>1, <1>4 DEF RowsReadable, Going, Uploading, Readable, IsAttached, Idle
<1>7. NoStrays => NoStrays'
  BY <1>1 DEF NoStrays, Going, Uploading
<1> QED
  BY <1>5, <1>6, <1>7 DEF KeepsBoth

(***************************************************************************)
(* A step that leaves rows, blobs, items and the writer alone.             *)
(***************************************************************************)
Quiet ==
    /\ UNCHANGED <<rows, blobs, temps, items, claimed, writer>>
    /\ day' \in Nat
    /\ Partial(answer', Callers, Uploaded \cup Deleted)
    /\ harm' = harm \/ Harm("disk")

(***************************************************************************)
(* So do the steps that leave rows, blobs, items and the writer alone.      *)
(***************************************************************************)
LEMMA QuietKeeps == StoreTypeOK /\ Quiet => StoreTypeOK' /\ KeepsBoth
<1> SUFFICES ASSUME StoreTypeOK, Quiet
             PROVE  StoreTypeOK' /\ KeepsBoth
  OBVIOUS
<1>1. harm' \in [disk: Nat, crash: Nat, delete: Nat]
  BY HarmType DEF Quiet, StoreTypeOK
<1>2. StoreTypeOK'
  BY <1>1 DEF Quiet, StoreTypeOK
<1> QED
  BY <1>2 DEF Quiet, KeepsBoth, RowsReadable, NoStrays, Going, Uploading, Readable, IsAttached

(***************************************************************************)
(* The client of an upload goes away: the writer goes on for nobody.       *)
(***************************************************************************)
LEMMA ClientGoneKeeps ==
    ASSUME StoreTypeOK, NEW c, ClientGone(c)
    PROVE  StoreTypeOK' /\ KeepsBoth
<1>1. UNCHANGED <<rows, blobs, temps, items, claimed, day, harm>>
  BY DEF ClientGone
<1>2. CASE writer.op = "upload" /\ writer.who = c
  <2>1. PICK sent \in BOOLEAN :
            writer' = [writer EXCEPT !.who = Nobody, !.sound = @ /\ sent]
    BY <1>2 DEF ClientGone
  <2>2. answer' = answer
    BY <1>2 DEF ClientGone
  <2>3. writer \in [op: {"upload"}, at: {"body", "commit"}, who: Callers \cup {Nobody},
                    id: Ids, content: Stored, sound: BOOLEAN, day: Nat]
    BY <1>2, WriterRecords DEF StoreTypeOK
  <2>4. writer' \in [op: {"upload"}, at: {"body", "commit"}, who: Callers \cup {Nobody},
                     id: Ids, content: Stored, sound: BOOLEAN, day: Nat]
    BY <2>1, <2>3
  <2>5. writer' \in WriterStates
    BY <2>4 DEF WriterStates
  <2>6. StoreTypeOK'
    BY <1>1, <2>2, <2>5 DEF StoreTypeOK
  <2>7. /\ writer'.op = writer.op /\ writer'.at = writer.at /\ writer'.id = writer.id
        /\ writer'.content = writer.content /\ writer.op = "upload"
    BY <2>1, <2>3
  <2> QED
    BY <1>1, <2>6, <2>7 DEF KeepsBoth, RowsReadable, NoStrays, Going, Uploading, Readable,
                            IsAttached
<1>3. CASE ~(writer.op = "upload" /\ writer.who = c)
  <2>1. TakeAnswer(c) /\ writer' = writer
    BY <1>3 DEF ClientGone
  <2>2. Partial(answer', Callers, Uploaded \cup Deleted)
    BY <2>1, TakeAnswerType
  <2>3. Quiet
    BY <1>1, <2>1, <2>2 DEF Quiet, StoreTypeOK
  <2> QED
    BY <2>3, QuietKeeps
<1> QED
  BY <1>2, <1>3

(***************************************************************************)
(* A crash is not asked to keep more than the types.                       *)
(***************************************************************************)
LEMMA CrashKeeps ==
    ASSUME StoreTypeOK, CrashStore
    PROVE  StoreTypeOK' /\ KeepsBoth
<1>1. harm' \in [disk: Nat, crash: Nat, delete: Nat] /\ ~Unharmed' /\ ~Intact'
  BY HarmType DEF CrashStore, Unharmed, Intact
<1>2. Idle \in WriterStates
  BY DEF Idle, WriterStates
<1>3. Partial(answer', Callers, Uploaded \cup Deleted)
  BY DEF CrashStore, Partial
<1> QED
  BY <1>1, <1>2, <1>3 DEF CrashStore, StoreTypeOK, KeepsBoth

-----------------------------------------------------------------------------
(* Every step of the system *)

(***************************************************************************)
(* A new id is one that nobody knows.                                      *)
(***************************************************************************)
LEMMA NewIdFresh ==
    FreshIds # {} =>
        /\ NewId \in Ids
        /\ NewId \notin DOMAIN rows /\ NewId \notin DOMAIN blobs
        /\ NewId \notin temps /\ NewId \notin HeldIds
BY DEF FreshIds, NewId

(***************************************************************************)
(* What the clients and the tasks are doing, read off their records.       *)
(***************************************************************************)
LEMMA ClientRecords ==
    ASSUME TypeOK, NEW c \in Clients
    PROVE  /\ client[c].uploads \in Nat
           /\ client[c].at \in {"free", "upload", "holds"}
           /\ client[c].at = "upload" => client[c] \in [at: {"upload"}, uploads: Nat, day: Nat]
           /\ client[c].at = "holds" =>
                  client[c] \in [at: {"holds"}, uploads: Nat, id: Ids, new: BOOLEAN, day: Nat]
BY DEF TypeOK, ClientStates

(***************************************************************************)
(* A job's task is a task record, and has a row.                            *)
(***************************************************************************)
LEMMA TaskRecords ==
    ASSUME TypeOK, NEW j \in DOMAIN task
    PROVE  task[j] \in Tasks /\ j \in DOMAIN jobs /\ jobs[j] \in JobRows /\ j \in Jobs
BY DEF TypeOK, Partial

(***************************************************************************)
(* The store stays well formed and keeps what it owes, whatever is done.   *)
(***************************************************************************)
LEMMA ClientStepStore ==
    ASSUME TypeOK, NEW c \in Clients, ClientStep(c)
    PROVE  StoreTypeOK' /\ KeepsBoth
<1>t. StoreTypeOK /\ c \in Callers
  BY DEF TypeOK, Callers
<1>1. CASE ClientUpload(c)
  <2>1. PICK content \in Contents, sound \in BOOLEAN : BeginUpload(c, NewId, content, sound)
    BY <1>1 DEF ClientUpload
  <2>2. content \in Stored
    BY DEF Stored
  <2>3. FreshIds # {}
    BY <1>1 DEF ClientUpload
  <2> QED
    BY <1>t, <2>1, <2>2, <2>3, NewIdFresh, BeginUploadKeeps
<1>2. CASE ClientHasId(c)
  <2>1. TakeAnswer(c)
    BY <1>2 DEF ClientHasId
  <2>2. Partial(answer', Callers, Uploaded \cup Deleted)
    BY <1>t, <2>1, TakeAnswerType
  <2>3. Quiet
    BY <1>t, <1>2, <2>2 DEF ClientHasId, Quiet, StoreTypeOK
  <2> QED
    BY <1>t, <2>3, QuietKeeps
<1>3. CASE ClientGone(c)
  BY <1>t, <1>3, ClientGoneKeeps
<1>4. CASE OpenStream(c)
  <2>1. Quiet
    BY <1>t, <1>4 DEF OpenStream, storeVars, Quiet, StoreTypeOK
  <2> QED
    BY <1>t, <2>1, QuietKeeps
<1>5. ASSUME NEW name \in Names,
             ClientAttach(c, name) \/ ClientDelete(c, name) \/ BeginStream(c, name)
      PROVE  StoreTypeOK' /\ KeepsBoth
  <2>1. CASE ClientAttach(c, name)
    <3>1. CreateItem(name, {client[c].id}) /\ {client[c].id} \in SUBSET Ids
      BY <2>1, ClientRecords DEF ClientAttach
    <3> QED
      BY <1>t, <3>1, CreateItemKeeps
  <2>2. CASE ClientDelete(c, name)
    BY <1>t, <2>2, DeleteItemKeeps DEF ClientDelete
  <2>3. CASE BeginStream(c, name)
    <3>1. Quiet
      BY <1>t, <2>3 DEF BeginStream, storeVars, Quiet, StoreTypeOK
    <3> QED
      BY <1>t, <3>1, QuietKeeps
  <2> QED
    BY <1>5, <2>1, <2>2, <2>3
<1> QED
  BY <1>1, <1>2, <1>3, <1>4, <1>5 DEF ClientStep

(***************************************************************************)
(* A step of a job keeps the store's type and its agreement.                *)
(***************************************************************************)
LEMMA JobStepStore ==
    ASSUME TypeOK, NEW j \in Jobs, JobStep(j)
    PROVE  StoreTypeOK' /\ KeepsBoth
<1>t. StoreTypeOK /\ j \in Callers
  BY DEF TypeOK, Callers
<1>a. j \in DOMAIN task
  BY DEF JobStep, RunJob, ParseFile, ParsedFile, ParseEnd, ImportItem, CleanNewFile, CleanedFile,
         CleanEnd, ExportSnapshot, ExportFile, PersistExport, MarkJob, RemarkJob, At
<1>r. task[j] \in Tasks /\ jobs[j] \in JobRows
  BY <1>a, TaskRecords
<1>1. CASE ParseFile(j)
  <2>1. PICK content \in Stored, sound \in BOOLEAN : BeginUpload(j, NewId, content, sound)
    <3>1. CASE task[j].left # <<>> /\ BeginUpload(j, NewId, Head(task[j].left), TRUE)
      <4>1. Head(task[j].left) \in Stored
        BY <1>r, <3>1 DEF Tasks
      <4> QED
        BY <3>1, <4>1
    <3>2. CASE BeginUpload(j, NewId, StraySource, FALSE)
      BY <3>2 DEF Stored
    <3> QED
      BY <1>1, <3>1, <3>2 DEF ParseFile
  <2>2. FreshIds # {}
    BY <1>1 DEF ParseFile
  <2> QED
    BY <1>t, <2>1, <2>2, NewIdFresh, BeginUploadKeeps
<1>2. CASE ParsedFile(j) \/ CleanedFile(j)
  <2>1. TakeAnswer(j)
    BY <1>2 DEF ParsedFile, CleanedFile
  <2>2. Partial(answer', Callers, Uploaded \cup Deleted)
    BY <1>t, <2>1, TakeAnswerType
  <2>3. Quiet
    BY <1>t, <1>2, <2>2 DEF ParsedFile, CleanedFile, Quiet, StoreTypeOK
  <2> QED
    BY <1>t, <2>3, QuietKeeps
<1>3. CASE ParseEnd(j) \/ CleanEnd(j) \/ ExportSnapshot(j) \/ ExportFile(j)
  <2>1. Quiet
    BY <1>t, <1>3 DEF ParseEnd, CleanEnd, ExportSnapshot, ExportFile, storeVars, Quiet, StoreTypeOK
  <2> QED
    BY <1>t, <2>1, QuietKeeps
<1>4. CASE RunJob(j) \/ PersistExport(j) \/ MarkJob(j) \/ RemarkJob(j)
  <2>1. Quiet
    BY <1>t, <1>4 DEF RunJob, PersistExport, MarkJob, RemarkJob, Quiet, StoreTypeOK
  <2> QED
    BY <1>t, <2>1, QuietKeeps
<1>5. CASE ImportItem(j)
  <2>1. CASE CreateItem(jobs[j].name, task[j].ids)
    <3>1. jobs[j].name \in Names /\ task[j].ids \in SUBSET Ids
      BY <1>r DEF JobRows, Tasks
    <3> QED
      BY <1>t, <2>1, <3>1, CreateItemKeeps
  <2>2. CASE Harm("disk")
             /\ UNCHANGED <<rows, blobs, temps, items, claimed, writer, answer, day>>
    <3>1. Quiet
      BY <1>t, <2>2 DEF Quiet, StoreTypeOK
    <3> QED
      BY <1>t, <3>1, QuietKeeps
  <2> QED
    BY <1>5, <2>1, <2>2 DEF ImportItem
<1>6. CASE CleanNewFile(j)
  <2>1. PICK id \in task[j].mine : BeginDelete(j, id)
    BY <1>6 DEF CleanNewFile
  <2>2. id \in Ids
    BY <1>r DEF Tasks
  <2> QED
    BY <1>t, <2>1, <2>2, BeginDeleteKeeps
<1> QED
  BY <1>1, <1>2, <1>3, <1>4, <1>5, <1>6 DEF JobStep

(***************************************************************************)
(* So does every step of the specification.                                 *)
(***************************************************************************)
LEMMA StepStore ==
    ASSUME TypeOK, [Next]_vars
    PROVE  StoreTypeOK' /\ KeepsBoth
<1>t. StoreTypeOK
  BY DEF TypeOK
<1>1. ASSUME NEW j \in Jobs, Submit(j)
      PROVE  StoreTypeOK' /\ KeepsBoth
  <2>1. Quiet
    BY <1>t, <1>1 DEF Submit, SubmitImport, SubmitExport, storeVars, Quiet, StoreTypeOK
  <2> QED
    BY <1>t, <2>1, QuietKeeps
<1>2. CASE Time
  <2>1. Quiet
    BY <1>t, <1>2 DEF Time, NextDay, Quiet, StoreTypeOK
  <2> QED
    BY <1>t, <2>1, QuietKeeps
<1>7. ASSUME NEW j \in Jobs, HandlerStep(j) \/ Forsaken(j)
      PROVE  StoreTypeOK' /\ KeepsBoth
  <2>1. Quiet
    BY <1>t, <1>7 DEF HandlerStep, Forsaken, CreateJob, SpawnJob, RefuseJob, SubmitterGone,
       LateJobRow, InsertJob, EndJob, storeVars, Quiet, StoreTypeOK
  <2> QED
    BY <1>t, <2>1, QuietKeeps
<1>3. CASE DecideCleanup \/ UNCHANGED vars
  <2>1. Quiet
    BY <1>t, <1>3 DEF DecideCleanup, vars, storeVars, Quiet, StoreTypeOK
  <2> QED
    BY <1>t, <2>1, QuietKeeps
<1>4. CASE Writer
  BY <1>t, <1>4, WriterStepType, WriterStepKeeps DEF Writer
<1>5. CASE Cleanup
  BY <1>t, <1>5, BeginCleanupKeeps DEF Cleanup
<1>6. CASE Crash
  BY <1>t, <1>6, CrashKeeps DEF Crash
<1> QED
  BY <1>1, <1>2, <1>3, <1>4, <1>5, <1>6, <1>7, ClientStepStore, JobStepStore DEF Next

-----------------------------------------------------------------------------
(* Who waits for the writer *)

(***************************************************************************)
(* No one but who stops waiting.                                           *)
(***************************************************************************)
WaitOn(who) ==
    /\ \A c \in Clients \ {who} : client[c].at = "upload" => client'[c].at = "upload"
    /\ \A k \in DOMAIN task \ {who} :
           task[k].at \in {"upload", "cleaning"} =>
               k \in DOMAIN task' /\ task'[k].at = task[k].at

(***************************************************************************)
(* The writer and the answers are as before, and all go on waiting.        *)
(***************************************************************************)
LEMMA AwaitedKept ==
    ASSUME Awaited, NEW who, WaitOn(who), answer' = answer, writer' = writer,
           ~Waits(who, "upload"), ~Waits(who, "cleaning")
    PROVE  Awaited'
BY DEF Awaited, WaitOn, Waits

(***************************************************************************)
(* who takes its answer and need wait no longer.                           *)
(***************************************************************************)
LEMMA AwaitedTaken ==
    ASSUME TypeOK, NEW who, WaitOn(who), TakeAnswer(who), writer' = writer
    PROVE  Awaited'
<1>1. /\ who \in DOMAIN answer
      /\ DOMAIN answer' = DOMAIN answer \ {who}
      /\ \A w \in DOMAIN answer' : answer'[w] = answer[w]
  BY TakeAnswerType DEF TypeOK, TakeAnswer
<1>2. Awaited
  BY DEF TypeOK
<1>3. \A w, at : w # who /\ at \in {"upload", "cleaning"} /\ Waits(w, at) => Waits(w, at)'
  BY DEF WaitOn, Waits
<1>4. writer.op = "upload" /\ writer.who # Nobody => writer.who # who
  BY <1>1, <1>2 DEF Awaited
<1>5. writer.op = "delete" => writer.who # who
  BY <1>1, <1>2 DEF Awaited
<1>6. \A w \in DOMAIN answer' :
          \/ Waits(w, "upload")' /\ answer'[w] \in Uploaded
          \/ w \in Jobs /\ Waits(w, "cleaning")' /\ answer'[w] \in Deleted
  <2> TAKE w \in DOMAIN answer'
  <2>1. w # who /\ w \in DOMAIN answer /\ answer'[w] = answer[w]
    BY <1>1
  <2>2. \/ Waits(w, "upload") /\ answer[w] \in Uploaded
        \/ w \in Jobs /\ Waits(w, "cleaning") /\ answer[w] \in Deleted
    BY <1>2, <2>1 DEF Awaited
  <2> QED
    BY <1>3, <2>1, <2>2
<1> QED
  BY <1>1, <1>2, <1>3, <1>4, <1>5, <1>6 DEF Awaited

(***************************************************************************)
(* who begins to wait, for a writer that was idle.                         *)
(***************************************************************************)
LEMMA AwaitedBegun ==
    ASSUME Awaited, NEW who \in Callers, WaitOn(who), answer' = answer, writer = Idle,
           ~Waits(who, "upload"), ~Waits(who, "cleaning"),
           writer'.who = who,
           \/ writer'.op = "upload" /\ Waits(who, "upload")'
           \/ writer'.op = "delete" /\ who \in Jobs /\ Waits(who, "cleaning")'
    PROVE  Awaited'
BY DEF Awaited, WaitOn, Waits

(***************************************************************************)
(* The writer answers the one it works for.                                *)
(***************************************************************************)
LEMMA AwaitedAnswered ==
    ASSUME StoreTypeOK, Awaited, NEW who \in Callers \cup {Nobody},
           NEW a \in Uploaded \cup Deleted, Answer(who, a),
           UNCHANGED <<client, task>>,
           \/ who = Nobody
           \/ Waits(who, "upload") /\ a \in Uploaded
           \/ who \in Jobs /\ Waits(who, "cleaning") /\ a \in Deleted
    PROVE  Awaited'
<1>1. /\ writer' = Idle
      /\ DOMAIN answer' \subseteq DOMAIN answer \cup ({who} \ {Nobody})
      /\ \A w \in DOMAIN answer' : answer'[w] = IF w = who THEN a ELSE answer[w]
  BY AnswerType
<1>2. \A w, at : Waits(w, at) => Waits(w, at)'
  BY DEF Waits
<1>3. Nobody \notin DOMAIN answer
  BY TransferAssumption DEF StoreTypeOK, Partial, Callers
<1>4. \A w \in DOMAIN answer' :
          \/ Waits(w, "upload")' /\ answer'[w] \in Uploaded
          \/ w \in Jobs /\ Waits(w, "cleaning")' /\ answer'[w] \in Deleted
  <2> TAKE w \in DOMAIN answer'
  <2>1. CASE w = who
    BY <1>1, <1>2, <1>3, <2>1
  <2>2. CASE w # who
    <3>1. w \in DOMAIN answer /\ answer'[w] = answer[w]
      BY <1>1, <2>2
    <3>2. \/ Waits(w, "upload") /\ answer[w] \in Uploaded
          \/ w \in Jobs /\ Waits(w, "cleaning") /\ answer[w] \in Deleted
      BY <3>1 DEF Awaited
    <3> QED
      BY <1>2, <3>1, <3>2
  <2> QED
    BY <2>1, <2>2
<1> QED
  BY <1>1, <1>4 DEF Awaited, Idle

(***************************************************************************)
(* The writer works for a caller that waits, and answers just that one.     *)
(***************************************************************************)
LEMMA WriterAwaited ==
    ASSUME TypeOK, Writer
    PROVE  Awaited'
<1>t. StoreTypeOK /\ Awaited /\ UNCHANGED <<client, task>> /\ WriterStep
  BY DEF TypeOK, Writer
<1>1. CASE \E a \in Uploaded : writer.op = "upload" /\ Answer(writer.who, a)
  <2>1. writer.who \in Callers \cup {Nobody}
    BY <1>t, <1>1, WriterRecords DEF StoreTypeOK
  <2>2. writer.who = Nobody \/ Waits(writer.who, "upload")
    BY <1>t, <1>1 DEF Awaited
  <2> QED
    BY <1>t, <1>1, <2>1, <2>2, AwaitedAnswered
<1>2. CASE \E a \in Deleted : writer.op = "delete" /\ Answer(writer.who, a)
  <2>1. writer.who \in Callers
    BY <1>t, <1>2, WriterRecords DEF StoreTypeOK
  <2>2. writer.who \in Jobs /\ Waits(writer.who, "cleaning")
    BY <1>t, <1>2 DEF Awaited
  <2> QED
    BY <1>t, <1>2, <2>1, <2>2, AwaitedAnswered
<1>3. CASE answer' = answer /\ writer' = [writer EXCEPT !.at = "commit"] /\ writer.op = "upload"
  <2>1. writer \in [op: {"upload"}, at: {"body", "commit"}, who: Callers \cup {Nobody},
                    id: Ids, content: Stored, sound: BOOLEAN, day: Nat]
    BY <1>t, <1>3, WriterRecords DEF StoreTypeOK
  <2>2. writer'.op = "upload" /\ writer'.who = writer.who
    BY <1>3, <2>1
  <2> QED
    BY <1>t, <1>3, <2>2 DEF Awaited, Waits
<1>4. CASE answer' = answer /\ writer' = [writer EXCEPT !.at = "row"] /\ writer.op = "delete"
  <2>1. writer \in [op: {"delete"}, at: {"unlink", "row"}, who: Callers, id: Ids]
    BY <1>t, <1>4, WriterRecords DEF StoreTypeOK
  <2>2. writer'.op = "delete" /\ writer'.who = writer.who
    BY <1>4, <2>1
  <2> QED
    BY <1>t, <1>4, <2>2 DEF Awaited, Waits
<1>5. CASE answer' = answer /\ writer'.op \in {"idle", "cleanup"}
  BY <1>t, <1>5 DEF Awaited, Waits
<1>a. CASE RefuseBody \/ BodyWriteFails \/ RenameBlob
  BY <1>a, <1>1, <1>3, AnswerValues DEF RefuseBody, BodyWriteFails, RenameBlob, Uploading
<1>b. CASE Deduplicate
  <2>1. PICK id \in Existing(writer.content) : Answer(writer.who, File(id, FALSE))
    BY <1>b DEF Deduplicate
  <2>2. id \in Ids
    BY <1>t DEF Existing, StoreTypeOK, Partial
  <2>3. writer.op = "upload"
    BY <1>b DEF Deduplicate, Uploading
  <2> QED
    BY <1>1, <2>1, <2>2, <2>3, AnswerValues
<1>c. CASE CommitRow
  <2>1. writer.op = "upload" /\ writer.id \in Ids
    BY <1>t, <1>c, WriterRecords DEF CommitRow, Uploading, StoreTypeOK
  <2>2. \E a \in Uploaded : Answer(writer.who, a)
    BY <1>c, <2>1, AnswerValues DEF CommitRow
  <2> QED
    BY <1>1, <2>1, <2>2
<1>d. CASE UnlinkDeleted \/ DeleteDeletedRow
  BY <1>d, <1>2, <1>4, AnswerValues DEF UnlinkDeleted, DeleteDeletedRow, Deleting
<1>e. CASE UnlinkOrphan
  <2>1. answer' = answer /\ writer.op = "cleanup" /\ writer.at = "unlink"
    BY <1>e DEF UnlinkOrphan, Cleaning
  <2>2. writer \in [op: {"cleanup"}, at: {"unlink"}, todo: SUBSET Ids]
    BY <1>t, <2>1, WriterRecords DEF StoreTypeOK
  <2>3. writer'.op = "cleanup"
    BY <1>e, <2>2 DEF UnlinkOrphan
  <2> QED
    BY <1>5, <2>1, <2>3
<1>f. CASE DeleteOrphanRow \/ EndCleanup
  BY <1>f, <1>5 DEF DeleteOrphanRow, EndCleanup, Idle
<1> QED
  BY <1>t, <1>a, <1>b, <1>c, <1>d, <1>e, <1>f DEF WriterStep

-----------------------------------------------------------------------------
(* Type correctness of the clients and the jobs *)

(***************************************************************************)
(* The rest of the types, by variable.                                     *)
(***************************************************************************)
OthersTypeOK ==
    /\ client \in [Clients -> ClientStates]
    /\ stream \in [Clients -> Streams]
    /\ Partial(jobs, Jobs, JobRows)
    /\ Partial(task, DOMAIN jobs, Tasks)
    /\ spool \subseteq Jobs
    /\ Partial(output, Jobs, SUBSET Stored)

(***************************************************************************)
(* A client's step keeps the type of clients, streams and jobs.             *)
(***************************************************************************)
LEMMA ClientStepType ==
    ASSUME TypeOK, NEW c \in Clients, ClientStep(c)
    PROVE  OthersTypeOK'
<1>t. OthersTypeOK /\ StoreTypeOK /\ Awaited
  BY DEF TypeOK, OthersTypeOK
<1>c. /\ client[c].uploads \in Nat /\ Free(client[c].uploads) \in ClientStates
      /\ client[c].at = "upload" => client[c] \in [at: {"upload"}, uploads: Nat, day: Nat]
  BY ClientRecords DEF Free, ClientStates
<1>1. CASE ClientUpload(c)
  <2>1. [at |-> "upload", uploads |-> client[c].uploads + 1, day |-> day] \in ClientStates
    BY <1>t, <1>c DEF ClientStates, StoreTypeOK
  <2> QED
    BY <1>t, <1>1, <2>1 DEF ClientUpload, OthersTypeOK
<1>2. CASE ClientHasId(c)
  <2>1. c \in DOMAIN answer /\ answer[c] \in Uploaded
    <3>1. c \in DOMAIN answer /\ c \notin Jobs
      BY <1>2, TransferAssumption DEF ClientHasId, TakeAnswer
    <3> QED
      BY <1>t, <3>1 DEF Awaited
  <2>2. answer[c].status = "ok" => answer[c].id \in Ids /\ answer[c].new \in BOOLEAN
    BY <2>1 DEF Uploaded
  <2>3. client[c].day \in Nat
    BY <1>c, <1>2 DEF ClientHasId
  <2>4. answer[c].status = "ok" =>
            [at |-> "holds", uploads |-> client[c].uploads, id |-> answer[c].id,
             new |-> answer[c].new, day |-> client[c].day] \in ClientStates
    BY <1>c, <2>2, <2>3 DEF ClientStates
  <2> QED
    BY <1>t, <1>c, <1>2, <2>4 DEF ClientHasId, OthersTypeOK
<1>3. CASE ClientGone(c)
  BY <1>t, <1>c, <1>3 DEF ClientGone, OthersTypeOK
<1>4. CASE OpenStream(c)
  BY <1>t, <1>4 DEF OpenStream, OthersTypeOK, Streams
<1>5. ASSUME NEW name \in Names,
             ClientAttach(c, name) \/ ClientDelete(c, name) \/ BeginStream(c, name)
      PROVE  OthersTypeOK'
  <2>1. CASE ClientAttach(c, name)
    BY <1>t, <1>c, <2>1 DEF ClientAttach, OthersTypeOK
  <2>2. CASE ClientDelete(c, name)
    <3>1. stream' \in [Clients -> Streams]
      BY <1>t, <2>2 DEF ClientDelete, OthersTypeOK, Streams
    <3>2. \A j \in DOMAIN task : [task[j] EXCEPT !.whole = @ /\ name # jobs[j].name] \in Tasks
      BY ZenonT(90), <1>t DEF OthersTypeOK, Partial, Tasks
    <3>3. /\ task' = [j \in DOMAIN task |->
                          [task[j] EXCEPT !.whole = @ /\ name # jobs[j].name]]
          /\ UNCHANGED <<client, jobs, spool, output>>
      BY <2>2 DEF ClientDelete
    <3>4. Partial(task', DOMAIN jobs, Tasks)
      BY <1>t, <3>2, <3>3 DEF OthersTypeOK, Partial
    <3> QED
      BY <1>t, <3>1, <3>3, <3>4 DEF OthersTypeOK
  <2>3. CASE BeginStream(c, name)
    <3>1. PICK id \in items[name] :
              stream' = [stream EXCEPT ![c] = [id |-> id, whole |-> TRUE, seen |-> "none"]]
      BY <2>3 DEF BeginStream
    <3>2. id \in Ids
      BY <1>t, <2>3 DEF BeginStream, StoreTypeOK, Partial
    <3>3. [id |-> id, whole |-> TRUE, seen |-> "none"] \in Streams
      BY <3>2 DEF Streams
    <3> QED
      BY <1>t, <2>3, <3>1, <3>3 DEF BeginStream, OthersTypeOK
  <2> QED
    BY <1>5, <2>1, <2>2, <2>3
<1> QED
  BY <1>1, <1>2, <1>3, <1>4, <1>5 DEF ClientStep

(***************************************************************************)
(* A job's step changes its own task and row and nobody else's.            *)
(***************************************************************************)
LEMMA JobStepTask ==
    ASSUME TypeOK, NEW j \in Jobs, JobStep(j)
    PROVE  /\ j \in DOMAIN task
           /\ DOMAIN task' = DOMAIN task
           /\ \A k \in DOMAIN task \ {j} : task'[k] = task[k]
           /\ task'[j] \in Tasks
           /\ DOMAIN jobs' = DOMAIN jobs
           /\ \A k \in DOMAIN jobs \ {j} : jobs'[k] = jobs[k]
           /\ jobs'[j] \in JobRows
           /\ UNCHANGED <<client, stream>>
<1>a. j \in DOMAIN task
  BY DEF JobStep, RunJob, ParseFile, ParsedFile, ParseEnd, ImportItem, CleanNewFile, CleanedFile,
         CleanEnd, ExportSnapshot, ExportFile, PersistExport, MarkJob, RemarkJob, At
<1>r. task[j] \in Tasks /\ j \in DOMAIN jobs /\ jobs[j] \in JobRows
  BY <1>a, TaskRecords
<1>t. StoreTypeOK /\ Awaited
  BY DEF TypeOK
<1>f. task = [k \in DOMAIN task |-> task[k]] /\ jobs = [k \in DOMAIN jobs |-> jobs[k]]
  BY DEF TypeOK, Partial
<1>j. /\ DOMAIN jobs' = DOMAIN jobs
      /\ \A k \in DOMAIN jobs \ {j} : jobs'[k] = jobs[k]
      /\ jobs'[j] \in JobRows
  <2>1. CASE jobs' = jobs
    BY <1>r, <2>1
  <2>2. ASSUME NEW status \in {"running", "succeeded", "failed"}, SetStatus(j, status)
        PROVE  /\ DOMAIN jobs' = DOMAIN jobs
               /\ \A k \in DOMAIN jobs \ {j} : jobs'[k] = jobs[k]
               /\ jobs'[j] \in JobRows
    BY <1>r, <1>f, <2>2 DEF SetStatus, JobRows
  <2>3. jobs' = jobs \/ \E status \in {"running", "succeeded", "failed"} : SetStatus(j, status)
    BY DEF JobStep, RunJob, ParseFile, ParsedFile, ParseEnd, ImportItem, CleanNewFile,
           CleanedFile, CleanEnd, ExportSnapshot, ExportFile, PersistExport, MarkJob, RemarkJob
  <2> QED
    BY <2>1, <2>2, <2>3
<1>u. UNCHANGED <<client, stream>>
  BY DEF JobStep, RunJob, ParseFile, ParsedFile, ParseEnd, ImportItem, CleanNewFile, CleanedFile,
         CleanEnd, ExportSnapshot, ExportFile, PersistExport, MarkJob, RemarkJob
<1>k. \E t \in Tasks : task' = [task EXCEPT ![j] = t]
  <2>1. ASSUME NEW at \in {"parse", "upload", "create", "clean", "snapshot", "mark", "remark",
                           "ended"},
               GoTo(j, at) \/ FailTo(j, at)
        PROVE  <1>k
    <3>1. /\ [task[j] EXCEPT !.at = at] \in Tasks
          /\ [task[j] EXCEPT !.at = at, !.failed = TRUE] \in Tasks
      BY <1>r DEF Tasks
    <3> QED
      BY <2>1, <3>1 DEF GoTo, FailTo
  <2>2. CASE RunJob(j) \/ ParseEnd(j) \/ ImportItem(j) \/ CleanedFile(j) \/ CleanEnd(j)
             \/ PersistExport(j) \/ MarkJob(j) \/ RemarkJob(j)
    BY <2>1, <2>2 DEF RunJob, ParseEnd, ImportItem, CleanedFile, CleanEnd, PersistExport, MarkJob,
                      RemarkJob, EndJob
  <2>3. CASE ParseFile(j)
    <3>1. CASE task[j].left # <<>>
               /\ task' = [task EXCEPT ![j].at = "upload", ![j].left = Tail(@)]
      <4>1. Tail(task[j].left) \in Seq(Stored)
        BY <1>r, <3>1 DEF Tasks
      <4>2. [task[j] EXCEPT !.at = "upload", !.left = Tail(@)] \in Tasks
        BY <1>r, <4>1 DEF Tasks
      <4> QED
        BY <3>1, <4>2
    <3> QED
      BY <2>1, <2>3, <3>1 DEF ParseFile
  <2>4. CASE ParsedFile(j)
    <3>1. j \in DOMAIN answer /\ answer[j] \in Uploaded
      <4>1. j \in DOMAIN answer /\ task[j].at = "upload" /\ j \notin Clients
        BY <2>4, TransferAssumption DEF ParsedFile, TakeAnswer, At
      <4> QED
        BY <1>t, <4>1 DEF Awaited, Waits
    <3>2. answer[j].status = "ok" => answer[j].id \in Ids
      BY <3>1 DEF Uploaded
    <3>3. CASE answer[j].status = "ok" /\ answer[j].new
      <4>1. [task[j] EXCEPT !.at = "parse", !.ids = @ \cup {answer[j].id},
                            !.mine = @ \cup {answer[j].id},
                            !.made = @ \cup {answer[j].id}] \in Tasks
        BY <1>r, <3>2, <3>3 DEF Tasks
      <4>2. task' = [task EXCEPT ![j].at = "parse", ![j].ids = @ \cup {answer[j].id},
                                 ![j].mine = @ \cup {answer[j].id},
                                 ![j].made = @ \cup {answer[j].id}]
        BY <2>4, <3>3 DEF ParsedFile
      <4> QED
        BY <4>1, <4>2
    <3>4. CASE answer[j].status = "ok" /\ ~answer[j].new
      <4>1. [task[j] EXCEPT !.at = "parse", !.ids = @ \cup {answer[j].id}, !.mine = @,
                            !.made = @] \in Tasks
        BY <1>r, <3>2, <3>4 DEF Tasks
      <4>2. task' = [task EXCEPT ![j].at = "parse", ![j].ids = @ \cup {answer[j].id},
                                 ![j].mine = @, ![j].made = @]
        BY <2>4, <3>4 DEF ParsedFile
      <4> QED
        BY <4>1, <4>2
    <3> QED
      BY <2>1, <2>4, <3>3, <3>4 DEF ParsedFile
  <2>5. CASE CleanNewFile(j)
    <3>1. PICK id : task' = [task EXCEPT ![j].at = "cleaning", ![j].mine = @ \ {id}]
      BY <2>5 DEF CleanNewFile
    <3>2. [task[j] EXCEPT !.at = "cleaning", !.mine = @ \ {id}] \in Tasks
      BY <1>r DEF Tasks
    <3> QED
      BY <3>1, <3>2
  <2>6. CASE ExportSnapshot(j)
    <3>1. CASE jobs[j].name \in DOMAIN items
      <4>1. items[jobs[j].name] \in SUBSET Ids
        BY <1>t, <3>1 DEF StoreTypeOK, Partial
      <4>2. [task[j] EXCEPT !.at = "stream", !.ids = items[jobs[j].name],
                            !.whole = TRUE] \in Tasks
        BY <1>r, <4>1 DEF Tasks
      <4>3. task' = [task EXCEPT ![j].at = "stream", ![j].ids = items[jobs[j].name],
                                 ![j].whole = TRUE]
        BY <2>6, <3>1 DEF ExportSnapshot
      <4> QED
        BY <4>2, <4>3
    <3>2. CASE jobs[j].name \notin DOMAIN items
      <4>1. [task[j] EXCEPT !.at = "mark", !.failed = TRUE, !.whole = FALSE] \in Tasks
        BY <1>r DEF Tasks
      <4>2. task' = [task EXCEPT ![j].at = "mark", ![j].failed = TRUE, ![j].whole = FALSE]
        BY <2>6, <3>2 DEF ExportSnapshot
      <4> QED
        BY <4>1, <4>2
    <3> QED
      BY <3>1, <3>2
  <2>7. CASE ExportFile(j)
    <3>1. PICK id \in task[j].ids :
             IF CanOpen(id)
             THEN task' = [task EXCEPT ![j].ids = @ \ {id}, ![j].left = Append(@, blobs[id])]
             ELSE FailTo(j, "mark")
      BY <2>7 DEF ExportFile
    <3>2. CASE CanOpen(id)
      <4>1. blobs[id] \in Stored
        BY <1>t, <3>2 DEF CanOpen, StoreTypeOK, Partial
      <4>2. Append(task[j].left, blobs[id]) \in Seq(Stored)
        BY <1>r, <4>1 DEF Tasks
      <4>3. [task[j] EXCEPT !.ids = @ \ {id}, !.left = Append(@, blobs[id])] \in Tasks
        BY <1>r, <4>2 DEF Tasks
      <4> QED
        BY ZenonT(90), <3>1, <3>2, <4>3
    <3> QED
      BY <2>1, <3>1, <3>2
  <2> QED
    BY <2>2, <2>3, <2>4, <2>5, <2>6, <2>7 DEF JobStep
<1> QED
  BY <1>a, <1>f, <1>j, <1>u, <1>k

(***************************************************************************)
(* A job's step keeps the type of clients, streams and jobs.                *)
(***************************************************************************)
LEMMA JobStepType ==
    ASSUME TypeOK, NEW j \in Jobs, JobStep(j)
    PROVE  OthersTypeOK'
<1>t. OthersTypeOK /\ StoreTypeOK
  BY DEF TypeOK, OthersTypeOK
<1>1. /\ j \in DOMAIN task /\ j \in DOMAIN jobs
      /\ task[j] \in Tasks
  BY JobStepTask, TaskRecords
<1>2. Partial(task', DOMAIN jobs', Tasks)
  <2>1. task' = [k \in DOMAIN task' |-> task'[k]]
    BY <1>t DEF OthersTypeOK, Partial, JobStep, RunJob, ParseFile, ParsedFile, ParseEnd, ImportItem,
           CleanNewFile, CleanedFile, CleanEnd, ExportSnapshot, ExportFile, PersistExport, MarkJob,
           RemarkJob, GoTo, FailTo, EndJob
  <2>2. \A k \in DOMAIN task' : task'[k] \in Tasks
    BY <1>t, JobStepTask DEF OthersTypeOK, Partial
  <2>3. DOMAIN task' \subseteq DOMAIN jobs'
    BY <1>t, JobStepTask DEF OthersTypeOK, Partial
  <2> QED
    BY SMTT(60), <2>1, <2>2, <2>3 DEF Partial
<1>3. Partial(jobs', Jobs, JobRows)
  <2>1. jobs' = [k \in DOMAIN jobs' |-> jobs'[k]]
    BY <1>t DEF OthersTypeOK, Partial, JobStep, RunJob, ParseFile, ParsedFile, ParseEnd, ImportItem,
           CleanNewFile, CleanedFile, CleanEnd, ExportSnapshot, ExportFile, PersistExport, MarkJob,
           RemarkJob, SetStatus
  <2>2. \A k \in DOMAIN jobs' : jobs'[k] \in JobRows
    BY <1>t, JobStepTask DEF OthersTypeOK, Partial
  <2>3. DOMAIN jobs' \subseteq Jobs
    BY <1>t, JobStepTask DEF OthersTypeOK, Partial
  <2> QED
    BY <2>1, <2>2, <2>3 DEF Partial
<1>4. spool' \subseteq Jobs
  BY <1>t DEF OthersTypeOK, JobStep, RunJob, ParseFile, ParsedFile, ParseEnd, ImportItem,
         CleanNewFile, CleanedFile, CleanEnd, ExportSnapshot, ExportFile, PersistExport, MarkJob,
         RemarkJob, EndJob
<1>5. Partial(output', Jobs, SUBSET Stored)
  <2>1. CASE output' = output
    BY <1>t, <2>1 DEF OthersTypeOK
  <2>2. CASE output' = With(output, j, Range(task[j].left))
    <3>1. Range(task[j].left) \in SUBSET Stored
      BY <1>1 DEF Tasks, Range
    <3>2. Partial(output, Jobs, SUBSET Stored)
      BY <1>t DEF OthersTypeOK
    <3> QED
      BY <2>2, <3>1, <3>2, WithType
  <2> QED
    BY <2>1, <2>2 DEF JobStep, RunJob, ParseFile, ParsedFile, ParseEnd, ImportItem,
       CleanNewFile, CleanedFile, CleanEnd, ExportSnapshot, ExportFile, PersistExport, MarkJob,
       RemarkJob
<1> QED
  BY <1>t, <1>2, <1>3, <1>4, <1>5, JobStepTask DEF OthersTypeOK

(***************************************************************************)
(* A job is submitted under a number that no job has had.                  *)
(***************************************************************************)
Submitted(j) ==
    /\ j \notin DOMAIN task
    /\ DOMAIN task' = DOMAIN task \cup {j}
    /\ \A k \in DOMAIN task : task'[k] = task[k] /\ jobs'[k] = jobs[k]
    /\ task'[j].at = "creating" /\ task'[j].made = {} /\ task'[j].mine = {}
    /\ ~task'[j].failed
    /\ UNCHANGED <<storeVars, client, stream>>

(***************************************************************************)
(* What the task of a job looks like once it is submitted.                  *)
(***************************************************************************)
LEMMA SubmitTask ==
    ASSUME TypeOK, NEW j \in Jobs, Submit(j)
    PROVE  Submitted(j) /\ OthersTypeOK'
<1>t. OthersTypeOK /\ DOMAIN task \subseteq DOMAIN jobs
  BY DEF TypeOK, OthersTypeOK, Partial
<1>1. ASSUME NEW t \in Tasks, NEW row \in JobRows,
             j \notin DOMAIN jobs, jobs' = With(jobs, j, row), task' = With(task, j, t)
      PROVE  /\ j \notin DOMAIN task
             /\ DOMAIN task' = DOMAIN task \cup {j}
             /\ \A k \in DOMAIN task : task'[k] = task[k] /\ jobs'[k] = jobs[k]
             /\ task'[j] = t
             /\ Partial(jobs', Jobs, JobRows)
             /\ Partial(task', DOMAIN jobs', Tasks)
  <2>1. /\ DOMAIN jobs' = DOMAIN jobs \cup {j}
        /\ \A k \in DOMAIN jobs : jobs'[k] = jobs[k]
    BY <1>1 DEF With
  <2>2. /\ DOMAIN task' = DOMAIN task \cup {j}
        /\ task'[j] = t
        /\ \A k \in DOMAIN task : task'[k] = task[k]
    BY <1>t, <1>1 DEF With
  <2>3. Partial(jobs', Jobs, JobRows)
    BY <1>t, <1>1, WithType DEF OthersTypeOK
  <2>4. Partial(task, DOMAIN jobs', Tasks)
    BY <1>t, <2>1 DEF OthersTypeOK, Partial
  <2>5. Partial(task', DOMAIN jobs', Tasks)
    BY <1>1, <2>1, <2>4, WithType
  <2> QED
    BY <1>t, <1>1, <2>1, <2>2, <2>3, <2>5
<1>2. ASSUME NEW name \in Names, NEW archive \in Archives, SubmitImport(j, name, archive)
      PROVE  Submitted(j) /\ OthersTypeOK'
  <2>1. archive.files \in Seq(Stored) /\ archive.flaw \in Flaws
    BY TransferAssumption
  <2> DEFINE t == [NewTask("import", "creating") EXCEPT
                      !.left = archive.files, !.flaw = archive.flaw]
             row == [kind |-> "import", status |-> "none", name |-> name]
  <2>2. /\ t \in Tasks /\ t.at = "creating" /\ t.made = {} /\ t.mine = {} /\ ~t.failed
        /\ row \in JobRows
    BY <2>1 DEF NewTask, Tasks, JobRows
  <2>3. /\ j \notin DOMAIN jobs /\ jobs' = With(jobs, j, row) /\ task' = With(task, j, t)
        /\ spool' = spool \cup {j} /\ UNCHANGED <<storeVars, client, stream, output>>
    BY <1>2 DEF SubmitImport
  <2> HIDE DEF t, row
  <2> QED
    BY <1>t, <1>1, <2>2, <2>3 DEF OthersTypeOK, Submitted
<1>3. ASSUME NEW name \in Names, SubmitExport(j, name)
      PROVE  Submitted(j) /\ OthersTypeOK'
  <2> DEFINE t == NewTask("export", "creating")
             row == [kind |-> "export", status |-> "none", name |-> name]
  <2>1. /\ t \in Tasks /\ t.at = "creating" /\ t.made = {} /\ t.mine = {} /\ ~t.failed
        /\ row \in JobRows
    BY DEF NewTask, Tasks, JobRows, Flaws
  <2>2. /\ j \notin DOMAIN jobs /\ jobs' = With(jobs, j, row) /\ task' = With(task, j, t)
        /\ UNCHANGED <<storeVars, client, stream, spool, output>>
    BY <1>3 DEF SubmitExport
  <2> HIDE DEF t, row
  <2> QED
    BY <1>t, <1>1, <2>1, <2>2 DEF OthersTypeOK, Submitted
<1> QED
  BY <1>2, <1>3 DEF Submit

(***************************************************************************)
(* What changes while the row of a job is created, by its handler or when  *)
(* the handler is gone: only where j is, and its status.                   *)
(***************************************************************************)
Handled(j) ==
    /\ j \in DOMAIN task /\ j \in Jobs /\ task[j].at \in Unspawned
    /\ DOMAIN task' = DOMAIN task
    /\ \A k \in DOMAIN task \ {j} : task'[k] = task[k] /\ jobs'[k].status = jobs[k].status
    /\ \A k \in DOMAIN task :
           /\ task'[k].kind = task[k].kind /\ task'[k].ids = task[k].ids
           /\ task'[k].mine = task[k].mine /\ task'[k].made = task[k].made
           /\ task'[k].failed = task[k].failed /\ task'[k].whole = task[k].whole
           /\ jobs'[k].name = jobs[k].name
    /\ task'[j].at \in {"created", "refused", "leaving", "left", "queued", "ended"}
    /\ harm' = harm \/ Harm("disk")
    /\ UNCHANGED <<rows, blobs, temps, items, claimed, writer, answer, day, client, stream>>

(***************************************************************************)
(* Such is every step of the handler, and what comes after it.             *)
(***************************************************************************)
LEMMA HandlerTask ==
    ASSUME TypeOK, NEW j \in Jobs, HandlerStep(j) \/ Forsaken(j)
    PROVE  Handled(j) /\ OthersTypeOK'
<1>t. /\ OthersTypeOK /\ DOMAIN task \subseteq DOMAIN jobs
      /\ jobs = [k \in DOMAIN jobs |-> jobs[k]] /\ task = [k \in DOMAIN task |-> task[k]]
  BY DEF TypeOK, OthersTypeOK, Partial
<1>j. j \in DOMAIN task /\ task[j].at \in Unspawned
  BY DEF HandlerStep, Forsaken, CreateJob, SpawnJob, RefuseJob, SubmitterGone, LateJobRow, At,
         Unspawned
<1>f. task[j] \in Tasks /\ j \in DOMAIN jobs /\ jobs[j] \in JobRows
  BY <1>j, TaskRecords
<1>1. /\ UNCHANGED <<rows, blobs, temps, items, claimed, writer, answer, day, client, stream, output>>
      /\ harm' = harm \/ Harm("disk")
      /\ spool' \subseteq spool
  BY DEF HandlerStep, Forsaken, CreateJob, SpawnJob, RefuseJob, SubmitterGone, LateJobRow,
         InsertJob, EndJob, storeVars
<1>2. PICK at \in {"created", "refused", "leaving", "left", "queued", "ended"} : GoTo(j, at)
  BY DEF HandlerStep, Forsaken, CreateJob, SpawnJob, RefuseJob, SubmitterGone, LateJobRow,
         InsertJob, EndJob
<1>3. jobs' = jobs \/ SetStatus(j, "queued")
  BY DEF HandlerStep, Forsaken, CreateJob, SpawnJob, RefuseJob, SubmitterGone, LateJobRow,
         InsertJob
<1>4. /\ DOMAIN task' = DOMAIN task
      /\ \A k \in DOMAIN task \ {j} : task'[k] = task[k]
      /\ task'[j] = [task[j] EXCEPT !.at = at]
  BY <1>j, <1>t, <1>2 DEF GoTo
<1>5. /\ DOMAIN jobs' = DOMAIN jobs
      /\ \A k \in DOMAIN jobs \ {j} : jobs'[k] = jobs[k]
      /\ jobs'[j] \in JobRows /\ jobs'[j].name = jobs[j].name
  BY <1>f, <1>t, <1>3 DEF SetStatus, JobRows
<1>6. task'[j] \in Tasks
  BY <1>f, <1>2, <1>4 DEF Tasks
<1>7. Partial(jobs', Jobs, JobRows)
  <2>1. jobs' = [k \in DOMAIN jobs |-> jobs'[k]]
    BY <1>t, <1>3 DEF SetStatus
  <2> QED
    BY <1>t, <1>5, <2>1 DEF OthersTypeOK, Partial
<1>8. Partial(task', DOMAIN jobs', Tasks)
  <2>1. task' = [k \in DOMAIN task |-> task'[k]]
    BY <1>t, <1>2 DEF GoTo
  <2> QED
    BY <1>t, <1>4, <1>5, <1>6, <2>1 DEF OthersTypeOK, Partial
<1>9. OthersTypeOK'
  BY <1>t, <1>1, <1>7, <1>8 DEF OthersTypeOK
<1>10. Handled(j)
  BY <1>t, <1>f, <1>j, <1>1, <1>2, <1>4, <1>5 DEF Handled, Tasks
<1> QED
  BY <1>9, <1>10

-----------------------------------------------------------------------------
(* Type correctness *)

LEMMA ClientStepAwaited ==
    ASSUME TypeOK, NEW c \in Clients, ClientStep(c)
    PROVE  Awaited'
<1>t. StoreTypeOK /\ Awaited /\ c \in Callers /\ c \notin Jobs /\ c \notin DOMAIN task
      /\ client \in [Clients -> ClientStates]
  BY TransferAssumption DEF TypeOK, Callers, Partial
<1>1. CASE ClientUpload(c)
  <2>1. PICK content \in Contents, sound \in BOOLEAN : BeginUpload(c, NewId, content, sound)
    BY <1>1 DEF ClientUpload
  <2>2. writer'.op = "upload" /\ writer'.who = c /\ writer = Idle /\ answer' = answer
    BY <2>1 DEF BeginUpload
  <2>3. WaitOn(c) /\ Waits(c, "upload")'
    BY <1>t, <1>1 DEF ClientUpload, WaitOn, Waits
  <2>4. ~Waits(c, "upload") /\ ~Waits(c, "cleaning")
    BY <1>t, <1>1 DEF ClientUpload, Waits
  <2> QED
    BY <1>t, <2>2, <2>3, <2>4, AwaitedBegun
<1>2. CASE ClientHasId(c)
  <2>1. WaitOn(c)
    BY <1>t, <1>2 DEF ClientHasId, WaitOn
  <2> QED
    BY <1>2, <2>1, AwaitedTaken DEF ClientHasId
<1>3. CASE ClientGone(c)
  <2>1. WaitOn(c)
    BY <1>t, <1>3 DEF ClientGone, WaitOn
  <2>2. CASE ~(writer.op = "upload" /\ writer.who = c)
    BY <1>3, <2>1, <2>2, AwaitedTaken DEF ClientGone
  <2>3. CASE writer.op = "upload" /\ writer.who = c
    <3>1. PICK sent \in BOOLEAN :
              writer' = [writer EXCEPT !.who = Nobody, !.sound = @ /\ sent]
      BY <1>3, <2>3 DEF ClientGone
    <3>2. answer' = answer
      BY <1>3, <2>3 DEF ClientGone
    <3>3. writer \in [op: {"upload"}, at: {"body", "commit"}, who: Callers \cup {Nobody},
                      id: Ids, content: Stored, sound: BOOLEAN, day: Nat]
      BY <1>t, <2>3, WriterRecords DEF StoreTypeOK
    <3>4. writer'.op = "upload" /\ writer'.who = Nobody
      BY <3>1, <3>3
    <3>5. c \notin DOMAIN answer
      BY <1>t, <2>3, TransferAssumption DEF Awaited
    <3> QED
      BY <1>t, <2>1, <3>2, <3>4, <3>5 DEF Awaited, WaitOn, Waits
  <2> QED
    BY <2>2, <2>3
<1>4. ASSUME NEW name \in Names, ClientAttach(c, name)
      PROVE  Awaited'
  <2>1. WaitOn(c) /\ ~Waits(c, "upload") /\ ~Waits(c, "cleaning")
    BY <1>t, <1>4 DEF ClientAttach, WaitOn, Waits
  <2> QED
    BY <1>t, <1>4, <2>1, AwaitedKept DEF ClientAttach, CreateItem
<1>5. ASSUME NEW name \in Names, ClientDelete(c, name)
      PROVE  Awaited'
  <2>1. WaitOn(c)
    BY <1>5, TaskRecords DEF ClientDelete, WaitOn, Tasks
  <2>2. ~Waits(c, "upload") /\ ~Waits(c, "cleaning")
    BY <1>t, <1>5 DEF ClientDelete, Waits
  <2> QED
    BY <1>t, <1>5, <2>1, <2>2, AwaitedKept DEF ClientDelete, DeleteItem
<1>6. ASSUME NEW name \in Names, OpenStream(c) \/ BeginStream(c, name)
      PROVE  Awaited'
  BY <1>t, <1>6 DEF OpenStream, BeginStream, storeVars, Awaited, Waits
<1>7. CASE OpenStream(c)
  BY <1>t, <1>7 DEF OpenStream, storeVars, Awaited, Waits
<1> QED
  BY <1>1, <1>2, <1>3, <1>4, <1>5, <1>6, <1>7 DEF ClientStep

(***************************************************************************)
(* A job's step leaves every caller of the writer waiting for it.           *)
(***************************************************************************)
LEMMA JobStepAwaited ==
    ASSUME TypeOK, NEW j \in Jobs, JobStep(j)
    PROVE  Awaited'
<1>t. StoreTypeOK /\ Awaited /\ j \in Callers /\ j \notin Clients
  BY TransferAssumption DEF TypeOK, Callers
<1>f. /\ j \in DOMAIN task /\ task[j] \in Tasks
      /\ DOMAIN task' = DOMAIN task
      /\ \A k \in DOMAIN task \ {j} : task'[k] = task[k]
      /\ client' = client
  BY JobStepTask, TaskRecords
<1>w. WaitOn(j)
  BY <1>f DEF WaitOn
<1>e. task = [k \in DOMAIN task |-> task[k]]
  BY DEF TypeOK, Partial
<1>1. CASE ParseFile(j)
  <2>1. \E content, sound : BeginUpload(j, NewId, content, sound)
    BY <1>1 DEF ParseFile
  <2>2. writer'.op = "upload" /\ writer'.who = j /\ writer = Idle /\ answer' = answer
    BY <2>1 DEF BeginUpload
  <2>3. task'[j].at = "upload"
    BY ZenonT(90), <1>e, <1>f, <1>1 DEF ParseFile, GoTo, Tasks
  <2>4. ~Waits(j, "upload") /\ ~Waits(j, "cleaning") /\ Waits(j, "upload")'
    BY <1>t, <1>f, <1>1, <2>3 DEF ParseFile, At, Waits
  <2> QED
    BY <1>t, <1>w, <2>2, <2>4, AwaitedBegun
<1>2. CASE ParsedFile(j) \/ CleanedFile(j)
  BY <1>w, <1>2, AwaitedTaken DEF ParsedFile, CleanedFile
<1>3. CASE CleanNewFile(j)
  <2>1. PICK id \in task[j].mine :
            /\ BeginDelete(j, id)
            /\ task' = [task EXCEPT ![j].at = "cleaning", ![j].mine = @ \ {id}]
    BY <1>3 DEF CleanNewFile
  <2>2. task'[j].at = "cleaning"
    BY <1>e, <1>f, <2>1 DEF Tasks
  <2>3. ~Waits(j, "upload") /\ ~Waits(j, "cleaning") /\ Waits(j, "cleaning")' /\ writer = Idle
    BY <1>t, <1>f, <1>3, <2>1, <2>2 DEF CleanNewFile, BeginDelete, At, Waits
  <2>4. CASE ~IsAttached(id)
    <3>1. writer'.op = "delete" /\ writer'.who = j /\ answer' = answer
      BY <2>1, <2>4 DEF BeginDelete
    <3> QED
      BY <1>t, <1>w, <2>3, <3>1, AwaitedBegun
  <2>5. CASE IsAttached(id)
    <3>1. Answer(j, Status("ok"))
      BY <2>1, <2>5 DEF BeginDelete
    <3>2. /\ writer' = Idle
          /\ DOMAIN answer' \subseteq DOMAIN answer \cup {j}
          /\ \A v \in DOMAIN answer' : answer'[v] = IF v = j THEN Status("ok") ELSE answer[v]
      BY <1>t, <3>1, AnswerType, AnswerValues
    <3>3. \A v \in DOMAIN answer' :
              \/ Waits(v, "upload")' /\ answer'[v] \in Uploaded
              \/ v \in Jobs /\ Waits(v, "cleaning")' /\ answer'[v] \in Deleted
      <4> TAKE v \in DOMAIN answer'
      <4>1. CASE v = j
        BY <2>3, <3>2, <4>1, AnswerValues
      <4>2. CASE v # j
        <5>1. \/ Waits(v, "upload") /\ answer'[v] \in Uploaded
              \/ v \in Jobs /\ Waits(v, "cleaning") /\ answer'[v] \in Deleted
          BY <1>t, <3>2, <4>2 DEF Awaited
        <5> QED
          BY <1>w, <4>2, <5>1 DEF WaitOn, Waits
      <4> QED
        BY <4>1, <4>2
    <3> QED
      BY <3>2, <3>3 DEF Awaited, Idle
  <2> QED
    BY <2>4, <2>5
<1>4. CASE \/ RunJob(j) \/ ParseEnd(j) \/ ImportItem(j) \/ CleanEnd(j) \/ ExportSnapshot(j)
           \/ ExportFile(j) \/ PersistExport(j) \/ MarkJob(j) \/ RemarkJob(j)
  <2>1. ~Waits(j, "upload") /\ ~Waits(j, "cleaning")
    BY <1>t, <1>4 DEF RunJob, ParseEnd, ImportItem, CleanEnd, ExportSnapshot, ExportFile,
       PersistExport, MarkJob, RemarkJob, At, Waits
  <2>2. writer' = writer /\ answer' = answer
    BY <1>4 DEF RunJob, ParseEnd, ImportItem, CreateItem, CleanEnd, ExportSnapshot, ExportFile,
       PersistExport, MarkJob, RemarkJob, storeVars
  <2> QED
    BY <1>t, <1>w, <2>1, <2>2, AwaitedKept
<1> QED
  BY <1>1, <1>2, <1>3, <1>4 DEF JobStep

(***************************************************************************)
(* Every variable keeps its type, whatever is done.                        *)
(***************************************************************************)
LEMMA InitType == Init => TypeOK
<1> SUFFICES ASSUME Init
             PROVE  TypeOK
  OBVIOUS
<1>1. /\ Partial(rows, Ids, [content: Stored, day: Nat])
      /\ Partial(blobs, Ids, Stored) /\ Partial(items, Names, SUBSET Ids)
      /\ Partial(answer, Callers, Uploaded \cup Deleted)
      /\ Partial(jobs, Jobs, JobRows) /\ Partial(task, DOMAIN jobs, Tasks)
      /\ Partial(output, Jobs, SUBSET Stored)
  BY DEF Init, InitStore, Partial
<1>2. StoreTypeOK
  BY <1>1 DEF Init, InitStore, StoreTypeOK, WriterStates, Idle
<1>3. client \in [Clients -> ClientStates] /\ stream \in [Clients -> Streams]
  BY DEF Init, Free, NoStream, ClientStates, Streams
<1>4. Awaited
  BY DEF Init, InitStore, Idle, Awaited
<1> QED
  BY <1>1, <1>2, <1>3, <1>4, ZenonT(60) DEF TypeOK, Init

(***************************************************************************)
(* A cleanup is due or not.                                                *)
(***************************************************************************)
LEMMA DueStep == due \in BOOLEAN /\ [Next]_vars => due' \in BOOLEAN
<1> SUFFICES ASSUME due \in BOOLEAN, [Next]_vars
             PROVE  due' \in BOOLEAN
  OBVIOUS
<1>1. due' = due \/ due' = TRUE \/ due' = FALSE
  BY ZenonT(90) DEF Next, ClientStep, Submit, HandlerStep, Forsaken, JobStep, Writer, DecideCleanup,
     Cleanup, Time, Crash, vars, ClientUpload, ClientHasId, ClientGone, OpenStream, ClientAttach,
     ClientDelete, BeginStream, SubmitImport, SubmitExport, CreateJob, SpawnJob, RefuseJob,
     SubmitterGone, LateJobRow, InsertJob, RunJob, ParseFile, ParsedFile, ParseEnd, ImportItem,
     CleanNewFile, CleanedFile, CleanEnd, ExportSnapshot, ExportFile, PersistExport, MarkJob,
     RemarkJob
<1> QED
  BY <1>1

(***************************************************************************)
(* The type invariant is inductive.                                         *)
(***************************************************************************)
LEMMA StepType == TypeOK /\ [Next]_vars => TypeOK'
<1> SUFFICES ASSUME TypeOK, [Next]_vars
             PROVE  TypeOK'
  OBVIOUS
<1>t. OthersTypeOK /\ Awaited
  BY DEF TypeOK, OthersTypeOK
<1>s. StoreTypeOK'
  BY StepStore
<1>d. due' \in BOOLEAN
  BY DueStep DEF TypeOK
<1> SUFFICES OthersTypeOK' /\ Awaited'
  BY <1>s, <1>d, ZenonT(60) DEF TypeOK, OthersTypeOK
<1>1. ASSUME NEW j \in Jobs, Submit(j)
      PROVE  OthersTypeOK' /\ Awaited'
  <2>1. Submitted(j) /\ OthersTypeOK'
    BY <1>1, SubmitTask
  <2>2. WaitOn(j) /\ ~Waits(j, "upload") /\ ~Waits(j, "cleaning")
    BY <2>1, TransferAssumption DEF Submitted, WaitOn, Waits
  <2>3. answer' = answer /\ writer' = writer
    BY <2>1 DEF Submitted, storeVars
  <2> QED
    BY <1>t, <2>1, <2>2, <2>3, AwaitedKept
<1>2. CASE Time
  BY <1>t, <1>2 DEF Time, NextDay, OthersTypeOK, Awaited, Waits
<1>7. ASSUME NEW j \in Jobs, HandlerStep(j) \/ Forsaken(j)
      PROVE  OthersTypeOK' /\ Awaited'
  <2>1. Handled(j) /\ OthersTypeOK'
    BY <1>7, HandlerTask
  <2>2. WaitOn(j) /\ ~Waits(j, "upload") /\ ~Waits(j, "cleaning")
    BY <2>1, TransferAssumption DEF Handled, WaitOn, Waits, Unspawned
  <2>3. answer' = answer /\ writer' = writer
    BY <2>1 DEF Handled
  <2> QED
    BY <1>t, <2>1, <2>2, <2>3, AwaitedKept
<1>3. CASE DecideCleanup \/ UNCHANGED vars
  BY <1>t, <1>3 DEF DecideCleanup, vars, storeVars, OthersTypeOK, Awaited, Waits
<1>4. CASE Writer
  BY <1>t, <1>4, WriterAwaited DEF Writer, OthersTypeOK
<1>5. CASE Cleanup
  BY <1>t, <1>5 DEF Cleanup, BeginCleanup, OthersTypeOK, Awaited, Waits
<1>6. CASE Crash
  <2>1. client' \in [Clients -> ClientStates] /\ stream' \in [Clients -> Streams]
    BY <1>t, <1>6, ClientRecords DEF Crash, Free, NoStream, OthersTypeOK, ClientStates, Streams
  <2>2. Partial(task', DOMAIN jobs', Tasks)
    BY <1>t, <1>6 DEF Crash, Partial
  <2>3. UNCHANGED <<jobs, spool, output>> /\ writer' = Idle /\ DOMAIN answer' = {}
    BY <1>6 DEF Crash, CrashStore
  <2> QED
    BY <1>t, <2>1, <2>2, <2>3 DEF OthersTypeOK, Awaited, Idle
<1> QED
  BY <1>1, <1>2, <1>3, <1>4, <1>5, <1>6, <1>7, ClientStepType, ClientStepAwaited, JobStepType,
     JobStepAwaited DEF Next

(***************************************************************************)
(* The file store and what uses it keep their types, and an answer waits   *)
(* for a caller that waits for just such an answer.                        *)
(***************************************************************************)
THEOREM StoreTypeCorrect == Spec => []TypeOK
BY InitType, StepType, PTL DEF Spec

-----------------------------------------------------------------------------
(* What is attached can be read *)

(***************************************************************************)
(* A crash, or a row that could not be deleted, is never taken back.       *)
(***************************************************************************)
LEMMA HarmStays ==
    ASSUME TypeOK, [Next]_vars
    PROVE  (Intact' => Intact) /\ (Unharmed' => Unharmed)
<1>t. StoreTypeOK
  BY DEF TypeOK
<1>1. harm' = harm \/ \E kind \in {"disk", "crash", "delete"} : Harm(kind)
  BY ZenonT(90) DEF Next, ClientStep, Submit, HandlerStep, Forsaken, JobStep, Writer, WriterStep,
     DecideCleanup, Cleanup, Time, Crash,
     vars, storeVars, RefuseBody, BodyWriteFails, Deduplicate, RenameBlob, CommitRow, UnlinkDeleted,
         DeleteDeletedRow, UnlinkOrphan, DeleteOrphanRow, EndCleanup, BeginUpload, BeginDelete,
         BeginCleanup, CreateItem, DeleteItem, NextDay, CrashStore,
         ClientUpload, ClientHasId, ClientGone, OpenStream, ClientAttach, ClientDelete, BeginStream,
         SubmitImport, SubmitExport, CreateJob, SpawnJob, RefuseJob, SubmitterGone, LateJobRow,
         InsertJob, RunJob, ParseFile, ParsedFile, ParseEnd, ImportItem,
         CleanNewFile, CleanedFile, CleanEnd, ExportSnapshot, ExportFile, PersistExport, MarkJob,
         RemarkJob
<1> QED
  BY SMTT(60), <1>t, <1>1, HarmType DEF Intact, Unharmed, Harmed

(***************************************************************************)
(* Every row has its blob but the one on its way out, until a crash or a   *)
(* failed deletion leaves one behind.                                      *)
(***************************************************************************)
THEOREM RowsInvariant == Spec => []ReadableInv
<1>1. Init => ReadableInv
  <2> SUFFICES ASSUME Init
               PROVE  ReadableInv
    OBVIOUS
  <2>1. RowsReadable
    BY DEF Init, InitStore, Idle, RowsReadable, Uploading
  <2> QED
    BY <2>1, InitType DEF ReadableInv
<1>2. ReadableInv /\ [Next]_vars => ReadableInv'
  BY StepType, StepStore, HarmStays DEF ReadableInv, KeepsBoth
<1> QED
  BY <1>1, <1>2, PTL DEF Spec

(***************************************************************************)
(* A file attached to an item can be read back with the content of its     *)
(* row: no upload, failing import, deletion or cleanup in progress, and no *)
(* error in the disk, takes the blob from under it (state.rs:3516-3672,    *)
(* 4295-4338).                                                             *)
(***************************************************************************)
THEOREM FilesReadable == Spec => []AttachedReadable
<1>1. ReadableInv => AttachedReadable
  BY DEF ReadableInv, Intact, RowsReadable, Going, IsAttached, AttachedReadable
<1> QED
  BY <1>1, RowsInvariant, PTL

-----------------------------------------------------------------------------
(* Who created what *)

(***************************************************************************)
(* Jobs of the two kinds go through different states.                      *)
(***************************************************************************)
LEMMA JobStepKinds ==
    ASSUME TypeOK, KindsApart, NEW j \in Jobs, JobStep(j)
    PROVE  KindsApart'
<1>f. /\ j \in DOMAIN task /\ task[j] \in Tasks
      /\ DOMAIN task' = DOMAIN task
      /\ \A k \in DOMAIN task \ {j} : task'[k] = task[k]
      /\ task = [k \in DOMAIN task |-> task[k]]
  BY JobStepTask, TaskRecords DEF TypeOK, Partial
<1> DEFINE Kept(t) ==
        /\ t.at \in {"parse", "upload", "create", "clean", "cleaning"} => t.kind = "import"
        /\ t.at \in {"snapshot", "stream"} => t.kind = "export"
        /\ t.kind = "export" => t.made = {}
        /\ t.mine \subseteq t.made
        /\ t.at \in {"queued", "parse", "upload", "create", "snapshot", "stream"} => ~t.failed
        /\ t.at \in {"creating", "created", "refused", "leaving"} => t.made = {} /\ ~t.failed
<1>k. Kept(task[j])
  BY <1>f DEF KindsApart, Unspawned
<1> SUFFICES Kept(task'[j])
  BY <1>f DEF KindsApart, Unspawned
<1>1. CASE RunJob(j)
  BY <1>f, <1>k, <1>1 DEF RunJob, At, GoTo, FailTo, Tasks
<1>2. CASE ParseFile(j)
  <2>1. CASE task' = [task EXCEPT ![j].at = "upload", ![j].left = Tail(@)]
    <3>1. /\ task'[j].at = "upload" /\ task'[j].kind = task[j].kind
          /\ task'[j].mine = task[j].mine /\ task'[j].made = task[j].made
          /\ task'[j].failed = task[j].failed
      BY <1>f, <2>1 DEF Tasks
    <3> QED
      BY <1>k, <1>2, <3>1 DEF ParseFile, At
  <2>2. CASE GoTo(j, "upload")
    BY <1>f, <1>k, <1>2, <2>2 DEF ParseFile, At, GoTo, Tasks
  <2> QED
    BY <1>2, <2>1, <2>2 DEF ParseFile
<1>3. CASE ParsedFile(j)
  BY <1>f, <1>k, <1>3 DEF ParsedFile, At, FailTo, Tasks
<1>4. CASE ParseEnd(j)
  BY <1>f, <1>k, <1>4 DEF ParseEnd, At, GoTo, FailTo, Tasks
<1>5. CASE ImportItem(j)
  BY <1>f, <1>k, <1>5 DEF ImportItem, At, GoTo, FailTo, Tasks
<1>6. CASE CleanNewFile(j)
  BY SMTT(60), <1>f, <1>k, <1>6 DEF CleanNewFile, At, Tasks
<1>7. CASE CleanedFile(j) \/ CleanEnd(j)
  BY <1>f, <1>k, <1>7 DEF CleanedFile, CleanEnd, At, GoTo, Tasks
<1>8. CASE ExportSnapshot(j)
  BY <1>f, <1>k, <1>8 DEF ExportSnapshot, At, Tasks
<1>9. CASE ExportFile(j)
  BY <1>f, <1>k, <1>9 DEF ExportFile, At, FailTo, Tasks
<1>10. CASE PersistExport(j)
  BY <1>f, <1>k, <1>10 DEF PersistExport, At, GoTo, FailTo, Tasks
<1>11. CASE MarkJob(j) \/ RemarkJob(j)
  BY <1>f, <1>k, <1>11 DEF MarkJob, RemarkJob, EndJob, At, GoTo, Tasks
<1> QED
  BY <1>1, <1>2, <1>3, <1>4, <1>5, <1>6, <1>7, <1>8, <1>9, <1>10, <1>11 DEF JobStep

(***************************************************************************)
(* A step of a client changes of the tasks no more than whether what they  *)
(* export is whole.                                                        *)
(***************************************************************************)
TasksSame ==
    /\ DOMAIN task' = DOMAIN task /\ jobs' = jobs
    /\ \A k \in DOMAIN task :
           /\ task'[k].at = task[k].at /\ task'[k].kind = task[k].kind
           /\ task'[k].mine = task[k].mine /\ task'[k].made = task[k].made
           /\ task'[k].ids = task[k].ids /\ task'[k].failed = task[k].failed

(***************************************************************************)
(* A client's step changes no job and no other client.                      *)
(***************************************************************************)
LEMMA ClientStepTask ==
    ASSUME TypeOK, NEW c \in Clients, ClientStep(c)
    PROVE  TasksSame /\ \A d \in Clients \ {c} : client'[d] = client[d]
<1>c. client \in [Clients -> ClientStates]
  BY DEF TypeOK
<1>1. ASSUME NEW name \in Names, ClientDelete(c, name)
      PROVE  TasksSame /\ client' = client
  BY <1>1, TaskRecords DEF ClientDelete, TasksSame, Tasks
<1>2. CASE ClientUpload(c) \/ ClientHasId(c) \/ ClientGone(c) \/ OpenStream(c)
           \/ \E name \in Names : ClientAttach(c, name) \/ BeginStream(c, name)
  BY <1>c, <1>2 DEF ClientUpload, ClientHasId, ClientGone, OpenStream, ClientAttach, BeginStream,
                    TasksSame
<1> QED
  BY <1>1, <1>2 DEF ClientStep

(***************************************************************************)
(* No caller comes to have created a file it had not created.              *)
(***************************************************************************)
NoNewMakers == \A w \in Callers, id \in Ids : HasMade(w, id)' => HasMade(w, id)

(***************************************************************************)
(* The writer's command is the one it had, as far as its file goes.        *)
(***************************************************************************)
SameCommand ==
    /\ writer'.op = "upload" => writer.op = "upload" /\ writer'.id = writer.id
    /\ writer'.op = "delete" =>
           /\ writer.op = "delete" /\ writer'.id = writer.id /\ writer'.who = writer.who
           /\ task[writer.who].made \subseteq task'[writer.who].made

(***************************************************************************)
(* Nobody new claims to have made a file, so no file gets a second maker.   *)
(***************************************************************************)
LEMMA MakersKept ==
    ASSUME TypeOK, OneMaker, NoNewMakers, SameCommand
    PROVE  OneMaker'
<1>1. writer.op = "upload" => writer.id \in Ids
  BY WriterRecords DEF TypeOK, StoreTypeOK
<1> QED
  BY <1>1 DEF OneMaker, NoNewMakers, SameCommand

(***************************************************************************)
(* Whoever has created a file holds its id.                                *)
(***************************************************************************)
LEMMA MadeIsHeld ==
    ASSUME TypeOK, NEW w \in Callers, NEW id, HasMade(w, id)
    PROVE  id \in HeldIds
<1>1. CASE w \in DOMAIN answer /\ answer[w] = File(id, TRUE)
  <2>1. answer[w].status = "ok" /\ "id" \in DOMAIN answer[w] /\ answer[w].id = id
    BY <1>1 DEF File
  <2> QED
    BY <1>1, <2>1 DEF HeldIds
<1>2. CASE w \in Clients /\ client[w].at = "holds" /\ client[w].new /\ client[w].id = id
  BY <1>2 DEF HeldIds
<1>3. CASE w \in DOMAIN task /\ id \in task[w].made
  BY <1>3 DEF HeldIds
<1> QED
  BY <1>1, <1>2, <1>3 DEF HasMade

(***************************************************************************)
(* An upload begins under an id nobody holds, and nobody gains one.        *)
(***************************************************************************)
LEMMA MakersBegun ==
    ASSUME TypeOK, OneMaker, NoNewMakers, NEW id \in Ids, id \notin HeldIds,
           writer'.op = "upload", writer'.id = id
    PROVE  OneMaker'
<1>1. \A w \in Callers : ~HasMade(w, id)
  BY MadeIsHeld
<1> QED
  BY <1>1 DEF OneMaker, NoNewMakers

(***************************************************************************)
(* An answer is a new file's, or it is not.                                *)
(***************************************************************************)
LEMMA AnswerIsFile ==
    ASSUME NEW a \in Uploaded, a.status = "ok", a.new
    PROVE  a = File(a.id, TRUE)
BY DEF Uploaded, File

(***************************************************************************)
(* A client's step gives no file a second maker.                            *)
(***************************************************************************)
LEMMA ClientStepMakers ==
    ASSUME TypeOK, OneMaker, NEW c \in Clients, ClientStep(c)
    PROVE  OneMaker'
<1>c. client \in [Clients -> ClientStates] /\ Awaited /\ StoreTypeOK /\ c \notin Jobs
  BY TransferAssumption DEF TypeOK
<1>k. TasksSame /\ \A d \in Clients \ {c} : client'[d] = client[d]
  BY ClientStepTask
<1>1. CASE ClientUpload(c)
  <2>1. PICK content \in Contents, sound \in BOOLEAN : BeginUpload(c, NewId, content, sound)
    BY <1>1 DEF ClientUpload
  <2>2. writer'.op = "upload" /\ writer'.id = NewId /\ answer' = answer
    BY <2>1 DEF BeginUpload
  <2>3. NewId \in Ids /\ NewId \notin HeldIds
    BY <1>1, NewIdFresh DEF ClientUpload
  <2>4. client'[c].at = "upload"
    BY <1>c, <1>1 DEF ClientUpload
  <2>5. NoNewMakers
    BY <1>k, <2>2, <2>4 DEF NoNewMakers, HasMade, TasksSame
  <2> QED
    BY <2>2, <2>3, <2>5, MakersBegun
<1>2. CASE ClientHasId(c)
  <2>1. c \in DOMAIN answer /\ answer[c] \in Uploaded
    <3>1. c \in DOMAIN answer
      BY <1>2 DEF ClientHasId, TakeAnswer
    <3> QED
      BY <1>c, <3>1 DEF Awaited
  <2>2. /\ DOMAIN answer' = DOMAIN answer \ {c}
        /\ \A w \in DOMAIN answer' : answer'[w] = answer[w]
    BY <1>c, <1>2, TakeAnswerType DEF ClientHasId
  <2>3. client'[c].at = "holds" /\ client'[c].new =>
            answer[c].status = "ok" /\ answer[c].new /\ client'[c].id = answer[c].id
    BY <1>c, <1>2 DEF ClientHasId, Free
  <2>4. \A id : client'[c].at = "holds" /\ client'[c].new /\ client'[c].id = id =>
                    answer[c] = File(id, TRUE)
    BY <2>1, <2>3, AnswerIsFile
  <2>5. NoNewMakers
    BY ZenonT(90), <1>k, <2>1, <2>2, <2>4 DEF NoNewMakers, HasMade, TasksSame
  <2>6. SameCommand
    BY <1>k, <1>2 DEF ClientHasId, SameCommand
  <2> QED
    BY <2>5, <2>6, MakersKept
<1>3. CASE ClientGone(c)
  <2>1. client'[c].at = "free"
    BY <1>c, <1>3 DEF ClientGone, Free
  <2>2. CASE writer.op = "upload" /\ writer.who = c
    <3>1. PICK sent \in BOOLEAN :
              writer' = [writer EXCEPT !.who = Nobody, !.sound = @ /\ sent]
      BY <1>3, <2>2 DEF ClientGone
    <3>2. writer \in [op: {"upload"}, at: {"body", "commit"}, who: Callers \cup {Nobody},
                      id: Ids, content: Stored, sound: BOOLEAN, day: Nat]
      BY <1>c, <2>2, WriterRecords DEF StoreTypeOK
    <3>3. writer'.op = "upload" /\ writer'.id = writer.id
      BY <3>1, <3>2
    <3>4. answer' = answer
      BY <1>3, <2>2 DEF ClientGone
    <3>5. NoNewMakers
      BY <1>k, <2>1, <3>4 DEF NoNewMakers, HasMade, TasksSame
    <3>6. SameCommand
      BY <2>2, <3>3 DEF SameCommand
    <3> QED
      BY <3>5, <3>6, MakersKept
  <2>3. CASE ~(writer.op = "upload" /\ writer.who = c)
    <3>1. TakeAnswer(c) /\ writer' = writer
      BY <1>3, <2>3 DEF ClientGone
    <3>2. /\ DOMAIN answer' = DOMAIN answer \ {c}
          /\ \A w \in DOMAIN answer' : answer'[w] = answer[w]
      BY <1>c, <3>1, TakeAnswerType
    <3>3. NoNewMakers
      BY <1>k, <2>1, <3>2 DEF NoNewMakers, HasMade, TasksSame
    <3>4. SameCommand
      <4>1. writer.op = "delete" => writer.who \in DOMAIN task
        BY <1>c, TransferAssumption DEF Awaited, Waits
      <4> QED
        BY <1>k, <3>1, <4>1 DEF SameCommand, TasksSame
    <3> QED
      BY <3>3, <3>4, MakersKept
  <2> QED
    BY <2>2, <2>3
<1>4. ASSUME NEW name \in Names,
             OpenStream(c) \/ ClientAttach(c, name) \/ ClientDelete(c, name)
                 \/ BeginStream(c, name)
      PROVE  OneMaker'
  <2>1. /\ client'[c] = client[c] \/ client'[c].at = "free"
        /\ answer' = answer /\ writer' = writer
    BY <1>c, <1>4 DEF OpenStream, ClientAttach, ClientDelete, BeginStream, storeVars, CreateItem,
                      DeleteItem, Free
  <2>2. NoNewMakers
    BY <1>k, <2>1 DEF NoNewMakers, HasMade, TasksSame
  <2>3. SameCommand
    <3>1. writer.op = "delete" => writer.who \in DOMAIN task
      BY <1>c, TransferAssumption DEF Awaited, Waits
    <3> QED
      BY <1>k, <2>1, <3>1 DEF SameCommand, TasksSame
  <2> QED
    BY <2>2, <2>3, MakersKept
<1>5. CASE OpenStream(c)
  <2>1. client' = client /\ task' = task /\ answer' = answer /\ writer' = writer
    BY <1>5 DEF OpenStream, storeVars
  <2> QED
    BY <2>1, MakersKept DEF NoNewMakers, SameCommand, HasMade
<1> QED
  BY <1>1, <1>2, <1>3, <1>4, <1>5 DEF ClientStep

(***************************************************************************)
(* A job's step gives no file a second maker.                               *)
(***************************************************************************)
LEMMA JobStepMakers ==
    ASSUME TypeOK, KindsApart, OneMaker, NEW j \in Jobs, JobStep(j)
    PROVE  OneMaker'
<1>f. /\ j \in DOMAIN task /\ task[j] \in Tasks
      /\ DOMAIN task' = DOMAIN task
      /\ \A k \in DOMAIN task \ {j} : task'[k] = task[k]
      /\ task = [k \in DOMAIN task |-> task[k]]
      /\ client' = client
      /\ Awaited /\ StoreTypeOK /\ j \notin Clients
  BY JobStepTask, TaskRecords, TransferAssumption DEF TypeOK, Partial
<1>1. CASE ParseFile(j)
  <2>1. \E content, sound : BeginUpload(j, NewId, content, sound)
    BY <1>1 DEF ParseFile
  <2>2. writer'.op = "upload" /\ writer'.id = NewId /\ answer' = answer
    BY <2>1 DEF BeginUpload
  <2>3. NewId \in Ids /\ NewId \notin HeldIds
    BY <1>1, NewIdFresh DEF ParseFile
  <2>4. task'[j].made = task[j].made
    BY ZenonT(90), <1>f, <1>1 DEF ParseFile, GoTo, Tasks
  <2>5. NoNewMakers
    BY <1>f, <2>2, <2>4 DEF NoNewMakers, HasMade
  <2> QED
    BY <2>2, <2>3, <2>5, MakersBegun
<1>2. CASE ParsedFile(j)
  <2>1. j \in DOMAIN answer /\ answer[j] \in Uploaded
    <3>1. j \in DOMAIN answer /\ task[j].at = "upload"
      BY <1>2 DEF ParsedFile, TakeAnswer, At
    <3> QED
      BY <1>f, <3>1 DEF Awaited, Waits
  <2>2. /\ DOMAIN answer' = DOMAIN answer \ {j}
        /\ \A w \in DOMAIN answer' : answer'[w] = answer[w]
    BY <1>f, <1>2, TakeAnswerType DEF ParsedFile
  <2>3. /\ task[j].made \subseteq task'[j].made
        /\ \A id \in task'[j].made \ task[j].made :
               answer[j].status = "ok" /\ answer[j].new /\ id = answer[j].id
    BY <1>f, <1>2 DEF ParsedFile, FailTo, Tasks
  <2>4. \A id \in task'[j].made \ task[j].made : answer[j] = File(id, TRUE)
    BY <2>1, <2>3, AnswerIsFile
  <2>5. NoNewMakers
    BY <1>f, <2>1, <2>2, <2>4 DEF NoNewMakers, HasMade
  <2>6. SameCommand
    BY <1>f, <1>2, <2>3 DEF ParsedFile, SameCommand, Awaited, Waits
  <2> QED
    BY <2>5, <2>6, MakersKept
<1>3. CASE CleanNewFile(j)
  <2>1. PICK id \in task[j].mine :
            /\ BeginDelete(j, id)
            /\ task' = [task EXCEPT ![j].at = "cleaning", ![j].mine = @ \ {id}]
    BY <1>3 DEF CleanNewFile
  <2>2. task'[j].made = task[j].made /\ id \in task[j].made
    BY <1>f, <2>1 DEF KindsApart, Tasks
  <2>3. CASE IsAttached(id)
    <3>1. Answer(j, Status("ok"))
      BY <2>1, <2>3 DEF BeginDelete
    <3>2. /\ writer' = Idle
          /\ DOMAIN answer' \subseteq DOMAIN answer \cup {j}
          /\ \A v \in DOMAIN answer' : answer'[v] = IF v = j THEN Status("ok") ELSE answer[v]
      BY <1>f, <3>1, AnswerType, AnswerValues DEF Callers
    <3>3. \A i : Status("ok") # File(i, TRUE)
      BY DEF Status, File
    <3>4. NoNewMakers
      BY <1>f, <2>2, <3>2, <3>3 DEF NoNewMakers, HasMade
    <3> QED
      BY <3>2, <3>4, MakersKept DEF SameCommand, Idle
  <2>4. CASE ~IsAttached(id)
    <3>1. writer'.op = "delete" /\ writer'.id = id /\ writer'.who = j /\ answer' = answer
      BY <2>1, <2>4 DEF BeginDelete
    <3>2. NoNewMakers
      BY <1>f, <2>2, <3>1 DEF NoNewMakers, HasMade
    <3> QED
      BY <2>2, <3>1, <3>2 DEF OneMaker, NoNewMakers
  <2> QED
    BY <2>3, <2>4
<1>4. CASE CleanedFile(j)
  <2>1. /\ DOMAIN answer' = DOMAIN answer \ {j}
        /\ \A w \in DOMAIN answer' : answer'[w] = answer[w]
    BY <1>f, <1>4, TakeAnswerType DEF CleanedFile
  <2>2. task'[j].made = task[j].made /\ writer' = writer
    BY <1>f, <1>4 DEF CleanedFile, GoTo, Tasks
  <2>3. NoNewMakers
    BY <1>f, <2>1, <2>2 DEF NoNewMakers, HasMade
  <2>4. SameCommand
    BY <1>f, <2>2 DEF SameCommand, Awaited, Waits
  <2> QED
    BY <2>3, <2>4, MakersKept
<1>5. CASE \/ RunJob(j) \/ ParseEnd(j) \/ ImportItem(j) \/ CleanEnd(j) \/ ExportSnapshot(j)
           \/ ExportFile(j) \/ PersistExport(j) \/ MarkJob(j) \/ RemarkJob(j)
  <2>1. writer' = writer /\ answer' = answer
    BY <1>5 DEF RunJob, ParseEnd, ImportItem, CreateItem, CleanEnd, ExportSnapshot, ExportFile,
       PersistExport, MarkJob, RemarkJob, storeVars
  <2>2. task'[j].made = task[j].made
    <3>1. ASSUME NEW at, GoTo(j, at) \/ FailTo(j, at)
          PROVE  task'[j].made = task[j].made
      BY <1>f, <3>1 DEF GoTo, FailTo, Tasks
    <3>2. CASE ExportFile(j)
      BY <1>f, <3>1, <3>2 DEF ExportFile, Tasks
    <3>3. CASE ExportSnapshot(j)
      BY <1>f, <3>3 DEF ExportSnapshot, Tasks
    <3>4. CASE \/ RunJob(j) \/ ParseEnd(j) \/ ImportItem(j) \/ CleanEnd(j) \/ PersistExport(j)
               \/ MarkJob(j) \/ RemarkJob(j)
      BY <3>1, <3>4 DEF RunJob, ParseEnd, ImportItem, CleanEnd, PersistExport, MarkJob, RemarkJob,
                        EndJob
    <3> QED
      BY <1>5, <3>2, <3>3, <3>4
  <2>3. NoNewMakers
    BY <1>f, <2>1, <2>2 DEF NoNewMakers, HasMade
  <2>4. SameCommand
    BY <1>f, <2>1, <2>2 DEF SameCommand, Awaited, Waits
  <2> QED
    BY <2>3, <2>4, MakersKept
<1> QED
  BY <1>1, <1>2, <1>3, <1>4, <1>5 DEF JobStep

(***************************************************************************)
(* A step of the writer gives no file a second maker: ids are fresh, and    *)
(* only an answer hands one out.                                            *)
(***************************************************************************)
LEMMA WriterMakers ==
    ASSUME TypeOK, OneMaker, Writer
    PROVE  OneMaker'
<1>t. StoreTypeOK /\ WriterStep /\ client' = client /\ task' = task
  BY DEF TypeOK, Writer
<1>1. ASSUME NEW a \in Uploaded \cup Deleted, NEW who \in Callers \cup {Nobody}, Answer(who, a),
             \A id : a # File(id, TRUE)
      PROVE  OneMaker'
  <2>1. /\ writer' = Idle
        /\ DOMAIN answer' \subseteq DOMAIN answer \cup ({who} \ {Nobody})
        /\ \A w \in DOMAIN answer' : answer'[w] = IF w = who THEN a ELSE answer[w]
    BY <1>t, <1>1, AnswerType
  <2>2. NoNewMakers
    BY <1>t, <1>1, <2>1 DEF NoNewMakers, HasMade
  <2> QED
    BY <2>1, <2>2, MakersKept DEF SameCommand, Idle
<1>2. CASE answer' = answer /\ (writer'.op \in {"idle", "cleanup"} \/ SameCommand)
  <2>1. NoNewMakers
    BY <1>t, <1>2 DEF NoNewMakers, HasMade
  <2> QED
    BY <1>2, <2>1, MakersKept DEF SameCommand
<1>3. \A id, i : Status("ok") # File(i, TRUE) /\ Status("internal") # File(i, TRUE)
                 /\ Status("bad_request") # File(i, TRUE) /\ File(id, FALSE) # File(i, TRUE)
  BY DEF Status, File
<1>w. /\ writer.op = "upload" =>
             writer \in [op: {"upload"}, at: {"body", "commit"}, who: Callers \cup {Nobody},
                         id: Ids, content: Stored, sound: BOOLEAN, day: Nat]
      /\ writer.op = "delete" =>
             writer \in [op: {"delete"}, at: {"unlink", "row"}, who: Callers, id: Ids]
  BY <1>t, WriterRecords DEF StoreTypeOK
<1>a. CASE RefuseBody \/ BodyWriteFails
  BY <1>a, <1>w, <1>1, <1>3, AnswerValues DEF RefuseBody, BodyWriteFails, Uploading
<1>b. CASE RenameBlob
  <2>1. CASE writer' = [writer EXCEPT !.at = "commit"] /\ answer' = answer
    <3>1. writer.op = "upload" /\ writer'.op = "upload" /\ writer'.id = writer.id
      BY <1>b, <1>w, <2>1 DEF RenameBlob, Uploading
    <3> QED
      BY <1>2, <2>1, <3>1 DEF SameCommand
  <2> QED
    BY <1>b, <1>w, <1>1, <1>3, <2>1, AnswerValues DEF RenameBlob, Uploading
<1>c. CASE Deduplicate
  <2>1. PICK id \in Existing(writer.content) : Answer(writer.who, File(id, FALSE))
    BY <1>c DEF Deduplicate
  <2>2. id \in Ids /\ writer.who \in Callers \cup {Nobody}
    BY <1>c, <1>t, <1>w DEF Deduplicate, Uploading, Existing, StoreTypeOK, Partial
  <2> QED
    BY <1>1, <1>3, <2>1, <2>2, AnswerValues
<1>d. CASE CommitRow
  <2>1. CASE Answer(writer.who, File(writer.id, TRUE))
    <3>1. writer.op = "upload" /\ writer.who \in Callers \cup {Nobody} /\ writer.id \in Ids
      BY <1>d, <1>w DEF CommitRow, Uploading
    <3>2. /\ writer' = Idle
          /\ DOMAIN answer' \subseteq DOMAIN answer \cup ({writer.who} \ {Nobody})
          /\ \A w \in DOMAIN answer' :
                 answer'[w] = IF w = writer.who THEN File(writer.id, TRUE) ELSE answer[w]
      BY ZenonT(90), <1>t, <2>1, <3>1, AnswerType, AnswerValues
    <3>3. \A i : File(writer.id, TRUE) = File(i, TRUE) => i = writer.id
      BY DEF File
    <3>4. \A w \in Callers, id \in Ids :
              HasMade(w, id)' => HasMade(w, id) \/ (w = writer.who /\ id = writer.id)
      BY <1>t, <3>2, <3>3 DEF HasMade
    <3>5. \A w \in Callers : ~HasMade(w, writer.id)
      BY <3>1 DEF OneMaker
    <3> QED
      BY <3>2, <3>4, <3>5 DEF OneMaker, Idle
  <2> QED
    BY <1>d, <1>w, <1>1, <1>3, <2>1, AnswerValues DEF CommitRow, Uploading
<1>e. CASE UnlinkDeleted
  <2>1. CASE writer' = [writer EXCEPT !.at = "row"] /\ answer' = answer
    <3>1. writer.op = "delete" /\ writer'.op = "delete" /\ writer'.id = writer.id
          /\ writer'.who = writer.who
      BY <1>e, <1>w, <2>1 DEF UnlinkDeleted, Deleting
    <3> QED
      BY <1>t, <1>2, <2>1, <3>1 DEF SameCommand
  <2> QED
    BY <1>e, <1>w, <1>1, <1>3, <2>1, AnswerValues DEF UnlinkDeleted, Deleting
<1>f. CASE DeleteDeletedRow
  <2>1. \E a \in {Status("ok"), Status("internal")} : Answer(writer.who, a)
    BY <1>f DEF DeleteDeletedRow
  <2>2. writer.who \in Callers
    BY <1>f, <1>w DEF DeleteDeletedRow, Deleting
  <2> QED
    BY <1>1, <1>3, <2>1, <2>2, AnswerValues
<1>g. CASE UnlinkOrphan
  <2>1. answer' = answer /\ writer.op = "cleanup" /\ writer.at = "unlink"
    BY <1>g DEF UnlinkOrphan, Cleaning
  <2>2. writer \in [op: {"cleanup"}, at: {"unlink"}, todo: SUBSET Ids]
    BY <1>t, <2>1, WriterRecords DEF StoreTypeOK
  <2>3. writer'.op = "cleanup"
    BY <1>g, <2>2 DEF UnlinkOrphan
  <2> QED
    BY <1>2, <2>1, <2>3
<1>h. CASE DeleteOrphanRow \/ EndCleanup
  BY <1>h, <1>2 DEF DeleteOrphanRow, EndCleanup, Idle
<1> QED
  BY <1>t, <1>a, <1>b, <1>c, <1>d, <1>e, <1>f, <1>g, <1>h DEF WriterStep

(***************************************************************************)
(* What is attached has been claimed.                                      *)
(***************************************************************************)
LEMMA ItemsClaimedStep ==
    ASSUME TypeOK, ItemsClaimed, [Next]_vars
    PROVE  ItemsClaimed' /\ claimed \subseteq claimed'
<1>1. ASSUME NEW name, NEW ids, CreateItem(name, ids)
      PROVE  ItemsClaimed' /\ claimed \subseteq claimed'
  <2>1. CASE items' = items /\ claimed' = claimed
    BY <2>1 DEF ItemsClaimed
  <2>2. CASE items' = With(items, name, ids) /\ claimed' = claimed \cup ids
             /\ CreateStatus(name, ids) = "ok"
    <3>1. /\ DOMAIN items' = DOMAIN items \cup {name}
          /\ items'[name] = ids
          /\ \A z \in DOMAIN items \ {name} : items'[z] = items[z]
      BY <2>2 DEF With
    <3> QED
      BY <2>2, <3>1 DEF ItemsClaimed
  <2> QED
    BY <1>1, <2>1, <2>2 DEF CreateItem
<1>2. ASSUME NEW name, DeleteItem(name)
      PROVE  ItemsClaimed' /\ claimed \subseteq claimed'
  <2>1. /\ DOMAIN items' \subseteq DOMAIN items /\ claimed' = claimed
        /\ \A z \in DOMAIN items' : items'[z] = items[z]
    BY SMTT(60), <1>2 DEF DeleteItem, Without, Restrict
  <2> QED
    BY <2>1 DEF ItemsClaimed
<1>3. CASE items' = items /\ claimed' = claimed
  BY <1>3 DEF ItemsClaimed
<1>4. \/ items' = items /\ claimed' = claimed
      \/ \E name, ids : CreateItem(name, ids)
      \/ \E name : DeleteItem(name)
  BY ZenonT(90) DEF Next, ClientStep, Submit, HandlerStep, Forsaken, JobStep, Writer, WriterStep,
     DecideCleanup, Cleanup, Time, Crash,
     vars, storeVars, RefuseBody, BodyWriteFails, Deduplicate, RenameBlob, CommitRow, UnlinkDeleted,
         DeleteDeletedRow, UnlinkOrphan, DeleteOrphanRow, EndCleanup, BeginUpload, BeginDelete,
         BeginCleanup, NextDay, CrashStore,
         ClientUpload, ClientHasId, ClientGone, OpenStream, ClientAttach, ClientDelete, BeginStream,
         SubmitImport, SubmitExport, CreateJob, SpawnJob, RefuseJob, SubmitterGone, LateJobRow,
         InsertJob, RunJob, ParseFile, ParsedFile, ParseEnd, ImportItem,
         CleanNewFile, CleanedFile, CleanEnd, ExportSnapshot, ExportFile, PersistExport, MarkJob,
         RemarkJob
<1> QED
  BY <1>1, <1>2, <1>3, <1>4

(***************************************************************************)
(* Every file is created for one caller, which alone has it removed.       *)
(***************************************************************************)
LEMMA MadeStep ==
    ASSUME TypeOK, MadeInv, [Next]_vars
    PROVE  MadeInv'
<1>m. KindsApart /\ OneMaker /\ ItemsClaimed /\ Awaited
  BY DEF MadeInv, TypeOK
<1>0. ItemsClaimed'
  BY <1>m, ItemsClaimedStep
<1> SUFFICES KindsApart' /\ OneMaker'
  BY <1>0 DEF MadeInv
<1>1. ASSUME NEW c \in Clients, ClientStep(c)
      PROVE  KindsApart' /\ OneMaker'
  <2>1. KindsApart'
    BY <1>m, <1>1, ClientStepTask DEF TasksSame, KindsApart
  <2> QED
    BY <1>m, <1>1, <2>1, ClientStepMakers
<1>2. ASSUME NEW j \in Jobs, Submit(j)
      PROVE  KindsApart' /\ OneMaker'
  <2>1. Submitted(j) /\ writer' = writer /\ answer' = answer
    BY <1>2, SubmitTask DEF Submitted, storeVars
  <2>2. KindsApart'
    BY <1>m, <2>1 DEF Submitted, KindsApart, Unspawned
  <2>3. NoNewMakers
    BY <2>1 DEF Submitted, NoNewMakers, HasMade
  <2>4. SameCommand
    BY <1>m, <2>1, TransferAssumption DEF Submitted, SameCommand, Awaited, Waits
  <2> QED
    BY <1>m, <2>2, <2>3, <2>4, MakersKept
<1>8. ASSUME NEW j \in Jobs, HandlerStep(j) \/ Forsaken(j)
      PROVE  KindsApart' /\ OneMaker'
  <2>1. Handled(j)
    BY <1>8, HandlerTask
  <2>2. KindsApart'
    BY <1>m, <2>1 DEF Handled, KindsApart, Unspawned
  <2>3. NoNewMakers
    BY <2>1 DEF Handled, NoNewMakers, HasMade
  <2>4. SameCommand
    BY <1>m, <2>1, TransferAssumption DEF Handled, SameCommand, Awaited, Waits
  <2> QED
    BY <1>m, <2>2, <2>3, <2>4, MakersKept
<1>3. ASSUME NEW j \in Jobs, JobStep(j)
      PROVE  KindsApart' /\ OneMaker'
  BY <1>m, <1>3, JobStepKinds, JobStepMakers
<1>4. CASE Time \/ DecideCleanup \/ UNCHANGED vars
  <2>1. UNCHANGED <<writer, answer, client, task>>
    BY <1>4 DEF Time, NextDay, DecideCleanup, vars, storeVars
  <2>2. NoNewMakers /\ SameCommand
    BY <2>1 DEF NoNewMakers, HasMade, SameCommand
  <2> QED
    BY <1>m, <2>1, <2>2, MakersKept DEF KindsApart
<1>5. CASE Writer
  <2>1. task' = task
    BY <1>5 DEF Writer
  <2> QED
    BY <1>m, <1>5, <2>1, WriterMakers DEF KindsApart
<1>6. CASE Cleanup
  <2>1. UNCHANGED <<answer, client, task>> /\ writer'.op = "cleanup"
    BY <1>6 DEF Cleanup, BeginCleanup
  <2>2. NoNewMakers /\ SameCommand
    BY <2>1 DEF NoNewMakers, HasMade, SameCommand
  <2> QED
    BY <1>m, <2>1, <2>2, MakersKept DEF KindsApart
<1>7. CASE Crash
  <2>1. /\ DOMAIN answer' = {} /\ DOMAIN task' = {} /\ writer' = Idle
        /\ \A c \in Clients : client'[c] = client[c] \/ client'[c].at = "free"
    BY <1>7 DEF Crash, CrashStore, Free
  <2>2. NoNewMakers
    BY <2>1 DEF NoNewMakers, HasMade
  <2> QED
    BY <1>m, <2>1, <2>2, MakersKept DEF KindsApart, SameCommand, Idle
<1> QED
  BY <1>1, <1>2, <1>3, <1>4, <1>5, <1>6, <1>7, <1>8 DEF Next

-----------------------------------------------------------------------------
(* What goes wrong leaves nothing over *)

(***************************************************************************)
(* Nothing more is left over of k's files, and the writer goes on removing *)
(* what it was removing for it.                                            *)
(***************************************************************************)
NoMoreLeft(k) ==
    \A id \in LeftOver(k)' :
        /\ id \in LeftOver(k)
        /\ writer.op = "delete" /\ writer.who = k /\ writer.id = id =>
               writer'.op = "delete" /\ writer'.who = k /\ writer'.id = id

(***************************************************************************)
(* A task whose own part is as before stays tidy while the store holds      *)
(* nothing more of it.                                                      *)
(***************************************************************************)
LEMMA TidyKept ==
    ASSUME NEW k \in DOMAIN task, Tidy(k), NoMoreLeft(k),
           task'[k].at = task[k].at, task'[k].mine = task[k].mine,
           task'[k].failed = task[k].failed, jobs'[k].status = jobs[k].status
    PROVE  Tidy(k)'
BY DEF Tidy, NoMoreLeft

(***************************************************************************)
(* A client's step leaves the imports tidy.                                 *)
(***************************************************************************)
LEMMA ClientStepTidy ==
    ASSUME TypeOK, ItemsClaimed, ImportsTidy, NEW c \in Clients, ClientStep(c)
    PROVE  ImportsTidy'
<1>1. TasksSame
  BY ClientStepTask
<1>2. claimed \subseteq claimed'
  BY ItemsClaimedStep DEF Next
<1>3. rows' = rows
  BY DEF ClientStep, ClientUpload, ClientHasId, ClientGone, OpenStream, ClientAttach, ClientDelete,
         BeginStream, BeginUpload, CreateItem, DeleteItem, storeVars
<1>4. writer.op = "delete" => writer' = writer
  <2>1. CASE ClientUpload(c)
    BY <2>1 DEF ClientUpload, BeginUpload, Idle
  <2>2. CASE ClientGone(c)
    BY <2>2 DEF ClientGone
  <2>3. ASSUME NEW name \in Names,
               ClientAttach(c, name) \/ ClientDelete(c, name) \/ BeginStream(c, name)
        PROVE  writer' = writer
    BY <2>3 DEF ClientAttach, ClientDelete, BeginStream, CreateItem, DeleteItem, storeVars
  <2>4. CASE ClientHasId(c) \/ OpenStream(c)
    BY <2>4 DEF ClientHasId, OpenStream, storeVars
  <2> QED
    BY <2>1, <2>2, <2>3, <2>4 DEF ClientStep
<1>5. ASSUME NEW k \in DOMAIN task
      PROVE  Tidy(k)'
  <2>1. NoMoreLeft(k)
    BY <1>1, <1>2, <1>3, <1>4 DEF NoMoreLeft, LeftOver, TasksSame
  <2> QED
    BY <1>1, <2>1, TidyKept DEF TasksSame, ImportsTidy
<1> QED
  BY <1>1, <1>5 DEF TasksSame, ImportsTidy

(***************************************************************************)
(* A step of the writer leaves the imports tidy: what it creates or         *)
(* deletes is what the import that waits for it remembers.                  *)
(***************************************************************************)
LEMMA WriterTidy ==
    ASSUME TypeOK, RowsReadable, OneMaker, ImportsTidy, Writer, Unharmed'
    PROVE  ImportsTidy'
<1>t. StoreTypeOK /\ WriterStep /\ UNCHANGED <<task, jobs>> /\ Partial(task, DOMAIN jobs, Tasks)
  BY DEF TypeOK, Writer
<1>h. ~Harm("disk") /\ ~Harm("delete")
  BY <1>t, HarmType DEF Unharmed
<1>w. /\ writer.op = "upload" => writer.id \in Ids
      /\ writer.op = "delete" =>
             writer \in [op: {"delete"}, at: {"unlink", "row"}, who: Callers, id: Ids]
  BY <1>t, WriterRecords DEF StoreTypeOK
<1>1. claimed' = claimed
  BY <1>t DEF WriterStep, RefuseBody, BodyWriteFails, Deduplicate, RenameBlob, CommitRow,
              UnlinkDeleted, DeleteDeletedRow, UnlinkOrphan, DeleteOrphanRow, EndCleanup
<1>2. SUFFICES ASSUME NEW k \in DOMAIN task
               PROVE  NoMoreLeft(k)
  BY <1>t, TidyKept DEF ImportsTidy
<1>a. CASE RefuseBody \/ BodyWriteFails \/ Deduplicate \/ RenameBlob
  <2>1. rows' = rows /\ writer.op = "upload"
    BY <1>a DEF RefuseBody, BodyWriteFails, Deduplicate, RenameBlob, Uploading
  <2> QED
    BY <1>t, <1>1, <2>1 DEF NoMoreLeft, LeftOver
<1>b. CASE CommitRow
  <2>1. /\ rows' = With(rows, writer.id, [content |-> writer.content, day |-> writer.day])
        /\ writer.op = "upload"
    BY <1>b, <1>h DEF CommitRow, Uploading
  <2>2. DOMAIN rows' = DOMAIN rows \cup {writer.id}
    BY <2>1 DEF With
  <2>3. writer.id \notin task[k].made
    <3>1. k \in Callers
      BY TaskRecords DEF Callers
    <3> QED
      BY <2>1, <3>1 DEF OneMaker, HasMade
  <2> QED
    BY <1>t, <1>1, <2>1, <2>2, <2>3 DEF NoMoreLeft, LeftOver
<1>c. CASE UnlinkDeleted
  <2>1. writer' = [writer EXCEPT !.at = "row"] /\ writer.op = "delete" /\ rows' = rows
    BY <1>c, <1>h DEF UnlinkDeleted, Deleting
  <2>2. writer'.op = "delete" /\ writer'.who = writer.who /\ writer'.id = writer.id
    BY <1>w, <2>1
  <2> QED
    BY <1>t, <1>1, <2>1, <2>2 DEF NoMoreLeft, LeftOver
<1>d. CASE DeleteDeletedRow
  <2>1. DeleteRow(writer.id) /\ writer.op = "delete"
    BY <1>d, <1>h DEF DeleteDeletedRow, Deleting
  <2>2. ~IsAttached(writer.id)
    BY <2>1 DEF RowsReadable
  <2>3. DOMAIN rows' = DOMAIN rows \ {writer.id}
    BY <2>1, <2>2 DEF DeleteRow, Without, Restrict
  <2> QED
    BY <1>t, <1>1, <2>3 DEF NoMoreLeft, LeftOver
<1>e. CASE UnlinkOrphan \/ DeleteOrphanRow \/ EndCleanup
  <2>1. writer.op = "cleanup" /\ DOMAIN rows' \subseteq DOMAIN rows
    BY <1>e DEF UnlinkOrphan, DeleteOrphanRow, EndCleanup, Cleaning, DeleteRow, Without, Restrict
  <2> QED
    BY <1>t, <1>1, <2>1 DEF NoMoreLeft, LeftOver
<1> QED
  BY <1>t, <1>a, <1>b, <1>c, <1>d, <1>e DEF WriterStep

(***************************************************************************)
(* A job's step leaves the imports tidy: what it forgets is deleted or      *)
(* attached.                                                                *)
(***************************************************************************)
LEMMA JobStepTidy ==
    ASSUME TypeOK, MadeInv, ImportsTidy, NEW j \in Jobs, JobStep(j), Unharmed'
    PROVE  ImportsTidy'
<1>f. /\ j \in DOMAIN task /\ task[j] \in Tasks
      /\ DOMAIN task' = DOMAIN task
      /\ \A k \in DOMAIN task \ {j} : task'[k] = task[k]
      /\ j \in DOMAIN jobs /\ jobs[j] \in JobRows
      /\ \A k \in DOMAIN jobs \ {j} : jobs'[k] = jobs[k]
      /\ task = [k \in DOMAIN task |-> task[k]] /\ DOMAIN task \subseteq DOMAIN jobs
      /\ jobs = [k \in DOMAIN jobs |-> jobs[k]]
      /\ Awaited /\ StoreTypeOK /\ j \notin Clients
  BY JobStepTask, TaskRecords, TransferAssumption DEF TypeOK, Partial
<1>h. ~Harm("disk")
  BY <1>f, HarmType DEF Unharmed
<1>m. KindsApart /\ ItemsClaimed
  BY DEF MadeInv
<1>c. claimed \subseteq claimed'
  BY <1>m, ItemsClaimedStep DEF Next
<1>r. rows' = rows
  BY DEF JobStep, RunJob, ParseFile, ParsedFile, ParseEnd, ImportItem, CleanNewFile, CleanedFile,
         CleanEnd, ExportSnapshot, ExportFile, PersistExport, MarkJob, RemarkJob, BeginUpload,
         BeginDelete, CreateItem, storeVars
<1>w. writer.op = "delete" => writer' = writer
  BY DEF JobStep, RunJob, ParseFile, ParsedFile, ParseEnd, ImportItem, CleanNewFile, CleanedFile,
         CleanEnd, ExportSnapshot, ExportFile, PersistExport, MarkJob, RemarkJob, BeginUpload,
         BeginDelete, CreateItem, storeVars, Idle
<1>o. ASSUME NEW k \in DOMAIN task \ {j}
      PROVE  Tidy(k)'
  <2>1. NoMoreLeft(k)
    BY <1>f, <1>c, <1>r, <1>w DEF NoMoreLeft, LeftOver
  <2> QED
    BY <1>f, <2>1, TidyKept DEF ImportsTidy
<1>t. Tidy(j)
  BY <1>f DEF ImportsTidy
<1> SUFFICES Tidy(j)'
  BY <1>f, <1>o DEF ImportsTidy
<1> DEFINE Cleaned(id) == writer.op = "delete" /\ writer.who = j /\ writer.id = id
           Early == {"queued", "parse", "upload", "create", "clean", "cleaning"}
<1>1. ASSUME task[j].at \in Early, task'[j].at \in Early \cup {"snapshot"},
             task'[j].made = task[j].made, task'[j].mine = task[j].mine
      PROVE  Tidy(j)'
  <2>1. \A id \in LeftOver(j)' : id \in task'[j].mine \/ Cleaned(id)
    BY <1>t, <1>c, <1>r, <1>1 DEF LeftOver, Tidy
  <2> QED
    BY <1>1, <1>w, <2>1 DEF Tidy
<1>2. ASSUME task[j].kind = "export", task'[j].made = task[j].made,
             task'[j].at \in {"stream", "mark"}
      PROVE  Tidy(j)'
  BY <1>f, <1>m, <1>2 DEF KindsApart, Tidy, LeftOver
<1>a. CASE RunJob(j)
  <2>1. /\ task[j].at = "queued" /\ task'[j].at \in {"parse", "snapshot"}
        /\ task'[j].made = task[j].made /\ task'[j].mine = task[j].mine
    BY <1>f, <1>a, <1>h DEF RunJob, At, GoTo, Tasks
  <2> QED
    BY <1>1, <2>1
<1>b. CASE ParseFile(j)
  <2>1. /\ task[j].at = "parse" /\ task'[j].at = "upload"
        /\ task'[j].made = task[j].made /\ task'[j].mine = task[j].mine
    <3>1. CASE task' = [task EXCEPT ![j].at = "upload", ![j].left = Tail(@)]
      BY <1>f, <1>b, <3>1 DEF ParseFile, At, Tasks
    <3> QED
      BY ZenonT(90), <1>f, <1>b, <3>1 DEF ParseFile, At, GoTo, Tasks
  <2> QED
    BY <1>1, <2>1
<1>d. CASE ParsedFile(j)
  <2>1. CASE answer[j].status = "ok" /\ answer[j].new
    <3>1. /\ task[j].at = "upload" /\ task'[j].at = "parse"
          /\ task'[j].made = task[j].made \cup {answer[j].id}
          /\ task'[j].mine = task[j].mine \cup {answer[j].id}
      <4>1. task' = [task EXCEPT ![j].at = "parse", ![j].ids = @ \cup {answer[j].id},
                                 ![j].mine = @ \cup {answer[j].id},
                                 ![j].made = @ \cup {answer[j].id}]
        BY <1>d, <2>1 DEF ParsedFile
      <4> QED
        BY <1>f, <1>d, <4>1 DEF ParsedFile, At, Tasks
    <3>2. \A id \in LeftOver(j)' : id \in task'[j].mine \/ Cleaned(id)
      BY <1>t, <1>c, <1>r, <3>1 DEF LeftOver, Tidy
    <3> QED
      BY <1>w, <3>1, <3>2 DEF Tidy
  <2>2. CASE ~(answer[j].status = "ok" /\ answer[j].new)
    <3>1. /\ task[j].at = "upload" /\ task'[j].at \in {"parse", "clean"}
          /\ task'[j].made = task[j].made /\ task'[j].mine = task[j].mine
      BY <1>f, <1>d, <2>2 DEF ParsedFile, At, FailTo, Tasks
    <3> QED
      BY <1>1, <3>1
  <2> QED
    BY <2>1, <2>2
<1>e. CASE ParseEnd(j)
  <2>1. /\ task[j].at = "parse" /\ task'[j].at \in {"create", "clean"}
        /\ task'[j].made = task[j].made /\ task'[j].mine = task[j].mine
    BY <1>f, <1>e DEF ParseEnd, At, GoTo, FailTo, Tasks
  <2> QED
    BY <1>1, <2>1
<1>g. CASE ImportItem(j)
  <2>1. CASE GoTo(j, "mark")
    <3>1. task'[j].at = "mark" /\ ~task'[j].failed
      BY <1>f, <1>m, <1>g, <2>1 DEF ImportItem, At, KindsApart, GoTo, Tasks
    <3> QED
      BY <3>1 DEF Tidy
  <2>2. CASE FailTo(j, "clean")
    <3>1. /\ task[j].at = "create" /\ task'[j].at = "clean"
          /\ task'[j].made = task[j].made /\ task'[j].mine = task[j].mine
      BY <1>f, <1>g, <2>2 DEF ImportItem, At, FailTo, Tasks
    <3> QED
      BY <1>1, <3>1
  <2> QED
    BY <1>g, <1>h, <2>1, <2>2 DEF ImportItem
<1>i. CASE CleanNewFile(j)
  <2>1. PICK id \in task[j].mine :
            /\ BeginDelete(j, id)
            /\ task' = [task EXCEPT ![j].at = "cleaning", ![j].mine = @ \ {id}]
    BY <1>i DEF CleanNewFile
  <2>2. /\ task[j].at = "clean" /\ task'[j].at = "cleaning"
        /\ task'[j].made = task[j].made /\ task'[j].mine = task[j].mine \ {id}
        /\ writer = Idle
    BY <1>f, <1>i, <2>1 DEF CleanNewFile, At, BeginDelete, Tasks
  <2>3. \A i \in LeftOver(j)' : i \in LeftOver(j) /\ i \in task[j].mine
    BY <1>t, <1>c, <1>r, <2>2 DEF LeftOver, Tidy, Idle
  <2>4. CASE IsAttached(id)
    <3>1. id \in claimed
      BY <1>m, <2>4 DEF IsAttached, ItemsClaimed
    <3> QED
      BY <2>2, <2>3, <3>1 DEF LeftOver, Tidy
  <2>5. CASE ~IsAttached(id)
    <3>1. writer'.op = "delete" /\ writer'.who = j /\ writer'.id = id
      BY <2>1, <2>5 DEF BeginDelete
    <3> QED
      BY <2>2, <2>3, <3>1 DEF Tidy
  <2> QED
    BY <2>4, <2>5
<1>j. CASE CleanedFile(j)
  <2>1. /\ task[j].at = "cleaning" /\ task'[j].at = "clean"
        /\ task'[j].made = task[j].made /\ task'[j].mine = task[j].mine
    BY <1>f, <1>j DEF CleanedFile, At, GoTo, Tasks
  <2> QED
    BY <1>1, <2>1
<1>k. CASE CleanEnd(j)
  <2>1. /\ task[j].at = "clean" /\ task[j].mine = {} /\ task'[j].at = "mark"
        /\ task'[j].made = task[j].made
    BY <1>f, <1>k DEF CleanEnd, At, GoTo, Tasks
  <2>2. ~(writer.op = "delete" /\ writer.who = j)
    BY <1>f, <2>1 DEF Awaited, Waits
  <2> QED
    BY <1>t, <1>c, <1>r, <2>1, <2>2 DEF LeftOver, Tidy
<1>l. CASE ExportSnapshot(j)
  <2>1. task[j].at = "snapshot" /\ task'[j].at \in {"stream", "mark"} /\ task'[j].made = task[j].made
    BY <1>f, <1>l DEF ExportSnapshot, At, Tasks
  <2> QED
    BY <1>2, <1>f, <1>m, <2>1 DEF KindsApart
<1>n. CASE ExportFile(j) \/ PersistExport(j)
  <2>1. task[j].at = "stream" /\ task'[j].at \in {"stream", "mark"} /\ task'[j].made = task[j].made
    <3>1. CASE ExportFile(j)
      <4>1. PICK id \in task[j].ids :
               IF CanOpen(id)
               THEN task' = [task EXCEPT ![j].ids = @ \ {id}, ![j].left = Append(@, blobs[id])]
               ELSE FailTo(j, "mark")
        BY <3>1 DEF ExportFile
      <4>2. task[j].at = "stream"
        BY <3>1 DEF ExportFile, At
      <4>3. CASE task' = [task EXCEPT ![j].ids = @ \ {id}, ![j].left = Append(@, blobs[id])]
        BY <1>f, <4>2, <4>3 DEF Tasks
      <4> QED
        BY <1>f, <4>1, <4>2, <4>3 DEF FailTo, Tasks
    <3>2. CASE PersistExport(j)
      BY <1>f, <3>2 DEF PersistExport, At, GoTo, FailTo, Tasks
    <3> QED
      BY <1>n, <3>1, <3>2
  <2> QED
    BY <1>2, <1>f, <1>m, <2>1 DEF KindsApart
<1>p. CASE MarkJob(j)
  <2>1. /\ task[j].at = "mark" /\ task'[j].at = "ended" /\ task'[j].made = task[j].made
        /\ jobs'[j].status = IF task[j].failed THEN "failed" ELSE "succeeded"
    BY <1>f, <1>p, <1>h DEF MarkJob, EndJob, SetStatus, At, GoTo, Tasks, JobRows
  <2> QED
    BY <1>t, <1>c, <1>r, <2>1 DEF LeftOver, Tidy
<1>q. CASE RemarkJob(j)
  BY <1>t, <1>q DEF RemarkJob, At, Tidy
<1> QED
  BY <1>a, <1>b, <1>d, <1>e, <1>g, <1>i, <1>j, <1>k, <1>l, <1>n, <1>p, <1>q DEF JobStep

(***************************************************************************)
(* What is left over is on its way out, step after step.                   *)
(***************************************************************************)
LEMMA TidyStep ==
    ASSUME ReadableInv, MadeInv, TidyInv, [Next]_vars
    PROVE  TidyInv'
<1> SUFFICES ASSUME Unharmed'
             PROVE  NoStrays' /\ ImportsTidy'
  BY DEF TidyInv
<1>t. TypeOK /\ KindsApart /\ OneMaker /\ ItemsClaimed
  BY DEF ReadableInv, MadeInv
<1>u. Unharmed /\ RowsReadable /\ NoStrays /\ ImportsTidy
  BY <1>t, HarmStays DEF Unharmed, Intact, ReadableInv, TidyInv
<1>s. NoStrays'
  BY <1>t, <1>u, StepStore DEF KeepsBoth
<1> SUFFICES ImportsTidy'
  BY <1>s
<1>1. ASSUME NEW j \in Jobs, Submit(j)
      PROVE  ImportsTidy'
  <2>1. Submitted(j) /\ UNCHANGED <<writer, rows, claimed>>
    BY <1>t, <1>1, SubmitTask DEF Submitted, storeVars
  <2>2. Tidy(j)'
    BY <2>1 DEF Submitted, Tidy, LeftOver
  <2>3. ASSUME NEW k \in DOMAIN task
        PROVE  Tidy(k)'
    <3>1. NoMoreLeft(k)
      BY <2>1 DEF NoMoreLeft, LeftOver, Submitted
    <3> QED
      BY <1>u, <2>1, <3>1, TidyKept DEF Submitted, ImportsTidy
  <2> QED
    BY <2>1, <2>2, <2>3 DEF Submitted, ImportsTidy
<1>4. ASSUME NEW j \in Jobs, HandlerStep(j) \/ Forsaken(j)
      PROVE  ImportsTidy'
  <2>1. Handled(j)
    BY <1>t, <1>4, HandlerTask
  <2>2. Tidy(j)'
    <3>1. LeftOver(j)' = {}
      BY <1>t, <2>1 DEF Handled, KindsApart, LeftOver
    <3> QED
      BY <2>1, <3>1 DEF Handled, Tidy
  <2>3. ASSUME NEW k \in DOMAIN task, k # j
        PROVE  Tidy(k)'
    <3>1. NoMoreLeft(k)
      BY <2>1, <2>3 DEF NoMoreLeft, LeftOver, Handled
    <3> QED
      BY <1>u, <2>1, <2>3, <3>1, TidyKept DEF Handled, ImportsTidy
  <2> QED
    BY <2>1, <2>2, <2>3 DEF Handled, ImportsTidy
<1>2. CASE Time \/ UNCHANGED vars \/ DecideCleanup \/ Cleanup
  <2>1. UNCHANGED <<rows, claimed, task, jobs>> /\ (writer' = writer \/ writer = Idle)
    BY <1>2 DEF Time, NextDay, vars, storeVars, DecideCleanup, Cleanup, BeginCleanup
  <2>2. ASSUME NEW k \in DOMAIN task
        PROVE  Tidy(k)'
    <3>1. NoMoreLeft(k)
      BY <2>1 DEF NoMoreLeft, LeftOver, Idle
    <3> QED
      BY <1>u, <2>1, <3>1, TidyKept DEF ImportsTidy
  <2> QED
    BY <2>1, <2>2 DEF ImportsTidy
<1>3. CASE Crash
  <2>1. DOMAIN task' = {}
    BY <1>3 DEF Crash
  <2> QED
    BY <2>1 DEF ImportsTidy
<1> QED
  BY <1>t, <1>u, <1>1, <1>2, <1>3, <1>4, ClientStepTidy, WriterTidy, JobStepTidy DEF Next, MadeInv

(***************************************************************************)
(* What has been created is known to its maker, and as long as nothing     *)
(* went wrong in the disk every stray file is somebody's to remove.        *)
(***************************************************************************)
LeavingsInv == ReadableInv /\ MadeInv /\ TidyInv

(***************************************************************************)
(* In every reachable state the store agrees with itself, every file has    *)
(* one maker, and a failing import still remembers every file of its own    *)
(* that is left: the inductive invariant behind NothingLeft (import.rs's    *)
(* clean-up of what it created).                                            *)
(***************************************************************************)
THEOREM LeavingsInvariant == Spec => []LeavingsInv
<1>1. Init => MadeInv /\ TidyInv
  <2> SUFFICES ASSUME Init
               PROVE  MadeInv /\ TidyInv
    OBVIOUS
  <2>1. /\ DOMAIN task = {} /\ DOMAIN answer = {} /\ DOMAIN items = {} /\ DOMAIN rows = {}
        /\ DOMAIN blobs = {} /\ temps = {} /\ writer = Idle
        /\ \A c \in Clients : client[c].at = "free"
    BY DEF Init, InitStore, Free
  <2>2. MadeInv
    BY <2>1 DEF MadeInv, KindsApart, OneMaker, HasMade, ItemsClaimed, Idle
  <2>3. TidyInv
    BY <2>1 DEF TidyInv, NoStrays, ImportsTidy, Idle, Uploading, Going
  <2> QED
    BY <2>2, <2>3
<1>2. ReadableInv /\ MadeInv /\ TidyInv /\ [Next]_vars => MadeInv' /\ TidyInv'
  BY MadeStep, TidyStep DEF ReadableInv
<1> QED
  BY <1>1, <1>2, RowsInvariant, PTL DEF Spec, LeavingsInv

(***************************************************************************)
(* Nothing is left over: between two commands of the writer, with nothing  *)
(* gone wrong, the blobs are those of the rows and there is no temporary   *)
(* file; and a failed import that has ended leaves none of the files it    *)
(* created, unless some item was given it (state.rs:3516-3672, import.rs's *)
(* cleanup_new_files).                                                     *)
(***************************************************************************)
THEOREM NothingLeft == Spec => []NothingLeftOver
<1>1. LeavingsInv => NothingLeftOver
  <2> SUFFICES ASSUME LeavingsInv, Unharmed
               PROVE  /\ writer = Idle => temps = {} /\ DOMAIN blobs = DOMAIN rows
                      /\ \A j \in DOMAIN task :
                            task[j].at = "ended" /\ jobs[j].status = "failed"
                                => task[j].made \cap DOMAIN rows \subseteq claimed
    BY DEF NothingLeftOver, StoreAgrees, FailedImportLeavesNothing
  <2>1. NoStrays /\ ImportsTidy
    BY DEF LeavingsInv, TidyInv
  <2>2. writer = Idle => temps = {} /\ DOMAIN blobs = DOMAIN rows
    <3>1. writer = Idle => writer.op = "idle"
      BY DEF Idle
    <3> QED
      BY <2>1, <3>1 DEF NoStrays, Uploading, Going
  <2>3. \A j \in DOMAIN task :
            task[j].at = "ended" /\ jobs[j].status = "failed" => LeftOver(j) = {}
    BY <2>1 DEF ImportsTidy, Tidy
  <2> QED
    BY <2>2, <2>3 DEF LeftOver
<1> QED
  BY <1>1, LeavingsInvariant, PTL

-----------------------------------------------------------------------------
(* What was given to a client stays *)

(***************************************************************************)
(* A row that a client created today is still there when no row goes, no   *)
(* day passes and nobody gains a file.                                     *)
(***************************************************************************)
RowsStay ==
    \A id \in DOMAIN rows : id \in DOMAIN rows' /\ rows'[id] = rows[id]

(***************************************************************************)
(* A step after which the callers and the writer are where they were        *)
(* leaves everyone's files in the store.                                    *)
(***************************************************************************)
LEMMA OwnFilesKept ==
    ASSUME TypeOK, OwnFiles, NoNewMakers, RowsStay, claimed \subseteq claimed', day' = day,
           \A c \in Clients : client'[c].at # "free" =>
               client[c].at # "free" /\ client'[c].day = client[c].day,
           writer'.op = "upload" =>
               /\ writer.op = "upload" /\ writer'.day = writer.day
               /\ writer'.who \in Clients => writer'.who = writer.who
               /\ writer.who \in Clients /\ writer'.who = writer.who =>
                      client'[writer.who].day = client[writer.who].day,
           writer'.op = "cleanup" => writer' = writer /\ rows' = rows
    PROVE  OwnFiles'
<1>1. \A c \in Clients, id \in Ids : Today(c, id)' => Today(c, id)
  BY DEF Today, NoNewMakers, Callers
<1>2. \A c \in Clients, id \in Ids : Today(c, id)' => id \in DOMAIN rows' /\ rows'[id].day = day'
  BY <1>1 DEF OwnFiles, RowsStay
<1>3. \A c \in Clients : client'[c].at # "free" => client'[c].day <= day'
  BY DEF OwnFiles
<1>4. writer'.op = "upload" /\ writer'.who \in Clients => writer'.day = client'[writer'.who].day
  BY DEF OwnFiles
<1> QED
  BY <1>2, <1>3, <1>4 DEF OwnFiles

(***************************************************************************)
(* A client's step leaves everyone's files in the store.                    *)
(***************************************************************************)
LEMMA ClientStepOwn ==
    ASSUME TypeOK, OwnFiles, OneMaker, ItemsClaimed, NEW c \in Clients, ClientStep(c)
    PROVE  OwnFiles'
<1>t. /\ StoreTypeOK /\ Awaited /\ c \notin Jobs /\ c \notin DOMAIN task /\ c # Nobody
      /\ client \in [Clients -> ClientStates] /\ day \in Nat
  BY TransferAssumption DEF TypeOK, Partial, StoreTypeOK
<1>k. TasksSame /\ \A d \in Clients \ {c} : client'[d] = client[d]
  BY ClientStepTask
<1>m. claimed \subseteq claimed'
  BY ItemsClaimedStep DEF Next
<1>r. rows' = rows /\ RowsStay /\ day' = day
  BY DEF ClientStep, ClientUpload, ClientHasId, ClientGone, OpenStream, ClientAttach, ClientDelete,
         BeginStream, BeginUpload, CreateItem, DeleteItem, storeVars, RowsStay
<1>1. CASE ClientUpload(c)
  <2>1. PICK content \in Contents, sound \in BOOLEAN : BeginUpload(c, NewId, content, sound)
    BY <1>1 DEF ClientUpload
  <2>2. writer'.op = "upload" /\ writer'.who = c /\ writer'.day = day /\ answer' = answer
    BY <2>1 DEF BeginUpload
  <2>3. client'[c].at = "upload" /\ client'[c].day = day /\ client[c].at = "free"
    BY <1>t, <1>1 DEF ClientUpload
  <2>4. c \notin DOMAIN answer
    BY <1>t, <2>3 DEF Awaited, Waits
  <2>5. \A id : ~HasMade(c, id)'
    BY <1>t, <1>k, <2>2, <2>3, <2>4 DEF HasMade, TasksSame
  <2>6. \A d \in Clients \ {c}, id \in Ids : HasMade(d, id)' => HasMade(d, id)
    BY <1>k, <2>2 DEF HasMade, TasksSame
  <2>7. \A d \in Clients, id \in Ids : Today(d, id)' => d # c /\ Today(d, id)
    BY <1>k, <1>m, <1>r, <2>5, <2>6 DEF Today
  <2>8. \A d \in Clients, id \in Ids :
            Today(d, id)' => id \in DOMAIN rows' /\ rows'[id].day = day'
    BY <1>r, <2>7 DEF OwnFiles
  <2>9. \A d \in Clients : client'[d].at # "free" => client'[d].day <= day'
    BY <1>t, <1>k, <1>r, <2>3 DEF OwnFiles
  <2> QED
    BY <2>2, <2>3, <2>8, <2>9 DEF OwnFiles
<1>2. CASE ClientHasId(c)
  <2>1. c \in DOMAIN answer /\ answer[c] \in Uploaded
    <3>1. c \in DOMAIN answer
      BY <1>2 DEF ClientHasId, TakeAnswer
    <3> QED
      BY <1>t, <3>1 DEF Awaited
  <2>2. /\ DOMAIN answer' = DOMAIN answer \ {c}
        /\ \A w \in DOMAIN answer' : answer'[w] = answer[w]
    BY <1>t, <1>2, TakeAnswerType DEF ClientHasId
  <2>3. client'[c].at = "holds" /\ client'[c].new =>
            answer[c].status = "ok" /\ answer[c].new /\ client'[c].id = answer[c].id
    BY <1>t, <1>2 DEF ClientHasId, Free
  <2>4. \A id : client'[c].at = "holds" /\ client'[c].new /\ client'[c].id = id =>
                    answer[c] = File(id, TRUE)
    BY <2>1, <2>3, AnswerIsFile
  <2>5. NoNewMakers
    BY ZenonT(90), <1>k, <2>1, <2>2, <2>4 DEF NoNewMakers, HasMade, TasksSame
  <2>6. client[c].at = "upload" /\ (client'[c].at # "free" => client'[c].day = client[c].day)
    BY <1>t, <1>2 DEF ClientHasId, Free
  <2>7. writer.op = "upload" => writer.who # c
    BY <1>t, <2>1 DEF Awaited
  <2>8. writer' = writer
    BY <1>2 DEF ClientHasId
  <2> QED
    BY <1>k, <1>m, <1>r, <2>5, <2>6, <2>7, <2>8, OwnFilesKept
<1>3. CASE ClientGone(c)
  <2>1. client'[c].at = "free"
    BY <1>t, <1>3 DEF ClientGone, Free
  <2>2. CASE writer.op = "upload" /\ writer.who = c
    <3>1. PICK sent \in BOOLEAN :
              writer' = [writer EXCEPT !.who = Nobody, !.sound = @ /\ sent]
      BY <1>3, <2>2 DEF ClientGone
    <3>2. writer \in [op: {"upload"}, at: {"body", "commit"}, who: Callers \cup {Nobody},
                      id: Ids, content: Stored, sound: BOOLEAN, day: Nat]
      BY <1>t, <2>2, WriterRecords DEF StoreTypeOK
    <3>3. writer'.op = "upload" /\ writer'.day = writer.day /\ writer'.who = Nobody
      BY <3>1, <3>2
    <3>4. answer' = answer
      BY <1>3, <2>2 DEF ClientGone
    <3>5. NoNewMakers
      BY <1>k, <2>1, <3>4 DEF NoNewMakers, HasMade, TasksSame
    <3> QED
      BY <1>t, <1>k, <1>m, <1>r, <2>1, <2>2, <3>3, <3>5, OwnFilesKept, TransferAssumption
  <2>3. CASE ~(writer.op = "upload" /\ writer.who = c)
    <3>1. TakeAnswer(c) /\ writer' = writer
      BY <1>3, <2>3 DEF ClientGone
    <3>2. /\ DOMAIN answer' = DOMAIN answer \ {c}
          /\ \A w \in DOMAIN answer' : answer'[w] = answer[w]
      BY <1>t, <3>1, TakeAnswerType
    <3>3. NoNewMakers
      BY <1>k, <2>1, <3>2 DEF NoNewMakers, HasMade, TasksSame
    <3> QED
      BY <1>k, <1>m, <1>r, <2>1, <2>3, <3>1, <3>3, OwnFilesKept
  <2> QED
    BY <2>2, <2>3
<1>4. ASSUME writer' = writer, answer' = answer,
             client'[c] = client[c] \/ client'[c].at = "free",
             client[c].at = "upload" => client' = client
      PROVE  OwnFiles'
  <2>1. NoNewMakers
    BY <1>k, <1>4 DEF NoNewMakers, HasMade, TasksSame
  <2>2. writer.op = "upload" /\ writer.who = c => client[c].at = "upload"
    BY <1>t DEF Awaited, Waits
  <2>3. writer.op = "upload" /\ writer.who = c => client'[c] = client[c]
    BY <1>4, <2>2
  <2> QED
    BY <1>k, <1>m, <1>r, <1>4, <2>1, <2>3, OwnFilesKept
<1>5. ASSUME NEW name \in Names,
             ClientAttach(c, name) \/ ClientDelete(c, name) \/ BeginStream(c, name)
      PROVE  OwnFiles'
  <2>1. /\ writer' = writer /\ answer' = answer
        /\ client'[c] = client[c] \/ client'[c].at = "free"
        /\ client[c].at = "upload" => client' = client
    BY <1>t, <1>5 DEF ClientAttach, ClientDelete, BeginStream, storeVars, CreateItem, DeleteItem,
                      Free
  <2> QED
    BY <1>4, <2>1
<1>6. CASE OpenStream(c)
  BY <1>4, <1>6 DEF OpenStream, storeVars
<1> QED
  BY <1>1, <1>2, <1>3, <1>5, <1>6 DEF ClientStep

(***************************************************************************)
(* A job's step leaves the clients' files in the store.                     *)
(***************************************************************************)
LEMMA JobStepOwn ==
    ASSUME TypeOK, OwnFiles, ItemsClaimed, NEW j \in Jobs, JobStep(j)
    PROVE  OwnFiles'
<1>t. StoreTypeOK /\ Awaited /\ j \notin Clients /\ DOMAIN task \subseteq Jobs /\ client' = client
  BY JobStepTask, TaskRecords, TransferAssumption DEF TypeOK
<1>m. claimed \subseteq claimed'
  BY SMTT(60), ItemsClaimedStep DEF Next
<1>r. rows' = rows /\ day' = day
  BY SMTT(60) DEF JobStep, RunJob, ParseFile, ParsedFile, ParseEnd, ImportItem, CleanNewFile,
     CleanedFile,
         CleanEnd, ExportSnapshot, ExportFile, PersistExport, MarkJob, RemarkJob, BeginUpload,
         BeginDelete, CreateItem, storeVars
<1>w. writer' = writer \/ writer'.op \in {"idle", "delete"}
      \/ (writer'.op = "upload" /\ writer'.who = j)
  BY SMTT(60) DEF JobStep, RunJob, ParseFile, ParsedFile, ParseEnd, ImportItem, CleanNewFile,
     CleanedFile,
         CleanEnd, ExportSnapshot, ExportFile, PersistExport, MarkJob, RemarkJob, BeginUpload,
         BeginDelete, CreateItem, Answer, Idle, storeVars
<1>a. \A c \in Clients : c \in DOMAIN answer' => c \in DOMAIN answer /\ answer'[c] = answer[c]
  <2>1. CASE answer' = answer
    BY <2>1
  <2>2. CASE TakeAnswer(j)
    BY <1>t, <2>2, TakeAnswerType
  <2>3. CASE Answer(j, Status("ok"))
    BY <1>t, <2>3, AnswerType, AnswerValues DEF Callers
  <2> QED
    BY <2>1, <2>2, <2>3 DEF JobStep, RunJob, ParseFile, ParsedFile, ParseEnd, ImportItem,
       CleanNewFile, CleanedFile, CleanEnd, ExportSnapshot, ExportFile, PersistExport, MarkJob,
       RemarkJob, BeginUpload, BeginDelete, CreateItem, storeVars
<1>1. \A c \in Clients, id \in Ids : HasMade(c, id)' => HasMade(c, id)
  <2>1. \A c \in Clients : c \notin DOMAIN task'
    BY <1>t, JobStepTask, TransferAssumption
  <2> QED
    BY <1>t, <1>a, <2>1 DEF HasMade
<1>2. \A c \in Clients, id \in Ids : Today(c, id)' => Today(c, id)
  BY <1>t, <1>m, <1>r, <1>1 DEF Today
<1> QED
  BY <1>t, <1>r, <1>w, <1>2 DEF OwnFiles

(***************************************************************************)
(* A step of the writer leaves the clients' files in the store: the         *)
(* cleanup only goes for files of earlier days, and a deletion for files    *)
(* of whoever asked.                                                        *)
(***************************************************************************)
LEMMA WriterOwn ==
    ASSUME TypeOK, OwnFiles, OneMaker, Writer
    PROVE  OwnFiles'
<1>t. /\ StoreTypeOK /\ Awaited /\ WriterStep /\ UNCHANGED <<client, task>> /\ day \in Nat
      /\ Partial(rows, Ids, [content: Stored, day: Nat])
  BY DEF TypeOK, Writer, StoreTypeOK
<1>w. /\ writer.op = "upload" =>
             writer \in [op: {"upload"}, at: {"body", "commit"}, who: Callers \cup {Nobody},
                         id: Ids, content: Stored, sound: BOOLEAN, day: Nat]
      /\ writer.op = "delete" =>
             writer \in [op: {"delete"}, at: {"unlink", "row"}, who: Callers, id: Ids]
      /\ writer.op = "cleanup" /\ writer.at = "unlink" =>
             writer \in [op: {"cleanup"}, at: {"unlink"}, todo: SUBSET Ids]
      /\ writer.op = "cleanup" /\ writer.at = "row" =>
             writer \in [op: {"cleanup"}, at: {"row"}, todo: SUBSET Ids, id: Ids]
  BY <1>t, WriterRecords DEF StoreTypeOK
<1>1. claimed' = claimed /\ day' = day
  BY <1>t DEF WriterStep, RefuseBody, BodyWriteFails, Deduplicate, RenameBlob, CommitRow,
              UnlinkDeleted, DeleteDeletedRow, UnlinkOrphan, DeleteOrphanRow, EndCleanup
<1>c. \A c \in Clients : client[c].at # "free" => client[c].day <= day
  BY DEF OwnFiles
<1>o. ASSUME NEW c \in Clients, NEW id \in Ids, Today(c, id)
      PROVE  id \in DOMAIN rows /\ rows[id].day = day
  BY <1>o DEF OwnFiles
<1>2. ASSUME \A c \in Clients, id \in Ids : Today(c, id)' => Today(c, id),
             \A c \in Clients, id \in Ids :
                 Today(c, id) => id \in DOMAIN rows' /\ rows'[id] = rows[id],
             writer'.op = "upload" => writer.op = "upload" /\ writer'.who = writer.who
                                      /\ writer'.day = writer.day,
             writer'.op = "cleanup" =>
                 \A id \in DOMAIN rows' :
                     id \in writer'.todo \/ (writer'.at = "row" /\ writer'.id = id) =>
                         rows'[id].day < day
      PROVE  OwnFiles'
  <2>1. \A c \in Clients, id \in Ids : Today(c, id)' => id \in DOMAIN rows' /\ rows'[id].day = day
    BY <1>o, <1>2
  <2>2. writer'.op = "upload" /\ writer'.who \in Clients => writer'.day = client'[writer'.who].day
    BY <1>t, <1>2 DEF OwnFiles
  <2> QED
    BY <1>t, <1>1, <1>2, <1>c, <2>1, <2>2 DEF OwnFiles
<1>3. ASSUME NEW a \in Uploaded \cup Deleted, Answer(writer.who, a),
             writer.op \in {"upload", "delete"}
      PROVE  /\ writer' = Idle /\ writer'.op = "idle"
             /\ DOMAIN answer' \subseteq DOMAIN answer \cup ({writer.who} \ {Nobody})
             /\ \A w \in DOMAIN answer' :
                    answer'[w] = IF w = writer.who THEN a ELSE answer[w]
             /\ (\A id : a # File(id, TRUE)) =>
                    \A c \in Clients, id \in Ids : Today(c, id)' => Today(c, id)
  <2>1. /\ writer' = Idle
        /\ DOMAIN answer' \subseteq DOMAIN answer \cup ({writer.who} \ {Nobody})
        /\ \A w \in DOMAIN answer' : answer'[w] = IF w = writer.who THEN a ELSE answer[w]
    BY <1>t, <1>w, <1>3, AnswerType
  <2>2. (\A id : a # File(id, TRUE)) =>
            \A c \in Clients, id \in Ids : HasMade(c, id)' => HasMade(c, id)
    BY <1>t, <2>1 DEF HasMade
  <2> QED
    BY <1>t, <1>1, <2>1, <2>2 DEF Today, Idle
<1>4. answer' = answer => \A c \in Clients, id \in Ids : Today(c, id)' => Today(c, id)
  BY <1>t, <1>1 DEF Today, HasMade
<1>5. \A id, i : Status("ok") # File(i, TRUE) /\ Status("internal") # File(i, TRUE)
                 /\ Status("bad_request") # File(i, TRUE) /\ File(id, FALSE) # File(i, TRUE)
  BY DEF Status, File
<1>6. ASSUME rows' = rows, writer.op \in {"upload", "delete"},
             \/ \E a \in Uploaded \cup Deleted :
                    Answer(writer.who, a) /\ \A id : a # File(id, TRUE)
             \/ answer' = answer /\ writer'.op = writer.op
                /\ (writer.op = "upload" => writer'.who = writer.who /\ writer'.day = writer.day)
      PROVE  OwnFiles'
  <2>1. CASE \E a \in Uploaded \cup Deleted :
                 Answer(writer.who, a) /\ \A id : a # File(id, TRUE)
    <3>1. writer'.op = "idle" /\ \A c \in Clients, id \in Ids : Today(c, id)' => Today(c, id)
      BY <1>3, <1>6, <2>1
    <3> QED
      BY <1>2, <1>6, <1>o, <3>1
  <2>2. CASE answer' = answer /\ writer'.op = writer.op
             /\ (writer.op = "upload" => writer'.who = writer.who /\ writer'.day = writer.day)
    BY <1>2, <1>4, <1>6, <1>o, <2>2
  <2> QED
    BY <1>6, <2>1, <2>2
<1>a. CASE RefuseBody \/ BodyWriteFails
  BY <1>a, <1>5, <1>6, AnswerValues DEF RefuseBody, BodyWriteFails, Uploading
<1>b. CASE RenameBlob
  <2>1. CASE writer' = [writer EXCEPT !.at = "commit"] /\ answer' = answer
    <3>1. writer.op = "upload" /\ writer'.op = "upload" /\ writer'.who = writer.who
          /\ writer'.day = writer.day /\ rows' = rows
      BY <1>b, <1>w, <2>1 DEF RenameBlob, Uploading
    <3> QED
      BY <1>6, <2>1, <3>1
  <2> QED
    BY <1>b, <1>5, <1>6, <2>1, AnswerValues DEF RenameBlob, Uploading
<1>d. CASE Deduplicate
  <2>1. PICK id \in Existing(writer.content) : Answer(writer.who, File(id, FALSE))
    BY <1>d DEF Deduplicate
  <2>2. id \in Ids
    BY <1>t DEF Existing, Partial
  <2>3. rows' = rows /\ writer.op = "upload"
    BY <1>d DEF Deduplicate, Uploading
  <2> QED
    BY <1>5, <1>6, <2>1, <2>2, <2>3, AnswerValues
<1>e. CASE CommitRow
  <2>1. CASE /\ rows' = With(rows, writer.id, [content |-> writer.content, day |-> writer.day])
             /\ Answer(writer.who, File(writer.id, TRUE))
    <3>1. /\ DOMAIN rows' = DOMAIN rows \cup {writer.id}
          /\ rows'[writer.id].day = writer.day
          /\ \A id \in DOMAIN rows \ {writer.id} : rows'[id] = rows[id]
      BY <2>1 DEF With
    <3>2. writer.op = "upload" /\ File(writer.id, TRUE) \in Uploaded
      BY <1>e, <1>w, AnswerValues DEF CommitRow, Uploading
    <3>3. /\ writer'.op = "idle"
          /\ DOMAIN answer' \subseteq DOMAIN answer \cup ({writer.who} \ {Nobody})
          /\ \A w \in DOMAIN answer' :
                 answer'[w] = IF w = writer.who THEN File(writer.id, TRUE) ELSE answer[w]
      BY <1>3, <2>1, <3>2
    <3>4. \A i : File(writer.id, TRUE) = File(i, TRUE) => i = writer.id
      BY DEF File
    <3>5. \A c \in Clients, id \in Ids :
              HasMade(c, id)' => HasMade(c, id) \/ (c = writer.who /\ id = writer.id)
      BY <1>t, <3>3, <3>4 DEF HasMade
    <3>6. \A c \in Clients : ~HasMade(c, writer.id)
      BY <3>2 DEF OneMaker, Callers
    <3>7. ASSUME NEW c \in Clients, NEW id \in Ids, Today(c, id)'
          PROVE  id \in DOMAIN rows' /\ rows'[id].day = day
      <4>1. CASE c = writer.who /\ id = writer.id
        <5>1. writer.day = client[c].day /\ client[c].day = day
          BY <1>t, <1>1, <3>2, <3>7, <4>1 DEF OwnFiles, Today
        <5> QED
          BY <3>1, <4>1, <5>1
      <4>2. CASE Today(c, id)
        <5>1. id # writer.id
          BY <3>6, <4>2 DEF Today
        <5> QED
          BY <1>o, <3>1, <4>2, <5>1
      <4> QED
        BY <1>t, <1>1, <3>5, <3>7, <4>1, <4>2 DEF Today
    <3> QED
      BY <1>t, <1>1, <1>c, <3>3, <3>7 DEF OwnFiles
  <2> QED
    BY <1>e, <1>5, <1>6, <2>1, AnswerValues DEF CommitRow, Uploading
<1>f. CASE UnlinkDeleted
  <2>1. CASE writer' = [writer EXCEPT !.at = "row"] /\ answer' = answer
    <3>1. writer.op = "delete" /\ writer'.op = "delete" /\ rows' = rows
      BY <1>f, <1>w, <2>1 DEF UnlinkDeleted, Deleting
    <3> QED
      BY <1>6, <2>1, <3>1
  <2> QED
    BY <1>f, <1>5, <1>6, <2>1, AnswerValues DEF UnlinkDeleted, Deleting
<1>g. CASE DeleteDeletedRow
  <2>1. writer.op = "delete" /\ \E a \in {Status("ok"), Status("internal")} : Answer(writer.who, a)
    BY <1>g DEF DeleteDeletedRow, Deleting
  <2>2. writer'.op = "idle" /\ \A c \in Clients, id \in Ids : Today(c, id)' => Today(c, id)
    BY ZenonT(90), <1>3, <1>5, <2>1, AnswerValues
  <2>3. writer.who \in Jobs /\ writer.who \in DOMAIN task /\ writer.id \in task[writer.who].made
    BY <1>t, <2>1, TransferAssumption DEF OneMaker, Awaited, Waits
  <2>4. \A c \in Clients : ~HasMade(c, writer.id)
    BY ZenonT(90), <1>w, <2>1, <2>3, TransferAssumption DEF OneMaker, HasMade, Callers
  <2>5. \A id \in DOMAIN rows \ {writer.id} : id \in DOMAIN rows' /\ rows'[id] = rows[id]
    BY <1>g DEF DeleteDeletedRow, DeleteRow, Without, Restrict
  <2>6. \A c \in Clients, id \in Ids :
            Today(c, id) => id \in DOMAIN rows' /\ rows'[id] = rows[id]
    BY <1>o, <2>4, <2>5 DEF Today
  <2> QED
    BY <1>2, <2>2, <2>6
<1>h. CASE UnlinkOrphan
  <2>1. writer.op = "cleanup" /\ writer.at = "unlink" /\ answer' = answer /\ rows' = rows
    BY <1>h DEF UnlinkOrphan, Cleaning
  <2>2. \E id \in writer.todo :
           \/ writer' = [op |-> "cleanup", at |-> "row", id |-> id, todo |-> writer.todo \ {id}]
           \/ writer' = [writer EXCEPT !.todo = @ \ {id}]
    BY <1>h DEF UnlinkOrphan
  <2>3. /\ writer'.op = "cleanup"
        /\ \A i \in DOMAIN rows' :
               i \in writer'.todo \/ (writer'.at = "row" /\ writer'.id = i) => i \in writer.todo
    BY <1>w, <2>1, <2>2
  <2>4. \A i \in DOMAIN rows : i \in writer.todo => rows[i].day < day
    BY <2>1 DEF OwnFiles
  <2> QED
    BY <1>2, <1>4, <1>o, <2>1, <2>3, <2>4
<1>i. CASE DeleteOrphanRow \/ EndCleanup
  <2>1. writer.op = "cleanup" /\ answer' = answer
    BY <1>i DEF DeleteOrphanRow, EndCleanup, Cleaning
  <2>2. \/ writer'.op = "idle"
        \/ writer'.op = "cleanup" /\ writer'.at = "unlink" /\ writer'.todo = writer.todo
    BY <1>i DEF DeleteOrphanRow, EndCleanup, Idle
  <2>3. DOMAIN rows' \subseteq DOMAIN rows /\ \A id \in DOMAIN rows' : rows'[id] = rows[id]
    BY <1>i DEF DeleteOrphanRow, EndCleanup, DeleteRow, Without, Restrict
  <2>4. \A id \in DOMAIN rows \ DOMAIN rows' : writer.at = "row" /\ writer.id = id
    BY <1>i DEF DeleteOrphanRow, EndCleanup, Cleaning, DeleteRow, Without, Restrict
  <2>5. \A id \in DOMAIN rows \ DOMAIN rows' : rows[id].day < day
    BY <2>1, <2>4 DEF OwnFiles
  <2>6. \A c \in Clients, id \in Ids :
            Today(c, id) => id \in DOMAIN rows' /\ rows'[id] = rows[id]
    BY <1>t, <1>o, <2>3, <2>5
  <2>7. \A id \in DOMAIN rows : id \in writer.todo => rows[id].day < day
    BY <2>1 DEF OwnFiles
  <2> QED
    BY <1>2, <1>4, <2>1, <2>2, <2>3, <2>6, <2>7
<1> QED
  BY <1>t, <1>a, <1>b, <1>d, <1>e, <1>f, <1>g, <1>h, <1>i DEF WriterStep

(***************************************************************************)
(* Every step leaves the files of clients that still hold them in the       *)
(* store.                                                                   *)
(***************************************************************************)
LEMMA OwnFilesStep ==
    ASSUME TypeOK, MadeInv, OwnFiles, [Next]_vars
    PROVE  OwnFiles'
<1>t. /\ StoreTypeOK /\ day \in Nat /\ client \in [Clients -> ClientStates]
      /\ OneMaker /\ ItemsClaimed /\ Awaited /\ Partial(rows, Ids, [content: Stored, day: Nat])
  BY DEF TypeOK, StoreTypeOK, MadeInv
<1>d. \A c \in Clients : client[c].at # "free" => client[c].day \in Nat
  BY ClientRecords
<1>1. ASSUME NEW j \in Jobs, Submit(j)
      PROVE  OwnFiles'
  <2>1. UNCHANGED <<storeVars, client>> /\ Submitted(j)
    BY <1>1, SubmitTask DEF Submitted
  <2>2. \A c \in Clients, id \in Ids : Today(c, id)' => Today(c, id)
    BY <2>1, TransferAssumption DEF Submitted, Today, HasMade, storeVars
  <2> QED
    BY <2>1, <2>2 DEF OwnFiles, storeVars
<1>2. CASE Time
  <2>1. /\ day' = day + 1 /\ UNCHANGED <<rows, client, writer>>
    BY <1>2 DEF Time, NextDay
  <2>2. \A c \in Clients, id \in Ids : ~Today(c, id)'
    BY <1>t, <1>d, <2>1 DEF Today, OwnFiles
  <2>3. \A c \in Clients : client[c].at # "free" => client[c].day <= day + 1
    BY <1>t, <1>d DEF OwnFiles
  <2>4. \A id \in DOMAIN rows : rows[id].day \in Nat /\ (rows[id].day < day => rows[id].day < day + 1)
    BY <1>t DEF Partial
  <2> QED
    BY <2>1, <2>2, <2>3, <2>4 DEF OwnFiles
<1>6. ASSUME NEW j \in Jobs, HandlerStep(j) \/ Forsaken(j)
      PROVE  OwnFiles'
  <2>1. Handled(j)
    BY <1>6, HandlerTask
  <2>2. \A c \in Clients, id \in Ids : Today(c, id)' => Today(c, id)
    BY <2>1 DEF Handled, Today, HasMade
  <2> QED
    BY <2>1, <2>2 DEF Handled, OwnFiles
<1>3. CASE DecideCleanup \/ UNCHANGED vars
  <2>1. UNCHANGED <<rows, client, writer, answer, task, claimed, day>>
    BY <1>3 DEF DecideCleanup, vars, storeVars
  <2>2. \A c \in Clients, id \in Ids : Today(c, id)' => Today(c, id)
    BY <2>1 DEF Today, HasMade
  <2> QED
    BY <2>1, <2>2 DEF OwnFiles
<1>4. CASE Cleanup
  <2>1. /\ UNCHANGED <<rows, client, answer, task, claimed, day>>
        /\ writer' = [op |-> "cleanup", at |-> "unlink", todo |-> Orphans]
    BY <1>4 DEF Cleanup, BeginCleanup
  <2>2. \A c \in Clients, id \in Ids : Today(c, id)' => Today(c, id)
    BY <2>1 DEF Today, HasMade
  <2>3. \A id \in Orphans : rows[id].day < day
    BY <1>t DEF Orphans, FileCutoff, Partial
  <2>4. writer'.op = "cleanup" /\ writer'.at = "unlink" /\ writer'.todo = Orphans
    BY <2>1
  <2> QED
    BY <2>1, <2>2, <2>3, <2>4 DEF OwnFiles
<1>5. CASE Crash
  <2>1. /\ UNCHANGED <<rows, claimed, day>> /\ DOMAIN answer' = {} /\ DOMAIN task' = {}
        /\ writer' = Idle
        /\ \A c \in Clients : client'[c] = client[c] \/ client'[c].at = "free"
    BY <1>5 DEF Crash, CrashStore, Free
  <2>2. \A c \in Clients, id \in Ids : Today(c, id)' => Today(c, id)
    BY <2>1 DEF Today, HasMade
  <2> QED
    BY <2>1, <2>2 DEF OwnFiles, Idle
<1> QED
  BY <1>t, <1>1, <1>2, <1>3, <1>4, <1>5, <1>6, ClientStepOwn, JobStepOwn, WriterOwn DEF Next, Writer

(***************************************************************************)
(* What is attached stays so unless its item is deleted.                   *)
(***************************************************************************)
ItemsStay ==
    \A name \in DOMAIN items : name \in DOMAIN items' /\ items'[name] = items[name]

(***************************************************************************)
(* Creating an item takes nothing from the items there are.                 *)
(***************************************************************************)
LEMMA ItemsGrow ==
    ASSUME NEW name, NEW ids, CreateItem(name, ids)
    PROVE  ItemsStay
<1>1. CASE items' = items
  BY <1>1 DEF ItemsStay
<1>2. CASE items' = With(items, name, ids) /\ CreateStatus(name, ids) = "ok"
  <2>1. /\ DOMAIN items' = DOMAIN items \cup {name} /\ name \notin DOMAIN items
        /\ \A z \in DOMAIN items \ {name} : items'[z] = items[z]
    BY <1>2 DEF With, CreateStatus
  <2> QED
    BY <2>1 DEF ItemsStay
<1> QED
  BY <1>1, <1>2 DEF CreateItem

(***************************************************************************)
(* While items only grow and nothing starts to be read, what is read stays  *)
(* attached.                                                                *)
(***************************************************************************)
LEMMA ReadsKept ==
    ASSUME ReadsAttached, ItemsStay, stream' = stream,
           \A k \in DOMAIN task' :
               task'[k].at = "stream" /\ task'[k].whole =>
                   /\ k \in DOMAIN task
                   /\ task[k].at = "stream" /\ task[k].whole
                   /\ task'[k].ids \subseteq task[k].ids
                   /\ jobs'[k].name = jobs[k].name
    PROVE  ReadsAttached'
<1>1. \A id : IsAttached(id) => IsAttached(id)'
  BY DEF IsAttached, ItemsStay
<1>2. \A c \in Clients : (stream[c].id # 0 /\ stream[c].whole => IsAttached(stream[c].id))'
  BY <1>1 DEF ReadsAttached
<1>3. \A k \in DOMAIN task' :
          task'[k].at = "stream" /\ task'[k].whole =>
              jobs'[k].name \in DOMAIN items' /\ task'[k].ids \subseteq items'[jobs'[k].name]
  BY DEF ReadsAttached, ItemsStay
<1> QED
  BY <1>2, <1>3 DEF ReadsAttached

(***************************************************************************)
(* A client's step: streams and what is whole of the exports.              *)
(***************************************************************************)
LEMMA ClientStepReads ==
    ASSUME TypeOK, ReadsAttached, NEW c \in Clients, ClientStep(c)
    PROVE  ReadsAttached'
<1>t. stream \in [Clients -> Streams] /\ StoreTypeOK
  BY DEF TypeOK
<1>k. TasksSame
  BY ClientStepTask
<1>1. CASE ClientUpload(c) \/ ClientHasId(c) \/ ClientGone(c)
  <2>1. items' = items /\ UNCHANGED <<stream, task, jobs>>
    BY <1>1 DEF ClientUpload, ClientHasId, ClientGone, BeginUpload
  <2> QED
    BY <2>1, ReadsKept DEF ItemsStay
<1>2. ASSUME NEW name \in Names, ClientAttach(c, name)
      PROVE  ReadsAttached'
  <2>1. ItemsStay /\ UNCHANGED <<stream, task, jobs>>
    BY <1>2, ItemsGrow DEF ClientAttach
  <2> QED
    BY <2>1, ReadsKept
<1>3. ASSUME NEW name \in Names, ClientDelete(c, name)
      PROVE  ReadsAttached'
  <2>1. /\ DOMAIN items' = DOMAIN items \ {name}
        /\ \A z \in DOMAIN items \ {name} : items'[z] = items[z]
        /\ jobs' = jobs
    BY <1>3 DEF ClientDelete, DeleteItem, Without, Restrict
  <2>2. \A d \in Clients :
            /\ stream'[d].id = stream[d].id
            /\ stream'[d].whole => stream[d].whole /\ stream[d].id \notin items[name]
    BY <1>t, <1>3 DEF ClientDelete, Streams
  <2>3. \A d \in Clients : (stream[d].id # 0 /\ stream[d].whole => IsAttached(stream[d].id))'
    <3> SUFFICES ASSUME NEW d \in Clients, stream'[d].id # 0, stream'[d].whole
                 PROVE  \E z \in DOMAIN items' : stream'[d].id \in items'[z]
      BY DEF IsAttached
    <3>1. PICK z \in DOMAIN items : stream[d].id \in items[z]
      BY <2>2 DEF ReadsAttached, IsAttached
    <3>2. z # name
      BY <2>2, <3>1
    <3> QED
      BY <2>1, <2>2, <3>1, <3>2
  <2>4. \A k \in DOMAIN task :
            /\ task'[k].at = task[k].at /\ task'[k].ids = task[k].ids
            /\ task'[k].whole => task[k].whole /\ name # jobs[k].name
    BY <1>3, TaskRecords DEF ClientDelete, Tasks
  <2>5. \A k \in DOMAIN task' :
            task'[k].at = "stream" /\ task'[k].whole =>
                jobs'[k].name \in DOMAIN items' /\ task'[k].ids \subseteq items'[jobs'[k].name]
    BY <1>k, <2>1, <2>4 DEF TasksSame, ReadsAttached
  <2> QED
    BY <2>3, <2>5 DEF ReadsAttached
<1>4. ASSUME NEW name \in Names, BeginStream(c, name)
      PROVE  ReadsAttached'
  <2>1. UNCHANGED <<items, task, jobs>>
    BY <1>4 DEF BeginStream, storeVars
  <2>2. PICK id \in items[name] :
            stream' = [stream EXCEPT ![c] = [id |-> id, whole |-> TRUE, seen |-> "none"]]
    BY <1>4 DEF BeginStream
  <2>3. /\ stream'[c].id = id
        /\ \A d \in Clients \ {c} : stream'[d] = stream[d]
    BY <1>t, <2>2
  <2>4. IsAttached(id)
    BY <1>4 DEF BeginStream, IsAttached
  <2>5. \A d \in Clients : stream'[d].id # 0 /\ stream'[d].whole => IsAttached(stream'[d].id)
    BY <2>3, <2>4 DEF ReadsAttached
  <2> QED
    BY <2>1, <2>5 DEF ReadsAttached, IsAttached
<1>5. CASE OpenStream(c)
  <2>1. UNCHANGED <<items, task, jobs>>
    BY <1>5 DEF OpenStream, storeVars
  <2>2. stream'[c].id = 0 /\ \A d \in Clients \ {c} : stream'[d] = stream[d]
    BY <1>t, <1>5 DEF OpenStream, Streams
  <2>3. \A d \in Clients : stream'[d].id # 0 /\ stream'[d].whole => IsAttached(stream'[d].id)
    BY <2>2 DEF ReadsAttached
  <2> QED
    BY <2>1, <2>3 DEF ReadsAttached, IsAttached
<1> QED
  BY <1>1, <1>2, <1>3, <1>4, <1>5 DEF ClientStep

(***************************************************************************)
(* A job's step leaves what is being read attached to an item.              *)
(***************************************************************************)
LEMMA JobStepReads ==
    ASSUME TypeOK, ReadsAttached, NEW j \in Jobs, JobStep(j)
    PROVE  ReadsAttached'
<1>f. /\ j \in DOMAIN task /\ task[j] \in Tasks
      /\ DOMAIN task' = DOMAIN task
      /\ \A k \in DOMAIN task \ {j} : task'[k] = task[k]
      /\ j \in DOMAIN jobs /\ jobs[j] \in JobRows
      /\ \A k \in DOMAIN jobs \ {j} : jobs'[k] = jobs[k]
      /\ task = [k \in DOMAIN task |-> task[k]] /\ DOMAIN task \subseteq DOMAIN jobs
      /\ jobs = [k \in DOMAIN jobs |-> jobs[k]]
      /\ stream' = stream
  BY SMTT(60), JobStepTask, TaskRecords DEF TypeOK, Partial
<1>i. ItemsStay
  <2>1. CASE items' = items
    BY <2>1 DEF ItemsStay
  <2> QED
    BY <2>1, ItemsGrow DEF JobStep, RunJob, ParseFile, ParsedFile, ParseEnd, ImportItem,
       CleanNewFile, CleanedFile, CleanEnd, ExportSnapshot, ExportFile, PersistExport, MarkJob,
       RemarkJob, BeginUpload, BeginDelete, storeVars
<1>1. ASSUME task'[j].at # "stream"
      PROVE  ReadsAttached'
  BY <1>f, <1>i, <1>1, ReadsKept
<1>2. ASSUME NEW at, at # "stream", GoTo(j, at) \/ FailTo(j, at)
      PROVE  ReadsAttached'
  BY <1>f, <1>1, <1>2 DEF GoTo, FailTo, Tasks
<1>a. CASE \/ RunJob(j) \/ ParseEnd(j) \/ ImportItem(j) \/ CleanedFile(j) \/ CleanEnd(j)
           \/ PersistExport(j) \/ MarkJob(j) \/ RemarkJob(j)
  BY <1>2, <1>a DEF RunJob, ParseEnd, ImportItem, CleanedFile, CleanEnd, PersistExport, MarkJob,
                    RemarkJob, EndJob
<1>b. CASE ParseFile(j)
  <2>1. CASE task' = [task EXCEPT ![j].at = "upload", ![j].left = Tail(@)]
    BY <1>f, <1>1, <2>1 DEF Tasks
  <2> QED
    BY <1>b, <1>2, <2>1 DEF ParseFile
<1>c. CASE ParsedFile(j)
  <2>1. task'[j].at \in {"parse", "clean"}
    BY <1>f, <1>c DEF ParsedFile, FailTo, Tasks
  <2> QED
    BY <1>1, <2>1
<1>d. CASE CleanNewFile(j)
  <2>1. task'[j].at = "cleaning"
    BY <1>f, <1>d DEF CleanNewFile, Tasks
  <2> QED
    BY <1>1, <2>1
<1>e. CASE ExportSnapshot(j)
  <2>0. UNCHANGED <<items, jobs>>
    BY <1>e DEF ExportSnapshot, storeVars
  <2>1. CASE jobs[j].name \in DOMAIN items
    <3>1. task' = [task EXCEPT ![j].at = "stream", ![j].ids = items[jobs[j].name],
                               ![j].whole = TRUE]
      BY <1>e, <2>1 DEF ExportSnapshot
    <3>2. task'[j].ids = items[jobs[j].name]
      BY <1>f, <3>1 DEF Tasks
    <3> QED
      BY <1>f, <2>0, <2>1, <3>2 DEF ReadsAttached, IsAttached
  <2>2. CASE jobs[j].name \notin DOMAIN items
    <3>1. task'[j].at = "mark"
      BY <1>f, <1>e, <2>2 DEF ExportSnapshot, Tasks
    <3> QED
      BY <1>1, <3>1
  <2> QED
    BY <2>1, <2>2
<1>g. CASE ExportFile(j)
  <2>0. UNCHANGED <<items, jobs>>
    BY <1>g DEF ExportFile, storeVars
  <2>1. PICK id \in task[j].ids :
           IF CanOpen(id)
           THEN task' = [task EXCEPT ![j].ids = @ \ {id}, ![j].left = Append(@, blobs[id])]
           ELSE FailTo(j, "mark")
    BY <1>g DEF ExportFile
  <2>2. CASE task' = [task EXCEPT ![j].ids = @ \ {id}, ![j].left = Append(@, blobs[id])]
    <3>1. /\ task'[j].at = task[j].at /\ task'[j].whole = task[j].whole
          /\ task'[j].ids = task[j].ids \ {id}
      BY <1>f, <2>2 DEF Tasks
    <3> QED
      BY <1>f, <1>i, <2>0, <3>1, ReadsKept
  <2> QED
    BY <1>2, <2>1, <2>2
<1> QED
  BY <1>a, <1>b, <1>c, <1>d, <1>e, <1>g DEF JobStep

(***************************************************************************)
(* Every step leaves what is being read attached to an item.                *)
(***************************************************************************)
LEMMA ReadsStep ==
    ASSUME TypeOK, ReadsAttached, [Next]_vars
    PROVE  ReadsAttached'
<1>1. ASSUME NEW j \in Jobs, Submit(j)
      PROVE  ReadsAttached'
  <2>1. Submitted(j) /\ UNCHANGED <<items, stream>>
    BY <1>1, SubmitTask DEF Submitted, storeVars
  <2> QED
    BY <2>1, ReadsKept DEF Submitted, ItemsStay
<1>4. ASSUME NEW j \in Jobs, HandlerStep(j) \/ Forsaken(j)
      PROVE  ReadsAttached'
  <2>1. Handled(j)
    BY <1>4, HandlerTask
  <2> QED
    BY <2>1, ReadsKept DEF Handled, ItemsStay
<1>2. CASE Time \/ UNCHANGED vars \/ DecideCleanup \/ Cleanup \/ Writer
  <2>1. UNCHANGED <<items, stream, task, jobs>>
    BY <1>2 DEF Time, NextDay, vars, storeVars, DecideCleanup, Cleanup, BeginCleanup, Writer, WriterStep,
       RefuseBody, BodyWriteFails, Deduplicate, RenameBlob, CommitRow, UnlinkDeleted,
       DeleteDeletedRow, UnlinkOrphan, DeleteOrphanRow, EndCleanup
  <2> QED
    BY <2>1, ReadsKept DEF ItemsStay
<1>3. CASE Crash
  <2>1. DOMAIN task' = {} /\ \A c \in Clients : stream'[c].id = 0
    BY <1>3 DEF Crash, NoStream
  <2> QED
    BY <2>1 DEF ReadsAttached
<1> QED
  BY <1>1, <1>2, <1>3, <1>4, ClientStepReads, JobStepReads DEF Next

(***************************************************************************)
(* A blob that somebody was promised is opened.                            *)
(***************************************************************************)
LEMMA OpensStep ==
    ASSUME TypeOK, KindsApart, RowsReadable, ReadsAttached, Unharmed, DownloadsSurvive, [Next]_vars
    PROVE  DownloadsSurvive'
<1> SUFFICES ASSUME Unharmed'
             PROVE  /\ \A c \in Clients : stream'[c].seen = "error" => ~stream'[c].whole
                    /\ \A j \in DOMAIN task' :
                           task'[j].kind = "export" /\ task'[j].failed => ~task'[j].whole
  BY DEF DownloadsSurvive
<1>t. /\ stream \in [Clients -> Streams] /\ StoreTypeOK
      /\ \A c \in Clients : stream[c].seen = "error" => ~stream[c].whole
      /\ \A j \in DOMAIN task : task[j].kind = "export" /\ task[j].failed => ~task[j].whole
  BY DEF TypeOK, DownloadsSurvive
<1>h. ~Harm("disk")
  BY <1>t, HarmType DEF Unharmed
<1>o. \A id : IsAttached(id) => CanOpen(id)
  BY DEF RowsReadable, Going, Readable, IsAttached, CanOpen
<1>1. ASSUME UNCHANGED <<stream, task>>
      PROVE  /\ \A c \in Clients : stream'[c].seen = "error" => ~stream'[c].whole
             /\ \A j \in DOMAIN task' :
                    task'[j].kind = "export" /\ task'[j].failed => ~task'[j].whole
  BY SMTT(60), <1>t, <1>1
<1>2. ASSUME NEW c \in Clients, ClientStep(c)
      PROVE  /\ \A d \in Clients : stream'[d].seen = "error" => ~stream'[d].whole
             /\ \A j \in DOMAIN task' :
                    task'[j].kind = "export" /\ task'[j].failed => ~task'[j].whole
  <2>1. CASE UNCHANGED <<stream, task>>
    BY <1>1, <2>1
  <2>2. ASSUME NEW name \in Names, ClientDelete(c, name)
        PROVE  /\ \A d \in Clients : stream'[d].seen = "error" => ~stream'[d].whole
               /\ \A j \in DOMAIN task' :
                      task'[j].kind = "export" /\ task'[j].failed => ~task'[j].whole
    <3>1. \A d \in Clients : stream'[d].seen = stream[d].seen /\ (stream'[d].whole => stream[d].whole)
      BY <1>t, <2>2 DEF ClientDelete, Streams
    <3>2. /\ DOMAIN task' = DOMAIN task
          /\ \A j \in DOMAIN task :
                 /\ task'[j].kind = task[j].kind /\ task'[j].failed = task[j].failed
                 /\ task'[j].whole => task[j].whole
      BY <2>2, TaskRecords DEF ClientDelete, Tasks
    <3> QED
      BY <1>t, <3>1, <3>2
  <2>3. ASSUME NEW name \in Names, BeginStream(c, name)
        PROVE  /\ \A d \in Clients : stream'[d].seen = "error" => ~stream'[d].whole
               /\ \A j \in DOMAIN task' :
                      task'[j].kind = "export" /\ task'[j].failed => ~task'[j].whole
    <3>1. stream'[c].seen = "none" /\ \A d \in Clients \ {c} : stream'[d] = stream[d]
      BY <1>t, <2>3 DEF BeginStream, Streams
    <3>2. task' = task
      BY <2>3 DEF BeginStream
    <3> QED
      BY <1>t, <3>1, <3>2
  <2>4. CASE OpenStream(c)
    <3>1. /\ stream'[c].whole = stream[c].whole
          /\ stream'[c].seen = IF CanOpen(stream[c].id) THEN "file" ELSE "error"
          /\ \A d \in Clients \ {c} : stream'[d] = stream[d]
      BY <1>t, <2>4 DEF OpenStream, Streams
    <3>2. stream[c].whole => CanOpen(stream[c].id)
      BY <1>o, <2>4 DEF OpenStream, ReadsAttached
    <3>3. task' = task
      BY <2>4 DEF OpenStream
    <3> QED
      BY <1>t, <3>1, <3>2, <3>3
  <2> QED
    BY <1>2, <2>1, <2>2, <2>3, <2>4 DEF ClientStep, ClientUpload, ClientHasId, ClientGone,
                                        ClientAttach
<1>3. ASSUME NEW j \in Jobs, Submit(j)
      PROVE  /\ \A d \in Clients : stream'[d].seen = "error" => ~stream'[d].whole
             /\ \A k \in DOMAIN task' :
                    task'[k].kind = "export" /\ task'[k].failed => ~task'[k].whole
  BY <1>t, <1>3, SubmitTask DEF Submitted
<1>7. ASSUME NEW j \in Jobs, HandlerStep(j) \/ Forsaken(j)
      PROVE  /\ \A d \in Clients : stream'[d].seen = "error" => ~stream'[d].whole
             /\ \A k \in DOMAIN task' :
                    task'[k].kind = "export" /\ task'[k].failed => ~task'[k].whole
  BY <1>t, <1>7, HandlerTask DEF Handled
<1>4. CASE Time \/ UNCHANGED vars \/ DecideCleanup \/ Cleanup \/ Writer
  BY <1>1, <1>4 DEF Time, vars, DecideCleanup, Cleanup, Writer
<1>5. CASE Crash
  BY <1>5, <1>t, HarmType DEF Crash, CrashStore, Unharmed
<1>6. ASSUME NEW j \in Jobs, JobStep(j)
      PROVE  /\ \A d \in Clients : stream'[d].seen = "error" => ~stream'[d].whole
             /\ \A k \in DOMAIN task' :
                    task'[k].kind = "export" /\ task'[k].failed => ~task'[k].whole
  <2>f. /\ j \in DOMAIN task /\ task[j] \in Tasks
        /\ DOMAIN task' = DOMAIN task
        /\ \A k \in DOMAIN task \ {j} : task'[k] = task[k]
        /\ task = [k \in DOMAIN task |-> task[k]]
        /\ stream' = stream
    BY <1>6, JobStepTask, TaskRecords DEF TypeOK, Partial
  <2>k. /\ task[j].at \in {"parse", "upload", "create", "clean", "cleaning"}
              => task[j].kind = "import"
        /\ task[j].at \in {"queued", "parse", "upload", "create", "snapshot", "stream"}
              => ~task[j].failed
    BY <2>f DEF KindsApart
  <2> SUFFICES task'[j].kind = "export" /\ task'[j].failed => ~task'[j].whole
    BY <1>t, <2>f
  <2>1. ASSUME NEW at, GoTo(j, at)
        PROVE  task'[j].kind = "export" /\ task'[j].failed => ~task'[j].whole
    BY <1>t, <2>1, <2>f DEF GoTo, Tasks
  <2>2. CASE task[j].at \in {"parse", "upload", "create", "clean", "cleaning"}
    <3>1. task'[j].kind = task[j].kind
      <4>1. CASE ParseFile(j)
        <5>1. CASE task' = [task EXCEPT ![j].at = "upload", ![j].left = Tail(@)]
          BY <2>f, <5>1 DEF Tasks
        <5> QED
          BY ZenonT(90), <2>f, <4>1, <5>1 DEF ParseFile, GoTo, Tasks
      <4>2. CASE ParsedFile(j)
        BY <2>f, <4>2 DEF ParsedFile, FailTo, Tasks
      <4>3. CASE ParseEnd(j) \/ ImportItem(j) \/ CleanedFile(j) \/ CleanEnd(j)
        BY <2>f, <4>3 DEF ParseEnd, ImportItem, CleanedFile, CleanEnd, GoTo, FailTo, Tasks
      <4>4. CASE CleanNewFile(j)
        BY <2>f, <4>4 DEF CleanNewFile, Tasks
      <4> QED
        BY <1>6, <2>2, <4>1, <4>2, <4>3, <4>4 DEF JobStep, RunJob, ExportSnapshot, ExportFile,
           PersistExport, MarkJob, RemarkJob, At
    <3> QED
      BY <2>2, <2>k, <3>1
  <2>3. CASE RunJob(j) \/ MarkJob(j) \/ PersistExport(j)
    BY <1>h, <2>1, <2>3 DEF RunJob, MarkJob, PersistExport, EndJob
  <2>4. CASE RemarkJob(j)
    BY <2>1, <2>4 DEF RemarkJob, EndJob
  <2>5. CASE ExportSnapshot(j)
    <3>1. CASE jobs[j].name \in DOMAIN items
      <4>1. task' = [task EXCEPT ![j].at = "stream", ![j].ids = items[jobs[j].name],
                                 ![j].whole = TRUE]
        BY <2>5, <3>1 DEF ExportSnapshot
      <4>2. task'[j].failed = task[j].failed /\ task[j].at = "snapshot"
        BY <2>f, <2>5, <4>1 DEF ExportSnapshot, At, Tasks
      <4> QED
        BY <2>k, <4>2
    <3>2. CASE jobs[j].name \notin DOMAIN items
      <4>1. task' = [task EXCEPT ![j].at = "mark", ![j].failed = TRUE, ![j].whole = FALSE]
        BY <2>5, <3>2 DEF ExportSnapshot
      <4>2. ~task'[j].whole
        BY <2>f, <4>1 DEF Tasks
      <4> QED
        BY <4>2
    <3> QED
      BY <3>1, <3>2
  <2>6. CASE ExportFile(j)
    <3>0. task[j].at = "stream"
      BY <2>6 DEF ExportFile, At
    <3>1. PICK id \in task[j].ids :
             IF CanOpen(id)
             THEN task' = [task EXCEPT ![j].ids = @ \ {id}, ![j].left = Append(@, blobs[id])]
             ELSE FailTo(j, "mark")
      BY <2>6 DEF ExportFile
    <3>2. CASE CanOpen(id)
      <4>1. task' = [task EXCEPT ![j].ids = @ \ {id}, ![j].left = Append(@, blobs[id])]
        BY <3>1, <3>2
      <4>2. task'[j].failed = task[j].failed
        BY <2>f, <4>1 DEF Tasks
      <4> QED
        BY <2>k, <3>0, <4>2
    <3>3. CASE ~CanOpen(id)
      <4>1. ~task[j].whole
        <5>1. ~IsAttached(id)
          BY <1>o, <3>3
        <5> QED
          BY <2>f, <3>0, <3>1, <5>1 DEF ReadsAttached, IsAttached
      <4>2. task'[j].whole = task[j].whole
        BY <2>f, <3>1, <3>3 DEF FailTo, Tasks
      <4> QED
        BY <4>1, <4>2
    <3> QED
      BY <3>2, <3>3
  <2> QED
    BY <1>6, <2>2, <2>3, <2>4, <2>5, <2>6 DEF JobStep, ParseFile, ParsedFile, ParseEnd, ImportItem,
       CleanNewFile, CleanedFile, CleanEnd, At
<1> QED
  BY <1>2, <1>3, <1>4, <1>5, <1>6, <1>7 DEF Next

(***************************************************************************)
(* What was given stays: a client keeps for the day the file its own       *)
(* upload created, and a download or an export that was promised a file    *)
(* gets it, unless the item is deleted under it (state.rs:4295-4338,       *)
(* controller.rs's get_reference, export.rs).                              *)
(***************************************************************************)
THEOREM FilesGivenStay == Spec => []GivenFilesStay
<1>1. Init => GivenInv
  <2> SUFFICES ASSUME Init
               PROVE  GivenInv
    OBVIOUS
  <2>1. /\ DOMAIN task = {} /\ writer = Idle
        /\ \A c \in Clients : client[c].at = "free"
        /\ \A c \in Clients : stream[c].id = 0 /\ ~stream[c].whole
    BY DEF Init, InitStore, Free, NoStream
  <2> QED
    BY <2>1 DEF GivenInv, OwnFiles, Today, ReadsAttached, DownloadsSurvive, Idle
<1>2. LeavingsInv /\ GivenInv /\ [Next]_vars => GivenInv'
  <2> SUFFICES ASSUME LeavingsInv, GivenInv, [Next]_vars
               PROVE  GivenInv'
    OBVIOUS
  <2>1. /\ TypeOK /\ MadeInv /\ KindsApart /\ OwnFiles /\ ReadsAttached /\ DownloadsSurvive
        /\ Intact => RowsReadable
    BY DEF LeavingsInv, ReadableInv, MadeInv, GivenInv
  <2>2. OwnFiles' /\ ReadsAttached'
    BY <2>1, OwnFilesStep, ReadsStep
  <2>3. DownloadsSurvive'
    <3>1. CASE Unharmed'
      <4>1. Unharmed /\ RowsReadable
        BY <2>1, <3>1, HarmStays DEF Unharmed, Intact
      <4> QED
        BY <2>1, <4>1, OpensStep
    <3>2. CASE ~Unharmed'
      BY <3>2 DEF DownloadsSurvive
    <3> QED
      BY <3>1, <3>2
  <2> QED
    BY <2>2, <2>3 DEF GivenInv
<1>3. LeavingsInv /\ GivenInv => GivenFilesStay
  <2> SUFFICES ASSUME LeavingsInv, GivenInv, NEW c \in Clients,
                      client[c].at = "holds", client[c].new, client[c].day = day,
                      client[c].id \notin claimed
               PROVE  client[c].id \in DOMAIN rows
    BY DEF GivenFilesStay, GivenInv, OwnUploadKept, Keeps
  <2>1. client[c].id \in Ids
    BY ClientRecords DEF LeavingsInv, ReadableInv
  <2>2. Today(c, client[c].id)
    BY DEF Today, HasMade
  <2> QED
    BY <2>1, <2>2 DEF GivenInv, OwnFiles
<1> QED
  BY <1>1, <1>2, <1>3, LeavingsInvariant, PTL DEF Spec
=============================================================================
