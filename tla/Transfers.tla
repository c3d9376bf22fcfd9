------------------------------ MODULE Transfers ------------------------------
(***************************************************************************)
(* What uses the file store: clients that upload a file, attach it to an   *)
(* item and read it back (agent/controller.rs), and the import and export  *)
(* jobs that run as tasks of the agent (agent/import.rs, agent/export.rs). *)
(*                                                                         *)
(* An import's archive is the contents of its files in order, with what is *)
(* wrong with it: the file after the listed ones does not match its        *)
(* checksum ("file"), the archive does not end as it should ("end"), or    *)
(* nothing ("none").  A parse that fails on the manifest is the failure of *)
(* an archive with no files.                                               *)
(***************************************************************************)
EXTENDS FileStore, Sequences

CONSTANTS
    Clients,        \* the clients that upload, attach and read files
    Jobs,           \* job ids
    Archives,       \* what imports are given
    StraySource,    \* the content of a file whose checksum is wrong
    MaxUploads      \* bound: how many uploads a client begins

(***************************************************************************)
(* What a file or an archive may contain.  Id 0 stands for no file.        *)
(***************************************************************************)
Stored == Contents \cup {StraySource}

Flaws == {"none", "file", "end"}

ASSUME TransferAssumption ==
    /\ Ids \subseteq Nat \ {0}
    /\ Archives \subseteq [files: Seq(Stored), flaw: Flaws]
    /\ Clients \cap Jobs = {}
    /\ Nobody \notin Clients \cup Jobs

VARIABLES
    client,     \* what each client is doing, and the file id it
                \* holds since an upload that began on client[c].day
    stream,     \* each client's download that has not opened its blob yet
    jobs,       \* job id -> what it is to do, and the status of its row in
                \* the table jobs ("none" if it has no row)
    task,       \* job id -> its handler or task in this agent, with active_jobs
    spool,      \* jobs whose spooled archive is still in the temp directory
    output,     \* job id -> the contents of the archive it exported
    due         \* a sweep has found no work and sends for a cleanup

vars == <<storeVars, client, stream, jobs, task, spool, output, due>>

Free(n) == [at |-> "free", uploads |-> n]
NoStream == [id |-> 0, whole |-> FALSE, seen |-> "none"]

Active == {j \in DOMAIN task : task[j].at # "ended"}

(***************************************************************************)
(* Ids are random: a new one is none that a row, a file or a caller has,   *)
(* and which of those it is makes no difference.                           *)
(***************************************************************************)
HeldIds ==
    {client[c].id : c \in {d \in Clients : client[d].at = "holds"}}
    \cup {stream[c].id : c \in Clients}
    \cup {answer[w].id : w \in {v \in DOMAIN answer : answer[v].status = "ok"
                                                     /\ "id" \in DOMAIN answer[v]}}
    \cup UNION {task[j].ids \cup task[j].made : j \in DOMAIN task}

FreshIds == Ids \ (DOMAIN rows \cup DOMAIN blobs \cup temps \cup HeldIds)

NewId == CHOOSE id \in FreshIds : TRUE

(***************************************************************************)
(* controller create_file: the handler streams the body to the writer and  *)
(* waits.  When the client goes away the handler is dropped; the task it   *)
(* spawned goes on, with the part of the body that was sent.               *)
(***************************************************************************)
ClientUpload(c) ==
    /\ client[c].at = "free"
    /\ client[c].uploads < MaxUploads
    /\ FreshIds # {}
    /\ \E content \in Contents, sound \in BOOLEAN :
           BeginUpload(c, NewId, content, sound)
    /\ client' = [client EXCEPT ![c] = [at |-> "upload", uploads |-> @.uploads + 1,
                                            day |-> day]]
    /\ UNCHANGED <<stream, jobs, task, spool, output, due>>

ClientHasId(c) ==
    /\ client[c].at = "upload"
    /\ TakeAnswer(c)
    /\ client' = [client EXCEPT ![c] =
           IF answer[c].status = "ok"
           THEN [at |-> "holds", uploads |-> @.uploads, id |-> answer[c].id, new |-> answer[c].new,
                 day |-> @.day]
           ELSE Free(@.uploads)]
    /\ UNCHANGED <<rows, blobs, temps, items, claimed, writer, day, harm>>
    /\ UNCHANGED <<stream, jobs, task, spool, output, due>>

ClientGone(c) ==
    /\ client[c].at = "upload"
    /\ client' = [client EXCEPT ![c] = Free(@.uploads)]
    /\ IF writer.op = "upload" /\ writer.who = c
       THEN /\ \E sent \in BOOLEAN :
                   writer' = [writer EXCEPT !.who = Nobody,
                                            !.sound = @ /\ sent]
            /\ UNCHANGED answer
       ELSE TakeAnswer(c) /\ UNCHANGED writer
    /\ UNCHANGED <<rows, blobs, temps, items, claimed, day, harm>>
    /\ UNCHANGED <<stream, jobs, task, spool, output, due>>

(***************************************************************************)
(* create_item with the id the client holds, and delete_item.              *)
(***************************************************************************)
ClientAttach(c, name) ==
    /\ client[c].at = "holds"
    /\ CreateItem(name, {client[c].id})
    /\ client' = [client EXCEPT ![c] = Free(@.uploads)]
    /\ UNCHANGED <<stream, jobs, task, spool, output, due>>

ClientDelete(c, name) ==
    /\ client[c].at = "free"
    /\ DeleteItem(name)
    /\ stream' = [d \in Clients |->
           [stream[d] EXCEPT !.whole = @ /\ stream[d].id \notin items[name]]]
    /\ task' = [j \in DOMAIN task |->
           [task[j] EXCEPT !.whole = @ /\ name # jobs[j].name]]
    /\ UNCHANGED <<client, jobs, spool, output, due>>

(***************************************************************************)
(* get_reference: the row is read, the answer begins, and a thread of its  *)
(* own opens the blob.  whole remembers that the file has stayed attached  *)
(* since.                                                                  *)
(***************************************************************************)
BeginStream(c, name) ==
    /\ stream[c].id = 0
    /\ name \in DOMAIN items
    /\ \E id \in items[name] :
           stream' = [stream EXCEPT ![c] = [id |-> id, whole |-> TRUE, seen |-> "none"]]
    /\ UNCHANGED <<storeVars, client, jobs, task, spool, output, due>>

OpenStream(c) ==
    /\ stream[c].id # 0
    /\ stream' = [stream EXCEPT
           ![c] = [id |-> 0, whole |-> @.whole,
                   seen |-> IF CanOpen(@.id) THEN "file" ELSE "error"]]
    /\ UNCHANGED <<storeVars, client, jobs, task, spool, output, due>>

(***************************************************************************)
(* A task's ids are the files of its item; mine are the files it created   *)
(* and has not deleted again.  made and whole are history: all the files   *)
(* it created, and whether its item stayed as it was exported.             *)
(***************************************************************************)
NewTask(kind, at) == [kind |-> kind, at |-> at, left |-> <<>>, ids |-> {},
                      mine |-> {}, made |-> {}, flaw |-> "none", whole |-> TRUE,
                      failed |-> FALSE]

At(j, at) == j \in DOMAIN task /\ task[j].at = at

GoTo(j, at) == task' = [task EXCEPT ![j].at = at]
FailTo(j, at) == task' = [task EXCEPT ![j].at = at, ![j].failed = TRUE]

SetStatus(j, status) == jobs' = [jobs EXCEPT ![j].status = status]

(***************************************************************************)
(* import_item and export_item: the body of an import is spooled, the job  *)
(* registered as active, and the writer asked to create its row.           *)
(***************************************************************************)
SubmitImport(j, name, archive) ==
    /\ j \notin DOMAIN jobs
    /\ jobs' = With(jobs, j, [kind |-> "import", status |-> "none", name |-> name])
    /\ task' = With(task, j, [NewTask("import", "creating") EXCEPT
                                 !.left = archive.files, !.flaw = archive.flaw])
    /\ spool' = spool \cup {j}
    /\ UNCHANGED <<storeVars, client, stream, output, due>>

SubmitExport(j, name) ==
    /\ j \notin DOMAIN jobs
    /\ jobs' = With(jobs, j, [kind |-> "export", status |-> "none", name |-> name])
    /\ task' = With(task, j, NewTask("export", "creating"))
    /\ UNCHANGED <<storeVars, client, stream, spool, output, due>>

(***************************************************************************)
(* create_import_job and create_export_job: the row is inserted as queued, *)
(* unless an export's item is not there or the insertion fails.            *)
(***************************************************************************)
HasSource(j) == jobs[j].kind = "import" \/ jobs[j].name \in DOMAIN items

InsertJob(j, made, refused) ==
    /\ writer = Idle
    /\ \/ HasSource(j) /\ SetStatus(j, "queued") /\ GoTo(j, made) /\ UNCHANGED harm
       \/ ~HasSource(j) /\ GoTo(j, refused) /\ UNCHANGED <<jobs, harm>>
       \/ Harm("disk") /\ GoTo(j, refused) /\ UNCHANGED jobs
    /\ UNCHANGED <<rows, blobs, temps, items, claimed, writer, answer, day>>
    /\ UNCHANGED <<client, stream, spool, output, due>>

CreateJob(j) == At(j, "creating") /\ InsertJob(j, "created", "refused")

(***************************************************************************)
(* With the answer, the handler spawns the job's task, or takes the job    *)
(* back: nothing is registered or spooled any more.                        *)
(***************************************************************************)
EndJob(j) ==
    /\ GoTo(j, "ended")
    /\ spool' = spool \ {j}

SpawnJob(j) ==
    /\ At(j, "created")
    /\ GoTo(j, "queued")
    /\ UNCHANGED <<storeVars, client, stream, jobs, spool, output, due>>

RefuseJob(j) ==
    /\ At(j, "refused")
    /\ EndJob(j)
    /\ UNCHANGED <<storeVars, client, stream, jobs, output, due>>

(***************************************************************************)
(* A handler whose client goes away is dropped where it waits: the job     *)
(* stays registered and spooled, nothing will run it, and the writer may   *)
(* still create its row.                                                   *)
(***************************************************************************)
SubmitterGone(j) ==
    /\ j \in DOMAIN task
    /\ task[j].at \in {"creating", "created", "refused"}
    /\ GoTo(j, IF task[j].at = "creating" THEN "leaving" ELSE "left")
    /\ UNCHANGED <<storeVars, client, stream, jobs, spool, output, due>>

LateJobRow(j) == At(j, "leaving") /\ InsertJob(j, "left", "left")

(***************************************************************************)
(* The steps of an import's task: mark_job_running, parse_export (one      *)
(* create_file after the other), create_item, and on a failure             *)
(* cleanup_new_files.                                                      *)
(***************************************************************************)
(***************************************************************************)
(* mark_job_running; when it fails the job is marked failed at once.       *)
(***************************************************************************)
RunJob(j) ==
    /\ At(j, "queued")
    /\ writer = Idle
    /\ \/ /\ SetStatus(j, "running")
          /\ GoTo(j, IF task[j].kind = "import" THEN "parse" ELSE "snapshot")
          /\ UNCHANGED harm
       \/ /\ Harm("disk")
          /\ FailTo(j, "remark")
          /\ UNCHANGED jobs
    /\ UNCHANGED <<rows, blobs, temps, items, claimed, writer, answer, day>>
    /\ UNCHANGED <<client, stream, spool, output, due>>

(***************************************************************************)
(* stream_file_to_database for the next file, and what parse_export does   *)
(* with the answer.                                                        *)
(***************************************************************************)
ParseFile(j) ==
    /\ At(j, "parse")
    /\ FreshIds # {}
    /\ \/ /\ task[j].left # <<>>
          /\ BeginUpload(j, NewId, Head(task[j].left), TRUE)
          /\ task' = [task EXCEPT ![j].at = "upload", ![j].left = Tail(@)]
       \/ /\ task[j].left = <<>>
          /\ task[j].flaw = "file"
          /\ BeginUpload(j, NewId, StraySource, FALSE)
          /\ GoTo(j, "upload")
    /\ UNCHANGED <<client, stream, jobs, spool, output, due>>

ParsedFileLeaving(j) ==
    /\ At(j, "upload")
    /\ TakeAnswer(j)
    /\ IF answer[j].status = "ok"
       THEN task' = [task EXCEPT
                ![j].at = "parse", ![j].ids = @ \cup {answer[j].id},
                ![j].mine = IF answer[j].new THEN @ \cup {answer[j].id} ELSE @,
                ![j].made = IF answer[j].new THEN @ \cup {answer[j].id} ELSE @]
       ELSE FailTo(j, "mark")
    /\ UNCHANGED <<rows, blobs, temps, items, claimed, writer, day, harm>>
    /\ UNCHANGED <<client, stream, jobs, spool, output, due>>

ParsedFile(j) ==
    /\ At(j, "upload")
    /\ TakeAnswer(j)
    /\ IF answer[j].status = "ok"
       THEN task' = [task EXCEPT
                ![j].at = "parse", ![j].ids = @ \cup {answer[j].id},
                ![j].mine = IF answer[j].new THEN @ \cup {answer[j].id} ELSE @,
                ![j].made = IF answer[j].new THEN @ \cup {answer[j].id} ELSE @]
       ELSE FailTo(j, "clean")
    /\ UNCHANGED <<rows, blobs, temps, items, claimed, writer, day, harm>>
    /\ UNCHANGED <<client, stream, jobs, spool, output, due>>

ParseEnd(j) ==
    /\ At(j, "parse")
    /\ task[j].left = <<>>
    /\ \/ task[j].flaw = "end" /\ FailTo(j, "clean")
       \/ task[j].flaw = "none" /\ GoTo(j, "create")
    /\ UNCHANGED <<storeVars, client, stream, jobs, spool, output, due>>

ImportItem(j) ==
    /\ At(j, "create")
    /\ \/ /\ CreateItem(jobs[j].name, task[j].ids)
          /\ IF CreateStatus(jobs[j].name, task[j].ids) = "ok"
             THEN GoTo(j, "mark")
             ELSE FailTo(j, "clean")
       \/ /\ writer = Idle
          /\ Harm("disk")
          /\ FailTo(j, "clean")
          /\ UNCHANGED <<rows, blobs, temps, items, claimed, writer, answer, day>>
    /\ UNCHANGED <<client, stream, jobs, spool, output, due>>

(***************************************************************************)
(* cleanup_new_files: the files this import created, one after the other,  *)
(* whether or not a deletion fails.                                        *)
(***************************************************************************)
CleanNewFile(j) ==
    /\ At(j, "clean")
    /\ \E id \in task[j].mine :
           /\ BeginDelete(j, id)
           /\ task' = [task EXCEPT ![j].at = "cleaning", ![j].mine = @ \ {id}]
    /\ UNCHANGED <<client, stream, jobs, spool, output, due>>

CleanedFile(j) ==
    /\ At(j, "cleaning")
    /\ TakeAnswer(j)
    /\ GoTo(j, "clean")
    /\ UNCHANGED <<rows, blobs, temps, items, claimed, writer, day, harm>>
    /\ UNCHANGED <<client, stream, jobs, spool, output, due>>

CleanEndUnmarked(j) ==
    /\ At(j, "clean")
    /\ task[j].mine = {}
    /\ GoTo(j, "ended")
    /\ UNCHANGED <<storeVars, client, stream, jobs, spool, output, due>>

CleanEnd(j) ==
    /\ At(j, "clean")
    /\ task[j].mine = {}
    /\ GoTo(j, "mark")
    /\ UNCHANGED <<storeVars, client, stream, jobs, spool, output, due>>

(***************************************************************************)
(* run_export_job: export_snapshot reads the item's row in one transaction *)
(* of a reader; its blobs are opened one after the other as the archive is *)
(* written, and each must give the size and checksum of its row; then the  *)
(* finished archive is put in the job's directory.                         *)
(***************************************************************************)
ExportSnapshot(j) ==
    /\ At(j, "snapshot")
    /\ IF jobs[j].name \in DOMAIN items
       THEN task' = [task EXCEPT ![j].at = "stream", ![j].ids = items[jobs[j].name],
                                 ![j].whole = TRUE]
       ELSE task' = [task EXCEPT ![j].at = "mark", ![j].failed = TRUE,
                                 ![j].whole = FALSE]
    /\ UNCHANGED <<storeVars, client, stream, jobs, spool, output, due>>

ExportFile(j) ==
    /\ At(j, "stream")
    /\ \E id \in task[j].ids :
           IF CanOpen(id)
           THEN task' = [task EXCEPT ![j].ids = @ \ {id},
                                     ![j].left = Append(@, blobs[id])]
           ELSE FailTo(j, "mark")
    /\ UNCHANGED <<storeVars, client, stream, jobs, spool, output, due>>

PersistExport(j) ==
    /\ At(j, "stream")
    /\ task[j].ids = {}
    /\ \/ output' = With(output, j, Range(task[j].left)) /\ GoTo(j, "mark") /\ UNCHANGED harm
       \/ Harm("disk") /\ FailTo(j, "mark") /\ UNCHANGED output
    /\ UNCHANGED <<rows, blobs, temps, items, claimed, writer, answer, day>>
    /\ UNCHANGED <<client, stream, jobs, spool, due>>

(***************************************************************************)
(* mark_job_succeeded or mark_job_failed; if that fails, mark_job_failed   *)
(* once more, whose failure is ignored.  Then the spooled archive is       *)
(* removed and the job is no longer active.                                *)
(***************************************************************************)
MarkJob(j) ==
    /\ At(j, "mark")
    /\ writer = Idle
    /\ \/ /\ SetStatus(j, IF task[j].failed THEN "failed" ELSE "succeeded")
          /\ EndJob(j)
          /\ UNCHANGED harm
       \/ /\ Harm("disk")
          /\ GoTo(j, "remark")
          /\ UNCHANGED <<jobs, spool>>
    /\ UNCHANGED <<rows, blobs, temps, items, claimed, writer, answer, day>>
    /\ UNCHANGED <<client, stream, output, due>>

RemarkJob(j) ==
    /\ At(j, "remark")
    /\ writer = Idle
    /\ EndJob(j)
    /\ \/ SetStatus(j, "failed") /\ UNCHANGED harm
       \/ Harm("disk") /\ UNCHANGED jobs
    /\ UNCHANGED <<rows, blobs, temps, items, claimed, writer, answer, day>>
    /\ UNCHANGED <<client, stream, output, due>>

(***************************************************************************)
(* A sweep decides on a cleanup while no job is active and no request is   *)
(* being answered (a download's body is past its request); then it lets go *)
(* of the mutex and sends for the cleanup, and work may begin before the   *)
(* writer takes it up.  The cutoff is read in between; here it is read     *)
(* last, so that no fewer files are removed.  The sweep waits for the      *)
(* answer before it looks again.                                           *)
(***************************************************************************)
DecideCleanup ==
    /\ ~due /\ writer.op # "cleanup"
    /\ Active = {}
    /\ \A c \in Clients : client[c].at # "upload"
    /\ due' = TRUE
    /\ UNCHANGED <<storeVars, client, stream, jobs, task, spool, output>>

Cleanup ==
    /\ due
    /\ due' = FALSE
    /\ BeginCleanup
    /\ UNCHANGED <<client, stream, jobs, task, spool, output>>

Crash ==
    /\ CrashStore
    /\ client' = [c \in Clients |->
           IF client[c].at = "holds" THEN client[c] ELSE Free(client[c].uploads)]
    /\ stream' = [c \in Clients |-> NoStream]
    /\ task' = [j \in {} |-> NewTask("import", "creating")]
    /\ due' = FALSE
    /\ UNCHANGED <<jobs, spool, output>>

Writer == WriterStep /\ UNCHANGED <<client, stream, jobs, task, spool, output, due>>

Time == NextDay /\ UNCHANGED <<client, stream, jobs, task, spool, output, due>>

Init ==
    /\ InitStore
    /\ client = [c \in Clients |-> Free(0)]
    /\ stream = [c \in Clients |-> NoStream]
    /\ jobs = [j \in {} |-> [kind |-> "import", status |-> "queued", name |-> ""]]
    /\ task = [j \in {} |-> NewTask("import", "creating")]
    /\ spool = {}
    /\ output = [j \in {} |-> {}]
    /\ due = FALSE

ClientStep(c) ==
    \/ ClientUpload(c) \/ ClientHasId(c) \/ ClientGone(c) \/ OpenStream(c)
    \/ \E name \in Names :
           ClientAttach(c, name) \/ ClientDelete(c, name) \/ BeginStream(c, name)

HandlerStep(j) == CreateJob(j) \/ SpawnJob(j) \/ RefuseJob(j)

JobStep(j) ==
    \/ RunJob(j) \/ ParseFile(j) \/ ParsedFile(j) \/ ParseEnd(j) \/ ImportItem(j)
    \/ CleanNewFile(j) \/ CleanedFile(j) \/ CleanEnd(j)
    \/ ExportSnapshot(j) \/ ExportFile(j) \/ PersistExport(j)
    \/ MarkJob(j) \/ RemarkJob(j)

Submit(j) ==
    \E name \in Names :
        \/ \E archive \in Archives : SubmitImport(j, name, archive)
        \/ SubmitExport(j, name)

Forsaken(j) == SubmitterGone(j) \/ LateJobRow(j)

Next ==
    \/ \E c \in Clients : ClientStep(c)
    \/ \E j \in Jobs : Submit(j) \/ HandlerStep(j) \/ Forsaken(j) \/ JobStep(j)
    \/ Writer \/ DecideCleanup \/ Cleanup \/ Time \/ Crash

Spec == Init /\ [][Next]_vars

(***************************************************************************)
(* The runtime runs every handler and task that can run, and the writer's  *)
(* queue is first in first out, so that a job that waits for the writer is *)
(* served (strong fairness).  The writer goes on only if the body it is    *)
(* reading goes on or ends.                                                *)
(***************************************************************************)
FairSpec ==
    /\ Spec
    /\ WF_vars(Writer)
    /\ \A j \in Jobs : SF_vars(HandlerStep(j) \/ JobStep(j))

-----------------------------------------------------------------------------
(***************************************************************************)
(* Whenever the writer is between two commands, and nothing went wrong in  *)
(* the disk and no crash has happened, there is no temporary file left and *)
(* there are exactly the blobs that have rows: each of the ways in which   *)
(* an upload or a deletion ends undoes what it began (state.rs:3516-3672,  *)
(* 4295-4338).                                                             *)
(***************************************************************************)
Unharmed == ~Harmed("disk") /\ ~Harmed("crash") /\ ~Harmed("delete")

StoreAgrees ==
    Unharmed /\ writer = Idle => temps = {} /\ DOMAIN blobs = DOMAIN rows

(***************************************************************************)
(* As long as the agent has not died and SQLite has deleted the rows it    *)
(* was asked to, a file attached to an item can be read back with the      *)
(* content of its row, whatever failing imports, cleanups and other I/O    *)
(* errors did meanwhile.                                                   *)
(***************************************************************************)
Readable(id) ==
    id \in DOMAIN rows /\ id \in DOMAIN blobs /\ blobs[id] = rows[id].content

AttachedReadable ==
    ~Harmed("crash") /\ ~Harmed("delete") =>
        \A name \in DOMAIN items : \A id \in items[name] : Readable(id)

(***************************************************************************)
(* What docs/specs/api-spec.md promises of attached files, crash or not:   *)
(* "files still attached to remaining versions are retained".              *)
(***************************************************************************)
AttachedRetained ==
    \A name \in DOMAIN items : \A id \in items[name] : id \in DOMAIN blobs

(***************************************************************************)
(* A client that uploaded a file nobody had keeps it for the day on which  *)
(* the upload began: neither a cleanup nor another import's failure        *)
(* removes a file that the client itself created and nobody ever attached. *)
(***************************************************************************)
Keeps(c) == client[c].id \in DOMAIN rows

OwnUploadKept ==
    \A c \in Clients :
        client[c].at = "holds" /\ client[c].new /\ client[c].day = day
            /\ client[c].id \notin claimed
        => Keeps(c)

(***************************************************************************)
(* A failed import leaves nothing: when its job has ended, every file it   *)
(* created is gone, unless some item has been given it meanwhile.          *)
(***************************************************************************)
FailedImportLeavesNothing ==
    \A j \in DOMAIN task :
        Unharmed /\ task[j].at = "ended" /\ jobs[j].status = "failed"
        => task[j].made \cap DOMAIN rows \subseteq claimed

(***************************************************************************)
(* A download or an export that was promised a file gets it, unless the    *)
(* item was deleted under it: no cleanup and no failing import takes the   *)
(* blob away between the reading of the row and the opening of the blob.   *)
(***************************************************************************)
DownloadsSurvive ==
    Unharmed =>
        /\ \A c \in Clients : stream[c].seen = "error" => ~stream[c].whole
        /\ \A j \in DOMAIN task :
               task[j].kind = "export" /\ task[j].failed => ~task[j].whole

(***************************************************************************)
(* What goes wrong leaves nothing over in the disk or in the tables.       *)
(***************************************************************************)
NothingLeftOver == StoreAgrees /\ FailedImportLeavesNothing

(***************************************************************************)
(* What a client was given, an id or a file to read, stays there for it.   *)
(***************************************************************************)
GivenFilesStay == OwnUploadKept /\ DownloadsSurvive

(***************************************************************************)
(* Every job that is submitted is refused without a row or reaches an      *)
(* outcome in its row, unless the client goes away before the job's task   *)
(* is spawned (the row then says queued for ever), the agent dies, or two  *)
(* writes of the row fail.                                                 *)
(***************************************************************************)
Settled(j) == At(j, "ended") /\ jobs[j].status \notin {"queued", "running"}

Abandoned(j) == At(j, "leaving") \/ At(j, "left")

JobsEnd ==
    \A j \in Jobs : j \in DOMAIN task ~> (Settled(j) \/ Abandoned(j) \/ ~Unharmed)
==============================================================================
