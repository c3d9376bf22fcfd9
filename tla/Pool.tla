--------------------------------- MODULE Pool ---------------------------------
(***************************************************************************)
(* DbHandle and its workers (agent/state.rs): a thread for the writing     *)
(* connection and some for reading ones, each with a channel of commands.  *)
(* A caller puts its command into a worker's channel, waiting for room,    *)
(* and then waits for the answer; it may go away at any time, and what it  *)
(* has put into the channel is executed all the same.  When the vault is   *)
(* unloaded the callers that have the handle keep its workers alive, and   *)
(* the vault may be opened again meanwhile, with workers of its own over   *)
(* the same tables (those of Registry, the content included).              *)
(***************************************************************************)
EXTENDS Registry

CONSTANTS
    Callers,    \* the requests that are in progress at a time
    Commands,   \* what they ask for
    Room,       \* 32 in the code: the commands a channel holds
    ReadersN,   \* 8 in the code: DATABASE_READER_WORKERS
    MaxPools,   \* bound: how often the vault is opened
    MaxCalls    \* bound: how many commands a caller issues

VARIABLES
    tables, \* what the database holds
    pool,   \* the pools opened so far: are they held by the agent, the
            \* channels of the workers, the counter next_reader
    caller  \* what each caller is doing, and the tables it may rely on

poolVars == <<tables, pool, caller>>

WriterWorker == 0
Workers == 0 .. ReadersN

(***************************************************************************)
(* DatabaseWorker::handle: the command's operation, in one step.           *)
(***************************************************************************)
RunContact(command, t) ==
    CASE command.op = "createContact" -> CreateContact(t, command.key, command.name, command.age)
      [] command.op = "updateContact" ->
            UpdateContact(t, command.key, command.email, command.name, command.age)
      [] command.op = "deleteContact" -> DeleteContact(t, command.key)
      [] command.op = "listContacts" -> ListContacts(t, command.key, command.limit)
      [] command.op = "contactPublicKey" -> ContactPublicKey(t, command.key)

RunSetting(command, t) ==
    CASE command.op = "upsertSetting" -> UpsertSetting(t, command.key, command.value)
      [] command.op = "getSetting" -> GetSetting(t, command.key)
      [] command.op = "listSettings" -> ListSettings(t)
      [] command.op = "settingDuration" -> SettingDuration(t, command.key)

RunJob(command, t) ==
    CASE command.op = "createImportJob" ->
            CreateImportJob(t, command.key, command.dir, command.item)
      [] command.op = "createExportJob" ->
            CreateExportJob(t, command.key, command.dir, command.item, command.email)
      [] command.op = "markJobRunning" -> MarkJobRunning(t, command.key)
      [] command.op = "markJobSucceeded" -> MarkJobSucceeded(t, command.key)
      [] command.op = "markJobFailed" -> MarkJobFailed(t, command.key)
      [] command.op = "getJob" -> GetJob(t, command.key)

(***************************************************************************)
(* The operations on directories, items and files are those of VaultReads, *)
(* all of them at the time 0.                                              *)
(***************************************************************************)
Written(outcome, t) == Gives(outcome.status, Nothing, [t EXCEPT !.content = outcome.db])
ReadOnly(answer, t) == Gives(answer.status, answer.shows, t)

RunDir(command, t) ==
    CASE command.op = "createDir" -> Written(Content!CreateDir(t.content, command.key, 0), t)
      [] command.op = "updateDir" ->
            Written(Content!UpdateDir(t.content, command.key, command.name, 0), t)
      [] command.op = "deleteDir" -> Written(Content!DeleteDir(t.content, command.key), t)
      [] command.op = "getDir" -> ReadOnly(Content!GetDir(t.content, command.key), t)
      [] command.op = "listDirs" ->
            ReadOnly(Content!ListDirs(t.content, Content!NoMarker, command.limit), t)
      [] command.op = "shellCompletions" ->
            Shows([candidates |-> Content!CompleteDir(t.content, command.begins, {})], t)

RunItem(command, t) ==
    LET dir == command.dir
        item == command.item
    IN  CASE command.op = "createItem" ->
                Written(Content!CreateItem(t.content, dir, item, command.request, 0), t)
          [] command.op = "copyItem" ->
                Written(Content!CopyItem(t.content, dir, item, command.from[1], command.from[2],
                                         command.request, 0), t)
          [] command.op = "moveItem" ->
                Written(Content!MoveItem(t.content, dir, item, command.from[1], command.from[2],
                                         command.request, 0), t)
          [] command.op = "updateItem" ->
                Written(Content!UpdateItem(t.content, dir, item, command.request, 0), t)
          [] command.op = "deleteItem" -> Written(Content!DeleteItem(t.content, dir, item), t)
          [] command.op = "restoreItemVersion" ->
                Written(Content!RestoreVersion(t.content, dir, item, command.version, 0), t)
          [] command.op = "getItem" ->
                ReadOnly(Content!GetItem(t.content, dir, item, 0, "raw", FALSE), t)
          [] command.op = "getReference" ->
                ReadOnly(Content!GetReference(t.content, dir, item, command.field, 0, TRUE,
                                              FALSE), t)
          [] command.op = "exportSnapshot" ->
                ReadOnly(Content!ExportSnapshot(t.content, dir, item), t)
          [] command.op = "listItems" ->
                ReadOnly(Content!ListItems(t.content, dir, {item}, FALSE, Content!NoMarker, 1), t)
          [] command.op = "listItemVersions" ->
                ReadOnly(Content!ListVersions(t.content, dir, item, Content!NoMarker, 1), t)

(***************************************************************************)
(* Files by their content: an upload of one that is there is given that.   *)
(***************************************************************************)
WithFiles(files, t) == Changes([t EXCEPT !.content.files = files])

RunFile(command, t) ==
    CASE command.op = "createFile" -> WithFiles(t.content.files \cup {command.file}, t)
      [] command.op = "deleteUnattachedFile" ->
            Changes([t EXCEPT !.content = Content!RemoveOrphans(@, {command.file})])
      [] command.op = "lookupFileBySha256" ->
            IF command.file \in t.content.files THEN Shows([file |-> command.file], t)
            ELSE Refuses("not_found", t)
      [] command.op = "cleanupBeforeUnload" ->
            Written(Content!CleanUp(t.content, 0), t)

DirOps == {"createDir", "updateDir", "deleteDir", "getDir", "listDirs", "shellCompletions"}
ItemOps == {"createItem", "copyItem", "moveItem", "updateItem", "deleteItem",
            "restoreItemVersion", "getItem", "getReference", "exportSnapshot", "listItems",
            "listItemVersions"}
FileOps == {"createFile", "deleteUnattachedFile", "lookupFileBySha256",
            "cleanupBeforeUnload"}
ContactOps == {"createContact", "updateContact", "deleteContact", "listContacts",
               "contactPublicKey"}
SettingOps == {"upsertSetting", "getSetting", "listSettings", "settingDuration"}

Run(command, t) ==
    CASE command.op \in ContactOps -> RunContact(command, t)
      [] command.op \in SettingOps -> RunSetting(command, t)
      [] command.op \in DirOps -> RunDir(command, t)
      [] command.op \in ItemOps -> RunItem(command, t)
      [] command.op \in FileOps -> RunFile(command, t)
      [] OTHER -> RunJob(command, t)

(***************************************************************************)
(* What the methods of DbHandle send to a reader; the rest is written.     *)
(***************************************************************************)
ReadOps == {"listContacts", "contactPublicKey", "getSetting", "listSettings",
            "settingDuration", "getJob", "getDir", "listDirs", "shellCompletions",
            "getItem", "getReference", "exportSnapshot", "listItems", "listItemVersions",
            "lookupFileBySha256"}

Said(outcome) == [status |-> outcome.status, shows |-> outcome.shows]

NoAnswer == [status |-> "none", shows |-> Nothing]
Resting(calls, since) ==
    [at |-> "idle", pool |-> 0, worker |-> 0, command |-> [op |-> "none"], calls |-> calls,
     answer |-> NoAnswer, since |-> since]

NewPool == [held |-> TRUE, next |-> 0, channel |-> [w \in Workers |-> <<>>]]

(***************************************************************************)
(* A worker runs until every holder of the handle is gone and its channel  *)
(* is drained, so that there is one wherever a command waits.              *)
(***************************************************************************)
Current == {p \in DOMAIN pool : pool[p].held}

OpenPool ==
    /\ Current = {}
    /\ Len(pool) < MaxPools
    /\ pool' = Append(pool, NewPool)
    /\ UNCHANGED <<tables, caller>>

Unload ==
    /\ \E p \in Current : pool' = [pool EXCEPT ![p].held = FALSE]
    /\ UNCHANGED <<tables, caller>>

(***************************************************************************)
(* request_writer and request_reader, which takes the readers in turn.     *)
(***************************************************************************)
WorkerFor(p, command) ==
    IF command.op \in ReadOps THEN 1 + (pool[p].next % ReadersN) ELSE WriterWorker

Call(c) ==
    /\ caller[c].at \in {"idle", "answered"}
    /\ caller[c].calls < MaxCalls
    /\ \E p \in Current, command \in Commands :
        /\ caller' = [caller EXCEPT ![c] =
              [@ EXCEPT !.at = "sending", !.pool = p, !.command = command,
                        !.worker = WorkerFor(p, command), !.calls = caller[c].calls + 1,
                        !.answer = NoAnswer]]
        /\ pool' = [pool EXCEPT ![p].next =
              IF command.op \in ReadOps THEN (@ + 1) % ReadersN ELSE @]
    /\ UNCHANGED tables

Enqueue(c) ==
    LET p == caller[c].pool
        w == caller[c].worker
    IN  /\ caller[c].at = "sending"
        /\ Len(pool[p].channel[w]) < Room
        /\ pool' = [pool EXCEPT ![p].channel[w] =
                        Append(@, [caller |-> c, call |-> caller[c].calls,
                                   command |-> caller[c].command])]
        /\ caller' = [caller EXCEPT ![c].at = "waiting"]
        /\ UNCHANGED tables

(***************************************************************************)
(* The caller's future is dropped (its peer is gone); the command stays.   *)
(***************************************************************************)
GoAway(c) ==
    /\ caller[c].at \in {"sending", "waiting"}
    /\ caller' = [caller EXCEPT ![c] = Resting(@.calls, @.since)]
    /\ UNCHANGED <<tables, pool>>

(***************************************************************************)
(* A worker takes the next command of its channel, executes it and sends   *)
(* the answer, if anybody waits for it still.  What an answer may be built *)
(* on is kept for the properties: since has the tables the caller may find *)
(* when it asks next, which are those its last answer told it of, and what *)
(* other writes have made of them.                                         *)
(***************************************************************************)
Waits(entry) ==
    /\ caller[entry.caller].at = "waiting"
    /\ caller[entry.caller].calls = entry.call

Told(since, command, answer) ==
    {Run(command, t).tables : t \in {u \in since : Said(Run(command, u)) = answer}}

Answered(c, command, outcome) ==
    [caller[c] EXCEPT !.at = "answered", !.pool = 0, !.answer = Said(outcome),
                      !.since = Told(@, command, Said(outcome))]

AfterWrite(since, t) == IF t = tables THEN since ELSE since \cup {t}

ExecuteEarly(p, w) ==
    /\ pool[p].channel[w] # <<>>
    /\ LET entry   == Head(pool[p].channel[w])
           outcome == Run(entry.command, tables)
       IN  IF Waits(entry)
           THEN /\ caller' = [caller EXCEPT ![entry.caller] =
                                  Answered(entry.caller, entry.command, outcome)]
                /\ UNCHANGED <<tables, pool>>
           ELSE /\ tables' = outcome.tables
                /\ pool' = [pool EXCEPT ![p].channel[w] = Tail(@)]
                /\ caller' = [c \in Callers |-> [caller[c] EXCEPT
                                  !.since = AfterWrite(@, outcome.tables)]]

Execute(p, w) ==
    /\ pool[p].channel[w] # <<>>
    /\ LET entry   == Head(pool[p].channel[w])
           outcome == Run(entry.command, tables)
       IN  /\ tables' = outcome.tables
           /\ pool' = [pool EXCEPT ![p].channel[w] = Tail(@)]
           /\ caller' = [c \in Callers |->
                  IF c = entry.caller /\ Waits(entry)
                  THEN Answered(c, entry.command, outcome)
                  ELSE [caller[c] EXCEPT !.since = AfterWrite(@, outcome.tables)]]

InitPool ==
    /\ tables = NewRegistry
    /\ pool = <<NewPool>>
    /\ caller = [c \in Callers |-> Resting(0, {NewRegistry})]

NextPool ==
    \/ OpenPool \/ Unload
    \/ \E c \in Callers : Call(c) \/ Enqueue(c) \/ GoAway(c)
    \/ \E p \in DOMAIN pool, w \in Workers : Execute(p, w)

PoolSpec == InitPool /\ [][NextPool]_poolVars

-----------------------------------------------------------------------------
(***************************************************************************)
(* Every request is answered as if all were executed one after the other,  *)
(* each between its sending and its answer: what a caller was told is      *)
(* what it finds when it asks next, whichever reader answers, also across  *)
(* an unload and with commands of callers that have gone away still in the *)
(* channels.                                                               *)
(***************************************************************************)
ReadsFollowWrites ==
    \A c \in Callers : caller[c].at = "answered" => caller[c].since # {}
==============================================================================
