------------------------------ MODULE Lifecycle ------------------------------
(***************************************************************************)
(* The processes that share one vault on disk: the agent, monopass         *)
(* migrate, passwd and init.  The first three exclude each other with an   *)
(* flock that the kernel releases when its holder ends; init takes none.   *)
(* Each process runs through its steps once and may die between any two.   *)
(* A statement or a transaction of SQLite is one step.                     *)
(* A listener handed over by systemd or launchd is left out: then the path *)
(* is the service manager's.                                               *)
(***************************************************************************)
EXTENDS Integers

CONSTANTS
    Agents,     \* runs of the agent
    Migrators,  \* runs of monopass migrate
    Changers,   \* runs of monopass passwd
    Creators,   \* runs of monopass init
    Nobody

ASSUME LifecycleAssumption == Nobody \notin Agents \cup Migrators \cup Changers \cup Creators

VARIABLES
    lock,       \* the holder of the file lock
    socket,     \* whose listener the listen path leads to, dead or alive
    db,         \* the database file, or Absent
    proc,       \* at: the step a process is about to take; key: the password
                \* it opened the database with; version: the one it has read
    choice,     \* history: the setting the user last chose
    spoiled     \* history: init died half way, or raced with an opening

lifeVars == <<lock, socket, db, proc, choice, spoiled>>

Procs == Agents \cup Migrators \cup Changers \cup Creators

Passwords == {"old", "new"}
Settings == {"default", "own"}
Unset == "unset"

-----------------------------------------------------------------------------
(***************************************************************************)
(* The database: how much of it init has made, PRAGMA user_version, where  *)
(* the fields of a version are (a JSON column up to version 2, rows since),*)
(* whether Trash denies overwriting, one setting under its legacy and its  *)
(* current name, and the password it is encrypted with.                    *)
(***************************************************************************)
Stages == <<"file", "schema", "dirs", "keys", "settings">>

Absent == [made |-> "nothing"]

Database == [made : {Stages[i] : i \in DOMAIN Stages}, version : 0 .. 3,
             fields : {"column", "rows"}, denies : BOOLEAN,
             legacy : Settings \cup {Unset}, current : Settings \cup {Unset},
             key : Passwords]

EmptyFile(password) ==
    [made |-> "file", version |-> 0, fields |-> "column", denies |-> FALSE,
     legacy |-> Unset, current |-> Unset, key |-> password]

\* what the releases before left behind, and what this one does
Released ==
    {[made |-> "settings", version |-> v, fields |-> IF v = 3 THEN "rows" ELSE "column",
      denies |-> v >= 2, legacy |-> old, current |-> new, key |-> "old"] :
         v \in 0 .. 3, old \in Settings \cup {Unset}, new \in Settings \cup {Unset}}

InitLifecycle ==
    /\ lock = Nobody
    /\ socket = Nobody
    /\ db \in {Absent} \cup
           {d \in Released : /\ (d.legacy = Unset) # (d.current = Unset)
                             /\ d.version < 2 => d.current = Unset}
    /\ choice = CASE db = Absent -> "default"
                  [] db # Absent -> IF db.legacy = Unset THEN db.current ELSE db.legacy
    /\ proc = [p \in Procs |-> [at |-> "start", key |-> "none", version |-> 0]]
    /\ spoiled = FALSE

At(p, step) == proc[p].at = step

GoTo(p, step) == proc' = [proc EXCEPT ![p].at = step]

(***************************************************************************)
(* A process that ends, on its own or not, releases the lock; its socket   *)
(* file stays, and leads nowhere.                                          *)
(***************************************************************************)
ReleasedBy(p) == IF lock = p THEN Nobody ELSE lock

Leave(p) ==
    /\ proc' = [proc EXCEPT ![p].at = "done", ![p].key = "none"]
    /\ lock' = ReleasedBy(p)

Live(p) == ~At(p, "start") /\ ~At(p, "done")

Creating(c) == proc[c].at \in {"file", "schema", "dirs", "keys", "settings", "version"}

Die(p) ==
    /\ Live(p)
    /\ Leave(p)
    /\ spoiled' = (spoiled \/ (p \in Creators /\ Creating(p) /\ ~At(p, "file")))
    /\ UNCHANGED <<socket, db, choice>>

-----------------------------------------------------------------------------
(***************************************************************************)
(* AgentLockGuard::acquire, kept until the process ends.                   *)
(***************************************************************************)
AcquireAndDrop(p) ==
    /\ At(p, "start")
    /\ p \notin Creators
    /\ lock = Nobody
    /\ GoTo(p, IF p \in Agents THEN "find" ELSE "open")
    /\ UNCHANGED <<lock, socket, db, choice, spoiled>>

Acquire(p) ==
    /\ At(p, "start")
    /\ p \notin Creators
    /\ lock = Nobody
    /\ lock' = p
    /\ GoTo(p, IF p \in Agents THEN "find" ELSE "open")
    /\ UNCHANGED <<socket, db, choice, spoiled>>

Refused(p) ==
    /\ At(p, "start")
    /\ p \notin Creators
    /\ lock # Nobody
    /\ GoTo(p, "done")
    /\ UNCHANGED <<lock, socket, db, choice, spoiled>>

(***************************************************************************)
(* serve: no database, no agent; whatever socket is at the listen path is  *)
(* removed, then the path is bound.                                        *)
(***************************************************************************)
FindDatabase(a) ==
    /\ At(a, "find")
    /\ IF db = Absent THEN Leave(a) ELSE GoTo(a, "unlink") /\ UNCHANGED lock
    /\ UNCHANGED <<socket, db, choice, spoiled>>

RemoveStaleSocket(a) ==
    /\ At(a, "unlink")
    /\ socket' = Nobody
    /\ GoTo(a, "bind")
    /\ UNCHANGED <<lock, db, choice, spoiled>>

Bind(a) ==
    /\ At(a, "bind")
    /\ IF socket = Nobody THEN socket' = a /\ GoTo(a, "serve") /\ UNCHANGED lock
       ELSE Leave(a) /\ UNCHANGED socket
    /\ UNCHANGED <<db, choice, spoiled>>

-----------------------------------------------------------------------------
(***************************************************************************)
(* What a process does whose opening failed: the agent serves on, the      *)
(* others end.                                                             *)
(***************************************************************************)
GiveUp(p) ==
    IF p \in Agents
    THEN proc' = [proc EXCEPT ![p].at = "serve", ![p].key = "none"] /\ UNCHANGED lock
    ELSE Leave(p)

Opening(p) == p \notin Creators /\ proc[p].at \in {"serve", "open"}

(***************************************************************************)
(* Open the file with a password and read the schema table, which fails    *)
(* unless it is the file's own, then user_version.                         *)
(***************************************************************************)
OpenDatabase(p) ==
    /\ Opening(p)
    /\ \E password \in Passwords :
           IF db # Absent /\ password = db.key
           THEN /\ proc' = [proc EXCEPT ![p] =
                       [at |-> IF db.version >= 2 THEN "require" ELSE "compat",
                        key |-> password, version |-> db.version]]
                /\ UNCHANGED lock
           ELSE GiveUp(p)
    /\ UNCHANGED <<socket, db, choice, spoiled>>

(***************************************************************************)
(* migrate_compatible_database, for a database of version 0 or 1: one      *)
(* transaction, but user_version was read before it began.  It fails in a  *)
(* file that has no tables yet.                                            *)
(***************************************************************************)
Compat(p) ==
    /\ At(p, "compat")
    /\ IF db.made = "file" THEN GiveUp(p) /\ UNCHANGED <<db, spoiled>>
       ELSE /\ db' = [db EXCEPT !.version = 2, !.denies = @ \/ db.made # "schema"]
            /\ spoiled' = (spoiled \/ db.made # "settings" \/ db.version > proc[p].version)
            /\ GoTo(p, "require")
            /\ UNCHANGED lock
    /\ UNCHANGED <<socket, choice>>

(***************************************************************************)
(* require_current_schema, for the agent and passwd; migrate goes on to    *)
(* migrate_fields_to_rows.                                                 *)
(***************************************************************************)
Require(p) ==
    /\ At(p, "require")
    /\ IF db.version = 3 THEN GoTo(p, "names") /\ UNCHANGED lock
       ELSE IF p \in Migrators THEN GoTo(p, "fields") /\ UNCHANGED lock
       ELSE GiveUp(p)
    /\ UNCHANGED <<socket, db, choice, spoiled>>

(***************************************************************************)
(* migrate_fields_to_rows: the rows, the dropped column and the version in *)
(* one transaction, which fails as a whole if the table is there already   *)
(* or a version's JSON cannot be read.                                     *)
(***************************************************************************)
MigrateFieldsOnly(p) ==
    /\ At(p, "fields")
    /\ \/ /\ db.fields = "column"
          /\ db' = [db EXCEPT !.fields = "rows"]
          /\ GoTo(p, "names")
          /\ UNCHANGED lock
       \/ Leave(p) /\ UNCHANGED db
    /\ UNCHANGED <<socket, choice, spoiled>>

MigrateFields(p) ==
    /\ At(p, "fields")
    /\ \/ /\ db.fields = "column"
          /\ db' = [db EXCEPT !.fields = "rows", !.version = 3]
          /\ GoTo(p, "names")
          /\ UNCHANGED lock
       \/ Leave(p) /\ UNCHANGED db
    /\ UNCHANGED <<socket, choice, spoiled>>

(***************************************************************************)
(* migrate_setting_names moves a value to its new name unless that is      *)
(* taken, in one transaction; insert_missing_setting_defaults fills what   *)
(* is missing.                                                             *)
(***************************************************************************)
NamesOverDefaults(p) ==
    /\ At(p, "names")
    /\ LET filled == IF db.current = Unset THEN "default" ELSE db.current
       IN  db' = [db EXCEPT !.current = filled, !.legacy = Unset]
    /\ GoTo(p, "defaults")
    /\ UNCHANGED <<lock, socket, choice, spoiled>>

Names(p) ==
    /\ At(p, "names")
    /\ db' = [db EXCEPT !.current = IF @ = Unset THEN db.legacy ELSE @, !.legacy = Unset]
    /\ GoTo(p, "defaults")
    /\ UNCHANGED <<lock, socket, choice, spoiled>>

Defaults(p) ==
    /\ At(p, "defaults")
    /\ db' = [db EXCEPT !.current = IF @ = Unset THEN "default" ELSE @]
    /\ IF p \in Migrators THEN Leave(p) ELSE GoTo(p, "opened") /\ UNCHANGED lock
    /\ UNCHANGED <<socket, choice, spoiled>>

-----------------------------------------------------------------------------
(***************************************************************************)
(* The agent with an open vault: a setting is changed, the vault closed.   *)
(***************************************************************************)
ChangeSetting(a) ==
    /\ At(a, "opened")
    /\ a \in Agents
    /\ \E v \in Settings : db' = [db EXCEPT !.current = v] /\ choice' = v
    /\ UNCHANGED <<lock, socket, proc, spoiled>>

CloseVault(a) ==
    /\ At(a, "opened")
    /\ a \in Agents
    /\ proc' = [proc EXCEPT ![a].at = "serve", ![a].key = "none"]
    /\ UNCHANGED <<lock, socket, db, choice, spoiled>>

(***************************************************************************)
(* passwd: the new password must differ from the current one, and be typed *)
(* twice.                                                                  *)
(***************************************************************************)
Rekey(p) ==
    /\ At(p, "opened")
    /\ p \in Changers
    /\ \/ \E password \in Passwords \ {proc[p].key} : db' = [db EXCEPT !.key = password]
       \/ UNCHANGED db
    /\ Leave(p)
    /\ UNCHANGED <<socket, choice, spoiled>>

-----------------------------------------------------------------------------
(***************************************************************************)
(* init: if there is no database, and after the passwords were asked for,  *)
(* the file is created and filled, statement by statement, the version     *)
(* last.  Whoever comes second fails at its first statement.               *)
(***************************************************************************)
CheckAbsent(c) ==
    /\ At(c, "start")
    /\ c \in Creators
    /\ GoTo(c, IF db = Absent THEN "file" ELSE "done")
    /\ UNCHANGED <<lock, socket, db, choice, spoiled>>

CreateFile(c) ==
    /\ At(c, "file")
    /\ \E password \in Passwords :
           /\ db' = IF db = Absent THEN EmptyFile(password) ELSE db
           /\ proc' = [proc EXCEPT ![c].at = IF db'.key = password THEN "schema" ELSE "done"]
    /\ UNCHANGED <<lock, socket, choice, spoiled>>

CreateSchema(c) ==
    /\ At(c, "schema")
    /\ IF db.made = "file"
       THEN db' = [db EXCEPT !.made = "schema", !.fields = "rows"] /\ GoTo(c, "dirs")
       ELSE UNCHANGED db /\ GoTo(c, "done")
    /\ UNCHANGED <<lock, socket, choice, spoiled>>

CreateDirs(c) ==
    /\ At(c, "dirs")
    /\ db' = [db EXCEPT !.made = "dirs", !.denies = TRUE]
    /\ GoTo(c, "keys")
    /\ UNCHANGED <<lock, socket, choice, spoiled>>

CreateKeys(c) ==
    /\ At(c, "keys")
    /\ db' = [db EXCEPT !.made = "keys"]
    /\ GoTo(c, "settings")
    /\ UNCHANGED <<lock, socket, choice, spoiled>>

CreateSettings(c) ==
    /\ At(c, "settings")
    /\ db' = [db EXCEPT !.made = "settings", !.current = "default"]
    /\ GoTo(c, "version")
    /\ UNCHANGED <<lock, socket, choice, spoiled>>

SetVersion(c) ==
    /\ At(c, "version")
    /\ db' = [db EXCEPT !.version = 3]
    /\ GoTo(c, "done")
    /\ UNCHANGED <<lock, socket, choice, spoiled>>

-----------------------------------------------------------------------------
Locked(p) == Acquire(p) \/ Refused(p)

AgentStart(a) == FindDatabase(a) \/ RemoveStaleSocket(a) \/ Bind(a)

Open(p) ==
    OpenDatabase(p) \/ Compat(p) \/ Require(p) \/ MigrateFields(p) \/ Names(p) \/ Defaults(p)

Create(c) ==
    \/ CheckAbsent(c) \/ CreateFile(c) \/ CreateSchema(c) \/ CreateDirs(c)
    \/ CreateKeys(c) \/ CreateSettings(c) \/ SetVersion(c)

NextLifecycle ==
    \E p \in Procs :
        \/ Locked(p) \/ AgentStart(p) \/ Open(p) \/ ChangeSetting(p) \/ CloseVault(p)
        \/ Rekey(p) \/ Create(p) \/ Die(p)

LifeSpec == InitLifecycle /\ [][NextLifecycle]_lifeVars

-----------------------------------------------------------------------------
(***************************************************************************)
(* The agent that serves is the one the listen path leads to, however many *)
(* were started, refused or killed: a second agent must not take the       *)
(* socket away from the first (agent.rs:186-223, lock.rs:20-57).           *)
(***************************************************************************)
Served == {"serve", "compat", "require", "names", "defaults", "opened"}

ListenerReachable ==
    \A a \in Agents : proc[a].at \in Served => socket = a

(***************************************************************************)
(* A process that has the database open has it under the password that     *)
(* encrypts it: passwd never changes it under an agent with an open vault  *)
(* (passwd.rs:10-48).                                                      *)
(***************************************************************************)
KeyStands ==
    \A p \in Procs : At(p, "opened") => db # Absent /\ proc[p].key = db.key

(***************************************************************************)
(* Both: the lock keeps the socket and the key of the one process that     *)
(* holds it from the others.                                               *)
(***************************************************************************)
LockHolds == ListenerReachable /\ KeyStands

(***************************************************************************)
(* Whoever has opened the vault finds the setting the user last chose, also*)
(* if it was chosen under a legacy name and a migration in between was     *)
(* interrupted (db.rs:186-201, 338-368, 406-430).                          *)
(***************************************************************************)
SettingsSurvive ==
    \A p \in Procs : At(p, "opened") => db.current = choice /\ db.legacy = Unset

(***************************************************************************)
(* A vault that init is done with can be opened or migrated, wherever a    *)
(* migration was killed: its fields are in rows exactly if its version     *)
(* says so, and Trash denies overwriting from version 2 on.  It does not   *)
(* hold of a vault init left half made, or one that was opened while init  *)
(* made it (db.rs:223-243, 370-390, 458-510).                              *)
(***************************************************************************)
VaultWhole ==
    (db # Absent /\ ~spoiled /\ \A c \in Creators : ~Creating(c)) =>
        /\ db.made = "settings"
        /\ db.fields = "rows" <=> db.version = 3
        /\ db.version >= 2 => db.denies

(***************************************************************************)
(* A migration, whenever it dies, loses neither a setting nor a field and  *)
(* leaves a vault the next one completes.                                  *)
(***************************************************************************)
VaultSurvives == SettingsSurvive /\ VaultWhole
==============================================================================
