# A verification of monopass

monopass keeps passwords in an encrypted SQLite database.  One *agent* process per
user opens the database and serves it to local programs over a Unix socket; the
command-line client, and the import and export jobs inside the agent, all go through
it.  This directory models the program in TLA+, model-checks the models with TLC and
proves theorems about its core with TLAPS.

Paths such as `state.rs:331` are relative to `src/src/agent/` unless they name another
directory.

## Inventory

| Component | State it keeps | Operations | Hard behaviours | What makes it correct |
|---|---|---|---|---|
| Agent session (`state.rs` 79–87, 293–866, 876–966; `auth.rs`) | `InnerState` behind one tokio mutex: open database handle, password verifier, two authorization caches, two denial caches, denial TTL, "expiry recorded" bit, last cleanup, active jobs, auth epoch, migration flag, identification type; an atomic count of active requests | unlock (vault open / closed), lock, authorize a request, begin/end a request, upsert a setting, register/unregister a job, sweep, clock failure | the mutex is given up in the middle of an unlock and of a sweep; clock readings are taken before the mutex; handlers are dropped when a peer goes away; the vault is unloaded and reopened under running tasks | access needs a password entered since the last revocation; authorized ⇒ open; work pins the vault; denials stand; an idle vault is closed; every request ends |
| Scope cache (`state.rs` 1046–1127) | a `Vec` of (scope hash, inserted_at), least recently used first, bounded | insert, contains, retain_unexpired, remove, clear | eviction at capacity, clock readings in any order, reordering without renewing | no scope twice, never over capacity, look-ups do not renew, the Vec behaves as a table |
| Access policy (`auth.rs`, routes of `controller.rs`) | none of its own | peer check, scope hash, offered unlock method, scopes a route needs | two scopes with durations of their own, three types of identity | who was let in had a grant; status tells the truth; the offered method works |
| GUI prompt (`controller.rs` 257–334, `gui_auth.rs`) | handler, worker and toolkit threads; channels; windows | ask, retry, deny, dismiss, throttle | three threads, nested toolkit callbacks, a client that goes away | a denial is heard, a window shows its own request and does not hang |
| File store (`state.rs` 3516–3690, 4197–4339) | file rows, blobs on disk, attachments | upload with deduplication, attach, delete, cleanup | crash between rename and commit, cleanup against upload, I/O errors | an attached file has its blob; nothing is left over |
| Jobs (`import.rs`, `export.rs`, `controller.rs` 635–819) | job rows, the active-job set, files created so far, archives | create, run, succeed, fail | peer gone, agent dead, two imports deduplicating to one file, damaged archives | a job ends, a failed import leaves nothing, an export comes back as it was or is refused |
| Vault content (`state.rs` 2939–3514, 3690–5400) | directories, items, versions, files, page markers | create, update, copy, move, delete, restore, expire; reads and listings | a wall clock that is set back, row ids that come back, reads of several statements | versions and pointers sound, history append-only, nothing is lost early, reads agree |
| Settings, contacts, job rows (`settings.rs`, `state.rs`) | tables; copies of five settings in the inner state | read, write, publish | stored and published in two steps | the copy in force is the stored one |
| Database open and migration (`db.rs`) | schema version, tables | create, open, migrate | death at any statement | a vault init has finished can always be opened or migrated |
| Worker pool (`state.rs` 1640–2939) | one writer, eight readers behind channels | commands, reopening | callers that go away, two pools after a reopening | a read follows the writes whose answer was seen |
| Agent life cycle (`lock.rs`, `commands/agent.rs`, `migrate.rs`, `passwd.rs`, `init`) | a file lock, a socket, service-manager units | start, stop, exclude each other | lock before look, stale sockets, a manager that restarts | one process at the vault; clients reach the agent that serves |
| Peer identification (`process.rs`, `desktop.rs`) | the catalog of applications | walk the lineage, read one process, reload the catalog | processes exit, pids and names lie, files change while they are read | a scope names one lineage; the prompt names no program further up than the peer's own |
| Stored files (`state.rs` 5632, `src/src/commands/`) | blob records, a channel, the target file | stream out, write, rename | truncation at a record boundary, kill at any step | a target holds the whole file or what it held |
| Command-line client (`src/src/commands/`) | a kept connection, one command's progress | unlock and retry, HTTP, rm/mv/cp/add/edit, clip/run/share, completion, options | lost answers, other clients between two requests, signals | a request has its effect once; a command destroys nothing it was not told to; secrets are taken back |
| Clock (`clock.rs`) | – | suspend-aware reading, may fail | failure | failing closed |

How they interact: a request passes the middleware (`auth.rs`), which asks the session
for authorization and takes a guard; the handler (`controller.rs`) works on the
database handle the session gave out, through the worker pool; a setting that the
session caches is stored through the handle and then published to the inner state; a
job is registered in the inner state, given a row, and runs as a task of its own on the
handle of the request that started it; the sweep (`state.rs` 155–168, 616–702) runs
every few seconds, expires authorizations, cleans the vault up and unloads it.

## Modules

| Module | What it models |
|---|---|
| `AuthCache`, `AuthCacheVec`, `AuthCacheTable` | The scope cache: as operators on a table from scope hash to `[at, pos]`; as the Vec the code keeps; and the state machine of the operators, which the Vec implements. |
| `SessionPromise` | Abstract specification of the session: who is granted access, whose password has been accepted, who is served. No clocks, epochs, handles or mutex. |
| `AgentSession` | The session itself: client tasks, jobs, sweep and clock around the inner state. |
| `Gate` | Who may do what: credentials, identification types, unlock methods, scopes of routes. |
| `Prompt`, `Windows` | One dialog from the handler's side, attempt by attempt; the windows of all dialogs in the one GUI thread. |
| `FileStore`, `Transfers` | Rows, blobs and the writer; the clients, downloads and jobs that use them. |
| `Archive` | The exported archive, what may have become of it, and the import that reads it. |
| `Vault`, `VaultReads` | The tables and every writing operation as an operator; every reading one. |
| `VaultService`, `Readers`, `Commands` | The writer with its clocks and a paging client; reads of several statements; the client's commands of several requests. |
| `Registry`, `Pool` | Contacts, settings and job rows; the workers that run every operation. |
| `Lifecycle`, `Daemon` | The processes around the vault's files; the service manager that starts agents. |
| `Identify`, `ProcessTable`, `Catalog` | The walk to the process behind a connection; what is read of one process; the catalog of applications. |
| `Client`, `Wire` | One request with its unlock and retry; its HTTP byte stream. |
| `Download`, `Shell` | A stored file on its way out; clip, run and share. |
| `Tokens`, `Completion`, `Arguments` | Codes, markers and ids; words a completion offers; options, fields and files. |
| `MCAgentSession`, `MCSessionMixes`, `MCStore`, `MCVault`, `MCParts` | Values of the constants and the mixes of the runs. |
| `*_proofs` | The theorems: see below. |

`Transfers` extends `FileStore`; `VaultService` extends `VaultReads`, which extends
`Vault`; `Commands` and `Readers` extend `VaultService`; `Registry` extends `VaultReads`
and `Pool` extends `Registry`; `AgentSession` extends `AuthCache` and instantiates
`SessionPromise`.  The parts that `MCParts` puts side by side share no state.

### AgentSession

A step is the code between two awaits, or between two acquisitions of the inner mutex:
nothing else can run inside it that reads or writes the same state.  `pc` of a client or
of the sweep names the await it stands at.  A step with the guard `MutexFree` is a
critical section that the code enters with `inner.lock().await` and leaves before its
next await; the only code that keeps the mutex across awaits is the first unlock
(`state.rs` 301, 344–399), and `holder` says which client does.

* `inner` is `InnerState` field by field.  The database handle is a number (a fresh one
  each time the vault is opened, so that `Arc::ptr_eq` is equality); the verifier is the
  bit that says whether one is present, because any password can be entered at any time
  and `UnlockVerified` / `UnlockWrongPassword` choose; of `max_authorization_expires_at`
  the code only asks whether it is `None`.  The epoch is a natural number: the code's
  `u64` wraps after 2^64 revocations.
* `disk` holds the rows of the settings the session depends on and whether the schema is
  an old one; `handles` counts the openings; `tasks` are the job tasks.
* `client[c]` is one request per process at a time: what the handler keeps in local
  variables across awaits (scope hash, TTL read, clock reading, epoch and handle
  remembered, access scopes left to try).  Routes are grouped by what they do to the
  session: direct unlock, GUI unlock, lock, read (any route behind the middleware
  that leaves the session alone), setting, job.
* `Cancel` is hyper dropping the handler's future when the peer disconnects; it can
  happen at every await, and it drops the mutex guard and the request guard.
* The sweep is `SweepTick` … `SweepUnload`, one step per critical section, with
  `SweepClockFailure` for a clock that cannot be read.
* Faults (`Fault`) are clock failures, settings that cannot be read, a salt that cannot be
  drawn, and cancellations.  A wrong password, a refused dialog, a failed opening or an
  untrusted program needs no fault.

The mutex is granted in any order, where tokio's is first come first served: the model
has every behaviour of the code and more.

Abstracted: which program asks is the constant `ScopeOf` (scope hash by identification
type); hashes of different types differ, as the code puts the type under the hash.
Left out: the status reply (reads only), the remaining handlers' work on the vault,
rate limiting and look of the dialog.

### FileStore and Transfers

The writer is one thread that takes one command at a time; its local variables are
`writer`, and a command is the steps between two writes to the disk or to SQLite.  `rows`,
`blobs`, `temps` and `items` are what is on disk, `harm` counts what has gone wrong there:
an I/O error, an agent that died, a row deletion that SQLite refused.  A caller (a client,
or the task of a job) does nothing between sending its command and taking the answer.  An
archive is the contents of its files and where it is flawed.

A job is registered, gets its row from the writer, and is spawned, in steps of its own; its
client may go away at each (`SubmitterGone`), and the writer may still create the row
(`LateJobRow`).  A sweep decides on a cleanup while nothing is active (`due`) and sends for
it later: work may have begun by the time the writer takes it up.

A file whose row deletion failed after its blob was unlinked is in the same state as
after a crash between the two: a row without a blob.  In run `BlobLost` an item is then
given the id by the client that uploaded the file.

### Vault, VaultService, Commands, Readers

`db` is the tables; each operation is an operator that gives a status and the tables
after it.  `VaultService` applies them one after the other; the wall clock may be set
back; `placed` and `real` are history.  The SQL foreign keys are part of the
operations: `ON DELETE CASCADE` by keeping versions inside the item, the deferred
pointer check by `PointersValid` in `CleanUp`.

## Runs

| Run | Module | What it asks | Result |
|---|---|---|---|
| `SessionGranted` | `MCSessionMixes` | Does the session implement `SessionPromise`, is an authorized vault open, does a denial stand? Dialogs, reads, locks, sweep, one fault; dialogs for both scopes with one denial per cache. | holds |
| `SessionWork` | `MCSessionMixes` | Types; is every authorization of the type in force, an unlock's snapshot enough, an authorization renewed by passwords only, does work pin the vault? Unlocks, settings of every kind, old and new vaults; jobs with one fault. | holds |
| `SessionLive` | `MCSessionMixes` | Is an idle vault closed, does every request end? Jobs without a fault; one fault without jobs. | holds under fairness |
| `Store` | `MCStore` | Can attached files be read, do files and blobs agree, does a failed import leave nothing, do fresh uploads and promised downloads stay, do jobs end whose client stays until they are spawned? | holds |
| `Vault` | `MCVault` | Are versions and files sound, is history append-only, do reads agree, is nothing lost, does a command of several requests end? | holds |
| `Parts` | `MCParts` | One property or two of each of the small components, which run side by side, one at a time. | holds |
| `SweepDropsFreshUnlock` | `MCAgentSession` | Does a sweep keep authorizations younger than their TTL? | violated |
| `CheckDropsFreshUnlock` | `MCAgentSession` | Does a check keep other clients' authorizations? | violated |
| `GapBeforeGuard` | `MCAgentSession` | Does an admitted request have the open vault? | violated |
| `StaleDenialTtl` | `MCAgentSession` | Is the denial TTL in force the stored one? | violated |
| `JobLeaks` | `MCAgentSession` | `IdleVaultCloses` with jobs and one fault: a cancelled handler leaves its job registered. | violated |
| `BlobLost` | `MCStore` | Does an attached file keep its blob when a cleanup is cut off? | violated |

The violated ones are disagreements between the documentation and the code; PROJECT.json
quotes the lines.  None of them gives access without a password.

### Bounds

*Session.*  Two clients, the terminals of one desktop: they differ under
`process-chain` and share one scope hash under `process-origin`.  `MaxTime = 1` with
TTLs of 1 gives a fresh and an expired instant, enough for every comparison of two
instants in the code.  `Capacity` is 1 where eviction matters and 2 where it must not hide
something.  Three or four requests allow unlock–revoke–use–unlock.

*Store.*  Four ids, two contents, two items, two jobs, one client, two days, one harm;
three mixes (two jobs; one job whose client may go away and two uploads over two days, with
work that begins between the decision on a cleanup and the cleanup; one job, one upload and
one thing that goes wrong).  Two uploads and two jobs are what a file needs to be
deduplicated while its first owner removes it.

*Vault.*  Five mixes: one item with three versions under clocks that run and are set
back; directories and items under two names; a listing page by page; commands beside
another client; a read beside a writer.

*Parts.*  Each part has bounds of its own, named in the constants of `Parts.cfg`.  Of the
six processes of `Lifecycle` any three are started; the pool has one slot per channel, two
readers and one reopening; a gate has five peers, and
denials of one application's access to items, for two units of time; `ProcessTable` has four pids, one new
process and names of two characters; `Catalog` two lookers, one edit and one load per
cooldown; `Identify` three processes below init, one of which exits during a walk.
The Vec of `AuthCacheVec` runs with instants 0 and 1.

`CHECK_DEADLOCK FALSE` is set because requests, time and faults are bounded: when they are
used up the system rests, which is a legal end.

### Fairness

`FairSpec` of the session assumes weak fairness of each client's own steps (`Advance`), of
job ends and of the sweep: the runtime polls every task that is ready, the worker threads
answer, and the sweep is a loop on an interval timer.  It assumes nothing of people (a
dialog may stay open for ever), of arrivals, of faults or of the passing of time.  The
store assumes it of the writer, and strong fairness of a job's task, which waits for a
writer that others use too.  The client's command and the agent's own
handlers are weakly fair while others act, but not the person who answers a dialog or a
prompt: `CallEnds` says that a command ends or comes to wait for one.  The
threads behind a dialog and the two ends of a connection are too.

## Theorems

TLAPS proves the following for every value of the constants, from the named assumptions
of the modules and no other.  For the session they are `CapacityAssumption` and
`SessionAssumption` (which type the constants and say that hashes of different types
differ); for the store `TransferAssumption` (ids are positive numbers, archives are lists
of contents with a flaw, clients and jobs are different names and `Nobody` is neither); for
the vault `VaultAssumption` (its three directories and its two key items have different
names and the retention periods are natural numbers), `RequestAssumption` and
`OrderAssumption` (requests and the commands `add` and `edit` name their files in lists; `rm`
is given one source), `NamesAssumption` (names are ordered, and requests use names of that
order), `BoundsAssumption` (rows are few enough for one page to show them all) and
`ReadsAssumption` (the kinds of reads).  Those of
the small components type a constant (`ClientAssumption`, `PromptAssumption`,
`GateAssumption`, `CooldownAssumption`, `HourAssumption`, `RecordAssumption`,
`ContentsAssumption`, `VecAssumption`, `EntriesAssumption`), keep a name for nobody apart from the names in use
(`LifecycleAssumption`, `LockAssumption`, `WindowsAssumption`, `DaemonAssumption`), say
that a list is one: the roots of a menu (`MenusAssumption`), the paths of one share, each
of which is given once (`SharesAssumption`), the characters of a process's name
(`CommsAssumption`), and the fields and files of a command line, which has no options for
fields but the six that are modelled (`OrdersAssumption`); or say that a crossing begins at a live shell of the user's which is older
than whoever comes (`KinsAssumption`).

<!-- table -->
| Theorem | Module | States |
|---|---|---|
| `TypeCorrect` (`TypeOK`) | `AgentSession_proofs` | The session state keeps its type, and every request's handle, epoch, mutex and guard stay in line with the inner state, for any clients, capacities and bounds. |
| `AuthorizedOpen` (`AuthorizedVaultIsOpen`) | `AgentSessionSafety_proofs` | While any scope is authorized the vault is open, its verifier is there and an expiry is recorded, under every interleaving of unlocks, locks, sweeps, setting writes, jobs and cancellations. |
| `AuthorizedCurrent` (`AuthorizedUnderCurrentType`) | `AgentSessionSafety_proofs` | Every cached authorization is for a scope hash of the process identification type in force, also when the type changes while unlocks are under way. |
| `UnlocksSound` (`UnlocksUnderWay`) | `AgentSessionSafety_proofs` | The epoch and handle an unlock compares before it commits imply that the verifier which accepted its password and the type it hashes under are still in force. |
| `PromiseKept` (`KeepsPromise`) | `AgentSessionSafety_proofs` | Every step of the session, whatever the interleaving, cancellation or failure, is a step SessionPromise allows or a stutter: access needs a password accepted since the last revocation. |
| `CacheInvariant` | `AgentSessionSteps_proofs` | The scope caches stay in order and within capacity, and no request remembers an instant the clock has not shown, under every interleaving. |
| `UnlocksRenew` (`OnlyUnlocksRenew`) | `AgentSessionSteps_proofs` | No step but the commit of an accepted password makes an authorization appear or last longer, whatever else runs. |
| `DenialStands` (`DenialsStand`) | `AgentSessionSteps_proofs` | A refusal leaves its cache only when it has run out, was replaced by an unlock or a newer refusal, or a check read the clock before it; for any capacity, TTL and clock. |
| `WorkInvariant` | `AgentSessionSteps_proofs` | Job ids are their tasks' own, whoever works on the open vault was let in under its verifier, and a vault being opened is new to everybody. |
| `VaultPinned` (`WorkPinsVault`) | `AgentSessionSteps_proofs` | The sweep never unloads the vault a request or job is working on, whatever fails or is cancelled. |
| `StoreTypeCorrect` | `Transfers_proofs` | The file store, its clients and its jobs keep their types, and every caller the writer works for is waiting for it. |
| `RowsInvariant` | `Transfers_proofs` | Without a crash or a refused row deletion every file row has its blob with its content, and with no harm at all every blob and temporary file has a row or an upload under way. |
| `FilesReadable` (`AttachedReadable`) | `Transfers_proofs` | Every file attached to an item can be read back, under every interleaving of uploads, deduplication, deletions, cleanups and jobs, unless the agent crashed or a row deletion was refused. |
| `LeavingsInvariant` | `Transfers_proofs` | Each new file is claimed by one caller only and a failing import still remembers every file of its own that is left. |
| `NothingLeft` (`NothingLeftOver`) | `Transfers_proofs` | Rows, blobs and temporary files agree, and an import that ended as failed has left no file of its own behind, whoever else was given one by deduplication, unless disk or process failed. |
| `FilesGivenStay` (`GivenFilesStay`) | `Transfers_proofs` | A client's upload of today and a file being read stay in the store, whatever cleanups, deletions and jobs run. |
| `VaultInvariant` | `Vault_proofs` | The tables stay sound (pointers, greatest version number, files, unique names, reserved rows, no item without directory) and a command stays true to the order it was given, under any mix of requests, cleanups, commands and clock changes. |
| `RowsStaySound` (`RowsSound`) | `Vault_proofs` | Every item has the versions its pointers name, the latest the greatest by number, so that every cleanup commits, and attached files that have rows, each under one name, for any names, files, requests, retentions and clocks. |
| `HistoryStands` (`HistoryIsAppendOnly`) | `Vault_proofs` | No version is ever changed and no version number given again, whatever is cleaned up, restored, moved or commanded in between and however the clock is set back. |
| `NothingLost` (`NothingIsLost`) | `Vault_proofs` | An item goes only by its deletion, after its time in the Trash in real time, or by an rm that may delete; a version only by a cleanup, once it was followed by another and has outlived the retention period; and the vault's own keys and directories stand, whatever requests and commands cross. |
| `ReadsStayTrue` (`ReadsHold`) | `Vault_proofs` | What is listed can be opened and the reverse, references, exports, versions and completions give what opening shows, a listing by pages misses and repeats nothing that stays, and an answer of several statements is one the vault could have given at one moment, for every sequence of writes. |
| `RequestsMeant` (`RequestsAreMeant`) | `Parts_proofs` | A command's request is applied at most once, exactly once when success is reported and never when a denial is, and a password leaves the client only for the calls that may ask for one. |
| `LifeInvariant` | `Parts_proofs` | The inductive invariant of the processes around the vault: who holds the lock, what each process has read, which init is still running, and what holds of the database whoever wrote it. |
| `LockKeeps` (`LockHolds`) | `Parts_proofs` | The serving agent is the one its listen path leads to and an open vault is open under the key that encrypts it, for any number of agents, migrations, password changes and inits, killed anywhere. |
| `VaultStaysWhole` (`VaultSurvives`) | `Parts_proofs` | No order of inits, migrations, openings and deaths loses the chosen setting or leaves a finished vault that the next opening or migration cannot take. |
| `DialogStaysSound` (`DialogSound`) | `Parts_proofs` | In every build a Deny clicked while the request is there is heard, and no password is left unread in the channel of a handler that has ended. |
| `WindowsStayHonest` (`WindowsHonest`) | `Parts_proofs` | A window shows what its own request is about, its handler hears passwords one at a time and at most one final outcome, whoever has a sender can be answered, and no password stays in a window that is over, for any desktop, icons and order of callbacks, closings and ends. |
| `GateStaysSound` (`GateHolds`) | `Parts_proofs` | Whoever is let in has a sound grant of the scope the route needs, status tells the truth about the time left, and the offered unlock method can be used unless a denial of that scope stands behind the dialog, for all peers, durations and platforms. |
| `CatalogStands` (`CatalogHolds`) | `Parts_proofs` | The catalog of applications never goes back, a request that loads after a miss is answered from directories as they were after it, loads are a cooldown apart, and an undisturbed load lists the applications of the directories and no other. |
| `DaemonStaysSound` (`DaemonSound`) | `Parts_proofs` | After the stop instruction nothing starts the agent again, the restart a command that succeeds prints gives back what the stop took, a manager that listens keeps its path, and whoever serves holds the lock, for any number of agents and any start limit, under systemd and launchd. |
| `DownloadStaysWhole` (`WholeOrNothing`) | `Data_proofs` | A download leaves the whole file or none of it and never replaces a file it may not, whatever became of the records on the disk and whoever dies, for all contents and sizes of records and channels. |
| `SecretsStaySafe` (`SecretsLeave`) | `Data_proofs` | A copied secret is taken off the clipboard, a child finds every file its environment names and none is left when it ends well, and a share leaves its files whole and the files of others as they were, for any references and paths. |
| `ReadsSeeWrites` (`ReadsFollowWrites`) | `Data_proofs` | Every answer agrees with the writes whose answers its caller had seen, though writer and readers are different connections, for any callers, readers, reopenings and calls given up. |
| `VecImplements` (`ImplementsTable`) | `Data_proofs` | The Vec implements the table of scopes: every call leaves the entries, in their order, and gives the answer that the table's own call does, for any scopes, instants, lifetimes and capacity. |
| `ReadingsStayTrue` (`ReadingsHold`) | `Data_proofs` | The process passed over at the macOS login boundary was the login process between the shell and the process returned, however processes end and pids are used again between the reads; and the stat line of a Linux process tells its parent, session and start whatever it calls itself; for any process tables and names. |
| `ArgumentsStayMeant` (`ArgumentsMeant`) | `Data_proofs` | What add and edit send has every field and file of the command line once, its secrets concealed; a command line that is refused has uploaded nothing; and a password that is stored or set was entered twice alike, a weak master password confirmed: for any command lines, entries and answers. |
<!-- end -->

### The session

*Caches.*  `AuthCache_proofs` says of each operation which scopes it leaves in the cache
(`InsertDomain`, `RemoveDomain`, `RetainUnexpiredDomain`, `AfterContainsDomain`, …) and
that it keeps a cache a cache.  The sessions' proofs use nothing else of the caches.

*Types.*  `TypeOK` is inductive because it also says what requests know: the handles and
epochs in local variables were handed out before (`KnowsNoFuture`), the mutex is held by
exactly the client that opens the vault, and the atomic counts exactly the guards alive.
The proof goes from `InnerStep` (the inner state keeps its type and its epoch never
falls) through `RequestKeepsFits` (the record of the request that moved fits again) and
`RequestFollows` (mutex and atomic follow it) to `TypeStep`.

*Safety.*  The two invariants about authorizations are not inductive.  A commit
authorizes the scope hash it takes under the type in its *snapshot*, in a session it
knows only by epoch and handle.  `UnlocksUnderWay` is the missing part: while epoch
and handle of the snapshot are those in force, the verifier is there and the type is the
one in force; and a vault is being opened only while there is no verifier.  The inductive
invariant is

    SafetyInv == TypeOK /\ Sound(inner) /\ UnlocksUnderWay

with `Sound(inner)` the two invariants stated of any inner state.  `InnerSucceedsStep`
shows that every step leaves a sound inner state and that a change of handle, verifier or
type shows in a larger epoch; `UnlocksStep` concludes, with `KnowsNoFuture`, that a
snapshot which still matches is still right.

*Refinement.*  Under the mapping of the instance `Promise`, granted scopes are the domains
of the caches, the proving clients those whose password was accepted in the session in
force or who are about to install the session they opened, the served clients those
behind the middleware.  A verified password is `Prove`, the commit of an unlock `Grant`, of
an opening `Open`; a lock, a new identification type, an unload and a clock failure are
`Revoke`; the sweep's expiry is `Forget`; an admitted check is `Serve`.  The heart is
`RenewalWithdraws`: when the epoch has grown and the mutex is free, nobody is proving.

*Steps.*  `AgentSessionSteps_proofs` has the action properties.  Every step changes the
caches in one of a few shapes (`CachesChange`: an operation of `AuthCache`, or clearing
them), and each property is proved of the shapes.  `OnlyUnlocksRenew` needs the type
invariant only.  `DenialsStand` needs `CacheInv`: the caches are in order (so that the
denial pushed out is the one at position 1) and no request remembers an instant the clock
has not shown (so that a look-up's pruning is too early only for the reason the property
names).  `WorkPinsVault` needs `WorkInv`: a job's id is its own, whoever works on the
open vault was let in under its verifier, and a vault being opened is new to everybody;
the sweep's last look at jobs and guards does the rest.

### The file store

`Transfers_proofs` goes in three layers.

*Rows and blobs* (`ReadableInv`).  While no agent died and no row deletion failed, every
row has its blob with its content; while nothing went wrong at all, every blob and every
temporary file has a row or an upload under way.  Each command of the writer breaks this
between its two writes, so the invariant says which id the writer is at, and that the
caller it works for waits for that answer (`Awaited`).

*Makers* (`LeavingsInv`).  Every file an uploader has created is claimed by one caller
only (`OneMaker`), since ids are fresh and only an answer hands one out; so only the import
that made a file removes it as its own.  An import that has not given up remembers in
`mine` each file of its own that is left, or the writer is deleting it (`ImportsTidy`); an
import that ended as failed has none left.

*Gifts* (`GivenInv`).  The rows of today's uploads that clients hold stay (`OwnFiles`):
a cleanup goes for files of earlier days, and a deletion for those of its maker that no
item claims.  What a stream reads is attached (`ReadsAttached`), and with the first layer
it can be read to its end.

### The vault

`Vault_proofs` is about what every operation makes of the tables.  `Follows(d, e, now)` says
what may come of tables `d` in one operation: `e` is sound, a row that changed has the time
`now` or is where it was, versions are as before or have new numbers, and what is in
Internal is untouched; `Grows` adds that nothing is gone.  Four rules (`AddRule`,
`ChangeRule`, `DropRule`, `DirsRule`) reduce an operation to the one row it changes, and
there is one lemma for each operation that succeeds and one for each that is refused.

None of the properties is inductive.  `RowsSound` needs unique directory names and the
flags of the vault's own two directories (else a request reaches Internal, whose items
have the one version that no cleanup may take).  A version number is new because the
latest version is the greatest *by number*, which clocks set back do not disturb, whereas
the oldest one is found *by time*, and exists because a strict order on a finite set has a
minimum (`MinimalExists`, from the well-founded inclusion of finite sets).
`NothingIsLost` speaks of real time while the code knows the wall clock, so the invariant
relates the two: `placed[i] - updated <= real - wall` (`PlacedSound`): an item has been in its
place for at least as long as its row says.  Commands have an invariant of their own
(`ShellSound`): an `rm` has one source, everything it still has to remove is in that
source's directory, and so the decision whether it may delete, taken item by item,
is always that of the order it was given.

*Reads* (`ReadsStayTrue`).  `ReadsHold` has two halves.  That a read of several statements
answers what the vault held at one moment needs an invariant that says at each statement
which of the moments seen so far the answer will be that of (`ReadInv`); the removals that
`steady` excludes are the only steps which break it.  That all reads of one state agree is
about listings: a page is the rows behind its marker in the order of the listing, so the
proof needs that the keys of rows are totally ordered and differ (`KeysOrdered`), which rests
on names that are in the order and unique among the rows of a directory (`Named`,
`Listable`), and for a client that reads page by page an invariant of its walk
(`WalkSound`): each row it watches was shown once if it is before the marker, and not yet if it
is behind.  `InOrder`, which lists a set by rank, is shown to give each element once, in order
(`InOrderSorts`), so that one page of a large enough size is the whole listing (`WholePage`) and
pages follow one another without gap or repetition.

### The small components

`Parts_proofs` has the components in which processes, threads and people cross, and
`Data_proofs` those that handle data.  Only for the pool is the property inductive once
the records have their shape.

*Client* (`ClientInv`).  `RequestsAreMeant` says how often a call was applied when the
client has ended, and not what the answers under way still tell about it; `EffectSound` says
it for every place the client can be at, from which it follows that a second sending
follows only on a denial.

*Life cycle* (`LifeInv`).  What holds of the database whoever wrote it (`DataSound`), what a
process that has opened it may rely on though an init goes on (`Knows`), that one init only
gets past the schema (`OneInit`), and that an unfinished vault has its init still running
unless one was killed (`Finishing`).

*Dialog* (`PromptInv`).  While a handler listens, window, channel, verdict and handler are in
one of four states.  The property is about the handler's end, and holds because the channel
never has two passwords, nor a password behind an outcome that ends the dialog.

*Windows* (`WindowsInv`).  `WindowsHonest` does not say that a handler cannot hear from a
window that it has not answered, that is closing, or that has lost its sender.  The
invariant ties each request to its window (`Together`), the window to the closing the thread
is in the middle of (`Stage`), and the channel to the requests not yet taken (`Queued`).  A
sender is left only while nothing is decided: so a second final outcome cannot follow, nor
a nested closing signal send one.

*Gate* (`GateInv`).  The code looks at its table, the property speaks of grants: every live
entry of the table must have its grant through each unlock, denial, lock, change of type
and sweep.

*Catalog* (`CatalogInv`).  That the catalog never goes back is a fact about the load under
way: the mutex, the change it began at and what it has read so far are tied together, and
so is the catalog that is there to the last load.

*Agent under its manager* (`DaemonInv`).  Each of the four properties is about the end of a
long order of steps by user, manager and agents; the invariant says for every step of
`init` and of a command that stops the agent what is loaded, what is alive and who has the
lock.  The restart is promised to commands that succeed, perhaps when tried again: one that
fails says nothing about the agent, and a user who then gives up leaves it stopped.

*Downloads and shell* (`DownloadInv`, `ShellInv`).  An undamaged file's channel holds no
error, a temporary file is whole only for the bytes whose digest was asked for, and the
digest of a sequence is the sequence itself; the files of a share that are done stay as
they are because no path is given twice.

*Pool* (`TablesTold`).  The tables are always among those that every caller's answers
allow; a stale pool after a reopening does not change that, since the database is one.

*One process* (`CrossingSound`, `TableSound`).  What was read twice alike was the same in
between, though processes end and their pids are given again: start times are never given
twice, a process that loses its parent goes to launchd and never back, and so whoever is
at a pid with a remembered start is the process that was remembered.  The answer to a
crossing is therefore about the login process that was the shell's parent.  For the stat line,
the last bracket ends the name whatever the name holds, and the words behind it come in the
order of the fields (`WordsInTurn`).

*Arguments* (`ArgumentsInv`).  The property looks at a command that has sent, refused or set
something; the invariant says at each argument which fields are there: those of the options
and fields so far (`Progress`), no two of one name (`ListsNamedOnce`), and none less
concealed than the command line says.  A field called like a secret option cannot undo it,
because the options come first and the second of a name is refused.  That a password was
entered twice alike is carried through the questions by what was entered
(`PasswordsEntered`, `MasterEntered`), and no file is with the agent before the last argument
is taken (`UploadsSound`).

*The Vec of the scope cache.*  `VecSound` is its own invariant, and `TableOf` the table that
a Vec stands for.  The heart is what `retain` leaves (`RetainedSelects`): the entries at
the kept positions, in their order, so that each entry's place is the number of kept
positions up to its own.  `Retained` is written as a recursive function, since the library's
`SelectSeq` is opaque to the provers.  It was proved without induction: were it not right at
some length, there would be a least such one (`KeepsExists`).

The proofs changed the model in three places.  In `Daemon`, the guards of a CASE overlapped, of
which TLC takes the first that holds and TLA+ any; they are disjoint now.  In `Windows`, what
AppKit empties in a field when it closes a panel is part of the step that closes it.  In
`ProcessTable`, the words of a line are a recursive function, for the same reason as `Retained`.

## What is only model-checked

Liveness under fairness (`IdleVaultCloses`, `RequestsEnd`, `JobsEnd`, `CommandsEnd`,
`WindowsAnswer`, `CallEnds`) and ENABLED are out of the prover's reach.  What reads a
sequence to its end needs induction over data: archives, HTTP, texts
(`RoundTrip`, `AnswersMatch`, `TokensAgree`, `WordsAgree`), and so does the walk up the
process table (`OriginsAgree`).
The findings are counterexamples and stay with TLC.

## What is not modelled, and what the properties exclude

Cryptography (`secret.rs`, record encryption, zxcvbn, age), the list of words, formatting
and the configuration file are left out.  In the components:

* *Session.*  Rate limiting; the remaining handlers' work on the vault; `u64` epochs wrap
  after 2^64 revocations.
* *Gate.*  Every request is one step; how steps cross is `AgentSession`.  Before the first
  unlock the middleware uses the default type, so that a peer whose processes cannot be
  told never makes the first unlock, even of a vault that asks for no identity.
* *Prompt, Windows.*  The look, layout and throttled activation of windows; Qt
  objects that cannot be created.  In Qt a password submitted for a client that has gone
  leaves the window waiting until the user denies or closes it.
* *File store.*  What a power failure does to files that were not synced.  A file that was
  renamed before a crash and never committed stays for ever; so do an import's spool files.
  A client that was given an *old* orphan by deduplication may lose it to the cleanup, or to
  a failing import that created it: `GivenFilesStay` is about uploads that created their
  file.  A job row that is running when the agent dies stays running, and one whose client
  goes away before the task is spawned stays queued (`JobsEnd` excludes both; `JobLeaks`
  shows what the second does to the session).
* *Vault.*  A read of several statements may show a version removed in between without its
  fields, and a row id that came back with another item's (`steady` excludes both); so may
  a walk skip items when the row its marker names was renamed or replaced.  Item names with a
  slash can be made over HTTP, and no command can address them.
* *Commands.*  Numbered names in the Trash fail at 999 even when lower ones are free; an
  interrupted add or edit leaves orphans; endless interference keeps `rm -r` busy
  (`CommandsEnd` excludes it).
* *Pool.*  Two pools whose deferred transactions collide with `SQLITE_BUSY`.
* *Lifecycle, Daemon.*  A creation that dies half way leaves a file that neither init nor
  migrate nor the agent can use; an opening that races with init can put the version
  back (`spoiled` excludes both from `VaultWhole`).  systemd and launchd are external.  An
  agent started by hand without the activation environment takes the manager's socket for
  a stale one (`DaemonSound` excludes it).
* *Identify, ProcessTable, Catalog.*  Hashes stand for lineages; a pid used again during a
  walk, exec that changes a name, setsid after fork, an agent binary replaced on disk; a
  directory is read in one step.
* *Download, Wire.*  Two `read -o` racing for one target; a temporary file stays after a kill;
  read-to-EOF framing and unsupported encodings; an upload denied before its body was read
  may fail with a write error instead of the prompt.
* *Shell.*  A signal to clip leaves the secret on the clipboard, and one to run its
  directory of files; text that another program puts on the clipboard between get and clear
  is lost; `share` polls for ever when the agent dies.
* *Archive, Tokens, Completion, Arguments.*  JSON, tar and gzip formatting, base32 and URL
  text are reduced to lengths and flaws; names with a slash; the bias of a random index.

## Plan

Theorems left: the walk to the process behind a connection (`OriginsAgree`), the order of
answers on one connection (`AnswersMatch`), and what an archive holds after a round trip
(`RoundTrip`).
