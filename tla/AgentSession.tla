----------------------------- MODULE AgentSession -----------------------------
(***************************************************************************)
(* The agent's session state (struct InnerState of agent/state.rs) and the *)
(* tasks that share it: one task per client request, the authorization     *)
(* sweep, and the import and export jobs.  A step is the code between two  *)
(* awaits or two acquisitions of the inner mutex.                          *)
(***************************************************************************)
EXTENDS AuthCache, Sequences

CONSTANTS
    Clients,            \* local processes, each with one request at a time
    Nobody,             \* the mutex has no holder across an await
    IdentTypes,         \* ProcessIdentificationType
    ProcessChain,       \* the type the agent starts with
    ScopeOf,            \* ScopeOf[c][t]: scope hash of c under type t
    NoScope,
    InitialDisk,        \* settings the encrypted database may start with
    DefaultDenialTtl,   \* denial TTL before any database is read
    Writes,             \* setting changes clients make
    GcInterval,         \* agent.gcSeconds
    Routes,             \* the requests clients make: see AllRoutes
    MaxPasswordAttempts,\* MAX_GUI_PASSWORD_ATTEMPTS
    MaxTime,            \* bound: clock readings are 0 .. MaxTime
    MaxRequests,        \* bound: requests made in a behaviour
    MaxFaults           \* bound: clock, I/O and random failures, cancellations

Scopes == {ScopeOf[c][t] : c \in Clients, t \in IdentTypes}

AccessScopes == {"items", "settings"}

NoHandle == 0
Never == -1

VARIABLES
    inner,          \* InnerState, protected by the mutex
    holder,         \* the client that holds the mutex across awaits
    activeRequests, \* the atomic active_database_requests
    disk,           \* the settings rows of the encrypted database
    handles,        \* database handles opened so far; a handle is its number
    tasks,          \* running import and export jobs
    client,         \* client[c]: the state of c's request
    sweep,          \* the state of the sweep task
    clock,          \* the suspend-aware clock
    requests,       \* requests still to be made
    faults          \* faults still to happen

vars == <<inner, holder, activeRequests, disk, handles, tasks, client, sweep,
          clock, requests, faults>>

-----------------------------------------------------------------------------
(* Requests *)

AllRoutes ==
    [kind: {"unlock", "gui"}, tries: {<<a>> : a \in AccessScopes}]
    \cup [kind: {"lock"}, tries: {<<>>}]
    \cup [kind: {"read"}, tries: {<<"items">>, <<"settings">>, <<"items", "settings">>}]
    \cup [kind: {"setting"}, tries: {<<"settings">>}]
    \cup [kind: {"job"}, tries: {<<"items">>}]

Disks ==
    [authTtl: [AccessScopes -> Nat], denialTtl: Nat, identType: IdentTypes, stale: BOOLEAN]

SettingWrites ==
    [name: {"identType"}, value: IdentTypes] \cup [name: {"denialTtl"} \cup AccessScopes, value: Nat]

ASSUME SessionAssumption ==
    /\ Nobody \notin Clients
    /\ ProcessChain \in IdentTypes
    /\ ScopeOf \in [Clients -> [IdentTypes -> Scopes]]
    /\ \A c, d \in Clients, t, u \in IdentTypes :
           ScopeOf[c][t] = ScopeOf[d][u] => t = u
    /\ IsFiniteSet(Clients) /\ IsFiniteSet(IdentTypes)
    /\ Routes \subseteq AllRoutes
    /\ InitialDisk \subseteq Disks
    /\ Writes \subseteq SettingWrites
    /\ DefaultDenialTtl \in Nat
    /\ GcInterval \in Nat
    /\ MaxTime \in Nat /\ MaxRequests \in Nat /\ MaxFaults \in Nat

NoWrite == [name |-> "none", value |-> 0]

Idle ==
    [pc |-> "idle", kind |-> "none", tries |-> <<>>, scope |-> NoScope,
     type |-> ProcessChain, attempts |-> 0, db |-> NoHandle, epoch |-> 0,
     ttl |-> 0, now |-> 0, write |-> NoWrite, id |-> 0]

Access(c) == Head(client[c].tries)

At(c, pc) == client[c].pc = pc

Goto(c, pc) == client' = [client EXCEPT ![c].pc = pc]

Reply(c) == client' = [client EXCEPT ![c] = Idle]

(***************************************************************************)
(* A failed unlock ends a direct request; the dialog of a GUI request asks *)
(* again until its attempts are used up.                                   *)
(***************************************************************************)
RefuseUnlock(c) ==
    LET r == client[c]
    IN  IF r.kind = "gui" /\ r.attempts + 1 < MaxPasswordAttempts
        THEN client' = [client EXCEPT ![c] =
                 [Idle EXCEPT !.pc = "prompt", !.kind = "gui", !.tries = r.tries,
                              !.scope = r.scope, !.attempts = r.attempts + 1]]
        ELSE Reply(c)

HoldsGuard(c) == client[c].pc \in {"handler", "publish", "createJob", "undoJob", "respond"}

Serving(c) == At(c, "admitted") \/ HoldsGuard(c)

MutexFree == holder = Nobody

Fault == faults > 0 /\ faults' = faults - 1

NoFault == UNCHANGED faults

-----------------------------------------------------------------------------
(* InnerState *)

NoEntries == [a \in AccessScopes |-> EmptyCache]

InvalidateAuthEpoch(i) == [i EXCEPT !.epoch = @ + 1]

SetProcessIdentificationTypeKeepingEpoch(i, t) ==
    IF i.identType = t
    THEN i
    ELSE [i EXCEPT !.identType = t, !.authorized = NoEntries, !.denied = NoEntries,
                   !.expiryRecorded = FALSE]

SetProcessIdentificationType(i, t) ==
    IF i.identType = t
    THEN i
    ELSE [InvalidateAuthEpoch(i) EXCEPT
              !.identType = t, !.authorized = NoEntries, !.denied = NoEntries,
              !.expiryRecorded = FALSE]

AuthorizeForgettingDenials(i, a, scope, now) ==
    [i EXCEPT !.denied = NoEntries,
              !.authorized[a] = Insert(@, scope, now),
              !.expiryRecorded = TRUE]

(***************************************************************************)
(* Of max_authorization_expires_at the code only ever asks whether it is   *)
(* None, so the model keeps that bit, as expiryRecorded.                   *)
(***************************************************************************)
Authorize(i, a, scope, now) ==
    [i EXCEPT !.denied[a] = Remove(@, scope),
              !.authorized[a] = Insert(@, scope, now),
              !.expiryRecorded = TRUE]

UnloadLocked(i) ==
    [InvalidateAuthEpoch(i) EXCEPT
        !.database = NoHandle, !.verifier = FALSE, !.authorized = NoEntries,
        !.expiryRecorded = FALSE]

HasActiveWork == inner.activeJobs # {} \/ activeRequests > 0

Init ==
    /\ inner = [database |-> NoHandle, verifier |-> FALSE,
                authorized |-> NoEntries, denied |-> NoEntries,
                denialTtl |-> DefaultDenialTtl, expiryRecorded |-> FALSE,
                lastCleanup |-> Never, activeJobs |-> {}, epoch |-> 0,
                migrationNeeded |-> FALSE, identType |-> ProcessChain]
    /\ holder = Nobody
    /\ activeRequests = 0
    /\ disk \in InitialDisk
    /\ handles = 0
    /\ tasks = {}
    /\ client = [c \in Clients |-> Idle]
    /\ sweep = [pc |-> "idle", now |-> 0, db |-> NoHandle,
                ttl |-> [a \in AccessScopes |-> 0], gc |-> FALSE, due |-> FALSE]
    /\ clock = 0
    /\ requests \in 0 .. MaxRequests
    /\ faults \in 0 .. MaxFaults

-----------------------------------------------------------------------------
(* A request arrives: require_same_uid_and_gid takes its scope hash *)

Start(c, route) ==
    /\ MutexFree
    /\ At(c, "idle")
    /\ requests > 0
    /\ client' = [client EXCEPT ![c] =
           [Idle EXCEPT !.pc = IF route.kind \in {"unlock", "gui", "lock"}
                                THEN route.kind ELSE "authorize",
                        !.kind = route.kind,
                        !.tries = route.tries,
                        !.scope = ScopeOf[c][inner.identType],
                        !.id = IF route.kind = "job" THEN requests ELSE 0]]
    /\ requests' = requests - 1
    /\ UNCHANGED <<inner, holder, activeRequests, disk, handles, tasks, sweep,
                   clock, faults>>

CancelKeepingMutex(c) ==
    /\ client[c].pc \notin {"idle", "admitted"}
    /\ Fault
    /\ Reply(c)
    /\ activeRequests' = IF HoldsGuard(c) THEN activeRequests - 1 ELSE activeRequests
    /\ UNCHANGED <<inner, holder, disk, handles, tasks, sweep, clock, requests>>

CancelKeepingGuard(c) ==
    /\ client[c].pc \notin {"idle", "admitted"}
    /\ Fault
    /\ Reply(c)
    /\ holder' = IF holder = c THEN Nobody ELSE holder
    /\ UNCHANGED <<inner, activeRequests, disk, handles, tasks, sweep, clock, requests>>

(***************************************************************************)
(* hyper drops the handler's future when the peer disconnects; the future  *)
(* then gives up the mutex and the request guard it holds.  The client can *)
(* go away only where the handler awaits, so not between the authorization *)
(* and the guard.                                                          *)
(***************************************************************************)
Cancel(c) ==
    /\ client[c].pc \notin {"idle", "admitted"}
    /\ Fault
    /\ Reply(c)
    /\ holder' = IF holder = c THEN Nobody ELSE holder
    /\ activeRequests' = IF HoldsGuard(c) THEN activeRequests - 1 ELSE activeRequests
    /\ UNCHANGED <<inner, disk, handles, tasks, sweep, clock, requests>>

-----------------------------------------------------------------------------
(* unlock_gui_with_prompt *)

(***************************************************************************)
(* The clock is read before the mutex is asked for, so the denials may be  *)
(* compared with an instant older than some of them.                       *)
(***************************************************************************)
GuiReadClock(c) ==
    /\ At(c, "gui")
    /\ \/ /\ client' = [client EXCEPT ![c].pc = "denials", ![c].now = clock]
          /\ NoFault
       \/ /\ Fault     \* no clock: the denials are not consulted
          /\ Goto(c, "prompt")
    /\ UNCHANGED <<inner, holder, activeRequests, disk, handles, tasks, sweep,
                   clock, requests>>

GuiCheckDenials(c) ==
    /\ MutexFree
    /\ At(c, "denials")
    /\ inner' = [inner EXCEPT !.denied[Access(c)] =
                     AfterContains(@, client[c].scope, client[c].now, inner.denialTtl)]
    /\ IF Contains(inner.denied[Access(c)], client[c].scope, client[c].now, inner.denialTtl)
       THEN Reply(c)
       ELSE client' = [client EXCEPT ![c].pc = "prompt", ![c].now = 0]
    /\ UNCHANGED <<holder, activeRequests, disk, handles, tasks, sweep, clock,
                   requests, faults>>

PromptAllowed(c) ==
    /\ At(c, "prompt")
    /\ Goto(c, "unlock")
    /\ UNCHANGED <<inner, holder, activeRequests, disk, handles, tasks, sweep,
                   clock, requests, faults>>

PromptDismissed(c) ==
    /\ At(c, "prompt")
    /\ Reply(c)
    /\ UNCHANGED <<inner, holder, activeRequests, disk, handles, tasks, sweep,
                   clock, requests, faults>>

PromptDenied(c) ==
    /\ At(c, "prompt")
    /\ \/ /\ client' = [client EXCEPT ![c].pc = "deny", ![c].now = clock]
          /\ NoFault
       \/ /\ Fault
          /\ Reply(c)
    /\ UNCHANGED <<inner, holder, activeRequests, disk, handles, tasks, sweep,
                   clock, requests>>

RecordDenial(c) ==
    /\ MutexFree
    /\ At(c, "deny")
    /\ inner' = [inner EXCEPT !.denied[Access(c)] =
                     Insert(@, client[c].scope, client[c].now)]
    /\ Reply(c)
    /\ UNCHANGED <<holder, activeRequests, disk, handles, tasks, sweep, clock,
                   requests, faults>>

-----------------------------------------------------------------------------
(* unlock_for_scope_with_policy, the vault open *)

UnlockWrongPassword(c) ==
    /\ MutexFree
    /\ At(c, "unlock")
    /\ inner.verifier
    /\ RefuseUnlock(c)
    /\ UNCHANGED <<inner, holder, activeRequests, disk, handles, tasks, sweep,
                   clock, requests, faults>>

UnlockVerified(c) ==
    /\ MutexFree
    /\ At(c, "unlock")
    /\ inner.verifier
    /\ inner.database # NoHandle
    /\ client' = [client EXCEPT ![c].pc = "readSettings",
                                ![c].db = inner.database,
                                ![c].epoch = inner.epoch,
                                ![c].type = inner.identType]
    /\ UNCHANGED <<inner, holder, activeRequests, disk, handles, tasks, sweep,
                   clock, requests, faults>>

(***************************************************************************)
(* The trust check, the read of the authorization TTL and the read of the  *)
(* denial TTL, without the mutex.  Only the denial TTL is used later.      *)
(***************************************************************************)
UnlockReadSettings(c) ==
    /\ At(c, "readSettings")
    /\ \/ client' = [client EXCEPT ![c].pc = "commit", ![c].ttl = disk.denialTtl]
       \/ RefuseUnlock(c)     \* an untrusted program, or a read that failed
    /\ UNCHANGED <<inner, holder, activeRequests, disk, handles, tasks, sweep,
                   clock, requests, faults>>

SessionUnchanged(c) ==
    /\ inner.epoch = client[c].epoch
    /\ inner.database = client[c].db

UnlockCommitUnchecked(c) ==
    /\ MutexFree
    /\ At(c, "commit")
    /\ inner' = Authorize([inner EXCEPT !.denialTtl = client[c].ttl],
                          Access(c), ScopeOf[c][client[c].type], clock)
    /\ Reply(c)
    /\ UNCHANGED <<holder, activeRequests, disk, handles, tasks, sweep, clock,
                   requests, faults>>

UnlockCommitIgnoringEpoch(c) ==
    /\ inner.database = client[c].db
    /\ UnlockCommitUnchecked(c)

UnlockCommit(c) ==
    /\ MutexFree
    /\ At(c, "commit")
    /\ SessionUnchanged(c)
    /\ \/ /\ inner' = Authorize([inner EXCEPT !.denialTtl = client[c].ttl],
                                Access(c), ScopeOf[c][client[c].type], clock)
          /\ Reply(c)
          /\ NoFault
       \/ /\ Fault
          /\ RefuseUnlock(c)
          /\ UNCHANGED inner
    /\ UNCHANGED <<holder, activeRequests, disk, handles, tasks, sweep, clock, requests>>

UnlockSuperseded(c) ==
    /\ MutexFree
    /\ At(c, "commit")
    /\ ~SessionUnchanged(c)
    /\ RefuseUnlock(c)
    /\ UNCHANGED <<inner, holder, activeRequests, disk, handles, tasks, sweep,
                   clock, requests, faults>>

-----------------------------------------------------------------------------
(* unlock_for_scope_with_policy, the vault closed: the mutex is held *)

OpenBegin(c) ==
    /\ MutexFree
    /\ At(c, "unlock")
    /\ ~inner.verifier
    /\ holder' = c
    /\ Goto(c, "open")
    /\ UNCHANGED <<inner, activeRequests, disk, handles, tasks, sweep, clock,
                   requests, faults>>

OpenSucceeded(c) ==
    /\ At(c, "open")
    /\ ~disk.stale
    /\ handles' = handles + 1
    /\ client' = [client EXCEPT ![c].pc = "load", ![c].db = handles']
    /\ UNCHANGED <<inner, holder, activeRequests, disk, tasks, sweep, clock,
                   requests, faults>>

(***************************************************************************)
(* A wrong password, an I/O error, or a schema an earlier release wrote.   *)
(***************************************************************************)
OpenFailed(c) ==
    /\ At(c, "open")
    /\ holder' = Nobody
    /\ \/ /\ RefuseUnlock(c)
          /\ UNCHANGED inner
       \/ /\ disk.stale
          /\ inner' = [inner EXCEPT !.migrationNeeded = TRUE]
          /\ Reply(c)
    /\ UNCHANGED <<activeRequests, disk, handles, tasks, sweep, clock, requests, faults>>

OpenLoad(c) ==
    /\ At(c, "load")
    /\ \/ /\ client' = [client EXCEPT ![c].pc = "install",
                                      ![c].ttl = disk.denialTtl,
                                      ![c].type = disk.identType]
          /\ UNCHANGED holder
       \/ /\ RefuseUnlock(c)
          /\ holder' = Nobody
    /\ UNCHANGED <<inner, activeRequests, disk, handles, tasks, sweep, clock,
                   requests, faults>>

OpenInstalled(i, c) ==
    [SetProcessIdentificationType(InvalidateAuthEpoch(i), client[c].type)
        EXCEPT !.database = client[c].db]

(***************************************************************************)
(* The new session is installed and its first authorization recorded.      *)
(* Without a clock nothing happens; when the verifier's salt cannot be     *)
(* drawn the database stays installed without a verifier.                  *)
(***************************************************************************)
OpenCommit(c) ==
    /\ At(c, "install")
    /\ holder' = Nobody
    /\ \/ /\ inner' = Authorize([OpenInstalled(inner, c) EXCEPT
                                    !.verifier = TRUE, !.denialTtl = client[c].ttl],
                                Access(c), ScopeOf[c][client[c].type], clock)
          /\ Reply(c)
          /\ NoFault
       \/ /\ Fault
          /\ inner' \in {inner, OpenInstalled(inner, c)}
          /\ RefuseUnlock(c)
    /\ UNCHANGED <<activeRequests, disk, handles, tasks, sweep, clock, requests>>

-----------------------------------------------------------------------------
(* lock *)

Lock(c) ==
    /\ MutexFree
    /\ At(c, "lock")
    /\ \E haveClock \in BOOLEAN :
           /\ inner' = [InvalidateAuthEpoch(inner) EXCEPT
                           !.authorized = NoEntries, !.expiryRecorded = haveClock]
           /\ IF haveClock THEN NoFault ELSE Fault
    /\ Reply(c)
    /\ UNCHANGED <<holder, activeRequests, disk, handles, tasks, sweep, clock, requests>>

-----------------------------------------------------------------------------
(* require_authorized_database_for_scopes *)

(***************************************************************************)
(* A denied attempt falls through to the next access scope of the route.   *)
(***************************************************************************)
DenyAccess(c) ==
    LET r == client[c]
    IN  IF Len(r.tries) > 1
        THEN client' = [client EXCEPT ![c] =
                 [Idle EXCEPT !.pc = "authorize", !.kind = r.kind, !.id = r.id,
                              !.tries = Tail(r.tries), !.scope = r.scope]]
        ELSE Reply(c)

AuthorizeStart(c) ==
    /\ MutexFree
    /\ At(c, "authorize")
    /\ \/ /\ inner.migrationNeeded
          /\ Reply(c)
       \/ /\ ~inner.migrationNeeded
          /\ inner.database = NoHandle
          /\ DenyAccess(c)
       \/ /\ ~inner.migrationNeeded
          /\ inner.database # NoHandle
          /\ Goto(c, "readTtl")
    /\ UNCHANGED <<inner, holder, activeRequests, disk, handles, tasks, sweep,
                   clock, requests, faults>>

AuthorizeReadTtl(c) ==
    /\ At(c, "readTtl")
    /\ \/ /\ client' = [client EXCEPT ![c].pc = "readClock",
                                      ![c].ttl = disk.authTtl[Access(c)]]
          /\ NoFault
       \/ /\ Fault
          /\ DenyAccess(c)
    /\ UNCHANGED <<inner, holder, activeRequests, disk, handles, tasks, sweep,
                   clock, requests>>

AuthorizeReadClock(c) ==
    /\ At(c, "readClock")
    /\ \/ /\ client' = [client EXCEPT ![c].pc = "check", ![c].now = clock]
          /\ NoFault
       \/ /\ Fault
          /\ DenyAccess(c)
    /\ UNCHANGED <<inner, holder, activeRequests, disk, handles, tasks, sweep,
                   clock, requests>>

Authorized(c) ==
    /\ inner.database # NoHandle
    /\ Contains(inner.authorized[Access(c)], client[c].scope, client[c].now, client[c].ttl)

AuthorizeCheck(c) ==
    /\ MutexFree
    /\ At(c, "check")
    /\ inner' = IF inner.database = NoHandle
                THEN inner
                ELSE [inner EXCEPT !.authorized[Access(c)] =
                         AfterContains(@, client[c].scope, client[c].now, client[c].ttl)]
    /\ \/ /\ Authorized(c)
          /\ client' = [client EXCEPT ![c].pc = "admitted", ![c].db = inner.database,
                                      ![c].ttl = 0, ![c].now = 0]
       \/ /\ ~Authorized(c)
          /\ DenyAccess(c)
    /\ UNCHANGED <<holder, activeRequests, disk, handles, tasks, sweep, clock,
                   requests, faults>>

BeginActiveRequest(c) ==
    /\ At(c, "admitted")
    /\ activeRequests' = activeRequests + 1
    /\ Goto(c, "handler")
    /\ UNCHANGED <<inner, holder, disk, handles, tasks, sweep, clock, requests, faults>>

-----------------------------------------------------------------------------
(* The handlers behind the guard *)

(***************************************************************************)
(* Handlers that leave the session alone: their work on the vault is done. *)
(***************************************************************************)
HandleRead(c) ==
    /\ At(c, "handler")
    /\ client[c].kind = "read"
    /\ Goto(c, "respond")
    /\ UNCHANGED <<inner, holder, activeRequests, disk, handles, tasks, sweep,
                   clock, requests, faults>>

(***************************************************************************)
(* The response body is dropped, and the guard with it.                    *)
(***************************************************************************)
Respond(c) ==
    /\ At(c, "respond")
    /\ activeRequests' = activeRequests - 1
    /\ Reply(c)
    /\ UNCHANGED <<inner, holder, disk, handles, tasks, sweep, clock, requests, faults>>

Written(w) ==
    CASE w.name = "denialTtl" -> [disk EXCEPT !.denialTtl = w.value]
      [] w.name = "identType" -> [disk EXCEPT !.identType = w.value]
      [] OTHER -> [disk EXCEPT !.authTtl[w.name] = w.value]

(***************************************************************************)
(* upsert_setting writes the row first and updates the inner state in a    *)
(* second step.                                                            *)
(***************************************************************************)
WriteSetting(c) ==
    /\ At(c, "handler")
    /\ client[c].kind = "setting"
    /\ \/ \E w \in Writes :
              /\ disk' = Written(w)
              /\ client' = [client EXCEPT
                     ![c].write = w,
                     ![c].pc = IF w.name \in {"denialTtl", "identType"}
                               THEN "publish" ELSE "respond"]
       \/ /\ Goto(c, "respond")     \* a bad value, or a write that failed
          /\ UNCHANGED disk
    /\ UNCHANGED <<inner, holder, activeRequests, handles, tasks, sweep, clock,
                   requests, faults>>

PublishSetting(c) ==
    /\ MutexFree
    /\ At(c, "publish")
    /\ LET w == client[c].write
       IN  inner' = IF w.name = "denialTtl"
                    THEN [inner EXCEPT !.denialTtl = w.value]
                    ELSE SetProcessIdentificationType(inner, w.value)
    /\ Goto(c, "respond")
    /\ UNCHANGED <<holder, activeRequests, disk, handles, tasks, sweep, clock,
                   requests, faults>>

(***************************************************************************)
(* import_item and export_item: the job is registered, its row created,    *)
(* its task spawned; a row that cannot be created unregisters it.          *)
(***************************************************************************)
RegisterJob(c) ==
    /\ MutexFree
    /\ At(c, "handler")
    /\ client[c].kind = "job"
    /\ inner' = [inner EXCEPT !.activeJobs = @ \cup {client[c].id}]
    /\ Goto(c, "createJob")
    /\ UNCHANGED <<holder, activeRequests, disk, handles, tasks, sweep, clock,
                   requests, faults>>

CreateJob(c) ==
    /\ At(c, "createJob")
    /\ \/ /\ tasks' = tasks \cup {[id |-> client[c].id, db |-> client[c].db]}
          /\ Goto(c, "respond")
       \/ /\ Goto(c, "undoJob")
          /\ UNCHANGED tasks
    /\ UNCHANGED <<inner, holder, activeRequests, disk, handles, sweep, clock,
                   requests, faults>>

UndoNothing(c) ==
    /\ MutexFree
    /\ At(c, "undoJob")
    /\ Goto(c, "respond")
    /\ UNCHANGED <<inner, holder, activeRequests, disk, handles, tasks, sweep, clock,
                   requests, faults>>

UndoJob(c) ==
    /\ MutexFree
    /\ At(c, "undoJob")
    /\ inner' = [inner EXCEPT !.activeJobs = @ \ {client[c].id}]
    /\ Goto(c, "respond")
    /\ UNCHANGED <<holder, activeRequests, disk, handles, tasks, sweep, clock,
                   requests, faults>>

(***************************************************************************)
(* A job's task ends, whatever its outcome, by unregistering the job.      *)
(***************************************************************************)
JobEnds(task) ==
    /\ MutexFree
    /\ tasks' = tasks \ {task}
    /\ inner' = [inner EXCEPT !.activeJobs = @ \ {task.id}]
    /\ UNCHANGED <<holder, activeRequests, disk, handles, client, sweep, clock,
                   requests, faults>>

-----------------------------------------------------------------------------
(* spawn_auth_expiry_lock_task and unload_if_authorization_expired *)

SweepIdle ==
    sweep' = [pc |-> "idle", now |-> 0, db |-> NoHandle,
              ttl |-> [a \in AccessScopes |-> 0], gc |-> FALSE, due |-> FALSE]

SweepTick ==
    /\ sweep.pc = "idle"
    /\ sweep' = [sweep EXCEPT !.pc = "start", !.now = clock]
    /\ UNCHANGED <<inner, holder, activeRequests, disk, handles, tasks, client,
                   clock, requests, faults>>

(***************************************************************************)
(* invalidate_authorizations_after_clock_failure                           *)
(***************************************************************************)
SweepClockFailure ==
    /\ MutexFree
    /\ sweep.pc = "idle"
    /\ Fault
    /\ LET cleared == [InvalidateAuthEpoch(inner) EXCEPT
                           !.authorized = NoEntries, !.expiryRecorded = FALSE]
       IN  inner' = IF HasActiveWork THEN cleared ELSE UnloadLocked(cleared)
    /\ UNCHANGED <<holder, activeRequests, disk, handles, tasks, client, sweep,
                   clock, requests>>

SweepStart ==
    /\ MutexFree
    /\ sweep.pc = "start"
    /\ IF inner.database = NoHandle
       THEN SweepIdle
       ELSE sweep' = [sweep EXCEPT !.pc = "readSettings", !.db = inner.database]
    /\ UNCHANGED <<inner, holder, activeRequests, disk, handles, tasks, client,
                   clock, requests, faults>>

(***************************************************************************)
(* A TTL that cannot be read counts as zero, and without the interval of   *)
(* the cleanup there is none this time.                                    *)
(***************************************************************************)
SweepReadSettings ==
    /\ sweep.pc = "readSettings"
    /\ \E gc \in BOOLEAN, unread \in SUBSET AccessScopes :
           /\ sweep' = [sweep EXCEPT
                  !.pc = "expire", !.gc = gc,
                  !.ttl = [a \in AccessScopes |-> IF a \in unread THEN 0 ELSE disk.authTtl[a]]]
           /\ IF gc /\ unread = {} THEN NoFault ELSE Fault
    /\ UNCHANGED <<inner, holder, activeRequests, disk, handles, tasks, client,
                   clock, requests>>

CleanupDue ==
    /\ sweep.gc
    /\ \/ inner.lastCleanup = Never
       \/ sweep.now < inner.lastCleanup
       \/ sweep.now - inner.lastCleanup >= GcInterval

SweepExpireKeepingDeadline ==
    /\ MutexFree
    /\ sweep.pc = "expire"
    /\ inner' = IF HasActiveWork
                THEN inner
                ELSE [inner EXCEPT !.authorized =
                         [a \in AccessScopes |->
                             RetainUnexpired(@[a], sweep.now, sweep.ttl[a])]]
    /\ sweep' = [sweep EXCEPT !.pc = "unload"]
    /\ UNCHANGED <<holder, activeRequests, disk, handles, tasks, client, clock,
                   requests, faults>>

SweepExpire ==
    /\ MutexFree
    /\ sweep.pc = "expire"
    /\ \/ /\ HasActiveWork
          /\ SweepIdle
          /\ UNCHANGED inner
       \/ /\ ~HasActiveWork
          /\ LET kept  == [a \in AccessScopes |->
                              RetainUnexpired(inner.authorized[a], sweep.now, sweep.ttl[a])]
                 alive == \E a \in AccessScopes : DOMAIN kept[a] # {}
                 due   == ~alive /\ inner.database # NoHandle /\ CleanupDue
             IN  /\ inner' = [inner EXCEPT !.authorized = kept, !.expiryRecorded = alive]
                 /\ sweep' = [sweep EXCEPT !.pc = IF due THEN "cleanup" ELSE "unload",
                                           !.due = due]
    /\ UNCHANGED <<holder, activeRequests, disk, handles, tasks, client, clock,
                   requests, faults>>

(***************************************************************************)
(* cleanup_before_unload, its result ignored; its work is on the vault.    *)
(***************************************************************************)
SweepCleanup ==
    /\ sweep.pc = "cleanup"
    /\ sweep' = [sweep EXCEPT !.pc = "unload"]
    /\ UNCHANGED <<inner, holder, activeRequests, disk, handles, tasks, client,
                   clock, requests, faults>>

SweepUnloadUnderWork ==
    /\ MutexFree
    /\ sweep.pc = "unload"
    /\ inner' = IF inner.database = sweep.db /\ ~inner.expiryRecorded
                THEN UnloadLocked(inner)
                ELSE inner
    /\ SweepIdle
    /\ UNCHANGED <<holder, activeRequests, disk, handles, tasks, client, clock,
                   requests, faults>>

SweepUnload ==
    /\ MutexFree
    /\ sweep.pc = "unload"
    /\ LET cleaned == IF sweep.due THEN [inner EXCEPT !.lastCleanup = sweep.now] ELSE inner
           unload  == /\ inner.database = sweep.db
                      /\ ~inner.expiryRecorded
                      /\ ~HasActiveWork
       IN  inner' = IF unload THEN UnloadLocked(cleaned) ELSE cleaned
    /\ SweepIdle
    /\ UNCHANGED <<holder, activeRequests, disk, handles, tasks, client, clock,
                   requests, faults>>

Tick ==
    /\ clock < MaxTime
    /\ clock' = clock + 1
    /\ UNCHANGED <<inner, holder, activeRequests, disk, handles, tasks, client,
                   sweep, requests, faults>>

-----------------------------------------------------------------------------

(***************************************************************************)
(* The steps of c's request that its task takes without anybody's help.    *)
(***************************************************************************)
Advance(c) ==
    \/ GuiReadClock(c) \/ GuiCheckDenials(c) \/ RecordDenial(c)
    \/ UnlockWrongPassword(c) \/ UnlockVerified(c) \/ UnlockReadSettings(c)
    \/ UnlockCommit(c) \/ UnlockSuperseded(c)
    \/ OpenBegin(c) \/ OpenSucceeded(c) \/ OpenFailed(c) \/ OpenLoad(c) \/ OpenCommit(c)
    \/ Lock(c)
    \/ AuthorizeStart(c) \/ AuthorizeReadTtl(c) \/ AuthorizeReadClock(c)
    \/ AuthorizeCheck(c) \/ BeginActiveRequest(c)
    \/ HandleRead(c) \/ WriteSetting(c) \/ PublishSetting(c)
    \/ RegisterJob(c) \/ CreateJob(c) \/ UndoJob(c)
    \/ Respond(c)

Request(c) ==
    \/ \E route \in Routes : Start(c, route)
    \/ Cancel(c)
    \/ PromptAllowed(c) \/ PromptDismissed(c) \/ PromptDenied(c)
    \/ Advance(c)

Sweep ==
    \/ SweepTick \/ SweepClockFailure \/ SweepStart \/ SweepReadSettings
    \/ SweepExpire \/ SweepCleanup \/ SweepUnload

Next ==
    \/ \E c \in Clients : Request(c)
    \/ \E task \in tasks : JobEnds(task)
    \/ Sweep
    \/ Tick

Spec == Init /\ [][Next]_vars

(***************************************************************************)
(* tokio polls every task that can run and grants its mutex in the order   *)
(* asked, so a request, a job and the sweep each go on as long as they     *)
(* can.  People need not answer a dialog, nor need anything fail.          *)
(***************************************************************************)
Fairness ==
    /\ \A c \in Clients : WF_vars(Advance(c))
    /\ WF_vars(\E task \in tasks : JobEnds(task))
    /\ WF_vars(Sweep)

FairSpec == Spec /\ Fairness

-----------------------------------------------------------------------------
(* Properties *)

Pcs == {"idle", "gui", "denials", "prompt", "deny", "unlock", "readSettings", "commit", "open",
        "load", "install", "lock", "authorize", "readTtl", "readClock", "check",
        "admitted", "handler", "publish", "createJob", "undoJob", "respond"}

SweepPcs == {"idle", "start", "readSettings", "expire", "cleanup", "unload"}

Instants == 0 .. MaxTime

AuthCaches == [AccessScopes -> Caches(Scopes, Instants)]

InnerRecords ==
    [database: Nat, verifier: BOOLEAN, authorized: AuthCaches, denied: AuthCaches,
     denialTtl: Nat, expiryRecorded: BOOLEAN, lastCleanup: Instants \cup {Never},
     activeJobs: SUBSET (1 .. MaxRequests), epoch: Nat, migrationNeeded: BOOLEAN,
     identType: IdentTypes]

ClientRecords ==
    [pc: Pcs, kind: {"none", "unlock", "gui", "lock", "read", "setting", "job"},
     tries: Seq(AccessScopes), scope: Scopes \cup {NoScope}, type: IdentTypes,
     attempts: Nat, db: Nat, epoch: Nat, ttl: Nat, now: Instants,
     write: Writes \cup {NoWrite}, id: 0 .. MaxRequests]

SweepRecords ==
    [pc: SweepPcs, now: Instants, db: Nat, ttl: [AccessScopes -> Nat],
     gc: BOOLEAN, due: BOOLEAN]

(***************************************************************************)
(* A request past its arrival keeps the scope hash it was given and, but   *)
(* for a lock, an access scope to ask for.                                 *)
(***************************************************************************)
RequestFits(c) ==
    /\ At(c, "idle") \/ \E t \in IdentTypes : client[c].scope = ScopeOf[c][t]
    /\ client[c].pc \notin {"idle", "lock"} => client[c].tries # <<>>
    /\ client[c].pc \in {"load", "install"} \/ Serving(c) => client[c].db # NoHandle
    /\ client[c].kind = "job" => client[c].id # 0
    /\ client[c].pc \in {"createJob", "undoJob"} => client[c].kind = "job"
    /\ At(c, "publish") => /\ client[c].write \in Writes
                          /\ client[c].write.name \in {"denialTtl", "identType"}

(***************************************************************************)
(* A client, a job or the sweep knows no database handle or epoch that was *)
(* not handed out before.                                                  *)
(***************************************************************************)
KnowsNoFuture(c) == client[c].db <= handles /\ client[c].epoch <= inner.epoch

NothingFromTheFuture ==
    /\ inner.database <= handles /\ sweep.db <= handles
    /\ \A task \in tasks : task.db \in 1 .. handles

Opening(c) == client[c].pc \in {"open", "load", "install"}

(***************************************************************************)
(* The mutex is held across awaits by exactly the client that opens the    *)
(* vault (state.rs:301-398).                                               *)
(***************************************************************************)
OpenerHoldsMutex ==
    \A c \in Clients : holder = c <=> Opening(c)

(***************************************************************************)
(* The atomic counts the guards alive (state.rs:833, 861).                 *)
(***************************************************************************)
GuardsCounted == activeRequests = Cardinality({c \in Clients : HoldsGuard(c)})

(***************************************************************************)
(* The types of the state, with the relations between the state of a       *)
(* request and what it holds.                                              *)
(***************************************************************************)
TypeOK ==
    /\ inner \in InnerRecords
    /\ holder \in Clients \cup {Nobody}
    /\ disk \in Disks
    /\ handles \in Nat
    /\ tasks \subseteq [id: 1 .. MaxRequests, db: Nat]
    /\ client \in [Clients -> ClientRecords]
    /\ sweep \in SweepRecords
    /\ clock \in Instants
    /\ requests \in 0 .. MaxRequests
    /\ faults \in 0 .. MaxFaults
    /\ NothingFromTheFuture
    /\ \A c \in Clients : RequestFits(c) /\ KnowsNoFuture(c)
    /\ OpenerHoldsMutex
    /\ GuardsCounted

CachesEmpty == \A a \in AccessScopes : DOMAIN inner.authorized[a] = {}

(***************************************************************************)
(* An authorization exists only while the vault is open, its verifier is   *)
(* there and max_authorization_expires_at is set.  The last two are what   *)
(* the second half of a sweep and the next unlock look at, long after      *)
(* the caches were read: a verifier that is missing sends a repeat unlock  *)
(* down the opening path, and an expiry that is missing lets the sweep     *)
(* unload the vault under a fresh authorization (state.rs:303, 659, 689).  *)
(***************************************************************************)
AuthorizedVaultIsOpen ==
    /\ ~CachesEmpty => inner.verifier /\ inner.expiryRecorded
    /\ inner.verifier => inner.database # NoHandle

(***************************************************************************)
(* Every cached authorization is for a scope hash of the identification    *)
(* type in force: an unlock that computed its scope hash before the type   *)
(* changed never leaves it behind (state.rs:309, 331, 382, 920-934).       *)
(***************************************************************************)
AuthorizedUnderCurrentType ==
    \A a \in AccessScopes :
        DOMAIN inner.authorized[a] \subseteq {ScopeOf[c][inner.identType] : c \in Clients}

(***************************************************************************)
(* The snapshot an unlock compares when it commits is enough: while the    *)
(* epoch and the handle are those it remembers, so are the verifier that   *)
(* accepted its password and the type it takes its scope hash under.  A    *)
(* vault is opened only while there is no verifier, so the session it      *)
(* installs replaces none (state.rs:301-312, 326-331, 381-399).            *)
(***************************************************************************)
UnlocksUnderWay ==
    \A c \in Clients :
        /\ client[c].pc \in {"readSettings", "commit"} /\ SessionUnchanged(c)
               => inner.verifier /\ client[c].type = inner.identType
        /\ Opening(c) => ~inner.verifier

(***************************************************************************)
(* c's password was accepted: by the verifier, and nothing was revoked     *)
(* since, or by the vault, which c is about to install.                    *)
(***************************************************************************)
Proving(c) ==
    \/ client[c].pc \in {"readSettings", "commit"} /\ SessionUnchanged(c)
    \/ client[c].pc \in {"load", "install"}

(***************************************************************************)
(* Access needs a password: the session keeps SessionPromise.  The epoch   *)
(* and the handle an unlock compares when it commits (state.rs:331) are    *)
(* how a revocation withdraws the unlocks that are under way.              *)
(***************************************************************************)
Promise ==
    INSTANCE SessionPromise WITH
        granted <- [a \in AccessScopes |-> DOMAIN inner.authorized[a]],
        proving <- {c \in Clients : Proving(c)},
        serving <- {c \in Clients : Serving(c)}

KeepsPromise == Promise!Spec

(***************************************************************************)
(* Only entering the password renews an authorization: an entry keeps the  *)
(* instant it was inserted at through every use, sweep and setting change, *)
(* so use cannot stretch it past its TTL (state.rs:1064-1083, 338, 395).   *)
(***************************************************************************)
OnlyUnlocksRenew ==
    [][\A a \in AccessScopes : \A s \in DOMAIN inner'.authorized[a] :
          \/ /\ s \in DOMAIN inner.authorized[a]
             /\ inner'.authorized[a][s].at = inner.authorized[a][s].at
          \/ \E c \in Clients :
                 /\ client[c].pc \in {"commit", "install"}
                 /\ client'[c].pc = "idle"
                 /\ inner'.authorized[a][s].at = clock]_vars

(***************************************************************************)
(* Work in progress pins the vault: while a request holds its guard or a   *)
(* job runs on the open database, the handle is neither unloaded nor       *)
(* replaced - not by a sweep that found no work before its cleanup, nor    *)
(* after a clock failure, nor by an unlock (state.rs:643, 690, 710).       *)
(***************************************************************************)
WorkPinsVault ==
    [][inner'.database # inner.database =>
          /\ \A c \in Clients : HoldsGuard(c) => client[c].db # inner.database
          /\ \A task \in tasks : task.db # inner.database]_vars

(***************************************************************************)
(* A denial stands until it expires, its own scope is unlocked, the        *)
(* identification type changes, or a newer denial evicts it: no lock,      *)
(* sweep, unload or opening of the vault takes it away, and no unlock for  *)
(* another scope or the other access scope (state.rs:336, 393, 401-411,    *)
(* 616-702, 715-723).  A lookup that read the clock before the denial was  *)
(* recorded and gets the mutex after it drops the denial too.              *)
(***************************************************************************)
DenialsStand ==
    [][\A a \in AccessScopes : \A s \in DOMAIN inner.denied[a] \ DOMAIN inner'.denied[a] :
          \/ ~IsLive(inner.denied[a][s], clock, inner.denialTtl)
          \/ s \in DOMAIN inner'.authorized[a]
          \/ inner'.identType # inner.identType
          \/ /\ inner.denied[a][s].pos = 1
             /\ \E c \in Clients : At(c, "deny") /\ client'[c].pc = "idle"
          \/ \E c \in Clients :
                 At(c, "denials") /\ client[c].now < inner.denied[a][s].at]_vars

(***************************************************************************)
(* A vault nobody is authorized for any more is eventually closed, or      *)
(* somebody is authorized again: after a lock or an expiry the sweep gets  *)
(* there once the requests and jobs under way are over (state.rs:155-168,  *)
(* 616-702).                                                               *)
(***************************************************************************)
Unauthorized ==
    /\ inner.database # NoHandle
    /\ \A a \in AccessScopes : Live(inner.authorized[a], clock, disk.authTtl[a]) = {}

IdleVaultCloses == Unauthorized ~> ~Unauthorized

(***************************************************************************)
(* Every request that waits for no person comes to its end, so the mutex   *)
(* an opening holds is always given back (state.rs:301, 344-398).          *)
(***************************************************************************)
RequestsEnd ==
    \A c \in Clients : client[c].pc \notin {"idle", "prompt"} ~> client[c].pc \in {"idle", "prompt"}

-----------------------------------------------------------------------------
(* What the documentation says of the session and the code does not keep *)

(***************************************************************************)
(* README.md:11 - a process whose user entered the master password is      *)
(* trusted for the authorization TTL.  Unless a revocation (a new epoch)   *)
(* or its eviction takes it, a sweep drops no younger authorization.       *)
(***************************************************************************)
SweepKeepsLiveAuthorizations ==
    [][sweep.pc = "expire" /\ sweep'.pc # "expire" =>
          \A a \in AccessScopes :
              Live(inner.authorized[a], clock, disk.authTtl[a])
                  \subseteq DOMAIN inner'.authorized[a]]_vars

(***************************************************************************)
(* The same of the check a request makes of its own authorization.         *)
(***************************************************************************)
ChecksKeepLiveAuthorizations ==
    [][\A c \in Clients : At(c, "check") /\ client'[c].pc # "check" =>
          \A a \in AccessScopes :
              Live(inner.authorized[a], clock, disk.authTtl[a])
                  \subseteq DOMAIN inner'.authorized[a]]_vars

(***************************************************************************)
(* docs/specs/api-spec.md:274 - active database requests delay unload: a   *)
(* request at work has the vault that is open.                             *)
(***************************************************************************)
RequestsHaveTheOpenVault ==
    \A c \in Clients : HoldsGuard(c) => client[c].db = inner.database

(***************************************************************************)
(* docs/user/references/settings.md:51 - a change of the denial duration   *)
(* applies to existing and future denials: with nothing under way the      *)
(* duration in force is the one stored.                                    *)
(***************************************************************************)
DenialTtlInForce ==
    (inner.database # NoHandle /\ \A c \in Clients : At(c, "idle"))
        => inner.denialTtl = disk.denialTtl
=============================================================================
