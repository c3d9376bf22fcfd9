-------------------------------- MODULE Daemon --------------------------------
(***************************************************************************)
(* The agent under a service manager (commands/agent.rs, init/autostart.rs,*)
(* the instructions of commands/passwd.rs and migrate.rs): the manager     *)
(* listens on the vault's socket and starts the agent at a client's first  *)
(* connection, handing its listener over.  The user enables it with init,  *)
(* stops it as passwd or migrate says, which need its lock, and starts it  *)
(* again as they say; agents are started by hand too, and die.             *)
(*                                                                         *)
(* systemd and launchd are external: stopping the socket unit stops the    *)
(* service that requires it and removes the path (RemoveOnStop), a failed  *)
(* service is started again up to a limit, at which its socket fails too;  *)
(* launchd unloads a job while the caller goes on.                         *)
(***************************************************************************)
EXTENDS Naturals

CONSTANTS
    Runs,       \* runs of the agent
    NoRun,
    MaxStarts,  \* systemd's start limit, smaller here
    MaxPolls    \* polls for launchd's unloading, 100 in the code

ASSUME DaemonAssumption == NoRun \notin Runs /\ NoRun # "command" /\ "command" \notin Runs

VARIABLES
    system,     \* linux or macos
    unit,       \* the unit files or the plist on disk, and what is in them
    manager,    \* what the manager has loaded, whether it listens, its starts
    route,      \* what the listen path leads to
    runs,       \* runs[r]: its step, who started it, its environment
    vaultLock,  \* holder of the agent lock: a run, or the user's command
    chore,      \* what the user is doing
    visitor     \* a client: idle, or waiting for the agent the manager starts

daemonVars == <<system, unit, manager, route, runs, vaultLock, chore, visitor>>

Command == "command"    \* monopass passwd or migrate

(***************************************************************************)
(* Config: the paths follow the environment; on macOS the application      *)
(* support directory stands in for what is not set, on Linux the runtime   *)
(* directory must be set.  The socket unit says %t/monopass/agent.sock,    *)
(* the plist has the path of the environment init ran in.                  *)
(***************************************************************************)
RuntimeDirs == {"run", "unset"}
PlaceRuntimeFile(runtime) ==
    CASE runtime # "unset" -> <<runtime, "agent.sock">>
      [] runtime = "unset" /\ system = "macos" -> <<"support", "agent.sock">>
      [] OTHER -> <<>>
SystemdSocketUnit == <<"run", "agent.sock">>
LaunchAgentPlist(listen) == listen

Alive(r) == runs[r].at \notin {"unused", "gone"}
ByManager(r) == runs[r].by = "manager"
ManagersRun == {r \in Runs : Alive(r) /\ ByManager(r)}
Step(r, at) == runs' = [runs EXCEPT ![r].at = at]
FreedBy(r) == IF vaultLock = r THEN NoRun ELSE vaultLock

(***************************************************************************)
(* A run that ends on its own has failed (serve returns errors only), and  *)
(* the unit says Restart=on-failure.                                       *)
(***************************************************************************)
Gone(r) == Step(r, "gone") /\ vaultLock' = FreedBy(r)

RunFails(r) ==
    /\ Gone(r)
    /\ manager' = IF ByManager(r) /\ system = "linux"
                  THEN [manager EXCEPT !.again = TRUE] ELSE manager

-----------------------------------------------------------------------------
(***************************************************************************)
(* An agent starts: by hand, perhaps with what its shell has inherited of  *)
(* another agent's activation, whole or in part, or by the manager.  A     *)
(* traced one refuses to start.                                            *)
(***************************************************************************)
Fresh == {r \in Runs : runs[r].at = "unused"}
Starting(by, env) == [at |-> "harden", by |-> by, env |-> env]

StartByHand(r) ==
    /\ r \in Fresh
    /\ \E env \in {"none", "foreign"} :
           runs' = [runs EXCEPT ![r] = Starting("hand", env)]
    /\ UNCHANGED <<system, unit, manager, route, vaultLock, chore, visitor>>

Harden(r) ==
    /\ runs[r].at = "harden"
    /\ Step(r, "lock")
    /\ UNCHANGED <<system, unit, manager, route, vaultLock, chore, visitor>>

EnsureNotTraced(r) ==
    /\ runs[r].at = "harden" /\ system = "linux"
    /\ RunFails(r)
    /\ UNCHANGED <<system, unit, route, chore, visitor>>

Serve(r) ==
    /\ runs[r].at = "lock"
    /\ IF vaultLock = NoRun
       THEN vaultLock' = r /\ Step(r, "listen") /\ UNCHANGED manager
       ELSE RunFails(r)
    /\ UNCHANGED <<system, unit, route, chore, visitor>>

(***************************************************************************)
(* create_listener: the manager's listener, for the process it was meant   *)
(* for; an own one where there is no activation; otherwise an error.  An   *)
(* own one takes the place of any socket at the path, whoever listens.     *)
(***************************************************************************)
SocketActivationFd(r) ==
    CASE runs[r].env = "own" -> "manager"
      [] runs[r].env # "own" /\ (system = "macos" \/ runs[r].env = "none") -> "none"
      [] OTHER -> "error"

ActivatedListener(r) ==
    /\ runs[r].at = "listen"
    /\ SocketActivationFd(r) = "manager"
    /\ Step(r, "serving")
    /\ UNCHANGED <<system, unit, manager, route, vaultLock, chore, visitor>>

CreateListener(r) ==
    /\ runs[r].at = "listen"
    /\ SocketActivationFd(r) = "none"
    /\ IF route = "file" THEN RunFails(r) /\ UNCHANGED route
       ELSE route' = r /\ Step(r, "serving") /\ UNCHANGED <<vaultLock, manager>>
    /\ UNCHANGED <<system, unit, chore, visitor>>

RefuseActivation(r) ==
    /\ runs[r].at = "listen"
    /\ SocketActivationFd(r) = "error"
    /\ RunFails(r)
    /\ UNCHANGED <<system, unit, route, chore, visitor>>

RunDies(r) ==
    /\ Alive(r)
    /\ RunFails(r) \/ (Gone(r) /\ UNCHANGED manager)
    /\ UNCHANGED <<system, unit, route, chore, visitor>>

(***************************************************************************)
(* A client connects to the path its own environment gives it.  Where the  *)
(* manager listens it waits for an agent; elsewhere it is served or        *)
(* refused at once, which changes nothing here.                            *)
(***************************************************************************)
Connect(runtime) ==
    /\ visitor = "idle"
    /\ PlaceRuntimeFile(runtime) = manager.path
    /\ route = "manager" /\ manager.listening
    /\ visitor' = "waiting"
    /\ UNCHANGED <<system, unit, manager, route, runs, vaultLock, chore>>

Accept(r) ==
    /\ visitor = "waiting"
    /\ ByManager(r) /\ runs[r].at = "serving" /\ runs[r].env = "own"
    /\ visitor' = "idle"
    /\ UNCHANGED <<system, unit, manager, route, runs, vaultLock, chore>>

ClientLeaves ==
    /\ visitor = "waiting"
    /\ visitor' = "idle"
    /\ UNCHANGED <<system, unit, manager, route, runs, vaultLock, chore>>

-----------------------------------------------------------------------------
(***************************************************************************)
(* The manager starts the service for a waiting client or, as it failed,   *)
(* again; at the limit the service fails, and its socket with it.          *)
(***************************************************************************)
StartWanted == manager.again \/ visitor = "waiting"

ListeningOn(path) ==
    [manager EXCEPT !.loaded = "socket", !.listening = TRUE, !.path = path, !.starts = 0,
                    !.limited = FALSE]

Activate(r) ==
    /\ StartWanted /\ ManagersRun = {} /\ r \in Fresh
    /\ system = "macos" \/ manager.starts < MaxStarts
    /\ runs' = [runs EXCEPT ![r] =
                   Starting("manager", IF manager.loaded = "socket" THEN "own" ELSE "none")]
    /\ manager' = [IF manager.loaded = "socket" THEN ListeningOn(unit.path) ELSE manager
                      EXCEPT !.again = FALSE,
                             !.starts = IF system = "linux" THEN manager.starts + 1 ELSE 0]
    /\ route' = IF manager.loaded = "socket" /\ ~manager.listening THEN "manager" ELSE route
    /\ UNCHANGED <<system, unit, vaultLock, chore, visitor>>

HitStartLimit ==
    /\ system = "linux" /\ StartWanted /\ ManagersRun = {}
    /\ manager.starts >= MaxStarts
    /\ manager' = [manager EXCEPT !.again = FALSE, !.listening = FALSE, !.limited = TRUE]
    /\ route' = IF manager.listening THEN "nothing" ELSE route
    /\ visitor' = "idle"
    /\ UNCHANGED <<system, unit, runs, vaultLock, chore>>

StartsForgotten ==
    /\ manager.starts > 0
    /\ manager' = [manager EXCEPT !.starts = 0]
    /\ UNCHANGED <<system, unit, route, runs, vaultLock, chore, visitor>>

RunsWithout(stopped) ==
    [r \in Runs |-> IF r \in stopped THEN [runs[r] EXCEPT !.at = "gone"] ELSE runs[r]]
LockWithout(stopped) == IF vaultLock \in stopped THEN NoRun ELSE vaultLock

(***************************************************************************)
(* enable_agent on Linux.  Any step may fail, and init with it, but        *)
(* disabling the service, which may never have been there.                 *)
(***************************************************************************)
Doing(at) == chore' = [chore EXCEPT !.at = at]

InitAutoStart ==
    /\ chore.at = "none"
    /\ chore' = [chore EXCEPT !.at = IF system = "linux" THEN "write" ELSE "plist", !.was = FALSE]
    /\ UNCHANGED <<system, unit, manager, route, runs, vaultLock, visitor>>

EnableFails ==
    /\ chore.at \in {"write", "reload", "enable", "plist", "bootout", "bootstrap"}
    /\ chore' = [chore EXCEPT !.at = "none", !.failed = TRUE]
    /\ UNCHANGED <<system, unit, manager, route, runs, vaultLock, visitor>>

WriteUnits ==
    /\ chore.at = "write"
    /\ unit' = [kind |-> "socket", path |-> SystemdSocketUnit]
    /\ Doing("reload")
    /\ UNCHANGED <<system, manager, route, runs, vaultLock, visitor>>

DaemonReload ==
    /\ chore.at = "reload"
    /\ manager' = [manager EXCEPT !.loaded = unit.kind]
    /\ Doing("disable")
    /\ UNCHANGED <<system, unit, route, runs, vaultLock, visitor>>

DisableService ==
    /\ chore.at = "disable"
    /\ \E stopped \in {{}, ManagersRun} :
          /\ ManagersRun # {} => stopped = ManagersRun
          /\ runs' = RunsWithout(stopped)
          /\ vaultLock' = LockWithout(stopped)
    /\ manager' = [manager EXCEPT !.again = FALSE]
    /\ Doing("enable")
    /\ UNCHANGED <<system, unit, route, visitor>>

EnableSocket ==
    /\ chore.at = "enable"
    /\ manager' = IF manager.listening THEN manager ELSE ListeningOn(unit.path)
    /\ route' = IF manager.listening THEN route ELSE "manager"
    /\ Doing("none")
    /\ UNCHANGED <<system, unit, runs, vaultLock, visitor>>

(***************************************************************************)
(* enable_agent on macOS: a job that is loaded is booted out, and waited   *)
(* for, before the new plist is bootstrapped.                              *)
(***************************************************************************)
WritePlist(runtime) ==
    /\ chore.at = "plist"
    /\ unit' = [kind |-> "socket", path |-> LaunchAgentPlist(PlaceRuntimeFile(runtime))]
    /\ Doing("bootout")
    /\ UNCHANGED <<system, manager, route, runs, vaultLock, visitor>>

BootoutJob == manager' = [manager EXCEPT !.loaded = IF @ = "nothing" THEN @ ELSE "unloading",
                                         !.listening = FALSE]

Bootout ==
    /\ chore.at = "bootout"
    /\ BootoutJob
    /\ route' = IF route = "manager" THEN "dead" ELSE route
    /\ visitor' = "idle"
    /\ chore' = [chore EXCEPT !.at = IF manager.loaded = "nothing" THEN "bootstrap" ELSE "unload",
                              !.polls = 0]
    /\ UNCHANGED <<system, unit, runs, vaultLock>>

JobUnloaded ==
    /\ manager.loaded = "unloading"
    /\ manager' = [manager EXCEPT !.loaded = "nothing"]
    /\ runs' = RunsWithout(ManagersRun)
    /\ vaultLock' = LockWithout(ManagersRun)
    /\ UNCHANGED <<system, unit, route, chore, visitor>>

WaitForUnload ==
    /\ chore.at = "unload"
    /\ chore' = [chore EXCEPT !.polls = @ + 1,
                              !.at = IF manager.loaded = "nothing" THEN "bootstrap"
                                     ELSE IF chore.polls + 1 >= MaxPolls THEN "none" ELSE @]
    /\ UNCHANGED <<system, unit, manager, route, runs, vaultLock, visitor>>

Bootstraps == manager.loaded = "nothing" /\ unit.kind = "socket"
BootstrapJob ==
    /\ manager' = IF Bootstraps THEN ListeningOn(unit.path) ELSE manager
    /\ route' = IF Bootstraps THEN "manager" ELSE route

Bootstrap ==
    /\ chore.at = "bootstrap"
    /\ BootstrapJob
    /\ Doing("none")
    /\ UNCHANGED <<system, unit, runs, vaultLock, visitor>>

-----------------------------------------------------------------------------
(***************************************************************************)
(* monopass passwd or migrate: with the lock it does its work and tells    *)
(* how to start the agent again, without it tells how to stop it.  A wrong *)
(* password or any other error ends it without a word about the agent: a   *)
(* user who had stopped that tries again, or leaves it stopped.            *)
(***************************************************************************)
Asked == [chore EXCEPT !.was = IF chore.at = "none" THEN manager.listening ELSE @]

TryCommand ==
    /\ chore.at \in {"none", "stopped"}
    /\ IF vaultLock = NoRun
       THEN vaultLock' = Command /\ chore' = [Asked EXCEPT !.at = "working"]
       ELSE chore' = [Asked EXCEPT !.at = "told"] /\ UNCHANGED vaultLock
    /\ UNCHANGED <<system, unit, manager, route, runs, visitor>>

CommandEnds ==
    /\ chore.at = "working"
    /\ vaultLock' = NoRun
    /\ Doing("restart")
    /\ UNCHANGED <<system, unit, manager, route, runs, visitor>>

CommandFails ==
    /\ chore.at = "working"
    /\ vaultLock' = NoRun
    /\ Doing(IF chore.stopped THEN "stopped" ELSE "none")
    /\ UNCHANGED <<system, unit, manager, route, runs, visitor>>

LeaveStopped ==
    /\ chore.at = "stopped"
    /\ chore' = [chore EXCEPT !.at = "none", !.stopped = FALSE, !.was = FALSE]
    /\ UNCHANGED <<system, unit, manager, route, runs, vaultLock, visitor>>

(***************************************************************************)
(* stop_agent_instructions, followed.                                      *)
(***************************************************************************)
StopServiceOnly ==
    /\ chore.at = "told" /\ system = "linux"
    /\ manager' = [manager EXCEPT !.again = FALSE]
    /\ runs' = RunsWithout(ManagersRun)
    /\ vaultLock' = LockWithout(ManagersRun)
    /\ chore' = [chore EXCEPT !.at = "stopped", !.stopped = TRUE]
    /\ UNCHANGED <<system, unit, route, visitor>>

StopSystemd ==
    /\ chore.at = "told" /\ system = "linux"
    /\ manager' = [manager EXCEPT !.again = FALSE, !.listening = FALSE]
    /\ runs' = RunsWithout(ManagersRun)
    /\ vaultLock' = LockWithout(ManagersRun)
    /\ route' = IF manager.listening THEN "nothing" ELSE route
    /\ visitor' = "idle"
    /\ chore' = [chore EXCEPT !.at = "stopped", !.stopped = TRUE]
    /\ UNCHANGED <<system, unit>>

StopLaunchd ==
    /\ chore.at = "told" /\ system = "macos"
    /\ BootoutJob
    /\ route' = IF route = "manager" THEN "dead" ELSE route
    /\ visitor' = "idle"
    /\ chore' = [chore EXCEPT !.at = "stopped", !.stopped = TRUE]
    /\ UNCHANGED <<system, unit, runs, vaultLock>>

(***************************************************************************)
(* restart_agent_instructions, followed.                                   *)
(***************************************************************************)
RestartSystemd ==
    /\ chore.at = "restart" /\ system = "linux"
    /\ unit.kind = "socket" /\ ~manager.listening
    /\ manager' = ListeningOn(unit.path)
    /\ route' = "manager"
    /\ chore' = [chore EXCEPT !.at = "none", !.stopped = FALSE]
    /\ UNCHANGED <<system, unit, runs, vaultLock, visitor>>

RestartLaunchd ==
    /\ chore.at = "restart" /\ system = "macos"
    /\ BootstrapJob
    /\ chore' = [chore EXCEPT !.at = IF manager.loaded = "unloading" THEN @ ELSE "none",
                              !.stopped = manager.loaded = "unloading"]
    /\ UNCHANGED <<system, unit, runs, vaultLock, visitor>>

RestartNothing ==
    /\ chore.at = "restart" /\ system = "linux"
    /\ unit.kind # "socket" \/ manager.listening
    /\ chore' = [chore EXCEPT !.at = "none", !.stopped = FALSE]
    /\ UNCHANGED <<system, unit, manager, route, runs, vaultLock, visitor>>

(***************************************************************************)
(* A user without auto-start, or with the service of an older release,     *)
(* which was started at login and binds the path itself.                   *)
(***************************************************************************)
InitDaemon ==
    /\ system \in {"linux", "macos"}
    /\ unit \in {[kind |-> kind, path |-> SystemdSocketUnit] :
                    kind \in {"nothing"} \cup (IF system = "linux" THEN {"service"} ELSE {})}
    /\ manager = [loaded |-> unit.kind, listening |-> FALSE, path |-> SystemdSocketUnit,
                  starts |-> 0, again |-> unit.kind = "service",
                  limited |-> FALSE]
    /\ route \in {"nothing", "dead", "file"}
    /\ runs = [r \in Runs |-> [at |-> "unused", by |-> "nobody", env |-> "none"]]
    /\ vaultLock = NoRun
    /\ chore = [at |-> "none", stopped |-> FALSE, polls |-> 0, was |-> FALSE, failed |-> FALSE]
    /\ visitor = "idle"

AgentActs(r) ==
    \/ StartByHand(r) \/ Harden(r) \/ EnsureNotTraced(r) \/ Serve(r) \/ ActivatedListener(r)
    \/ CreateListener(r) \/ RefuseActivation(r) \/ RunDies(r) \/ Accept(r) \/ Activate(r)

UserDoes ==
    \/ InitAutoStart \/ EnableFails \/ WriteUnits \/ DaemonReload \/ DisableService
    \/ EnableSocket \/ Bootout \/ WaitForUnload \/ Bootstrap \/ TryCommand \/ CommandEnds
    \/ CommandFails \/ LeaveStopped \/ StopSystemd \/ StopLaunchd
    \/ RestartSystemd \/ RestartLaunchd \/ RestartNothing

NextDaemon ==
    \/ \E r \in Runs : AgentActs(r)
    \/ \E runtime \in RuntimeDirs : Connect(runtime) \/ WritePlist(runtime)
    \/ ClientLeaves \/ HitStartLimit \/ StartsForgotten \/ JobUnloaded \/ UserDoes

DaemonSpec == InitDaemon /\ [][NextDaemon]_daemonVars

-----------------------------------------------------------------------------
(***************************************************************************)
(* The stop instruction holds: from the moment it was followed (and the    *)
(* job is unloaded) until the restart, no connection of a client brings an *)
(* agent back, so the command it was printed for gets the lock             *)
(* (passwd.rs:80-92, migrate.rs:59-71; the socket unit's RemoveOnStop).    *)
(***************************************************************************)
StopHolds ==
    chore.stopped /\ manager.loaded # "unloading" =>
        ManagersRun = {} /\ ~manager.again /\ visitor # "waiting"

(***************************************************************************)
(* The restart instruction gives back what the stop took: a user whose     *)
(* socket was listening before the command has it listening after it, also *)
(* if it succeeded only when it was tried again, unless the service failed *)
(* too often (passwd.rs:94, migrate.rs:77).  Nothing gives it back to      *)
(* users who stopped the agent and gave up a command that failed: only a   *)
(* command that succeeds prints the restart (passwd.rs:24-47).             *)
(***************************************************************************)
GivenBack == chore.at = "none" /\ chore.was => manager.listening \/ manager.limited

(***************************************************************************)
(* A listening manager keeps the path: an agent that was started in        *)
(* another agent's environment, or in a part of one, does not take it      *)
(* (agent.rs:218-227, 270-312).  An agent started by hand without any      *)
(* takes the path, for it removes every socket as a stale one, and so does *)
(* the service of an older release when init did not get to stop it: see   *)
(* the README.                                                             *)
(***************************************************************************)
TakenByHand == \E r \in Runs : runs[r].by = "hand" /\ (runs[r].env = "none" \/ system = "macos")

NoTakeover == manager.listening /\ ~TakenByHand /\ ~chore.failed => route = "manager"

(***************************************************************************)
(* Whoever serves holds the lock, so there is one, and none while a        *)
(* password is changed or the vault migrated (agent.rs:190-216).           *)
(***************************************************************************)
ServesLocked == \A r \in Runs : runs[r].at = "serving" => vaultLock = r

DaemonSound == StopHolds /\ GivenBack /\ NoTakeover /\ ServesLocked
==============================================================================
