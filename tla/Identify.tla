------------------------------ MODULE Identify ------------------------------
(***************************************************************************)
(* Who is asking: the agent walks from the peer of a connection up through *)
(* its parents (auth.rs, process.rs).  The walk of resolve_authorization_- *)
(* scope yields the whole lineage or nothing; when it yields nothing, the  *)
(* walk for the originating process alone is made, which names a process   *)
(* near the peer rather than none.  Meanwhile processes exit and their     *)
(* children are given other parents, and the catalog of desktop            *)
(* applications is replaced.                                               *)
(*                                                                         *)
(* A pid is not used again during a walk, in which one process exits at    *)
(* most (module ProcessTable lets pids be used again).  Lineages are kept  *)
(* from the peer upwards; the code reverses them first.  The hash of a     *)
(* scope or of a process is the scope or the process itself.               *)
(***************************************************************************)
EXTENDS Integers, Sequences, FiniteSets

CONSTANTS
    Peer,       \* the pid of the client
    InitPid,      \* the process of another user that adopts orphans
    Tables,     \* the process tables a connection is made in
    Desktops,   \* the desktops, each [installed, catalog, cooled]
    MaxDepth    \* MAX_PROCESS_CHAIN_DEPTH

ASSUME DepthAssumption == MaxDepth \in Nat \ {0}

VARIABLES
    procs,      \* pid -> [parent, uid, session, cgroup] of the living
    hidden,     \* /proc does not show other users' processes
    desktop,    \* [installed, catalog, cooled]: see InitWalk
    walk,       \* the resolution under way
    moments     \* what the moments of the walk allow: see Named

walkVars == <<procs, hidden, desktop, walk, moments>>

NoProcess == 0
NoScope == <<>>

-----------------------------------------------------------------------------
(***************************************************************************)
(* ProcessResolver: what /proc says of a pid; nothing of one that is gone. *)
(* The verified login process of macOS, "login", stands between two        *)
(* processes of the user's and is passed over once.                        *)
(***************************************************************************)
ProcessInfo(pid) == pid \in DOMAIN procs

ProcessUid(pid) ==
    IF pid \notin DOMAIN procs \/ (hidden /\ procs[pid].uid # "own") THEN "unreadable"
    ELSE procs[pid].uid

CrossesLoginBoundary(pid) ==
    /\ procs[pid].uid = "login"
    /\ procs[pid].parent \in DOMAIN procs
    /\ procs[procs[pid].parent].uid = "own"

SessionsDiffer(child, parent) == child.session # parent.session

(***************************************************************************)
(* Which process an application of the desktop is found for: the one whose *)
(* program exactly one entry of the catalog has, or, with no such entry,   *)
(* the one whose cgroup names exactly one.  A program is named by the pid  *)
(* that runs it.  After a miss the catalog is loaded again, at most once   *)
(* in MISS_REFRESH_COOLDOWN.                                               *)
(***************************************************************************)
ApplicationIdsFromCgroup(pid) == IF pid \in DOMAIN procs THEN procs[pid].cgroup ELSE {}

ApplicationForProcess(pid, catalog) ==
    LET programs == {e \in catalog : e.program = pid}
        units == {e \in catalog : e.id \in ApplicationIdsFromCgroup(pid)}
    IN  CASE Cardinality(programs) = 1 -> "process"
          [] programs = {} /\ Cardinality(units) = 1 -> "context"
          [] OTHER -> "none"

Nearest(chain, catalog, kind) ==
    LET found == {i \in DOMAIN chain : ApplicationForProcess(chain[i].pid, catalog) = kind}
    IN  IF found = {} THEN NoProcess
        ELSE chain[CHOOSE i \in found : \A j \in found : i <= j].pid

Application(chain, catalog) ==
    LET kinds == {k \in {"process", "context"} : Nearest(chain, catalog, k) # NoProcess}
        kind == IF "process" \in kinds THEN "process" ELSE "context"
    IN  IF kinds = {} THEN [kind |-> "none", pid |-> NoProcess]
        ELSE [kind |-> kind, pid |-> Nearest(chain, catalog, kind)]

RefreshAfterMiss(missed) ==
    IF missed /\ desktop.cooled
    THEN [desktop EXCEPT !.catalog = desktop.installed, !.cooled = FALSE]
    ELSE desktop

(***************************************************************************)
(* The originating process of a lineage: the nearest application, else the *)
(* nearest process whose parent is in another session, else the topmost;   *)
(* and of a lineage that broke off: no topmost one.                        *)
(***************************************************************************)
NearestSessionBoundary(chain) ==
    LET edges == {i \in 1 .. Len(chain) - 1 : SessionsDiffer(chain[i], chain[i + 1])}
    IN  IF edges = {} THEN NoProcess
        ELSE chain[CHOOSE i \in edges : \A j \in edges : i <= j].pid

Else(pid, other) == IF pid # NoProcess THEN pid ELSE other

OriginatingProcess(chain, catalog) ==
    Else(Nearest(chain, catalog, "process"),
           Else(NearestSessionBoundary(chain), chain[Len(chain)].pid))

NarrowerOrigin(chain, candidate, catalog) == Else(Nearest(chain, catalog, "process"), candidate)

(***************************************************************************)
(* What the processes would be found to be if nothing moved: the lineage   *)
(* of own processes above the peer and its originating process.            *)
(***************************************************************************)
Parent(pid) ==
    LET parent == procs[pid].parent
    IN  IF parent \notin DOMAIN procs THEN NoProcess
        ELSE IF procs[parent].uid = "own" THEN parent
        ELSE IF CrossesLoginBoundary(parent) THEN procs[parent].parent
        ELSE NoProcess

Lineage ==
    LET above[pid \in DOMAIN procs] ==
            LET parent == Parent(pid)
                this == [pid |-> pid, session |-> procs[pid].session]
            IN  IF parent = NoProcess THEN <<this>> ELSE <<this>> \o above[parent]
    IN  above[Peer]

NamedIn(catalog) ==
    IF Peer \notin DOMAIN procs THEN {}
    ELSE LET lineage == Lineage
             origin == OriginatingProcess(lineage, catalog)
             at == CHOOSE i \in DOMAIN lineage : lineage[i].pid = origin
         IN  {lineage[i].pid : i \in 1 .. at}

Named ==
    NamedIn(desktop.catalog) \cup (IF desktop.cooled THEN NamedIn(desktop.installed) ELSE {})

-----------------------------------------------------------------------------
NotYet == [resolver |-> "scope", at |-> "peer", current |-> NoProcess, session |-> "none",
           parent |-> NoProcess, chain |-> <<>>, depth |-> MaxDepth, crossed |-> FALSE,
           candidate |-> NoProcess, scope |-> NoScope, origin |-> NoProcess, ultimate |-> NoProcess,
           shown |-> [kind |-> "none", pid |-> NoProcess], steady |-> TRUE, still |-> TRUE]

(***************************************************************************)
(* Of the desktop: the entries [program, id] installed, those the catalog  *)
(* holds, and whether it may be loaded again.                              *)
(***************************************************************************)
InitWalk ==
    /\ procs \in Tables
    /\ hidden \in BOOLEAN
    /\ desktop \in Desktops
    /\ walk = NotYet
    /\ moments = Named

(***************************************************************************)
(* The two ways a resolver ends.  A walk that broke off yields no scope,   *)
(* and then the other resolver starts from the peer again; the other one   *)
(* falls back to what it has passed.                                       *)
(***************************************************************************)
CutOff ==
    IF walk.resolver = "scope"
    THEN /\ walk' = [NotYet EXCEPT !.resolver = "origin", !.steady = walk.steady,
                                   !.still = walk.still]
         /\ UNCHANGED desktop
    ELSE /\ desktop' = RefreshAfterMiss(Nearest(walk.chain, desktop.catalog, "process") = NoProcess)
         /\ walk' = [walk EXCEPT !.at = "direct",
                !.origin = NarrowerOrigin(walk.chain, walk.candidate, desktop'.catalog)]

EndWalk(chain) ==
    LET first == Application(chain, desktop.catalog)
        afterDisplay == RefreshAfterMiss(walk.resolver = "scope" /\ first.kind = "none")
    IN  /\ desktop' = IF afterDisplay # desktop THEN afterDisplay
                      ELSE RefreshAfterMiss(Nearest(chain, desktop.catalog, "process") = NoProcess)
        /\ walk' = [walk EXCEPT
                !.at = IF walk.resolver = "scope" THEN "done" ELSE "direct",
                !.chain = chain, !.ultimate = IF walk.resolver = "scope" THEN chain[1].pid ELSE @,
                !.scope = IF walk.resolver = "scope" THEN chain ELSE NoScope,
                !.shown = IF walk.resolver = "scope"
                          THEN Application(chain, afterDisplay.catalog) ELSE @,
                !.origin = OriginatingProcess(chain, desktop'.catalog)]

(***************************************************************************)
(* The steps of a walk: the peer; the process at hand, which the walk for  *)
(* the originating process may end at; the owner of its parent; and its    *)
(* parent.                                                                 *)
(***************************************************************************)
ReadPeer ==
    /\ walk.at = "peer"
    /\ IF ProcessInfo(Peer)
       THEN /\ walk' = [walk EXCEPT !.at = "here", !.current = Peer,
                            !.session = procs[Peer].session, !.parent = procs[Peer].parent]
            /\ UNCHANGED desktop
       ELSE IF walk.resolver = "scope" THEN CutOff
       ELSE walk' = [walk EXCEPT !.at = "direct"] /\ UNCHANGED desktop
    /\ UNCHANGED <<procs, hidden>>

Passed(pid) == \E i \in DOMAIN walk.chain : walk.chain[i].pid = pid

Extended == Append(walk.chain, [pid |-> walk.current, session |-> walk.session])

Visit ==
    /\ walk.at = "here"
    /\ IF walk.depth = 0 \/ Passed(walk.current) THEN CutOff
       ELSE IF walk.resolver = "origin" /\ ApplicationForProcess(walk.current, desktop.catalog) = "process"
       THEN /\ walk' = [walk EXCEPT !.at = "direct", !.origin = walk.current]
            /\ UNCHANGED desktop
       ELSE IF walk.parent <= 0 THEN EndWalk(Extended)
       ELSE /\ walk' = [walk EXCEPT !.at = IF walk.depth = 1 THEN "over" ELSE "uid",
                            !.chain = Extended, !.depth = @ - 1]
            /\ UNCHANGED desktop
    /\ UNCHANGED <<procs, hidden>>

Overlong == walk.at = "over" /\ CutOff /\ UNCHANGED <<procs, hidden>>

RecordLastSessionBoundary(pid) ==
    IF SessionsDiffer(walk, procs[pid]) THEN walk.current ELSE walk.candidate

RecordNearestSessionBoundary(pid) ==
    IF walk.candidate = NoProcess /\ SessionsDiffer(walk, procs[pid])
    THEN walk.current ELSE walk.candidate

MoveTo(pid, crossing) ==
    walk' = [walk EXCEPT
        !.at = "here", !.current = pid, !.session = procs[pid].session,
        !.parent = procs[pid].parent, !.crossed = @ \/ crossing,
        !.depth = IF crossing THEN @ - 1 ELSE @,
        !.candidate = RecordNearestSessionBoundary(pid)]

ReadParentUid ==
    /\ walk.at = "uid"
    /\ LET uid == ProcessUid(walk.parent)
       IN  IF uid = "unreadable" THEN CutOff
           ELSE IF uid = "own"
           THEN walk' = [walk EXCEPT !.at = "info"] /\ UNCHANGED desktop
           ELSE IF ~walk.crossed /\ CrossesLoginBoundary(walk.parent)
           THEN MoveTo(procs[walk.parent].parent, TRUE) /\ UNCHANGED desktop
           ELSE EndWalk(walk.chain)
    /\ UNCHANGED <<procs, hidden>>

ReadParent ==
    /\ walk.at = "info"
    /\ IF ProcessInfo(walk.parent)
       THEN MoveTo(walk.parent, FALSE) /\ UNCHANGED desktop
       ELSE CutOff
    /\ UNCHANGED <<procs, hidden>>

(***************************************************************************)
(* Without a scope the program behind the peer is looked up by itself      *)
(* (resolve_direct_process).                                               *)
(***************************************************************************)
ResolveDirect ==
    /\ walk.at = "direct"
    /\ walk' = [walk EXCEPT !.at = "done",
                    !.ultimate = IF ProcessInfo(Peer) THEN Peer ELSE NoProcess]
    /\ UNCHANGED <<procs, hidden, desktop>>

(***************************************************************************)
(* Around the walk: a process exits and its children are adopted, by its   *)
(* parent or by init; another request's miss loads the catalog.            *)
(***************************************************************************)
Exits(p) ==
    /\ walk.at # "done" /\ walk.still /\ p \in DOMAIN procs \ {InitPid} /\ procs[p].parent > 0
    /\ \E adopter \in {procs[p].parent, InitPid} \cap DOMAIN procs :
           procs' = [q \in DOMAIN procs \ {p} |->
                        [procs[q] EXCEPT !.parent = IF @ = p THEN adopter ELSE @]]
    /\ walk' = [walk EXCEPT !.still = FALSE]
    /\ UNCHANGED <<hidden, desktop>>

OtherMiss ==
    /\ walk.at # "done" /\ desktop.cooled
    /\ desktop' = RefreshAfterMiss(TRUE)
    /\ walk' = [walk EXCEPT !.steady = FALSE]
    /\ UNCHANGED <<procs, hidden>>

NextWalk ==
    /\ \/ ReadPeer \/ Visit \/ Overlong \/ ReadParentUid \/ ReadParent \/ ResolveDirect
       \/ \E p \in DOMAIN procs : Exits(p)
       \/ OtherMiss
    /\ moments' = IF UNCHANGED <<procs, desktop>> THEN moments ELSE moments \cup Named'

-----------------------------------------------------------------------------
(***************************************************************************)
(* A client is taken for the process it comes from.  If no process exits   *)
(* and every one can be read the resolution yields the whole lineage and   *)
(* its originating process; if the walk is cut short, what it names is     *)
(* never further up than the originating process of some moment of the     *)
(* walk; and where the dialog names the application of a process, that     *)
(* process is the one the authorization is for (process.rs:243-490).  A    *)
(* catalog that another request replaces during the walk is left aside.    *)
(***************************************************************************)
Crossings ==
    Cardinality({i \in 1 .. Len(Lineage) - 1 : procs[Lineage[i].pid].parent # Lineage[i + 1].pid})

Whole == walk.still /\ ~hidden /\ Crossings <= 1 /\ Len(Lineage) + Crossings < MaxDepth

OriginsAgree ==
    walk.at = "done" /\ walk.steady =>
        /\ walk.origin # NoProcess => walk.origin \in moments
        /\ Whole => /\ walk.scope = Lineage
                    /\ walk.origin = OriginatingProcess(Lineage, desktop.catalog)
        /\ walk.shown.kind = "process" => walk.shown.pid = walk.origin
=============================================================================
