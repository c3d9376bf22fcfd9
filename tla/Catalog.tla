------------------------------- MODULE Catalog -------------------------------
(***************************************************************************)
(* The catalog of desktop applications (agent/desktop.rs): loaded from the *)
(* .desktop files of the user's and of the system's directories, looked up *)
(* by the program or the cgroup of a process, and loaded again after a     *)
(* miss, at most once in MISS_REFRESH_COOLDOWN.  Requests miss at the same *)
(* time, and files come and go while it is loaded.                         *)
(*                                                                         *)
(* Module Identify has the walk that looks here; there a load is one step. *)
(* A directory is read in one step; look-ups are one step.                 *)
(***************************************************************************)
EXTENDS Integers, FiniteSets

CONSTANTS
    Lookers,        \* the requests that look for an application
    NotLocked,
    AppIds,         \* ids of .desktop files
    AppFiles,       \* what a .desktop file may say: see IsVisibleApplication
    Menus,          \* the directories a run starts with: <<user's, system's>>
    Wants,          \* processes: [path, names (of its cgroup)]
    CurrentDesktop, \* XDG_CURRENT_DESKTOP
    Cooldown,       \* MISS_REFRESH_COOLDOWN
    LastHour,       \* bound of the clock
    MaxEdits        \* bound: changes of the directories

ASSUME CooldownAssumption == Cooldown \in Nat \ {0}
ASSUME HourAssumption == LastHour \in Nat
ASSUME LockAssumption == NotLocked \notin Lookers

ASSUME MenusAssumption ==
    \A roots \in Menus :
        /\ Cardinality(DOMAIN roots) \in Nat
        /\ DOMAIN roots = 1 .. Cardinality(DOMAIN roots)
        /\ roots = [r \in DOMAIN roots |-> roots[r]]

VARIABLES
    menu,           \* the directories, the user's first: id -> file
    edits,          \* how often they have changed
    hour,           \* the monotonic clock
    catalog,        \* [entries, of]: of is the change it was begun at
    refresh,        \* [locked, last]: CatalogRefreshState and its mutex
    lookups,        \* looker -> where it stands and what it has read
    loads           \* history: the times of the loads after a miss

catalogVars == <<menu, edits, hour, catalog, refresh, lookups, loads>>

Never == LastHour + Cooldown

-----------------------------------------------------------------------------
(***************************************************************************)
(* from_entries: of the files of one id the first counts, shown or not;    *)
(* then those of applications this desktop shows are kept, by name.        *)
(***************************************************************************)
ListIntersects(values) == values \cap CurrentDesktop # {}

IsVisibleApplication(file) ==
    /\ file.type = "Application"
    /\ file.flags \cap {"hidden", "nodisplay", "terminal"} = {}
    /\ ~ListIntersects(file.notShowIn)
    /\ file.onlyShowIn = {} \/ ListIntersects(file.onlyShowIn)

FirstSeen(roots, id) ==
    LET having == {r \in DOMAIN roots : id \in DOMAIN roots[r]}
    IN  {roots[r][id] : r \in {x \in having : \A y \in having : x <= y}}

FromDesktopEntry(id, file) == [id |-> id, name |-> file.name, executables |-> file.executables]

OnlyShown(roots) ==
    [r \in DOMAIN roots |->
        [id \in {i \in DOMAIN roots[r] : IsVisibleApplication(roots[r][i])} |-> roots[r][id]]]

EntriesIfVisible(roots) ==
    UNION {{FromDesktopEntry(id, file) :
              file \in {f \in FirstSeen(OnlyShown(roots), id) : f.name # ""}} : id \in AppIds}

FromEntries(roots) ==
    UNION {{FromDesktopEntry(id, file) :
              file \in {f \in FirstSeen(roots, id) : IsVisibleApplication(f) /\ f.name # ""}} :
                  id \in AppIds}

(***************************************************************************)
(* The application of a process: the one whose Exec or TryExec is its      *)
(* program, by the path or, where that is not absolute, by the name; or,   *)
(* if there is none, the one its cgroup names.                             *)
(***************************************************************************)
MatchesExecutable(entry, path) ==
    \E program \in entry.executables :
        IF program.dir # "" THEN program = path ELSE program.file = path.file

ApplicationOf(process) ==
    LET programs == {e \in catalog.entries : MatchesExecutable(e, process.path)}
        named == {e \in catalog.entries : e.id \in process.names}
        one == IF programs # {} THEN programs ELSE named
    IN  IF Cardinality(one) = 1 THEN one ELSE {}

-----------------------------------------------------------------------------
(***************************************************************************)
(* A request: it looks; after a miss it takes the time, waits for the      *)
(* mutex, loads under it unless the last load was a moment ago, and looks  *)
(* again only if it has loaded.                                            *)
(***************************************************************************)
Lookup(process) ==
    [at |-> "look", process |-> process, now |-> 0, missed |-> 0, read |-> <<>>,
     begun |-> 0, refreshed |-> FALSE, answer |-> {}, of |-> 0]

Move(l, to) == lookups' = [lookups EXCEPT ![l] = to]

AnswerOf(l) ==
    [lookups[l] EXCEPT !.at = "answered", !.answer = ApplicationOf(lookups[l].process),
                       !.of = catalog.of]

Look(l) ==
    /\ lookups[l].at = "look"
    /\ Move(l, IF ApplicationOf(lookups[l].process) # {} THEN AnswerOf(l)
                  ELSE [lookups[l] EXCEPT !.at = "missed", !.missed = edits])
    /\ UNCHANGED <<menu, edits, hour, catalog, refresh, loads>>

TakeNow(l) ==
    /\ lookups[l].at = "missed"
    /\ Move(l, [lookups[l] EXCEPT !.at = "waiting", !.now = hour])
    /\ UNCHANGED <<menu, edits, hour, catalog, refresh, loads>>

SaturatingSince(now, last) == IF now > last THEN now - last ELSE 0

InCooldown(l) ==
    refresh.last # Never /\ SaturatingSince(lookups[l].now, refresh.last) < Cooldown

LockRefresh(l) ==
    /\ lookups[l].at = "waiting" /\ refresh.locked = NotLocked
    /\ IF InCooldown(l)
       THEN /\ Move(l, [lookups[l] EXCEPT !.at = "answered"])
            /\ UNCHANGED refresh
       ELSE /\ Move(l, [lookups[l] EXCEPT !.at = "loading", !.begun = edits])
            /\ refresh' = [refresh EXCEPT !.locked = l]
    /\ UNCHANGED <<menu, edits, hour, catalog, loads>>

LoadRoot(l) ==
    /\ lookups[l].at = "loading" /\ Cardinality(DOMAIN lookups[l].read) < Cardinality(DOMAIN menu)
    /\ LET next == Cardinality(DOMAIN lookups[l].read) + 1
           read == [r \in 1 .. next |-> IF r = next THEN menu[r] ELSE lookups[l].read[r]]
       IN  Move(l, [lookups[l] EXCEPT !.read = read])
    /\ UNCHANGED <<menu, edits, hour, catalog, refresh, loads>>

StoreCatalog(l) ==
    /\ lookups[l].at = "loading" /\ DOMAIN lookups[l].read = DOMAIN menu
    /\ catalog' = [entries |-> FromEntries(lookups[l].read), of |-> lookups[l].begun,
                   steady |-> lookups[l].begun = edits]
    /\ refresh' = [locked |-> NotLocked, last |-> lookups[l].now]
    /\ loads' = loads \cup {<<l, lookups[l].now>>}
    /\ Move(l, [lookups[l] EXCEPT !.at = "again", !.refreshed = TRUE])
    /\ UNCHANGED <<menu, edits, hour>>

LookAgain(l) ==
    /\ lookups[l].at = "again"
    /\ Move(l, AnswerOf(l))
    /\ UNCHANGED <<menu, edits, hour, catalog, refresh, loads>>

(***************************************************************************)
(* Around them: a file is written to or removed from one of the            *)
(* directories, and time passes.                                           *)
(***************************************************************************)
Busy == \E l \in Lookers : lookups[l].at # "answered"

EditMenu(root, id) ==
    /\ Busy /\ edits < MaxEdits
    /\ \/ \E file \in AppFiles :
              menu' = [menu EXCEPT ![root] =
                  [i \in DOMAIN @ \cup {id} |-> IF i = id THEN file ELSE @[i]]]
       \/ id \in DOMAIN menu[root]
          /\ menu' = [menu EXCEPT ![root] = [i \in DOMAIN @ \ {id} |-> @[i]]]
    /\ menu' # menu
    /\ edits' = edits + 1
    /\ UNCHANGED <<hour, catalog, refresh, lookups, loads>>

HourPasses ==
    /\ Busy /\ hour < LastHour
    /\ hour' = hour + 1
    /\ UNCHANGED <<menu, edits, catalog, refresh, lookups, loads>>

InitCatalog ==
    /\ menu \in Menus
    /\ edits = 0 /\ hour = 0
    /\ catalog = [entries |-> FromEntries(menu), of |-> 0, steady |-> TRUE]
    /\ refresh = [locked |-> NotLocked, last |-> Never]
    /\ \E process \in [Lookers -> Wants] : lookups = [l \in Lookers |-> Lookup(process[l])]
    /\ loads = {}

NextCatalog ==
    \/ \E l \in Lookers : \/ Look(l) \/ TakeNow(l) \/ LockRefresh(l) \/ LoadRoot(l)
                          \/ StoreCatalog(l) \/ LookAgain(l)
    \/ \E root \in DOMAIN menu, id \in AppIds : EditMenu(root, id)
    \/ HourPasses

CatalogSpec == InitCatalog /\ [][NextCatalog]_catalogVars

-----------------------------------------------------------------------------
(***************************************************************************)
(* The catalog never goes back: what is looked up is of the newest load,   *)
(* and a request that loads after a miss is answered from directories as   *)
(* they were after it.  Loads are a cooldown apart, by the times of their  *)
(* misses.  And unless a file changed under the load, it lists the         *)
(* applications of the directories and no other: a file of the user's      *)
(* replaces or hides the system's of the same id (desktop.rs:60-79,        *)
(* 102-115).                                                               *)
(***************************************************************************)
Shadowed(id, root) == \E r \in DOMAIN menu : r < root /\ id \in DOMAIN menu[r]

IsListed(root, id) ==
    /\ id \in DOMAIN menu[root] /\ ~Shadowed(id, root)
    /\ IsVisibleApplication(menu[root][id]) /\ menu[root][id].name # ""

Applications == {a \in (DOMAIN menu) \X AppIds : IsListed(a[1], a[2])}

CatalogHolds ==
    /\ \A l \in Lookers :
           /\ lookups[l].refreshed => lookups[l].missed <= catalog.of
           /\ lookups[l].at = "answered" => lookups[l].of <= catalog.of
    /\ \A a, b \in loads : a # b => a[2] - b[2] >= Cooldown \/ b[2] - a[2] >= Cooldown
    /\ catalog.steady /\ catalog.of = edits =>
           catalog.entries = {FromDesktopEntry(a[2], menu[a[1]][a[2]]) : a \in Applications}
=============================================================================
