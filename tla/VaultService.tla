---------------------------- MODULE VaultService ----------------------------
(***************************************************************************)
(* A vault in service: the writer applies the operations of module Vault   *)
(* one after the other, files are uploaded and orphans removed, the wall   *)
(* clock goes on or is set back, the vault is cleaned up before an unload, *)
(* and a client lists a directory page by page meanwhile.                  *)
(***************************************************************************)
EXTENDS VaultReads

CONSTANTS
    DirNames,   \* names of directories that requests mention
    ItemNames,  \* names of items that requests mention
    Files,      \* file ids
    Creations,  \* bodies of create, copy and move requests
    Updates,    \* bodies of update requests
    PageLimit,  \* how many entries the listing client asks for
    MaxTime, MaxSetBack,            \* bounds of the clocks
    MaxVersion, MaxDirs, MaxItems   \* bounds of version numbers and row ids

(***************************************************************************)
(* A request names its files in a list.                                    *)
(***************************************************************************)
IsList(pairs) == pairs \in Seq(Range(pairs))

ASSUME RequestAssumption == \A request \in Creations \cup Updates : IsList(request.files)

(***************************************************************************)
(* NameOrder has each name once, and has those of the items that requests  *)
(* make or a vault begins with, and those of their fields and files.       *)
(***************************************************************************)
Glob == Range(NameOrder)

ASSUME NamesAssumption ==
    /\ IsList(NameOrder)
    /\ \A j, k \in DOMAIN NameOrder : NameOrder[j] = NameOrder[k] => j = k
    /\ ItemNames \cup {KeyItem, PublicKeyItem, "key"} \subseteq Glob
    /\ \A request \in Creations \cup Updates :
           PairNames(request.fields) \cup PairNames(request.files) \subseteq Glob

(***************************************************************************)
(* Rows and versions are few enough for one page to show them all.         *)
(***************************************************************************)
ASSUME BoundsAssumption ==
    /\ PageLimit \in 1 .. MaxPage
    /\ MaxItems \in Nat /\ MaxItems <= MaxPage
    /\ MaxVersion \in Nat /\ MaxVersion <= MaxPage

VARIABLES
    db,     \* the tables
    wall,   \* the wall clock, in the unit of the retention periods
    real,   \* history: the time that has passed
    placed, \* history: item -> the time it was last put where it is
    walk    \* the listing client: its page marker and what it has seen

vars == <<db, wall, real, placed, walk>>

(***************************************************************************)
(* After a step, an item that is where it was has been there since then.   *)
(***************************************************************************)
SamePlace(i) ==
    /\ i \in DOMAIN db.items
    /\ db'.items[i].dir = db.items[i].dir
    /\ db'.items[i].name = db.items[i].name
    /\ db'.items[i].created = db.items[i].created
    /\ db'.items[i].updated = db.items[i].updated

Placed == [i \in DOMAIN db'.items |-> IF SamePlace(i) THEN placed[i] ELSE real]

(***************************************************************************)
(* An item the walk is to find is one that the directory has throughout.   *)
(***************************************************************************)
NoWalk == [at |-> "none"]

Stays(i) == SamePlace(i) \/ (i \in DOMAIN db.items /\ i \in DOMAIN db'.items
                             /\ db'.items[i].dir = db.items[i].dir
                             /\ db'.items[i].name = db.items[i].name
                             /\ db'.items[i].created = db.items[i].created)

Watched ==
    IF walk.at = "none" THEN walk
    ELSE [walk EXCEPT
            !.stay = {i \in @ : i \in DOMAIN db'.items /\ Stays(i)},
            !.steady = @ /\ (walk.marker = NoMarker \/ walk.at # "walking"
                                \/ (walk.marker.id \in DOMAIN db'.items
                                        /\ Stays(walk.marker.id)))]

WithinBounds ==
    /\ DOMAIN db'.dirs \subseteq 1 .. MaxDirs
    /\ DOMAIN db'.items \subseteq 1 .. MaxItems
    /\ \A i \in DOMAIN db'.items : db'.items[i].latest <= MaxVersion

Apply(outcome) ==
    /\ outcome.status = "ok"
    /\ db' = outcome.db
    /\ placed' = Placed
    /\ walk' = Watched
    /\ WithinBounds
    /\ UNCHANGED <<wall, real>>

NewDir == \E name \in DirNames : Apply(CreateDir(db, name, wall))

RenameDir ==
    \E name, newName \in DirNames : Apply(UpdateDir(db, name, newName, wall))

DropDir == \E name \in DirNames : Apply(DeleteDir(db, name))

NewItem ==
    \E dir \in DirNames, name \in ItemNames, request \in Creations :
        Apply(CreateItem(db, dir, name, request, wall))

NewCopy ==
    \E dir, srcDir \in DirNames, name, src \in ItemNames, request \in Creations :
        Apply(CopyItem(db, dir, name, srcDir, src, request, wall))

Move ==
    \E dir, srcDir \in DirNames, name, src \in ItemNames, request \in Creations :
        Apply(MoveItem(db, dir, name, srcDir, src, request, wall))

Update ==
    \E dir \in DirNames, name \in ItemNames, request \in Updates :
        Apply(UpdateItem(db, dir, name, request, wall))

Delete ==
    \E dir \in DirNames, name \in ItemNames : Apply(DeleteItem(db, dir, name))

Restore ==
    \E dir \in DirNames, name \in ItemNames, version \in 1 .. MaxVersion :
        Apply(RestoreVersion(db, dir, name, version, wall))

Clean == Apply(CleanUp(db, wall))

(***************************************************************************)
(* create_file and the removal of an orphan, as far as the table goes.     *)
(***************************************************************************)
Upload ==
    \E f \in Files \ db.files :
        /\ db' = [db EXCEPT !.files = @ \cup {f}]
        /\ UNCHANGED <<wall, real, placed, walk>>

CollectOrphan ==
    \E f \in db.files :
        /\ db' = RemoveOrphans(db, {f})
        /\ UNCHANGED <<wall, real, placed, walk>>

Tick ==
    /\ real < MaxTime
    /\ real' = real + 1
    /\ wall' = wall + 1
    /\ UNCHANGED <<db, placed, walk>>

SetBack ==
    /\ real - wall < MaxSetBack
    /\ wall > 0
    /\ wall' = wall - 1
    /\ UNCHANGED <<db, real, placed, walk>>

(***************************************************************************)
(* A client lists a directory: it asks for page after page, each with the  *)
(* marker the last one gave, until there is none.  The reader looks up the *)
(* marker's row and then, in a statement of its own, the page.             *)
(***************************************************************************)
BeginWalk ==
    /\ walk.at = "none"
    /\ \E dir \in DirNames :
        /\ HasPublicDir(db, dir)
        /\ walk' = [at |-> "walking", dir |-> DirId(db, dir), marker |-> NoMarker, from |-> 0,
                    seen |-> <<>>, stay |-> PublicItems(db, DirId(db, dir)), steady |-> TRUE]
    /\ UNCHANGED <<db, wall, real, placed>>

WalkKeys == ItemKeys(db, walk.dir, Glob, FALSE)

FindMarker ==
    /\ walk.at = "walking"
    /\ walk.dir \in DOMAIN db.dirs
    /\ walk' = IF walk.marker = NoMarker THEN [walk EXCEPT !.at = "fetching"]
               ELSE IF walk.marker.id \notin DOMAIN WalkKeys THEN [walk EXCEPT !.at = "refused"]
               ELSE [walk EXCEPT !.at = "fetching", !.from = WalkKeys[walk.marker.id]]
    /\ UNCHANGED <<db, wall, real, placed>>

NextPage ==
    /\ walk.at = "fetching"
    /\ LET page == PageOf(WalkKeys, walk.from, PageLimit, walk.dir)
       IN  walk' = [walk EXCEPT
                      !.seen = @ \o page.entries,
                      !.marker = page.next,
                      !.at = IF page.next = NoMarker THEN "done" ELSE "walking"]
    /\ UNCHANGED <<db, wall, real, placed>>

EndWalk ==
    /\ walk.at \in {"done", "refused"}
    /\ walk' = NoWalk
    /\ UNCHANGED <<db, wall, real, placed>>

Init ==
    /\ db = NewVault(0)
    /\ wall = 0
    /\ real = 0
    /\ placed = [i \in DOMAIN NewVault(0).items |-> 0]
    /\ walk = NoWalk

Next ==
    \/ NewDir \/ RenameDir \/ DropDir
    \/ NewItem \/ NewCopy \/ Move \/ Update \/ Delete \/ Restore
    \/ Clean \/ Upload \/ CollectOrphan
    \/ Tick \/ SetBack
    \/ BeginWalk \/ FindMarker \/ NextPage \/ EndWalk

Spec == Init /\ [][Next]_vars

-----------------------------------------------------------------------------
(***************************************************************************)
(* The version pointers of an item always name versions it has, the latest *)
(* one being the newest by number, so that the commit of a cleanup never   *)
(* fails on its deferred foreign keys and no read finds the item without   *)
(* its version, even when the clock was set back between two versions      *)
(* (state.rs:4207-4293, 5313-5382).                                        *)
(***************************************************************************)
VersionsSound ==
    /\ PointersValid(db)
    /\ \A i \in DOMAIN db.items : db.items[i].latest = Max(DOMAIN db.items[i].versions)
    /\ CleanUp(db, wall).status = "ok"

(***************************************************************************)
(* A version, once written, is never changed and its number never used     *)
(* again for another: later versions have greater numbers, whatever was    *)
(* cleaned up, restored or moved in between.                               *)
(***************************************************************************)
HistoryIsAppendOnly ==
    [][\A i \in DOMAIN db.items \cap DOMAIN db'.items :
          \A v \in DOMAIN db'.items[i].versions :
              \/ /\ v \in DOMAIN db.items[i].versions
                 /\ db'.items[i].versions[v] = db.items[i].versions[v]
              \/ v > Max(DOMAIN db.items[i].versions)]_vars

(***************************************************************************)
(* An item put in the Trash stays there for the whole retention period of  *)
(* real time unless somebody deletes it or moves it, also when the wall    *)
(* clock is set back meanwhile (docs/user/03-managing-items.md: "Trashed   *)
(* items are removed 180 days after they are moved").                      *)
(***************************************************************************)
TrashKeepsItsPromise ==
    [][Clean => \A i \in DOMAIN db.items \ DOMAIN db'.items :
                    /\ db.dirs[db.items[i].dir].name = Trash
                    /\ real - placed[i] >= TrashRetention]_vars

(***************************************************************************)
(* The vault's own keys and directories stand: no request renames or       *)
(* removes Trash and Internal, and no item enters, leaves or changes in    *)
(* Internal (the Trash is filled and emptied: see above).                  *)
(***************************************************************************)
Reserved == {1, 2}

ReservedStand ==
    [][/\ \A d \in Reserved : d \in DOMAIN db'.dirs /\ db'.dirs[d] = db.dirs[d]
       /\ ItemsIn(db', 2) = ItemsIn(db, 2)
       /\ \A i \in ItemsIn(db, 2) : db'.items[i] = db.items[i]]_vars

(***************************************************************************)
(* What is attached has a row, and no version has one file under two names *)
(* (an export of such a version could not be imported again, since a       *)
(* manifest names each checksum once).                                     *)
(***************************************************************************)
FilesSound ==
    /\ AttachedFiles(db) \subseteq db.files
    /\ \A i \in DOMAIN db.items : \A version \in VersionsOf(db, i) :
           \A f, g \in DOMAIN version.files : version.files[f] = version.files[g] => f = g

(***************************************************************************)
(* The readers agree: an item is listed exactly if it can be opened; each  *)
(* version listed can be opened, and as many are listed as counted; what   *)
(* opening shows is what references, exports and completions give; and     *)
(* nothing hidden is among it.                                             *)
(***************************************************************************)
Listed(dir) == {db.items[i].name : i \in Range(ListItems(db, dir, Glob, FALSE, NoMarker,
                                                         MaxPage).shows.entries)}

ReferencesAgree(dir, name, shows) ==
    /\ \A f \in DOMAIN shows.fields :
           GetReference(db, dir, name, f, 0, TRUE, FALSE).shows = [data |-> shows.fields[f]]
    /\ \A f \in shows.files :
           GetReference(db, dir, name, f, 0, TRUE, FALSE).shows
               = [file |-> ExportSnapshot(db, dir, name).shows.files[f]]
    /\ ExportSnapshot(db, dir, name).shows.fields = shows.fields
    /\ HasPublicDir(db, dir) =>
           References(db, dir, name, Glob)
               = {<<dir, name, f>> : f \in DOMAIN shows.fields \cup shows.files}

VersionsAgree(dir, name, shows) ==
    LET versions == ListVersions(db, dir, name, NoMarker, MaxPage).shows.entries
    IN  /\ Len(versions) = shows.total
        /\ \A v \in Range(versions) : GetItem(db, dir, name, v, "raw", FALSE).status = "ok"

ViewsAgree ==
    \A dir \in DirNames : HasDir(db, dir) =>
        /\ \A name \in ItemNames \cup {KeyItem, PublicKeyItem} :
               LET got == GetItem(db, dir, name, 0, "raw", FALSE)
               IN  /\ got.status = "ok" <=> name \in Listed(dir)
                   /\ got.status = "ok" => /\ ReferencesAgree(dir, name, got.shows)
                                           /\ VersionsAgree(dir, name, got.shows)
        /\ HasPublicDir(db, dir) => GetDir(db, dir).shows.items = Cardinality(Listed(dir))
        /\ CompleteItem(db, dir, Glob, {}) \subseteq {<<dir, name>> : name \in Listed(dir)}

(***************************************************************************)
(* A client that follows next_marker until there is none has seen every    *)
(* item that was in the directory throughout, and seen it once, provided   *)
(* that no item a marker named was moved, renamed or replaced before the   *)
(* marker was used.                                                        *)
(***************************************************************************)
WalkIsComplete ==
    walk.at = "done" /\ walk.steady =>
        \A i \in walk.stay : Cardinality({k \in DOMAIN walk.seen : walk.seen[k] = i}) = 1

(***************************************************************************)
(* Every request and cleanup leaves versions that follow each other and    *)
(* files that are there.                                                   *)
(***************************************************************************)
RowsSound == VersionsSound /\ FilesSound

(***************************************************************************)
(* What the readers show of the rows is one and the same, and whole.       *)
(***************************************************************************)
ReadsAgree == ViewsAgree /\ WalkIsComplete
==============================================================================
