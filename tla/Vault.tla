-------------------------------- MODULE Vault --------------------------------
(***************************************************************************)
(* The content of a vault: its directories, the items in them with their   *)
(* versions, and what the operations of the database writer do to them     *)
(* (DatabaseWorker of agent/state.rs over the schema of db.rs).            *)
(*                                                                         *)
(* db is what the tables hold.  Every operation is an operator that gives  *)
(* a status and the tables after it; it is one transaction, or a single    *)
(* statement, so that a refused operation leaves the tables as they were.  *)
(* The versions of an item are kept inside the item: ON DELETE CASCADE     *)
(* removes them with it, and an item with its directory.  A field's data   *)
(* and a file's content are model values; the blobs that files name are in *)
(* FileStore.                                                              *)
(***************************************************************************)
EXTENDS Integers, FiniteSets, Sequences, SequencesExt

CONSTANTS
    Trash, Internal, Personal,  \* the directories every vault is created with
    KeyItem, PublicKeyItem,     \* items of Internal: hidden, and not
    BadNames,                   \* names that are empty or too long
    BadData,                    \* data that is not what its field's type asks for
    TrashRetention,             \* settings agent.trashRetention and
    VersionRetention            \* agent.versionRetention; 0 switches either off

(***************************************************************************)
(* The three directories have names of their own, as have the two items;   *)
(* a retention is a length of time.                                        *)
(***************************************************************************)
ASSUME VaultAssumption ==
    /\ Trash # Internal /\ Trash # Personal /\ Internal # Personal
    /\ KeyItem # PublicKeyItem
    /\ TrashRetention \in Nat
    /\ VersionRetention \in Nat

With(f, x, y) == [z \in DOMAIN f \cup {x} |-> IF z = x THEN y ELSE f[z]]
Without(f, S) == [z \in DOMAIN f \ S |-> f[z]]
Override(f, g) == [z \in DOMAIN f \cup DOMAIN g |-> IF z \in DOMAIN g THEN g[z] ELSE f[z]]
None == [z \in {} |-> 0]

Outcome(status, db) == [status |-> status, db |-> db]
Done(db) == Outcome("ok", db)

ValidName(name) == name \notin BadNames

(***************************************************************************)
(* An INTEGER PRIMARY KEY without AUTOINCREMENT is one more than the       *)
(* largest in the table, so that the id of a deleted last row comes back.  *)
(***************************************************************************)
NewRowId(table) == IF DOMAIN table = {} THEN 1 ELSE Max(DOMAIN table) + 1

(***************************************************************************)
(* Rows by name, and the four conditions an operation sets on a directory. *)
(***************************************************************************)
DirsNamed(db, name) == {d \in DOMAIN db.dirs : db.dirs[d].name = name}
HasDir(db, name) == DirsNamed(db, name) # {}
DirId(db, name) == CHOOSE d \in DirsNamed(db, name) : TRUE
DirFlags(db, name) == db.dirs[DirId(db, name)].flags

HasPublicDir(db, name) == HasDir(db, name) /\ "hidden" \notin DirFlags(db, name)

WritableDir(db, name) ==
    IF ~HasDir(db, name) THEN "not_found"
    ELSE IF "system" \in DirFlags(db, name) THEN "access_denied"
    ELSE "ok"

OverwriteableDir(db, name) ==
    IF ~HasDir(db, name) THEN "not_found"
    ELSE IF DirFlags(db, name) \cap {"system", "denyOverwrite"} # {} THEN "access_denied"
    ELSE "ok"

ItemsNamed(db, dir, name) ==
    {i \in DOMAIN db.items : db.items[i].dir = DirId(db, dir) /\ db.items[i].name = name}

ItemId(db, dir, name) == CHOOSE i \in ItemsNamed(db, dir, name) : TRUE
HasItem(db, dir, name) == ItemsNamed(db, dir, name) # {}

HasPublicItem(db, dir, name) ==
    HasItem(db, dir, name) /\ "hidden" \notin db.items[ItemId(db, dir, name)].flags

-----------------------------------------------------------------------------
(***************************************************************************)
(* create_default_dirs, create_file_encryption_key_item and                *)
(* create_age_keypair_items of db.rs: what a new vault holds.              *)
(***************************************************************************)
Dir(name, flags, now) == [name |-> name, flags |-> flags, created |-> now, updated |-> now]

FirstVersion(fields, files, now) == [v \in {1} |-> [created |-> now, fields |-> fields,
                                                    files |-> files]]

KeyRow(name, flags, now) ==
    [dir |-> 2, name |-> name, flags |-> flags, created |-> now, updated |-> now,
     oldest |-> 1, latest |-> 1, versions |-> FirstVersion([f \in {"key"} |-> name], None, now)]

NewVault(now) ==
    [dirs |-> <<Dir(Trash, {"hidden", "denyOverwrite"}, now),
                Dir(Internal, {"hidden", "system"}, now),
                Dir(Personal, {}, now)>>,
     items |-> <<KeyRow(KeyItem, {"hidden", "mustauth"}, now),
                 KeyRow(PublicKeyItem, {}, now)>>,
     files |-> {}]

(***************************************************************************)
(* create_dir, update_dir and delete_dir.  A directory's name is unique;   *)
(* a hidden directory can be neither renamed nor deleted; deletion counts  *)
(* every item, the hidden ones too.                                        *)
(***************************************************************************)
CreateDir(db, name, now) ==
    IF ~ValidName(name) THEN Outcome("bad_request", db)
    ELSE IF HasDir(db, name) THEN Outcome("conflict", db)
    ELSE Done([db EXCEPT !.dirs = With(@, NewRowId(@), Dir(name, {}, now))])

UpdateDir(db, name, newName, now) ==
    IF ~ValidName(newName) THEN Outcome("bad_request", db)
    ELSE IF ~HasPublicDir(db, name) THEN Outcome("not_found", db)
    ELSE IF HasDir(db, newName) /\ newName # name THEN Outcome("conflict", db)
    ELSE Done([db EXCEPT !.dirs[DirId(db, name)].name = newName,
                         !.dirs[DirId(db, name)].updated = now])

ItemsIn(db, d) == {i \in DOMAIN db.items : db.items[i].dir = d}

DeleteDir(db, name) ==
    IF ~HasPublicDir(db, name) THEN Outcome("not_found", db)
    ELSE IF ItemsIn(db, DirId(db, name)) # {} THEN Outcome("conflict", db)
    ELSE Done([db EXCEPT !.dirs = Without(@, {DirId(db, name)})])

-----------------------------------------------------------------------------
(***************************************************************************)
(* What a create or copy request holds: pairs of a name and data for its   *)
(* fields, pairs of a name and a file id for its files.                    *)
(***************************************************************************)
PairNames(pairs) == {pairs[k][1] : k \in DOMAIN pairs}
NamesRepeat(pairs) == Cardinality(PairNames(pairs)) < Len(pairs)
ValuesRepeat(pairs) == Cardinality({pairs[k][2] : k \in DOMAIN pairs}) < Len(pairs)
AsFunction(pairs) ==
    [name \in PairNames(pairs) |-> pairs[CHOOSE k \in DOMAIN pairs : pairs[k][1] = name][2]]

(***************************************************************************)
(* normalize_field and validate_unique_name refuse a field;                *)
(* validate_file_inputs refuses a file; and a name may not be both.        *)
(***************************************************************************)
BadFields(pairs) ==
    \/ NamesRepeat(pairs)
    \/ \E k \in DOMAIN pairs : ~ValidName(pairs[k][1]) \/ pairs[k][2] \in BadData

BadFiles(pairs) ==
    \/ NamesRepeat(pairs) \/ ValuesRepeat(pairs)
    \/ \E k \in DOMAIN pairs : ~ValidName(pairs[k][1]) \/ pairs[k][2] \in BadData

Clash(fields, files) == DOMAIN fields \cap DOMAIN files # {}

(***************************************************************************)
(* attach_existing_file for the files kept from a version and for those    *)
(* of the request: a file must have a row, and the primary key             *)
(* (item, version, file) lets a version have it under one name only.       *)
(***************************************************************************)
AttachStatusUnkeyed(db, kept, claimed) ==
    IF ~(Range(claimed) \subseteq db.files) THEN "bad_request" ELSE "ok"

AttachStatus(db, kept, claimed) ==
    IF ~(Range(claimed) \subseteq db.files) THEN "bad_request"
    ELSE IF Range(kept) \cap Range(claimed) # {} THEN "conflict"
    ELSE "ok"

(***************************************************************************)
(* create_item_version: the new version is the latest, numbered one more   *)
(* than the latest before it.                                              *)
(***************************************************************************)
NextVersionByCount(item) == Cardinality(DOMAIN item.versions) + 1

NextVersion(item) == item.latest + 1

AddVersion(item, fields, files, now) ==
    [item EXCEPT !.versions = With(@, NextVersion(item),
                                   [created |-> now, fields |-> fields, files |-> files]),
                 !.latest = NextVersion(item),
                 !.updated = now]

Latest(item) == item.versions[item.latest]
SourceFields(item) == Latest(item).fields
SourceFiles(item) == Latest(item).files

(***************************************************************************)
(* create_item_in.  base is the version copied from, which is nothing for  *)
(* a plain creation; base files the request names again are left out.      *)
(***************************************************************************)
NoBase == [fields |-> None, files |-> None]

CreateFrom(db, dir, name, base, request, now) ==
    LET fields  == Override(base.fields, AsFunction(request.fields))
        claimed == AsFunction(request.files)
        kept    == Without(base.files, DOMAIN claimed)
        files   == Override(kept, claimed)
    IN  IF BadFields(request.fields) \/ BadFiles(request.files) \/ Clash(fields, files)
        THEN Outcome("bad_request", db)
        ELSE IF AttachStatus(db, kept, claimed) # "ok"
        THEN Outcome(AttachStatus(db, kept, claimed), db)
        ELSE Done([db EXCEPT !.items = With(@, NewRowId(@),
                 [dir |-> DirId(db, dir), name |-> name, flags |-> {},
                  created |-> now, updated |-> now, oldest |-> 1, latest |-> 1,
                  versions |-> FirstVersion(fields, files, now)])])

CreateItem(db, dir, name, request, now) ==
    IF ~ValidName(name) THEN Outcome("bad_request", db)
    ELSE IF WritableDir(db, dir) # "ok" THEN Outcome(WritableDir(db, dir), db)
    ELSE IF HasItem(db, dir, name) THEN Outcome("conflict", db)
    ELSE CreateFrom(db, dir, name, NoBase, request, now)

CopyItem(db, dir, name, srcDir, src, request, now) ==
    IF ~ValidName(name) THEN Outcome("bad_request", db)
    ELSE IF WritableDir(db, dir) # "ok" THEN Outcome(WritableDir(db, dir), db)
    ELSE IF HasItem(db, dir, name) THEN Outcome("conflict", db)
    ELSE IF ~HasPublicDir(db, srcDir) THEN Outcome("not_found", db)
    ELSE IF ~HasPublicItem(db, srcDir, src) THEN Outcome("not_found", db)
    ELSE LET source == db.items[ItemId(db, srcDir, src)]
             base   == [fields |-> SourceFields(source), files |-> SourceFiles(source)]
         IN  CreateFrom(db, dir, name, base, request, now)

(***************************************************************************)
(* move_item_in: the item keeps its versions, its flags and created_at.    *)
(***************************************************************************)
MoveItem(db, dir, name, srcDir, src, request, now) ==
    IF ~ValidName(name) THEN Outcome("bad_request", db)
    ELSE IF WritableDir(db, dir) # "ok" THEN Outcome(WritableDir(db, dir), db)
    ELSE IF WritableDir(db, srcDir) # "ok" THEN Outcome(WritableDir(db, srcDir), db)
    ELSE IF ~HasPublicItem(db, srcDir, src) THEN Outcome("not_found", db)
    ELSE IF request.fields \o request.files # <<>> THEN Outcome("bad_request", db)
    ELSE IF HasItem(db, dir, name) THEN Outcome("conflict", db)
    ELSE Done([db EXCEPT !.items[ItemId(db, srcDir, src)] =
                   [@ EXCEPT !.dir = DirId(db, dir), !.name = name, !.updated = now]])

(***************************************************************************)
(* update_item: fields and files are set (pairs) or removed (names), each  *)
(* name once, and the outcome is a new version.                            *)
(***************************************************************************)
MergeRefused(request) ==
    \/ BadFields(request.fields) \/ BadFiles(request.files)
    \/ PairNames(request.fields) \cap request.dropFields # {}
    \/ PairNames(request.files) \cap request.dropFiles # {}

MergedFields(item, request) ==
    Override(Without(SourceFields(item), request.dropFields), AsFunction(request.fields))

UpdateItem(db, dir, name, request, now) ==
    IF OverwriteableDir(db, dir) # "ok" THEN Outcome(OverwriteableDir(db, dir), db)
    ELSE IF ~HasPublicItem(db, dir, name) THEN Outcome("not_found", db)
    ELSE LET id      == ItemId(db, dir, name)
             fields  == MergedFields(db.items[id], request)
             claimed == AsFunction(request.files)
             kept    == Without(SourceFiles(db.items[id]), DOMAIN claimed \cup request.dropFiles)
             files   == Override(kept, claimed)
         IN  IF MergeRefused(request) \/ Clash(fields, files)
             THEN Outcome("bad_request", db)
             ELSE IF AttachStatus(db, kept, claimed) # "ok"
             THEN Outcome(AttachStatus(db, kept, claimed), db)
             ELSE Done([db EXCEPT !.items[id] = AddVersion(@, fields, files, now)])

DeleteItem(db, dir, name) ==
    IF WritableDir(db, dir) # "ok" THEN Outcome(WritableDir(db, dir), db)
    ELSE IF ~HasPublicItem(db, dir, name) THEN Outcome("not_found", db)
    ELSE Done([db EXCEPT !.items = Without(@, {ItemId(db, dir, name)})])

(***************************************************************************)
(* restore_item_version: an old version's fields and files as a new one.   *)
(***************************************************************************)
RestoreVersion(db, dir, name, version, now) ==
    IF OverwriteableDir(db, dir) # "ok" THEN Outcome(OverwriteableDir(db, dir), db)
    ELSE IF ~HasPublicItem(db, dir, name) THEN Outcome("not_found", db)
    ELSE LET id   == ItemId(db, dir, name)
             item == db.items[id]
         IN  IF version = item.latest THEN Outcome("bad_request", db)
             ELSE IF version \notin DOMAIN item.versions THEN Outcome("not_found", db)
             ELSE Done([db EXCEPT !.items[id] =
                            AddVersion(@, item.versions[version].fields,
                                       item.versions[version].files, now)])

-----------------------------------------------------------------------------
(***************************************************************************)
(* cleanup_expired_items_and_versions, before the vault is unloaded: the   *)
(* items of the Trash that were last updated by the cutoff, then the       *)
(* versions, other than the latest, created by theirs; an item that loses  *)
(* versions has its oldest one chosen anew.  A deferred foreign key makes  *)
(* the commit fail if a pointer is left dangling.                          *)
(***************************************************************************)
Cutoff(now, retention) == now - retention

ExpiredItemsByCreation(db, now) ==
    {i \in DOMAIN db.items :
        /\ TrashRetention > 0
        /\ db.items[i].created <= Cutoff(now, TrashRetention)
        /\ db.dirs[db.items[i].dir].name = Trash}

ExpiredItems(db, now) ==
    {i \in DOMAIN db.items :
        /\ TrashRetention > 0
        /\ db.items[i].updated <= Cutoff(now, TrashRetention)
        /\ db.dirs[db.items[i].dir].name = Trash}

ExpiredVersions(item, now) ==
    {v \in DOMAIN item.versions :
        /\ VersionRetention > 0
        /\ item.versions[v].created <= Cutoff(now, VersionRetention)
        /\ v # item.latest}

OldestOf(versions) ==
    CHOOSE v \in DOMAIN versions :
        \A w \in DOMAIN versions :
            \/ versions[v].created < versions[w].created
            \/ versions[v].created = versions[w].created /\ v <= w

CleanItemKeepingPointer(item, now) ==
    [item EXCEPT !.versions = Without(@, ExpiredVersions(item, now))]

CleanItem(item, now) ==
    LET kept == Without(item.versions, ExpiredVersions(item, now))
    IN  IF ExpiredVersions(item, now) = {} THEN item
        ELSE [item EXCEPT !.versions = kept, !.oldest = OldestOf(kept)]

PointersValid(db) ==
    \A i \in DOMAIN db.items :
        {db.items[i].oldest, db.items[i].latest} \subseteq DOMAIN db.items[i].versions

CleanUp(db, now) ==
    LET kept  == Without(db.items, ExpiredItems(db, now))
        clean == [db EXCEPT !.items = [i \in DOMAIN kept |-> CleanItem(kept[i], now)]]
    IN  IF PointersValid(clean) THEN Done(clean) ELSE Outcome("internal", db)

(***************************************************************************)
(* The files of all versions; every other file is an orphan, which         *)
(* cleanup_orphan_files and delete_unattached_file may remove.             *)
(***************************************************************************)
VersionsOf(db, i) == {db.items[i].versions[v] : v \in DOMAIN db.items[i].versions}

AttachedFiles(db) ==
    UNION {Range(version.files) : version \in UNION {VersionsOf(db, i) : i \in DOMAIN db.items}}

RemoveOrphans(db, ids) == [db EXCEPT !.files = @ \ (ids \ AttachedFiles(db))]
==============================================================================
