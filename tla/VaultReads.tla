------------------------------ MODULE VaultReads ------------------------------
(***************************************************************************)
(* What the database readers answer over a vault (agent/state.rs): single  *)
(* items and references, the lists, which come in pages, and the shell's   *)
(* completions.  Each is an operator over the tables db of module Vault    *)
(* and gives a status with what the answer shows.                          *)
(***************************************************************************)
EXTENDS Vault

CONSTANTS
    NameOrder,      \* every name, in the order in which SQLite compares them
    ConcealedData,  \* the data of fields stored as concealed
    TotpData        \* the data of TOTP fields, which are always concealed

Answer(status, shows) == [status |-> status, shows |-> shows]
Refused(status) == Answer(status, None)

Rank(name) == CHOOSE k \in DOMAIN NameOrder : NameOrder[k] = name

(***************************************************************************)
(* get_dir, and who is in a directory: a hidden directory is not found,    *)
(* hidden items are not counted.                                           *)
(***************************************************************************)
PublicItemsAndHidden(db, d) == ItemsIn(db, d)

PublicItems(db, d) == {i \in ItemsIn(db, d) : "hidden" \notin db.items[i].flags}

GetDir(db, name) ==
    IF ~HasPublicDir(db, name) THEN Refused("not_found")
    ELSE Answer("ok", [items |-> Cardinality(PublicItems(db, DirId(db, name)))])

(***************************************************************************)
(* item_version_row: version 0 asks for the latest.                        *)
(***************************************************************************)
AskedVersion(item, version) == IF version = 0 THEN item.latest ELSE version

(***************************************************************************)
(* get_item: a hidden directory's items can be read by name, a hidden item *)
(* cannot.  Concealed data is masked, revealed (a TOTP field as its code)  *)
(* or raw; an item that asks for the password gives nothing away without.  *)
(***************************************************************************)
Shown(data, mode) ==
    CASE mode = "raw" -> data
      [] mode = "reveal" -> IF data \in TotpData THEN <<"code", data>> ELSE data
      [] OTHER -> IF data \in ConcealedData \cup TotpData THEN "masked" ELSE data

GetItem(db, dir, name, version, mode, mustauthSatisfied) ==
    IF ~HasDir(db, dir) \/ ~HasPublicItem(db, dir, name) THEN Refused("not_found")
    ELSE LET item   == db.items[ItemId(db, dir, name)]
             asked  == AskedVersion(item, version)
         IN  IF mode # "masked" /\ "mustauth" \in item.flags /\ ~mustauthSatisfied
             THEN Refused("access_denied")
             ELSE IF asked \notin DOMAIN item.versions THEN Refused("not_found")
             ELSE LET row == item.versions[asked]
                  IN  Answer("ok",
                        [fields |-> [f \in DOMAIN row.fields |-> Shown(row.fields[f], mode)],
                         files |-> DOMAIN row.files,
                         total |-> Cardinality(DOMAIN item.versions)])

(***************************************************************************)
(* get_reference: one field, always revealed, or one file, as the id of    *)
(* the blob its stream opens.                                              *)
(***************************************************************************)
GetReference(db, dir, name, field, version, raw, mustauthSatisfied) ==
    IF ~HasDir(db, dir) \/ ~HasPublicItem(db, dir, name) THEN Refused("not_found")
    ELSE LET item  == db.items[ItemId(db, dir, name)]
             asked == AskedVersion(item, version)
         IN  IF "mustauth" \in item.flags /\ ~mustauthSatisfied
             THEN Refused("access_denied")
             ELSE IF asked \notin DOMAIN item.versions THEN Refused("not_found")
             ELSE LET row == item.versions[asked]
                  IN  IF field \in DOMAIN row.fields
                      THEN Answer("ok", [data |-> Shown(row.fields[field],
                                                        IF raw THEN "raw" ELSE "reveal")])
                      ELSE IF field \in DOMAIN row.files
                      THEN Answer("ok", [file |-> row.files[field]])
                      ELSE Refused("not_found")

(***************************************************************************)
(* export_snapshot: the latest version, as it is stored.                   *)
(***************************************************************************)
ExportSnapshot(db, dir, name) ==
    IF ~HasDir(db, dir) \/ ~HasPublicItem(db, dir, name) THEN Refused("not_found")
    ELSE LET row == Latest(db.items[ItemId(db, dir, name)])
         IN  Answer("ok", [fields |-> row.fields, files |-> row.files])

-----------------------------------------------------------------------------
(***************************************************************************)
(* A page is the first limit rows from the marker's on, in the order of    *)
(* the list; next_marker names the row after the page.  keys gives each    *)
(* row's place in the order, and from the first place to show.             *)
(***************************************************************************)
NoMarker == [id |-> 0]

RowsFrom(keys, from) == {r \in DOMAIN keys : keys[r] >= from}

InOrder(keys, rows) ==
    [k \in 1 .. Cardinality(rows) |->
        CHOOSE r \in rows : Cardinality({s \in rows : keys[s] < keys[r]}) = k - 1]

PageOf(keys, from, limit, scope) ==
    LET rows    == InOrder(keys, RowsFrom(keys, from))
        fetched == SubSeq(rows, 1, IF limit + 1 < Len(rows) THEN limit + 1 ELSE Len(rows))
    IN  IF Len(fetched) > limit
        THEN [entries |-> SubSeq(fetched, 1, limit),
              next |-> [id |-> fetched[limit + 1], scope |-> scope]]
        ELSE [entries |-> fetched, next |-> NoMarker]

(***************************************************************************)
(* page_limit and decrypt_page_marker: a marker is bound to the list it    *)
(* comes from, and its row must still be in the list.                      *)
(***************************************************************************)
MaxPage == 200

Paged(keys, marker, limit, scope) ==
    IF limit \notin 1 .. MaxPage THEN Refused("bad_request")
    ELSE IF marker = NoMarker THEN Answer("ok", PageOf(keys, 0, limit, scope))
    ELSE IF marker.scope # scope \/ marker.id \notin DOMAIN keys THEN Refused("bad_request")
    ELSE Answer("ok", PageOf(keys, keys[marker.id], limit, scope))

(***************************************************************************)
(* list_dirs by name; list_items by name in either direction, with a glob  *)
(* (the set of names it matches); list_item_versions, newest first.        *)
(***************************************************************************)
ListDirs(db, marker, limit) ==
    Paged([d \in {e \in DOMAIN db.dirs : "hidden" \notin db.dirs[e].flags} |->
              Rank(db.dirs[d].name)],
          marker, limit, <<"dirs">>)

ItemKeys(db, d, glob, desc) ==
    [i \in {j \in PublicItems(db, d) : db.items[j].name \in glob} |->
        IF desc THEN Len(NameOrder) - Rank(db.items[i].name) ELSE Rank(db.items[i].name)]

ListItems(db, dir, glob, desc, marker, limit) ==
    IF ~HasDir(db, dir) THEN Refused("not_found")
    ELSE Paged(ItemKeys(db, DirId(db, dir), glob, desc), marker, limit,
               <<"items", DirId(db, dir), glob, desc>>)

ListVersions(db, dir, name, marker, limit) ==
    IF ~HasDir(db, dir) \/ ~HasPublicItem(db, dir, name) THEN Refused("not_found")
    ELSE LET id == ItemId(db, dir, name)
         IN  Paged([v \in DOMAIN db.items[id].versions |-> db.items[id].latest - v],
                   marker, limit, <<"versions", id>>)

-----------------------------------------------------------------------------
(***************************************************************************)
(* shell_completions, for one, two or three parts of a prefix: all but the *)
(* last are names, and the last one stands for the set of names it begins. *)
(* A part that is itself the name of a public directory, or item, brings   *)
(* what is in it.  (Ranking, and the limit of 200, only order and cut the  *)
(* list.)                                                                  *)
(***************************************************************************)
NamesIn(db, d, begins) ==
    {db.items[i].name : i \in {j \in PublicItems(db, d) : db.items[j].name \in begins}}

References(db, dir, name, begins) ==
    IF ~HasPublicDir(db, dir) \/ ~HasPublicItem(db, dir, name) THEN {}
    ELSE LET row == Latest(db.items[ItemId(db, dir, name)])
         IN  {<<dir, name, r>> : r \in (DOMAIN row.fields \cup DOMAIN row.files) \cap begins}

CompleteDir(db, begins, exact) ==
    {<<db.dirs[d].name>> : d \in {e \in DOMAIN db.dirs :
                                      /\ "hidden" \notin db.dirs[e].flags
                                      /\ db.dirs[e].name \in begins}}
    \cup UNION {{<<dir, n>> : n \in NamesIn(db, DirId(db, dir), Range(NameOrder))} :
                    dir \in {e \in exact : HasPublicDir(db, e)}}

CompleteItem(db, dir, begins, exact) ==
    IF ~HasPublicDir(db, dir) THEN {}
    ELSE {<<dir, n>> : n \in NamesIn(db, DirId(db, dir), begins)}
         \cup UNION {References(db, dir, n, Range(NameOrder)) : n \in exact}
==============================================================================
