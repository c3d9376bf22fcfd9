------------------------------- MODULE Readers -------------------------------
(***************************************************************************)
(* A read of one item on one of the database's reader connections          *)
(* (DatabaseWorker::get_item, get_reference and export_snapshot in         *)
(* agent/state.rs).  The first two are several statements, each of which   *)
(* sees the tables as they are by then, while the writer goes on; an       *)
(* export takes one snapshot.                                              *)
(***************************************************************************)
EXTENDS VaultService

CONSTANTS
    Reads   \* what is read: [kind, dir, name, version, field]

(***************************************************************************)
(* There are three kinds of reads.                                         *)
(***************************************************************************)
ASSUME ReadsAssumption == \A asked \in Reads : asked.kind \in {"item", "reference", "export"}

VARIABLE read

readVars == <<vars, read>>

NoRead == [at |-> "idle"]

(***************************************************************************)
(* What an answer shows, but for the count of versions and the times,      *)
(* which come with statements of their own: of an item its fields and the  *)
(* names of its files, of a reference its field or else its file.          *)
(***************************************************************************)
ItemShows(fields, files) == Answer("ok", [fields |-> fields, files |-> DOMAIN files])

ReferenceShows(fields, files, field) ==
    Answer("ok", IF field \in DOMAIN fields THEN [data |-> fields[field]]
                 ELSE [file |-> files[field]])

(***************************************************************************)
(* The answer there would be if the whole request were one statement now.  *)
(***************************************************************************)
AtOnce(tables, asked) ==
    CASE asked.kind = "item" ->
            LET got == GetItem(tables, asked.dir, asked.name, asked.version, "raw", FALSE)
            IN  IF got.status # "ok" THEN got
                ELSE Answer("ok", [fields |-> got.shows.fields, files |-> got.shows.files])
      [] asked.kind = "reference" ->
            GetReference(tables, asked.dir, asked.name, asked.field, asked.version, TRUE, FALSE)
      [] OTHER -> ExportSnapshot(tables, asked.dir, asked.name)

(***************************************************************************)
(* could collects the answers of every moment of the read; steady says     *)
(* that the directory it has found kept its name, and the version it has   *)
(* found was not removed.                                                  *)
(***************************************************************************)
StaysFound ==
    /\ read.dir # 0 => /\ read.dir \in DOMAIN db'.dirs
                       /\ db'.dirs[read.dir].name = db.dirs[read.dir].name
    /\ read.found # 0 => /\ read.item \in DOMAIN db'.items
                         /\ Stays(read.item)
                         /\ read.found \in DOMAIN db'.items[read.item].versions

Overtaken ==
    IF read.at \in {"idle", "answered"} THEN read
    ELSE [read EXCEPT !.could = @ \cup {AtOnce(db', read.asked)},
                      !.steady = @ /\ StaysFound]

Reply(answer) == read' = [read EXCEPT !.at = "answered", !.answer = answer]

Reading(at) == read.at = at /\ UNCHANGED vars

BeginRead ==
    /\ Reading("idle")
    /\ \E asked \in Reads :
        read' = [at |-> IF asked.kind = "export" THEN "snapshot" ELSE "dir",
                 asked |-> asked, dir |-> 0, item |-> 0, found |-> 0, fields |-> None,
                 answer |-> Refused("none"), could |-> {AtOnce(db, asked)}, steady |-> TRUE]

(***************************************************************************)
(* dir_id_in, public_item_row_in and the check of the password, and        *)
(* item_version_row, which looks for the item by its name once more.       *)
(***************************************************************************)
FindDir ==
    /\ Reading("dir")
    /\ IF HasDir(db, read.asked.dir)
       THEN read' = [read EXCEPT !.at = "item", !.dir = DirId(db, read.asked.dir)]
       ELSE Reply(Refused("not_found"))

Rows == {i \in DOMAIN db.items : db.items[i].dir = read.dir
                                 /\ db.items[i].name = read.asked.name}

FindItem ==
    /\ Reading("item")
    /\ IF \E i \in Rows : "hidden" \notin db.items[i].flags
       THEN read' = [read EXCEPT !.at = "version"]
       ELSE Reply(Refused("not_found"))

FindVersion ==
    /\ Reading("version")
    /\ IF \E i \in Rows : AskedVersion(db.items[i], read.asked.version)
                              \in DOMAIN db.items[i].versions
       THEN \E i \in Rows :
              read' = [read EXCEPT !.at = "check", !.item = i,
                         !.found = AskedVersion(db.items[i], read.asked.version)]
       ELSE Reply(Refused("not_found"))

(***************************************************************************)
(* item_fields_for_version: the version must be there, and its fields are  *)
(* the rows that bear its number; then its files likewise.                 *)
(***************************************************************************)
HasVersion == read.item \in DOMAIN db.items
              /\ read.found \in DOMAIN db.items[read.item].versions

CheckVersion ==
    /\ Reading("check")
    /\ IF HasVersion THEN read' = [read EXCEPT !.at = "fields"] ELSE Reply(Refused("not_found"))

FieldRows ==
    IF HasVersion THEN db.items[read.item].versions[read.found].fields ELSE None

FileRowsOfLatest ==
    IF HasVersion THEN Latest(db.items[read.item]).files ELSE None

FileRows ==
    IF HasVersion THEN db.items[read.item].versions[read.found].files ELSE None

ReadFields ==
    /\ Reading("fields")
    /\ IF read.asked.kind = "reference" /\ read.asked.field \in DOMAIN FieldRows
       THEN Reply(ReferenceShows(FieldRows, None, read.asked.field))
       ELSE read' = [read EXCEPT !.at = "files", !.fields = FieldRows]

ReadFiles ==
    /\ Reading("files")
    /\ IF read.asked.kind = "item" THEN Reply(ItemShows(read.fields, FileRows))
       ELSE IF read.asked.field \in DOMAIN FileRows
       THEN Reply(ReferenceShows(None, FileRows, read.asked.field))
       ELSE Reply(Refused("not_found"))

TakeSnapshot ==
    /\ Reading("snapshot")
    /\ Reply(AtOnce(db, read.asked))

ReadStep ==
    \/ FindDir \/ FindItem \/ FindVersion
    \/ CheckVersion \/ ReadFields \/ ReadFiles \/ TakeSnapshot

Writes == Next /\ read' = Overtaken

InitReaders == Init /\ read = NoRead

NextReaders == BeginRead \/ ReadStep \/ Writes

ReadersSpec == InitReaders /\ [][NextReaders]_readVars

-----------------------------------------------------------------------------
(***************************************************************************)
(* A read answers what the vault held at one moment while it ran, although *)
(* its statements see different moments: a new version, a move or a        *)
(* restored one in between never mixes the fields of one version with the  *)
(* files of another.  Only a reader that is overtaken by the removal of    *)
(* what it has found, or the renaming of its directory, may show less or   *)
(* something else (row ids are used again); an export never does.          *)
(***************************************************************************)
ReadsAreWhole ==
    read.at = "answered" /\ (read.steady \/ read.asked.kind = "export")
        => read.answer \in read.could

(***************************************************************************)
(* What the reads show: of one state of the rows, one and the same; and of *)
(* the states a read has met, one.                                         *)
(***************************************************************************)
ReadsHold == ReadsAgree /\ ReadsAreWhole
==============================================================================
