------------------------------- MODULE Archive -------------------------------
(***************************************************************************)
(* The file in which one vault gives an item to another: what the export   *)
(* job writes (agent/export.rs) and what the import job reads back         *)
(* (agent/import.rs), with what may have become of the file in between.    *)
(*                                                                         *)
(* The file is an age stream sealed to a recipient, which holds a gzip     *)
(* stream, which holds a tar: a manifest, the files in its order and two   *)
(* blocks of zeros.  A content is a sequence of bytes and its checksum the *)
(* content itself; in one vault the id of a file stands for its content    *)
(* (files.sha256 is unique).                                               *)
(***************************************************************************)
EXTENDS Naturals, Sequences, FiniteSets
LOCAL INSTANCE SequencesExt

CONSTANTS
    Exported,       \* snapshots of items: fields and files, in the order of their names
    Streams,        \* what the blob of a file may give instead of its content
    MaxManifest,    \* bound: MAX_MANIFEST_BYTES, counted in fields and files
    MaxFile         \* MAX_FILE_UPLOAD_BYTES

VARIABLES
    giver,      \* the export job: at, snapshot, the entries written, result
    parcel,     \* the finished file: to, torn, gzip, units, as exported or not
    receiver,   \* the import job: at, next unit, manifest, names and ids, created, result
    shelf       \* the importing vault: file contents, and whether the item exists

archiveVars == <<giver, parcel, receiver, shelf>>

-----------------------------------------------------------------------------
(***************************************************************************)
(* ExportManifest and the entries of the tar.                              *)
(***************************************************************************)
ManifestOf(item) ==
    [format |-> "monopass-export", version |-> 1, name |-> item.name, fields |-> item.fields,
     files |-> [i \in DOMAIN item.files |->
                   [name |-> item.files[i].name, sha256 |-> item.files[i].content,
                    size |-> Len(item.files[i].content)]]]

EntryOf(path, size, data, manifest) ==
    [kind |-> "entry", path |-> path, regular |-> TRUE, size |-> size, data |-> data,
     manifest |-> manifest]

NoManifest == [format |-> "none"]
ManifestPath == <<"manifest.json">>
FilePath(content) == <<"files", content>>

ManifestEntry(manifest) == EntryOf(ManifestPath, 0, <<>>, manifest)
FileEntry(size, data, sha256) == EntryOf(FilePath(sha256), size, data, NoManifest)
Zeros == [kind |-> "zeros"]
Junk == [kind |-> "junk"]

ManifestSize(manifest) == Len(manifest.fields) + Len(manifest.files)

-----------------------------------------------------------------------------
(***************************************************************************)
(* stream_export: the manifest, then the files one after the other.  What  *)
(* the reader of a file gave must have the size and the checksum of the    *)
(* snapshot; if not, the job fails and its temporary file goes with it.    *)
(***************************************************************************)
FailExport(code) == giver' = [giver EXCEPT !.at = "ended", !.result = code]

WriteManifest ==
    /\ giver.at = "manifest"
    /\ IF ManifestSize(ManifestOf(giver.item)) > MaxManifest THEN FailExport("bad_reference")
       ELSE giver' = [giver EXCEPT !.at = "files",
                         !.units = <<ManifestEntry(ManifestOf(giver.item))>>]
    /\ UNCHANGED <<parcel, receiver, shelf>>

AppendSnapshotFile ==
    /\ giver.at = "files"
    /\ Len(giver.units) <= Len(giver.item.files)
    /\ LET content == giver.item.files[Len(giver.units)].content
       IN  \E given \in {content} \cup Streams :
               IF given # content THEN FailExport("bad_reference")
               ELSE giver' = [giver EXCEPT
                        !.units = Append(@, FileEntry(Len(content), given, content))]
    /\ UNCHANGED <<parcel, receiver, shelf>>

Parcel(to, units) ==
    [to |-> to, torn |-> 0, gzip |-> "whole", units |-> units, exported |-> TRUE]

PersistExport ==
    /\ giver.at = "files"
    /\ Len(giver.units) = Len(giver.item.files) + 1
    /\ giver' = [giver EXCEPT !.at = "ended", !.result = "ok"]
    /\ parcel' = Parcel("contact", giver.units \o <<Zeros, Zeros>>)
    /\ UNCHANGED <<receiver, shelf>>

-----------------------------------------------------------------------------
(***************************************************************************)
(* What an import may be given instead: a file that lost its end or a part *)
(* on its way, so that age cannot read unit torn, one whose gzip checksum  *)
(* does not fit, and tars that other programs or other versions packed.    *)
(***************************************************************************)
RenamedFile(unit) == [unit EXCEPT !.path = FilePath(<<0>>)]

OtherManifests(manifest) ==
    {[manifest EXCEPT !.version = 2], [manifest EXCEPT !.format = "malformed"]}
    \cup {[manifest EXCEPT !.fields = Append(@, f)] : f \in ToSet(manifest.fields)}
    \cup {[manifest EXCEPT !.files = Append(@, f)] : f \in ToSet(manifest.files)}
    \cup {[manifest EXCEPT !.files[i].name = manifest.fields[j].name] :
            i \in DOMAIN manifest.files, j \in DOMAIN manifest.fields}
    \cup {[manifest EXCEPT !.files[i].size = @ + 1] : i \in DOMAIN manifest.files}

OtherTars(units) ==
    LET files == 2 .. Len(units) - 2
    IN  {<<Head(units)>> \o SubSeq(units, 3, Len(units)), Tail(units), Front(units),
         Front(Front(units)), Append(units, Zeros), Append(units, Junk),
         InsertAt(units, Len(units) - 1, FileEntry(1, <<7>>, <<7>>)),
         InsertAt(units, Len(units) - 1, Junk)}
        \cup {[units EXCEPT ![i] = units[j], ![j] = units[i]] : i, j \in files}
        \cup {[units EXCEPT ![i].data = <<7>>, ![i].size = 1] : i \in files}
        \cup {[units EXCEPT ![i].data = [n \in DOMAIN @ |-> 9]] : i \in files}
        \cup {[units EXCEPT ![i].regular = FALSE] : i \in files \cup {1}}
        \cup {[units EXCEPT ![i] = RenamedFile(@)] : i \in files}
        \cup {[units EXCEPT ![1].manifest = m] : m \in OtherManifests(units[1].manifest)}

Carry ==
    /\ giver.at = "ended" /\ giver.result = "ok" /\ receiver.at = "waiting"
    /\ \E given \in {parcel, [parcel EXCEPT !.to = "other"], [parcel EXCEPT !.gzip = "crc"]}
                    \cup {[parcel EXCEPT !.torn = n] : n \in 1 .. Len(parcel.units) + 1}
                    \cup {[parcel EXCEPT !.units = units] : units \in OtherTars(parcel.units)} :
           parcel' = [given EXCEPT !.exported = (given = parcel)]
    /\ receiver' = [receiver EXCEPT !.at = "open"]
    /\ UNCHANGED <<giver, shelf>>

-----------------------------------------------------------------------------
(***************************************************************************)
(* parse_export.  archive_read_error names the layer that failed; a        *)
(* failure of any kind deletes the files this import created, and only     *)
(* those (cleanup_new_files).                                              *)
(***************************************************************************)
FailImport(code) ==
    /\ receiver' = [receiver EXCEPT !.at = "ended", !.result = code]
    /\ shelf' = [shelf EXCEPT !.contents = @ \ receiver.created]

AgeFails == parcel.torn = receiver.next
ArchiveReadError == IF AgeFails THEN "decrypt_failed" ELSE "bad_archive"

PastEnd == receiver.next > Len(parcel.units)
NextUnit == parcel.units[receiver.next]

OpenArchive ==
    /\ receiver.at = "open"
    /\ IF parcel.to # "contact" THEN FailImport("decrypt_failed")
       ELSE receiver' = [receiver EXCEPT !.at = "manifest"] /\ UNCHANGED shelf
    /\ UNCHANGED <<giver, parcel>>

IsAtPath(unit, path) == unit.kind = "entry" /\ unit.path = path

IsRegular(unit, path) == unit.kind = "entry" /\ unit.regular /\ unit.path = path

ValidManifest(manifest) ==
    LET names  == [i \in DOMAIN manifest.fields |-> manifest.fields[i].name]
                  \o [i \in DOMAIN manifest.files |-> manifest.files[i].name]
        hashes == [i \in DOMAIN manifest.files |-> manifest.files[i].sha256]
    IN  /\ manifest.format = "monopass-export" /\ manifest.version = 1
        /\ IsInjective(names) /\ IsInjective(hashes)
        /\ \A i \in DOMAIN manifest.files : manifest.files[i].size <= MaxFile

ReadManifest ==
    /\ receiver.at = "manifest"
    /\ IF AgeFails THEN FailImport("decrypt_failed")
       ELSE IF PastEnd \/ ~IsRegular(NextUnit, ManifestPath) THEN FailImport("bad_archive")
       ELSE IF ManifestSize(NextUnit.manifest) > MaxManifest
               \/ ~ValidManifest(NextUnit.manifest) THEN FailImport("bad_archive")
       ELSE /\ receiver' = [receiver EXCEPT !.at = "files", !.next = 2,
                               !.manifest = NextUnit.manifest]
            /\ UNCHANGED shelf
    /\ UNCHANGED <<giver, parcel>>

(***************************************************************************)
(* The next file of the manifest: its entry, then stream_file_to_database, *)
(* which stores it under the checksum the manifest names, or not at all.   *)
(***************************************************************************)
FilesRead == receiver.next - 2

ReadFileEntry ==
    /\ receiver.at = "files"
    /\ FilesRead < Len(receiver.manifest.files)
    /\ LET file == receiver.manifest.files[FilesRead + 1]
       IN  IF AgeFails \/ PastEnd THEN FailImport(ArchiveReadError)
           ELSE IF ~IsRegular(NextUnit, FilePath(file.sha256)) \/ NextUnit.size # file.size
               THEN FailImport("bad_archive")
           ELSE IF Len(NextUnit.data) # file.size \/ NextUnit.data # file.sha256
               THEN FailImport("bad_archive")
           ELSE /\ shelf' = [shelf EXCEPT !.contents = @ \cup {NextUnit.data}]
                /\ receiver' = [receiver EXCEPT
                       !.next = @ + 1,
                       !.files = Append(@, [name |-> file.name, content |-> NextUnit.data]),
                       !.created = IF NextUnit.data \in shelf.contents THEN @
                                   ELSE @ \cup {NextUnit.data}]
    /\ UNCHANGED <<giver, parcel>>

(***************************************************************************)
(* The end of the tar: a block of zeros or nothing, no further entry; and  *)
(* validate_tar_terminator_and_finish: exactly one more block of zeros,    *)
(* with gzip's checksum and the end of the age stream behind it.           *)
(***************************************************************************)
AllRead == receiver.at = "files" /\ FilesRead = Len(receiver.manifest.files)

ReadEnd ==
    /\ AllRead
    /\ IF AgeFails THEN FailImport("decrypt_failed")
       ELSE IF ~PastEnd /\ NextUnit.kind # "zeros" THEN FailImport("bad_archive")
       ELSE receiver' = [receiver EXCEPT !.at = "finish", !.next = @ + 1] /\ UNCHANGED shelf
    /\ UNCHANGED <<giver, parcel>>

Rest == SubSeq(parcel.units, receiver.next, Len(parcel.units))

FinishArchive ==
    /\ receiver.at = "finish"
    /\ IF parcel.torn >= receiver.next THEN FailImport("decrypt_failed")
       ELSE IF Rest # <<Zeros>> \/ parcel.gzip # "whole" THEN FailImport("bad_archive")
       ELSE receiver' = [receiver EXCEPT !.at = "create"] /\ UNCHANGED shelf
    /\ UNCHANGED <<giver, parcel>>

(***************************************************************************)
(* create_item, which refuses an item that exists; or the database fails.  *)
(***************************************************************************)
CreateImported ==
    /\ receiver.at = "create"
    /\ IF shelf.item # <<>> THEN FailImport("conflict")
       ELSE /\ receiver' = [receiver EXCEPT !.at = "ended", !.result = "ok"]
            /\ shelf' = [shelf EXCEPT !.item = <<[fields |-> receiver.manifest.fields,
                                                  files |-> receiver.files]>>]
    /\ UNCHANGED <<giver, parcel>>

InitArchive ==
    /\ \E item \in Exported :
           giver = [at |-> "manifest", item |-> item, units |-> <<>>, result |-> "none"]
    /\ parcel = Parcel("nobody", <<>>)
    /\ receiver = [at |-> "waiting", next |-> 1, manifest |-> NoManifest, files |-> <<>>,
                   created |-> {}, result |-> "none"]
    /\ \E contents \in {{}, {<<7>>}, {<<1, 2>>}}, item \in {<<>>, <<"there">>} :
           shelf = [before |-> contents, contents |-> contents, item |-> item]

NextArchive ==
    \/ WriteManifest \/ AppendSnapshotFile \/ PersistExport \/ Carry
    \/ OpenArchive \/ ReadManifest \/ ReadFileEntry \/ ReadEnd \/ FinishArchive
    \/ CreateImported

ArchiveSpec == InitArchive /\ [][NextArchive]_archiveVars

-----------------------------------------------------------------------------
(***************************************************************************)
(* An export that finished is a whole item: what an import makes of the    *)
(* unchanged file, with the recipient's key and nothing in the way, is the *)
(* item's fields and files again (export.rs:90-256, import.rs:120-320).    *)
(***************************************************************************)
ArrivesWhole ==
    receiver.at = "ended" /\ parcel.exported =>
        IF receiver.result = "ok"
        THEN shelf.item = <<[fields |-> giver.item.fields, files |-> giver.item.files]>>
        ELSE receiver.result = "conflict" /\ shelf.item = <<"there">>

(***************************************************************************)
(* Everything else fails closed (docs/specs/api-spec.md:975-987): a file   *)
(* that is accepted is one that an export could have written of some item, *)
(* down to its last block, and every content is the one the manifest names.*)
(***************************************************************************)
WrittenAs(fields, files) ==
    <<ManifestEntry(ManifestOf([name |-> giver.item.name, fields |-> fields,
                                files |-> files]))>>
    \o [i \in DOMAIN files |->
           FileEntry(Len(files[i].content), files[i].content, files[i].content)]
    \o <<Zeros, Zeros>>

FailsClosed ==
    receiver.result = "ok" =>
        /\ parcel.to = "contact" /\ parcel.torn = 0 /\ parcel.gzip = "whole"
        /\ parcel.units = WrittenAs(shelf.item[1].fields, shelf.item[1].files)

(***************************************************************************)
(* A failed import leaves the vault's files as they were: those it created *)
(* are gone, those it was given for being there already are not.           *)
(***************************************************************************)
LeavesNothing ==
    receiver.at = "ended" /\ receiver.result # "ok" => shelf.contents = shelf.before

RoundTrip == ArrivesWhole /\ FailsClosed /\ LeavesNothing
==============================================================================
