------------------------------ MODULE Download ------------------------------
(***************************************************************************)
(* What a stored file is read back as: the records of its blob on disk, a  *)
(* thread that decrypts them into a channel, and at the other end of the   *)
(* channel either an HTTP answer that a command writes to a file of the    *)
(* user's, or the archive of an export.  The disk may have lost or changed *)
(* a part of the blob, and the agent or the command may die at any step.   *)
(*                                                                         *)
(* A content is a sequence of bytes, and its hash is the content itself.   *)
(* The seal of a record holds for its data and its place in the blob.      *)
(***************************************************************************)
EXTENDS Integers, Sequences, FiniteSets

CONSTANTS
    Contents,       \* the contents a file may have
    RecordBytes,    \* FILE_RECORD_PLAINTEXT_BYTES
    ChannelRoom     \* chunks the channel of a download holds

ASSUME RecordAssumption == RecordBytes \in Nat \ {0} /\ ChannelRoom \in Nat \ {0}
ASSUME ContentsAssumption == Contents \subseteq Seq(Nat)

VARIABLES
    stored,     \* [sha256, size, blob, tail]: the row and the blob
    source,     \* [at, counter, channel]: the decrypting thread
    taker,      \* the HTTP answer and its client, or the export
    target      \* [before, force, file, content, temp, result]: what is written

downloadVars == <<stored, source, taker, target>>

-----------------------------------------------------------------------------
(***************************************************************************)
(* The blob of a content: its bytes in chunks of RecordBytes, each sealed  *)
(* with its counter, and one empty record for an empty file (the upload's  *)
(* buffer, create_file, encrypt_chunk_record).                             *)
(***************************************************************************)
ChunkAt(content, i) ==
    SubSeq(content, (i - 1) * RecordBytes + 1,
           IF i * RecordBytes < Len(content) THEN i * RecordBytes ELSE Len(content))

Records(content) ==
    LET n == (Len(content) + RecordBytes - 1) \div RecordBytes
    IN  [i \in 1 .. (IF n = 0 THEN 1 ELSE n) |-> [counter |-> i - 1, data |-> ChunkAt(content, i)]]

(***************************************************************************)
(* A disk that has failed: the blob is gone, ends early, at the end of a   *)
(* record, inside the length of one or later in it; or two records have    *)
(* changed places; or one no longer fits its seal.                         *)
(***************************************************************************)
Damaged(blob) ==
    {[blob |-> <<>>, tail |-> "gone"]}
    \cup {[blob |-> SubSeq(blob, 1, n), tail |-> t] :
            n \in 0 .. Len(blob) - 1, t \in {"none", "length", "record"}}
    \cup {[blob |-> [blob EXCEPT ![i] = blob[j], ![j] = blob[i]], tail |-> "none"] :
            i, j \in DOMAIN blob}
    \cup {[blob |-> [blob EXCEPT ![i].counter = -1], tail |-> "none"] : i \in DOMAIN blob}

InitDownload ==
    /\ \E content \in Contents :
           \E disk \in {[blob |-> Records(content), tail |-> "none"]} \cup Damaged(Records(content)) :
               stored = [sha256 |-> content, size |-> Len(content),
                         blob |-> disk.blob, tail |-> disk.tail]
    /\ source = [at |-> "open", counter |-> 0, channel |-> <<>>]
    /\ \E kind \in {"http", "export"} :
           taker = [kind |-> kind, got |-> <<>>, at |-> "receiving", agent |-> "up"]
    /\ target \in [before: {"nothing", "other"}, force: BOOLEAN, file: {"before"},
                   content: {<<>>}, result: {"none"},
                   temp: IF taker.kind = "export" THEN {"part"} ELSE {"none"}]
    /\ taker.kind = "export" => target.before = "nothing" /\ ~target.force

-----------------------------------------------------------------------------
(***************************************************************************)
(* The decrypting thread (stream_decrypt_stored_file).  The end of the     *)
(* file where a record would begin, or in its length, ends the stream;     *)
(* everything else that is wrong sends an error.  It stops when nobody     *)
(* takes the chunks any more.                                              *)
(***************************************************************************)
Fails == source' = [source EXCEPT !.at = "ended", !.channel = Append(@, [ok |-> FALSE, data |-> <<>>])]
Ends == source' = [source EXCEPT !.at = "ended"]

HasRoom == Len(source.channel) < ChannelRoom

OpenBlob ==
    /\ source.at = "open" /\ taker.agent = "up"
    /\ IF stored.tail = "gone" THEN Fails ELSE source' = [source EXCEPT !.at = "reading"]
    /\ UNCHANGED <<stored, taker, target>>

DecryptRecord ==
    /\ source.at = "reading" /\ taker.agent = "up"
    /\ taker.at = "receiving" => HasRoom
    /\ LET record == stored.blob[source.counter + 1]
       IN  IF source.counter >= Len(stored.blob)
           THEN IF stored.tail = "record" THEN Fails ELSE Ends
           ELSE IF record.counter # source.counter THEN Fails
           ELSE IF record.data # <<>> /\ taker.at # "receiving" THEN Ends
           ELSE source' = [source EXCEPT
                    !.counter = @ + 1,
                    !.channel = IF record.data = <<>> THEN @
                                ELSE Append(@, [ok |-> TRUE, data |-> record.data])]
    /\ UNCHANGED <<stored, taker, target>>

(***************************************************************************)
(* The other end of the channel.  An error cuts the HTTP answer, which     *)
(* then lacks its last chunk; the end of the stream completes it.  The     *)
(* client takes the answer for whole when it is complete and its hash is   *)
(* the ETag.  The export also compares the size.                           *)
(***************************************************************************)
TakeChunk ==
    /\ taker.at = "receiving" /\ taker.agent = "up"
    /\ source.channel # <<>> /\ Head(source.channel).ok
    /\ source' = [source EXCEPT !.channel = Tail(@)]
    /\ taker' = [taker EXCEPT !.got = @ \o Head(source.channel).data]
    /\ UNCHANGED <<stored, target>>

TakeError ==
    /\ taker.at = "receiving" /\ taker.agent = "up"
    /\ source.channel # <<>> /\ ~Head(source.channel).ok
    /\ source' = [source EXCEPT !.channel = Tail(@)]
    /\ taker' = [taker EXCEPT !.at = "broken"]
    /\ UNCHANGED <<stored, target>>

TakeEnd ==
    /\ taker.at = "receiving" /\ taker.agent = "up"
    /\ source.at = "ended" /\ source.channel = <<>>
    /\ taker' = [taker EXCEPT !.at = "complete"]
    /\ UNCHANGED <<stored, source, target>>

VerifyNothing == TRUE

VerifyEtag == taker.got = stored.sha256

AppendedWhole == Len(taker.got) = stored.size /\ taker.got = stored.sha256

Accepted ==
    /\ taker.at = "complete"
    /\ IF taker.kind = "export" THEN AppendedWhole
       ELSE VerifyEtag /\ (target.before = "nothing" \/ target.force)

Reject ==
    /\ target.result = "none" /\ target.temp # "whole"
    /\ taker.at # "receiving" /\ ~Accepted
    /\ target' = [target EXCEPT !.result = "error"]
    /\ UNCHANGED <<stored, source, taker>>

(***************************************************************************)
(* The file is written under another name beside its own and then renamed. *)
(* An export writes from the beginning; a command when it has all of it.   *)
(* Either may fail.  What was written is taken away after an error, but    *)
(* not by a command whose renaming failed.                                 *)
(***************************************************************************)
WriteTemp ==
    /\ target.result = "none" /\ target.temp # "whole" /\ Accepted
    /\ \E written \in {"whole", "part"} :
           target' = [target EXCEPT !.temp = written,
                          !.result = IF written = "part" THEN "error" ELSE @]
    /\ UNCHANGED <<stored, source, taker>>

RenameTemp ==
    /\ target.result = "none" /\ target.temp = "whole"
    /\ \/ target' = [target EXCEPT !.temp = "none", !.file = "written",
                          !.content = taker.got, !.result = "ok"]
       \/ target' = [target EXCEPT !.result = "error"]
    /\ UNCHANGED <<stored, source, taker>>

RemoveTemp ==
    /\ target.result = "error"
    /\ target.temp = "part" \/ (target.temp = "whole" /\ taker.kind = "export")
    /\ target' = [target EXCEPT !.temp = "none"]
    /\ UNCHANGED <<stored, source, taker>>

(***************************************************************************)
(* Deaths.  The agent's cuts the answer, and ends an export; the command's *)
(* leaves the agent to find out.                                           *)
(***************************************************************************)
AgentCrash ==
    /\ taker.agent = "up" /\ target.result = "none"
    /\ taker' = [taker EXCEPT !.agent = "down",
                    !.at = IF @ = "receiving" THEN "broken" ELSE @]
    /\ target' = IF taker.kind = "export" THEN [target EXCEPT !.result = "killed"] ELSE target
    /\ UNCHANGED <<stored, source>>

CommandKilled ==
    /\ taker.kind = "http" /\ target.result = "none"
    /\ taker' = [taker EXCEPT !.at = "broken"]
    /\ target' = [target EXCEPT !.result = "killed"]
    /\ UNCHANGED <<stored, source>>

NextDownload ==
    \/ OpenBlob \/ DecryptRecord
    \/ TakeChunk \/ TakeError \/ TakeEnd
    \/ Reject \/ WriteTemp \/ RemoveTemp \/ RenameTemp
    \/ AgentCrash \/ CommandKilled

DownloadSpec == InitDownload /\ [][NextDownload]_downloadVars

-----------------------------------------------------------------------------
(***************************************************************************)
(* The user's file is what it was, or it is the whole content of the file  *)
(* in the vault, whatever the disk has lost and whoever dies, and a command*)
(* that reports success has written it; an existing file is replaced only  *)
(* with --force; and a blob that is whole is read back whole, unless       *)
(* someone dies or the file may not be written (read.rs:47-64, 84-123,     *)
(* state.rs:5383-5651, export.rs:234-256).                                 *)
(***************************************************************************)
WholeOrNothing ==
    /\ target.file = "written" => target.content = stored.sha256
    /\ target.file = "written" /\ target.before = "other" => target.force
    /\ target.result = "ok" <=> target.file = "written"
    /\ taker.at = "broken" /\ taker.agent = "up" /\ target.result # "killed"
         => stored.blob # Records(stored.sha256) \/ stored.tail # "none"
=============================================================================
