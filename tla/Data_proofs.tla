------------------------------ MODULE Data_proofs -----------------------------
(***************************************************************************)
(* A download, the commands around the shell, the pool of database         *)
(* workers, the Vec of the scope cache, what is read of a process, and the *)
(* arguments of a command: what becomes of the data that passes through    *)
(* them, for every file, reference, caller, worker, capacity, process      *)
(* table and command line. Each part stands alone: the invariant of a      *)
(* component, in named conjuncts, a lemma for each of its actions, and the *)
(* theorem. The part on the Vec is a refinement: it does what the table of *)
(* scopes promises.                                                        *)
(***************************************************************************)
EXTENDS Download, Shell, Pool, AuthCacheVec, ProcessTable, Arguments,
        FiniteSetTheorems, SequenceTheorems, WellFoundedInduction, TLAPS

(***************************************************************************)
(* The stored file is as the upload left it.                               *)
(***************************************************************************)
Undamaged == stored.blob = Records(stored.sha256) /\ stored.tail = "none"

(***************************************************************************)
(* What the records of the file open to.                                   *)
(***************************************************************************)
GoodChunk == [ok : {TRUE}, data : {stored.blob[i].data : i \in DOMAIN stored.blob}]

(***************************************************************************)
(* The shape of the agent's end of the download.                           *)
(***************************************************************************)
IsSource == source = [at |-> source.at, counter |-> source.counter, channel |-> source.channel]

(***************************************************************************)
(* The shape of the end that takes the chunks.                             *)
(***************************************************************************)
IsTaker ==
    taker = [kind |-> taker.kind, got |-> taker.got, at |-> taker.at, agent |-> taker.agent]

(***************************************************************************)
(* The shape of the file asked for.                                        *)
(***************************************************************************)
IsTarget(t) ==
    t = [before |-> t.before, force |-> t.force, file |-> t.file, content |-> t.content,
         temp |-> t.temp, result |-> t.result]

(***************************************************************************)
(* The shapes, and an export writes where nothing was.                     *)
(***************************************************************************)
DownloadTypes ==
    /\ stored.sha256 \in Seq(Nat)
    /\ IsSource /\ IsTaker /\ IsTarget(target)
    /\ source.counter \in Nat
    /\ taker.kind = "export" => target.before = "nothing"

(***************************************************************************)
(* An undamaged file sends no error: its records open one after the other. *)
(***************************************************************************)
NoErrorSent == Undamaged => source.channel \in Seq(GoodChunk)

(***************************************************************************)
(* A taker that lives and was told an error read a damaged file.           *)
(***************************************************************************)
BrokenByDamage ==
    taker.at = "broken" /\ taker.agent = "up" /\ target.result # "killed" => ~Undamaged

(***************************************************************************)
(* A temporary file is whole only for the bytes whose digest was asked     *)
(* for.                                                                    *)
(***************************************************************************)
WholeTaken ==
    target.result = "none" /\ target.temp = "whole" =>
        /\ taker.at = "complete" /\ taker.got = stored.sha256
        /\ target.before = "other" => target.force

(***************************************************************************)
(* What was written is those bytes, and only then is the answer ok.        *)
(***************************************************************************)
WrittenWhole ==
    /\ target.file = "written" =>
           target.content = stored.sha256 /\ (target.before = "other" => target.force)
    /\ target.result = "ok" <=> target.file = "written"

(***************************************************************************)
(* The invariant of a download.                                            *)
(***************************************************************************)
DownloadInv ==
    DownloadTypes /\ NoErrorSent /\ BrokenByDamage /\ WholeTaken /\ WrittenWhole

(***************************************************************************)
(* The invariant is enough for what the runs check.                        *)
(***************************************************************************)
LEMMA DownloadMeans == DownloadInv => WholeOrNothing
BY DEF DownloadInv, BrokenByDamage, WrittenWhole, WholeOrNothing, Undamaged

(***************************************************************************)
(* The invariant holds at first.                                           *)
(***************************************************************************)
LEMMA DownloadInitially == InitDownload => DownloadInv
<1> SUFFICES ASSUME InitDownload PROVE DownloadInv
  OBVIOUS
<1>1. PICK content \in Contents :
          \E onDisk \in {[blob |-> Records(content), tail |-> "none"]}
                             \cup Damaged(Records(content)) :
              stored = [sha256 |-> content, size |-> Len(content),
                        blob |-> onDisk.blob, tail |-> onDisk.tail]
  BY DEF InitDownload
<1>2. stored.sha256 \in Seq(Nat)
  BY <1>1, ContentsAssumption
<1>3. /\ IsSource /\ source.counter = 0 /\ source.channel = <<>>
  BY DEF InitDownload, IsSource
<1>4. IsTaker /\ taker.at = "receiving"
  BY DEF InitDownload, IsTaker
<1>5. /\ IsTarget(target) /\ target.file = "before" /\ target.result = "none"
      /\ target.temp \in {"part", "none"}
      /\ taker.kind = "export" => target.before = "nothing"
  <2> DEFINE temps == IF taker.kind = "export" THEN {"part"} ELSE {"none"}
  <2>1. target \in [before: {"nothing", "other"}, force: BOOLEAN, file: {"before"},
                    content: {<<>>}, result: {"none"}, temp: temps]
    BY DEF InitDownload
  <2>2. temps \subseteq {"part", "none"}
    OBVIOUS
  <2> HIDE DEF temps
  <2>3. IsTarget(target)
    BY <2>1 DEF IsTarget
  <2>4. taker.kind = "export" => target.before = "nothing"
    BY DEF InitDownload
  <2> QED BY <2>1, <2>2, <2>3, <2>4
<1>6. <<>> \in Seq(GoodChunk)
  OBVIOUS
<1> QED BY <1>2, <1>3, <1>4, <1>5, <1>6 DEF DownloadInv, DownloadTypes, NoErrorSent,
           BrokenByDamage, WholeTaken, WrittenWhole

-----------------------------------------------------------------------------

(***************************************************************************)
(* The records of a file count up from zero.                               *)
(***************************************************************************)
LEMMA RecordsCount ==
    ASSUME NEW content \in Seq(Nat)
    PROVE  /\ Len(Records(content)) \in Nat
           /\ DOMAIN Records(content) = 1 .. Len(Records(content))
           /\ \A i \in 1 .. Len(Records(content)) : Records(content)[i].counter = i - 1
<1> DEFINE n == (Len(content) + RecordBytes - 1) \div RecordBytes
           m == IF n = 0 THEN 1 ELSE n
           blob == [i \in 1 .. m |-> [counter |-> i - 1, data |-> ChunkAt(content, i)]]
<1>1. Len(content) \in Nat /\ RecordBytes \in Nat \ {0}
  BY RecordAssumption
<1>2. n \in Nat
  <2>1. Len(content) + RecordBytes - 1 \in Nat
    BY <1>1
  <2> QED BY <1>1, <2>1
<1>3. m \in Nat
  BY <1>2
<1>4. Records(content) = blob
  BY DEF Records
<1> HIDE DEF n, m
<1>5. Len(blob) = m /\ DOMAIN blob = 1 .. m
  BY <1>3
<1>6. \A i \in 1 .. m : blob[i].counter = i - 1
  OBVIOUS
<1> QED BY <1>3, <1>4, <1>5, <1>6

(***************************************************************************)
(* A step of the agent's that sends no error to an undamaged file's        *)
(* reader.                                                                 *)
(***************************************************************************)
LEMMA SourceMoves ==
    ASSUME DownloadInv, UNCHANGED <<stored, taker, target>>,
           source' = [at |-> source'.at, counter |-> source'.counter,
                      channel |-> source'.channel],
           source'.counter \in Nat, Undamaged => source'.channel \in Seq(GoodChunk)
    PROVE  DownloadInv'
<1>1. Undamaged' <=> Undamaged
  BY DEF Undamaged
<1>2. GoodChunk' = GoodChunk
  BY DEF GoodChunk
<1>3. NoErrorSent'
  BY <1>1, <1>2 DEF NoErrorSent
<1>4. DownloadTypes'
  BY DEF DownloadInv, DownloadTypes, IsSource, IsTaker, IsTarget
<1>5. BrokenByDamage' /\ WholeTaken' /\ WrittenWhole'
  BY <1>1 DEF DownloadInv, BrokenByDamage, WholeTaken, WrittenWhole
<1> QED BY <1>3, <1>4, <1>5 DEF DownloadInv

(***************************************************************************)
(* What updates of the agent's end are.                                    *)
(***************************************************************************)
LEMMA SourceChanges ==
    ASSUME IsSource, NEW x, NEW y
    PROVE  /\ [source EXCEPT !.at = x] =
                  [at |-> x, counter |-> source.counter, channel |-> source.channel]
           /\ [source EXCEPT !.at = x, !.channel = y] =
                  [at |-> x, counter |-> source.counter, channel |-> y]
           /\ [source EXCEPT !.counter = x, !.channel = y] =
                  [at |-> source.at, counter |-> x, channel |-> y]
           /\ [source EXCEPT !.channel = x] =
                  [at |-> source.at, counter |-> source.counter, channel |-> x]
<1>1. source = [at |-> source.at, counter |-> source.counter, channel |-> source.channel]
  BY DEF IsSource
<1> DEFINE ended == [source EXCEPT !.at = x]
           counted == [source EXCEPT !.counter = x]
<1>2. ended = [at |-> x, counter |-> source.counter, channel |-> source.channel]
  BY <1>1
<1>3. counted = [at |-> source.at, counter |-> x, channel |-> source.channel]
  BY <1>1
<1>4. [source EXCEPT !.at = x, !.channel = y] = [ended EXCEPT !.channel = y]
  OBVIOUS
<1>5. [source EXCEPT !.counter = x, !.channel = y] = [counted EXCEPT !.channel = y]
  OBVIOUS
<1>6. [source EXCEPT !.channel = x] =
          [at |-> source.at, counter |-> source.counter, channel |-> x]
  BY <1>1
<1> HIDE DEF ended, counted
<1>7. [ended EXCEPT !.channel = y] =
          [at |-> x, counter |-> source.counter, channel |-> y]
  BY <1>2
<1>8. [counted EXCEPT !.channel = y] =
          [at |-> source.at, counter |-> x, channel |-> y]
  BY <1>3
<1>9. [source EXCEPT !.at = x] =
          [at |-> x, counter |-> source.counter, channel |-> source.channel]
  BY <1>2 DEF ended
<1> QED BY <1>4, <1>5, <1>6, <1>7, <1>8, <1>9

(***************************************************************************)
(* The agent opens the file, or finds it missing or short.                 *)
(***************************************************************************)
LEMMA OpenBlobSound ==
    ASSUME DownloadInv, OpenBlob
    PROVE  DownloadInv'
<1>1. IsSource /\ source.counter \in Nat /\ (Undamaged => source.channel \in Seq(GoodChunk))
  BY DEF DownloadInv, DownloadTypes, NoErrorSent
<1>2. CASE stored.tail = "gone"
  <2> DEFINE channel == Append(source.channel, [ok |-> FALSE, data |-> <<>>])
  <2>1. source' = [source EXCEPT !.at = "ended", !.channel = channel]
    BY <1>2 DEF OpenBlob, Fails
  <2>2. source' = [at |-> "ended", counter |-> source.counter, channel |-> channel]
    BY ZenonT(90), <1>1, <2>1, SourceChanges
  <2>3. ~Undamaged
    BY <1>2 DEF Undamaged
  <2> HIDE DEF channel
  <2> QED BY <1>1, <2>2, <2>3, SourceMoves DEF OpenBlob
<1>3. CASE stored.tail # "gone"
  <2>1. source' = [source EXCEPT !.at = "reading"]
    BY <1>3 DEF OpenBlob
  <2>2. source' = [at |-> "reading", counter |-> source.counter, channel |-> source.channel]
    BY <1>1, <2>1, SourceChanges
  <2> QED BY <1>1, <2>2, SourceMoves DEF OpenBlob
<1> QED BY <1>2, <1>3

(***************************************************************************)
(* A record is opened at the counter the agent holds: only a damaged file  *)
(* fails there.                                                            *)
(***************************************************************************)
LEMMA DecryptRecordSound ==
    ASSUME DownloadInv, DecryptRecord
    PROVE  DownloadInv'
<1>1. /\ IsSource /\ source.counter \in Nat /\ stored.sha256 \in Seq(Nat)
      /\ Undamaged => source.channel \in Seq(GoodChunk)
      /\ UNCHANGED <<stored, taker, target>>
  BY DEF DownloadInv, DownloadTypes, NoErrorSent, DecryptRecord
<1> DEFINE record == stored.blob[source.counter + 1]
<1>2. CASE Fails /\ ~Undamaged
  <2> DEFINE channel == Append(source.channel, [ok |-> FALSE, data |-> <<>>])
  <2>1. source' = [source EXCEPT !.at = "ended", !.channel = channel]
    BY <1>2 DEF Fails
  <2>2. source' = [at |-> "ended", counter |-> source.counter, channel |-> channel]
    BY ZenonT(90), <1>1, <2>1, SourceChanges
  <2> HIDE DEF channel
  <2> QED BY <1>1, <1>2, <2>2, SourceMoves
<1>3. CASE Ends
  <2>1. source' = [source EXCEPT !.at = "ended"]
    BY <1>3 DEF Ends
  <2>2. source' = [at |-> "ended", counter |-> source.counter, channel |-> source.channel]
    BY <1>1, <2>1, SourceChanges
  <2> QED BY <1>1, <2>2, SourceMoves
<1>4. CASE /\ ~(source.counter >= Len(stored.blob))
           /\ source' = [source EXCEPT
                    !.counter = @ + 1,
                    !.channel = IF record.data = <<>> THEN @
                                ELSE Append(@, [ok |-> TRUE, data |-> record.data])]
  <2> DEFINE chunk == [ok |-> TRUE, data |-> record.data]
             channel == IF record.data = <<>> THEN source.channel ELSE Append(source.channel, chunk)
             counter == source.counter + 1
  <2>1. source' = [source EXCEPT !.counter = counter, !.channel = channel]
    BY <1>4
  <2>2. ASSUME Undamaged PROVE channel \in Seq(GoodChunk)
    <3>1. stored.blob = Records(stored.sha256)
      BY <2>2 DEF Undamaged
    <3>2. /\ Len(stored.blob) \in Nat
          /\ DOMAIN stored.blob = 1 .. Len(stored.blob)
      BY <1>1, <3>1, RecordsCount
    <3>3. source.counter + 1 \in DOMAIN stored.blob
      BY <1>1, <1>4, <3>2
    <3>4. chunk \in GoodChunk
      BY <3>3 DEF GoodChunk
    <3>5. source.channel \in Seq(GoodChunk)
      BY <1>1, <2>2
    <3> HIDE DEF chunk
    <3>6. Append(source.channel, chunk) \in Seq(GoodChunk)
      BY <3>4, <3>5
    <3> QED BY <3>5, <3>6
  <2>3. counter \in Nat
    BY <1>1
  <2> HIDE DEF channel, counter
  <2>4. source' = [at |-> source.at, counter |-> counter, channel |-> channel]
    BY ZenonT(90), <1>1, <2>1, SourceChanges
  <2> QED BY <1>1, <2>2, <2>3, <2>4, SourceMoves
<1>5. ASSUME Undamaged, ~(source.counter >= Len(stored.blob)) PROVE record.counter = source.counter
  <2>1. stored.blob = Records(stored.sha256)
    BY <1>5 DEF Undamaged
  <2>2. /\ Len(stored.blob) \in Nat
        /\ \A i \in 1 .. Len(stored.blob) : stored.blob[i].counter = i - 1
    BY <1>1, <2>1, RecordsCount
  <2>3. source.counter + 1 \in 1 .. Len(stored.blob)
    BY <1>1, <1>5, <2>2
  <2>4. record.counter = (source.counter + 1) - 1
    BY <2>2, <2>3
  <2> QED BY <1>1, <2>4
<1>6. CASE source.counter >= Len(stored.blob)
  <2>1. IF stored.tail = "record" THEN Fails ELSE Ends
    BY <1>6 DEF DecryptRecord
  <2> QED BY <1>2, <1>3, <2>1 DEF Undamaged
<1>7. CASE ~(source.counter >= Len(stored.blob))
  <2>1. \/ record.counter # source.counter /\ Fails
        \/ Ends
        \/ source' = [source EXCEPT
                    !.counter = @ + 1,
                    !.channel = IF record.data = <<>> THEN @
                                ELSE Append(@, [ok |-> TRUE, data |-> record.data])]
    BY <1>7 DEF DecryptRecord
  <2> QED BY <1>2, <1>3, <1>4, <1>5, <1>7, <2>1
<1> QED BY <1>6, <1>7

-----------------------------------------------------------------------------

(***************************************************************************)
(* Taking the first chunk leaves the rest good.                            *)
(***************************************************************************)
LEMMA ChunksTaken ==
    ASSUME DownloadInv, source.channel # <<>>,
           source' = [source EXCEPT !.channel = Tail(@)], stored' = stored
    PROVE  /\ IsSource' /\ source'.counter \in Nat
           /\ NoErrorSent'
           /\ Undamaged' <=> Undamaged
           /\ Undamaged => Head(source.channel).ok
<1> DEFINE channel == Tail(source.channel)
<1>1. /\ IsSource /\ source.counter \in Nat
      /\ Undamaged => source.channel \in Seq(GoodChunk)
  BY DEF DownloadInv, DownloadTypes, NoErrorSent
<1>2. source' = [source EXCEPT !.channel = channel]
  OBVIOUS
<1>3. ASSUME Undamaged PROVE channel \in Seq(GoodChunk) /\ Head(source.channel) \in GoodChunk
  <2>1. source.channel \in Seq(GoodChunk) /\ source.channel # <<>>
    BY <1>1, <1>3
  <2> QED BY <2>1
<1>4. ASSUME Undamaged PROVE Head(source.channel).ok
  <2>1. Head(source.channel) \in GoodChunk
    BY <1>3, <1>4
  <2> QED BY <2>1 DEF GoodChunk
<1>5. (Undamaged' <=> Undamaged) /\ GoodChunk' = GoodChunk
  BY DEF Undamaged, GoodChunk
<1> HIDE DEF channel
<1>6. source' = [at |-> source.at, counter |-> source.counter, channel |-> channel]
  BY <1>1, <1>2, SourceChanges
<1>7. source'.at = source.at /\ source'.counter = source.counter /\ source'.channel = channel
  BY <1>6
<1>8. IsSource'
  BY <1>6, <1>7 DEF IsSource
<1>9. NoErrorSent'
  BY <1>3, <1>5, <1>7 DEF NoErrorSent
<1> QED BY <1>1, <1>4, <1>5, <1>7, <1>8, <1>9

(***************************************************************************)
(* What updates of the taker are.                                          *)
(***************************************************************************)
LEMMA TakerChanges ==
    ASSUME IsTaker, NEW x, NEW y
    PROVE  /\ [taker EXCEPT !.at = x] =
                  [kind |-> taker.kind, got |-> taker.got, at |-> x, agent |-> taker.agent]
           /\ [taker EXCEPT !.got = x] =
                  [kind |-> taker.kind, got |-> x, at |-> taker.at, agent |-> taker.agent]
           /\ [taker EXCEPT !.agent = x, !.at = y] =
                  [kind |-> taker.kind, got |-> taker.got, at |-> y, agent |-> x]
<1>1. taker = [kind |-> taker.kind, got |-> taker.got, at |-> taker.at, agent |-> taker.agent]
  BY DEF IsTaker
<1> DEFINE down == [taker EXCEPT !.agent = x]
<1>2. down = [kind |-> taker.kind, got |-> taker.got, at |-> taker.at, agent |-> x]
  BY <1>1
<1>3. [taker EXCEPT !.agent = x, !.at = y] = [down EXCEPT !.at = y]
  OBVIOUS
<1>4. [taker EXCEPT !.at = x] =
          [kind |-> taker.kind, got |-> taker.got, at |-> x, agent |-> taker.agent]
  BY <1>1
<1>5. [taker EXCEPT !.got = x] =
          [kind |-> taker.kind, got |-> x, at |-> taker.at, agent |-> taker.agent]
  BY <1>1
<1> HIDE DEF down
<1>6. [down EXCEPT !.at = y] =
          [kind |-> taker.kind, got |-> taker.got, at |-> y, agent |-> x]
  BY <1>2
<1> QED BY <1>3, <1>4, <1>5, <1>6

(***************************************************************************)
(* What updates of the file asked for are.                                 *)
(***************************************************************************)
LEMMA TargetChanges ==
    ASSUME NEW t, IsTarget(t), NEW x
    PROVE  /\ [t EXCEPT !.temp = x] =
                  [before |-> t.before, force |-> t.force, file |-> t.file,
                   content |-> t.content, temp |-> x, result |-> t.result]
           /\ [t EXCEPT !.result = x] =
                  [before |-> t.before, force |-> t.force, file |-> t.file,
                   content |-> t.content, temp |-> t.temp, result |-> x]
           /\ [t EXCEPT !.file = x] =
                  [before |-> t.before, force |-> t.force, file |-> x,
                   content |-> t.content, temp |-> t.temp, result |-> t.result]
           /\ [t EXCEPT !.content = x] =
                  [before |-> t.before, force |-> t.force, file |-> t.file,
                   content |-> x, temp |-> t.temp, result |-> t.result]
<1>1. t = [before |-> t.before, force |-> t.force, file |-> t.file, content |-> t.content,
           temp |-> t.temp, result |-> t.result]
  BY DEF IsTarget
<1>2. [t EXCEPT !.temp = x] = [before |-> t.before, force |-> t.force, file |-> t.file,
                   content |-> t.content, temp |-> x, result |-> t.result]
  BY <1>1
<1>3. [t EXCEPT !.result = x] = [before |-> t.before, force |-> t.force, file |-> t.file,
                   content |-> t.content, temp |-> t.temp, result |-> x]
  BY <1>1
<1>4. [t EXCEPT !.file = x] = [before |-> t.before, force |-> t.force, file |-> x,
                   content |-> t.content, temp |-> t.temp, result |-> t.result]
  BY <1>1
<1>5. [t EXCEPT !.content = x] = [before |-> t.before, force |-> t.force, file |-> t.file,
                   content |-> x, temp |-> t.temp, result |-> t.result]
  BY <1>1
<1> QED BY <1>2, <1>3, <1>4, <1>5

-----------------------------------------------------------------------------

(***************************************************************************)
(* A step of the taker's that does not disturb a whole temporary file.     *)
(***************************************************************************)
LEMMA TakerMoves ==
    ASSUME DownloadInv, stored' = stored, UNCHANGED target,
           IsSource', source'.counter \in Nat, NoErrorSent',
           IsTaker', taker'.kind = taker.kind, BrokenByDamage',
           target.result = "none" /\ target.temp = "whole" =>
               taker'.at = taker.at /\ taker'.got = taker.got
    PROVE  DownloadInv'
<1>1. DownloadTypes'
  BY DEF DownloadInv, DownloadTypes, IsTarget
<1>2. WholeTaken'
  BY DEF DownloadInv, WholeTaken
<1>3. WrittenWhole'
  BY DEF DownloadInv, WrittenWhole
<1> QED BY <1>1, <1>2, <1>3 DEF DownloadInv

(***************************************************************************)
(* The taker appends a chunk.                                              *)
(***************************************************************************)
LEMMA TakeChunkSound ==
    ASSUME DownloadInv, TakeChunk
    PROVE  DownloadInv'
<1> DEFINE got == taker.got \o Head(source.channel).data
<1>1. taker' = [taker EXCEPT !.got = got]
  BY DEF TakeChunk
<1>2. IsTaker /\ taker.at = "receiving"
  BY DEF DownloadInv, DownloadTypes, TakeChunk
<1> HIDE DEF got
<1>3. taker' = [kind |-> taker.kind, got |-> got, at |-> taker.at, agent |-> taker.agent]
  BY <1>1, <1>2, TakerChanges
<1>4. IsTaker' /\ taker'.kind = taker.kind /\ taker'.at = "receiving"
  BY <1>2, <1>3 DEF IsTaker
<1>5. IsSource' /\ source'.counter \in Nat /\ NoErrorSent'
  BY ChunksTaken DEF TakeChunk
<1>6. ~(target.result = "none" /\ target.temp = "whole")
  BY <1>2 DEF DownloadInv, WholeTaken
<1>7. BrokenByDamage'
  BY <1>4 DEF BrokenByDamage
<1> QED BY <1>4, <1>5, <1>6, <1>7, TakerMoves DEF TakeChunk

(***************************************************************************)
(* The taker is told an error.                                             *)
(***************************************************************************)
LEMMA TakeErrorSound ==
    ASSUME DownloadInv, TakeError
    PROVE  DownloadInv'
<1>1. IsTaker /\ taker.at = "receiving" /\ taker' = [taker EXCEPT !.at = "broken"]
  BY DEF DownloadInv, DownloadTypes, TakeError
<1>2. taker' = [kind |-> taker.kind, got |-> taker.got, at |-> "broken", agent |-> taker.agent]
  BY <1>1, TakerChanges
<1>3. IsTaker' /\ taker'.kind = taker.kind
  BY <1>2 DEF IsTaker
<1>4. /\ IsSource' /\ source'.counter \in Nat /\ NoErrorSent'
      /\ Undamaged' <=> Undamaged
      /\ Undamaged => Head(source.channel).ok
  BY ChunksTaken DEF TakeError
<1>5. ~Undamaged'
  BY <1>4 DEF TakeError
<1>6. ~(target.result = "none" /\ target.temp = "whole")
  BY <1>1 DEF DownloadInv, WholeTaken
<1>7. BrokenByDamage'
  BY <1>5 DEF BrokenByDamage
<1> QED BY <1>3, <1>4, <1>6, <1>7, TakerMoves DEF TakeError

(***************************************************************************)
(* What a step that leaves the agent's end alone keeps.                    *)
(***************************************************************************)
LEMMA SourceStays ==
    ASSUME DownloadInv, UNCHANGED <<stored, source>>
    PROVE  IsSource' /\ source'.counter \in Nat /\ NoErrorSent' /\ (Undamaged' <=> Undamaged)
<1>1. (Undamaged' <=> Undamaged) /\ GoodChunk' = GoodChunk
  BY DEF Undamaged, GoodChunk
<1> QED BY <1>1 DEF DownloadInv, DownloadTypes, NoErrorSent, IsSource

(***************************************************************************)
(* The channel is at its end and the taker has all of it.                  *)
(***************************************************************************)
LEMMA TakeEndSound ==
    ASSUME DownloadInv, TakeEnd
    PROVE  DownloadInv'
<1>1. IsTaker /\ taker.at = "receiving" /\ taker' = [taker EXCEPT !.at = "complete"]
  BY DEF DownloadInv, DownloadTypes, TakeEnd
<1>2. taker' = [kind |-> taker.kind, got |-> taker.got, at |-> "complete",
                agent |-> taker.agent]
  BY <1>1, TakerChanges
<1>3. IsTaker' /\ taker'.kind = taker.kind /\ taker'.at = "complete"
  BY <1>2 DEF IsTaker
<1>4. IsSource' /\ source'.counter \in Nat /\ NoErrorSent'
  BY SourceStays DEF TakeEnd
<1>5. ~(target.result = "none" /\ target.temp = "whole")
  BY <1>1 DEF DownloadInv, WholeTaken
<1>6. BrokenByDamage'
  BY <1>3 DEF BrokenByDamage
<1> QED BY <1>3, <1>4, <1>5, <1>6, TakerMoves DEF TakeEnd

-----------------------------------------------------------------------------

(***************************************************************************)
(* A step of the command's on the file asked for.                          *)
(***************************************************************************)
LEMMA TargetMoves ==
    ASSUME DownloadInv, UNCHANGED <<stored, source, taker>>,
           IsTarget(target'), target'.before = target.before,
           target.result = "killed" => target'.result = "killed",
           WholeTaken', WrittenWhole'
    PROVE  DownloadInv'
<1>1. IsSource' /\ source'.counter \in Nat /\ NoErrorSent' /\ (Undamaged' <=> Undamaged)
  BY SourceStays
<1>2. IsTarget(target)' /\ IsTaker'
  BY DEF DownloadInv, DownloadTypes, IsTaker, IsTarget
<1>3. DownloadTypes'
  BY <1>1, <1>2 DEF DownloadInv, DownloadTypes
<1>4. BrokenByDamage'
  BY <1>1 DEF DownloadInv, BrokenByDamage
<1> QED BY <1>1, <1>3, <1>4 DEF DownloadInv

(***************************************************************************)
(* The taker refuses what it got.                                          *)
(***************************************************************************)
LEMMA RejectSound ==
    ASSUME DownloadInv, Reject
    PROVE  DownloadInv'
<1>1. /\ IsTarget(target) /\ target.result = "none"
      /\ target' = [target EXCEPT !.result = "error"]
  BY DEF DownloadInv, DownloadTypes, Reject
<1>2. target' = [before |-> target.before, force |-> target.force, file |-> target.file,
                 content |-> target.content, temp |-> target.temp, result |-> "error"]
  BY <1>1, TargetChanges
<1>3. IsTarget(target') /\ target'.before = target.before /\ target'.result = "error"
  BY <1>2 DEF IsTarget
<1>4. WholeTaken' /\ WrittenWhole'
  BY <1>1, <1>2 DEF DownloadInv, WrittenWhole, WholeTaken
<1> QED BY <1>1, <1>3, <1>4, TargetMoves DEF Reject

(***************************************************************************)
(* The temporary file is written with the bytes whose digest was right.    *)
(***************************************************************************)
LEMMA WriteTempSound ==
    ASSUME DownloadInv, WriteTemp
    PROVE  DownloadInv'
<1>1. /\ IsTarget(target) /\ target.result = "none" /\ target.file # "written"
      /\ taker.at = "complete" /\ taker.got = stored.sha256
      /\ target.before = "other" => target.force
  BY DEF DownloadInv, DownloadTypes, WrittenWhole, WriteTemp, Accepted, AppendedWhole, VerifyEtag
<1>2. PICK written \in {"whole", "part"} :
          target' = [target EXCEPT !.temp = written,
                         !.result = IF written = "part" THEN "error" ELSE @]
  BY DEF WriteTemp
<1> DEFINE temp == [target EXCEPT !.temp = written]
           result == IF written = "part" THEN "error" ELSE target.result
<1>3. target' = [temp EXCEPT !.result = result]
  BY <1>2
<1>4. temp = [before |-> target.before, force |-> target.force, file |-> target.file,
              content |-> target.content, temp |-> written, result |-> target.result]
  BY <1>1, TargetChanges
<1>5. result \in {"none", "error"}
  BY <1>1
<1> HIDE DEF temp, result
<1>6. IsTarget(temp)
  BY <1>4 DEF IsTarget
<1>7. target' = [before |-> target.before, force |-> target.force, file |-> target.file,
                 content |-> target.content, temp |-> written, result |-> result]
  BY <1>3, <1>4, <1>6, TargetChanges
<1>8. IsTarget(target') /\ target'.before = target.before
  BY <1>7 DEF IsTarget
<1>9. WholeTaken'
  BY <1>1, <1>7 DEF WriteTemp, WholeTaken
<1>10. WrittenWhole'
  BY <1>1, <1>5, <1>7 DEF WrittenWhole
<1> QED BY <1>1, <1>8, <1>9, <1>10, TargetMoves DEF WriteTemp

(***************************************************************************)
(* The temporary file takes the place of the file asked for.               *)
(***************************************************************************)
LEMMA RenameTempSound ==
    ASSUME DownloadInv, RenameTemp
    PROVE  DownloadInv'
<1>1. /\ IsTarget(target) /\ target.result = "none" /\ target.file # "written"
      /\ taker.got = stored.sha256
      /\ target.before = "other" => target.force
      /\ UNCHANGED <<stored, source, taker>>
  BY DEF DownloadInv, DownloadTypes, WrittenWhole, WholeTaken, RenameTemp
<1>2. CASE target' = [target EXCEPT !.result = "error"]
  <2>1. target' = [before |-> target.before, force |-> target.force, file |-> target.file,
                   content |-> target.content, temp |-> target.temp, result |-> "error"]
    BY <1>1, <1>2, TargetChanges
  <2>2. IsTarget(target') /\ target'.before = target.before /\ target'.result = "error"
    BY <2>1 DEF IsTarget
  <2>3. WholeTaken' /\ WrittenWhole'
    BY <1>1, <2>1 DEF WrittenWhole, WholeTaken
  <2> QED BY <1>1, <2>2, <2>3, TargetMoves
<1>3. CASE target' = [target EXCEPT !.temp = "none", !.file = "written",
                          !.content = taker.got, !.result = "ok"]
  <2> DEFINE gone == [target EXCEPT !.temp = "none"]
             named == [gone EXCEPT !.file = "written"]
             filled == [named EXCEPT !.content = taker.got]
  <2>1. target' = [filled EXCEPT !.result = "ok"]
    BY <1>3
  <2>2. gone = [before |-> target.before, force |-> target.force, file |-> target.file,
                content |-> target.content, temp |-> "none", result |-> target.result]
    BY <1>1, TargetChanges
  <2> HIDE DEF gone
  <2>3. IsTarget(gone)
    BY <2>2 DEF IsTarget
  <2>4. named = [before |-> target.before, force |-> target.force, file |-> "written",
                 content |-> target.content, temp |-> "none", result |-> target.result]
    <3>1. named = [before |-> gone.before, force |-> gone.force, file |-> "written",
                   content |-> gone.content, temp |-> gone.temp, result |-> gone.result]
      BY <2>3, TargetChanges
    <3> QED BY <2>2, <3>1
  <2> HIDE DEF named
  <2>5. IsTarget(named)
    BY <2>4 DEF IsTarget
  <2>6. filled = [before |-> target.before, force |-> target.force, file |-> "written",
                  content |-> taker.got, temp |-> "none", result |-> target.result]
    <3>1. filled = [before |-> named.before, force |-> named.force, file |-> named.file,
                    content |-> taker.got, temp |-> named.temp, result |-> named.result]
      BY <2>5, TargetChanges
    <3> QED BY <2>4, <3>1
  <2> HIDE DEF filled
  <2>7. IsTarget(filled)
    BY <2>6 DEF IsTarget
  <2>8. target' = [before |-> target.before, force |-> target.force, file |-> "written",
                   content |-> taker.got, temp |-> "none", result |-> "ok"]
    BY <2>1, <2>6, <2>7, TargetChanges
  <2>9. IsTarget(target') /\ target'.before = target.before
    BY <2>8 DEF IsTarget
  <2>10. WholeTaken'
    BY <2>8 DEF WholeTaken
  <2>11. WrittenWhole'
    BY <1>1, <2>8 DEF WrittenWhole
  <2> QED BY <1>1, <2>9, <2>10, <2>11, TargetMoves
<1> QED BY <1>2, <1>3 DEF RenameTemp

(***************************************************************************)
(* The temporary file is removed after a failure.                          *)
(***************************************************************************)
LEMMA RemoveTempSound ==
    ASSUME DownloadInv, RemoveTemp
    PROVE  DownloadInv'
<1>1. /\ IsTarget(target) /\ target.result = "error"
      /\ target' = [target EXCEPT !.temp = "none"]
  BY DEF DownloadInv, DownloadTypes, RemoveTemp
<1>2. target' = [before |-> target.before, force |-> target.force, file |-> target.file,
                 content |-> target.content, temp |-> "none", result |-> target.result]
  BY <1>1, TargetChanges
<1>3. IsTarget(target') /\ target'.before = target.before
  BY <1>2 DEF IsTarget
<1>4. WholeTaken' /\ WrittenWhole'
  BY <1>2 DEF DownloadInv, WrittenWhole, WholeTaken, RemoveTemp
<1> QED BY <1>1, <1>2, <1>3, <1>4, TargetMoves DEF RemoveTemp

-----------------------------------------------------------------------------

(***************************************************************************)
(* A death leaves a temporary file as it was.                              *)
(***************************************************************************)
LEMMA DeathsMove ==
    ASSUME DownloadInv, target.result = "none", UNCHANGED <<stored, source>>,
           IsTaker', taker'.kind = taker.kind,
           BrokenByDamage',
           \/ target' = [target EXCEPT !.result = "killed"]
           \/ /\ target' = target
              /\ target.temp = "whole" => taker'.at = taker.at /\ taker'.got = taker.got
    PROVE  DownloadInv'
<1>1. IsSource' /\ source'.counter \in Nat /\ NoErrorSent'
  BY SourceStays
<1>2. IsTarget(target)
  BY DEF DownloadInv, DownloadTypes
<1>3. CASE target' = [target EXCEPT !.result = "killed"]
  <2>1. target' = [before |-> target.before, force |-> target.force, file |-> target.file,
                   content |-> target.content, temp |-> target.temp, result |-> "killed"]
    BY <1>2, <1>3, TargetChanges
  <2>2. IsTarget(target)' /\ target'.before = target.before
    BY <2>1 DEF IsTarget
  <2>3. DownloadTypes'
    BY <1>1, <2>2 DEF DownloadInv, DownloadTypes
  <2>4. WholeTaken' /\ WrittenWhole'
    BY <2>1 DEF DownloadInv, WholeTaken, WrittenWhole
  <2> QED BY <1>1, <2>3, <2>4 DEF DownloadInv
<1>4. CASE /\ target' = target
           /\ target.temp = "whole" => taker'.at = taker.at /\ taker'.got = taker.got
  BY <1>1, <1>4, TakerMoves
<1> QED BY <1>3, <1>4

(***************************************************************************)
(* The agent dies.                                                         *)
(***************************************************************************)
LEMMA AgentCrashSound ==
    ASSUME DownloadInv, AgentCrash
    PROVE  DownloadInv'
<1> DEFINE at == IF taker.at = "receiving" THEN "broken" ELSE taker.at
<1>1. taker' = [taker EXCEPT !.agent = "down", !.at = at]
  BY DEF AgentCrash
<1>2. IsTaker /\ target.result = "none"
  BY DEF DownloadInv, DownloadTypes, AgentCrash
<1>3. target.temp = "whole" => at = taker.at
  BY <1>2 DEF DownloadInv, WholeTaken
<1> HIDE DEF at
<1>4. taker' = [kind |-> taker.kind, got |-> taker.got, at |-> at, agent |-> "down"]
  BY <1>1, <1>2, TakerChanges
<1>5. IsTaker' /\ taker'.kind = taker.kind
  BY <1>4 DEF IsTaker
<1>6. BrokenByDamage'
  BY <1>4 DEF BrokenByDamage
<1>7. \/ target' = [target EXCEPT !.result = "killed"]
      \/ target' = target
  BY DEF AgentCrash
<1>8. taker'.got = taker.got /\ taker'.at = at
  BY <1>4
<1> QED BY <1>2, <1>3, <1>5, <1>6, <1>7, <1>8, DeathsMove DEF AgentCrash

(***************************************************************************)
(* The command is killed.                                                  *)
(***************************************************************************)
LEMMA CommandKilledSound ==
    ASSUME DownloadInv, CommandKilled
    PROVE  DownloadInv'
<1>1. /\ IsTaker /\ IsTarget(target) /\ target.result = "none"
      /\ taker' = [taker EXCEPT !.at = "broken"]
      /\ target' = [target EXCEPT !.result = "killed"]
  BY DEF DownloadInv, DownloadTypes, CommandKilled
<1>2. taker' = [kind |-> taker.kind, got |-> taker.got, at |-> "broken", agent |-> taker.agent]
  BY <1>1, TakerChanges
<1>3. IsTaker' /\ taker'.kind = taker.kind
  BY <1>2 DEF IsTaker
<1>4. target'.result = "killed"
  BY <1>1, TargetChanges
<1>5. BrokenByDamage'
  BY <1>4 DEF BrokenByDamage
<1> QED BY <1>1, <1>3, <1>5, DeathsMove DEF CommandKilled

(***************************************************************************)
(* Every step keeps the invariant.                                         *)
(***************************************************************************)
LEMMA DownloadSteps == DownloadInv /\ [NextDownload]_downloadVars => DownloadInv'
<1> SUFFICES ASSUME DownloadInv, [NextDownload]_downloadVars PROVE DownloadInv'
  OBVIOUS
<1>1. CASE OpenBlob
  BY <1>1, OpenBlobSound
<1>2. CASE DecryptRecord
  BY <1>2, DecryptRecordSound
<1>3. CASE TakeChunk
  BY <1>3, TakeChunkSound
<1>4. CASE TakeError
  BY <1>4, TakeErrorSound
<1>5. CASE TakeEnd
  BY <1>5, TakeEndSound
<1>6. CASE Reject
  BY <1>6, RejectSound
<1>7. CASE WriteTemp
  BY <1>7, WriteTempSound
<1>8. CASE RenameTemp
  BY <1>8, RenameTempSound
<1>9. CASE RemoveTemp
  BY <1>9, RemoveTempSound
<1>10. CASE AgentCrash
  BY <1>10, AgentCrashSound
<1>11. CASE CommandKilled
  BY <1>11, CommandKilledSound
<1>12. CASE UNCHANGED downloadVars
  <2>1. IsSource' /\ source'.counter \in Nat /\ NoErrorSent' /\ (Undamaged' <=> Undamaged)
    BY <1>12, SourceStays DEF downloadVars
  <2>2. IsTaker' /\ taker' = taker /\ target' = target /\ UNCHANGED <<stored, source, taker>>
    BY <1>12 DEF downloadVars, DownloadInv, DownloadTypes, IsTaker
  <2>3. BrokenByDamage'
    BY <2>1, <2>2 DEF DownloadInv, BrokenByDamage
  <2> QED BY <2>1, <2>2, <2>3, TakerMoves
<1> QED BY <1>1, <1>2, <1>3, <1>4, <1>5, <1>6, <1>7, <1>8, <1>9, <1>10, <1>11, <1>12
        DEF NextDownload

(***************************************************************************)
(* A download gives the whole file or none of it, and never in place of a  *)
(* file that was not to be overwritten, whatever happened to the records   *)
(* on the disk and whoever dies (crypto/mod.rs, commands/item.rs).         *)
(***************************************************************************)
THEOREM DownloadStaysWhole == DownloadSpec => []WholeOrNothing
<1>1. DownloadSpec => []DownloadInv
  BY DownloadInitially, DownloadSteps, PTL DEF DownloadSpec
<1> QED BY <1>1, DownloadMeans, PTL

-----------------------------------------------------------------------------

(***************************************************************************)
(* The shape of a command with secrets in its environment.                 *)
(***************************************************************************)
IsVars(k) ==
    k = [at |-> k.at, left |-> k.left, key |-> k.key,
         kind |-> k.kind, given |-> k.given, files |-> k.files]

(***************************************************************************)
(* The shape of a share of files.                                          *)
(***************************************************************************)
IsSharing(k) ==
    k = [at |-> k.at, paths |-> k.paths, done |-> k.done,
         job |-> k.job, output |-> k.output, existing |-> k.existing]

(***************************************************************************)
(* A copied secret that was answered ok is off the clipboard.              *)
(***************************************************************************)
ClipInv ==
    /\ clip = [at |-> clip.at, message |-> clip.message]
    /\ clip.at = "ok" => clipboard # "secret"

(***************************************************************************)
(* Every path that was given to the child has its file.                    *)
(***************************************************************************)
PathsHeld(given, files) ==
    \A g \in given : g.as = "path" => [key |-> g.key, file |-> g.file] \in files

(***************************************************************************)
(* The files are there while the child may read them, and gone when all    *)
(* went well.                                                              *)
(***************************************************************************)
RunInv ==
    /\ IsVars(vars)
    /\ vars.at \in {"resolving", "child"} => PathsHeld(vars.given, vars.files)
    /\ vars.at = "ok" => vars.files = {}

(***************************************************************************)
(* The file shared as the i-th is whole at its destination.                *)
(***************************************************************************)
CopiedAt(i) ==
    /\ Destination(sharing.paths, i) \in DOMAIN disk
    /\ disk[Destination(sharing.paths, i)] = Copied(sharing.paths[i], TRUE)

(***************************************************************************)
(* The shape, and how far the share can be.                                *)
(***************************************************************************)
ShareTypes ==
    /\ IsSharing(sharing)
    /\ Len(sharing.paths) \in Nat /\ DOMAIN sharing.paths = 1 .. Len(sharing.paths)
    /\ sharing.done \in Nat /\ sharing.done <= Len(sharing.paths)

(***************************************************************************)
(* The files that were there before are as they were.                      *)
(***************************************************************************)
OthersKept ==
    /\ sharing.existing \subseteq DOMAIN disk
    /\ \A d \in sharing.existing : disk[d] = Before

(***************************************************************************)
(* Every share that is done left its file.                                 *)
(***************************************************************************)
DoneCopied == \A i \in 1 .. sharing.done : CopiedAt(i)

(***************************************************************************)
(* Where the share is tells of its job, its output and the file being      *)
(* shared.                                                                 *)
(***************************************************************************)
AtJob ==
    /\ sharing.at \in {"polling", "copying", "removing"} => sharing.done < Len(sharing.paths)
    /\ sharing.at = "removing" => CopiedAt(sharing.done + 1)
    /\ sharing.at \in {"next", "ok"} => sharing.job = "none" /\ sharing.output = FALSE
    /\ sharing.at = "ok" => sharing.done = Len(sharing.paths)

(***************************************************************************)
(* The invariant of a share.                                               *)
(***************************************************************************)
ShareInv == ShareTypes /\ OthersKept /\ DoneCopied /\ AtJob

(***************************************************************************)
(* The invariant of the commands around the shell.                         *)
(***************************************************************************)
ShellInv == ClipInv /\ RunInv /\ ShareInv

(***************************************************************************)
(* The invariant is enough for what the runs check.                        *)
(***************************************************************************)
LEMMA ShellMeans == ShellInv => SecretsLeave
<1> SUFFICES ASSUME ShellInv PROVE SecretsLeave
  OBVIOUS
<1>1. sharing.at = "ok" =>
          \A i \in DOMAIN sharing.paths :
              disk[Destination(sharing.paths, i)] = Copied(sharing.paths[i], TRUE)
  BY DEF ShellInv, ShareInv, ShareTypes, DoneCopied, AtJob, CopiedAt
<1>2. sharing.at = "ok" => ~sharing.output
  BY DEF ShellInv, ShareInv, AtJob
<1>3. /\ vars.at = "child" =>
             \A g \in vars.given : g.as = "path" => [key |-> g.key, file |-> g.file] \in vars.files
      /\ vars.at = "ok" => vars.files = {}
  BY DEF ShellInv, RunInv, PathsHeld
<1> QED BY <1>1, <1>2, <1>3 DEF ShellInv, ClipInv, ShareInv, OthersKept, SecretsLeave

(***************************************************************************)
(* The invariant holds at first.                                           *)
(***************************************************************************)
LEMMA ShellInitially == InitShell => ShellInv
<1> SUFFICES ASSUME InitShell PROVE ShellInv
  OBVIOUS
<1>1. ClipInv
  BY DEF InitShell, InitClip, ClipInv
<1>2. RunInv
  <2>1. PICK env \in Environments :
            vars = [at |-> "resolving", left |-> env, key |-> "", kind |-> "absent",
                    given |-> {}, files |-> {}]
    BY DEF InitShell, InitRun
  <2>2. IsVars(vars) /\ vars.given = {} /\ vars.at = "resolving"
    BY <2>1 DEF IsVars
  <2> QED BY <2>2 DEF RunInv, PathsHeld
<1>3. PICK paths \in Shares :
          \E existing \in SUBSET {Destination(paths, i) : i \in DOMAIN paths} :
              /\ disk = [d \in existing |-> Before]
              /\ sharing = [at |-> "next", paths |-> paths, done |-> 0, job |-> "none",
                            output |-> FALSE, existing |-> existing]
  BY DEF InitShell, InitShare
<1>4. Len(paths) \in Nat /\ DOMAIN paths = 1 .. Len(paths)
  BY SharesAssumption
<1>5. ShareTypes
  BY <1>3, <1>4 DEF ShareTypes, IsSharing
<1>6. OthersKept
  BY <1>3 DEF OthersKept
<1>7. DoneCopied /\ AtJob
  BY <1>3 DEF DoneCopied, AtJob
<1> QED BY <1>1, <1>2, <1>5, <1>6, <1>7 DEF ShellInv, ShareInv

-----------------------------------------------------------------------------

(***************************************************************************)
(* What updates of the environment are.                                    *)
(***************************************************************************)
LEMMA VarsChange ==
    ASSUME NEW k, IsVars(k), NEW x
    PROVE  /\ [k EXCEPT !.at = x] =
                  [at |-> x, left |-> k.left, key |-> k.key,
                   kind |-> k.kind, given |-> k.given, files |-> k.files]
           /\ [k EXCEPT !.left = x] =
                  [at |-> k.at, left |-> x, key |-> k.key,
                   kind |-> k.kind, given |-> k.given, files |-> k.files]
           /\ [k EXCEPT !.key = x] =
                  [at |-> k.at, left |-> k.left, key |-> x,
                   kind |-> k.kind, given |-> k.given, files |-> k.files]
           /\ [k EXCEPT !.kind = x] =
                  [at |-> k.at, left |-> k.left, key |-> k.key,
                   kind |-> x, given |-> k.given, files |-> k.files]
           /\ [k EXCEPT !.given = x] =
                  [at |-> k.at, left |-> k.left, key |-> k.key,
                   kind |-> k.kind, given |-> x, files |-> k.files]
           /\ [k EXCEPT !.files = x] =
                  [at |-> k.at, left |-> k.left, key |-> k.key,
                   kind |-> k.kind, given |-> k.given, files |-> x]
<1>1. k = [at |-> k.at, left |-> k.left, key |-> k.key,
           kind |-> k.kind, given |-> k.given, files |-> k.files]
  BY DEF IsVars
<1>2. [k EXCEPT !.at = x] =
          [at |-> x, left |-> k.left, key |-> k.key,
           kind |-> k.kind, given |-> k.given, files |-> k.files]
  BY <1>1
<1>3. [k EXCEPT !.left = x] =
          [at |-> k.at, left |-> x, key |-> k.key,
           kind |-> k.kind, given |-> k.given, files |-> k.files]
  BY <1>1
<1>4. [k EXCEPT !.key = x] =
          [at |-> k.at, left |-> k.left, key |-> x,
           kind |-> k.kind, given |-> k.given, files |-> k.files]
  BY <1>1
<1>5. [k EXCEPT !.kind = x] =
          [at |-> k.at, left |-> k.left, key |-> k.key,
           kind |-> x, given |-> k.given, files |-> k.files]
  BY <1>1
<1>6. [k EXCEPT !.given = x] =
          [at |-> k.at, left |-> k.left, key |-> k.key,
           kind |-> k.kind, given |-> x, files |-> k.files]
  BY <1>1
<1>7. [k EXCEPT !.files = x] =
          [at |-> k.at, left |-> k.left, key |-> k.key,
           kind |-> k.kind, given |-> k.given, files |-> x]
  BY <1>1
<1> QED BY <1>2, <1>3, <1>4, <1>5, <1>6, <1>7

(***************************************************************************)
(* What updates of a share are.                                            *)
(***************************************************************************)
LEMMA SharingChanges ==
    ASSUME NEW k, IsSharing(k), NEW x
    PROVE  /\ [k EXCEPT !.at = x] =
                  [at |-> x, paths |-> k.paths, done |-> k.done,
                   job |-> k.job, output |-> k.output, existing |-> k.existing]
           /\ [k EXCEPT !.paths = x] =
                  [at |-> k.at, paths |-> x, done |-> k.done,
                   job |-> k.job, output |-> k.output, existing |-> k.existing]
           /\ [k EXCEPT !.done = x] =
                  [at |-> k.at, paths |-> k.paths, done |-> x,
                   job |-> k.job, output |-> k.output, existing |-> k.existing]
           /\ [k EXCEPT !.job = x] =
                  [at |-> k.at, paths |-> k.paths, done |-> k.done,
                   job |-> x, output |-> k.output, existing |-> k.existing]
           /\ [k EXCEPT !.output = x] =
                  [at |-> k.at, paths |-> k.paths, done |-> k.done,
                   job |-> k.job, output |-> x, existing |-> k.existing]
           /\ [k EXCEPT !.existing = x] =
                  [at |-> k.at, paths |-> k.paths, done |-> k.done,
                   job |-> k.job, output |-> k.output, existing |-> x]
<1>1. k = [at |-> k.at, paths |-> k.paths, done |-> k.done,
           job |-> k.job, output |-> k.output, existing |-> k.existing]
  BY DEF IsSharing
<1>2. [k EXCEPT !.at = x] =
          [at |-> x, paths |-> k.paths, done |-> k.done,
           job |-> k.job, output |-> k.output, existing |-> k.existing]
  BY <1>1
<1>3. [k EXCEPT !.paths = x] =
          [at |-> k.at, paths |-> x, done |-> k.done,
           job |-> k.job, output |-> k.output, existing |-> k.existing]
  BY <1>1
<1>4. [k EXCEPT !.done = x] =
          [at |-> k.at, paths |-> k.paths, done |-> x,
           job |-> k.job, output |-> k.output, existing |-> k.existing]
  BY <1>1
<1>5. [k EXCEPT !.job = x] =
          [at |-> k.at, paths |-> k.paths, done |-> k.done,
           job |-> x, output |-> k.output, existing |-> k.existing]
  BY <1>1
<1>6. [k EXCEPT !.output = x] =
          [at |-> k.at, paths |-> k.paths, done |-> k.done,
           job |-> k.job, output |-> x, existing |-> k.existing]
  BY <1>1
<1>7. [k EXCEPT !.existing = x] =
          [at |-> k.at, paths |-> k.paths, done |-> k.done,
           job |-> k.job, output |-> k.output, existing |-> x]
  BY <1>1
<1> QED BY <1>2, <1>3, <1>4, <1>5, <1>6, <1>7

-----------------------------------------------------------------------------

(***************************************************************************)
(* The copy of a secret, the wait and the clearing.                        *)
(***************************************************************************)
LEMMA ClipSteps ==
    ASSUME ClipInv, NextClip
    PROVE  ClipInv'
<1>1. CASE CopySecret
  <2>1. CASE clip' = [clip EXCEPT !.at = "error"]
    BY <1>1, <2>1 DEF CopySecret, ClipInv
  <2>2. ASSUME NEW written \in BOOLEAN,
               clip' = [at |-> IF written THEN "waiting" ELSE "error", message |-> written]
        PROVE  ClipInv'
    <3>1. CASE written = TRUE
      <4>1. clip' = [at |-> "waiting", message |-> TRUE]
        BY <2>2, <3>1
      <4> QED BY <4>1 DEF ClipInv
    <3>2. CASE written = FALSE
      <4>1. clip' = [at |-> "error", message |-> FALSE]
        BY <2>2, <3>2
      <4> QED BY <4>1 DEF ClipInv
    <3> QED BY <3>1, <3>2
  <2> QED BY <1>1, <2>1, <2>2 DEF CopySecret
<1>2. CASE StopWaiting
  BY <1>2 DEF StopWaiting, ClipInv
<1>3. CASE CheckClipboard
  BY <1>3 DEF CheckClipboard, ClipInv
<1>4. CASE ClearClipboard
  BY <1>4 DEF ClearClipboard, ClipInv
<1>5. CASE OtherCopies
  BY <1>5 DEF OtherCopies, ClipInv
<1>6. CASE ClipKilled
  BY <1>6 DEF ClipKilled, ClipInv
<1> QED BY <1>1, <1>2, <1>3, <1>4, <1>5, <1>6 DEF NextClip

(***************************************************************************)
(* A step that ends in a state whose paths have their files.               *)
(***************************************************************************)
LEMMA RunMoves ==
    ASSUME NEW k, IsVars(k), vars' = k,
           k.at \in {"resolving", "child"} => PathsHeld(k.given, k.files),
           k.at = "ok" => k.files = {}
    PROVE  RunInv'
BY DEF RunInv

(***************************************************************************)
(* A failure before the child runs.                                        *)
(***************************************************************************)
LEMMA RunFailSound ==
    ASSUME RunInv, Fail("error")
    PROVE  RunInv'
<1>1. PICK files : vars' = [vars EXCEPT !.at = "error", !.files = files]
  BY DEF Fail
<1> DEFINE k1 == [vars EXCEPT !.at = "error"]
           k2 == [k1 EXCEPT !.files = files]
<1>2. vars' = k2
  BY <1>1
<1>3. IsVars(vars)
  BY DEF RunInv
<1>4. IsVars(k1) /\ k1.at = "error"
  BY <1>3, VarsChange DEF IsVars
<1> HIDE DEF k1
<1>5. IsVars(k2) /\ k2.at = "error"
  BY <1>4, VarsChange DEF IsVars
<1> HIDE DEF k2
<1> QED BY <1>2, <1>5, RunMoves

(***************************************************************************)
(* A reference is read, or the command refuses it.                         *)
(***************************************************************************)
LEMMA ClassifySound ==
    ASSUME RunInv, ClassifyReference
    PROVE  RunInv'
<1>1. CASE Fail("error")
  BY <1>1, RunFailSound
<1>2. ASSUME NEW key, NEW kind, vars' = [vars EXCEPT !.key = key, !.kind = kind]
      PROVE  RunInv'
  <2> DEFINE k1 == [vars EXCEPT !.key = key]
             k2 == [k1 EXCEPT !.kind = kind]
  <2>1. vars' = k2
    BY <1>2
  <2>2. IsVars(vars) /\ vars.at = "resolving" /\ PathsHeld(vars.given, vars.files)
    BY DEF RunInv, ClassifyReference
  <2>3. IsVars(k1) /\ k1.at = vars.at /\ k1.given = vars.given /\ k1.files = vars.files
    BY ZenonT(90), <2>2, VarsChange DEF IsVars
  <2> HIDE DEF k1
  <2>4. IsVars(k2) /\ k2.at = vars.at /\ k2.given = vars.given /\ k2.files = vars.files
    BY ZenonT(90), <2>3, VarsChange DEF IsVars
  <2> HIDE DEF k2
  <2> QED BY <2>1, <2>2, <2>4, RunMoves
<1> QED BY <1>1, <1>2 DEF ClassifyReference

(***************************************************************************)
(* A value is given, as itself or as the path of a new file.               *)
(***************************************************************************)
LEMMA GivenSound ==
    ASSUME RunInv, vars.at = "resolving", NEW v, NEW as, NEW files, Given(v, as, files),
           vars.files \subseteq files, as = "path" => Placed(v) \in files
    PROVE  RunInv'
<1> DEFINE left == vars.left \ {v}
           reference == [key |-> v.key, as |-> as, file |-> v.name]
           given == vars.given \cup {reference}
           k1 == [vars EXCEPT !.key = ""]
           k2 == [k1 EXCEPT !.left = left]
           k3 == [k2 EXCEPT !.files = files]
           k4 == [k3 EXCEPT !.given = given]
<1>1. IsVars(vars) /\ vars.at = "resolving" /\ PathsHeld(vars.given, vars.files)
  BY DEF RunInv
<1>2. vars' = k4
  BY DEF Given
<1>3. PathsHeld(given, files)
  <2> SUFFICES ASSUME NEW g \in given, g.as = "path"
               PROVE  [key |-> g.key, file |-> g.file] \in files
    BY DEF PathsHeld
  <2>1. CASE g \in vars.given
    BY <1>1, <2>1 DEF PathsHeld
  <2>2. CASE g = reference
    <3>1. g.key = v.key /\ g.as = as /\ g.file = v.name
      BY <2>2
    <3> HIDE DEF reference
    <3> QED BY <3>1 DEF Placed
  <2> QED BY <2>1, <2>2
<1> HIDE DEF left, given
<1>4. IsVars(k1) /\ k1.at = "resolving"
  BY ZenonT(90), <1>1, VarsChange DEF IsVars
<1> HIDE DEF k1
<1>5. IsVars(k2) /\ k2.at = "resolving"
  BY ZenonT(90), <1>4, VarsChange DEF IsVars
<1> HIDE DEF k2
<1>6. IsVars(k3) /\ k3.at = "resolving" /\ k3.files = files
  BY <1>5, VarsChange DEF IsVars
<1> HIDE DEF k3
<1>7. IsVars(k4) /\ k4.at = "resolving" /\ k4.files = files /\ k4.given = given
  BY <1>6, VarsChange DEF IsVars
<1> HIDE DEF k4
<1> QED BY <1>2, <1>3, <1>7, RunMoves

(***************************************************************************)
(* The agent answers with the value of a reference.                        *)
(***************************************************************************)
LEMMA FetchSound ==
    ASSUME RunInv, FetchReference
    PROVE  RunInv'
<1>1. CASE Fail("error")
  BY <1>1, RunFailSound
<1>2. ASSUME NEW v \in vars.left, Place(v) PROVE RunInv'
  <2>1. CASE Given(v, "path", vars.files \cup {Placed(v)})
    <3> DEFINE files == vars.files \cup {Placed(v)}
    <3>1. vars.files \subseteq files /\ Placed(v) \in files
      OBVIOUS
    <3> HIDE DEF files
    <3> QED BY <2>1, <3>1, GivenSound DEF FetchReference, files
  <2>2. CASE Given(v, "value", vars.files)
    BY <2>2, GivenSound DEF FetchReference
  <2> QED BY <1>2, <2>1, <2>2 DEF Place
<1> QED BY <1>1, <1>2 DEF FetchReference

(***************************************************************************)
(* The child starts, or the command is killed.                             *)
(***************************************************************************)
LEMMA VarsAt ==
    ASSUME RunInv, NEW at, vars' = [vars EXCEPT !.at = at],
           at = "child" => vars.at = "resolving", at \in {"child", "killed"}
    PROVE  RunInv'
<1> DEFINE k1 == [vars EXCEPT !.at = at]
<1>1. IsVars(vars)
  BY DEF RunInv
<1>2. IsVars(k1) /\ k1.at = at /\ k1.given = vars.given /\ k1.files = vars.files
  BY <1>1, VarsChange DEF IsVars
<1>3. at = "child" => PathsHeld(vars.given, vars.files)
  BY DEF RunInv
<1> HIDE DEF k1
<1> QED BY <1>2, <1>3, RunMoves DEF k1

(***************************************************************************)
(* The child ends and its files are removed.                               *)
(***************************************************************************)
LEMMA ChildEndsSound ==
    ASSUME RunInv, ChildEnds
    PROVE  RunInv'
<1>1. CASE Fail("error")
  BY <1>1, RunFailSound
<1>2. ASSUME NEW status \in {"ok", "error"}, vars' = [vars EXCEPT !.at = status, !.files = {}]
      PROVE  RunInv'
  <2> DEFINE k1 == [vars EXCEPT !.at = status]
             k2 == [k1 EXCEPT !.files = {}]
  <2>1. vars' = k2
    BY <1>2
  <2>2. IsVars(vars)
    BY DEF RunInv
  <2>3. IsVars(k1) /\ k1.at = status
    BY ZenonT(90), <2>2, VarsChange DEF IsVars
  <2> HIDE DEF k1
  <2>4. IsVars(k2) /\ k2.at = status /\ k2.files = {}
    BY <2>3, VarsChange DEF IsVars
  <2> HIDE DEF k2
  <2> QED BY <2>1, <2>4, RunMoves
<1> QED BY <1>1, <1>2 DEF ChildEnds

(***************************************************************************)
(* Every step of the command with secrets in its environment.              *)
(***************************************************************************)
LEMMA ChildSteps ==
    ASSUME RunInv, NextRun
    PROVE  RunInv'
<1>1. CASE ClassifyReference
  BY <1>1, ClassifySound
<1>2. CASE FetchReference
  BY <1>2, FetchSound
<1>3. CASE StartChild
  BY <1>3, RunFailSound, VarsAt DEF StartChild
<1>4. CASE ChildEnds
  BY <1>4, ChildEndsSound
<1>5. CASE RunKilled
  BY <1>5, VarsAt DEF RunKilled
<1> QED BY <1>1, <1>2, <1>3, <1>4, <1>5 DEF NextRun

-----------------------------------------------------------------------------

(***************************************************************************)
(* A step that leaves the files on the disk alone.                         *)
(***************************************************************************)
LEMMA ShareMoves ==
    ASSUME ShareInv, UNCHANGED disk, NEW k, IsSharing(k), sharing' = k,
           k.paths = sharing.paths, k.existing = sharing.existing, k.done = sharing.done,
           AtJob'
    PROVE  ShareInv'
<1>1. ShareTypes'
  BY DEF ShareInv, ShareTypes
<1>2. OthersKept'
  BY DEF ShareInv, OthersKept
<1>3. DoneCopied'
  BY DEF ShareInv, DoneCopied, CopiedAt
<1> QED BY <1>1, <1>2, <1>3 DEF ShareInv

(***************************************************************************)
(* A failure, a job that is done, or a share that has no file left.        *)
(***************************************************************************)
LEMMA SharingAt ==
    ASSUME ShareInv, UNCHANGED disk, NEW at, sharing' = [sharing EXCEPT !.at = at],
           \/ at = "error"
           \/ at = "copying" /\ sharing.at = "polling"
           \/ at = "ok" /\ sharing.at = "next" /\ sharing.done = Len(sharing.paths)
    PROVE  ShareInv'
<1> DEFINE k == [sharing EXCEPT !.at = at]
<1>1. IsSharing(sharing)
  BY DEF ShareInv, ShareTypes
<1>2. /\ IsSharing(k) /\ k.at = at /\ k.paths = sharing.paths
      /\ k.existing = sharing.existing /\ k.done = sharing.done
      /\ k.job = sharing.job /\ k.output = sharing.output
  BY <1>1, SharingChanges DEF IsSharing
<1>3. sharing' = k
  OBVIOUS
<1> HIDE DEF k
<1>4. AtJob'
  BY <1>2, <1>3 DEF ShareInv, AtJob
<1> QED BY <1>2, <1>3, <1>4, ShareMoves

(***************************************************************************)
(* The export of the next file is asked for.                               *)
(***************************************************************************)
LEMMA RequestExportSound ==
    ASSUME ShareInv, RequestExport
    PROVE  ShareInv'
<1>1. CASE sharing.done = Len(sharing.paths)
  <2>1. sharing' = [sharing EXCEPT !.at = "ok"]
    BY <1>1 DEF RequestExport
  <2> QED BY <1>1, <2>1, SharingAt DEF RequestExport
<1>2. CASE sharing.done # Len(sharing.paths)
  <2> DEFINE k1 == [sharing EXCEPT !.at = "polling"]
             k2 == [k1 EXCEPT !.job = "running"]
  <2>1. sharing' = k2
    BY <1>2 DEF RequestExport
  <2>2. IsSharing(sharing)
    BY DEF ShareInv, ShareTypes
  <2>3. /\ IsSharing(k1) /\ k1.at = "polling" /\ k1.paths = sharing.paths
        /\ k1.existing = sharing.existing /\ k1.done = sharing.done
    BY ZenonT(90), <2>2, SharingChanges DEF IsSharing
  <2> HIDE DEF k1
  <2>4. /\ IsSharing(k2) /\ k2.at = "polling" /\ k2.paths = sharing.paths
        /\ k2.existing = sharing.existing /\ k2.done = sharing.done
    BY ZenonT(90), <2>3, SharingChanges DEF IsSharing
  <2> HIDE DEF k2
  <2>5. sharing.done < Len(sharing.paths)
    BY <1>2 DEF ShareInv, ShareTypes
  <2>6. AtJob'
    BY <2>1, <2>4, <2>5 DEF AtJob
  <2> QED BY <2>1, <2>4, <2>6, ShareMoves DEF RequestExport
<1> QED BY <1>1, <1>2

(***************************************************************************)
(* The agent's job ends, or is gone.                                       *)
(***************************************************************************)
LEMMA JobEndsSound ==
    ASSUME ShareInv, JobEnds
    PROVE  ShareInv'
<1>1. PICK outcome, output : sharing' = [sharing EXCEPT !.job = outcome, !.output = output]
  <2>1. PICK outcome \in {"succeeded", "failed", "forgotten"} :
            sharing' = [sharing EXCEPT !.job = outcome, !.output = outcome = "succeeded"]
    BY DEF JobEnds
  <2> QED BY <2>1
<1> DEFINE k1 == [sharing EXCEPT !.job = outcome]
           k2 == [k1 EXCEPT !.output = output]
<1>2. sharing' = k2
  BY <1>1
<1>3. IsSharing(sharing) /\ sharing.job = "running"
  BY DEF ShareInv, ShareTypes, JobEnds
<1>4. /\ IsSharing(k1) /\ k1.at = sharing.at /\ k1.paths = sharing.paths
      /\ k1.existing = sharing.existing /\ k1.done = sharing.done
  BY ZenonT(90), <1>3, SharingChanges DEF IsSharing
<1> HIDE DEF k1
<1>5. /\ IsSharing(k2) /\ k2.at = sharing.at /\ k2.paths = sharing.paths
      /\ k2.existing = sharing.existing /\ k2.done = sharing.done
  BY ZenonT(90), <1>4, SharingChanges DEF IsSharing
<1> HIDE DEF k2
<1>6. AtJob'
  <2>1. sharing.at \notin {"next", "ok"}
    BY <1>3 DEF ShareInv, AtJob
  <2> QED BY <1>2, <1>5, <2>1 DEF ShareInv, AtJob, CopiedAt, JobEnds
<1> QED BY <1>2, <1>5, <1>6, ShareMoves DEF JobEnds

(***************************************************************************)
(* The command asks for the job, and may give up on it.                    *)
(***************************************************************************)
LEMMA PollJobSound ==
    ASSUME ShareInv, PollJob
    PROVE  ShareInv'
<1>1. CASE sharing.job = "failed"
  <2>1. sharing' = [sharing EXCEPT !.at = "error"]
    BY <1>1 DEF PollJob
  <2> QED BY <2>1, SharingAt DEF PollJob
<1>2. CASE sharing.job # "failed"
  <2>1. sharing' = [sharing EXCEPT !.at = "copying"]
    BY <1>2 DEF PollJob
  <2> QED BY <2>1, SharingAt DEF PollJob
<1> QED BY <1>1, <1>2

(***************************************************************************)
(* The output is copied to its destination, which no file had: those       *)
(* shared before, and those that were there, stay.                         *)
(***************************************************************************)
LEMMA CopyOutputSound ==
    ASSUME ShareInv, CopyOutput
    PROVE  ShareInv'
<1>1. CASE Target \in DOMAIN disk
  <2>1. sharing' = [sharing EXCEPT !.at = "error"] /\ UNCHANGED disk
    BY <1>1 DEF CopyOutput
  <2> QED BY <2>1, SharingAt
<1>2. CASE Target \notin DOMAIN disk
  <2>1. PICK whole \in BOOLEAN :
            /\ disk' = [d \in DOMAIN disk \cup {Target} |->
                   IF d = Target THEN Copied(sharing.paths[sharing.done + 1], whole)
                   ELSE disk[d]]
            /\ sharing' = [sharing EXCEPT !.at = IF whole THEN "removing" ELSE "error"]
    BY <1>2 DEF CopyOutput
  <2> DEFINE at == IF whole THEN "removing" ELSE "error"
             k == [sharing EXCEPT !.at = at]
  <2>2. DOMAIN disk' = DOMAIN disk \cup {Target}
    BY <2>1
  <2>3. \A d \in DOMAIN disk : disk'[d] = disk[d]
    BY <1>2, <2>1
  <2>4. disk'[Target] = Copied(sharing.paths[sharing.done + 1], whole)
    BY <2>1
  <2>5. sharing' = k
    BY <2>1
  <2>6. IsSharing(sharing) /\ sharing.at = "copying"
    BY DEF ShareInv, ShareTypes, CopyOutput
  <2>7. at \in {"removing", "error"} /\ (at = "removing" => whole = TRUE)
    OBVIOUS
  <2> HIDE DEF at
  <2>8. /\ IsSharing(k) /\ k.at = at /\ k.paths = sharing.paths
        /\ k.existing = sharing.existing /\ k.done = sharing.done
    BY ZenonT(90), <2>6, SharingChanges DEF IsSharing
  <2> HIDE DEF k
  <2>9. ShareTypes'
    BY <2>5, <2>8 DEF ShareInv, ShareTypes
  <2>10. OthersKept'
    BY <2>2, <2>3, <2>5, <2>8 DEF ShareInv, OthersKept
  <2>11. \A i : CopiedAt(i) => CopiedAt(i)'
    BY <2>2, <2>3, <2>5, <2>8 DEF CopiedAt
  <2>12. DoneCopied'
    BY <2>5, <2>8, <2>11 DEF ShareInv, DoneCopied
  <2>13. Target = Destination(sharing.paths, sharing.done + 1)
    BY DEF Target
  <2>14. at = "removing" => CopiedAt(sharing.done + 1)'
    BY <2>2, <2>4, <2>5, <2>7, <2>8, <2>13 DEF CopiedAt
  <2>15. AtJob'
    BY <2>5, <2>6, <2>7, <2>8, <2>14 DEF ShareInv, AtJob
  <2> QED BY <2>9, <2>10, <2>12, <2>15 DEF ShareInv
<1> QED BY <1>1, <1>2

(***************************************************************************)
(* The output is removed, and the share goes on to the next file.          *)
(***************************************************************************)
LEMMA RemoveOutputSound ==
    ASSUME ShareInv, RemoveOutput
    PROVE  ShareInv'
<1>1. CASE sharing' = [sharing EXCEPT !.at = "error"]
  BY <1>1, SharingAt DEF RemoveOutput
<1>2. CASE sharing' = [sharing EXCEPT !.at = "next", !.done = @ + 1,
                                      !.job = "none", !.output = FALSE]
  <2> DEFINE k1 == [sharing EXCEPT !.at = "next"]
             k2 == [k1 EXCEPT !.done = @ + 1]
             k3 == [k2 EXCEPT !.job = "none"]
             k4 == [k3 EXCEPT !.output = FALSE]
  <2>1. sharing' = k4
    BY <1>2
  <2>2. /\ IsSharing(sharing) /\ sharing.done \in Nat /\ sharing.done < Len(sharing.paths)
        /\ Len(sharing.paths) \in Nat /\ CopiedAt(sharing.done + 1) /\ UNCHANGED disk
    BY DEF ShareInv, ShareTypes, AtJob, RemoveOutput
  <2>3. /\ IsSharing(k1) /\ k1.at = "next" /\ k1.paths = sharing.paths
        /\ k1.existing = sharing.existing /\ k1.done = sharing.done
    BY ZenonT(90), <2>2, SharingChanges DEF IsSharing
  <2> HIDE DEF k1
  <2>4. /\ IsSharing(k2) /\ k2.at = "next" /\ k2.paths = sharing.paths
        /\ k2.existing = sharing.existing /\ k2.done = sharing.done + 1
    BY ZenonT(90), <2>3, SharingChanges DEF IsSharing
  <2> HIDE DEF k2
  <2>5. /\ IsSharing(k3) /\ k3.at = "next" /\ k3.paths = sharing.paths /\ k3.job = "none"
        /\ k3.existing = sharing.existing /\ k3.done = sharing.done + 1
    BY ZenonT(90), <2>4, SharingChanges DEF IsSharing
  <2> HIDE DEF k3
  <2>6. /\ IsSharing(k4) /\ k4.at = "next" /\ k4.paths = sharing.paths /\ k4.job = "none"
        /\ k4.existing = sharing.existing /\ k4.done = sharing.done + 1
        /\ k4.output = FALSE
    BY ZenonT(90), <2>5, SharingChanges DEF IsSharing
  <2> HIDE DEF k4
  <2>7. ShareTypes'
    BY <2>1, <2>2, <2>6 DEF ShareInv, ShareTypes
  <2>8. OthersKept'
    BY <2>1, <2>2, <2>6 DEF ShareInv, OthersKept
  <2>9. \A i : CopiedAt(i) => CopiedAt(i)'
    BY <2>1, <2>2, <2>6 DEF CopiedAt
  <2>10. \A i \in 1 .. sharing.done + 1 : CopiedAt(i)
    BY <2>2 DEF ShareInv, DoneCopied
  <2>11. DoneCopied'
    BY <2>1, <2>6, <2>9, <2>10 DEF DoneCopied
  <2>12. AtJob'
    BY <2>1, <2>6 DEF AtJob
  <2> QED BY <2>7, <2>8, <2>11, <2>12 DEF ShareInv
<1> QED BY <1>1, <1>2 DEF RemoveOutput

(***************************************************************************)
(* Every step of a share.                                                  *)
(***************************************************************************)
LEMMA ShareSteps ==
    ASSUME ShareInv, NextShare
    PROVE  ShareInv'
<1>1. CASE RequestExport
  BY <1>1, RequestExportSound
<1>2. CASE JobEnds
  BY <1>2, JobEndsSound
<1>3. CASE PollJob
  BY <1>3, PollJobSound
<1>4. CASE CopyOutput
  BY <1>4, CopyOutputSound
<1>5. CASE RemoveOutput
  BY <1>5, RemoveOutputSound
<1>6. CASE ShareFails
  BY <1>6, SharingAt DEF ShareFails
<1> QED BY <1>1, <1>2, <1>3, <1>4, <1>5, <1>6 DEF NextShare

-----------------------------------------------------------------------------

(***************************************************************************)
(* The three commands share nothing.                                       *)
(***************************************************************************)
LEMMA PartsApart ==
    /\ ClipInv /\ UNCHANGED <<clip, clipboard>> => ClipInv'
    /\ RunInv /\ UNCHANGED vars => RunInv'
    /\ ShareInv /\ UNCHANGED <<sharing, disk>> => ShareInv'
    /\ NextClip => UNCHANGED <<vars, sharing, disk>>
    /\ NextRun => UNCHANGED <<clip, clipboard, sharing, disk>>
    /\ NextShare => UNCHANGED <<clip, clipboard, vars>>
<1>1. ClipInv /\ UNCHANGED <<clip, clipboard>> => ClipInv'
  BY DEF ClipInv
<1>2. RunInv /\ UNCHANGED vars => RunInv'
  BY DEF RunInv
<1>3. ShareInv /\ UNCHANGED <<sharing, disk>> => ShareInv'
  BY DEF ShareInv, ShareTypes, OthersKept, DoneCopied, AtJob, CopiedAt
<1>4. NextClip => UNCHANGED <<vars, sharing, disk>>
  BY DEF NextClip, CopySecret, StopWaiting, CheckClipboard, ClearClipboard, OtherCopies,
         ClipKilled
<1>5. NextRun => UNCHANGED <<clip, clipboard, sharing, disk>>
  BY DEF NextRun, ClassifyReference, FetchReference, StartChild, ChildEnds, RunKilled
<1>6. NextShare => UNCHANGED <<clip, clipboard, vars>>
  BY DEF NextShare, RequestExport, JobEnds, PollJob, CopyOutput, RemoveOutput, ShareFails
<1> QED BY <1>1, <1>2, <1>3, <1>4, <1>5, <1>6

(***************************************************************************)
(* Every step keeps the invariant.                                         *)
(***************************************************************************)
LEMMA ShellSteps == ShellInv /\ [NextShell]_shellVars => ShellInv'
<1> SUFFICES ASSUME ShellInv, [NextShell]_shellVars PROVE ShellInv'
  OBVIOUS
<1>1. CASE NextClip
  BY <1>1, ClipSteps, PartsApart DEF ShellInv
<1>2. CASE NextRun
  BY <1>2, ChildSteps, PartsApart DEF ShellInv
<1>3. CASE NextShare
  BY <1>3, ShareSteps, PartsApart DEF ShellInv
<1>4. CASE UNCHANGED shellVars
  BY <1>4, PartsApart DEF ShellInv, shellVars
<1> QED BY <1>1, <1>2, <1>3, <1>4 DEF NextShell

(***************************************************************************)
(* A copied secret leaves the clipboard, a child finds the files its       *)
(* environment names and none is left behind when it ends well, and a      *)
(* share leaves every file whole and no file of another's changed, for any *)
(* number of references and files (commands/copy.rs, commands/run.rs,      *)
(* commands/share.rs).                                                     *)
(***************************************************************************)
THEOREM SecretsStaySafe == ShellSpec => []SecretsLeave
<1>1. ShellSpec => []ShellInv
  BY ShellInitially, ShellSteps, PTL DEF ShellSpec
<1> QED BY <1>1, ShellMeans, PTL

-----------------------------------------------------------------------------

(***************************************************************************)
(* The shape of a caller.                                                  *)
(***************************************************************************)
IsCaller(k) ==
    k = [at |-> k.at, pool |-> k.pool, worker |-> k.worker, command |-> k.command,
         calls |-> k.calls, answer |-> k.answer, since |-> k.since]

(***************************************************************************)
(* The tables are always among those that every caller's answers allow:    *)
(* what a caller was told can never have been undone behind it.            *)
(***************************************************************************)
TablesTold ==
    /\ DOMAIN caller = Callers
    /\ \A cl \in Callers : IsCaller(caller[cl]) /\ tables \in caller[cl].since

(***************************************************************************)
(* The invariant is enough for what the runs check.                        *)
(***************************************************************************)
LEMMA ToldMeans == TablesTold => ReadsFollowWrites
BY DEF TablesTold, ReadsFollowWrites

(***************************************************************************)
(* The invariant holds at first.                                           *)
(***************************************************************************)
LEMMA ToldInitially == InitPool => TablesTold
<1> SUFFICES ASSUME InitPool PROVE TablesTold
  OBVIOUS
<1>1. caller = [cl \in Callers |-> Resting(0, {NewRegistry})] /\ tables = NewRegistry
  BY DEF InitPool
<1>2. Resting(0, {NewRegistry}).since = {NewRegistry}
  BY DEF Resting
<1>3. IsCaller(Resting(0, {NewRegistry}))
  BY DEF Resting, IsCaller
<1> HIDE DEF NewRegistry, Resting
<1> QED BY <1>1, <1>2, <1>3 DEF TablesTold

-----------------------------------------------------------------------------

(***************************************************************************)
(* What updates of a caller are.                                           *)
(***************************************************************************)
LEMMA CallerChanges ==
    ASSUME NEW k, IsCaller(k), NEW x
    PROVE  /\ [k EXCEPT !.at = x] =
                  [at |-> x, pool |-> k.pool, worker |-> k.worker, command |-> k.command,
                   calls |-> k.calls, answer |-> k.answer, since |-> k.since]
           /\ [k EXCEPT !.pool = x] =
                  [at |-> k.at, pool |-> x, worker |-> k.worker, command |-> k.command,
                   calls |-> k.calls, answer |-> k.answer, since |-> k.since]
           /\ [k EXCEPT !.worker = x] =
                  [at |-> k.at, pool |-> k.pool, worker |-> x, command |-> k.command,
                   calls |-> k.calls, answer |-> k.answer, since |-> k.since]
           /\ [k EXCEPT !.command = x] =
                  [at |-> k.at, pool |-> k.pool, worker |-> k.worker, command |-> x,
                   calls |-> k.calls, answer |-> k.answer, since |-> k.since]
           /\ [k EXCEPT !.calls = x] =
                  [at |-> k.at, pool |-> k.pool, worker |-> k.worker, command |-> k.command,
                   calls |-> x, answer |-> k.answer, since |-> k.since]
           /\ [k EXCEPT !.answer = x] =
                  [at |-> k.at, pool |-> k.pool, worker |-> k.worker, command |-> k.command,
                   calls |-> k.calls, answer |-> x, since |-> k.since]
           /\ [k EXCEPT !.since = x] =
                  [at |-> k.at, pool |-> k.pool, worker |-> k.worker, command |-> k.command,
                   calls |-> k.calls, answer |-> k.answer, since |-> x]
<1>1. k = [at |-> k.at, pool |-> k.pool, worker |-> k.worker, command |-> k.command,
           calls |-> k.calls, answer |-> k.answer, since |-> k.since]
  BY DEF IsCaller
<1>2. [k EXCEPT !.at = x] =
          [at |-> x, pool |-> k.pool, worker |-> k.worker, command |-> k.command,
           calls |-> k.calls, answer |-> k.answer, since |-> k.since]
  BY <1>1
<1>3. [k EXCEPT !.pool = x] =
          [at |-> k.at, pool |-> x, worker |-> k.worker, command |-> k.command,
           calls |-> k.calls, answer |-> k.answer, since |-> k.since]
  BY <1>1
<1>4. [k EXCEPT !.worker = x] =
          [at |-> k.at, pool |-> k.pool, worker |-> x, command |-> k.command,
           calls |-> k.calls, answer |-> k.answer, since |-> k.since]
  BY <1>1
<1>5. [k EXCEPT !.command = x] =
          [at |-> k.at, pool |-> k.pool, worker |-> k.worker, command |-> x,
           calls |-> k.calls, answer |-> k.answer, since |-> k.since]
  BY <1>1
<1>6. [k EXCEPT !.calls = x] =
          [at |-> k.at, pool |-> k.pool, worker |-> k.worker, command |-> k.command,
           calls |-> x, answer |-> k.answer, since |-> k.since]
  BY <1>1
<1>7. [k EXCEPT !.answer = x] =
          [at |-> k.at, pool |-> k.pool, worker |-> k.worker, command |-> k.command,
           calls |-> k.calls, answer |-> x, since |-> k.since]
  BY <1>1
<1>8. [k EXCEPT !.since = x] =
          [at |-> k.at, pool |-> k.pool, worker |-> k.worker, command |-> k.command,
           calls |-> k.calls, answer |-> k.answer, since |-> x]
  BY <1>1
<1> QED BY <1>2, <1>3, <1>4, <1>5, <1>6, <1>7, <1>8

(***************************************************************************)
(* A step of one caller's that leaves the tables and what it was told      *)
(* alone.                                                                  *)
(***************************************************************************)
LEMMA CallersStay ==
    ASSUME TablesTold, UNCHANGED tables, NEW cl \in Callers, NEW doing,
           caller' = [caller EXCEPT ![cl] = doing], IsCaller(doing),
           doing.since = caller[cl].since
    PROVE  TablesTold'
<1> SUFFICES ASSUME NEW other \in Callers
             PROVE  IsCaller(caller'[other]) /\ tables \in caller'[other].since
  BY DEF TablesTold, IsCaller
<1>1. CASE other = cl
  <2>1. caller'[other] = doing
    BY <1>1 DEF TablesTold
  <2>2. tables \in doing.since
    BY <1>1 DEF TablesTold
  <2> QED BY <2>1, <2>2
<1>2. CASE other # cl
  <2>1. caller'[other] = caller[other]
    BY <1>2 DEF TablesTold
  <2> QED BY <2>1 DEF TablesTold
<1> QED BY <1>1, <1>2

(***************************************************************************)
(* A caller picks a worker for its command.                                *)
(***************************************************************************)
LEMMA CallTells ==
    ASSUME TablesTold, NEW cl \in Callers, Call(cl)
    PROVE  TablesTold'
<1>1. PICK p \in Current, command \in Commands :
          caller' = [caller EXCEPT ![cl] =
                [@ EXCEPT !.at = "sending", !.pool = p, !.command = command,
                          !.worker = WorkerFor(p, command), !.calls = caller[cl].calls + 1,
                          !.answer = NoAnswer]]
  BY DEF Call
<1> DEFINE k1 == [caller[cl] EXCEPT !.at = "sending"]
           k2 == [k1 EXCEPT !.pool = p]
           k3 == [k2 EXCEPT !.command = command]
           k4 == [k3 EXCEPT !.worker = WorkerFor(p, command)]
           k5 == [k4 EXCEPT !.calls = caller[cl].calls + 1]
           k6 == [k5 EXCEPT !.answer = NoAnswer]
           doing == [caller[cl] EXCEPT !.at = "sending", !.pool = p, !.command = command,
                          !.worker = WorkerFor(p, command), !.calls = caller[cl].calls + 1,
                          !.answer = NoAnswer]
<1>2. caller' = [caller EXCEPT ![cl] = k6]
  <2>1. caller' = [caller EXCEPT ![cl] = doing]
    BY <1>1
  <2>2. doing = k6
    OBVIOUS
  <2> QED BY <2>1, <2>2
<1>3. IsCaller(caller[cl]) /\ UNCHANGED tables
  BY DEF TablesTold, Call
<1>4. IsCaller(k1) /\ k1.since = caller[cl].since
  BY ZenonT(90), <1>3, CallerChanges DEF IsCaller
<1> HIDE DEF k1
<1>5. IsCaller(k2) /\ k2.since = caller[cl].since
  BY ZenonT(90), <1>4, CallerChanges DEF IsCaller
<1> HIDE DEF k2
<1>6. IsCaller(k3) /\ k3.since = caller[cl].since
  BY ZenonT(90), <1>5, CallerChanges DEF IsCaller
<1> HIDE DEF k3
<1>7. IsCaller(k4) /\ k4.since = caller[cl].since
  BY ZenonT(90), <1>6, CallerChanges DEF IsCaller
<1> HIDE DEF k4
<1>8. IsCaller(k5) /\ k5.since = caller[cl].since
  BY ZenonT(90), <1>7, CallerChanges DEF IsCaller
<1> HIDE DEF k5
<1>9. IsCaller(k6) /\ k6.since = caller[cl].since
  BY ZenonT(90), <1>8, CallerChanges DEF IsCaller
<1> HIDE DEF k6
<1> QED BY <1>2, <1>3, <1>9, CallersStay

(***************************************************************************)
(* The command is put on the worker's channel.                             *)
(***************************************************************************)
LEMMA EnqueueTells ==
    ASSUME TablesTold, NEW cl \in Callers, Enqueue(cl)
    PROVE  TablesTold'
<1> DEFINE doing == [caller[cl] EXCEPT !.at = "waiting"]
<1>1. caller' = [caller EXCEPT ![cl] = doing] /\ UNCHANGED tables
  BY DEF TablesTold, Enqueue
<1>2. IsCaller(caller[cl])
  BY DEF TablesTold
<1>3. IsCaller(doing) /\ doing.since = caller[cl].since
  BY ZenonT(90), <1>2, CallerChanges DEF IsCaller
<1> HIDE DEF doing
<1> QED BY <1>1, <1>3, CallersStay

(***************************************************************************)
(* A caller gives up its command.                                          *)
(***************************************************************************)
LEMMA GoAwayTells ==
    ASSUME TablesTold, NEW cl \in Callers, GoAway(cl)
    PROVE  TablesTold'
<1> DEFINE doing == Resting(caller[cl].calls, caller[cl].since)
<1>1. caller' = [caller EXCEPT ![cl] = doing] /\ UNCHANGED tables
  BY DEF TablesTold, GoAway
<1>2. IsCaller(doing) /\ doing.since = caller[cl].since
  BY DEF Resting, IsCaller
<1> HIDE DEF doing
<1> QED BY <1>1, <1>2, CallersStay

-----------------------------------------------------------------------------

(***************************************************************************)
(* The tables a command leaves are among those its answer allows.          *)
(***************************************************************************)
LEMMA ToldGrows ==
    ASSUME NEW since, NEW command, tables \in since
    PROVE  Run(command, tables).tables \in
               Told(since, command, Said(Run(command, tables)))
BY DEF Told

(***************************************************************************)
(* A write by another leaves the new tables among those allowed.           *)
(***************************************************************************)
LEMMA AfterWriteHolds ==
    ASSUME NEW since, NEW t, tables \in since
    PROVE  t \in AfterWrite(since, t)
BY DEF AfterWrite

(***************************************************************************)
(* What a caller is after its command ran.                                 *)
(***************************************************************************)
LEMMA AnsweredTells ==
    ASSUME TablesTold, NEW cl \in Callers, NEW command
    PROVE  /\ IsCaller(Answered(cl, command, Run(command, tables)))
           /\ Run(command, tables).tables \in
                  Answered(cl, command, Run(command, tables)).since
<1> DEFINE said == Said(Run(command, tables))
           told == Told(caller[cl].since, command, said)
           k1 == [caller[cl] EXCEPT !.at = "answered"]
           k2 == [k1 EXCEPT !.pool = 0]
           k3 == [k2 EXCEPT !.answer = said]
           k4 == [k3 EXCEPT !.since = told]
<1>1. Answered(cl, command, Run(command, tables)) = k4
  BY DEF Answered
<1>2. IsCaller(caller[cl]) /\ tables \in caller[cl].since
  BY DEF TablesTold
<1>3. Run(command, tables).tables \in told
  BY <1>2, ToldGrows
<1> HIDE DEF said, told
<1>4. IsCaller(k1)
  BY ZenonT(90), <1>2, CallerChanges DEF IsCaller
<1> HIDE DEF k1
<1>5. IsCaller(k2)
  BY ZenonT(90), <1>4, CallerChanges DEF IsCaller
<1> HIDE DEF k2
<1>6. IsCaller(k3)
  BY ZenonT(90), <1>5, CallerChanges DEF IsCaller
<1> HIDE DEF k3
<1>7. IsCaller(k4) /\ k4.since = told
  BY ZenonT(90), <1>6, CallerChanges DEF IsCaller
<1> HIDE DEF k4
<1> QED BY <1>1, <1>3, <1>7

(***************************************************************************)
(* A worker runs a command: its caller is told, the others are not.        *)
(***************************************************************************)
LEMMA ExecuteTells ==
    ASSUME TablesTold, NEW p \in DOMAIN pool, NEW w \in Workers, Execute(p, w)
    PROVE  TablesTold'
<1> DEFINE entry == Head(pool[p].channel[w])
           outcome == Run(entry.command, tables)
           after(cl) == AfterWrite(caller[cl].since, outcome.tables)
           next(cl) == IF cl = entry.caller /\ Waits(entry)
                       THEN Answered(cl, entry.command, outcome)
                       ELSE [caller[cl] EXCEPT !.since = after(cl)]
<1>1. /\ tables' = outcome.tables
      /\ caller' = [cl \in Callers |-> next(cl)]
  BY DEF Execute
<1>2. ASSUME NEW cl \in Callers
      PROVE  IsCaller(next(cl)) /\ outcome.tables \in next(cl).since
  <2>1. IsCaller(caller[cl]) /\ tables \in caller[cl].since
    BY DEF TablesTold
  <2>2. CASE cl = entry.caller /\ Waits(entry)
    <3>1. next(cl) = Answered(cl, entry.command, outcome)
      BY <2>2
    <3> QED BY <3>1, AnsweredTells
  <2>3. CASE ~(cl = entry.caller /\ Waits(entry))
    <3> DEFINE since == after(cl)
    <3>1. next(cl) = [caller[cl] EXCEPT !.since = since]
      BY <2>3
    <3>2. outcome.tables \in since
      BY <2>1, AfterWriteHolds
    <3> HIDE DEF next, outcome, since
    <3>3. IsCaller(next(cl)) /\ next(cl).since = since
      BY ZenonT(90), <2>1, <3>1, CallerChanges DEF IsCaller
    <3> QED BY <3>2, <3>3
  <2> QED BY <2>2, <2>3
<1> HIDE DEF next, outcome
<1>3. DOMAIN caller' = Callers /\ \A cl \in Callers : caller'[cl] = next(cl)
  BY <1>1
<1> QED BY <1>1, <1>2, <1>3 DEF TablesTold

(***************************************************************************)
(* Every step keeps the invariant.                                         *)
(***************************************************************************)
LEMMA ToldSteps == TablesTold /\ [NextPool]_poolVars => TablesTold'
<1> SUFFICES ASSUME TablesTold, [NextPool]_poolVars PROVE TablesTold'
  OBVIOUS
<1>1. CASE OpenPool \/ Unload
  BY <1>1 DEF OpenPool, Unload, TablesTold, IsCaller
<1>2. ASSUME NEW cl \in Callers, Call(cl) \/ Enqueue(cl) \/ GoAway(cl) PROVE TablesTold'
  BY <1>2, CallTells, EnqueueTells, GoAwayTells
<1>3. ASSUME NEW p \in DOMAIN pool, NEW w \in Workers, Execute(p, w) PROVE TablesTold'
  BY <1>3, ExecuteTells
<1>4. CASE UNCHANGED poolVars
  BY <1>4 DEF poolVars, TablesTold, IsCaller
<1> QED BY <1>1, <1>2, <1>3, <1>4 DEF NextPool

(***************************************************************************)
(* A caller's reads see every write it was answered before, though writer  *)
(* and readers are different connections and callers give up: for any      *)
(* number of callers, pools, workers and calls (db.rs).                    *)
(***************************************************************************)
THEOREM ReadsSeeWrites == PoolSpec => []ReadsFollowWrites
<1>1. PoolSpec => []TablesTold
  BY ToldInitially, ToldSteps, PTL DEF PoolSpec
<1> QED BY <1>1, ToldMeans, PTL

-----------------------------------------------------------------------------

(***************************************************************************)
(* The table that a Vec of entries stands for.                             *)
(***************************************************************************)
TableOf(v) ==
    [s \in {v[i].scope : i \in DOMAIN v} |->
        LET i == CHOOSE j \in DOMAIN v : v[j].scope = s
        IN  [at |-> v[i].at, pos |-> i]]

(***************************************************************************)
(* No scope has two entries.                                               *)
(***************************************************************************)
OncePerScope(v) == \A i, j \in DOMAIN v : v[i].scope = v[j].scope => i = j

(***************************************************************************)
(* How many of I are not after j.                                          *)
(***************************************************************************)
Rank(I, j) == Cardinality({k \in I : k <= j})

(***************************************************************************)
(* w is the entries of v at the positions in I, in their order.            *)
(***************************************************************************)
Selects(w, v, I) ==
    /\ I \subseteq DOMAIN v /\ w \in Seq(Entry)
    /\ \A j \in I : Rank(I, j) \in 1 .. Len(w) /\ w[Rank(I, j)] = v[j]
    /\ \A p \in 1 .. Len(w) : \E j \in I : p = Rank(I, j)

(***************************************************************************)
(* What the table says of an entry's scope.                                *)
(***************************************************************************)
LEMMA TableOfAt ==
    ASSUME NEW v, OncePerScope(v), NEW i \in DOMAIN v
    PROVE  /\ v[i].scope \in DOMAIN TableOf(v)
           /\ TableOf(v)[v[i].scope] = [at |-> v[i].at, pos |-> i]
<1> DEFINE s == v[i].scope
           chosen == CHOOSE j \in DOMAIN v : v[j].scope = s
<1>1. s \in {v[j].scope : j \in DOMAIN v}
  OBVIOUS
<1>2. chosen \in DOMAIN v /\ v[chosen].scope = s
  OBVIOUS
<1>3. chosen = i
  BY <1>2 DEF OncePerScope
<1>4. TableOf(v)[s] = [at |-> v[chosen].at, pos |-> chosen]
  BY <1>1 DEF TableOf
<1>5. s \in DOMAIN TableOf(v)
  BY <1>1 DEF TableOf
<1> HIDE DEF chosen
<1> QED BY <1>3, <1>4, <1>5

(***************************************************************************)
(* The scopes of the table are those of the entries.                       *)
(***************************************************************************)
LEMMA TableOfDomain ==
    ASSUME NEW v
    PROVE  DOMAIN TableOf(v) = {v[i].scope : i \in DOMAIN v}
BY DEF TableOf

(***************************************************************************)
(* Entries of different scopes are as many as their scopes.                *)
(***************************************************************************)
LEMMA SameSize ==
    ASSUME NEW v, OncePerScope(v), NEW I, I \subseteq DOMAIN v, IsFiniteSet(I)
    PROVE  Cardinality({v[i].scope : i \in I}) = Cardinality(I)
<1> DEFINE T == {v[i].scope : i \in I}
           f == [i \in I |-> v[i].scope]
<1>1. f \in [I -> T]
  OBVIOUS
<1>2. \A i, j \in I : f[i] = f[j] => i = j
  BY DEF OncePerScope
<1>3. \A t \in T : \E i \in I : f[i] = t
  OBVIOUS
<1> HIDE DEF T, f
<1>4. f \in Bijection(I, T)
  BY <1>1, <1>2, <1>3 DEF Bijection, Injection, Surjection, IsInjective
<1>5. ExistsBijection(I, T)
  BY <1>4 DEF ExistsBijection
<1> QED BY <1>5, FS_Bijection DEF T

(***************************************************************************)
(* A selection has no scope twice where the Vec has none.                  *)
(***************************************************************************)
LEMMA SelectionOnce ==
    ASSUME NEW v, OncePerScope(v), NEW I, NEW w, Selects(w, v, I)
    PROVE  OncePerScope(w)
<1> SUFFICES ASSUME NEW p \in 1 .. Len(w), NEW q \in 1 .. Len(w), w[p].scope = w[q].scope
             PROVE  p = q
  BY DEF OncePerScope, Selects
<1>1. PICK j \in I : p = Rank(I, j)
  BY DEF Selects
<1>2. PICK k \in I : q = Rank(I, k)
  BY DEF Selects
<1>3. w[p] = v[j] /\ w[q] = v[k]
  BY <1>1, <1>2 DEF Selects
<1>4. j = k
  BY <1>3 DEF OncePerScope, Selects
<1> QED BY <1>1, <1>2, <1>4

(***************************************************************************)
(* A selection by scopes stands for the table restricted to them.          *)
(***************************************************************************)
LEMMA SelectionRetains ==
    ASSUME NEW v \in Seq(Entry), OncePerScope(v), NEW I, NEW w, Selects(w, v, I), NEW T,
           \A i \in DOMAIN v : i \in I <=> v[i].scope \in T
    PROVE  TableOf(w) = Table!Retain(TableOf(v), T)
<1> DEFINE D == DOMAIN TableOf(v) \cap T
           tv == TableOf(v)
           entry(s) == [at |-> tv[s].at, pos |-> Cardinality({t \in D : tv[t].pos <= tv[s].pos})]
<1>1. Table!Retain(TableOf(v), T) = [s \in D |-> entry(s)]
  BY DEF Table!Retain, Table!Cardinality, Cardinality
<1>2. I \subseteq DOMAIN v /\ w \in Seq(Entry)
  BY DEF Selects
<1>3. OncePerScope(w)
  BY SelectionOnce
<1>4. D = {v[j].scope : j \in I}
  <2>1. DOMAIN TableOf(v) = {v[j].scope : j \in DOMAIN v}
    BY TableOfDomain
  <2> QED BY <1>2, <2>1
<1>5. DOMAIN TableOf(w) = D
  <2>1. DOMAIN TableOf(w) = {w[p].scope : p \in 1 .. Len(w)}
    <3>1. DOMAIN TableOf(w) = {w[p].scope : p \in DOMAIN w}
      BY TableOfDomain
    <3>2. DOMAIN w = 1 .. Len(w)
      BY <1>2
    <3> QED BY <3>1, <3>2
  <2>2. \A p \in 1 .. Len(w) : \E j \in I : w[p] = v[j]
    BY DEF Selects
  <2>3. \A j \in I : \E p \in 1 .. Len(w) : w[p] = v[j]
    BY DEF Selects
  <2> QED BY SMTT(60), <1>4, <2>1, <2>2, <2>3
<1>6. ASSUME NEW s \in D PROVE TableOf(w)[s] = entry(s)
  <2>1. PICK j \in I : v[j].scope = s
    BY <1>4
  <2>2. Rank(I, j) \in 1 .. Len(w) /\ w[Rank(I, j)] = v[j]
    BY DEF Selects
  <2>3. TableOf(w)[s] = [at |-> v[j].at, pos |-> Rank(I, j)]
    <3>1. Rank(I, j) \in DOMAIN w
      BY <1>2, <2>2
    <3> QED BY <1>3, <2>1, <2>2, <3>1, TableOfAt
  <2>4. tv[s] = [at |-> v[j].at, pos |-> j]
    BY <1>2, <2>1, TableOfAt
  <2> DEFINE J == {k \in I : k <= j}
  <2>5. {t \in D : tv[t].pos <= tv[s].pos} = {v[k].scope : k \in J}
    <3>1. \A k \in I : tv[v[k].scope].pos = k
      <4> TAKE k \in I
      <4>1. tv[v[k].scope] = [at |-> v[k].at, pos |-> k]
        BY <1>2, TableOfAt
      <4> QED BY <4>1
    <3>2. tv[s].pos = j
      BY <2>4
    <3> HIDE DEF tv
    <3> QED BY <1>4, <3>1, <3>2
  <2>6. IsFiniteSet(J)
    <3>1. J \subseteq 1 .. Len(v)
      BY <1>2
    <3>2. IsFiniteSet(1 .. Len(v))
      BY FS_Interval
    <3> QED BY <3>1, <3>2, FS_Subset
  <2>7. Cardinality({v[k].scope : k \in J}) = Cardinality(J)
    BY <1>2, <2>6, SameSize
  <2>8. Cardinality({t \in D : tv[t].pos <= tv[s].pos}) = Rank(I, j)
    BY <2>5, <2>7 DEF Rank
  <2> QED BY <2>3, <2>4, <2>8
<1>7. TableOf(w) = [s \in DOMAIN TableOf(w) |-> TableOf(w)[s]]
  BY DEF TableOf
<1> HIDE DEF entry, D
<1> QED BY <1>1, <1>5, <1>6, <1>7

-----------------------------------------------------------------------------

(***************************************************************************)
(* f is the filter of the first n entries, as the recursion of Retained    *)
(* defines it.                                                             *)
(***************************************************************************)
Keeps(S, n, f) ==
    f = [i \in 0 .. n |->
            IF i = 0 THEN <<>>
            ELSE IF entries[i] \in S THEN Append(f[i - 1], entries[i])
            ELSE f[i - 1]]

(***************************************************************************)
(* The positions up to i whose entries are in S.                           *)
(***************************************************************************)
Among(S, i) == {k \in 1 .. i : entries[k] \in S}

(***************************************************************************)
(* A filter of n entries can be continued with one more.                   *)
(***************************************************************************)
LEMMA KeepsLonger ==
    ASSUME NEW S, NEW n \in Nat, NEW f, Keeps(S, n, f)
    PROVE  \E g : Keeps(S, n + 1, g)
<1> DEFINE last == IF entries[n + 1] \in S THEN Append(f[n], entries[n + 1]) ELSE f[n]
           g == [i \in 0 .. n + 1 |-> IF i = n + 1 THEN last ELSE f[i]]
           longer == [i \in 0 .. n + 1 |->
                         IF i = 0 THEN <<>>
                         ELSE IF entries[i] \in S THEN Append(g[i - 1], entries[i])
                         ELSE g[i - 1]]
<1>1. \A i \in 0 .. n : g[i] = f[i]
  OBVIOUS
<1>2. \A i \in 0 .. n : f[i] = IF i = 0 THEN <<>>
                               ELSE IF entries[i] \in S THEN Append(f[i - 1], entries[i])
                               ELSE f[i - 1]
  BY DEF Keeps
<1>3. g[n + 1] = last
  OBVIOUS
<1>4. DOMAIN g = 0 .. n + 1 /\ g = [i \in 0 .. n + 1 |-> g[i]]
  OBVIOUS
<1> HIDE DEF g
<1>5. ASSUME NEW i \in 0 .. n + 1
      PROVE  g[i] = IF i = 0 THEN <<>>
                    ELSE IF entries[i] \in S THEN Append(g[i - 1], entries[i])
                    ELSE g[i - 1]
  <2>1. CASE i = 0
    BY <1>1, <1>2, <2>1
  <2>2. CASE i \in 1 .. n
    <3>1. i \in 0 .. n /\ i - 1 \in 0 .. n
      BY <2>2
    <3>2. g[i] = f[i] /\ g[i - 1] = f[i - 1]
      BY <1>1, <3>1
    <3> QED BY <1>2, <2>2, <3>1, <3>2
  <2>3. CASE i = n + 1
    <3>1. n \in 0 .. n /\ i - 1 = n /\ i # 0
      BY <2>3
    <3>2. g[i - 1] = f[n]
      BY <1>1, <3>1
    <3> QED BY <1>3, <2>3, <3>1, <3>2
  <2> QED BY <2>1, <2>2, <2>3
<1>6. g = longer
  BY <1>4, <1>5
<1> QED BY <1>6 DEF Keeps

(***************************************************************************)
(* There is a filter of any length: no length is the least without one.    *)
(***************************************************************************)
LEMMA KeepsExists ==
    ASSUME NEW S
    PROVE  \A n \in Nat : \E f : Keeps(S, n, f)
<1> DEFINE without == {n \in Nat : ~ \E f : Keeps(S, n, f)}
<1> SUFFICES ASSUME without # {} PROVE FALSE
  OBVIOUS
<1>1. without \subseteq Nat
  OBVIOUS
<1>2. PICK least \in without : \A n \in without : ~(<<n, least>> \in OpToRel(<, Nat))
  <2> HIDE DEF without
  <2> QED BY <1>1, NatLessThanWellFounded, WFMin
<1>3. least \in Nat /\ ~ \E f : Keeps(S, least, f)
  OBVIOUS
<1>4. CASE least = 0
  <2> DEFINE f == [i \in 0 .. 0 |-> <<>>]
  <2>1. f = [i \in 0 .. 0 |->
                IF i = 0 THEN <<>>
                ELSE IF entries[i] \in S THEN Append(f[i - 1], entries[i])
                ELSE f[i - 1]]
    OBVIOUS
  <2> HIDE DEF f
  <2>2. Keeps(S, 0, f)
    BY <2>1 DEF Keeps
  <2> QED BY <1>3, <1>4, <2>2
<1>5. CASE least # 0
  <2>1. least - 1 \in Nat /\ least - 1 < least /\ (least - 1) + 1 = least
    BY <1>3, <1>5
  <2>2. least - 1 \notin without
    BY <1>2, <1>3, <2>1 DEF OpToRel
  <2>3. PICK f : Keeps(S, least - 1, f)
    BY <2>1, <2>2
  <2>4. \E g : Keeps(S, (least - 1) + 1, g)
    BY <2>1, <2>3, KeepsLonger
  <2> QED BY <1>3, <2>1, <2>4
<1> QED BY <1>4, <1>5

(***************************************************************************)
(* w is the selection of the first i entries that are in S.                *)
(***************************************************************************)
Sifts(S, i, w) ==
    /\ w \in Seq(Entry) /\ Len(w) = Cardinality(Among(S, i))
    /\ \A j \in Among(S, i) :
           /\ Cardinality(Among(S, j)) \in 1 .. Len(w)
           /\ w[Cardinality(Among(S, j))] = entries[j]
    /\ \A p \in 1 .. Len(w) : \E j \in Among(S, i) : p = Cardinality(Among(S, j))

(***************************************************************************)
(* One more entry is one more position, or none.                           *)
(***************************************************************************)
LEMMA AmongGrows ==
    ASSUME NEW S, NEW i \in Nat
    PROVE  /\ IsFiniteSet(Among(S, i)) /\ Cardinality(Among(S, i)) \in Nat
           /\ entries[i + 1] \in S =>
                  /\ Among(S, i + 1) = Among(S, i) \cup {i + 1}
                  /\ Cardinality(Among(S, i + 1)) = Cardinality(Among(S, i)) + 1
           /\ entries[i + 1] \notin S => Among(S, i + 1) = Among(S, i)
<1>1. IsFiniteSet(Among(S, i))
  <2>1. IsFiniteSet(1 .. i) /\ Among(S, i) \subseteq 1 .. i
    BY FS_Interval DEF Among
  <2> QED BY <2>1, FS_Subset
<1>2. Cardinality(Among(S, i)) \in Nat
  BY <1>1, FS_CardinalityType
<1>3. entries[i + 1] \in S => Among(S, i + 1) = Among(S, i) \cup {i + 1}
  BY DEF Among
<1>4. i + 1 \notin Among(S, i)
  BY DEF Among
<1>5. Cardinality(Among(S, i) \cup {i + 1}) = Cardinality(Among(S, i)) + 1
  BY <1>1, <1>4, FS_AddElement
<1>6. entries[i + 1] \notin S => Among(S, i + 1) = Among(S, i)
  BY DEF Among
<1> QED BY <1>1, <1>2, <1>3, <1>5, <1>6

(***************************************************************************)
(* A selection continued with one more entry is a selection.               *)
(***************************************************************************)
LEMMA SiftsLonger ==
    ASSUME NEW S, entries \in Seq(Entry), NEW i \in Nat, i + 1 \in 1 .. Len(entries),
           NEW w, Sifts(S, i, w)
    PROVE  Sifts(S, i + 1,
                 IF entries[i + 1] \in S THEN Append(w, entries[i + 1]) ELSE w)
<1>1. CASE entries[i + 1] \notin S
  <2>1. Among(S, i + 1) = Among(S, i)
    BY <1>1, AmongGrows
  <2> QED BY <1>1, <2>1 DEF Sifts
<1>2. CASE entries[i + 1] \in S
  <2> DEFINE e == entries[i + 1]
             longer == Append(w, e)
             n == Cardinality(Among(S, i))
  <2>1. /\ n \in Nat /\ Among(S, i + 1) = Among(S, i) \cup {i + 1}
        /\ Cardinality(Among(S, i + 1)) = n + 1
    BY <1>2, AmongGrows
  <2>2. w \in Seq(Entry) /\ Len(w) = n
    BY DEF Sifts
  <2>3. e \in Entry
    OBVIOUS
  <2> HIDE DEF e, n
  <2>4. /\ longer \in Seq(Entry) /\ Len(longer) = n + 1
        /\ \A p \in 1 .. n : longer[p] = w[p]
        /\ longer[n + 1] = e
    BY <2>1, <2>2, <2>3
  <2> HIDE DEF longer
  <2>5. ASSUME NEW j \in Among(S, i + 1)
        PROVE  /\ Cardinality(Among(S, j)) \in 1 .. Len(longer)
               /\ longer[Cardinality(Among(S, j))] = entries[j]
    <3>1. CASE j \in Among(S, i)
      <4>1. Cardinality(Among(S, j)) \in 1 .. n /\ w[Cardinality(Among(S, j))] = entries[j]
        BY <2>2, <3>1 DEF Sifts
      <4> QED BY <2>1, <2>4, <4>1
    <3>2. CASE j = i + 1
      BY <2>1, <2>4, <3>2 DEF e
    <3> QED BY <2>1, <3>1, <3>2
  <2>6. ASSUME NEW p \in 1 .. Len(longer)
        PROVE  \E j \in Among(S, i + 1) : p = Cardinality(Among(S, j))
    <3>1. CASE p \in 1 .. n
      <4>1. \E j \in Among(S, i) : p = Cardinality(Among(S, j))
        BY <2>2, <3>1 DEF Sifts
      <4> QED BY <2>1, <4>1
    <3>2. CASE p = n + 1
      BY <2>1, <3>2
    <3> QED BY <2>1, <2>4, <3>1, <3>2
  <2>7. Sifts(S, i + 1, longer)
    BY <2>1, <2>4, <2>5, <2>6 DEF Sifts
  <2> QED BY <1>2, <2>7 DEF longer, e
<1> QED BY <1>1, <1>2

(***************************************************************************)
(* Every step of the filter is a selection: no step is the first that is   *)
(* not.                                                                    *)
(***************************************************************************)
LEMMA KeepsSifts ==
    ASSUME NEW S, entries \in Seq(Entry), NEW f, Keeps(S, Len(entries), f)
    PROVE  \A i \in 0 .. Len(entries) : Sifts(S, i, f[i])
<1> DEFINE wrong == {i \in 0 .. Len(entries) : ~Sifts(S, i, f[i])}
<1> SUFFICES ASSUME wrong # {} PROVE FALSE
  OBVIOUS
<1>1. Len(entries) \in Nat /\ wrong \subseteq Nat
  OBVIOUS
<1>2. PICK least \in wrong : \A n \in wrong : ~(<<n, least>> \in OpToRel(<, Nat))
  <2> HIDE DEF wrong
  <2> QED BY <1>1, NatLessThanWellFounded, WFMin
<1>3. least \in 0 .. Len(entries) /\ ~Sifts(S, least, f[least])
  OBVIOUS
<1>4. \A i \in 0 .. Len(entries) :
          f[i] = IF i = 0 THEN <<>>
                 ELSE IF entries[i] \in S THEN Append(f[i - 1], entries[i])
                 ELSE f[i - 1]
  BY DEF Keeps
<1>5. CASE least = 0
  <2>1. f[0] = <<>>
    BY <1>1, <1>4
  <2>2. Among(S, 0) = {}
    BY DEF Among
  <2>3. Cardinality(Among(S, 0)) = 0
    BY <2>2, FS_EmptySet
  <2>4. Sifts(S, 0, <<>>)
    BY <2>2, <2>3 DEF Sifts
  <2> QED BY <1>3, <1>5, <2>1, <2>4
<1>6. CASE least # 0
  <2> DEFINE i == least - 1
  <2>1. i \in Nat /\ i \in 0 .. Len(entries) /\ i < least /\ i + 1 = least
    BY <1>1, <1>3, <1>6
  <2>2. i \notin wrong
    BY <1>1, <1>2, <1>3, <2>1 DEF OpToRel
  <2>3. Sifts(S, i, f[i])
    BY <2>1, <2>2
  <2> HIDE DEF i
  <2>4. f[least] = IF entries[i + 1] \in S THEN Append(f[i], entries[i + 1]) ELSE f[i]
    <3>1. least - 1 = i
      BY DEF i
    <3> QED BY <1>3, <1>4, <1>6, <2>1, <3>1
  <2>5. i + 1 \in 1 .. Len(entries)
    BY <1>1, <1>3, <1>6, <2>1
  <2>6. Sifts(S, i + 1, f[least])
    BY <2>1, <2>3, <2>4, <2>5, SiftsLonger
  <2> QED BY <1>3, <2>1, <2>6
<1> QED BY <1>5, <1>6

(***************************************************************************)
(* Vec::retain selects exactly the entries it is told to keep.             *)
(***************************************************************************)
LEMMA RetainedSelects ==
    ASSUME NEW S, entries \in Seq(Entry)
    PROVE  Selects(Retained(S), entries, {k \in DOMAIN entries : entries[k] \in S})
<1> DEFINE f == CHOOSE g : Keeps(S, Len(entries), g)
           I == {k \in DOMAIN entries : entries[k] \in S}
<1>1. Len(entries) \in Nat /\ DOMAIN entries = 1 .. Len(entries)
  OBVIOUS
<1>2. Keeps(S, Len(entries), f)
  BY <1>1, KeepsExists
<1>3. Retained(S) = f[Len(entries)]
  BY DEF Retained, Keeps
<1> HIDE DEF f
<1>4. Sifts(S, Len(entries), Retained(S))
  BY <1>1, <1>2, <1>3, KeepsSifts
<1>5. I = Among(S, Len(entries))
  BY <1>1 DEF Among
<1>6. \A j \in I : Rank(I, j) = Cardinality(Among(S, j))
  <2> TAKE j \in I
  <2>1. {k \in I : k <= j} = Among(S, j)
    BY <1>1 DEF Among
  <2> QED BY <2>1 DEF Rank
<1> HIDE DEF I
<1>7. I \subseteq DOMAIN entries
  BY DEF I
<1>8. /\ Retained(S) \in Seq(Entry)
      /\ \A j \in I : Rank(I, j) \in 1 .. Len(Retained(S)) /\ Retained(S)[Rank(I, j)] = entries[j]
      /\ \A p \in 1 .. Len(Retained(S)) : \E j \in I : p = Rank(I, j)
  BY <1>4, <1>5, <1>6 DEF Sifts
<1>9. Selects(Retained(S), entries, I)
  BY <1>7, <1>8 DEF Selects
<1> QED BY <1>9 DEF I

-----------------------------------------------------------------------------

(***************************************************************************)
(* The table counts as the Vec does.                                       *)
(***************************************************************************)
LEMMA SameCount ==
    ASSUME NEW S
    PROVE  Table!Cardinality(S) = Cardinality(S)
BY DEF Table!Cardinality, Cardinality

(***************************************************************************)
(* A selection is no longer than the Vec.                                  *)
(***************************************************************************)
LEMMA SelectionShorter ==
    ASSUME NEW v \in Seq(Entry), NEW I, NEW w, Selects(w, v, I)
    PROVE  Len(w) \in Nat /\ Len(w) <= Len(v)
<1>1. Len(w) \in Nat /\ Len(v) \in Nat /\ DOMAIN v = 1 .. Len(v)
  BY DEF Selects
<1>2. CASE Len(w) # 0
  <2>1. Len(w) \in 1 .. Len(w)
    BY <1>1, <1>2
  <2>2. PICK j \in I : Len(w) = Rank(I, j)
    BY <2>1 DEF Selects
  <2>3. j \in 1 .. Len(v)
    BY <1>1 DEF Selects
  <2>4. {k \in I : k <= j} \subseteq 1 .. j
    BY <1>1 DEF Selects
  <2>5. IsFiniteSet(1 .. j) /\ Cardinality(1 .. j) = j
    BY <2>3, FS_Interval
  <2>6. Cardinality({k \in I : k <= j}) <= Cardinality(1 .. j)
    BY <2>4, <2>5, FS_Subset
  <2> QED BY <1>1, <2>2, <2>3, <2>5, <2>6 DEF Rank
<1> QED BY <1>1, <1>2

(***************************************************************************)
(* The table has as many scopes as the Vec has entries.                    *)
(***************************************************************************)
LEMMA TableSize ==
    ASSUME NEW v \in Seq(Entry), OncePerScope(v)
    PROVE  Cardinality(DOMAIN TableOf(v)) = Len(v)
<1>1. Len(v) \in Nat /\ DOMAIN v = 1 .. Len(v)
  OBVIOUS
<1>2. IsFiniteSet(1 .. Len(v)) /\ Cardinality(1 .. Len(v)) = Len(v)
  BY SMTT(60), <1>1, FS_Interval
<1>3. DOMAIN TableOf(v) = {v[i].scope : i \in DOMAIN v}
  BY TableOfDomain
<1>4. Cardinality({v[i].scope : i \in DOMAIN v}) = Cardinality(DOMAIN v)
  BY <1>1, <1>2, SameSize
<1> QED BY <1>1, <1>2, <1>3, <1>4

(***************************************************************************)
(* Vec::push is PushBack of the table.                                     *)
(***************************************************************************)
LEMMA AppendPushes ==
    ASSUME NEW v \in Seq(Entry), OncePerScope(v), NEW s \in Scopes, NEW at \in Instants,
           s \notin DOMAIN TableOf(v)
    PROVE  LET w == Append(v, [scope |-> s, at |-> at])
           IN  /\ w \in Seq(Entry) /\ Len(w) = Len(v) + 1 /\ OncePerScope(w)
               /\ TableOf(w) = Table!PushBack(TableOf(v), s, at)
<1> DEFINE e == [scope |-> s, at |-> at]
           w == Append(v, e)
           tv == TableOf(v)
           n == Len(v)
           new == [at |-> at, pos |-> n + 1]
<1>1. e \in Entry /\ e.scope = s /\ e.at = at
  BY DEF Entry
<1>2. n \in Nat /\ DOMAIN v = 1 .. n
  OBVIOUS
<1> HIDE DEF e
<1>3. /\ w \in Seq(Entry) /\ Len(w) = n + 1 /\ DOMAIN w = 1 .. n + 1
      /\ \A i \in 1 .. n : w[i] = v[i]
      /\ w[n + 1] = e
  BY <1>1, <1>2
<1> HIDE DEF w, n
<1>4. \A i \in DOMAIN v : v[i].scope # s
  BY TableOfDomain
<1>5. OncePerScope(w)
  <2> SUFFICES ASSUME NEW i \in DOMAIN w, NEW j \in DOMAIN w, w[i].scope = w[j].scope
               PROVE  i = j
    BY DEF OncePerScope
  <2>1. CASE i \in 1 .. n /\ j \in 1 .. n
    BY <1>2, <1>3, <2>1 DEF OncePerScope
  <2>2. CASE i = n + 1 /\ j \in 1 .. n
    BY <1>1, <1>2, <1>3, <1>4, <2>2
  <2>3. CASE i \in 1 .. n /\ j = n + 1
    BY <1>1, <1>2, <1>3, <1>4, <2>3
  <2>4. CASE i = n + 1 /\ j = n + 1
    BY <2>4
  <2> QED BY <1>2, <1>3, <2>1, <2>2, <2>3, <2>4
<1>6. Table!PushBack(tv, s, at) =
          [t \in DOMAIN tv \cup {s} |-> IF t = s THEN new ELSE tv[t]]
  <2>1. DOMAIN tv \ {s} = DOMAIN tv
    OBVIOUS
  <2>2. Table!Cardinality(DOMAIN tv \ {s}) = n
    BY <2>1, SameCount, TableSize DEF n
  <2> HIDE DEF tv
  <2> QED BY <2>2 DEF Table!PushBack
<1>7. DOMAIN TableOf(w) = DOMAIN tv \cup {s}
  <2>1. DOMAIN TableOf(w) = {w[i].scope : i \in 1 .. n + 1}
    <3>1. DOMAIN TableOf(w) = {w[i].scope : i \in DOMAIN w}
      BY TableOfDomain
    <3> QED BY <1>3, <3>1
  <2>2. DOMAIN tv = {v[i].scope : i \in 1 .. n}
    <3>1. DOMAIN TableOf(v) = {v[i].scope : i \in DOMAIN v}
      BY TableOfDomain
    <3> QED BY <1>2, <3>1
  <2>3. 1 .. n + 1 = (1 .. n) \cup {n + 1}
    BY <1>2
  <2>4. w[n + 1].scope = s /\ \A i \in 1 .. n : w[i].scope = v[i].scope
    BY <1>1, <1>3
  <2> QED BY <2>1, <2>2, <2>3, <2>4
<1>8. ASSUME NEW t \in DOMAIN tv \cup {s}
      PROVE  TableOf(w)[t] = IF t = s THEN new ELSE tv[t]
  <2>1. CASE t = s
    <3>1. n + 1 \in DOMAIN w
      BY <1>2, <1>3
    <3>2. TableOf(w)[w[n + 1].scope] = [at |-> w[n + 1].at, pos |-> n + 1]
      BY <1>5, <3>1, TableOfAt
    <3> QED BY <1>1, <1>3, <2>1, <3>2
  <2>2. CASE t # s
    <3>1. PICK i \in DOMAIN v : v[i].scope = t
      <4>1. DOMAIN tv = {v[i].scope : i \in DOMAIN v}
        BY TableOfDomain
      <4> QED BY <2>2, <4>1
    <3>2. tv[t] = [at |-> v[i].at, pos |-> i]
      BY <3>1, TableOfAt
    <3>3. i \in DOMAIN w /\ w[i] = v[i]
      BY <1>2, <1>3
    <3>4. TableOf(w)[t] = [at |-> v[i].at, pos |-> i]
      BY <1>5, <3>1, <3>3, TableOfAt
    <3> QED BY <2>2, <3>2, <3>4
  <2> QED BY <2>1, <2>2
<1>9. TableOf(w) = [t \in DOMAIN TableOf(w) |-> TableOf(w)[t]]
  BY DEF TableOf
<1>10. TableOf(w) = Table!PushBack(tv, s, at)
  <2> HIDE DEF tv, new
  <2> QED BY <1>6, <1>7, <1>8, <1>9
<1> QED BY <1>3, <1>5, <1>10 DEF w, e, n

(***************************************************************************)
(* Removing the first entry selects the others.                            *)
(***************************************************************************)
LEMMA TailSelects ==
    ASSUME NEW v \in Seq(Entry), v # <<>>
    PROVE  Selects(Tail(v), v, 2 .. Len(v))
<1>1. /\ Len(v) \in Nat /\ Len(v) >= 1 /\ DOMAIN v = 1 .. Len(v)
      /\ Tail(v) \in Seq(Entry) /\ Len(Tail(v)) = Len(v) - 1
      /\ \A p \in 1 .. Len(v) - 1 : Tail(v)[p] = v[p + 1]
  OBVIOUS
<1> DEFINE I == 2 .. Len(v)
<1>2. ASSUME NEW j \in I PROVE Rank(I, j) = j - 1
  <2>1. {k \in I : k <= j} = 2 .. j
    BY <1>1
  <2>2. Cardinality(2 .. j) = j - 1
    <3>1. 2 \in Int /\ j \in Int /\ ~(2 > j)
      BY <1>1
    <3>2. Cardinality(2 .. j) = IF 2 > j THEN 0 ELSE j - 2 + 1
      BY <3>1, FS_Interval
    <3> QED BY <3>1, <3>2
  <2> QED BY <2>1, <2>2 DEF Rank
<1>3. I \subseteq DOMAIN v
  BY <1>1
<1>4. ASSUME NEW j \in I
      PROVE  Rank(I, j) \in 1 .. Len(Tail(v)) /\ Tail(v)[Rank(I, j)] = v[j]
  <2>1. j - 1 \in 1 .. Len(v) - 1 /\ (j - 1) + 1 = j
    BY <1>1
  <2>2. Tail(v)[j - 1] = v[j]
    BY <1>1, <2>1
  <2> QED BY <1>1, <1>2, <2>1, <2>2
<1>5. ASSUME NEW p \in 1 .. Len(Tail(v)) PROVE \E j \in I : p = Rank(I, j)
  <2>1. p + 1 \in I /\ (p + 1) - 1 = p
    BY <1>1
  <2>2. Rank(I, p + 1) = p
    BY <1>2, <2>1
  <2> QED BY <2>1, <2>2
<1> HIDE DEF I
<1>6. Selects(Tail(v), v, I)
  BY <1>1, <1>3, <1>4, <1>5 DEF Selects
<1> QED BY <1>6 DEF I

(***************************************************************************)
(* Vec::remove(i) selects the others.                                      *)
(***************************************************************************)
LEMMA RemoveAtSelects ==
    ASSUME NEW v \in Seq(Entry), NEW i \in DOMAIN v
    PROVE  Selects(Vec!RemoveAt(v, i), v, DOMAIN v \ {i})
<1> DEFINE w == Vec!RemoveAt(v, i)
           I == DOMAIN v \ {i}
           front == SubSeq(v, 1, i - 1)
           back == SubSeq(v, i + 1, Len(v))
<1>1. Len(v) \in Nat /\ DOMAIN v = 1 .. Len(v) /\ i \in 1 .. Len(v)
  OBVIOUS
<1>2. w = front \o back
  BY DEF Vec!RemoveAt
<1>3. /\ front \in Seq(Entry) /\ Len(front) = i - 1
      /\ \A p \in 1 .. i - 1 : front[p] = v[p]
  BY <1>1
<1>4. /\ back \in Seq(Entry) /\ Len(back) = Len(v) - i
      /\ \A p \in 1 .. Len(v) - i : back[p] = v[p + i]
  BY SMTT(60), <1>1
<1> HIDE DEF w, front, back
<1>5. /\ w \in Seq(Entry) /\ Len(w) = Len(v) - 1
      /\ \A p \in 1 .. i - 1 : w[p] = front[p]
      /\ \A p \in i .. Len(v) - 1 : w[p] = back[p - (i - 1)]
  <2>1. w \in Seq(Entry)
    BY <1>2, <1>3, <1>4
  <2>2. Len(w) = (i - 1) + (Len(v) - i)
    <3>1. Len(w) = Len(front) + Len(back)
      BY <1>2, <1>3, <1>4, ConcatProperties
    <3> QED BY <1>3, <1>4, <3>1
  <2>3. ASSUME NEW p \in 1 .. i - 1 PROVE w[p] = front[p]
    <3>1. p \in 1 .. Len(front) + Len(back) /\ p <= Len(front)
      BY <1>1, <1>3, <1>4
    <3> QED BY <1>2, <1>3, <1>4, <3>1, ConcatProperties
  <2>4. ASSUME NEW p \in i .. Len(v) - 1 PROVE w[p] = back[p - (i - 1)]
    <3>1. p \in 1 .. Len(front) + Len(back) /\ ~(p <= Len(front))
      BY <1>1, <1>3, <1>4
    <3>2. w[p] = back[p - Len(front)]
      BY <1>2, <1>3, <1>4, <3>1, ConcatProperties
    <3> QED BY <1>3, <3>2
  <2> QED BY <1>1, <2>1, <2>2, <2>3, <2>4
<1>6. /\ \A p \in 1 .. i - 1 : w[p] = v[p]
      /\ \A p \in i .. Len(v) - 1 : w[p] = v[p + 1]
  <2>1. \A p \in 1 .. i - 1 : w[p] = v[p]
    BY <1>3, <1>5
  <2>2. ASSUME NEW p \in i .. Len(v) - 1 PROVE w[p] = v[p + 1]
    <3>1. p - (i - 1) \in 1 .. Len(v) - i /\ (p - (i - 1)) + i = p + 1
      BY <1>1
    <3> QED BY <1>4, <1>5, <3>1
  <2> QED BY <2>1, <2>2
<1>7. ASSUME NEW j \in I PROVE Rank(I, j) = IF j < i THEN j ELSE j - 1
  <2>1. j \in 1 .. Len(v) /\ j # i
    BY <1>1
  <2>2. IsFiniteSet(1 .. j) /\ Cardinality(1 .. j) = j
    BY <2>1, FS_Interval
  <2>3. {k \in I : k <= j} = (1 .. j) \ {i}
    BY <1>1, <2>1
  <2>4. Cardinality((1 .. j) \ {i}) = IF i \in 1 .. j THEN Cardinality(1 .. j) - 1
                                      ELSE Cardinality(1 .. j)
    BY <2>2, FS_RemoveElement
  <2>5. i \in 1 .. j <=> ~(j < i)
    BY <1>1, <2>1
  <2> QED BY <2>2, <2>3, <2>4, <2>5 DEF Rank
<1>8. I \subseteq DOMAIN v
  OBVIOUS
<1>9. ASSUME NEW j \in I PROVE Rank(I, j) \in 1 .. Len(w) /\ w[Rank(I, j)] = v[j]
  <2>1. j \in 1 .. Len(v) /\ j # i
    BY <1>1
  <2>2. CASE j < i
    <3>1. Rank(I, j) = j
      BY <1>7, <2>2
    <3>2. j \in 1 .. i - 1 /\ j \in 1 .. Len(w)
      BY <1>1, <1>5, <2>1, <2>2
    <3> QED BY <1>6, <3>1, <3>2
  <2>3. CASE ~(j < i)
    <3>1. Rank(I, j) = j - 1
      BY <1>7, <2>3
    <3>2. j - 1 \in i .. Len(v) - 1 /\ (j - 1) + 1 = j /\ j - 1 \in 1 .. Len(w)
      BY <1>1, <1>5, <2>1, <2>3
    <3>3. w[j - 1] = v[(j - 1) + 1]
      BY <1>6, <3>2
    <3> QED BY <3>1, <3>2, <3>3
  <2> QED BY <2>2, <2>3
<1>10. ASSUME NEW p \in 1 .. Len(w) PROVE \E j \in I : p = Rank(I, j)
  <2>1. CASE p < i
    <3>1. p \in I
      BY <1>1, <1>5, <2>1
    <3> QED BY <1>7, <2>1, <3>1
  <2>2. CASE ~(p < i)
    <3>1. p + 1 \in I /\ ~(p + 1 < i) /\ (p + 1) - 1 = p
      BY <1>1, <1>5, <2>2
    <3>2. Rank(I, p + 1) = p
      BY <1>7, <3>1
    <3> QED BY <3>1, <3>2
  <2> QED BY <2>1, <2>2
<1> HIDE DEF I
<1>11. Selects(w, v, I)
  BY <1>5, <1>8, <1>9, <1>10 DEF Selects
<1> QED BY <1>11 DEF w, I

-----------------------------------------------------------------------------

(***************************************************************************)
(* What Vec::retain by scope leaves, and the table it stands for.          *)
(***************************************************************************)
LEMMA RetainedIs ==
    ASSUME VecSound, NEW S, NEW T,
           \A i \in DOMAIN entries : entries[i] \in S <=> entries[i].scope \in T
    PROVE  /\ Retained(S) \in Seq(Entry) /\ OncePerScope(Retained(S))
           /\ Len(Retained(S)) <= Len(entries)
           /\ TableOf(Retained(S)) = Table!Retain(TableOf(entries), T)
           /\ \A i \in DOMAIN Retained(S) :
                  \E j \in DOMAIN entries : entries[j] \in S /\ Retained(S)[i] = entries[j]
<1> DEFINE I == {k \in DOMAIN entries : entries[k] \in S}
<1>1. entries \in Seq(Entry) /\ OncePerScope(entries)
  BY DEF VecSound, TypeOK, OneEntryPerScope, OncePerScope
<1>2. Selects(Retained(S), entries, I)
  BY <1>1, RetainedSelects
<1>3. \A i \in DOMAIN entries : i \in I <=> entries[i].scope \in T
  OBVIOUS
<1>4. \A i \in I : entries[i] \in S
  OBVIOUS
<1> HIDE DEF I
<1>5. Retained(S) \in Seq(Entry)
  BY <1>2 DEF Selects
<1>6. OncePerScope(Retained(S))
  BY <1>1, <1>2, SelectionOnce
<1>7. Len(Retained(S)) <= Len(entries)
  BY <1>1, <1>2, SelectionShorter
<1>8. TableOf(Retained(S)) = Table!Retain(TableOf(entries), T)
  BY <1>1, <1>2, <1>3, SelectionRetains
<1>9. ASSUME NEW i \in DOMAIN Retained(S)
      PROVE  \E j \in DOMAIN entries : entries[j] \in S /\ Retained(S)[i] = entries[j]
  <2>1. i \in 1 .. Len(Retained(S))
    BY <1>5
  <2>2. PICK j \in I : i = Rank(I, j)
    BY <1>2, <2>1 DEF Selects
  <2>3. Retained(S)[i] = entries[j] /\ j \in DOMAIN entries
    BY <1>2, <2>2 DEF Selects
  <2> QED BY <1>4, <2>2, <2>3
<1> QED BY <1>5, <1>6, <1>7, <1>8, <1>9

(***************************************************************************)
(* Leaving out a scope removes it from the table.                          *)
(***************************************************************************)
LEMMA WithoutRemoves ==
    ASSUME VecSound, NEW s \in Scopes
    PROVE  /\ Without(s) \in Seq(Entry) /\ OncePerScope(Without(s))
           /\ Len(Without(s)) <= Len(entries)
           /\ TableOf(Without(s)) = Table!Remove(TableOf(entries), s)
           /\ s \notin DOMAIN TableOf(Without(s))
<1> DEFINE S == {e \in Entry : e.scope # s}
           T == DOMAIN TableOf(entries) \ {s}
<1>1. Without(s) = Retained(S)
  BY DEF Without
<1>2. ASSUME NEW i \in DOMAIN entries PROVE entries[i] \in S <=> entries[i].scope \in T
  <2>1. entries[i] \in Entry
    BY DEF VecSound, TypeOK
  <2>2. entries[i].scope \in DOMAIN TableOf(entries)
    <3>1. DOMAIN TableOf(entries) = {entries[j].scope : j \in DOMAIN entries}
      BY TableOfDomain
    <3> QED BY <3>1
  <2> QED BY <2>1, <2>2
<1>3. \A e \in S : e.scope # s
  OBVIOUS
<1>4. Table!Remove(TableOf(entries), s) = Table!Retain(TableOf(entries), T)
  BY DEF Table!Remove
<1> HIDE DEF S, T
<1>5. /\ Retained(S) \in Seq(Entry) /\ OncePerScope(Retained(S))
      /\ Len(Retained(S)) <= Len(entries)
      /\ TableOf(Retained(S)) = Table!Retain(TableOf(entries), T)
      /\ \A i \in DOMAIN Retained(S) :
             \E j \in DOMAIN entries : entries[j] \in S /\ Retained(S)[i] = entries[j]
  BY <1>2, RetainedIs
<1>6. s \notin DOMAIN TableOf(Without(s))
  <2>1. DOMAIN TableOf(Without(s)) = {Without(s)[j].scope : j \in DOMAIN Without(s)}
    BY TableOfDomain
  <2>2. \A i \in DOMAIN Without(s) : Without(s)[i].scope # s
    BY <1>1, <1>3, <1>5
  <2> QED BY <2>1, <2>2
<1> QED BY <1>1, <1>4, <1>5, <1>6

(***************************************************************************)
(* Leaving out what expired is RetainUnexpired of the table.               *)
(***************************************************************************)
LEMMA UnexpiredRetains ==
    ASSUME VecSound, NEW now, NEW ttl
    PROVE  /\ Unexpired(now, ttl) \in Seq(Entry) /\ OncePerScope(Unexpired(now, ttl))
           /\ Len(Unexpired(now, ttl)) <= Len(entries)
           /\ TableOf(Unexpired(now, ttl)) =
                  Table!RetainUnexpired(TableOf(entries), now, ttl)
           /\ DOMAIN TableOf(Unexpired(now, ttl)) = Table!Live(TableOf(entries), now, ttl)
<1> DEFINE S == {e \in Entry : e.at <= now /\ now - e.at < ttl}
           T == Table!Live(TableOf(entries), now, ttl)
<1>1. Unexpired(now, ttl) = Retained(S)
  BY DEF Unexpired
<1>2. ASSUME NEW i \in DOMAIN entries PROVE entries[i] \in S <=> entries[i].scope \in T
  <2>1. entries[i] \in Entry /\ OncePerScope(entries)
    BY DEF VecSound, TypeOK, OneEntryPerScope, OncePerScope
  <2>2. /\ entries[i].scope \in DOMAIN TableOf(entries)
        /\ TableOf(entries)[entries[i].scope] = [at |-> entries[i].at, pos |-> i]
    BY <2>1, TableOfAt
  <2>3. TableOf(entries)[entries[i].scope].at = entries[i].at
    BY <2>2
  <2> QED BY <2>1, <2>2, <2>3 DEF Table!Live, Table!IsLive
<1>3. Table!RetainUnexpired(TableOf(entries), now, ttl) = Table!Retain(TableOf(entries), T)
  BY DEF Table!RetainUnexpired
<1>4. T \subseteq DOMAIN TableOf(entries)
  BY DEF Table!Live
<1> HIDE DEF S, T
<1>5. /\ Retained(S) \in Seq(Entry) /\ OncePerScope(Retained(S))
      /\ Len(Retained(S)) <= Len(entries)
      /\ TableOf(Retained(S)) = Table!Retain(TableOf(entries), T)
  BY <1>2, RetainedIs
<1>6. DOMAIN Table!Retain(TableOf(entries), T) = T
  BY <1>4 DEF Table!Retain
<1> QED BY <1>1, <1>3, <1>5, <1>6 DEF T

(***************************************************************************)
(* Vec::remove at a position removes that entry's scope from the table.    *)
(***************************************************************************)
LEMMA RemovedAt ==
    ASSUME NEW v \in Seq(Entry), OncePerScope(v), NEW i \in DOMAIN v
    PROVE  LET w == Vec!RemoveAt(v, i)
               s == v[i].scope
           IN  /\ w \in Seq(Entry) /\ OncePerScope(w) /\ Len(w) = Len(v) - 1
               /\ TableOf(w) = Table!Remove(TableOf(v), s)
               /\ s \notin DOMAIN TableOf(w)
<1> DEFINE w == Vec!RemoveAt(v, i)
           s == v[i].scope
           I == DOMAIN v \ {i}
           T == DOMAIN TableOf(v) \ {s}
<1>1. Selects(w, v, I)
  BY RemoveAtSelects
<1>2. ASSUME NEW j \in DOMAIN v PROVE j \in I <=> v[j].scope \in T
  <2>1. v[j].scope \in DOMAIN TableOf(v)
    BY TableOfAt
  <2>2. v[j].scope = s <=> j = i
    BY DEF OncePerScope
  <2> QED BY <2>1, <2>2
<1>3. Table!Remove(TableOf(v), s) = Table!Retain(TableOf(v), T)
  BY DEF Table!Remove
<1>4. s \notin T
  OBVIOUS
<1>5. Len(w) = Len(v) - 1
  <2>1. Len(v) \in Nat /\ i \in 1 .. Len(v)
    OBVIOUS
  <2>2. w = SubSeq(v, 1, i - 1) \o SubSeq(v, i + 1, Len(v))
    BY DEF Vec!RemoveAt
  <2>3. SubSeq(v, 1, i - 1) \in Seq(Entry) /\ Len(SubSeq(v, 1, i - 1)) = i - 1
    BY <2>1
  <2>4. /\ SubSeq(v, i + 1, Len(v)) \in Seq(Entry)
        /\ Len(SubSeq(v, i + 1, Len(v))) = Len(v) - i
    BY <2>1
  <2>5. Len(SubSeq(v, 1, i - 1) \o SubSeq(v, i + 1, Len(v))) = (i - 1) + (Len(v) - i)
    BY <2>3, <2>4, ConcatProperties
  <2>6. (i - 1) + (Len(v) - i) = Len(v) - 1
    BY <2>1
  <2>7. Len(w) = Len(SubSeq(v, 1, i - 1) \o SubSeq(v, i + 1, Len(v)))
    BY <2>2
  <2> QED BY <2>5, <2>6, <2>7
<1> HIDE DEF w, s, I, T
<1>6. w \in Seq(Entry)
  BY <1>1 DEF Selects
<1>7. OncePerScope(w)
  BY <1>1, SelectionOnce
<1>8. TableOf(w) = Table!Retain(TableOf(v), T)
  BY <1>1, <1>2, SelectionRetains
<1>9. DOMAIN Table!Retain(TableOf(v), T) \subseteq T
  BY DEF Table!Retain
<1>10. s \notin DOMAIN TableOf(w)
  BY <1>4, <1>8, <1>9
<1> QED BY <1>3, <1>5, <1>6, <1>7, <1>8, <1>10 DEF w, s

-----------------------------------------------------------------------------

(***************************************************************************)
(* The table of the Vec is the refinement's.                               *)
(***************************************************************************)
LEMMA AsTableIs == AsTable = TableOf(entries)
BY DEF AsTable, TableOf

(***************************************************************************)
(* What the new entries must be.                                           *)
(***************************************************************************)
LEMMA VecStep ==
    ASSUME entries' \in Seq(Entry), Len(entries') <= Capacity, OncePerScope(entries')
    PROVE  VecSound'
BY DEF VecSound, TypeOK, OneEntryPerScope, OncePerScope, Entry

(***************************************************************************)
(* insert is Insert of the table.                                          *)
(***************************************************************************)
LEMMA InsertRefines ==
    ASSUME VecSound, NEW s \in Scopes, NEW now \in Instants, Insert(s, now)
    PROVE  /\ VecSound'
           /\ TableOf(entries)' = Table!Insert(TableOf(entries), s, now)
<1> DEFINE v == Without(s)
           grown == Append(v, [scope |-> s, at |-> now])
           tg == Table!PushBack(Table!Remove(TableOf(entries), s), s, now)
<1>1. Len(entries) \in Nat /\ Len(entries) <= Capacity /\ Capacity \in Nat \ {0}
  BY VecAssumption DEF VecSound, TypeOK
<1>2. /\ v \in Seq(Entry) /\ OncePerScope(v) /\ Len(v) <= Len(entries)
      /\ TableOf(v) = Table!Remove(TableOf(entries), s)
      /\ s \notin DOMAIN TableOf(v)
  BY WithoutRemoves
<1> HIDE DEF v
<1>3. /\ grown \in Seq(Entry) /\ Len(grown) = Len(v) + 1 /\ OncePerScope(grown)
      /\ TableOf(grown) = tg
  BY <1>2, AppendPushes
<1>4. entries' = IF Len(grown) > Capacity THEN Tail(grown) ELSE grown
  BY DEF Insert, v
<1>5. Table!Cardinality(DOMAIN tg) = Len(grown)
  BY <1>3, SameCount, TableSize
<1>6. Table!Insert(TableOf(entries), s, now) =
          IF Table!Cardinality(DOMAIN tg) > Capacity
          THEN Table!Retain(tg, {t \in DOMAIN tg : tg[t].pos > 1}) ELSE tg
  BY DEF Table!Insert
<1> HIDE DEF grown, tg
<1>7. CASE Len(grown) > Capacity
  <2> DEFINE T == {t \in DOMAIN tg : tg[t].pos > 1}
             I == 2 .. Len(grown)
  <2>1. grown # <<>>
    BY <1>1, <1>7
  <2>2. Selects(Tail(grown), grown, I)
    BY <1>3, <2>1, TailSelects
  <2>3. ASSUME NEW j \in DOMAIN grown PROVE j \in I <=> grown[j].scope \in T
    <3>1. /\ grown[j].scope \in DOMAIN tg
          /\ tg[grown[j].scope] = [at |-> grown[j].at, pos |-> j]
      BY <1>3, TableOfAt
    <3>2. tg[grown[j].scope].pos = j
      BY <3>1
    <3>3. j \in 1 .. Len(grown) /\ Len(grown) \in Nat
      BY <1>3
    <3> QED BY <3>1, <3>2, <3>3
  <2> HIDE DEF T, I
  <2>4. TableOf(Tail(grown)) = Table!Retain(tg, T)
    BY <1>3, <2>2, <2>3, SelectionRetains
  <2>5. OncePerScope(Tail(grown)) /\ Tail(grown) \in Seq(Entry)
    BY <1>3, <2>2, SelectionOnce DEF Selects
  <2>6. Len(Tail(grown)) <= Capacity
    <3>1. Len(Tail(grown)) = Len(grown) - 1
      BY <1>3, <2>1
    <3>2. Len(v) \in Nat
      BY <1>2
    <3> QED BY <1>1, <1>2, <1>3, <3>1, <3>2
  <2>7. entries' = Tail(grown)
    BY <1>4, <1>7
  <2>8. VecSound'
    BY <2>5, <2>6, <2>7, VecStep
  <2>9. Table!Insert(TableOf(entries), s, now) = Table!Retain(tg, T)
    BY <1>5, <1>6, <1>7 DEF T
  <2>10. TableOf(entries)' = TableOf(Tail(grown))
    BY <2>7 DEF TableOf
  <2> QED BY <2>4, <2>8, <2>9, <2>10
<1>8. CASE ~(Len(grown) > Capacity)
  <2>1. entries' = grown
    BY <1>4, <1>8
  <2>2. Len(grown) \in Nat
    BY <1>3
  <2>3. Len(grown) <= Capacity
    BY <1>1, <1>8, <2>2
  <2>4. VecSound'
    BY <1>3, <2>1, <2>3, VecStep
  <2>5. Table!Insert(TableOf(entries), s, now) = tg
    BY <1>5, <1>6, <1>8
  <2>6. TableOf(entries)' = TableOf(grown)
    BY <2>1 DEF TableOf
  <2> QED BY <1>3, <2>4, <2>5, <2>6
<1> QED BY <1>7, <1>8

(***************************************************************************)
(* contains answers as the table does, and drops what it found expired.    *)
(***************************************************************************)
LEMMA ContainsRefines ==
    ASSUME VecSound, NEW s \in Scopes, NEW now \in Instants, NEW ttl \in Ttls,
           Contains(s, now, ttl)
    PROVE  /\ VecSound'
           /\ TableOf(entries)' = Table!AfterContains(TableOf(entries), s, now, ttl)
           /\ call' = <<"contains", s, now, ttl, Table!Contains(TableOf(entries), s, now, ttl)>>
<1> DEFINE kept == Unexpired(now, ttl)
           found == {i \in DOMAIN kept : kept[i].scope = s}
           tk == Table!RetainUnexpired(TableOf(entries), now, ttl)
<1>1. Len(entries) \in Nat /\ Len(entries) <= Capacity /\ Capacity \in Nat
  BY VecAssumption DEF VecSound, TypeOK
<1>2. /\ kept \in Seq(Entry) /\ OncePerScope(kept) /\ Len(kept) <= Len(entries)
      /\ TableOf(kept) = tk
      /\ DOMAIN TableOf(kept) = Table!Live(TableOf(entries), now, ttl)
  BY UnexpiredRetains
<1>3. /\ \/ found = {} /\ entries' = kept
         \/ \E i \in found : entries' = Append(Vec!RemoveAt(kept, i), kept[i])
      /\ call' = <<"contains", s, now, ttl, found # {}>>
  BY DEF Contains
<1>4. Table!AfterContains(TableOf(entries), s, now, ttl) =
          IF s \in DOMAIN tk
          THEN Table!PushBack(Table!Remove(tk, s), s, tk[s].at) ELSE tk
  BY DEF Table!AfterContains
<1> HIDE DEF kept, tk
<1>5. found # {} <=> s \in DOMAIN TableOf(kept)
  <2>1. DOMAIN TableOf(kept) = {kept[i].scope : i \in DOMAIN kept}
    BY TableOfDomain
  <2> QED BY <2>1
<1>6. (found # {}) = Table!Contains(TableOf(entries), s, now, ttl)
  <2>1. Table!Contains(TableOf(entries), s, now, ttl) = (s \in DOMAIN TableOf(kept))
    BY <1>2 DEF Table!Contains
  <2> QED BY <1>5, <2>1
<1>7. call' = <<"contains", s, now, ttl, Table!Contains(TableOf(entries), s, now, ttl)>>
  BY <1>3, <1>6
<1>8. CASE found = {} /\ entries' = kept
  <2>1. Len(kept) \in Nat
    BY <1>2
  <2>2. VecSound'
    BY <1>1, <1>2, <1>8, <2>1, VecStep
  <2>3. TableOf(entries)' = TableOf(kept)
    BY <1>8 DEF TableOf
  <2>4. s \notin DOMAIN tk
    BY <1>2, <1>5, <1>8
  <2> QED BY <1>2, <1>4, <1>7, <2>2, <2>3, <2>4
<1>9. ASSUME NEW i \in found, entries' = Append(Vec!RemoveAt(kept, i), kept[i])
      PROVE  VecSound' /\ TableOf(entries)' = Table!AfterContains(TableOf(entries), s, now, ttl)
  <2> DEFINE w == Vec!RemoveAt(kept, i)
             at == kept[i].at
             moved == Append(w, [scope |-> s, at |-> at])
  <2>1. i \in DOMAIN kept /\ kept[i].scope = s /\ kept[i] \in Entry
    BY <1>2
  <2>2. kept[i] = [scope |-> s, at |-> at] /\ at \in Instants
    BY <2>1 DEF Entry
  <2>3. /\ w \in Seq(Entry) /\ OncePerScope(w) /\ Len(w) = Len(kept) - 1
        /\ TableOf(w) = Table!Remove(TableOf(kept), s)
        /\ s \notin DOMAIN TableOf(w)
    BY <1>2, <2>1, RemovedAt
  <2>4. entries' = moved
    BY <1>9, <2>2
  <2>5. tk[s].at = at /\ s \in DOMAIN tk
    <3>1. s \in DOMAIN tk /\ tk[s] = [at |-> at, pos |-> i]
      BY <1>2, <2>1, TableOfAt
    <3> QED BY <3>1
  <2> HIDE DEF w, at
  <2>6. /\ moved \in Seq(Entry) /\ Len(moved) = Len(w) + 1 /\ OncePerScope(moved)
        /\ TableOf(moved) = Table!PushBack(TableOf(w), s, at)
    BY <2>2, <2>3, AppendPushes
  <2> HIDE DEF moved
  <2>7. Len(moved) <= Capacity
    <3>1. Len(kept) \in Nat /\ Len(w) \in Nat
      BY <1>2, <2>3
    <3> QED BY <1>1, <1>2, <2>3, <2>6, <3>1
  <2>8. VecSound'
    BY <2>4, <2>6, <2>7, VecStep
  <2>9. TableOf(entries)' = TableOf(moved)
    BY <2>4 DEF TableOf
  <2>10. Table!AfterContains(TableOf(entries), s, now, ttl) =
             Table!PushBack(Table!Remove(tk, s), s, at)
    BY <1>4, <2>5
  <2> QED BY <1>2, <2>3, <2>6, <2>8, <2>9, <2>10
<1> QED BY <1>3, <1>7, <1>8, <1>9

(***************************************************************************)
(* retain_unexpired is RetainUnexpired of the table.                       *)
(***************************************************************************)
LEMMA RetainRefines ==
    ASSUME VecSound, NEW now \in Instants, NEW ttl \in Ttls, RetainUnexpired(now, ttl)
    PROVE  /\ VecSound'
           /\ TableOf(entries)' = Table!RetainUnexpired(TableOf(entries), now, ttl)
<1> DEFINE w == Unexpired(now, ttl)
<1>1. Len(entries) \in Nat /\ Len(entries) <= Capacity /\ Capacity \in Nat
  BY VecAssumption DEF VecSound, TypeOK
<1>2. /\ w \in Seq(Entry) /\ OncePerScope(w) /\ Len(w) <= Len(entries)
      /\ TableOf(w) = Table!RetainUnexpired(TableOf(entries), now, ttl)
  BY UnexpiredRetains
<1>3. entries' = w
  BY DEF RetainUnexpired
<1> HIDE DEF w
<1>4. Len(w) \in Nat
  BY <1>2
<1>5. VecSound'
  BY <1>1, <1>2, <1>3, <1>4, VecStep
<1>6. TableOf(entries)' = TableOf(w)
  BY <1>3 DEF TableOf
<1> QED BY <1>2, <1>5, <1>6

(***************************************************************************)
(* remove is Remove of the table.                                          *)
(***************************************************************************)
LEMMA RemoveRefines ==
    ASSUME VecSound, NEW s \in Scopes, Remove(s)
    PROVE  VecSound' /\ TableOf(entries)' = Table!Remove(TableOf(entries), s)
<1> DEFINE w == Without(s)
<1>1. Len(entries) \in Nat /\ Len(entries) <= Capacity /\ Capacity \in Nat
  BY VecAssumption DEF VecSound, TypeOK
<1>2. /\ w \in Seq(Entry) /\ OncePerScope(w) /\ Len(w) <= Len(entries)
      /\ TableOf(w) = Table!Remove(TableOf(entries), s)
  BY WithoutRemoves
<1>3. entries' = w
  BY DEF Remove
<1> HIDE DEF w
<1>4. Len(w) \in Nat
  BY <1>2
<1>5. VecSound'
  BY <1>1, <1>2, <1>3, <1>4, VecStep
<1>6. TableOf(entries)' = TableOf(w)
  BY <1>3 DEF TableOf
<1> QED BY <1>2, <1>5, <1>6

(***************************************************************************)
(* An empty Vec is an empty table.                                         *)
(***************************************************************************)
LEMMA NothingIsEmpty == TableOf(<<>>) = Table!EmptyCache
BY DEF TableOf, Table!EmptyCache

(***************************************************************************)
(* clear leaves an empty table.                                            *)
(***************************************************************************)
LEMMA ClearRefines ==
    ASSUME VecSound, Clear
    PROVE  VecSound' /\ TableOf(entries)' = Table!EmptyCache
<1>1. entries' = <<>>
  BY DEF Clear
<1>2. <<>> \in Seq(Entry) /\ Len(<<>>) <= Capacity /\ OncePerScope(<<>>)
  BY VecAssumption DEF OncePerScope
<1>3. VecSound'
  BY <1>1, <1>2, VecStep
<1>4. TableOf(entries)' = TableOf(<<>>)
  BY <1>1 DEF TableOf
<1> QED BY <1>3, <1>4, NothingIsEmpty

(***************************************************************************)
(* The Vec and its table are empty at first.                               *)
(***************************************************************************)
LEMMA VecInitially == Init => VecSound /\ Table!Init
<1> SUFFICES ASSUME Init PROVE VecSound /\ Table!Init
  OBVIOUS
<1>1. entries = <<>> /\ call = <<"new">>
  BY DEF Init
<1>2. VecSound
  BY <1>1, VecAssumption DEF VecSound, TypeOK, OneEntryPerScope
<1>3. AsTable = Table!EmptyCache
  BY <1>1, AsTableIs, NothingIsEmpty
<1> QED BY <1>1, <1>2, <1>3 DEF Table!Init

(***************************************************************************)
(* Every call keeps the invariant and is the table's call.                 *)
(***************************************************************************)
LEMMA VecRefines ==
    VecSound /\ [Next]_<<entries, call>> => VecSound' /\ (Stays \/ Table!Next)
<1> SUFFICES ASSUME VecSound, [Next]_<<entries, call>>
             PROVE  VecSound' /\ (Stays \/ Table!Next)
  OBVIOUS
<1>1. AsTable = TableOf(entries) /\ AsTable' = TableOf(entries)'
  BY AsTableIs DEF AsTable, TableOf
<1>2. ASSUME NEW s \in Scopes, NEW now \in Instants, Insert(s, now)
      PROVE  VecSound' /\ Table!Next
  <2>1. VecSound' /\ AsTable' = Table!Insert(AsTable, s, now)
    BY <1>1, <1>2, InsertRefines
  <2>2. call' = <<"insert", s, now>>
    BY <1>2 DEF Insert
  <2> QED BY <2>1, <2>2 DEF Table!Next
<1>3. ASSUME NEW s \in Scopes, NEW now \in Instants, NEW ttl \in Ttls, Contains(s, now, ttl)
      PROVE  VecSound' /\ Table!Next
  <2>1. /\ VecSound' /\ AsTable' = Table!AfterContains(AsTable, s, now, ttl)
        /\ call' = <<"contains", s, now, ttl, Table!Contains(AsTable, s, now, ttl)>>
    BY <1>1, <1>3, ContainsRefines
  <2> QED BY <2>1 DEF Table!Next
<1>4. ASSUME NEW now \in Instants, NEW ttl \in Ttls, RetainUnexpired(now, ttl)
      PROVE  VecSound' /\ Table!Next
  <2>1. VecSound' /\ AsTable' = Table!RetainUnexpired(AsTable, now, ttl)
    BY <1>1, <1>4, RetainRefines
  <2>2. call' = <<"retain", now, ttl>>
    BY <1>4 DEF RetainUnexpired
  <2> QED BY <2>1, <2>2 DEF Table!Next
<1>5. ASSUME NEW s \in Scopes, Remove(s) PROVE VecSound' /\ Table!Next
  <2>1. VecSound' /\ AsTable' = Table!Remove(AsTable, s)
    BY <1>1, <1>5, RemoveRefines
  <2>2. call' = <<"remove", s>>
    BY <1>5 DEF Remove
  <2> QED BY <2>1, <2>2 DEF Table!Next
<1>6. CASE Clear
  <2>1. VecSound' /\ AsTable' = Table!EmptyCache
    BY <1>1, <1>6, ClearRefines
  <2>2. call' = <<"clear">>
    BY <1>6 DEF Clear
  <2> QED BY <2>1, <2>2 DEF Table!Next
<1>7. CASE UNCHANGED <<entries, call>>
  BY <1>7 DEF Stays, VecSound, TypeOK, OneEntryPerScope, Entry
<1> QED BY <1>2, <1>3, <1>4, <1>5, <1>6, <1>7 DEF Next

(***************************************************************************)
(* The Vec of entries implements the table of scopes that the abstract     *)
(* cache is stated with: every call leaves the table that the table's own  *)
(* call would, with its answer (state.rs).                                 *)
(***************************************************************************)
THEOREM VecImplements == Spec => ImplementsTable
<1>1. VecSound /\ [Next]_<<entries, call>> => [Stays \/ Table!Next]_<<entries, call>>
  BY VecRefines
<1>2. VecSound /\ [Next]_<<entries, call>> => VecSound'
  BY VecRefines
<1> QED BY <1>1, <1>2, VecInitially, PTL DEF Spec, ImplementsTable

-----------------------------------------------------------------------------
(***************************************************************************)
(* What is read of one process. The shell that is alive is the one that    *)
(* was walked, and its parent has not been another meanwhile; nor has the  *)
(* parent of that one: a process that loses its parent goes to launchd and *)
(* never back.                                                             *)
(***************************************************************************)
SameShell ==
    /\ Shell \in DOMAIN kin /\ kin[Shell].born = crossing.walked.born

StillBelow == SameShell /\ kin[Shell].parent = crossing.walked.parent

SameBoundary ==
    StillBelow =>
        /\ crossing.walked.parent \in DOMAIN kin
        /\ kin[crossing.walked.parent].who = crossing.boundary.command
        /\ kin[crossing.walked.parent].parent \in {crossing.boundary.parent, Launchd}

StillBetween ==
    StillBelow /\ kin[crossing.walked.parent].parent = crossing.boundary.parent

(***************************************************************************)
(* Pids are used again, but no start time is given twice.                  *)
(***************************************************************************)
Ages ==
    /\ births \in Nat
    /\ crossing.walked.born \in Int /\ crossing.walked.born <= births
    /\ DOMAIN kin \subseteq Pids /\ \A q \in DOMAIN kin : kin[q] \in TableRow
    /\ SameShell => kin[Shell].parent \in {crossing.walked.parent, Launchd}

ChildRead ==
    /\ crossing.child.pid = Shell
    /\ crossing.child.parent = crossing.walked.parent
    /\ crossing.child.born = crossing.walked.born

BoundaryRead ==
    /\ crossing.boundary.pid = crossing.walked.parent /\ crossing.boundary.pid # 0
    /\ SameBoundary

Crossing ==
    [at |-> crossing.at, walked |-> crossing.walked, child |-> crossing.child,
     boundary |-> crossing.boundary, uid |-> crossing.uid, parent |-> crossing.parent,
     result |-> crossing.result]

CrossingSound ==
    /\ crossing = Crossing
    /\ Ages
    /\ crossing.at \in {"child", "boundary", "uid", "session", "parent", "again", "child again",
                        "ended"}
    /\ crossing.at \notin {"child", "ended"} => ChildRead
    /\ crossing.at \in {"uid", "session", "parent", "again", "child again"} => BoundaryRead
    /\ crossing.at = "parent" => crossing.boundary.command = "login"
    /\ crossing.at = "again" => (StillBetween => real)
    /\ crossing.at = "child again" => (StillBelow => real)
    /\ crossing.result # NotRead => crossing.at = "ended" /\ real

(***************************************************************************)
(* The crossing begins at the shell.                                       *)
(***************************************************************************)
LEMMA CrossingInit ==
    ASSUME InitCrossing
    PROVE  CrossingSound
<1>1. /\ Shell \in DOMAIN kin /\ DOMAIN kin \subseteq Pids
      /\ \A q \in DOMAIN kin : kin[q] \in TableRow
      /\ kin[Shell].who = "own"
      /\ kin[Shell].born \in Int /\ kin[Shell].born <= 0
  BY KinsAssumption DEF InitCrossing, TableRow
<1>2. MacosBsdInfo(Shell) = [pid |-> Shell, born |-> kin[Shell].born,
                             parent |-> kin[Shell].parent, tty |-> kin[Shell].tty]
  BY <1>1 DEF MacosBsdInfo
<1>3. /\ crossing.walked.born = kin[Shell].born
      /\ crossing.walked.parent = kin[Shell].parent
      /\ crossing.at = "child" /\ crossing.result = NotRead
      /\ births = 0
  BY <1>2 DEF InitCrossing
<1>4. crossing = Crossing
  <2> DEFINE walked == MacosBsdInfo(Shell)
  <2>1. crossing = [at |-> "child", walked |-> walked, child |-> NotRead,
                    boundary |-> NotRead, uid |-> "unknown", parent |-> NotRead,
                    result |-> NotRead]
    BY DEF InitCrossing
  <2> HIDE DEF walked
  <2> QED BY <2>1 DEF Crossing
<1> QED BY <1>1, <1>3, <1>4 DEF CrossingSound, Ages

(***************************************************************************)
(* A process that ends takes nothing back.                                 *)
(***************************************************************************)
LEMMA EndsKeep ==
    ASSUME CrossingSound, NEW p \in Pids, ProcessEnds(p)
    PROVE  /\ Ages'
           /\ StillBelow' => StillBelow
           /\ SameBoundary => SameBoundary'
           /\ SameBoundary /\ StillBetween' => StillBetween
<1>1. /\ p \in DOMAIN kin /\ p # Launchd
      /\ DOMAIN kin' = DOMAIN kin \ {p}
      /\ \A q \in DOMAIN kin \ {p} :
             kin'[q] = [kin[q] EXCEPT !.parent = IF @ = p THEN Launchd ELSE @]
      /\ births' = births /\ crossing' = crossing
  BY DEF ProcessEnds
<1>2. /\ DOMAIN kin \subseteq Pids /\ births \in Nat
      /\ \A q \in DOMAIN kin : kin[q] \in TableRow
  BY DEF CrossingSound, Ages
<1>3. ASSUME NEW q \in DOMAIN kin'
      PROVE  /\ q \in DOMAIN kin /\ q # p
             /\ kin'[q] \in TableRow
             /\ kin'[q].born = kin[q].born /\ kin'[q].who = kin[q].who
             /\ kin[q].parent # p => kin'[q].parent = kin[q].parent
             /\ kin[q].parent = p => kin'[q].parent = Launchd
  BY <1>1, <1>2 DEF TableRow, Launchd
<1>4. SameShell' => SameShell /\ Shell # p
  BY <1>1, <1>3 DEF SameShell
<1>5. Ages'
  BY <1>1, <1>2, <1>3, <1>4 DEF CrossingSound, Ages, SameShell
<1>6. StillBelow' => StillBelow /\ crossing.walked.parent # p
  BY <1>1, <1>3, <1>4 DEF CrossingSound, Ages, StillBelow, SameShell
<1>7. SameBoundary => SameBoundary'
  BY <1>1, <1>3, <1>6 DEF SameBoundary
<1>8. SameBoundary /\ StillBetween' => StillBetween
  BY <1>1, <1>3, <1>6 DEF SameBoundary, StillBetween
<1> QED BY <1>5, <1>6, <1>7, <1>8

(***************************************************************************)
(* Nor does one that begins.                                               *)
(***************************************************************************)
LEMMA ForksKeep ==
    ASSUME CrossingSound, NEW p \in Pids, NEW q \in Pids, ProcessForks(p, q)
    PROVE  /\ Ages'
           /\ StillBelow' => StillBelow
           /\ SameBoundary => SameBoundary'
           /\ SameBoundary /\ StillBetween' => StillBetween
<1>1. /\ births < MaxForks /\ births' = births + 1 /\ crossing' = crossing
      /\ p \in DOMAIN kin /\ q \notin DOMAIN kin
  BY DEF ProcessForks
<1>2. PICK who \in {"own", "login", "sudo"}, leads \in BOOLEAN :
          kin' = [r \in DOMAIN kin \cup {q} |->
                     IF r = q THEN Forked(p, q, who, leads) ELSE kin[r]]
  BY DEF ProcessForks
<1>3. /\ DOMAIN kin \subseteq Pids /\ births \in Nat
      /\ \A r \in DOMAIN kin : kin[r] \in TableRow
  BY DEF CrossingSound, Ages
<1>a. crossing.walked.born \in Int /\ crossing.walked.born <= births
  BY DEF CrossingSound, Ages
<1>4. /\ DOMAIN kin' = DOMAIN kin \cup {q}
      /\ \A r \in DOMAIN kin : r # q /\ kin'[r] = kin[r]
      /\ kin'[q] = Forked(p, q, who, leads)
  BY <1>1, <1>2
<1>5. Forked(p, q, who, leads) \in TableRow /\ Forked(p, q, who, leads).born = births + 1
  <2>1. kin[p] \in TableRow /\ p \in Int /\ q \in Int /\ births + 1 \in Int
    BY <1>1, <1>3, KinsAssumption
  <2>2. kin[p].tty \in BOOLEAN /\ kin[p].group \in Int /\ kin[p].session \in Int
    BY <2>1 DEF TableRow
  <2> DEFINE tty == kin[p].tty \/ leads
             group == IF leads THEN q ELSE kin[p].group
             session == IF leads THEN q ELSE kin[p].session
  <2>3. tty \in BOOLEAN
    OBVIOUS
  <2>4. group \in Int /\ session \in Int
    BY <2>1, <2>2
  <2>5. Forked(p, q, who, leads) = [born |-> births + 1, parent |-> p, who |-> who, tty |-> tty,
                                    group |-> group, session |-> session]
    BY Zenon DEF Forked
  <2> HIDE DEF tty, group, session
  <2> QED BY <2>1, <2>3, <2>4, <2>5 DEF TableRow
<1>6. SameShell' => SameShell /\ Shell # q
  BY <1>1, <1>3, <1>4, <1>5, <1>a DEF SameShell
<1>7. Ages'
  <2>1. \A r \in DOMAIN kin' : kin'[r] \in TableRow
    BY <1>3, <1>4, <1>5
  <2>2. births' \in Nat /\ crossing'.walked.born \in Int /\ crossing'.walked.born <= births'
    BY <1>1, <1>3, <1>a
  <2>3. DOMAIN kin' \subseteq Pids
    BY <1>3, <1>4
  <2>4. SameShell' => kin'[Shell].parent \in {crossing'.walked.parent, Launchd}
    BY <1>1, <1>4, <1>6 DEF CrossingSound, Ages, SameShell
  <2> QED BY <2>1, <2>2, <2>3, <2>4 DEF Ages
<1>8. StillBelow' => StillBelow
  BY <1>1, <1>4, <1>6 DEF StillBelow, SameShell
<1>9. SameBoundary => SameBoundary'
  BY <1>1, <1>4, <1>8 DEF SameBoundary
<1>10. SameBoundary /\ StillBetween' => StillBetween
  BY <1>1, <1>4, <1>8 DEF SameBoundary, StillBetween
<1> QED BY <1>7, <1>8, <1>9, <1>10

(***************************************************************************)
(* What happens around it leaves the crossing sound.                       *)
(***************************************************************************)
LEMMA AroundCrossing ==
    ASSUME CrossingSound,
           \/ \E p \in Pids : ProcessEnds(p)
           \/ \E p, q \in Pids : ProcessForks(p, q)
    PROVE  CrossingSound'
<1>1. /\ crossing' = crossing /\ real' = real /\ crossing.at # "ended"
  BY DEF ProcessEnds, ProcessForks
<1>2. /\ Ages'
      /\ StillBelow' => StillBelow
      /\ SameBoundary => SameBoundary'
      /\ SameBoundary /\ StillBetween' => StillBetween
  BY EndsKeep, ForksKeep
<1>3. Crossing' = Crossing /\ (ChildRead => ChildRead') /\ (BoundaryRead => BoundaryRead')
  BY <1>1, <1>2 DEF Crossing, ChildRead, BoundaryRead
<1>4. BoundaryRead => SameBoundary
  BY DEF BoundaryRead
<1> QED BY <1>1, <1>2, <1>3, <1>4 DEF CrossingSound

(***************************************************************************)
(* A read that does not fit ends the call without a result.                *)
(***************************************************************************)
LEMMA GivesNothing ==
    ASSUME CrossingSound, crossing.at # "ended", UNCHANGED <<kin, births>>, Give(NotRead)
    PROVE  CrossingSound'
<1>1. crossing = Crossing /\ Ages
  BY DEF CrossingSound
<1>2. crossing' = [crossing EXCEPT !.at = "ended", !.result = NotRead]
  BY DEF Give
<1>3. crossing' = [at |-> "ended", walked |-> crossing.walked, child |-> crossing.child,
                   boundary |-> crossing.boundary, uid |-> crossing.uid,
                   parent |-> crossing.parent, result |-> NotRead]
  BY <1>1, <1>2 DEF Crossing
<1>4. crossing' = Crossing'
  BY <1>3 DEF Crossing
<1>5. /\ crossing'.at = "ended" /\ crossing'.result = NotRead
      /\ crossing'.walked = crossing.walked
  BY <1>3
<1>6. Ages'
  BY <1>1, <1>5 DEF Ages, SameShell
<1> QED BY <1>4, <1>5, <1>6 DEF CrossingSound

(***************************************************************************)
(* One that fits makes the next step.                                      *)
(***************************************************************************)
LEMMA GoesOn ==
    ASSUME CrossingSound, UNCHANGED <<kin, births>>, crossing' = Crossing',
           crossing'.walked = crossing.walked, crossing'.result = NotRead,
           crossing'.at \in {"boundary", "uid", "session", "parent", "again", "child again"},
           ChildRead', crossing'.at # "boundary" => BoundaryRead',
           crossing'.at = "parent" => crossing'.boundary.command = "login",
           crossing'.at = "again" => (StillBetween' => real'),
           crossing'.at = "child again" => (StillBelow' => real')
    PROVE  CrossingSound'
<1>1. Ages'
  BY DEF CrossingSound, Ages, SameShell
<1> QED BY <1>1 DEF CrossingSound

(***************************************************************************)
(* The reads.                                                              *)
(***************************************************************************)
LEMMA ReadShellSound ==
    ASSUME CrossingSound, ReadShell
    PROVE  CrossingSound'
<1> DEFINE info == MacosBsdInfo(Shell)
           fits == /\ info # NotRead
                   /\ info.parent = crossing.walked.parent /\ info.born = crossing.walked.born
<1>1. /\ crossing.at = "child" /\ UNCHANGED <<kin, births, real>>
      /\ Unverified(fits, [crossing EXCEPT !.at = "boundary", !.child = info])
  BY DEF ReadShell, Reading
<1>2. CASE ~fits
  BY <1>1, <1>2, GivesNothing DEF Unverified
<1>3. CASE fits
  <2>1. crossing' = [crossing EXCEPT !.at = "boundary", !.child = info]
    BY <1>1, <1>3 DEF Unverified
  <2>2. info.pid = Shell
    BY <1>3 DEF MacosBsdInfo
  <2>3. info.parent = crossing.walked.parent /\ info.born = crossing.walked.born
    BY <1>3
  <2> HIDE DEF info
  <2>4. crossing = Crossing /\ crossing.result = NotRead
    BY <1>1 DEF CrossingSound
  <2>5. crossing' = [at |-> "boundary", walked |-> crossing.walked, child |-> info,
                     boundary |-> crossing.boundary, uid |-> crossing.uid,
                     parent |-> crossing.parent, result |-> NotRead]
    BY <2>1, <2>4 DEF Crossing
  <2>6. crossing' = Crossing'
    BY <2>5 DEF Crossing
  <2>7. ChildRead'
    BY <2>2, <2>3, <2>5 DEF ChildRead
  <2> QED BY <1>1, <2>5, <2>6, <2>7, GoesOn
<1> QED BY <1>2, <1>3

(***************************************************************************)
(* What the shell was below is the process whose parent was read.          *)
(***************************************************************************)
LEMMA ReadBoundarySound ==
    ASSUME CrossingSound, ReadBoundary
    PROVE  CrossingSound'
<1> DEFINE P == crossing.walked.parent
           info == MacosShortBsdInfo(P)
           fits == info # NotRead /\ info.parent > 0
<1>1. /\ crossing.at = "boundary" /\ UNCHANGED <<kin, births, real>>
      /\ Unverified(fits, [crossing EXCEPT !.at = "uid", !.boundary = info])
  BY DEF ReadBoundary, Reading
<1>2. CASE ~fits
  BY <1>1, <1>2, GivesNothing DEF Unverified
<1>3. CASE fits
  <2>1. crossing' = [crossing EXCEPT !.at = "uid", !.boundary = info]
    BY <1>1, <1>3 DEF Unverified
  <2>2. P \in DOMAIN kin /\ info.pid = P /\ info.command = kin[P].who
        /\ info.parent = kin[P].parent
    BY <1>3 DEF MacosShortBsdInfo
  <2>3. P # 0
    BY <2>2, KinsAssumption DEF CrossingSound, Ages
  <2> HIDE DEF info
  <2>4. crossing = Crossing /\ crossing.result = NotRead /\ ChildRead
    BY <1>1 DEF CrossingSound
  <2>5. crossing' = [at |-> "uid", walked |-> crossing.walked, child |-> crossing.child,
                     boundary |-> info, uid |-> crossing.uid,
                     parent |-> crossing.parent, result |-> NotRead]
    BY <2>1, <2>4 DEF Crossing
  <2>6. crossing' = Crossing' /\ ChildRead'
    BY <2>4, <2>5 DEF Crossing, ChildRead
  <2>7. BoundaryRead'
    BY <1>1, <2>2, <2>3, <2>5 DEF BoundaryRead, SameBoundary
  <2> QED BY <1>1, <2>5, <2>6, <2>7, GoesOn
<1> QED BY <1>2, <1>3

(***************************************************************************)
(* The owner of that parent.                                               *)
(***************************************************************************)
LEMMA ReadUidSound ==
    ASSUME CrossingSound, ReadBoundaryParentUid
    PROVE  CrossingSound'
<1> DEFINE uid == ProcessUidOf(crossing.boundary.parent)
<1>1. /\ crossing.at = "uid" /\ UNCHANGED <<kin, births, real>>
      /\ crossing' = [crossing EXCEPT !.at = "session", !.uid = uid]
  BY DEF ReadBoundaryParentUid, Reading
<1> HIDE DEF uid
<1>2. crossing = Crossing /\ crossing.result = NotRead /\ ChildRead /\ BoundaryRead
  BY <1>1 DEF CrossingSound
<1>3. crossing' = [at |-> "session", walked |-> crossing.walked, child |-> crossing.child,
                   boundary |-> crossing.boundary, uid |-> uid,
                   parent |-> crossing.parent, result |-> NotRead]
  BY <1>1, <1>2 DEF Crossing
<1>4. crossing' = Crossing' /\ ChildRead'
  BY <1>2, <1>3 DEF Crossing, ChildRead
<1>5. BoundaryRead'
  BY <1>1, <1>2, <1>3 DEF BoundaryRead, SameBoundary, StillBelow, SameShell
<1>6. UNCHANGED <<kin, births>>
  BY <1>1
<1> QED BY <1>3, <1>4, <1>5, <1>6, GoesOn

(***************************************************************************)
(* Only a login process is passed over.                                    *)
(***************************************************************************)
LEMMA ReadSessionSound ==
    ASSUME CrossingSound, ReadShellSession
    PROVE  CrossingSound'
<1> DEFINE fits == CrossesMacosLoginBoundary(crossing.boundary, crossing.uid,
                                             MacosSessionId(Shell), crossing.child.tty)
<1>1. /\ crossing.at = "session" /\ UNCHANGED <<kin, births, real>>
      /\ Unverified(fits, [crossing EXCEPT !.at = "parent"])
  BY DEF ReadShellSession, Reading
<1>2. CASE ~fits
  BY <1>1, <1>2, GivesNothing DEF Unverified
<1>3. CASE fits
  <2>1. crossing' = [crossing EXCEPT !.at = "parent"]
    BY <1>1, <1>3 DEF Unverified
  <2>2. crossing.boundary.command = "login"
    BY <1>3 DEF CrossesMacosLoginBoundary
  <2> HIDE DEF fits
  <2>3. crossing = Crossing /\ crossing.result = NotRead /\ ChildRead /\ BoundaryRead
    BY <1>1 DEF CrossingSound
  <2>4. crossing' = [at |-> "parent", walked |-> crossing.walked, child |-> crossing.child,
                     boundary |-> crossing.boundary, uid |-> crossing.uid,
                     parent |-> crossing.parent, result |-> NotRead]
    BY <2>1, <2>3 DEF Crossing
  <2>5. crossing' = Crossing' /\ ChildRead'
    BY <2>3, <2>4 DEF Crossing, ChildRead
  <2>6. BoundaryRead'
    BY <1>1, <2>3, <2>4 DEF BoundaryRead, SameBoundary, StillBelow, SameShell
  <2> QED BY <1>1, <2>2, <2>4, <2>5, <2>6, GoesOn
<1> QED BY <1>2, <1>3

(***************************************************************************)
(* At this read the boundary stands, or will not be found again.           *)
(***************************************************************************)
LEMMA ReadParentSound ==
    ASSUME CrossingSound, ReadBoundaryParent
    PROVE  CrossingSound'
<1> DEFINE info == MacosBsdInfo(crossing.boundary.parent)
<1>1. /\ crossing.at = "parent" /\ UNCHANGED <<kin, births>>
      /\ Unverified(info # NotRead, [crossing EXCEPT !.at = "again", !.parent = info])
      /\ real' = StandsBetween(crossing.boundary.parent)
  BY Zenon DEF ReadBoundaryParent, Reading
<1>2. CASE ~(info # NotRead)
  BY <1>1, <1>2, GivesNothing DEF Unverified
<1>3. CASE info # NotRead
  <2>1. crossing' = [crossing EXCEPT !.at = "again", !.parent = info]
    BY <1>1, <1>3 DEF Unverified
  <2> HIDE DEF info
  <2>2. crossing = Crossing /\ crossing.result = NotRead /\ ChildRead /\ BoundaryRead
        /\ crossing.boundary.command = "login"
    BY <1>1 DEF CrossingSound
  <2>3. crossing' = [at |-> "again", walked |-> crossing.walked, child |-> crossing.child,
                     boundary |-> crossing.boundary, uid |-> crossing.uid,
                     parent |-> info, result |-> NotRead]
    BY <2>1, <2>2 DEF Crossing
  <2>4. crossing' = Crossing' /\ ChildRead'
    BY <2>2, <2>3 DEF Crossing, ChildRead
  <2>5. BoundaryRead'
    BY <1>1, <2>2, <2>3 DEF BoundaryRead, SameBoundary, StillBelow, SameShell
  <2>6. StillBetween => StandsBetween(crossing.boundary.parent)
    BY <2>2 DEF StillBetween, StillBelow, SameShell, StandsBetween, BoundaryRead, SameBoundary
  <2>7. StillBetween' => StillBetween
    BY <1>1, <2>3 DEF StillBetween, StillBelow, SameShell
  <2>8. StillBetween' => real'
    BY <1>1, <2>6, <2>7, Zenon
  <2> QED BY <1>1, <2>3, <2>4, <2>5, <2>8, GoesOn
<1> QED BY <1>2, <1>3

(***************************************************************************)
(* What is read again was the same all the time.                           *)
(***************************************************************************)
LEMMA RevalidateBoundarySound ==
    ASSUME CrossingSound, RevalidateBoundary
    PROVE  CrossingSound'
<1> DEFINE fits == MacosShortBsdInfo(crossing.boundary.pid) = crossing.boundary
<1>1. /\ crossing.at = "again" /\ UNCHANGED <<kin, births, real>>
      /\ Unverified(fits, [crossing EXCEPT !.at = "child again"])
  BY DEF RevalidateBoundary, Reading
<1>2. CASE ~fits
  BY <1>1, <1>2, GivesNothing DEF Unverified
<1>3. CASE fits
  <2>1. crossing' = [crossing EXCEPT !.at = "child again"]
    BY <1>1, <1>3 DEF Unverified
  <2>2. crossing = Crossing /\ crossing.result = NotRead /\ ChildRead /\ BoundaryRead
        /\ (StillBetween => real)
    BY <1>1 DEF CrossingSound
  <2>3. kin[crossing.walked.parent].parent = crossing.boundary.parent
    BY <1>3, <2>2 DEF MacosShortBsdInfo, BoundaryRead, NotRead
  <2> HIDE DEF fits
  <2>4. crossing' = [at |-> "child again", walked |-> crossing.walked, child |-> crossing.child,
                     boundary |-> crossing.boundary, uid |-> crossing.uid,
                     parent |-> crossing.parent, result |-> NotRead]
    BY <2>1, <2>2 DEF Crossing
  <2>5. crossing' = Crossing' /\ ChildRead'
    BY <2>2, <2>4 DEF Crossing, ChildRead
  <2>6. BoundaryRead'
    BY <1>1, <2>2, <2>4 DEF BoundaryRead, SameBoundary, StillBelow, SameShell
  <2>7. StillBelow' => StillBetween
    BY <1>1, <2>3, <2>4 DEF StillBetween, StillBelow, SameShell
  <2>8. StillBelow' => real'
    BY <1>1, <2>2, <2>7, Zenon
  <2>9. /\ crossing'.at = "child again" /\ crossing'.result = NotRead
        /\ crossing'.walked = crossing.walked
    BY <2>4
  <2>10. UNCHANGED <<kin, births>>
    BY <1>1
  <2> QED BY <2>5, <2>6, <2>8, <2>9, <2>10, GoesOn
<1> QED BY <1>2, <1>3

(***************************************************************************)
(* And so was the shell.                                                   *)
(***************************************************************************)
LEMMA RevalidateShellSound ==
    ASSUME CrossingSound, RevalidateShell
    PROVE  CrossingSound'
<1>1. /\ crossing.at = "child again" /\ UNCHANGED <<kin, births, real>>
      /\ Give(IF MacosBsdInfo(Shell) = crossing.child THEN crossing.parent ELSE NotRead)
  BY DEF RevalidateShell, Reading
<1>2. CASE MacosBsdInfo(Shell) # crossing.child
  BY <1>1, <1>2, GivesNothing
<1>3. CASE MacosBsdInfo(Shell) = crossing.child
  <2>1. crossing' = [crossing EXCEPT !.at = "ended", !.result = crossing.parent]
    BY <1>1, <1>3 DEF Give
  <2>2. crossing = Crossing /\ ChildRead /\ (StillBelow => real) /\ Ages
    BY <1>1 DEF CrossingSound
  <2>3. Shell # 0
    BY KinsAssumption
  <2>4. StillBelow
    BY <1>3, <2>2, <2>3 DEF MacosBsdInfo, ChildRead, NotRead, StillBelow, SameShell
  <2>5. crossing' = [at |-> "ended", walked |-> crossing.walked, child |-> crossing.child,
                     boundary |-> crossing.boundary, uid |-> crossing.uid,
                     parent |-> crossing.parent, result |-> crossing.parent]
    BY <2>1, <2>2 DEF Crossing
  <2>6. crossing' = Crossing'
    BY <2>5 DEF Crossing
  <2>7. Ages'
    BY <1>1, <2>2, <2>5 DEF Ages, SameShell
  <2>8. crossing'.at = "ended" /\ real'
    BY <1>1, <2>2, <2>4, <2>5
  <2> QED BY <2>6, <2>7, <2>8 DEF CrossingSound
<1> QED BY <1>2, <1>3

(***************************************************************************)
(* The line of a process of Linux. Of a text in which words and single     *)
(* blanks take turns, the words are read.                                  *)
(***************************************************************************)
Taking(f, scan, n) ==
    f = [i \in 0 .. n |->
            IF i = 0 THEN <<>>
            ELSE IF scan[i] = Blank THEN f[i - 1] ELSE Append(f[i - 1], scan[i])]

(***************************************************************************)
(* There is one such function.                                             *)
(***************************************************************************)
LEMMA TakenOnce ==
    ASSUME NEW n \in Nat, NEW scan, NEW f, NEW g, Taking(f, scan, n), Taking(g, scan, n)
    PROVE  f[n] = g[n]
<1> DEFINE apart == {i \in 0 .. n : f[i] # g[i]}
<1> SUFFICES ASSUME apart # {} PROVE FALSE
  OBVIOUS
<1>1. apart \subseteq Nat
  OBVIOUS
<1>2. PICK least \in apart : \A i \in apart : ~(<<i, least>> \in OpToRel(<, Nat))
  <2> HIDE DEF apart
  <2> QED BY <1>1, NatLessThanWellFounded, WFMin
<1>3. least \in 0 .. n /\ f[least] # g[least]
  OBVIOUS
<1>4. /\ f[least] = IF least = 0 THEN <<>>
                    ELSE IF scan[least] = Blank THEN f[least - 1]
                    ELSE Append(f[least - 1], scan[least])
      /\ g[least] = IF least = 0 THEN <<>>
                    ELSE IF scan[least] = Blank THEN g[least - 1]
                    ELSE Append(g[least - 1], scan[least])
  BY <1>3 DEF Taking
<1>5. least # 0
  BY <1>3, <1>4
<1>6. least - 1 \in 0 .. n /\ least - 1 \in Nat /\ least - 1 < least
  BY <1>3, <1>5
<1>7. f[least - 1] = g[least - 1]
  <2>1. <<least - 1, least>> \in OpToRel(<, Nat)
    BY <1>1, <1>6 DEF OpToRel
  <2>2. least - 1 \notin apart
    BY <1>2, <2>1
  <2> QED BY <1>6, <2>2
<1> QED BY <1>3, <1>4, <1>5, <1>7

(***************************************************************************)
(* Words and blanks in turn: the words are what is read.                   *)
(***************************************************************************)
LEMMA WordsInTurn ==
    ASSUME NEW T, NEW n \in Nat \ {0}, NEW scan \in Seq(T), Len(scan) = 2 * n - 1,
           \A i \in 1 .. n : scan[2 * i - 1] # Blank,
           \A i \in 1 .. n - 1 : scan[2 * i] = Blank
    PROVE  WordsOf(scan) = [i \in 1 .. n |-> scan[2 * i - 1]]
<1> DEFINE N == 2 * n - 1
           first(k) == [i \in 1 .. k |-> scan[2 * i - 1]]
           f == [i \in 0 .. N |-> first((i + 1) \div 2)]
           g == CHOOSE h : Taking(h, scan, N)
<1>1. \A k \in 1 .. n : first(k) = Append(first(k - 1), scan[2 * k - 1])
  <2> TAKE k \in 1 .. n
  <2>1. \A i \in 1 .. k : 2 * i - 1 \in 1 .. Len(scan) /\ scan[2 * i - 1] \in T
    <3>1. \A i \in 1 .. k : 2 * i - 1 \in 1 .. Len(scan)
      OBVIOUS
    <3> QED BY <3>1
  <2>2. first(k - 1) \in Seq(T) /\ Len(first(k - 1)) = k - 1
    <3>1. k - 1 \in Nat /\ \A i \in 1 .. k - 1 : i \in 1 .. k
      OBVIOUS
    <3>2. first(k - 1) \in [1 .. k - 1 -> T]
      BY <2>1, <3>1
    <3> HIDE DEF first
    <3> QED BY <3>1, <3>2, SeqDef, LenProperties
  <2> QED BY <2>1, <2>2
<1>2. \A i \in 0 .. N : f[i] = IF i = 0 THEN <<>>
                               ELSE IF scan[i] = Blank THEN f[i - 1]
                               ELSE Append(f[i - 1], scan[i])
  <2> TAKE i \in 0 .. N
  <2>1. CASE i = 0
    <3>1. (i + 1) \div 2 = 0 /\ i \in 0 .. N
      BY <2>1
    <3>2. f[i] = first(0)
      BY <3>1
    <3>3. first(0) = <<>>
      OBVIOUS
    <3> QED BY <2>1, <3>2, <3>3
  <2>2. ASSUME i # 0, NEW k \in 1 .. n - 1, i = 2 * k
        PROVE  scan[i] = Blank /\ f[i] = f[i - 1]
    <3>1. (i + 1) \div 2 = k /\ (i - 1 + 1) \div 2 = k /\ i - 1 \in 0 .. N
      BY <2>2
    <3>2. f[i] = first(k) /\ f[i - 1] = first(k)
      <4> HIDE DEF first
      <4> QED BY <3>1
    <3> QED BY <2>2, <3>2
  <2>3. ASSUME i # 0, NEW k \in 1 .. n, i = 2 * k - 1
        PROVE  scan[i] # Blank /\ f[i] = Append(f[i - 1], scan[i])
    <3>1. (i + 1) \div 2 = k /\ (i - 1 + 1) \div 2 = k - 1 /\ i - 1 \in 0 .. N
      BY <2>3
    <3>2. f[i] = first(k) /\ f[i - 1] = first(k - 1)
      <4> HIDE DEF first
      <4> QED BY <3>1
    <3> HIDE DEF first
    <3>3. first(k) = Append(first(k - 1), scan[i])
      BY <1>1, <2>3
    <3>4. scan[i] # Blank
      BY <2>3
    <3> QED BY <3>2, <3>3, <3>4
  <2>4. i # 0 => (\E k \in 1 .. n - 1 : i = 2 * k) \/ (\E k \in 1 .. n : i = 2 * k - 1)
    <3> SUFFICES ASSUME i # 0 PROVE (\E k \in 1 .. n - 1 : i = 2 * k)
                                    \/ (\E k \in 1 .. n : i = 2 * k - 1)
      OBVIOUS
    <3>1. CASE i % 2 = 0
      <4>1. i \div 2 \in 1 .. n - 1 /\ i = 2 * (i \div 2)
        BY <3>1
      <4> QED BY <4>1
    <3>2. CASE i % 2 = 1
      <4>1. (i + 1) \div 2 \in 1 .. n /\ i = 2 * ((i + 1) \div 2) - 1
        BY <3>2
      <4> QED BY <4>1
    <3> QED BY <3>1, <3>2
  <2> HIDE DEF f
  <2> QED BY <2>1, <2>2, <2>3, <2>4
<1>3. Taking(f, scan, N)
  <2> DEFINE e == [i \in 0 .. N |->
                      IF i = 0 THEN <<>>
                      ELSE IF scan[i] = Blank THEN f[i - 1] ELSE Append(f[i - 1], scan[i])]
  <2>1. f = [i \in 0 .. N |-> f[i]]
    OBVIOUS
  <2> HIDE DEF f
  <2>2. f = e
    BY <1>2, <2>1
  <2> QED BY <2>2 DEF Taking
<1>4. N \in Nat /\ (N + 1) \div 2 = n
  OBVIOUS
<1>5. f[N] = first(n)
  BY <1>4
<1>6. WordsOf(scan) = g[N]
  BY DEF WordsOf, Taking
<1>7. Taking(g, scan, N)
  <2> HIDE DEF f
  <2> QED BY <1>3
<1>8. g[N] = f[N]
  <2> HIDE DEF f, g, N
  <2> QED BY <1>3, <1>4, <1>7, TakenOnce
<1> QED BY <1>5, <1>6, <1>8

(***************************************************************************)
(* What a line is made of.                                                 *)
(***************************************************************************)
Characters == STRING \cup {"pid", Blank, "(", ")", "S", "2", "group", "3", "other", "4"}

(***************************************************************************)
(* The provers take no constant for a string by themselves.                *)
(***************************************************************************)
LEMMA CharactersIn ==
    /\ "pid" \in Characters /\ Blank \in Characters /\ "(" \in Characters /\ ")" \in Characters
    /\ \A x \in {"S", "2", "group", "3", "other", "4"} : x # Blank /\ x # ")" /\ x \in Characters
    /\ Blank # ")"
  BY Zenon DEF Characters, Blank

(***************************************************************************)
(* Two sequences joined.                                                   *)
(***************************************************************************)
Join(a, b) == a \o b

Joins(joined, a, b, T) ==
    /\ joined \in Seq(T) /\ Len(joined) = Len(a) + Len(b)
    /\ \A i \in 1 .. Len(a) : joined[i] = a[i]
    /\ \A i \in 1 .. Len(b) : joined[Len(a) + i] = b[i]

LEMMA JoinedSeqs ==
    ASSUME NEW T, NEW a \in Seq(T), NEW b \in Seq(T)
    PROVE  Joins(Join(a, b), a, b, T)
<1> DEFINE joined == a \o b
<1>1. /\ joined \in Seq(T) /\ Len(joined) = Len(a) + Len(b)
      /\ \A i \in 1 .. Len(a) + Len(b) : joined[i] = IF i <= Len(a) THEN a[i] ELSE b[i - Len(a)]
  BY ConcatProperties
<1>2. Len(a) \in Nat /\ Len(b) \in Nat
  OBVIOUS
<1> HIDE DEF joined
<1>3. ASSUME NEW i \in 1 .. Len(a) PROVE joined[i] = a[i]
  <2>1. i \in 1 .. Len(a) + Len(b) /\ i <= Len(a)
    BY <1>2
  <2> QED BY <1>1, <2>1
<1>4. ASSUME NEW i \in 1 .. Len(b) PROVE joined[Len(a) + i] = b[i]
  <2>1. /\ Len(a) + i \in 1 .. Len(a) + Len(b) /\ ~(Len(a) + i <= Len(a))
        /\ (Len(a) + i) - Len(a) = i
    BY <1>2
  <2> QED BY <1>1, <2>1
<1>5. Joins(joined, a, b, T)
  BY <1>1, <1>3, <1>4 DEF Joins
<1> QED BY <1>5 DEF joined, Join

(***************************************************************************)
(* A function on 1 .. n is a sequence.                                     *)
(***************************************************************************)
LEMMA FunctionIsSeq ==
    ASSUME NEW T, NEW n \in Nat, NEW f \in [1 .. n -> T]
    PROVE  f \in Seq(T) /\ Len(f) = n
  BY SeqDef, LenProperties

(***************************************************************************)
(* The fields after the name, none of which is a blank or a bracket.       *)
(***************************************************************************)
LEMMA FieldsOfStat ==
    ASSUME InitStat
    PROVE  LET after == StatFields(stat)
           IN  /\ after \in Seq(Characters) /\ Len(after) = 21
               /\ after[2] = stat.parent /\ after[4] = stat.session /\ after[20] = stat.start
               /\ \A i \in 1 .. 21 :
                      after[i] # Blank /\ after[i] # ")" /\ after[i] \in Characters
<1> DEFINE four == <<"S", stat.parent, "group", stat.session>>
           others == [i \in 1 .. 15 |-> "other"]
           two == <<stat.start, "other">>
           after == StatFields(stat)
<1>1. stat.parent = "2" /\ stat.session = "3" /\ stat.start = "4"
  BY DEF InitStat
<1>a. \A x \in {"S", "2", "group", "3", "other", "4"} : x # Blank /\ x # ")" /\ x \in Characters
  BY CharactersIn
<1>2. /\ four \in Seq(Characters) /\ Len(four) = 4
      /\ four[1] = "S" /\ four[2] = stat.parent /\ four[3] = "group" /\ four[4] = stat.session
  BY <1>1, <1>a
<1>3. others \in Seq(Characters) /\ Len(others) = 15 /\ \A i \in 1 .. 15 : others[i] = "other"
  <2>1. others \in [1 .. 15 -> Characters] /\ 15 \in Nat
    BY <1>a
  <2>2. \A i \in 1 .. 15 : others[i] = "other"
    OBVIOUS
  <2> HIDE DEF others
  <2> QED BY ZenonT(90), <2>1, <2>2, FunctionIsSeq
<1>4. two \in Seq(Characters) /\ Len(two) = 2 /\ two[1] = stat.start /\ two[2] = "other"
  BY <1>1, <1>a
<1>5. after = Join(Join(four, others), two)
  BY Zenon DEF StatFields, Join
<1> DEFINE six == Join(four, others)
<1>7. /\ six \in Seq(Characters) /\ Len(six) = 19
      /\ six[1] = "S" /\ six[2] = stat.parent /\ six[3] = "group" /\ six[4] = stat.session
      /\ \A i \in 5 .. 19 : six[i] = "other"
  <2> HIDE DEF four, others
  <2>j. Joins(six, four, others, Characters)
    BY <1>2, <1>3, JoinedSeqs
  <2> HIDE DEF six
  <2>1. /\ six \in Seq(Characters) /\ Len(six) = 4 + 15
        /\ \A i \in 1 .. 4 : six[i] = four[i]
        /\ \A i \in 1 .. 15 : six[4 + i] = others[i]
    BY <1>2, <1>3, <2>j DEF Joins
  <2>2. \A i \in 5 .. 19 : i - 4 \in 1 .. 15 /\ 4 + (i - 4) = i
    OBVIOUS
  <2>3. \A i \in 5 .. 19 : six[i] = "other"
    BY ZenonT(90), <1>2, <1>3, <2>1, <2>2
  <2>4. 1 \in 1 .. 4 /\ 2 \in 1 .. 4 /\ 3 \in 1 .. 4 /\ 4 \in 1 .. 4
    OBVIOUS
  <2> QED BY SMTT(60), <1>2, <1>3, <2>1, <2>3, <2>4
<1>8. /\ after \in Seq(Characters) /\ Len(after) = 21
      /\ \A i \in 1 .. 19 : after[i] = six[i]
      /\ after[20] = stat.start /\ after[21] = "other"
  <2> HIDE DEF four, others, six, two
  <2> DEFINE all == Join(six, two)
  <2>1. after = all
    BY <1>5 DEF six
  <2>j. Joins(all, six, two, Characters)
    BY <1>4, <1>7, JoinedSeqs
  <2> HIDE DEF all, after
  <2>2. /\ all \in Seq(Characters) /\ Len(all) = 19 + 2
        /\ \A i \in 1 .. 19 : all[i] = six[i]
        /\ \A i \in 1 .. 2 : all[19 + i] = two[i]
    BY <1>4, <1>7, <2>j DEF Joins
  <2>3. 1 \in 1 .. 2 /\ 2 \in 1 .. 2 /\ 19 + 1 = 20 /\ 19 + 2 = 21
    OBVIOUS
  <2> QED BY <1>4, <1>7, <2>1, <2>2, <2>3
<1> HIDE DEF four, others, six, two, after
<1>9. \A i \in 1 .. 21 : after[i] \in {"S", "2", "group", "3", "other", "4"}
  <2> TAKE i \in 1 .. 21
  <2>1. i \in 1 .. 4 \/ i \in 5 .. 19 \/ i = 20 \/ i = 21
    OBVIOUS
  <2>2. CASE i \in 1 .. 4
    <3>1. (i = 1 \/ i = 2 \/ i = 3 \/ i = 4) /\ i \in 1 .. 19
      BY <2>2
    <3>2. after[i] = six[i]
      BY <1>8, <3>1
    <3> QED BY SMTT(60), <1>1, <1>7, <3>1, <3>2
  <2>3. CASE i \in 5 .. 19
    <3>1. i \in 1 .. 19
      BY <2>3
    <3> QED BY <1>7, <1>8, <2>3, <3>1
  <2>4. CASE i = 20 \/ i = 21
    BY <1>1, <1>8, <2>4
  <2> QED BY <2>1, <2>2, <2>3, <2>4
<1>10. after[2] = stat.parent /\ after[4] = stat.session /\ after[20] = stat.start
  <2>1. 2 \in 1 .. 19 /\ 4 \in 1 .. 19
    OBVIOUS
  <2> QED BY <1>7, <1>8, <2>1
<1>11. \A i \in 1 .. 21 : after[i] # Blank /\ after[i] # ")" /\ after[i] \in Characters
  BY <1>9, <1>a, Zenon
<1> QED BY <1>8, <1>10, <1>11 DEF after

(***************************************************************************)
(* The last closing bracket is the one that ends the name, whatever the    *)
(* name holds.                                                             *)
(***************************************************************************)
LEMMA StatIsParsed ==
    ASSUME InitStat
    PROVE  ParseLinuxProcessStat(StatLine(stat))
               = [parent |-> stat.parent, session |-> stat.session, start |-> stat.start]
<1> DEFINE after == StatFields(stat)
           rest == [i \in 1 .. 42 |-> IF i % 2 = 1 THEN Blank ELSE after[i \div 2]]
           opened == <<"pid", Blank, "(">>
           front == Join(Join(opened, stat.name), <<")">>)
           scan == StatLine(stat)
           c == Len(stat.name) + 4
           text == SubSeq(scan, c + 2, Len(scan))
<1>1. /\ after \in Seq(Characters) /\ Len(after) = 21
      /\ after[2] = stat.parent /\ after[4] = stat.session /\ after[20] = stat.start
      /\ \A i \in 1 .. 21 : after[i] # Blank /\ after[i] # ")" /\ after[i] \in Characters
  BY FieldsOfStat
<1>2. scan = Join(front, rest)
  <2>1. 2 * Len(after) = 42
    BY <1>1
  <2>2. StatLine(stat) = Join(front,
            [i \in 1 .. 2 * Len(after) |-> IF i % 2 = 1 THEN Blank ELSE after[i \div 2]])
    BY Zenon DEF StatLine, Join
  <2> QED BY <2>1, <2>2
<1>3. stat.name \in Seq(Characters)
  <2>1. stat.name \in Seq(STRING)
    BY CommsAssumption DEF InitStat
  <2>2. STRING \subseteq Characters
    BY DEF Characters
  <2> HIDE DEF Characters
  <2>3. Len(stat.name) \in Nat /\ stat.name \in [1 .. Len(stat.name) -> STRING]
    BY <2>1, LenProperties
  <2>4. stat.name \in [1 .. Len(stat.name) -> Characters]
    BY <2>2, <2>3
  <2> QED BY <2>3, <2>4, FunctionIsSeq
<1>4. opened \in Seq(Characters) /\ Len(opened) = 3
  BY CharactersIn
<1>5. Blank # ")"
  BY CharactersIn
<1> HIDE DEF after, opened, scan
<1>6. /\ front \in Seq(Characters) /\ Len(front) = c /\ front[c] = ")" /\ c \in Nat /\ c > 0
  <2> DEFINE named == Join(opened, stat.name)
             bracket == <<")">>
  <2>j. Joins(named, opened, stat.name, Characters)
    BY <1>3, <1>4, JoinedSeqs
  <2>1. /\ named \in Seq(Characters) /\ Len(named) = Len(opened) + Len(stat.name)
    BY <2>j DEF Joins
  <2>2. bracket \in Seq(Characters) /\ Len(bracket) = 1 /\ bracket[1] = ")"
    BY CharactersIn
  <2>3. front = Join(named, bracket)
    BY Zenon
  <2> HIDE DEF named, bracket, front
  <2>k. Joins(front, named, bracket, Characters)
    BY <2>1, <2>2, <2>3, JoinedSeqs
  <2>4. /\ front \in Seq(Characters) /\ Len(front) = Len(named) + 1
        /\ front[Len(named) + 1] = bracket[1]
    BY <2>2, <2>k DEF Joins
  <2>5. Len(stat.name) \in Nat /\ 1 \in 1 .. 1
    BY <1>3
  <2>6. Len(named) + 1 = c /\ c \in Nat /\ c > 0
    BY <1>4, <2>1, <2>5
  <2> QED BY <2>2, <2>4, <2>5, <2>6
<1>7. /\ rest \in Seq(Characters) /\ Len(rest) = 42
      /\ \A i \in 1 .. 42 : rest[i] # ")"
      /\ \A i \in 1 .. 21 : rest[2 * i] = after[i]
      /\ \A i \in 1 .. 20 : rest[2 * i + 1] = Blank
  <2>1. ASSUME NEW i \in 1 .. 42
        PROVE  rest[i] \in Characters /\ rest[i] # ")"
    <3>1. CASE i % 2 = 1
      <4>1. rest[i] = Blank
        BY <3>1
      <4>2. Blank \in Characters
        BY CharactersIn
      <4> QED BY <1>5, <4>1, <4>2
    <3>2. CASE i % 2 # 1
      <4>1. i \div 2 \in 1 .. 21
        BY <3>2
      <4>2. rest[i] = after[i \div 2]
        BY <3>2
      <4>3. after[i \div 2] \in Characters
        BY <1>1, <4>1
      <4> QED BY <1>1, <4>1, <4>2, <4>3
    <3> QED BY <3>1, <3>2
  <2>2. ASSUME NEW i \in 1 .. 21 PROVE rest[2 * i] = after[i]
    <3>1. 2 * i \in 1 .. 42 /\ (2 * i) % 2 = 0 /\ (2 * i) \div 2 = i
      OBVIOUS
    <3> QED BY <3>1
  <2>3. ASSUME NEW i \in 1 .. 20 PROVE rest[2 * i + 1] = Blank
    <3>1. 2 * i + 1 \in 1 .. 42 /\ (2 * i + 1) % 2 = 1
      OBVIOUS
    <3> QED BY <3>1
  <2>4. rest = [i \in 1 .. 42 |-> rest[i]]
    OBVIOUS
  <2> HIDE DEF rest
  <2>5. rest \in [1 .. 42 -> Characters] /\ 42 \in Nat
    BY <2>1, <2>4
  <2>6. rest \in Seq(Characters) /\ Len(rest) = 42
    BY ZenonT(90), <2>5, FunctionIsSeq
  <2> QED BY <2>1, <2>2, <2>3, <2>6
<1> HIDE DEF front, rest, c
<1>8. /\ scan \in Seq(Characters) /\ Len(scan) = c + 42
      /\ \A i \in 1 .. c : scan[i] = front[i]
      /\ \A i \in 1 .. 42 : scan[c + i] = rest[i]
  <2>j. Joins(scan, front, rest, Characters)
    BY <1>2, <1>6, <1>7, JoinedSeqs
  <2> QED BY <1>6, <1>7, <2>j DEF Joins
<1>9. ParseLinuxProcessStat(scan) = FieldsAfter(scan, c)
  <2> DEFINE closing == {i \in DOMAIN scan : scan[i] = ")"}
             last == CHOOSE i \in closing : \A j \in closing : j <= i
  <2>1. DOMAIN scan = 1 .. c + 42
    BY <1>6, <1>8
  <2>2. c \in closing
    <3>1. c \in 1 .. c /\ c \in 1 .. c + 42
      BY <1>6
    <3> QED BY <1>6, <1>8, <2>1, <3>1
  <2>3. \A j \in closing : j \in Nat /\ j <= c
    <3>c. c \in Nat
      BY <1>6
    <3> SUFFICES ASSUME NEW j \in 1 .. c + 42, scan[j] = ")", j > c PROVE FALSE
      BY <2>1, <3>c
    <3>0. scan[j] = ")"
      OBVIOUS
    <3>1. j - c \in 1 .. 42 /\ c + (j - c) = j
      BY <3>c
    <3>2. scan[j] = rest[j - c]
      BY <1>8, <3>1
    <3> QED BY <1>7, <3>0, <3>1, <3>2
  <2> HIDE DEF closing
  <2>4. last \in closing /\ \A j \in closing : j <= last
    BY <2>2, <2>3
  <2> HIDE DEF last
  <2>5. last = c
    BY <1>6, <2>2, <2>3, <2>4
  <2>6. ParseLinuxProcessStat(scan) = FieldsAfter(scan, last)
    BY Zenon DEF ParseLinuxProcessStat, last, closing
  <2> QED BY <2>5, <2>6
<1>10. /\ text \in Seq(Characters) /\ Len(text) = 2 * 21 - 1
       /\ \A k \in 1 .. 41 : text[k] = rest[k + 1]
  <2>1. ASSUME NEW i \in c + 2 .. Len(scan) PROVE scan[i] \in Characters
    <3>1. i \in 1 .. Len(scan)
      BY <1>6, <1>8
    <3>2. scan \in Seq(Characters)
      BY <1>8
    <3> QED BY <3>1, <3>2, ElementOfSeq
  <2>2. c + 2 \in Int /\ Len(scan) \in Int /\ c + 2 <= Len(scan) /\ Len(scan) - (c + 2) + 1 = 41
    BY <1>6, <1>8
  <2>3. /\ text \in Seq(Characters)
        /\ Len(text) = IF c + 2 <= Len(scan) THEN Len(scan) - (c + 2) + 1 ELSE 0
        /\ \A k \in 1 .. Len(scan) - (c + 2) + 1 : text[k] = scan[(c + 2) + k - 1]
    BY <2>1, <2>2, SubSeqProperties
  <2> HIDE DEF text
  <2>4. ASSUME NEW k \in 1 .. 41 PROVE text[k] = rest[k + 1]
    <3>1. k + 1 \in 1 .. 42 /\ (c + 2) + k - 1 = c + (k + 1)
      BY <1>6
    <3>2. text[k] = scan[c + (k + 1)]
      BY <2>2, <2>3, <3>1
    <3> QED BY <1>8, <3>1, <3>2
  <2> QED BY <2>2, <2>3, <2>4
<1> HIDE DEF text
<1>11. /\ \A i \in 1 .. 21 : text[2 * i - 1] = after[i]
       /\ \A i \in 1 .. 21 - 1 : text[2 * i] = Blank
  <2>1. \A i \in 1 .. 21 : 2 * i - 1 \in 1 .. 41 /\ (2 * i - 1) + 1 = 2 * i
    OBVIOUS
  <2>2. \A i \in 1 .. 21 - 1 : 2 * i \in 1 .. 41 /\ i \in 1 .. 20
    OBVIOUS
  <2>3. \A i \in 1 .. 21 : text[2 * i - 1] = after[i]
    BY ZenonT(90), <1>7, <1>10, <2>1
  <2> QED BY <1>7, <1>10, <2>2, <2>3
<1>12. WordsOf(text) = [i \in 1 .. 21 |-> text[2 * i - 1]]
  <2>1. \A i \in 1 .. 21 : text[2 * i - 1] # Blank
    BY <1>1, <1>11
  <2>2. 21 \in Nat \ {0}
    OBVIOUS
  <2> QED BY <1>10, <1>11, <2>1, <2>2, WordsInTurn, ZenonT(90)
<1>13. /\ Len(WordsOf(text)) = 21
       /\ WordsOf(text)[2] = after[2] /\ WordsOf(text)[4] = after[4]
       /\ WordsOf(text)[20] = after[20]
  BY <1>11, <1>12
<1>14. FieldsAfter(scan, c)
           = [parent |-> WordsOf(text)[2], session |-> WordsOf(text)[4],
              start |-> WordsOf(text)[20]]
  <2> DEFINE words == WordsOf(text)
  <2>1. FieldsAfter(scan, c)
            = IF Len(words) < 20 THEN Unparsed
              ELSE [parent |-> words[2], session |-> words[4], start |-> words[20]]
    BY Zenon DEF FieldsAfter, text
  <2> QED BY <1>13, <2>1
<1> QED BY <1>1, <1>9, <1>13, <1>14 DEF scan

(***************************************************************************)
(* Of whatever is read of one process: the process that is passed over at  *)
(* the login boundary was the login process between the shell and the      *)
(* process that is returned, however processes end and pids are used again *)
(* between the reads; and the line of a process of Linux tells its parent, *)
(* session and start, whatever the process calls itself.                   *)
(***************************************************************************)
THEOREM ReadingsStayTrue == TableSpec => []ReadingsHold
<1> DEFINE TableSound ==
               /\ CrossingSound /\ InitStat
               /\ parsed # Unparsed =>
                      parsed = [parent |-> stat.parent, session |-> stat.session,
                                start |-> stat.start]
<1>1. InitTable => TableSound
  BY CrossingInit DEF InitTable
<1>2. TableSound /\ [NextCrossing \/ ReadStat]_tableVars => TableSound'
  <2> SUFFICES ASSUME TableSound, [NextCrossing \/ ReadStat]_tableVars PROVE TableSound'
    OBVIOUS
  <2>1. CASE ReadStat
    <3>1. UNCHANGED <<kin, births, crossing, real, stat>>
      BY <2>1 DEF ReadStat
    <3>2. parsed' = ParseLinuxProcessStat(StatLine(stat))
      BY <2>1 DEF ReadStat
    <3>3. CrossingSound' <=> CrossingSound
      BY <3>1, ZenonT(90) DEF CrossingSound, Crossing, Ages, ChildRead, BoundaryRead, SameBoundary,
                  StillBetween, StillBelow, SameShell
    <3>4. InitStat'
      BY <3>1 DEF InitStat
    <3>5. parsed' = [parent |-> stat'.parent, session |-> stat'.session, start |-> stat'.start]
      BY <3>1, <3>2, StatIsParsed
    <3> QED BY <3>3, <3>4, <3>5
  <2>2. CASE NextCrossing
    <3>1. UNCHANGED <<stat, parsed>>
      BY <2>2 DEF NextCrossing, ReadShell, ReadBoundary, ReadBoundaryParentUid, ReadShellSession,
                  ReadBoundaryParent, RevalidateBoundary, RevalidateShell, ProcessEnds,
                  ProcessForks
    <3>2. CrossingSound'
      BY <2>2, ReadShellSound, ReadBoundarySound, ReadUidSound, ReadSessionSound,
         ReadParentSound, RevalidateBoundarySound, RevalidateShellSound, AroundCrossing
         DEF NextCrossing
    <3>3. InitStat'
      BY <3>1 DEF InitStat
    <3> QED BY <3>1, <3>2, <3>3
  <2>3. CASE UNCHANGED tableVars
    <3>1. UNCHANGED <<kin, births, crossing, real, stat, parsed>>
      BY <2>3 DEF tableVars
    <3>2. CrossingSound' <=> CrossingSound
      BY <3>1 DEF CrossingSound, Crossing, Ages, ChildRead, BoundaryRead, SameBoundary,
                  StillBetween, StillBelow, SameShell
    <3>3. InitStat'
      BY <3>1 DEF InitStat
    <3> QED BY <3>1, <3>2, <3>3
  <2> QED BY <2>1, <2>2, <2>3
<1>3. TableSound => ReadingsHold
  BY DEF ReadingsHold, CrossingSound
<1> HIDE DEF TableSound
<1> QED BY <1>1, <1>2, <1>3, PTL DEF TableSpec

------------------------------------------------------------------------------
(***************************************************************************)
(* The arguments of a command. The steps of a command that sends something *)
(* and those of one that sets the master password.                         *)
(***************************************************************************)
SendingSteps == {"files", "options", "again", "fields", "upload", "sent", "broken"}
MasterSteps == {"master", "weak", "confirm", "set"}

(***************************************************************************)
(* The commands that set the master password.                              *)
(***************************************************************************)
MasterOps == {"init", "passwd"}

(***************************************************************************)
(* A sequence of whatever it holds.                                        *)
(***************************************************************************)
IsSequence(s) == s \in Seq(Range(s))

(***************************************************************************)
(* The shape of the command's state, and a step that its order knows.      *)
(***************************************************************************)
LineSound ==
    /\ order \in Orders
    /\ line = [at |-> line.at, k |-> line.k, fields |-> line.fields, files |-> line.files,
               uploaded |-> line.uploaded, secret |-> line.secret]
    /\ line.k \in Nat \ {0} /\ line.uploaded \in Nat
    /\ IsSequence(line.fields) /\ IsSequence(line.files) /\ IsSequence(keyed)
    /\ \/ line.at = "refused"
       \/ line.at \in SendingSteps /\ order.op \notin MasterOps
       \/ line.at \in MasterSteps /\ order.op \in MasterOps

(***************************************************************************)
(* The names in a list of fields or files, and that none is there twice.   *)
(***************************************************************************)
NamesIn(s) == {s[i].name : i \in 1 .. Len(s)}
NamedOnce(s) == \A i, j \in 1 .. Len(s) : s[i].name = s[j].name => i = j

ListsNamedOnce == NamedOnce(line.fields) /\ NamedOnce(line.files)

(***************************************************************************)
(* The names of the fields that the first options come to.                 *)
(***************************************************************************)
NameFor(option) == IF option = "generate" THEN "password" ELSE option
NamesOfOptions(n, o) ==
    {NameFor(option) : option \in {Options[i] : i \in 1 .. n} \cap DOMAIN o.options}

(***************************************************************************)
(* The names of the first fields of the command line.                      *)
(***************************************************************************)
NamesOfFields(n, o) == {o.fields[j].name : j \in 1 .. n}

(***************************************************************************)
(* How far the command has come with its command line: a file, a field for *)
(* each argument so far.                                                   *)
(***************************************************************************)
Progress ==
    /\ line.at = "files" =>
           line.fields = <<>> /\ line.k <= Len(order.files) + 1 /\ Len(line.files) = line.k - 1
    /\ line.at \in SendingSteps \ {"files"} => Len(line.files) = Len(order.files)
    /\ line.at \in {"options", "again"} =>
           line.k <= 7 /\ NamesIn(line.fields) = NamesOfOptions(line.k - 1, order)
    /\ line.at = "again" => line.k = 4 /\ "password" \in DOMAIN order.options
    /\ line.at = "fields" =>
           /\ line.k <= Len(order.fields) + 1
           /\ NamesIn(line.fields) = NamesOfOptions(6, order) \cup NamesOfFields(line.k - 1, order)
    /\ line.at \in {"upload", "sent", "broken"} =>
           /\ NamesIn(line.fields) = AskedNames
           /\ NamesIn(line.fields) \cap NamesIn(line.files) = {}

(***************************************************************************)
(* A field that the command line makes a secret is one.                    *)
(***************************************************************************)
FieldConcealed(f, o) ==
    /\ f.name \in {"password", "totp"} \cap DOMAIN o.options => f.concealed
    /\ o.concealed # <<>> /\ f.name \in o.concealed[1] =>
           f.concealed \/ f.name \in {"username", "email", "website"}

SecretsConcealed ==
    line.at \in SendingSteps =>
        \A i \in 1 .. Len(line.fields) : FieldConcealed(line.fields[i], order)

(***************************************************************************)
(* Only files that can be read are with the agent, and none before the     *)
(* last argument was taken.                                                *)
(***************************************************************************)
UploadsSound ==
    /\ line.at \notin {"upload", "sent", "broken"} => line.uploaded = 0
    /\ line.uploaded <= Len(line.files)
    /\ \A i \in 1 .. line.uploaded : line.files[i].readable

(***************************************************************************)
(* The answers to a question.                                              *)
(***************************************************************************)
WasEntered(answers, question, entry) ==
    \E i \in DOMAIN answers : answers[i].question = question /\ answers[i].entry = entry
WasEnteredTwice(answers, secret) ==
    WasEntered(answers, "password", secret) /\ WasEntered(answers, "again", secret)

(***************************************************************************)
(* The password asked for was entered twice by the time its field is there. *)
(***************************************************************************)
PasswordsEntered ==
    /\ line.at = "again" =>
           WasEntered(keyed, "password", line.secret)
    /\ (/\ \/ line.at = "options" /\ line.k > 4
           \/ line.at \in {"fields", "upload", "sent"}
        /\ "password" \in DOMAIN order.options) =>
           \E i \in 1 .. Len(line.fields) :
               line.fields[i].name = "password" /\ WasEnteredTwice(keyed, line.fields[i].data)

(***************************************************************************)
(* What is going to be the master password.                                *)
(***************************************************************************)
MasterEntered ==
    line.at \in MasterSteps \ {"master"} =>
        /\ line.secret.chars >= MinLength /\ line.secret # order.current
        /\ WasEntered(keyed, "password", line.secret)
        /\ line.at \in {"confirm", "set"} /\ line.secret.score < 3 =>
               WasEntered(keyed, "weak", "y")
        /\ line.at = "set" => WasEnteredTwice(keyed, line.secret)

ArgumentsInv ==
    /\ LineSound /\ ListsNamedOnce /\ Progress /\ SecretsConcealed /\ UploadsSound
    /\ PasswordsEntered /\ MasterEntered

(***************************************************************************)
(* What a sequence is indexed by.                                          *)
(***************************************************************************)
LEMMA SequenceShape ==
    ASSUME NEW s, IsSequence(s)
    PROVE  Len(s) \in Nat /\ DOMAIN s = 1 .. Len(s)
  BY DEF IsSequence

(***************************************************************************)
(* The members of a list, and their names.                                 *)
(***************************************************************************)
LEMMA SequenceRange ==
    ASSUME NEW s, IsSequence(s)
    PROVE  /\ Range(s) = {s[i] : i \in 1 .. Len(s)}
           /\ {f.name : f \in Range(s)} = NamesIn(s)
<1>1. Range(s) = {s[i] : i \in 1 .. Len(s)}
  BY SequenceShape DEF Range
<1> QED BY <1>1 DEF NamesIn

(***************************************************************************)
(* A list with one more entry.                                             *)
(***************************************************************************)
LEMMA Appended ==
    ASSUME NEW s, IsSequence(s), NEW e
    PROVE  /\ IsSequence(Append(s, e)) /\ Len(Append(s, e)) = Len(s) + 1
           /\ \A i \in 1 .. Len(s) : Append(s, e)[i] = s[i]
           /\ Append(s, e)[Len(s) + 1] = e
<1> DEFINE T == Range(s) \cup {e}
<1>1. s \in Seq(T)
  <2>1. s \in Seq(Range(s)) /\ Range(s) \subseteq T
    BY DEF IsSequence
  <2> HIDE DEF T
  <2> QED BY <2>1
<1>2. /\ Append(s, e) \in Seq(T) /\ Len(Append(s, e)) = Len(s) + 1
      /\ \A i \in 1 .. Len(s) : Append(s, e)[i] = s[i]
      /\ Append(s, e)[Len(s) + 1] = e
  <2>1. e \in T
    OBVIOUS
  <2> HIDE DEF T
  <2> QED BY <1>1, <2>1
<1>3. IsSequence(Append(s, e))
  <2> DEFINE longer == Append(s, e)
  <2>1. longer \in Seq(T)
    BY <1>2
  <2> HIDE DEF longer, T
  <2>2. \A i \in 1 .. Len(longer) : longer[i] \in Range(longer)
    BY <2>1 DEF Range
  <2>3. longer \in Seq(Range(longer))
    BY <2>1, <2>2
  <2> QED BY <2>3 DEF IsSequence, longer
<1> QED BY <1>2, <1>3

(***************************************************************************)
(* A new entry whose name is new: still no name twice.                     *)
(***************************************************************************)
LEMMA AppendedName ==
    ASSUME NEW s, IsSequence(s), NamedOnce(s), NEW e, e.name \notin NamesIn(s)
    PROVE  /\ NamedOnce(Append(s, e))
           /\ NamesIn(Append(s, e)) = NamesIn(s) \cup {e.name}
<1> DEFINE longer == Append(s, e)
<1>1. Len(s) \in Nat
  BY SequenceShape
<1>2. /\ Len(longer) = Len(s) + 1
      /\ \A i \in 1 .. Len(s) : longer[i] = s[i]
      /\ longer[Len(s) + 1] = e
  BY Appended
<1> HIDE DEF longer
<1>3. NamedOnce(longer)
  <2> SUFFICES ASSUME NEW i \in 1 .. Len(longer), NEW j \in 1 .. Len(longer),
                      longer[i].name = longer[j].name
               PROVE  i = j
    BY DEF NamedOnce
  <2>1. CASE i \in 1 .. Len(s) /\ j \in 1 .. Len(s)
    BY <1>2, <2>1 DEF NamedOnce
  <2>2. CASE i \in 1 .. Len(s) /\ j = Len(s) + 1
    <3>1. s[i].name = e.name
      BY <1>2, <2>2
    <3> QED BY <2>2, <3>1 DEF NamesIn
  <2>3. CASE j \in 1 .. Len(s) /\ i = Len(s) + 1
    <3>1. s[j].name = e.name
      BY <1>2, <2>3
    <3> QED BY <2>3, <3>1 DEF NamesIn
  <2> QED BY <1>1, <1>2, <2>1, <2>2, <2>3
<1>4. NamesIn(longer) = NamesIn(s) \cup {e.name}
  <2>1. 1 .. Len(longer) = (1 .. Len(s)) \cup {Len(s) + 1}
    BY <1>1, <1>2
  <2>2. {longer[i].name : i \in 1 .. Len(s)} = {s[i].name : i \in 1 .. Len(s)}
    BY <1>2
  <2> QED BY <1>2, <2>1, <2>2 DEF NamesIn
<1> QED BY <1>3, <1>4 DEF longer

(***************************************************************************)
(* A list in which no name is twice has as many names as entries.          *)
(***************************************************************************)
LEMMA NamesCounted ==
    ASSUME NEW s, IsSequence(s), NamedOnce(s)
    PROVE  IsFiniteSet(NamesIn(s)) /\ Cardinality(NamesIn(s)) = Len(s)
<1> DEFINE name == [i \in 1 .. Len(s) |-> s[i].name]
<1>1. Len(s) \in Nat
  BY SequenceShape
<1>2. IsFiniteSet(1 .. Len(s)) /\ Cardinality(1 .. Len(s)) = Len(s)
  <2>1. 1 \in Int /\ Len(s) \in Int
    BY <1>1
  <2>2. /\ IsFiniteSet(1 .. Len(s))
        /\ Cardinality(1 .. Len(s)) = IF 1 > Len(s) THEN 0 ELSE Len(s) - 1 + 1
    BY <2>1, FS_Interval
  <2> QED BY <1>1, <2>2
<1>3. name \in Bijection(1 .. Len(s), NamesIn(s))
  BY DEF Bijection, Injection, Surjection, IsInjective, NamesIn, NamedOnce
<1>4. ExistsBijection(1 .. Len(s), NamesIn(s))
  BY <1>3 DEF ExistsBijection
<1> HIDE DEF name
<1> QED BY <1>2, <1>4, FS_Bijection


(***************************************************************************)
(* The empty list.                                                         *)
(***************************************************************************)
LEMMA NothingListed ==
    IsSequence(<<>>) /\ NamedOnce(<<>>) /\ NamesIn(<<>>) = {}
<1>1. IsSequence(<<>>)
  BY DEF IsSequence
<1>2. Len(<<>>) = 0
  OBVIOUS
<1> QED BY <1>1, <1>2 DEF NamedOnce, NamesIn

(***************************************************************************)
(* What OrdersAssumption says of the command line at hand.                 *)
(***************************************************************************)
LEMMA OrderLists ==
    ASSUME order \in Orders, order.op \notin MasterOps
    PROVE  /\ IsSequence(order.fields) /\ IsSequence(order.files)
           /\ Len(order.fields) \in Nat /\ Len(order.files) \in Nat
           /\ DOMAIN order.fields = 1 .. Len(order.fields)
           /\ DOMAIN order.options
                  \subseteq {"username", "email", "website", "password", "generate", "totp"}
<1>1. order.op \notin {"init", "passwd"}
  BY DEF MasterOps
<1>2. IsSequence(order.fields) /\ IsSequence(order.files)
  BY <1>1, OrdersAssumption DEF IsSequence
<1>3. DOMAIN order.options
          \subseteq {"username", "email", "website", "password", "generate", "totp"}
  BY <1>1, OrdersAssumption
<1> QED BY <1>2, <1>3, SequenceShape

(***************************************************************************)
(* One option more.                                                        *)
(***************************************************************************)
LEMMA OptionsListed ==
    Options[1] = "username" /\ Options[2] = "email" /\ Options[3] = "website"
    /\ Options[4] = "password" /\ Options[5] = "generate" /\ Options[6] = "totp"
    /\ Len(Options) = 6
  BY DEF Options

(***************************************************************************)
(* One option more is one name more, if the command line has it.           *)
(***************************************************************************)
LEMMA OptionsStep ==
    ASSUME NEW n \in 1 .. 6, NEW o
    PROVE  NamesOfOptions(n, o) =
               NamesOfOptions(n - 1, o)
               \cup (IF Options[n] \in DOMAIN o.options THEN {NameFor(Options[n])} ELSE {})
<1>1. 1 .. n = (1 .. (n - 1)) \cup {n}
  OBVIOUS
<1>2. {Options[i] : i \in 1 .. n} = {Options[i] : i \in 1 .. (n - 1)} \cup {Options[n]}
  BY <1>1
<1> DEFINE earlier == {Options[i] : i \in 1 .. (n - 1)}
           last == Options[n]
           asked == DOMAIN o.options
<1>3. /\ NamesOfOptions(n, o) = {NameFor(option) : option \in (earlier \cup {last}) \cap asked}
      /\ NamesOfOptions(n - 1, o) = {NameFor(option) : option \in earlier \cap asked}
  BY <1>2 DEF NamesOfOptions
<1> HIDE DEF earlier, last, asked
<1>4. {NameFor(option) : option \in (earlier \cup {last}) \cap asked} =
          {NameFor(option) : option \in earlier \cap asked}
          \cup (IF last \in asked THEN {NameFor(last)} ELSE {})
  OBVIOUS
<1> QED BY <1>3, <1>4 DEF last, asked

(***************************************************************************)
(* Before the first option there is no name.                               *)
(***************************************************************************)
LEMMA NoOptions == \A o : NamesOfOptions(0, o) = {}
<1>1. {Options[i] : i \in 1 .. 0} = {}
  OBVIOUS
<1> QED BY <1>1 DEF NamesOfOptions

(***************************************************************************)
(* All the options and all the fields are all that was asked for.          *)
(***************************************************************************)
LEMMA AllAsked ==
    ASSUME order \in Orders, order.op \notin MasterOps
    PROVE  AskedNames = NamesOfOptions(6, order) \cup NamesOfFields(Len(order.fields), order)
<1> DEFINE asked == DOMAIN order.options
           six == {"username", "email", "website", "password", "generate", "totp"}
<1>1. asked \subseteq six /\ DOMAIN order.fields = 1 .. Len(order.fields)
  BY OrderLists
<1>2. {Options[i] : i \in 1 .. 6} = six
  <2>1. 1 .. 6 = {1, 2, 3, 4, 5, 6}
    OBVIOUS
  <2>2. {Options[i] : i \in {1, 2, 3, 4, 5, 6}} =
            {Options[1], Options[2], Options[3], Options[4], Options[5], Options[6]}
    OBVIOUS
  <2> QED BY <2>1, <2>2, OptionsListed
<1>3. {Options[i] : i \in 1 .. 6} \cap asked = asked
  BY <1>1, <1>2
<1>4. NamesOfOptions(6, order) = {NameFor(option) : option \in asked}
  BY <1>3 DEF NamesOfOptions
<1>5. AskedNames = {NameFor(option) : option \in asked}
                   \cup {order.fields[j].name : j \in DOMAIN order.fields}
  BY DEF AskedNames, NameFor
<1> QED BY <1>1, <1>4, <1>5 DEF NamesOfFields

(***************************************************************************)
(* One field more is one name more.                                        *)
(***************************************************************************)
LEMMA FieldsStep ==
    ASSUME NEW n \in Nat \ {0}, NEW o
    PROVE  NamesOfFields(n, o) = NamesOfFields(n - 1, o) \cup {o.fields[n].name}
<1>1. 1 .. n = (1 .. (n - 1)) \cup {n}
  OBVIOUS
<1> QED BY <1>1 DEF NamesOfFields

(***************************************************************************)
(* What was entered stays entered.                                         *)
(***************************************************************************)
KeyedKept ==
    /\ IsSequence(keyed')
    /\ \A question, entry :
           WasEntered(keyed, question, entry) => WasEntered(keyed', question, entry)

(***************************************************************************)
(* An answer adds to what was entered.                                     *)
(***************************************************************************)
LEMMA KeyedGrows ==
    ASSUME IsSequence(keyed), NEW question, NEW entry, Entered(question, entry)
    PROVE  KeyedKept /\ WasEntered(keyed', question, entry)
<1> DEFINE e == [question |-> question, entry |-> entry]
<1>1. keyed' = Append(keyed, e)
  BY DEF Entered
<1>2. e.question = question /\ e.entry = entry
  OBVIOUS
<1> HIDE DEF e
<1>3. /\ IsSequence(keyed') /\ Len(keyed') = Len(keyed) + 1
      /\ \A i \in 1 .. Len(keyed) : keyed'[i] = keyed[i]
      /\ keyed'[Len(keyed) + 1] = e
  BY <1>1, Appended
<1>4. Len(keyed) \in Nat /\ DOMAIN keyed = 1 .. Len(keyed)
  BY SequenceShape
<1>5. DOMAIN keyed' = 1 .. (Len(keyed) + 1)
  BY <1>3, SequenceShape
<1>6. ASSUME NEW q, NEW a, WasEntered(keyed, q, a)
      PROVE  WasEntered(keyed', q, a)
  <2>1. PICK i \in DOMAIN keyed : keyed[i].question = q /\ keyed[i].entry = a
    BY <1>6 DEF WasEntered
  <2>2. i \in 1 .. Len(keyed) /\ i \in DOMAIN keyed'
    BY <1>4, <1>5
  <2> QED BY <1>3, <2>1, <2>2 DEF WasEntered
<1>7. WasEntered(keyed', question, entry)
  <2>1. Len(keyed) + 1 \in DOMAIN keyed'
    BY <1>4, <1>5
  <2> QED BY <1>2, <1>3, <2>1 DEF WasEntered
<1> QED BY <1>3, <1>6, <1>7 DEF KeyedKept

(***************************************************************************)
(* A step without a question keeps what was entered.                       *)
(***************************************************************************)
LEMMA KeyedStays ==
    ASSUME IsSequence(keyed), Unasked
    PROVE  KeyedKept
  BY DEF Unasked, KeyedKept

(***************************************************************************)
(* A command that refuses before its first upload.                         *)
(***************************************************************************)
LEMMA Refusal ==
    ASSUME ArgumentsInv, line.at \notin {"upload", "sent", "broken"},
           Refuse, order' = order, KeyedKept
    PROVE  ArgumentsInv'
<1>1. line' = [at |-> "refused", k |-> line.k, fields |-> line.fields, files |-> line.files,
               uploaded |-> line.uploaded, secret |-> line.secret]
  BY DEF Refuse, ArgumentsInv, LineSound
<1>2. /\ line'.at = "refused" /\ line'.k = line.k /\ line'.fields = line.fields
      /\ line'.files = line.files /\ line'.uploaded = line.uploaded /\ line'.secret = line.secret
  BY <1>1
<1>3. LineSound'
  BY <1>1, <1>2 DEF LineSound, ArgumentsInv, KeyedKept
<1>4. ListsNamedOnce'
  BY <1>2 DEF ListsNamedOnce, ArgumentsInv
<1>5. Progress' /\ SecretsConcealed' /\ PasswordsEntered' /\ MasterEntered'
  BY <1>2 DEF Progress, SecretsConcealed, PasswordsEntered, MasterEntered, SendingSteps, MasterSteps
<1>6. UploadsSound'
  BY <1>2 DEF UploadsSound, ArgumentsInv
<1> QED BY <1>3, <1>4, <1>5, <1>6 DEF ArgumentsInv

(***************************************************************************)
(* push_field when it takes the field.                                     *)
(***************************************************************************)
Takes(field, at) ==
    line' = [line EXCEPT !.fields = Append(@, field), !.k = @ + 1, !.at = at]

(***************************************************************************)
(* A field that is pushed is the last one and the only one of its name.    *)
(***************************************************************************)
LEMMA Pushed ==
    ASSUME ArgumentsInv, NEW field, NEW at,
           field.name \notin NamesIn(line.fields),
           Takes(field, at)
    PROVE  /\ line' = [at |-> line'.at, k |-> line'.k, fields |-> line'.fields,
                       files |-> line'.files, uploaded |-> line'.uploaded,
                       secret |-> line'.secret]
           /\ line'.at = at /\ line'.k = line.k + 1 /\ line'.files = line.files
           /\ line'.uploaded = line.uploaded /\ line'.secret = line.secret
           /\ IsSequence(line'.fields) /\ NamedOnce(line'.fields)
           /\ NamesIn(line'.fields) = NamesIn(line.fields) \cup {field.name}
           /\ Len(line.fields) \in Nat /\ Len(line'.fields) = Len(line.fields) + 1
           /\ \A i \in 1 .. Len(line.fields) : line'.fields[i] = line.fields[i]
           /\ line'.fields[Len(line.fields) + 1] = field
<1> DEFINE longer == Append(line.fields, field)
<1>1. line' = [at |-> at, k |-> line.k + 1, fields |-> longer, files |-> line.files,
               uploaded |-> line.uploaded, secret |-> line.secret]
  BY DEF ArgumentsInv, LineSound, Takes
<1>2. IsSequence(line.fields) /\ NamedOnce(line.fields)
  BY DEF ArgumentsInv, LineSound, ListsNamedOnce
<1>3. /\ IsSequence(longer) /\ Len(longer) = Len(line.fields) + 1
      /\ \A i \in 1 .. Len(line.fields) : longer[i] = line.fields[i]
      /\ longer[Len(line.fields) + 1] = field
  BY <1>2, Appended
<1>4. NamedOnce(longer) /\ NamesIn(longer) = NamesIn(line.fields) \cup {field.name}
  BY <1>2, AppendedName
<1>5. Len(line.fields) \in Nat
  BY <1>2, SequenceShape
<1> HIDE DEF longer
<1> DEFINE next == line.k + 1
<1> HIDE DEF next
<1>6. /\ line'.at = at /\ line'.k = next /\ line'.files = line.files
      /\ line'.fields = longer
      /\ line'.uploaded = line.uploaded /\ line'.secret = line.secret
  <2>1. line' = [at |-> at, k |-> next, fields |-> longer, files |-> line.files,
                 uploaded |-> line.uploaded, secret |-> line.secret]
    BY <1>1 DEF next
  <2> QED BY <2>1
<1>7. line' = [at |-> line'.at, k |-> line'.k, fields |-> line'.fields,
               files |-> line'.files, uploaded |-> line'.uploaded, secret |-> line'.secret]
  BY <1>1, <1>6
<1> QED BY <1>3, <1>4, <1>5, <1>6, <1>7 DEF next

(***************************************************************************)
(* The same name as another field's: refused.                              *)
(***************************************************************************)
LEMMA PushedOrRefused ==
    ASSUME ArgumentsInv, NEW field, NEW at, PushField(field, at)
    PROVE  \/ Refuse
           \/ field.name \notin NamesIn(line.fields) /\ Takes(field, at)
<1>1. Range(line.fields) = {line.fields[i] : i \in 1 .. Len(line.fields)}
  BY SequenceRange DEF ArgumentsInv, LineSound
<1>2. (\E f \in Range(line.fields) : f.name = field.name) <=> field.name \in NamesIn(line.fields)
  BY <1>1 DEF NamesIn
<1>3. CASE field.name = "" \/ \E f \in Range(line.fields) : f.name = field.name
  BY <1>3 DEF PushField
<1>4. CASE ~(field.name = "" \/ \E f \in Range(line.fields) : f.name = field.name)
  BY <1>2, <1>4 DEF PushField, Takes
<1> QED BY <1>3, <1>4

(***************************************************************************)
(* An option that comes to a field.                                        *)
(***************************************************************************)
LEMMA OptionTaken ==
    ASSUME ArgumentsInv, order' = order, KeyedKept,
           line.at \in {"options", "again"}, line.k \in 1 .. 6, Option \in DOMAIN order.options,
           NEW field, field.name = NameFor(Option), FieldConcealed(field, order),
           Option = "password" => WasEnteredTwice(keyed', field.data),
           PushField(field, "options")
    PROVE  ArgumentsInv'
<1>1. CASE Refuse
  BY <1>1, Refusal
<1>2. CASE field.name \notin NamesIn(line.fields) /\ Takes(field, "options")
  <2>1. /\ line' = [at |-> line'.at, k |-> line'.k, fields |-> line'.fields,
                    files |-> line'.files, uploaded |-> line'.uploaded,
                    secret |-> line'.secret]
        /\ line'.at = "options" /\ line'.k = line.k + 1 /\ line'.files = line.files
        /\ line'.uploaded = line.uploaded /\ line'.secret = line.secret
        /\ IsSequence(line'.fields) /\ NamedOnce(line'.fields)
        /\ NamesIn(line'.fields) = NamesIn(line.fields) \cup {field.name}
        /\ Len(line.fields) \in Nat /\ Len(line'.fields) = Len(line.fields) + 1
        /\ \A i \in 1 .. Len(line.fields) : line'.fields[i] = line.fields[i]
        /\ line'.fields[Len(line.fields) + 1] = field
    BY <1>2, Pushed
  <2>2. order.op \notin MasterOps
    BY DEF ArgumentsInv, LineSound, MasterSteps
  <2>3. LineSound'
    <3>1. line'.at \in SendingSteps
      BY <2>1 DEF SendingSteps
    <3> QED BY <2>1, <2>2, <3>1 DEF LineSound, ArgumentsInv, KeyedKept
  <2>4. ListsNamedOnce'
    BY <2>1 DEF ListsNamedOnce, ArgumentsInv
  <2>5. Progress'
    <3>1. NamesIn(line.fields) = NamesOfOptions(line.k - 1, order)
      BY DEF ArgumentsInv, Progress
    <3>2. NamesOfOptions(line.k, order) = NamesOfOptions(line.k - 1, order) \cup {NameFor(Option)}
      BY OptionsStep DEF Option
    <3>3. line'.k - 1 = line.k /\ line'.k <= 7
      BY <2>1
    <3>4. NamesIn(line'.fields) = NamesOfOptions(line'.k - 1, order)
      BY <2>1, <3>1, <3>2, <3>3
    <3>5. Len(line.files) = Len(order.files)
      BY DEF ArgumentsInv, Progress, SendingSteps
    <3> QED BY <2>1, <3>3, <3>4, <3>5 DEF Progress
  <2>6. SecretsConcealed'
    <3>1. \A i \in 1 .. Len(line.fields) : FieldConcealed(line.fields[i], order)
      BY DEF ArgumentsInv, SecretsConcealed, SendingSteps
    <3>2. ASSUME NEW i \in 1 .. Len(line'.fields)
          PROVE  FieldConcealed(line'.fields[i], order)
      <4>1. i \in 1 .. Len(line.fields) \/ i = Len(line.fields) + 1
        BY <2>1, <3>2
      <4> QED BY <2>1, <3>1, <4>1
    <3> QED BY <3>2 DEF SecretsConcealed
  <2>7. UploadsSound'
    BY <2>1 DEF UploadsSound, ArgumentsInv
  <2>8. PasswordsEntered'
    <3> SUFFICES ASSUME line'.k > 4, "password" \in DOMAIN order.options
                 PROVE  \E i \in 1 .. Len(line'.fields) :
                            /\ line'.fields[i].name = "password"
                            /\ WasEnteredTwice(keyed', line'.fields[i].data)
      BY <2>1 DEF PasswordsEntered
    <3>1. CASE line.k = 4
      <4>1. Option = "password"
        BY <3>1, OptionsListed DEF Option
      <4>2. field.name = "password" /\ WasEnteredTwice(keyed', field.data)
        BY <4>1 DEF NameFor
      <4>3. Len(line.fields) + 1 \in 1 .. Len(line'.fields)
        BY <2>1
      <4> QED BY <2>1, <4>2, <4>3
    <3>2. CASE line.k > 4
      <4>1. line.at = "options"
        BY <3>2 DEF ArgumentsInv, Progress
      <4>2. PICK i \in 1 .. Len(line.fields) :
                line.fields[i].name = "password" /\ WasEnteredTwice(keyed, line.fields[i].data)
        BY <3>2, <4>1 DEF ArgumentsInv, PasswordsEntered
      <4>3. i \in 1 .. Len(line'.fields) /\ line'.fields[i] = line.fields[i]
        BY <2>1
      <4>4. WasEnteredTwice(keyed', line.fields[i].data)
        BY <4>2 DEF WasEnteredTwice, KeyedKept
      <4> QED BY <4>2, <4>3, <4>4
    <3>3. line.k = 4 \/ line.k > 4
      BY <2>1
    <3> QED BY <3>1, <3>2, <3>3
  <2>9. MasterEntered'
    BY <2>1 DEF MasterEntered, MasterSteps
  <2> QED BY <2>3, <2>4, <2>5, <2>6, <2>7, <2>8, <2>9 DEF ArgumentsInv
<1> QED BY <1>1, <1>2, PushedOrRefused

(***************************************************************************)
(* A --field that comes to a field.                                        *)
(***************************************************************************)
LEMMA FieldTaken ==
    ASSUME ArgumentsInv, order' = order, KeyedKept, AtField,
           NEW field, field.name = order.fields[line.k].name,
           field.concealed <=> ConcealedState(field.name), PushField(field, "fields")
    PROVE  ArgumentsInv'
<1>1. CASE Refuse
  BY <1>1, Refusal DEF AtField
<1>2. CASE field.name \notin NamesIn(line.fields) /\ Takes(field, "fields")
  <2>1. /\ line' = [at |-> line'.at, k |-> line'.k, fields |-> line'.fields,
                    files |-> line'.files, uploaded |-> line'.uploaded,
                    secret |-> line'.secret]
        /\ line'.at = "fields" /\ line'.k = line.k + 1 /\ line'.files = line.files
        /\ line'.uploaded = line.uploaded /\ line'.secret = line.secret
        /\ IsSequence(line'.fields) /\ NamedOnce(line'.fields)
        /\ NamesIn(line'.fields) = NamesIn(line.fields) \cup {field.name}
        /\ Len(line.fields) \in Nat /\ Len(line'.fields) = Len(line.fields) + 1
        /\ \A i \in 1 .. Len(line.fields) : line'.fields[i] = line.fields[i]
        /\ line'.fields[Len(line.fields) + 1] = field
    BY <1>2, Pushed
  <2>2. line.at = "fields" /\ line.k <= Len(order.fields)
    BY DEF AtField
  <2>3. order \in Orders /\ order.op \notin MasterOps /\ line.k \in Nat \ {0}
    BY <2>2 DEF ArgumentsInv, LineSound, MasterSteps
  <2>4. LineSound'
    <3>1. line'.at \in SendingSteps
      BY <2>1 DEF SendingSteps
    <3> QED BY <2>1, <2>3, <3>1 DEF LineSound, ArgumentsInv, KeyedKept
  <2>5. ListsNamedOnce'
    BY <2>1 DEF ListsNamedOnce, ArgumentsInv
  <2>6. NamesIn(line.fields) = NamesOfOptions(6, order) \cup NamesOfFields(line.k - 1, order)
    BY <2>2 DEF ArgumentsInv, Progress
  <2>7. Progress'
    <3>1. line'.k - 1 = line.k /\ line'.k <= Len(order.fields) + 1
      <4>1. Len(order.fields) \in Nat
        BY <2>3, OrderLists
      <4> QED BY <2>1, <2>2, <2>3, <4>1
    <3>2. NamesOfFields(line.k, order) = NamesOfFields(line.k - 1, order) \cup {field.name}
      BY <2>3, FieldsStep
    <3>3. NamesIn(line'.fields)
              = NamesOfOptions(6, order) \cup NamesOfFields(line'.k - 1, order)
      BY <2>1, <2>6, <3>1, <3>2
    <3>4. Len(line.files) = Len(order.files)
      BY <2>2 DEF ArgumentsInv, Progress, SendingSteps
    <3> QED BY <2>1, <3>1, <3>3, <3>4 DEF Progress
  <2>8. FieldConcealed(field, order)
    <3>1. field.name \notin {"password", "totp"} \cap DOMAIN order.options
      <4>1. SUFFICES ASSUME field.name \in {"password", "totp"}, field.name \in DOMAIN order.options
                     PROVE  field.name \in NamesOfOptions(6, order)
        BY <1>2, <2>6
      <4>2. PICK i \in 1 .. 6 : field.name = Options[i]
        BY <4>1, OptionsListed
      <4>3. field.name = NameFor(field.name)
        BY <4>1 DEF NameFor
      <4> QED BY <4>1, <4>2, <4>3 DEF NamesOfOptions
    <3>2. ASSUME order.concealed # <<>>, field.name \in order.concealed[1]
          PROVE  field.concealed
      BY <3>2 DEF ConcealedState
    <3> QED BY <3>1, <3>2 DEF FieldConcealed
  <2>9. SecretsConcealed'
    <3>1. \A i \in 1 .. Len(line.fields) : FieldConcealed(line.fields[i], order)
      BY <2>2 DEF ArgumentsInv, SecretsConcealed, SendingSteps
    <3>2. ASSUME NEW i \in 1 .. Len(line'.fields)
          PROVE  FieldConcealed(line'.fields[i], order)
      <4>1. i \in 1 .. Len(line.fields) \/ i = Len(line.fields) + 1
        BY <2>1, <3>2
      <4> QED BY <2>1, <2>8, <3>1, <4>1
    <3> QED BY <3>2 DEF SecretsConcealed
  <2>10. UploadsSound'
    BY <2>1, <2>2 DEF UploadsSound, ArgumentsInv
  <2>11. PasswordsEntered'
    <3> SUFFICES ASSUME "password" \in DOMAIN order.options
                 PROVE  \E i \in 1 .. Len(line'.fields) :
                            /\ line'.fields[i].name = "password"
                            /\ WasEnteredTwice(keyed', line'.fields[i].data)
      BY <2>1 DEF PasswordsEntered
    <3>1. PICK i \in 1 .. Len(line.fields) :
              line.fields[i].name = "password" /\ WasEnteredTwice(keyed, line.fields[i].data)
      BY <2>2 DEF ArgumentsInv, PasswordsEntered
    <3>2. i \in 1 .. Len(line'.fields) /\ line'.fields[i] = line.fields[i]
      BY <2>1
    <3>3. WasEnteredTwice(keyed', line.fields[i].data)
      BY <3>1 DEF WasEnteredTwice, KeyedKept
    <3> QED BY <3>1, <3>2, <3>3
  <2>12. MasterEntered'
    BY <2>1 DEF MasterEntered, MasterSteps
  <2> QED BY <2>4, <2>5, <2>7, <2>9, <2>10, <2>11, <2>12 DEF ArgumentsInv
<1> QED BY <1>1, <1>2, PushedOrRefused

(***************************************************************************)
(* One file of the command line more, or the last.                         *)
(***************************************************************************)
LEMMA ArgsParseFileInputs ==
    ASSUME ArgumentsInv, ParseFileInputs
    PROVE  ArgumentsInv'
<1>1. line.at = "files" /\ order' = order /\ Unasked
  BY DEF ParseFileInputs
<1>2. /\ LineSound /\ ListsNamedOnce /\ Progress /\ UploadsSound
      /\ KeyedKept /\ order \in Orders /\ order.op \notin MasterOps
  BY <1>1, KeyedStays DEF ArgumentsInv, LineSound, MasterSteps
<1>3. /\ line.fields = <<>> /\ line.k <= Len(order.files) + 1 /\ Len(line.files) = line.k - 1
      /\ line.k \in Nat \ {0} /\ Len(order.files) \in Nat /\ line.uploaded = 0
      /\ IsSequence(line.files)
  BY <1>1, <1>2, OrderLists DEF Progress, LineSound, UploadsSound
<1>4. CASE line.k > Len(order.files)
  <2>1. line' = [at |-> "options", k |-> 1, fields |-> line.fields, files |-> line.files,
                 uploaded |-> line.uploaded, secret |-> line.secret]
    BY <1>1, <1>2, <1>4 DEF ParseFileInputs, Proceed, LineSound
  <2>2. /\ line'.at = "options" /\ line'.k = 1 /\ line'.fields = <<>>
        /\ line'.files = line.files /\ line'.uploaded = 0 /\ line'.secret = line.secret
        /\ line' = [at |-> line'.at, k |-> line'.k, fields |-> line'.fields,
                    files |-> line'.files, uploaded |-> line'.uploaded, secret |-> line'.secret]
    BY <1>3, <2>1
  <2>3. LineSound'
    <3>1. line'.at \in SendingSteps
      BY <2>2 DEF SendingSteps
    <3> QED BY <1>1, <1>2, <2>2, <3>1, NothingListed DEF LineSound, KeyedKept
  <2>4. ListsNamedOnce'
    BY <1>2, <2>2, NothingListed DEF ListsNamedOnce
  <2>5. Progress'
    <3>1. NamesOfOptions(line'.k - 1, order) = {}
      BY <2>2, NoOptions
    <3>2. NamesIn(line'.fields) = {}
      BY <2>2, NothingListed
    <3>3. Len(line'.files) = Len(order.files)
      BY <1>3, <1>4, <2>2
    <3> QED BY <1>1, <2>2, <3>1, <3>2, <3>3 DEF Progress
  <2>6. SecretsConcealed'
    BY <2>2 DEF SecretsConcealed
  <2>7. UploadsSound'
    <3>1. Len(line.files) \in Nat
      BY <1>3
    <3> QED BY <2>2, <3>1 DEF UploadsSound
  <2>8. PasswordsEntered' /\ MasterEntered'
    BY <2>2 DEF PasswordsEntered, MasterEntered, MasterSteps
  <2> QED BY <2>3, <2>4, <2>5, <2>6, <2>7, <2>8 DEF ArgumentsInv
<1>5. CASE line.k <= Len(order.files) /\ ~GoodFile(order.files[line.k], line.files)
  <2>1. Refuse
    BY <1>3, <1>5 DEF ParseFileInputs
  <2> QED BY <1>1, <1>2, <2>1, Refusal
<1>6. CASE line.k <= Len(order.files) /\ GoodFile(order.files[line.k], line.files)
  <2> DEFINE raw == order.files[line.k]
             file == [name |-> NameOfFile(raw), readable |-> raw.readable]
             longer == Append(line.files, file)
             next == line.k + 1
  <2>1. file.name \notin NamesIn(line.files)
    <3>1. \A f \in Range(line.files) : f.name # NameOfFile(raw)
      BY <1>6 DEF GoodFile
    <3>2. {f.name : f \in Range(line.files)} = NamesIn(line.files)
      BY <1>3, SequenceRange
    <3>3. file.name = NameOfFile(raw)
      OBVIOUS
    <3> HIDE DEF file, raw
    <3> QED BY <3>1, <3>2, <3>3
  <2>2. line' = [at |-> "files", k |-> next, fields |-> line.fields, files |-> longer,
                 uploaded |-> line.uploaded, secret |-> line.secret]
    <3>1. line' = [line EXCEPT !.k = line.k + 1, !.files = Append(line.files, file)]
      BY <1>3, <1>6 DEF ParseFileInputs
    <3> HIDE DEF file
    <3> QED BY <1>1, <1>2, <3>1 DEF LineSound
  <2>3. IsSequence(longer) /\ Len(longer) = Len(line.files) + 1
    <3> HIDE DEF file
    <3> QED BY <1>3, Appended
  <2>4. NamedOnce(longer)
    <3>1. NamedOnce(line.files)
      BY <1>2 DEF ListsNamedOnce
    <3> HIDE DEF file
    <3> QED BY <1>3, <2>1, <3>1, AppendedName
  <2>n. next \in Nat \ {0} /\ next <= Len(order.files) + 1 /\ Len(longer) = next - 1
    <3>1. Len(longer) = Len(line.files) + 1
      BY <2>3
    <3>2. /\ line.k \in Nat \ {0} /\ line.k <= Len(order.files)
          /\ Len(order.files) \in Nat /\ Len(line.files) = line.k - 1
      BY <1>3, <1>6
    <3> HIDE DEF longer
    <3> QED BY <3>1, <3>2
  <2> HIDE DEF longer, next
  <2>5. /\ line'.at = "files" /\ line'.k = next /\ line'.fields = <<>>
        /\ line'.files = longer /\ line'.uploaded = 0 /\ line'.secret = line.secret
        /\ line' = [at |-> line'.at, k |-> line'.k, fields |-> line'.fields,
                    files |-> line'.files, uploaded |-> line'.uploaded, secret |-> line'.secret]
    BY <1>3, <2>2
  <2>6. LineSound'
    <3>1. line'.at \in SendingSteps
      BY <2>5 DEF SendingSteps
    <3> QED BY <1>1, <1>2, <2>3, <2>5, <2>n, <3>1, NothingListed DEF LineSound, KeyedKept
  <2>7. ListsNamedOnce'
    BY <2>4, <2>5, NothingListed DEF ListsNamedOnce
  <2>8. Progress'
    BY <1>1, <2>5, <2>n DEF Progress
  <2>9. SecretsConcealed'
    BY <2>5 DEF SecretsConcealed
  <2>10. UploadsSound'
    <3>1. Len(longer) \in Nat
      BY <2>n
    <3> QED BY <2>5, <3>1 DEF UploadsSound
  <2>11. PasswordsEntered' /\ MasterEntered'
    BY <2>5 DEF PasswordsEntered, MasterEntered, MasterSteps
  <2> QED BY <2>6, <2>7, <2>8, <2>9, <2>10, <2>11 DEF ArgumentsInv
<1> QED BY <1>3, <1>4, <1>5, <1>6

(***************************************************************************)
(* A command that is at an option.                                         *)
(***************************************************************************)
LEMMA AtAnOption ==
    ASSUME ArgumentsInv, AtOption
    PROVE  /\ line.at = "options" /\ line.k \in 1 .. 6
           /\ order \in Orders /\ order.op \notin MasterOps
           /\ Len(line.files) = Len(order.files)
           /\ NamesIn(line.fields) = NamesOfOptions(line.k - 1, order)
<1>1. line.at = "options" /\ line.k <= 6
  BY OptionsListed DEF AtOption
<1> QED BY <1>1 DEF ArgumentsInv, LineSound, MasterSteps, Progress, SendingSteps

(***************************************************************************)
(* An option that the command line does not have.                          *)
(***************************************************************************)
LEMMA ArgsSkipOption ==
    ASSUME ArgumentsInv, SkipOption
    PROVE  ArgumentsInv'
<1>1. /\ line.at = "options" /\ line.k \in 1 .. 6
      /\ order \in Orders /\ order.op \notin MasterOps
      /\ Len(line.files) = Len(order.files)
      /\ NamesIn(line.fields) = NamesOfOptions(line.k - 1, order)
  BY AtAnOption DEF SkipOption
<1>2. order' = order /\ Unasked /\ Option \notin DOMAIN order.options
  BY DEF SkipOption
<1>3. LineSound /\ ListsNamedOnce /\ KeyedKept
  BY <1>2, KeyedStays DEF ArgumentsInv, LineSound
<1> DEFINE next == line.k + 1
<1>4. line' = [at |-> line.at, k |-> next, fields |-> line.fields, files |-> line.files,
               uploaded |-> line.uploaded, secret |-> line.secret]
  BY <1>3 DEF SkipOption, LineSound
<1>5. next \in Nat \ {0} /\ next <= 7 /\ next - 1 = line.k /\ (next > 4 => line.k > 4 \/ line.k = 4)
  BY <1>1
<1> HIDE DEF next
<1>6. /\ line'.at = "options" /\ line'.k = next /\ line'.fields = line.fields
      /\ line'.files = line.files /\ line'.uploaded = line.uploaded /\ line'.secret = line.secret
      /\ line' = [at |-> line'.at, k |-> line'.k, fields |-> line'.fields,
                  files |-> line'.files, uploaded |-> line'.uploaded, secret |-> line'.secret]
  BY <1>1, <1>4
<1>7. LineSound'
  <2>1. line'.at \in SendingSteps
    BY <1>6 DEF SendingSteps
  <2> QED BY <1>1, <1>2, <1>3, <1>5, <1>6, <2>1 DEF LineSound, KeyedKept
<1>8. ListsNamedOnce'
  BY <1>3, <1>6 DEF ListsNamedOnce
<1>9. Progress'
  <2>1. NamesOfOptions(line.k, order) = NamesOfOptions(line.k - 1, order)
    <3>1. Options[line.k] \notin DOMAIN order.options
      BY <1>2 DEF Option
    <3>2. line.k \in 1 .. 6
      BY <1>1
    <3>3. NamesOfOptions(line.k, order) =
              NamesOfOptions(line.k - 1, order)
              \cup (IF Options[line.k] \in DOMAIN order.options
                    THEN {NameFor(Options[line.k])} ELSE {})
      BY <3>2, OptionsStep
    <3> QED BY <3>1, <3>3, ZenonT(60)
  <2> QED BY <1>1, <1>2, <1>5, <1>6, <2>1 DEF Progress
<1>10. SecretsConcealed'
  BY <1>1, <1>2, <1>6 DEF ArgumentsInv, SecretsConcealed, SendingSteps
<1>11. UploadsSound'
  BY <1>1, <1>6 DEF ArgumentsInv, UploadsSound
<1>12. PasswordsEntered'
  <2> SUFFICES ASSUME next > 4, "password" \in DOMAIN order.options
               PROVE  \E i \in 1 .. Len(line.fields) :
                          /\ line.fields[i].name = "password"
                          /\ WasEnteredTwice(keyed', line.fields[i].data)
    BY <1>2, <1>6 DEF PasswordsEntered
  <2>1. line.k # 4
    BY <1>2, OptionsListed DEF Option
  <2>2. keyed' = keyed
    BY <1>2 DEF Unasked
  <2> QED BY <1>1, <1>5, <2>1, <2>2 DEF ArgumentsInv, PasswordsEntered
<1>13. MasterEntered'
  BY <1>6 DEF MasterEntered, MasterSteps
<1> QED BY <1>7, <1>8, <1>9, <1>10, <1>11, <1>12, <1>13 DEF ArgumentsInv

(***************************************************************************)
(* A field that is concealed breaks no wish for concealment.               *)
(***************************************************************************)
LEMMA SecretField ==
    ASSUME NEW name, NEW type, NEW data
    PROVE  FieldConcealed(Field(name, type, TRUE, data), order)
<1>1. Field(name, type, TRUE, data).concealed
  BY Zenon DEF Field
<1> QED BY <1>1, Zenon DEF FieldConcealed

(***************************************************************************)
(* username, email and website: a name that nobody needs to hide.          *)
(***************************************************************************)
LEMMA ArgsPlainOption ==
    ASSUME ArgumentsInv, PlainOption
    PROVE  ArgumentsInv'
<1> DEFINE field == Field(Option, "string", FALSE, order.options[Option])
<1>1. /\ Option \in {"username", "email", "website"} /\ Option \in DOMAIN order.options
      /\ PushField(field, "options")
      /\ Unasked /\ order' = order /\ AtOption
  BY DEF PlainOption
<1>2. line.at = "options" /\ line.k \in 1 .. 6
  BY <1>1, AtAnOption
<1>3. KeyedKept
  BY <1>1, KeyedStays DEF ArgumentsInv, LineSound
<1>4. field.name = Option
  BY Zenon DEF Field
<1> HIDE DEF field
<1>5. field.name = NameFor(Option)
  BY <1>1, <1>4 DEF NameFor
<1>6. FieldConcealed(field, order)
  BY <1>1, <1>4 DEF FieldConcealed
<1>7. Option # "password"
  BY <1>1
<1> QED BY <1>1, <1>2, <1>3, <1>5, <1>6, <1>7, OptionTaken

(***************************************************************************)
(* The password, asked for a first time.                                   *)
(***************************************************************************)
LEMMA ArgsAskPassword ==
    ASSUME ArgumentsInv, AskPassword
    PROVE  ArgumentsInv'
<1>1. PICK entry \in Entries :
          line' = [line EXCEPT !.at = "again", !.secret = entry] /\ Entered("password", entry)
  BY DEF AskPassword
<1>2. /\ AtOption /\ Option = "password" /\ "password" \in DOMAIN order.options /\ order' = order
  BY DEF AskPassword
<1>3. /\ line.at = "options" /\ line.k \in 1 .. 6
      /\ order \in Orders /\ order.op \notin MasterOps
      /\ Len(line.files) = Len(order.files)
      /\ NamesIn(line.fields) = NamesOfOptions(line.k - 1, order)
  BY <1>2, AtAnOption
<1>4. line.k = 4
  BY <1>2, <1>3, OptionsListed DEF Option
<1>5. LineSound /\ ListsNamedOnce /\ KeyedKept /\ WasEntered(keyed', "password", entry)
  BY <1>1, KeyedGrows DEF ArgumentsInv, LineSound
<1>6. line' = [at |-> "again", k |-> line.k, fields |-> line.fields, files |-> line.files,
               uploaded |-> line.uploaded, secret |-> entry]
  BY <1>1, <1>5 DEF LineSound
<1>7. /\ line'.at = "again" /\ line'.k = line.k /\ line'.fields = line.fields
      /\ line'.files = line.files /\ line'.uploaded = line.uploaded /\ line'.secret = entry
      /\ line' = [at |-> line'.at, k |-> line'.k, fields |-> line'.fields,
                  files |-> line'.files, uploaded |-> line'.uploaded, secret |-> line'.secret]
  BY <1>6
<1>8. LineSound'
  <2>1. line'.at \in SendingSteps
    BY <1>7 DEF SendingSteps
  <2> QED BY <1>2, <1>3, <1>5, <1>7, <2>1 DEF LineSound, KeyedKept
<1>9. ListsNamedOnce'
  BY <1>5, <1>7 DEF ListsNamedOnce
<1>10. Progress'
  BY <1>2, <1>3, <1>4, <1>7 DEF Progress
<1>11. SecretsConcealed'
  BY <1>2, <1>3, <1>7 DEF ArgumentsInv, SecretsConcealed, SendingSteps
<1>12. UploadsSound'
  BY <1>3, <1>7 DEF ArgumentsInv, UploadsSound
<1>13. PasswordsEntered'
  BY <1>5, <1>7 DEF PasswordsEntered
<1>14. MasterEntered'
  BY <1>7 DEF MasterEntered, MasterSteps
<1> QED BY <1>8, <1>9, <1>10, <1>11, <1>12, <1>13, <1>14 DEF ArgumentsInv

(***************************************************************************)
(* The password, asked for again: the same, or the command is refused.     *)
(***************************************************************************)
LEMMA ArgsConfirmPassword ==
    ASSUME ArgumentsInv, ConfirmPassword
    PROVE  ArgumentsInv'
<1>1. PICK entry \in Entries :
          /\ IF entry # line.secret THEN Refuse
             ELSE PushField(Field("password", "string", TRUE, entry), "options")
          /\ Entered("again", entry)
  BY DEF ConfirmPassword
<1>2. /\ line.at = "again" /\ order' = order /\ line.k = 4
      /\ "password" \in DOMAIN order.options /\ WasEntered(keyed, "password", line.secret)
  BY DEF ConfirmPassword, ArgumentsInv, Progress, PasswordsEntered
<1>3. KeyedKept /\ WasEntered(keyed', "again", entry)
  BY <1>1, KeyedGrows DEF ArgumentsInv, LineSound
<1>4. CASE entry # line.secret
  <2>1. Refuse
    BY <1>1, <1>4
  <2> QED BY <1>2, <1>3, <2>1, Refusal
<1>5. CASE entry = line.secret
  <2> DEFINE field == Field("password", "string", TRUE, entry)
  <2>1. PushField(field, "options")
    BY <1>1, <1>5
  <2>2. Option = "password"
    BY <1>2, OptionsListed DEF Option
  <2>3. field.name = "password" /\ field.data = entry
    BY Zenon DEF Field
  <2>4. FieldConcealed(field, order)
    BY SecretField
  <2> HIDE DEF field
  <2>5. field.name = NameFor(Option)
    BY <2>2, <2>3 DEF NameFor
  <2>6. WasEnteredTwice(keyed', field.data)
    BY <1>2, <1>3, <1>5, <2>3 DEF WasEnteredTwice, KeyedKept
  <2>7. line.k \in 1 .. 6 /\ line.at \in {"options", "again"} /\ Option \in DOMAIN order.options
    BY <1>2, <2>2
  <2> QED BY <1>2, <1>3, <2>1, <2>4, <2>5, <2>6, <2>7, OptionTaken
<1> QED BY <1>4, <1>5

(***************************************************************************)
(* A password that is generated: refused next to one that was typed.       *)
(***************************************************************************)
LEMMA ArgsGeneratePassword ==
    ASSUME ArgumentsInv, GeneratePassword
    PROVE  ArgumentsInv'
<1>1. /\ AtOption /\ Option = "generate" /\ Option \in DOMAIN order.options
      /\ Unasked /\ order' = order
  BY DEF GeneratePassword
<1>2. line.at = "options" /\ line.k \in 1 .. 6
  BY <1>1, AtAnOption
<1>3. KeyedKept
  BY <1>1, KeyedStays DEF ArgumentsInv, LineSound
<1>4. CASE Refuse
  BY <1>1, <1>2, <1>3, <1>4, Refusal
<1>5. ASSUME NEW password, PushField(Field("password", "string", TRUE, password), "options")
      PROVE  ArgumentsInv'
  <2> DEFINE field == Field("password", "string", TRUE, password)
  <2>1. field.name = "password"
    BY Zenon DEF Field
  <2>2. FieldConcealed(field, order)
    BY SecretField
  <2>3. PushField(field, "options")
    BY <1>5
  <2> HIDE DEF field
  <2>4. field.name = NameFor(Option)
    BY <1>1, <2>1 DEF NameFor
  <2>5. Option # "password"
    BY <1>1
  <2> QED BY <1>1, <1>2, <1>3, <2>2, <2>3, <2>4, <2>5, OptionTaken
<1> QED BY <1>4, <1>5 DEF GeneratePassword

(***************************************************************************)
(* The one-time password, from its URL or picture.                         *)
(***************************************************************************)
LEMMA ArgsTakeTotp ==
    ASSUME ArgumentsInv, TakeTotp
    PROVE  ArgumentsInv'
<1>1. /\ AtOption /\ Option = "totp" /\ Option \in DOMAIN order.options
      /\ Unasked /\ order' = order
  BY DEF TakeTotp
<1>2. line.at = "options" /\ line.k \in 1 .. 6
  BY <1>1, AtAnOption
<1>3. KeyedKept
  BY <1>1, KeyedStays DEF ArgumentsInv, LineSound
<1>4. CASE Refuse
  BY <1>1, <1>2, <1>3, <1>4, Refusal
<1>5. ASSUME NEW url, PushField(Field("totp", "totp", TRUE, url), "options")
      PROVE  ArgumentsInv'
  <2> DEFINE field == Field("totp", "totp", TRUE, url)
  <2>1. field.name = "totp"
    BY Zenon DEF Field
  <2>2. FieldConcealed(field, order)
    BY SecretField
  <2>3. PushField(field, "options")
    BY <1>5
  <2> HIDE DEF field
  <2>4. field.name = NameFor(Option)
    BY <1>1, <2>1 DEF NameFor
  <2>5. Option # "password"
    BY <1>1
  <2> QED BY <1>1, <1>2, <1>3, <2>2, <2>3, <2>4, <2>5, OptionTaken
<1> QED BY <1>4, <1>5, Zenon DEF TakeTotp

(***************************************************************************)
(* On to the fields of the command line.                                   *)
(***************************************************************************)
LEMMA ArgsOptionsEnd ==
    ASSUME ArgumentsInv, OptionsEnd
    PROVE  ArgumentsInv'
<1>1. line.at = "options" /\ order' = order /\ Unasked /\ line.k > 6
  BY OptionsListed DEF OptionsEnd
<1>2. /\ LineSound /\ ListsNamedOnce /\ KeyedKept /\ order \in Orders
      /\ order.op \notin MasterOps /\ line.k = 7 /\ Len(line.files) = Len(order.files)
      /\ NamesIn(line.fields) = NamesOfOptions(6, order)
  <2>1. /\ LineSound /\ ListsNamedOnce /\ line.k <= 7 /\ line.k \in Nat
        /\ NamesIn(line.fields) = NamesOfOptions(line.k - 1, order)
    BY <1>1 DEF ArgumentsInv, LineSound, Progress
  <2>2. line.k = 7 /\ line.k - 1 = 6
    BY <1>1, <2>1
  <2>3. order \in Orders /\ order.op \notin MasterOps /\ Len(line.files) = Len(order.files)
    BY <1>1 DEF ArgumentsInv, LineSound, Progress, SendingSteps, MasterSteps
  <2> QED BY <1>1, <2>1, <2>2, <2>3, KeyedStays DEF LineSound
<1>3. line' = [at |-> "fields", k |-> 1, fields |-> line.fields, files |-> line.files,
               uploaded |-> line.uploaded, secret |-> line.secret]
  BY <1>2 DEF OptionsEnd, Proceed, LineSound
<1>4. /\ line'.at = "fields" /\ line'.k = 1 /\ line'.fields = line.fields
      /\ line'.files = line.files /\ line'.uploaded = line.uploaded /\ line'.secret = line.secret
      /\ line' = [at |-> line'.at, k |-> line'.k, fields |-> line'.fields,
                  files |-> line'.files, uploaded |-> line'.uploaded, secret |-> line'.secret]
  BY <1>3
<1>5. LineSound'
  <2>1. line'.at \in SendingSteps
    BY <1>4 DEF SendingSteps
  <2> QED BY <1>1, <1>2, <1>4, <2>1 DEF LineSound, KeyedKept
<1>6. ListsNamedOnce'
  BY <1>2, <1>4 DEF ListsNamedOnce
<1>7. Progress'
  <2>1. NamesOfFields(0, order) = {}
    BY DEF NamesOfFields
  <2>2. Len(order.fields) \in Nat
    BY <1>2, OrderLists
  <2>3. line'.k - 1 = 0 /\ line'.k <= Len(order.fields) + 1
    BY <1>4, <2>2
  <2> QED BY <1>1, <1>2, <1>4, <2>1, <2>3 DEF Progress
<1>8. SecretsConcealed'
  BY <1>1, <1>4 DEF ArgumentsInv, SecretsConcealed, SendingSteps
<1>9. UploadsSound'
  BY <1>1, <1>4 DEF ArgumentsInv, UploadsSound
<1>10. PasswordsEntered'
  <2>1. "password" \in DOMAIN order.options =>
            \E i \in 1 .. Len(line.fields) :
                line.fields[i].name = "password" /\ WasEnteredTwice(keyed, line.fields[i].data)
    BY <1>1, <1>2 DEF ArgumentsInv, PasswordsEntered
  <2> QED BY <1>1, <1>4, <2>1 DEF PasswordsEntered, Unasked
<1>11. MasterEntered'
  BY <1>4 DEF MasterEntered, MasterSteps
<1> QED BY <1>5, <1>6, <1>7, <1>8, <1>9, <1>10, <1>11 DEF ArgumentsInv

(***************************************************************************)
(* A field with its value on the command line.                             *)
(***************************************************************************)
LEMMA ArgsGivenField ==
    ASSUME ArgumentsInv, GivenField
    PROVE  ArgumentsInv'
<1> DEFINE raw == order.fields[line.k]
           field == Field(raw.name, "string", ConcealedState(raw.name), raw.value)
<1>1. /\ AtField /\ PushField(field, "fields") /\ Unasked /\ order' = order
  BY DEF GivenField
<1>2. KeyedKept
  BY <1>1, KeyedStays DEF ArgumentsInv, LineSound
<1>3. field.name = raw.name /\ field.concealed = ConcealedState(raw.name)
  BY Zenon DEF Field
<1> HIDE DEF field, raw
<1>4. field.concealed <=> ConcealedState(field.name)
  BY <1>3, Zenon
<1>5. field.name = order.fields[line.k].name
  BY <1>3 DEF raw
<1> QED BY <1>1, <1>2, <1>4, <1>5, FieldTaken

(***************************************************************************)
(* A field whose value is asked for.                                       *)
(***************************************************************************)
LEMMA ArgsAskField ==
    ASSUME ArgumentsInv, AskField
    PROVE  ArgumentsInv'
<1> DEFINE raw == order.fields[line.k]
           field(entry) == Field(raw.name, "string", ConcealedState(raw.name), entry)
<1>1. PICK entry \in Entries : PushField(field(entry), "fields") /\ Entered("value", entry)
  BY DEF AskField
<1>2. AtField /\ order' = order
  BY DEF AskField
<1>3. KeyedKept
  BY <1>1, KeyedGrows DEF ArgumentsInv, LineSound
<1> DEFINE f == field(entry)
<1>4. f.name = raw.name /\ f.concealed = ConcealedState(raw.name) /\ PushField(f, "fields")
  BY <1>1, Zenon DEF Field
<1> HIDE DEF f, raw
<1>5. f.concealed <=> ConcealedState(f.name)
  BY <1>4, Zenon
<1>6. f.name = order.fields[line.k].name
  BY <1>4 DEF raw
<1> QED BY <1>2, <1>3, <1>4, <1>5, <1>6, FieldTaken

(***************************************************************************)
(* The command line is taken: no field has the name of a file.             *)
(***************************************************************************)
LEMMA ArgsFieldsEnd ==
    ASSUME ArgumentsInv, FieldsEnd
    PROVE  ArgumentsInv'
<1>1. line.at = "fields" /\ order' = order /\ Unasked /\ line.k > Len(order.fields)
  BY DEF FieldsEnd
<1>2. /\ LineSound /\ ListsNamedOnce /\ KeyedKept /\ order \in Orders
      /\ order.op \notin MasterOps /\ Len(line.files) = Len(order.files)
      /\ line.uploaded = 0
  BY <1>1, KeyedStays
  DEF ArgumentsInv, LineSound, Progress, SendingSteps, MasterSteps, UploadsSound
<1>3. CASE Overlap
  <2>1. Refuse
    BY <1>3 DEF FieldsEnd
  <2> QED BY <1>1, <1>2, <2>1, Refusal
<1>4. CASE ~Overlap
  <2>1. line' = [at |-> "upload", k |-> 1, fields |-> line.fields, files |-> line.files,
                 uploaded |-> line.uploaded, secret |-> line.secret]
    BY <1>2, <1>4 DEF FieldsEnd, Proceed, LineSound
  <2>2. /\ line'.at = "upload" /\ line'.k = 1 /\ line'.fields = line.fields
        /\ line'.files = line.files /\ line'.uploaded = line.uploaded
        /\ line'.secret = line.secret
        /\ line' = [at |-> line'.at, k |-> line'.k, fields |-> line'.fields,
                    files |-> line'.files, uploaded |-> line'.uploaded, secret |-> line'.secret]
    BY <2>1
  <2>3. LineSound'
    <3>1. line'.at \in SendingSteps
      BY <2>2 DEF SendingSteps
    <3> QED BY <1>1, <1>2, <2>2, <3>1 DEF LineSound, KeyedKept
  <2>4. ListsNamedOnce'
    BY <1>2, <2>2 DEF ListsNamedOnce
  <2>5. NamesIn(line.fields) = AskedNames
    <3>1. /\ line.k <= Len(order.fields) + 1 /\ line.k \in Nat
          /\ NamesIn(line.fields) =
                 NamesOfOptions(6, order) \cup NamesOfFields(line.k - 1, order)
      BY <1>1, <1>2 DEF ArgumentsInv, Progress, LineSound
    <3>2. line.k - 1 = Len(order.fields)
      <4>1. Len(order.fields) \in Nat
        BY <1>2, OrderLists
      <4> QED BY <1>1, <3>1, <4>1
    <3> QED BY <1>2, <3>1, <3>2, AllAsked
  <2>6. NamesIn(line.fields) \cap NamesIn(line.files) = {}
    <3>1. /\ Range(line.fields) = {line.fields[i] : i \in 1 .. Len(line.fields)}
          /\ Range(line.files) = {line.files[i] : i \in 1 .. Len(line.files)}
      BY <1>2, SequenceRange DEF LineSound
    <3> QED BY <1>4, <3>1 DEF Overlap, NamesIn
  <2>7. Progress'
    <3>1. AskedNames' = AskedNames
      BY <1>1 DEF AskedNames
    <3> QED BY <1>1, <1>2, <2>2, <2>5, <2>6, <3>1 DEF Progress
  <2>8. SecretsConcealed'
    BY <1>1, <2>2 DEF ArgumentsInv, SecretsConcealed, SendingSteps
  <2>9. UploadsSound'
    BY <1>2, <2>2 DEF ArgumentsInv, UploadsSound
  <2>10. PasswordsEntered'
    <3>1. "password" \in DOMAIN order.options =>
              \E i \in 1 .. Len(line.fields) :
                  line.fields[i].name = "password" /\ WasEnteredTwice(keyed, line.fields[i].data)
      BY <1>1 DEF ArgumentsInv, PasswordsEntered
    <3> QED BY <1>1, <2>2, <3>1 DEF PasswordsEntered, Unasked
  <2>11. MasterEntered'
    BY <2>2 DEF MasterEntered, MasterSteps
  <2> QED BY <2>3, <2>4, <2>7, <2>8, <2>9, <2>10, <2>11 DEF ArgumentsInv
<1> QED BY <1>3, <1>4

(***************************************************************************)
(* One upload, or the end of them: fields and files stay what they are.    *)
(***************************************************************************)
LEMMA Uploading ==
    ASSUME ArgumentsInv, line.at = "upload", order' = order, Unasked,
           NEW at \in {"upload", "sent", "broken"}, NEW k \in Nat \ {0}, NEW uploaded \in Nat,
           uploaded <= Len(line.files), \A i \in 1 .. uploaded : line.files[i].readable,
           line' = [at |-> at, k |-> k, fields |-> line.fields, files |-> line.files,
                    uploaded |-> uploaded, secret |-> line.secret]
    PROVE  ArgumentsInv'
<1>1. /\ line'.at = at /\ line'.k = k /\ line'.fields = line.fields
      /\ line'.files = line.files /\ line'.uploaded = uploaded /\ line'.secret = line.secret
      /\ line' = [at |-> line'.at, k |-> line'.k, fields |-> line'.fields,
                  files |-> line'.files, uploaded |-> line'.uploaded, secret |-> line'.secret]
  OBVIOUS
<1>2. LineSound'
  <2>1. line'.at \in SendingSteps /\ order.op \notin MasterOps
    BY <1>1 DEF SendingSteps, ArgumentsInv, LineSound, MasterSteps
  <2> QED BY <1>1, <2>1 DEF LineSound, ArgumentsInv, Unasked
<1>3. ListsNamedOnce'
  BY <1>1 DEF ListsNamedOnce, ArgumentsInv
<1>4. Progress'
  <2>1. AskedNames' = AskedNames
    BY DEF AskedNames
  <2>2. /\ Len(line.files) = Len(order.files) /\ NamesIn(line.fields) = AskedNames
        /\ NamesIn(line.fields) \cap NamesIn(line.files) = {}
    BY DEF ArgumentsInv, Progress, SendingSteps
  <2> QED BY <1>1, <2>1, <2>2 DEF Progress
<1>5. SecretsConcealed'
  BY <1>1 DEF ArgumentsInv, SecretsConcealed, SendingSteps
<1>6. UploadsSound'
  BY SMTT(60), <1>1 DEF UploadsSound
<1>7. PasswordsEntered'
  <2>1. "password" \in DOMAIN order.options =>
            \E i \in 1 .. Len(line.fields) :
                line.fields[i].name = "password" /\ WasEnteredTwice(keyed, line.fields[i].data)
    BY DEF ArgumentsInv, PasswordsEntered
  <2> QED BY <1>1, <2>1 DEF PasswordsEntered, Unasked
<1>8. MasterEntered'
  BY <1>1 DEF MasterEntered, MasterSteps
<1> QED BY <1>2, <1>3, <1>4, <1>5, <1>6, <1>7, <1>8 DEF ArgumentsInv

(***************************************************************************)
(* One file with the agent, all of them, or one that cannot be read.       *)
(***************************************************************************)
LEMMA ArgsUploadFiles ==
    ASSUME ArgumentsInv, UploadFiles
    PROVE  ArgumentsInv'
<1>1. line.at = "upload" /\ order' = order /\ Unasked
  BY DEF UploadFiles
<1>2. /\ line = [at |-> line.at, k |-> line.k, fields |-> line.fields, files |-> line.files,
                 uploaded |-> line.uploaded, secret |-> line.secret]
      /\ line.k \in Nat \ {0} /\ line.uploaded \in Nat /\ line.uploaded <= Len(line.files)
      /\ \A i \in 1 .. line.uploaded : line.files[i].readable
      /\ Len(line.files) \in Nat
  BY SequenceShape DEF ArgumentsInv, LineSound, UploadsSound
<1>3. CASE line.uploaded = Len(line.files)
  <2>1. line' = [at |-> "sent", k |-> 1, fields |-> line.fields, files |-> line.files,
                 uploaded |-> line.uploaded, secret |-> line.secret]
    BY <1>2, <1>3 DEF UploadFiles, Proceed
  <2> QED BY <1>1, <1>2, <2>1, Uploading
<1>4. CASE line.uploaded # Len(line.files) /\ line.files[line.uploaded + 1].readable
  <2> DEFINE more == line.uploaded + 1
  <2>1. line' = [at |-> "upload", k |-> line.k, fields |-> line.fields, files |-> line.files,
                 uploaded |-> more, secret |-> line.secret]
    BY <1>1, <1>2, <1>4 DEF UploadFiles
  <2>2. more \in Nat /\ more <= Len(line.files)
    BY <1>2, <1>4
  <2>3. \A i \in 1 .. more : line.files[i].readable
    <3>1. \A i \in 1 .. more : i \in 1 .. line.uploaded \/ i = more
      BY <1>2
    <3> QED BY <1>2, <1>4, <3>1
  <2> HIDE DEF more
  <2> QED BY <1>1, <1>2, <2>1, <2>2, <2>3, Uploading
<1>5. CASE line.uploaded # Len(line.files) /\ ~line.files[line.uploaded + 1].readable
  <2>1. line' = [at |-> "broken", k |-> line.k, fields |-> line.fields, files |-> line.files,
                 uploaded |-> line.uploaded, secret |-> line.secret]
    BY <1>2, <1>5 DEF UploadFiles
  <2> QED BY <1>1, <1>2, <2>1, Uploading
<1> QED BY <1>3, <1>4, <1>5

(***************************************************************************)
(* A step among those that set the master password: the lists stay.        *)
(***************************************************************************)
LEMMA MasterStep ==
    ASSUME ArgumentsInv, line.at \in MasterSteps, order' = order, KeyedKept,
           NEW at \in MasterSteps, NEW k \in Nat \ {0}, NEW secret,
           line' = [at |-> at, k |-> k, fields |-> line.fields, files |-> line.files,
                    uploaded |-> line.uploaded, secret |-> secret],
           MasterEntered'
    PROVE  ArgumentsInv'
<1>1. /\ line'.at = at /\ line'.k = k /\ line'.fields = line.fields
      /\ line'.files = line.files /\ line'.uploaded = line.uploaded /\ line'.secret = secret
      /\ line' = [at |-> line'.at, k |-> line'.k, fields |-> line'.fields,
                  files |-> line'.files, uploaded |-> line'.uploaded, secret |-> line'.secret]
  OBVIOUS
<1>2. LineSound'
  <2>1. order.op \in MasterOps
    BY DEF ArgumentsInv, LineSound, SendingSteps, MasterSteps
  <2> QED BY <1>1, <2>1 DEF LineSound, ArgumentsInv, KeyedKept
<1>3. ListsNamedOnce'
  BY <1>1 DEF ListsNamedOnce, ArgumentsInv
<1>4. Progress' /\ SecretsConcealed' /\ PasswordsEntered'
  BY <1>1 DEF Progress, SecretsConcealed, PasswordsEntered, MasterSteps, SendingSteps
<1>5. UploadsSound'
  BY <1>1 DEF ArgumentsInv, UploadsSound, MasterSteps
<1> QED BY <1>2, <1>3, <1>4, <1>5 DEF ArgumentsInv

(***************************************************************************)
(* The new master password: refused, weak, or to be confirmed.             *)
(***************************************************************************)
LEMMA ArgsEnterMaster ==
    ASSUME ArgumentsInv, EnterMaster
    PROVE  ArgumentsInv'
<1>1. PICK entry \in Entries :
          /\ Entered("password", entry)
          /\ IF entry = order.current \/ entry.chars < MinLength THEN Refuse
             ELSE line' = [line EXCEPT !.secret = entry,
                              !.at = IF entry.score < 3 THEN "weak" ELSE "confirm"]
  BY DEF EnterMaster
<1>2. line.at = "master" /\ order' = order
  BY DEF EnterMaster
<1>3. LineSound /\ KeyedKept /\ WasEntered(keyed', "password", entry)
  BY <1>1, KeyedGrows DEF ArgumentsInv, LineSound
<1>4. CASE entry = order.current \/ entry.chars < MinLength
  <2>1. Refuse
    BY <1>1, <1>4
  <2> QED BY <1>2, <1>3, <2>1, Refusal
<1>5. CASE ~(entry = order.current \/ entry.chars < MinLength)
  <2> DEFINE at == IF entry.score < 3 THEN "weak" ELSE "confirm"
  <2>1. line' = [line EXCEPT !.secret = entry, !.at = at]
    BY <1>1, <1>5
  <2>2. at \in {"weak", "confirm"} /\ (at = "confirm" => ~(entry.score < 3))
    OBVIOUS
  <2> HIDE DEF at
  <2>3. line' = [at |-> at, k |-> line.k, fields |-> line.fields, files |-> line.files,
                 uploaded |-> line.uploaded, secret |-> entry]
    BY <1>3, <2>1 DEF LineSound
  <2>4. line'.at = at /\ line'.secret = entry
    BY <2>3
  <2>5. entry.chars >= MinLength
    BY <1>5, EntriesAssumption
  <2>6. MasterEntered'
    <3>1. ~(at \in {"confirm", "set"} /\ entry.score < 3) /\ at # "set"
      BY <2>2
    <3> QED BY <1>2, <1>3, <1>5, <2>4, <2>5, <3>1 DEF MasterEntered
  <2>7. at \in MasterSteps /\ line.at \in MasterSteps /\ line.k \in Nat \ {0}
    BY <1>2, <1>3, <2>2 DEF MasterSteps, LineSound
  <2> QED BY <1>2, <1>3, <2>3, <2>6, <2>7, MasterStep
<1> QED BY <1>4, <1>5

(***************************************************************************)
(* The answer about a weak one.                                            *)
(***************************************************************************)
LEMMA ArgsConfirmWeak ==
    ASSUME ArgumentsInv, ConfirmWeak
    PROVE  ArgumentsInv'
<1>1. PICK answer \in {"y", "n", "what", "eof"} :
          /\ Entered("weak", answer)
          /\ CASE answer = "y" -> Proceed("confirm")
               [] answer \in {"n", "eof"} -> Refuse
               [] answer = "what" -> UNCHANGED line
  BY DEF ConfirmWeak
<1>2. line.at = "weak" /\ order' = order
  BY DEF ConfirmWeak
<1>3. LineSound /\ KeyedKept /\ WasEntered(keyed', "weak", answer)
  BY <1>1, KeyedGrows DEF ArgumentsInv, LineSound
<1>4. /\ line.secret.chars >= MinLength /\ line.secret # order.current
      /\ WasEntered(keyed', "password", line.secret)
  BY <1>2, <1>3 DEF ArgumentsInv, MasterEntered, MasterSteps, KeyedKept
<1>5. line.at \in MasterSteps /\ line.k \in Nat \ {0}
  BY <1>2, <1>3 DEF MasterSteps, LineSound
<1>6. CASE answer = "y"
  <2>1. line' = [at |-> "confirm", k |-> 1, fields |-> line.fields, files |-> line.files,
                 uploaded |-> line.uploaded, secret |-> line.secret]
    BY <1>1, <1>3, <1>6 DEF Proceed, LineSound
  <2>2. line'.at = "confirm" /\ line'.secret = line.secret
    BY <2>1
  <2>3. WasEntered(keyed', "weak", "y")
    BY <1>3, <1>6
  <2>4. MasterEntered'
    BY <1>2, <1>4, <2>2, <2>3 DEF MasterEntered
  <2>5. "confirm" \in MasterSteps
    BY DEF MasterSteps
  <2> QED BY <1>2, <1>3, <1>5, <2>1, <2>4, <2>5, MasterStep
<1>7. CASE answer \in {"n", "eof"}
  <2>1. Refuse
    BY <1>1, <1>7
  <2> QED BY <1>2, <1>3, <2>1, Refusal
<1>8. CASE answer = "what"
  <2>1. line' = line
    BY <1>1, <1>8
  <2>2. line' = [at |-> line.at, k |-> line.k, fields |-> line.fields, files |-> line.files,
                 uploaded |-> line.uploaded, secret |-> line.secret]
    BY <1>3, <2>1 DEF LineSound
  <2>3. MasterEntered'
    BY <1>2, <1>4, <2>1 DEF MasterEntered
  <2> QED BY <1>2, <1>3, <1>5, <2>2, <2>3, MasterStep
<1> QED BY <1>6, <1>7, <1>8

(***************************************************************************)
(* The master password once more.                                          *)
(***************************************************************************)
LEMMA ArgsConfirmMaster ==
    ASSUME ArgumentsInv, ConfirmMaster
    PROVE  ArgumentsInv'
<1>1. PICK entry \in Entries :
          /\ Entered("again", entry)
          /\ IF entry # line.secret THEN Refuse ELSE Proceed("set")
  BY DEF ConfirmMaster
<1>2. line.at = "confirm" /\ order' = order
  BY DEF ConfirmMaster
<1>3. LineSound /\ KeyedKept /\ WasEntered(keyed', "again", entry)
  BY <1>1, KeyedGrows DEF ArgumentsInv, LineSound
<1>4. CASE entry # line.secret
  <2>1. Refuse
    BY <1>1, <1>4
  <2> QED BY <1>2, <1>3, <2>1, Refusal
<1>5. CASE entry = line.secret
  <2>1. line' = [at |-> "set", k |-> 1, fields |-> line.fields, files |-> line.files,
                 uploaded |-> line.uploaded, secret |-> line.secret]
    BY <1>1, <1>3, <1>5 DEF Proceed, LineSound
  <2>2. line'.at = "set" /\ line'.secret = line.secret
    BY <2>1
  <2>3. /\ line.secret.chars >= MinLength /\ line.secret # order.current
        /\ WasEntered(keyed', "password", line.secret)
        /\ (line.secret.score < 3 => WasEntered(keyed', "weak", "y"))
    BY <1>2, <1>3 DEF ArgumentsInv, MasterEntered, MasterSteps, KeyedKept
  <2>4. WasEnteredTwice(keyed', line.secret)
    BY <1>3, <1>5, <2>3 DEF WasEnteredTwice
  <2>5. MasterEntered'
    BY <1>2, <2>2, <2>3, <2>4 DEF MasterEntered
  <2>6. "set" \in MasterSteps /\ line.at \in MasterSteps
    BY <1>2 DEF MasterSteps
  <2> QED BY <1>2, <1>3, <2>1, <2>5, <2>6, MasterStep
<1> QED BY <1>4, <1>5

(***************************************************************************)
(* The command as it starts.                                               *)
(***************************************************************************)
LEMMA ArgsInit ==
    ASSUME InitArguments
    PROVE  ArgumentsInv
<1> DEFINE at == IF order.op \in {"init", "passwd"} THEN "master" ELSE "files"
<1>1. line = [at |-> at, k |-> 1, fields |-> <<>>, files |-> <<>>, uploaded |-> 0, secret |-> NoText]
  BY DEF InitArguments, Start
<1>2. order \in Orders /\ keyed = <<>>
  BY DEF InitArguments
<1>3. \/ at = "master" /\ order.op \in MasterOps
      \/ at = "files" /\ order.op \notin MasterOps
  BY DEF MasterOps
<1> HIDE DEF at
<1>4. /\ line.at = at /\ line.k = 1 /\ line.fields = <<>> /\ line.files = <<>>
      /\ line.uploaded = 0
      /\ line = [at |-> line.at, k |-> line.k, fields |-> line.fields, files |-> line.files,
                 uploaded |-> line.uploaded, secret |-> line.secret]
  BY <1>1
<1>5. LineSound
  BY <1>2, <1>3, <1>4, NothingListed DEF LineSound, SendingSteps, MasterSteps
<1>6. ListsNamedOnce
  BY <1>4, NothingListed DEF ListsNamedOnce
<1>7. Progress
  <2>1. at = "files" => Len(order.files) \in Nat
    BY <1>2, <1>3, OrderLists
  <2>2. at = "files" => line.k <= Len(order.files) + 1 /\ Len(line.files) = line.k - 1
    BY <1>4, <2>1
  <2>3. line.at \in {"master", "files"}
    BY <1>3, <1>4
  <2>4. line.at = "files" => line.k <= Len(order.files) + 1 /\ Len(line.files) = line.k - 1
    BY <1>4, <2>2
  <2>5. line.at \notin SendingSteps \ {"files"}
    BY <2>3 DEF SendingSteps
  <2> QED BY <1>4, <2>3, <2>4, <2>5 DEF Progress
<1>8. SecretsConcealed /\ UploadsSound
  BY <1>4 DEF SecretsConcealed, UploadsSound
<1>9. PasswordsEntered /\ MasterEntered
  BY <1>3, <1>4 DEF PasswordsEntered, MasterEntered, MasterSteps
<1> QED BY <1>5, <1>6, <1>7, <1>8, <1>9 DEF ArgumentsInv

(***************************************************************************)
(* A step of something else keeps the invariant.                           *)
(***************************************************************************)
LEMMA ArgsStutter ==
    ASSUME ArgumentsInv, UNCHANGED argumentVars
    PROVE  ArgumentsInv'
<1>1. order' = order /\ line' = line /\ keyed' = keyed
  BY DEF argumentVars
<1>2. LineSound' /\ ListsNamedOnce' /\ SecretsConcealed' /\ UploadsSound'
  BY <1>1 DEF ArgumentsInv, LineSound, ListsNamedOnce, SecretsConcealed, UploadsSound
<1>3. Progress'
  BY <1>1 DEF ArgumentsInv, Progress, AskedNames
<1>4. PasswordsEntered' /\ MasterEntered'
  BY <1>1 DEF ArgumentsInv, PasswordsEntered, MasterEntered
<1> QED BY <1>2, <1>3, <1>4 DEF ArgumentsInv

(***************************************************************************)
(* Every step keeps the invariant.                                         *)
(***************************************************************************)
LEMMA ArgsStep ==
    ASSUME ArgumentsInv, [NextArguments]_argumentVars
    PROVE  ArgumentsInv'
<1>1. CASE ParseFileInputs
  BY <1>1, ArgsParseFileInputs
<1>2. CASE SkipOption
  BY <1>2, ArgsSkipOption
<1>3. CASE PlainOption
  BY <1>3, ArgsPlainOption
<1>4. CASE AskPassword
  BY <1>4, ArgsAskPassword
<1>5. CASE ConfirmPassword
  BY <1>5, ArgsConfirmPassword
<1>6. CASE GeneratePassword
  BY <1>6, ArgsGeneratePassword
<1>7. CASE TakeTotp
  BY <1>7, ArgsTakeTotp
<1>8. CASE OptionsEnd
  BY <1>8, ArgsOptionsEnd
<1>9. CASE GivenField
  BY <1>9, ArgsGivenField
<1>10. CASE AskField
  BY <1>10, ArgsAskField
<1>11. CASE FieldsEnd
  BY <1>11, ArgsFieldsEnd
<1>12. CASE UploadFiles
  BY <1>12, ArgsUploadFiles
<1>13. CASE EnterMaster
  BY <1>13, ArgsEnterMaster
<1>14. CASE ConfirmWeak
  BY <1>14, ArgsConfirmWeak
<1>15. CASE ConfirmMaster
  BY <1>15, ArgsConfirmMaster
<1>16. CASE UNCHANGED argumentVars
  BY <1>16, ArgsStutter
<1> QED BY <1>1, <1>2, <1>3, <1>4, <1>5, <1>6, <1>7, <1>8, <1>9, <1>10, <1>11, <1>12,
           <1>13, <1>14, <1>15, <1>16 DEF NextArguments

(***************************************************************************)
(* What the invariant says of a command that acts.                         *)
(***************************************************************************)
LEMMA SentAsAsked ==
    ASSUME ArgumentsInv
    PROVE  FieldsAsAsked
<1> SUFFICES ASSUME line.at = "sent"
             PROVE  FieldsAsAsked
  BY DEF FieldsAsAsked
<1>1. /\ IsSequence(line.fields) /\ IsSequence(line.files)
      /\ NamedOnce(line.fields) /\ NamedOnce(line.files)
  BY DEF ArgumentsInv, LineSound, ListsNamedOnce
<1>2. /\ Len(line.files) = Len(order.files) /\ NamesIn(line.fields) = AskedNames
      /\ NamesIn(line.fields) \cap NamesIn(line.files) = {}
  BY DEF ArgumentsInv, Progress, SendingSteps
<1>3. /\ {f.name : f \in Range(line.fields)} = NamesIn(line.fields)
      /\ {f.name : f \in Range(line.files)} = NamesIn(line.files)
      /\ Range(line.fields) = {line.fields[i] : i \in 1 .. Len(line.fields)}
  BY <1>1, SequenceRange
<1>4. Cardinality(NamesIn(line.fields) \cup NamesIn(line.files))
          = Len(line.fields) + Len(order.files)
  <2>1. /\ IsFiniteSet(NamesIn(line.fields)) /\ Cardinality(NamesIn(line.fields)) = Len(line.fields)
        /\ IsFiniteSet(NamesIn(line.files)) /\ Cardinality(NamesIn(line.files)) = Len(line.files)
    BY <1>1, NamesCounted
  <2>2. Cardinality(NamesIn(line.fields) \cup NamesIn(line.files)) =
            Cardinality(NamesIn(line.fields)) + Cardinality(NamesIn(line.files))
            - Cardinality(NamesIn(line.fields) \cap NamesIn(line.files))
    BY <2>1, FS_Union
  <2>3. Cardinality(NamesIn(line.fields) \cap NamesIn(line.files)) = 0
    BY <1>2, FS_EmptySet
  <2>4. Len(line.fields) \in Nat /\ Len(line.files) \in Nat
    BY <1>1, SequenceShape
  <2> QED BY <1>2, <2>1, <2>2, <2>3, <2>4
<1>5. \A f \in Range(line.fields) : FieldConcealed(f, order)
  BY <1>3 DEF ArgumentsInv, SecretsConcealed, SendingSteps
<1>6. \A f \in Range(line.fields) :
          /\ f.name \in {"password", "totp"} \cap {o : o \in DOMAIN order.options}
                 => f.concealed
          /\ order.concealed # <<>> /\ f.name \in order.concealed[1]
                 => f.concealed \/ f.name \in {"username", "email", "website"}
  BY <1>5 DEF FieldConcealed
<1> QED BY <1>2, <1>3, <1>4, <1>6 DEF FieldsAsAsked

(***************************************************************************)
(* Entered at both questions.                                              *)
(***************************************************************************)
LEMMA TwiceEntered ==
    ASSUME NEW secret, WasEnteredTwice(keyed, secret)
    PROVE  EnteredTwice(secret)
  BY DEF WasEnteredTwice, WasEntered, EnteredTwice

(***************************************************************************)
(* A password that is stored or set is the one that was meant.             *)
(***************************************************************************)
LEMMA MeantPasswords ==
    ASSUME ArgumentsInv
    PROVE  PasswordsMeant
<1>1. ASSUME line.at = "sent", "password" \in DOMAIN order.options
      PROVE  \E f \in Range(line.fields) : f.name = "password" /\ EnteredTwice(f.data)
  <2>1. PICK i \in 1 .. Len(line.fields) :
            line.fields[i].name = "password" /\ WasEnteredTwice(keyed, line.fields[i].data)
    BY <1>1 DEF ArgumentsInv, PasswordsEntered
  <2>2. line.fields[i] \in Range(line.fields)
    BY SequenceRange DEF ArgumentsInv, LineSound
  <2> QED BY <2>1, <2>2, TwiceEntered
<1>2. ASSUME line.at = "set"
      PROVE  /\ EnteredTwice(line.secret)
             /\ line.secret.chars >= MinLength
             /\ order.op = "passwd" => line.secret # order.current
             /\ line.secret.score < 3 =>
                    \E k \in DOMAIN keyed :
                        keyed[k].question = "weak" /\ keyed[k].entry = "y"
  <2>1. /\ WasEnteredTwice(keyed, line.secret)
        /\ line.secret.chars >= MinLength /\ line.secret # order.current
        /\ (line.secret.score < 3 => WasEntered(keyed, "weak", "y"))
    BY <1>2 DEF ArgumentsInv, MasterEntered, MasterSteps
  <2> QED BY <2>1, TwiceEntered DEF WasEntered
<1> QED BY <1>1, <1>2 DEF PasswordsMeant

(***************************************************************************)
(* A command that is refused has uploaded nothing.                         *)
(***************************************************************************)
LEMMA NothingLeft ==
    ASSUME ArgumentsInv
    PROVE  RefusedLeavesNothing
  BY DEF ArgumentsInv, UploadsSound, RefusedLeavesNothing

(***************************************************************************)
(* A command acts on what was meant, or not at all: what is sent has every *)
(* field and file of the command line once, with its secrets concealed; a  *)
(* command line that is refused has uploaded nothing; a password that is   *)
(* stored or set was entered twice alike, and a weak one was confirmed.    *)
(***************************************************************************)
THEOREM ArgumentsStayMeant == ArgumentsSpec => []ArgumentsMeant
<1>1. InitArguments => ArgumentsInv
  BY ArgsInit
<1>2. ArgumentsInv /\ [NextArguments]_argumentVars => ArgumentsInv'
  BY ArgsStep
<1>3. ArgumentsInv => ArgumentsMeant
  BY SentAsAsked, MeantPasswords, NothingLeft DEF ArgumentsMeant
<1> QED BY <1>1, <1>2, <1>3, PTL DEF ArgumentsSpec
===============================================================================
