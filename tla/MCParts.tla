------------------------------- MODULE MCParts -------------------------------
(***************************************************************************)
(* The small components for TLC, side by side: they share no state, so a   *)
(* behaviour belongs to one part, and the variables of the others stay as  *)
(* they are.                                                               *)
(*                                                                         *)
(*   cache              the Vec of AuthCache                               *)
(*   prompt             two dialogs and their handlers                     *)
(*   windows            the windows of two dialogs; one of the users types *)
(*   client             one request of the command-line client             *)
(*   wire               its HTTP on the connection it keeps                *)
(*   processes          the processes around the vault's files: of the six *)
(*                      any three are started, on a vault that has a       *)
(*                      setting of the user's own                          *)
(*   daemon             the agent under a service manager; one of its runs *)
(*                      may be started by hand                             *)
(*   contacts .. reopen the database workers, with the commands of Theme   *)
(*   peer               the walk to the process behind a connection        *)
(*   crossing, stat     what is read of one process                        *)
(*   menus              the catalog of applications                        *)
(*   gate               what a peer may do                                 *)
(*   file, archive      a stored file read back; an item's archive         *)
(*   clip, run, share   these commands                                     *)
(*   tokens, words, arguments   markers and codes; completion; what a      *)
(*                      command line makes of its arguments                *)
(***************************************************************************)
EXTENDS AuthCacheVec, Prompt, Client, Lifecycle, Pool, Identify, Download, Shell,
        Wire, Gate, Archive, Tokens, Completion, Arguments, Windows, Daemon,
        ProcessTable, Catalog, TLC

CONSTANTS p1, p2, a1, a2, m, c, i1, i2, r1, r2, w1, w2, g1, g2, k1, k2

VARIABLE part

cacheVars == <<entries, call>>
otherVars ==
    <<walkVars, downloadVars, shellVars, wireVars, gateVars, archiveVars, tokenVars,
      completionVars, argumentVars, windowVars, daemonVars, tableVars, catalogVars>>
mcVars == <<part, cacheVars, promptVars, clientVars, lifeVars, poolVars, otherVars>>

MCEmailOrder == <<"ann", "bob">>

Number(n) == [form |-> "number", n |-> n]
Gc == "agent.gcSeconds"

ContactCommands ==
    {[op |-> "createContact", key |-> "ann", name |-> "Ann", age |-> "age1"],
     [op |-> "createContact", key |-> "bob", name |-> "Bob", age |-> "bad"],
     [op |-> "updateContact", key |-> "ann", email |-> "bob", name |-> <<"Bob">>, age |-> <<>>],
     [op |-> "deleteContact", key |-> "ann"],
     [op |-> "listContacts", key |-> NoEmail, limit |-> 1],
     [op |-> "listContacts", key |-> "bob", limit |-> 1],
     [op |-> "contactPublicKey", key |-> "ann"]}

SettingCommands ==
    {[op |-> "upsertSetting", key |-> Gc, value |-> Number(60)],
     [op |-> "upsertSetting", key |-> Gc, value |-> Number(59)],
     [op |-> "upsertSetting", key |-> "agent.other", value |-> Number(60)],
     [op |-> "getSetting", key |-> Gc], [op |-> "settingDuration", key |-> Gc],
     [op |-> "listSettings", key |-> Gc]}

JobCommands ==
    {[op |-> "createImportJob", key |-> "j", dir |-> "personal", item |-> "a"],
     [op |-> "markJobRunning", key |-> "j"], [op |-> "markJobSucceeded", key |-> "j"],
     [op |-> "markJobFailed", key |-> "j"], [op |-> "getJob", key |-> "j"]}

DirCommands ==
    {[op |-> "createDir", key |-> "home"], [op |-> "deleteDir", key |-> "home"],
     [op |-> "updateDir", key |-> "personal", name |-> "home"],
     [op |-> "getDir", key |-> "home"], [op |-> "listDirs", limit |-> 2],
     [op |-> "shellCompletions", begins |-> {"home", "personal"}]}

Body == [fields |-> <<>>, files |-> << <<"doc", "f">> >>]
NoBody == [fields |-> <<>>, files |-> <<>>]
Change == [fields |-> << <<"pub", "1">> >>, files |-> <<>>, dropFields |-> {}, dropFiles |-> {}]
ItemOp(op, dir, item) == [op |-> op, dir |-> dir, item |-> item]
Item(op) == ItemOp(op, "personal", "a")
With(command, request) == [op |-> command.op, dir |-> command.dir, item |-> command.item,
                           request |-> request]
From(op, dir, item, from, request) ==
    [op |-> op, dir |-> dir, item |-> item, from |-> from, request |-> request]

ItemCommands ==
    {With(Item("createItem"), NoBody), With(Item("updateItem"), Change), Item("deleteItem"),
     [op |-> "restoreItemVersion", dir |-> "personal", item |-> "a", version |-> 1],
     Item("getItem"), Item("listItemVersions")}

PlaceCommands ==
    {With(Item("createItem"), NoBody),
     From("copyItem", "personal", "a", <<"etc", "pub">>, NoBody),
     From("moveItem", "personal", "b", <<"personal", "a">>, NoBody), Item("listItems"),
     Item("exportSnapshot"),
     [op |-> "getReference", dir |-> "personal", item |-> "a", field |-> "key"]}

FileOp(op) == [op |-> op, file |-> "f"]
FileCommands ==
    {FileOp("createFile"), FileOp("deleteUnattachedFile"), FileOp("lookupFileBySha256"),
     FileOp("cleanupBeforeUnload"), With(Item("createItem"), Body)}

ExportCommands ==
    {[op |-> "createContact", key |-> "ann", name |-> "Ann", age |-> "age1"],
     With(Item("createItem"), NoBody),
     [op |-> "createExportJob", key |-> "j", dir |-> "personal", item |-> "a",
      email |-> "ann"]}

MCCommands ==
    ExportCommands \cup ContactCommands \cup SettingCommands \cup JobCommands \cup DirCommands
    \cup ItemCommands \cup PlaceCommands \cup FileCommands
MCNameOrder == <<"a", "b", "doc", "etc", "fkey", "home", "personal", "pub", "trash">>
PoolParts == {"contacts", "settings", "jobs", "reopen", "dirs", "items", "places", "files",
              "exports"}

Theme ==
    CASE part = "contacts" -> ContactCommands
      [] part = "settings" -> SettingCommands
      [] part = "jobs" -> JobCommands
      [] part = "dirs" -> DirCommands
      [] part = "items" -> ItemCommands
      [] part = "places" -> PlaceCommands
      [] part = "files" -> FileCommands
      [] part = "exports" -> ExportCommands
      [] part = "reopen" -> {command \in SettingCommands : command.op = "getSetting"
                                \/ (command.op = "upsertSetting" /\ command.value = Number(60))}
      [] OTHER -> {}

(***************************************************************************)
(* A client (1), its parent (2) and what is above: another session, the    *)
(* macOS login process, the top of a pid namespace or init (4).  A lineage *)
(* of three below init is as long as MaxDepth, and the walk breaks off.    *)
(***************************************************************************)
Process(parent, uid, session) ==
    [parent |-> parent, uid |-> uid, session |-> session, cgroup |-> {"app"}]
Above(second, third) ==
    1 :> Process(2, "own", "a") @@ 2 :> second @@ 3 :> third
    @@ 4 :> Process(0, "root", "z")
MCTables ==
    {Above(Process(3, "own", s), Process(t, "own", u)) :
        s \in {"a", "b"}, t \in {0, 4}, u \in {"a", "c"}}
    \cup {Above(Process(3, "login", "a"), Process(4, "own", "b")),
          Above(Process(4, "own", "b"), Process(4, "own", "b"))}

(***************************************************************************)
(* Applications: the terminal is 2, the shell 3, and a third one has the   *)
(* program of the shell too, or one that nobody runs, but started them all.*)
(***************************************************************************)
Listed(program, id) == [program |-> program, id |-> id]
Desktop(installed, known, cooled) ==
    [installed |-> installed, catalog |-> IF known THEN installed ELSE {}, cooled |-> cooled]
MCDesktops ==
    LET two == Listed(2, "term") three == Listed(3, "shell")
    IN  {Desktop({}, TRUE, TRUE), Desktop({two}, TRUE, TRUE), Desktop({two}, FALSE, TRUE),
         Desktop({three}, TRUE, FALSE), Desktop({three, Listed(3, "app")}, FALSE, TRUE),
         Desktop({two, three}, FALSE, FALSE),
         [Desktop({three, Listed(9, "app")}, FALSE, TRUE) EXCEPT !.catalog = {Listed(9, "app")}]}

NoWalk ==
    /\ procs = <<>> /\ hidden = FALSE /\ desktop = Desktop({}, TRUE, FALSE)
    /\ walk = NotYet /\ moments = {}

MCContents == {<<>>, <<1>>, <<1, 2, 3>>, <<1, 2, 1, 2>>}

NoDownload ==
    /\ stored = [sha256 |-> <<>>, size |-> 0, blob |-> Records(<<>>), tail |-> "none"]
    /\ source = [at |-> "ended", counter |-> 0, channel |-> <<>>]
    /\ taker = [kind |-> "http", got |-> <<>>, at |-> "complete", agent |-> "down"]
    /\ target = [before |-> "nothing", force |-> FALSE, file |-> "before", content |-> <<>>,
                 result |-> "error", temp |-> "none"]

Variable(key, name) == [key |-> key, name |-> name]
MCEnvironments ==
    {{Variable("A.B", "A_B"), Variable("A_B", "A_B")},
     {Variable("A", "A"), Variable("B", "B"), Variable("C", "C")}}
Shared(dir, item) == [dir |-> dir, item |-> item]
MCShares ==
    {<<Shared("d", "x"), Shared("e", "x")>>, <<Shared("d", "x"), Shared("d", "y")>>}

IdleClip == clipboard = "other" /\ clip = [at |-> "error", message |-> TRUE]
IdleRun ==
    vars = [at |-> "error", left |-> {}, key |-> "", kind |-> "absent",
            given |-> {}, files |-> {}]
IdleShare ==
    /\ sharing = [at |-> "error", paths |-> <<>>, done |-> 0, job |-> "none",
                  output |-> FALSE, existing |-> {}]
    /\ disk = <<>>

ShellInit ==
    /\ IF part = "clip" THEN InitClip ELSE IdleClip
    /\ IF part = "run" THEN InitRun ELSE IdleRun
    /\ IF part = "share" THEN InitShare ELSE IdleShare

MCScripts == {<<"reader", "none">>, <<"bytes">>}
MCBlocks == <<"x", "y">>

NoWire ==
    /\ todo = <<>>
    /\ wire = [at |-> "next", step |-> "first", n |-> 0, left |-> 0, pos |-> 0,
               initial |-> <<>>]
    /\ link = NoLink /\ server = Awaiting(FALSE) /\ upload = [intact |-> TRUE, file |-> <<>>]
    /\ written = <<>> /\ executed = {} /\ taken = {} /\ said = {}

PeerOf(chain, root, program) ==
    [own |-> TRUE, chain |-> chain, origin |-> root, program |-> program]
MCPeers ==
    {PeerOf("c1", "o", "agent"), PeerOf("c2", "o", "tool"), PeerOf(Untold, "q", "gone"),
     PeerOf(Untold, Untold, Untold), [PeerOf("c3", "o", "tool") EXCEPT !.own = FALSE]}
MCDuration == [items |-> 2, settings |-> 1]

OneDenial == \A denial \in denied : denial[1] = "items" /\ denial[2] = "c1"

NoGate ==
    /\ platform = "plain"
    /\ vault = [old |-> TRUE, type |-> "insecure-all", trusted |-> {}]
    /\ gate = [open |-> FALSE, needed |-> FALSE, type |-> "process-chain", allowed |-> {},
               latest |-> 0]
    /\ time = 0 /\ denied = {} /\ grants = {} /\ entered = NobodyIn

Secret(name, data) == [name |-> name, type |-> "string", concealed |-> TRUE, data |-> data]
Holding(name, content) == [name |-> name, content |-> content]
Snapshot(fields, files) == [name |-> "i", fields |-> fields, files |-> files]
MCExported ==
    {Snapshot(<<>>, <<>>),
     Snapshot(<<Secret("a", "x"), Secret("b", "y")>>,
              <<Holding("c", <<1, 2>>), Holding("d", <<>>)>>),
     Snapshot(<<Secret("a", "x")>>,
              <<Holding("c", <<1, 2>>), Holding("d", <<3>>), Holding("e", <<4>>)>>)}
MCStreams == {<<8>>}

NoArchive ==
    /\ giver = [at |-> "ended", item |-> Snapshot(<<>>, <<>>), units |-> <<>>,
                result |-> "none"]
    /\ parcel = Parcel("nobody", <<>>)
    /\ receiver = [at |-> "waiting", next |-> 1, manifest |-> NoManifest, files |-> <<>>,
                   created |-> {}, result |-> "none"]
    /\ shelf = [before |-> {}, contents |-> {}, item |-> <<>>]

(***************************************************************************)
(* An otpauth URL of one pair or of several, right and wrong ones; listings*)
(* of two directories and of two items.                                    *)
(***************************************************************************)
SecretOf(length, flaw) == [length |-> length, flaw |-> flaw]
TotpUrl(pairs) == [scheme |-> "otpauth", host |-> "totp", pairs |-> pairs]
MCUrls ==
    LET good == Pair("secret", SecretOf(16, "none"))
    IN  {TotpUrl(<<good>>), TotpUrl(<<>>),
         TotpUrl(<<Pair("digits", 8), good, Pair("period", 60)>>),
         TotpUrl(<<good, Pair("digits", 10), Pair("algorithm", "SHA256")>>),
         TotpUrl(<<good, Pair("digits", 1), Pair("algorithm", "SHA512"), Pair("issuer", 0)>>),
         TotpUrl(<<good, Pair("digits", 11)>>),
         TotpUrl(<<good, Pair("digits", 0), Pair("digits", 6)>>),
         TotpUrl(<<good, Pair("period", 0)>>), TotpUrl(<<good, Pair("algorithm", "MD5")>>),
         [TotpUrl(<<good>>) EXCEPT !.host = "hotp"],
         [TotpUrl(<<good>>) EXCEPT !.scheme = "https"]}
        \cup {TotpUrl(<<Pair("secret", s)>>) :
                 s \in {SecretOf(n, "none") : n \in 0 .. 8}
                       \cup {SecretOf(8, "pad"), SecretOf(8, "bits")}}
DigestSize(algorithm) ==
    CASE algorithm = "SHA1" -> 20 [] algorithm = "SHA256" -> 32 [] OTHER -> 64
MCMacBytes ==
    [x \in {"SHA1", "SHA256", "SHA512"} \X (0 .. 4) |->
        [k \in 1 .. DigestSize(x[1]) |-> (k * 37 + x[2] * 101 + DigestSize(x[1])) % 256]]
Listing(list, of, glob, direction) ==
    [list |-> list, of |-> of, glob |-> glob, direction |-> direction]
MCListings ==
    {Listing(list, 0, <<>>, "asc") : list \in {"dirs", "contacts"}}
    \cup {Listing("versions", of, <<>>, "asc") : of \in {1, 2}}
    \cup {Listing("items", of, glob, direction) :
             of \in {1, 2}, glob \in {<<>>, <<"a">>, <<"b">>}, direction \in {"asc", "desc"}}
MCRows ==
    {[text |-> FALSE, bytes |-> <<0, 0, 0, 0, 0, 0, 0, 7>>],
     [text |-> TRUE, bytes |-> <<1, 2, 3, 4, 5, 6, 7, 8>>], [text |-> TRUE, bytes |-> <<1, 2>>]}
MCIds == {<<0, 1>>, <<171, 205>>, <<171, 171>>}

(***************************************************************************)
(* Vaults whose names begin alike, hold characters of a pattern, or are    *)
(* more than an answer takes.                                              *)
(***************************************************************************)
TextA == <<"a">>
TextB == <<"b">>
TextAB == <<"a", "b">>
TextBB == <<"b", "b">>
StarA == <<"a", "*">>
References(fields, files) == [field |-> fields, file |-> files]
NoReferences == References({}, {})
MCTrees ==
    {[items |-> TextA :> (TextA :> References({TextA, TextAB}, {TextB})
                            @@ TextAB :> References({TextB}, {}))
                @@ TextAB :> (StarA :> References({}, {TextA})) @@ TextB :> <<>>,
      contacts |-> {TextAB, TextB}],
     [items |-> TextA :> (TextB :> NoReferences @@ StarA :> References({StarA}, {})
                            @@ TextBB :> NoReferences @@ <<"a", "[", "b">> :> NoReferences),
      contacts |-> {}],
     [items |-> <<>>, contacts |-> {TextA}]}
MCLetters == <<"*", "/", "[", "a", "b">>
MCBeginnings ==
    {<<>>, TextA, TextB, <<"a", "/">>, <<"a", "/", "b">>, <<"/">>, <<"a", "/", "/">>,
     <<"a", "/", "a", "/", "a", "/">>, <<"b", "/">>, <<"a", "/", "?", "b">>}

NoCompletion ==
    /\ tree = [items |-> <<>>, contacts |-> {}] /\ argument = "contact" /\ typed = <<>>
    /\ offer = NoOffer /\ meant = [as |-> "nothing", parts |-> <<>>]

(***************************************************************************)
(* Passwords that are too short, weak, strong and another strong one;      *)
(* command lines of add with every option and with what may be wrong.      *)
(***************************************************************************)
Typing(text, chars, score) == [text |-> text, chars |-> chars, score |-> score]
Strong == Typing("strong", 12, 3)
MCEntries ==
    {Typing("short", 9, 4), Typing("weak", 10, 2), Strong, Typing("other", 12, 4)}
SomeValue == Typing("value", 5, 0)
RawField(name, with) == [name |-> name, given |-> with, value |-> SomeValue]
RawFile(shaped, equals, before, base, readable) ==
   [shaped |-> shaped, equals |-> equals, before |-> before, base |-> base,
    readable |-> readable]
AddLine(options, fields, concealed, files) ==
   [op |-> "add", options |-> options, fields |-> fields, concealed |-> concealed,
    files |-> files]
Recipe(length, classes) == [blank |-> FALSE, length |-> length, classes |-> classes]
QrCode(decodes, otpauth, host, secret) ==
    [decodes |-> decodes, otpauth |-> otpauth, host |-> host, secret |-> secret]
GoodCode == QrCode(TRUE, TRUE, "totp", "s")
TotpOption(form, codes) == [form |-> form, codes |-> codes]
DocFile == RawFile(FALSE, FALSE, "", "doc", TRUE)
AskedNote == RawField("note", FALSE)
MCOrders ==
  {[op |-> "init", current |-> NoText], [op |-> "passwd", current |-> Strong]}
  \cup {AddLine("username" :> SomeValue @@ "password" :> TRUE, fields, concealed, files) :
         fields \in {<<>>, <<RawField("note", TRUE), AskedNote>>, <<RawField("api key", FALSE)>>,
                     <<RawField("password", TRUE)>>, <<AskedNote>>},
         concealed \in {<<>>, << {"note", "username"} >>}, files \in {<<>>, <<DocFile>>}}
  \cup {AddLine("totp" :> t, <<>>, <<>>, <<>>) :
         t \in {TotpOption("url", <<GoodCode>>),
                TotpOption("url", << [GoodCode EXCEPT !.host = "hotp"] >>),
                TotpOption("image", <<GoodCode, GoodCode>>), TotpOption("image", <<>>),
                TotpOption("image", <<GoodCode, [GoodCode EXCEPT !.secret = "t"]>>),
                TotpOption("image", << [GoodCode EXCEPT !.decodes = FALSE], GoodCode >>)}}
  \cup {AddLine("generate" :> r, <<>>, <<>>, <<>>) :
         r \in {[Recipe(0, <<>>) EXCEPT !.blank = TRUE], Recipe(0, <<>>), Recipe(2, <<>>),
                Recipe(2, <<"upper", "hex">>), Recipe(1, <<"digits", "what">>),
                Recipe(3, <<"lower">>), Recipe(1, <<"alpha", "symbol", "">>)}}
  \cup {AddLine("website" :> SomeValue @@ "email" :> SomeValue, <<RawField(n, TRUE)>>, <<>>,
                 files) :
         n \in {"", "doc", "note"},
         files \in {<<DocFile>>, <<DocFile, RawFile(TRUE, TRUE, "./b", "doc", TRUE)>>,
                    <<DocFile, RawFile(FALSE, TRUE, "copy", "doc", FALSE)>>,
                    <<RawFile(FALSE, TRUE, "a/b", "c", TRUE)>>,
                    <<RawFile(TRUE, TRUE, "./x", "note", TRUE), DocFile>>,
                    <<RawFile(TRUE, FALSE, "", "", TRUE)>>}}

NoArguments ==
    /\ order = [op |-> "init", current |-> NoText] /\ line = Start("done") /\ keyed = <<>>

(***************************************************************************)
(* Desktops on which an application's icon is a file, a name of the theme, *)
(* damaged or missing.                                                     *)
(***************************************************************************)
IconFile(name, ext, sound) == [name |-> name, ext |-> ext, sound |-> sound]
DeskOf(kind, works, paths, theme, roots) ==
    [kind |-> kind, works |-> works, paths |-> paths, theme |-> theme, roots |-> roots]
MCDesks ==
    {DeskOf("gtk", TRUE, {"own"}, {"term"}, <<>>),
     DeskOf("gtk", TRUE, {}, {"app", "term"}, <<>>), DeskOf("gtk", FALSE, {}, {}, <<>>),
     DeskOf("none", TRUE, {}, {}, <<>>), DeskOf("appkit", TRUE, {}, {}, <<>>),
     DeskOf("qt", TRUE, {"own"}, {},
            <<{}, {IconFile("app", "png", FALSE), IconFile("app", "svg", TRUE)},
              {IconFile("term", "xpm", TRUE)}>>),
     DeskOf("qt", TRUE, {}, {},
            <<{IconFile("app", "xpm", TRUE), IconFile("app", "svg", FALSE)},
              {IconFile("term", "txt", TRUE)}>>)}
Bash(application) ==
    [name |-> "bash", path |-> "/bin/bash", icon |-> ThemeIcon("app"), app |-> application]
AppOf(icon, same) == [name |-> "Term", icon |-> icon, same |-> same]
Wish(display, scope) == [display |-> display, scope |-> scope]
MCWanted ==
    {w1 :> Wish(Bash({AppOf([form |-> "path", name |-> "own"], FALSE)}), "items")
       @@ w2 :> Wish(UnknownApp, "settings"),
     w1 :> Wish(Bash({AppOf(NoIcon, TRUE)}), "items") @@ w2 :> Wish(Bash({}), "items")}
MCGenericNames == <<"xterm", "term">>
OneTypes == PasswordsSent(w2) = 0 /\ panel[w2].text = ""

NoWindows ==
    /\ desk = DeskOf("none", TRUE, {}, {}, <<>>) /\ asked = <<>> /\ serving = FALSE
    /\ ask = [a \in Asks |-> [at |-> "new", listening |-> FALSE, heard |-> <<>>, verdicts |-> 0]]
    /\ panel = [a \in Asks |-> NoPanel]
    /\ gui = [at |-> "ended", closing |-> NoAsk, current |-> NoCurrent]

(***************************************************************************)
(* macOS: launchd, a terminal, the login process it started and the shell  *)
(* below that; names of processes of Linux.                                *)
(***************************************************************************)
Kin(parent, who, leader) ==
    [born |-> 0, parent |-> parent, who |-> who, group |-> leader, session |-> leader,
     tty |-> leader = 3]
MCKins == {1 :> Kin(0, "root", 1) @@ 2 :> Kin(1, "own", 2) @@ 3 :> Kin(2, "login", 3)
             @@ 4 :> [Kin(3, "own", 3) EXCEPT !.group = 4]}
MCComms == UNION {[1 .. n -> {"a", ")", " "}] : n \in 0 .. 2}

NoTable ==
    /\ kin = <<>> /\ births = 0 /\ real = FALSE
    /\ crossing = [at |-> "ended", result |-> NotRead]

(***************************************************************************)
(* Directories in which the user hides or replaces an application of the   *)
(* system's, and files of every kind.                                      *)
(***************************************************************************)
Program(dir, file) == [dir |-> dir, file |-> file]
AppFile(flags, not, only, programs) ==
    [type |-> "Application", flags |-> flags, notShowIn |-> not, onlyShowIn |-> only,
     name |-> "Term", executables |-> programs]
ShownFile == AppFile({}, {}, {}, {Program("", "t")})
FullFile == AppFile({}, {"KDE"}, {"GNOME"}, {Program("/bin", "t"), Program("", "x")})
MCAppFiles == {ShownFile, AppFile({"hidden"}, {}, {}, {Program("/bin", "t")})}
MCMenus ==
    {<< <<>>, <<>> >>, << <<>>, "x" :> ShownFile>>,
     <<"x" :> [ShownFile EXCEPT !.flags = {"nodisplay"}], "x" :> ShownFile>>,
     <<"x" :> FullFile, "x" :> ShownFile @@ "y" :> ShownFile>>,
     <<"x" :> [ShownFile EXCEPT !.type = "Link"], "y" :> [FullFile EXCEPT !.name = ""]>>}
MCWants ==
    {[path |-> Program("/bin", "t"), names |-> {}],
     [path |-> Program("/opt", "x"), names |-> {"y"}]}

OneOfEach == lookups[k1].process.names = {} /\ lookups[k2].process.names # {}

NoCatalog ==
    /\ menu = <<>> /\ edits = 0 /\ hour = 0 /\ loads = {}
    /\ catalog = [entries |-> {}, of |-> 0, steady |-> FALSE]
    /\ refresh = [locked |-> NotLocked, last |-> Never]
    /\ lookups = [l \in Lookers |->
                     [Lookup([names |-> {}]) EXCEPT !.at = "answered"]]

UsualPath == route # "dead" /\ (route = "file" <=> system = "macos")
OneByHand ==
    /\ runs[g2].by # "hand"
    /\ runs[g2].at # "unused" => runs[g1].at # "unused"

NoDaemon ==
    /\ InitDaemon
    /\ system = "linux" /\ unit.kind = "nothing" /\ route = "nothing"

NoClient ==
    /\ mode = "bare" /\ method = "gui" /\ mustauth = FALSE
    /\ client = [at |-> "done", tries |-> 0, password |-> "none", result |-> "none"]
    /\ conn = "none" /\ net = Quiet
    /\ agent = [up |-> FALSE, authorized |-> FALSE, deaths |-> 0]
    /\ applied = 0 /\ sent = {}

MCInit ==
    /\ part \in PoolParts \cup {"cache", "prompt", "client", "processes",
                                "peer", "file", "clip", "run", "share", "wire", "gate",
                                "archive", "tokens", "words", "arguments",
                                "windows", "daemon", "crossing", "stat", "menus"}
    /\ Init
    /\ InitPrompt /\ (part # "prompt" => backend = "none")
    /\ IF part = "client" THEN InitClient ELSE NoClient
    /\ InitPool
    /\ IF part = "peer" THEN InitWalk ELSE NoWalk
    /\ IF part = "file" THEN InitDownload ELSE NoDownload
    /\ ShellInit
    /\ IF part = "wire" THEN InitWire ELSE NoWire
    /\ IF part = "gate" THEN InitGate ELSE NoGate
    /\ IF part = "archive" THEN InitArchive ELSE NoArchive
    /\ InitTokens
    /\ IF part = "words" THEN InitCompletion ELSE NoCompletion
    /\ IF part = "arguments" THEN InitArguments ELSE NoArguments
    /\ IF part = "windows" THEN InitWindows ELSE NoWindows
    /\ IF part = "daemon" THEN InitDaemon /\ UsualPath ELSE NoDaemon
    /\ IF part = "crossing" THEN InitCrossing ELSE NoTable
    /\ InitStat /\ parsed = Unparsed /\ (part # "stat" => stat.name = <<>>)
    /\ IF part = "menus" THEN InitCatalog /\ OneOfEach ELSE NoCatalog
    /\ InitLifecycle
    /\ IF part = "processes" THEN db = Absent \/ choice = "own" ELSE db = Absent

(***************************************************************************)
(* A step is one of its part: what belongs to the others stays as it is.   *)
(***************************************************************************)
Unless(parts, own) == IF part \in parts THEN TRUE ELSE UNCHANGED own

Only(name) ==
    /\ part = name
    /\ UNCHANGED part
    /\ Unless({"cache"}, cacheVars) /\ Unless({"prompt"}, promptVars)
    /\ Unless({"client"}, clientVars) /\ Unless({"processes"}, lifeVars)
    /\ Unless(PoolParts, poolVars) /\ Unless({"peer"}, walkVars)
    /\ Unless({"file"}, downloadVars) /\ Unless({"clip", "run", "share"}, shellVars)
    /\ Unless({"wire"}, wireVars) /\ Unless({"gate"}, gateVars)
    /\ Unless({"archive"}, archiveVars) /\ Unless({"tokens"}, tokenVars)
    /\ Unless({"words"}, completionVars) /\ Unless({"arguments"}, argumentVars)
    /\ Unless({"windows"}, windowVars) /\ Unless({"daemon"}, daemonVars)
    /\ Unless({"crossing", "stat"}, tableVars) /\ Unless({"menus"}, catalogVars)

PoolOnly ==
    /\ Only(part)
    /\ caller'[r2].calls <= 1
    /\ Len(pool') > 1 \/ Current' = {} => part = "reopen"
    /\ \A r \in Callers : caller'[r].at = "sending" => caller'[r].command \in Theme

ThreeAtMost == Cardinality({p \in Procs : ~At(p, "start")}) <= 3

MCNext ==
    \/ Only("cache") /\ Next
    \/ Only("prompt") /\ NextPrompt
    \/ Only("client") /\ NextClient
    \/ part \in PoolParts /\ NextPool /\ PoolOnly
    \/ Only("peer") /\ NextWalk
    \/ Only("file") /\ NextDownload
    \/ Only("clip") /\ NextClip
    \/ Only("run") /\ NextRun
    \/ Only("share") /\ NextShare
    \/ Only("wire") /\ NextWire
    \/ Only("gate") /\ NextGate /\ OneDenial'
    \/ Only("archive") /\ NextArchive
    \/ Only("tokens") /\ NextTokens
    \/ Only("words") /\ NextCompletion
    \/ Only("arguments") /\ NextArguments
    \/ Only("windows") /\ NextWindows /\ OneTypes'
    \/ Only("daemon") /\ NextDaemon /\ OneByHand'
    \/ Only("crossing") /\ NextCrossing
    \/ Only("stat") /\ ReadStat
    \/ Only("menus") /\ NextCatalog
    \/ Only("processes") /\ NextLifecycle /\ ThreeAtMost'

MCSpec ==
    /\ MCInit /\ [][MCNext]_mcVars
    /\ \A r \in Requests : WF_promptVars(Only("prompt") /\ Threads(r))
    /\ WF_clientVars(Only("client") /\ ClientSteps)
    /\ WF_clientVars(Only("client") /\ AgentSteps)
==============================================================================
