------------------------------- MODULE Commands -------------------------------
(***************************************************************************)
(* The commands of the command-line client that take more than one         *)
(* request (commands/item.rs, transfer.rs, dir.rs): rm, mv, cp, add, edit  *)
(* and mkdir -p.  A command reads, decides, and writes in requests of      *)
(* their own, while other clients change the vault between any two of them *)
(* (the actions of VaultService); it stops at the first refusal.           *)
(***************************************************************************)
EXTENDS VaultService

CONSTANTS
    Orders,     \* the commands a user gives
    TrashNames, \* <<item, created>> -> its other names in the Trash: the one
                \* with the time, then those numbered 001, 002, ...
    PageSize,   \* 200 in the code: the items of one page of a listing
    MaxFound    \* bound: how many items one command may create

(***************************************************************************)
(* rm takes one source; add and edit name their files in a list.           *)
(***************************************************************************)
ASSUME OrderAssumption ==
    \A order \in Orders :
        /\ order.op = "rm" => Len(order.sources) = 1
        /\ order.op \in {"add", "edit"} => IsList(order.request.files)

VARIABLE shell \* the process that runs one command

commandVars == <<vars, shell>>

(***************************************************************************)
(* A source is a directory (item Whole) or an item, with the set of names  *)
(* its text matches as a glob; a destination is a directory or an item.    *)
(***************************************************************************)
Whole == "whole"
IsDir(path) == path.item = Whole

NoOrder == [op |-> "none"]
Idle == [at |-> "idle", order |-> NoOrder, sources |-> <<>>, listing |-> <<>>,
         marker |-> NoMarker, found |-> <<>>, todo |-> <<>>, created |-> 0, name |-> Whole]

EmptyRequest == [fields |-> <<>>, files |-> <<>>]

(***************************************************************************)
(* What a request of the command does to the vault when it is answered.    *)
(***************************************************************************)
Ask(outcome) ==
    /\ db' = outcome.db
    /\ placed' = Placed
    /\ walk' = Watched
    /\ UNCHANGED <<wall, real>>

NoChange == UNCHANGED vars

Finish == shell' = [Idle EXCEPT !.at = "done"]

Begin ==
    /\ shell.at = "idle"
    /\ Max(DOMAIN db.items) + MaxFound <= MaxItems
    /\ \A i \in DOMAIN db.items : db.items[i].latest < MaxVersion
    /\ \E order \in Orders :
        shell' = [Idle EXCEPT !.order = order,
                              !.sources = order.sources,
                              !.at = CASE order.op \in {"rm", "mv", "cp"} -> "plan"
                                       [] order.op \in {"add", "edit"} -> "preflight"
                                       [] OTHER -> "mkdir"]
    /\ NoChange

-----------------------------------------------------------------------------
(***************************************************************************)
(* plan_removal and plan_transfers: each source is taken literally or      *)
(* listed, one page a request; a directory needs --recursive, a listing    *)
(* must not be empty, and a transfer takes a source once.                  *)
(***************************************************************************)
PushUnique(found, path) == IF path \in Range(found) THEN found ELSE Append(found, path)

Expanded(found, paths) ==
    IF shell.order.op = "rm" THEN found \o paths ELSE FoldLeft(PushUnique, found, paths)

(***************************************************************************)
(* Where each found item goes.  More than one, or a listed directory,      *)
(* needs a directory as the destination.                                   *)
(***************************************************************************)
IntoDir(found) ==
    Len(found) > 1 \/ \E k \in DOMAIN shell.order.sources : IsDir(shell.order.sources[k])

Target(path) ==
    CASE shell.order.op = "rm" -> path
      [] shell.order.op # "rm" /\ IsDir(shell.order.dest) ->
             [dir |-> shell.order.dest.dir, item |-> path.item]
      [] OTHER -> shell.order.dest

Transfers(found) == [k \in DOMAIN found |-> [from |-> found[k], to |-> Target(found[k])]]

(***************************************************************************)
(* A source has been expanded: go on with the next one, or with the work.  *)
(***************************************************************************)
TakeSource(paths) ==
    LET found == Expanded(shell.found, paths)
    IN  IF Len(shell.sources) > 1
        THEN shell' = [shell EXCEPT !.sources = Tail(@), !.found = found,
                                    !.listing = <<>>, !.marker = NoMarker]
        ELSE IF shell.order.op # "rm" /\ IntoDir(found) /\ ~IsDir(shell.order.dest)
        THEN Finish
        ELSE shell' = [Idle EXCEPT !.at = IF shell.order.op = "rm" THEN "remove"
                                          ELSE "transfer",
                                   !.order = shell.order, !.todo = Transfers(found)]

Paths(dir, names) == [k \in DOMAIN names |-> [dir |-> dir, item |-> names[k]]]

PlanLiteral ==
    LET source == Head(shell.sources)
    IN  /\ shell.at = "plan"
        /\ IF IsDir(source) THEN ~shell.order.recursive /\ Finish
           ELSE shell.order.globoff /\ TakeSource(Paths(source.dir, <<source.item>>))
        /\ NoChange

PlanPage ==
    /\ shell.at = "plan"
    /\ LET source == Head(shell.sources)
       IN  /\ IF IsDir(source) THEN shell.order.recursive ELSE ~shell.order.globoff
           /\ \E page \in {ListItems(db, source.dir, source.glob, FALSE, shell.marker, PageSize)} :
                IF page.status # "ok" THEN Finish
                ELSE LET names   == [k \in DOMAIN page.shows.entries |->
                                        db.items[page.shows.entries[k]].name]
                         listing == shell.listing \o names
                     IN  IF page.shows.next # NoMarker
                         THEN shell' = [shell EXCEPT !.listing = listing,
                                                     !.marker = page.shows.next]
                         ELSE IF listing = <<>> THEN Finish
                         ELSE TakeSource(Paths(source.dir, listing))
    /\ NoChange

-----------------------------------------------------------------------------
(***************************************************************************)
(* execute_transfer: one request for each item, in order, until one fails. *)
(***************************************************************************)
Job == Head(shell.todo)
Path == shell.order.sources[1]

NextJob(at) ==
    IF Len(shell.todo) > 1
    THEN shell' = [shell EXCEPT !.at = at, !.todo = Tail(@), !.created = 0, !.name = Whole]
    ELSE IF shell.order.op = "rm" /\ IsDir(Path) /\ Path.dir # Trash
    THEN shell' = [shell EXCEPT !.at = "rmdir", !.created = 0, !.name = Whole]
    ELSE Finish

Request(outcome, at) ==
    /\ Ask(outcome)
    /\ IF outcome.status = "ok" THEN NextJob(at) ELSE Finish

Transfer ==
    /\ shell.at = "transfer"
    /\ LET from == Job.from
           to   == Job.to
       IN  Request(IF shell.order.op = "mv"
                   THEN MoveItem(db, to.dir, to.item, from.dir, from.item, EmptyRequest, wall)
                   ELSE CopyItem(db, to.dir, to.item, from.dir, from.item, EmptyRequest, wall),
                   "transfer")

(***************************************************************************)
(* remove_item: an item of the Trash, or any with --force, is deleted.     *)
(* Others are moved to the Trash once the time of their creation is known: *)
(* under their name, else with that time, else with the number after the   *)
(* last one in use, which is looked up again as long as it is taken.       *)
(***************************************************************************)
Permanent(order, dir) == order.op = "rm" /\ (order.force \/ dir = Trash)

RemoveForGood ==
    /\ shell.at = "remove"
    /\ Permanent(shell.order, Job.from.dir)
    /\ Request(DeleteItem(db, Job.from.dir, Job.from.item), "remove")

Inspect ==
    /\ shell.at = "remove"
    /\ ~Permanent(shell.order, Job.from.dir)
    /\ IF GetItem(db, Job.from.dir, Job.from.item, 0, "masked", FALSE).status # "ok"
       THEN Finish
       ELSE shell' = [shell EXCEPT
                        !.at = "trash", !.name = Job.from.item,
                        !.created = db.items[ItemId(db, Job.from.dir, Job.from.item)].created]
    /\ NoChange

OtherNames == TrashNames[<<Job.from.item, shell.created>>]
Fallback == OtherNames[1]
Numbered == Tail(OtherNames)

MoveToTrash(next) ==
    LET outcome == MoveItem(db, Trash, shell.name, Job.from.dir, Job.from.item,
                            EmptyRequest, wall)
    IN  IF outcome.status = "conflict" THEN shell' = next /\ NoChange
        ELSE Request(outcome, "remove")

TrashSameName ==
    /\ shell.at = "trash"
    /\ MoveToTrash([shell EXCEPT !.at = "fallback", !.name = Fallback])

TrashFallback ==
    /\ shell.at = "fallback"
    /\ MoveToTrash([shell EXCEPT !.at = "look"])

(***************************************************************************)
(* next_trash_number: the listing is of one item, the last by name.        *)
(***************************************************************************)
NextNumber(desc) ==
    LET page   == ListItems(db, Trash, Range(Numbered), desc, NoMarker, 1)
        latest == IF page.shows.entries = <<>> THEN 0
                  ELSE CHOOSE n \in DOMAIN Numbered :
                          Numbered[n] = db.items[page.shows.entries[1]].name
    IN  latest + 1

LookForFirst == NextNumber(FALSE)
LookForNumber == NextNumber(TRUE)

TrashLook ==
    /\ shell.at = "look"
    /\ IF LookForNumber > Len(Numbered) THEN Finish
       ELSE shell' = [shell EXCEPT !.at = "numbered", !.name = Numbered[LookForNumber]]
    /\ NoChange

TrashNumbered ==
    /\ shell.at = "numbered"
    /\ MoveToTrash([shell EXCEPT !.at = "look"])

(***************************************************************************)
(* rm -r: when the items it listed are gone, the directory goes too, if it *)
(* is empty by then.                                                       *)
(***************************************************************************)
RemoveDir ==
    /\ shell.at = "rmdir"
    /\ Ask(DeleteDir(db, Path.dir))
    /\ Finish

-----------------------------------------------------------------------------
(***************************************************************************)
(* add and edit: the item must be missing, or there; the arguments must be *)
(* ones the client accepts; the files are uploaded one by one; then one    *)
(* request names them.                                                     *)
(***************************************************************************)
BadFieldArguments(request) ==
    \/ NamesRepeat(request.fields)
    \/ PairNames(request.fields) \cap PairNames(request.files) # {}

BadFileArguments(request) == NamesRepeat(request.files)

Preflight ==
    /\ shell.at = "preflight"
    /\ LET got == GetItem(db, Path.dir, Path.item, 0, "masked", FALSE)
       IN  IF /\ got.status = (IF shell.order.op = "add" THEN "not_found" ELSE "ok")
              /\ ~BadFieldArguments(shell.order.request)
              /\ ~BadFileArguments(shell.order.request)
           THEN shell' = [shell EXCEPT !.at = "upload", !.todo = shell.order.request.files]
           ELSE Finish
    /\ NoChange

UploadFile ==
    /\ shell.at = "upload"
    /\ shell.todo # <<>>
    /\ Ask(Done([db EXCEPT !.files = @ \cup {shell.todo[1][2]}]))
    /\ shell' = [shell EXCEPT !.todo = Tail(@)]

Save ==
    /\ shell.at = "upload"
    /\ shell.todo = <<>>
    /\ Ask(IF shell.order.op = "add"
           THEN CreateItem(db, Path.dir, Path.item, shell.order.request, wall)
           ELSE UpdateItem(db, Path.dir, Path.item, shell.order.request, wall))
    /\ Finish

MakeDir ==
    /\ shell.at = "mkdir"
    /\ Ask(CreateDir(db, Path.dir, wall))
    /\ Finish

(***************************************************************************)
(* A command ends early when the user interrupts it, the agent is gone, or *)
(* the scope is no longer authorized.                                      *)
(***************************************************************************)
Interrupt ==
    /\ shell.at \notin {"idle", "done"}
    /\ Finish
    /\ NoChange

CommandStep ==
    \/ PlanLiteral \/ PlanPage \/ Transfer
    \/ RemoveForGood \/ Inspect \/ TrashSameName \/ TrashFallback
    \/ TrashLook \/ TrashNumbered \/ RemoveDir
    \/ Preflight \/ UploadFile \/ Save \/ MakeDir

Others == Next /\ UNCHANGED shell

InitCommands == Init /\ shell = Idle

NextCommands == Begin \/ CommandStep \/ Interrupt \/ Others

CommandSpec ==
    InitCommands /\ [][NextCommands]_commandVars /\ WF_commandVars(CommandStep)

-----------------------------------------------------------------------------
(***************************************************************************)
(* Every command ends, unless other clients change the vault over and over *)
(* for as long as it runs: in particular the search for a free number in   *)
(* the Trash does not go round in circles (item.rs:561-582).               *)
(***************************************************************************)
CommandsEnd ==
    \/ []<><<shell' = shell /\ db' # db>>_commandVars
    \/ (shell.at # "idle") ~> (shell.at = "done")

(***************************************************************************)
(* Nothing disappears by accident: an item goes only by its deletion, a    *)
(* cleanup, or an rm of the Trash or with --force, never with a directory  *)
(* and never because a command met a name in use or another client's       *)
(* change; a version only by a cleanup, once another has followed it and   *)
(* it is as old as the retention period by the wall clock (which may lose  *)
(* time, so that no younger one goes); an item in the Trash gets no new    *)
(* version.                                                                *)
(***************************************************************************)
MayDestroy ==
    /\ shell' # shell
    /\ shell.order.op = "rm"
    /\ Permanent(shell.order, Path.dir)

Outlived(i) ==
    {v \in DOMAIN db.items[i].versions :
        /\ v # db.items[i].latest
        /\ VersionRetention > 0
        /\ wall - db.items[i].versions[v].created >= VersionRetention}

NothingVanishes ==
    [][/\ \/ DOMAIN db.items \subseteq DOMAIN db'.items
          \/ MayDestroy
          \/ shell' = shell /\ (Delete \/ Clean)
       /\ \A i \in DOMAIN db.items \cap DOMAIN db'.items :
              /\ \/ DOMAIN db.items[i].versions \subseteq DOMAIN db'.items[i].versions
                 \/ /\ Clean
                    /\ DOMAIN db.items[i].versions \ DOMAIN db'.items[i].versions
                       \subseteq Outlived(i)
              /\ db.dirs[db.items[i].dir].name = Trash /\ SamePlace(i)
                 => DOMAIN db'.items[i].versions \subseteq DOMAIN db.items[i].versions]_commandVars

(***************************************************************************)
(* What the vault keeps: nothing vanishes, what is in the Trash stays for  *)
(* its time, and the vault's own keys and directories stand.               *)
(***************************************************************************)
NothingIsLost == NothingVanishes /\ TrashKeepsItsPromise /\ ReservedStand
==============================================================================
