------------------------------- MODULE MCVault -------------------------------
(***************************************************************************)
(* VaultService, Commands and Readers for TLC, in five mixes: one item     *)
(* with its versions while the clocks run ("time"); directories and items  *)
(* coming and going, with a file ("names"); a listing while items come and *)
(* go ("walk"); a command while other clients create, move and delete      *)
(* items and directories ("commands"); and a read while they do ("reads"). *)
(***************************************************************************)
EXTENDS Commands, Readers, TLC

CONSTANTS f1, q, secret

VARIABLE mix

Body(fields, files) == [fields |-> fields, files |-> files]
Change(fields, files, dropFields, dropFiles) ==
    [fields |-> fields, files |-> files, dropFields |-> dropFields, dropFiles |-> dropFiles]

MCNameOrder == <<"a", "b", "c", "doc", "etc", "fkey", "key", "note", "pub">>

MCCreations == {Body(<<>>, <<>>), Body(<< <<"note", secret>> >>, << <<"doc", f1>> >>)}
MCUpdates == {Change(<< <<"note", q>> >>, << <<"etc", f1>> >>, {}, {"doc"}),
              Change(<<>>, << <<"etc", f1>> >>, {"note"}, {})}

(***************************************************************************)
(* Long names that agree in their first 220 letters share their names in   *)
(* the Trash, as those of all the items do here.                           *)
(***************************************************************************)
MCTrashNames == [entry \in ItemNames \X (0 .. MaxTime) |-> <<"b", "c", "doc", "etc">>]

Item(dir, item) == [dir |-> dir, item |-> item, glob |-> {item}]
Items(dir) == [dir |-> dir, item |-> "a", glob |-> ItemNames]
Directory(dir) == [dir |-> dir, item |-> Whole, glob |-> ItemNames]

Order(op, sources, options) ==
    [op |-> op, sources |-> sources, recursive |-> "recursive" \in options,
     globoff |-> "globoff" \in options, force |-> "force" \in options]

To(order, dest) ==
    [op |-> order.op, sources |-> order.sources, recursive |-> order.recursive,
     globoff |-> order.globoff, dest |-> dest]

Saving(order, request) == [op |-> order.op, sources |-> order.sources, request |-> request]

MCOrders ==
    {Order("rm", <<Item("personal", "a")>>, {"globoff"}),
     Order("rm", <<Items("personal")>>, {}),
     Order("rm", <<Directory("personal")>>, {"recursive"}),
     Order("rm", <<Directory("personal")>>, {"recursive", "force"}),
     Order("rm", <<Directory("trash")>>, {"recursive"}),
     Order("rm", <<Directory("trash")>>, {}),
     To(Order("mv", <<Item("trash", "b"), Items("trash")>>, {}), Directory("personal")),
     To(Order("cp", <<Item("personal", "a")>>, {"globoff"}), Item("personal", "b")),
     To(Order("cp", <<Items("personal")>>, {}), Item("personal", "b")),
     Saving(Order("add", <<Item("personal", "a")>>, {}), Body(<<>>, << <<"doc", f1>> >>)),
     Saving(Order("add", <<Item("personal", "a")>>, {}),
            Body(<< <<"doc", q>> >>, << <<"doc", f1>> >>)),
     Saving(Order("edit", <<Item("personal", "a")>>, {}),
            Change(<<>>, << <<"doc", f1>> >>, {}, {})),
     Order("mkdir", <<Directory("personal")>>, {})}

Asked(kind, version, field) ==
    [kind |-> kind, dir |-> "personal", name |-> "a", version |-> version, field |-> field]

MCReads == {Asked("item", 0, "note"), Asked("item", 1, "note"), Asked("export", 0, "note"),
            Asked("reference", 0, "note"), Asked("reference", 0, "doc")}

UserItems == {i \in DOMAIN db.items : db.items[i].dir # 2}
UserNames == {db.items[i].name : i \in UserItems}

TwoAtMost == Cardinality(UserItems) <= 2

WithinMix ==
    /\ mix # "commands" => DOMAIN db.items \subseteq 1 .. 5
    /\ CASE mix = "time" -> UserNames \subseteq {"a"} /\ Cardinality(UserItems) <= 1
         [] mix = "names" ->
               /\ TwoAtMost /\ UserNames \subseteq {"a", "b"}
               /\ Cardinality({i \in UserItems : db.items[i].latest = 2}) <= 1
               /\ \A i \in UserItems : db.items[i].latest <= 2
         [] mix = "walk" ->
               /\ \A i \in UserItems : db.items[i].dir = 3 /\ db.items[i].latest = 1
                                       /\ Latest(db.items[i]).fields = None
               /\ UserNames \subseteq {"a", "b", "c"}
               /\ walk.at # "none" => walk.steady /\ Len(walk.seen) <= 3
         [] mix = "reads" ->
               /\ DOMAIN db.items \subseteq 1 .. 3
               /\ \A i \in UserItems : db.items[i].latest <= 2
               /\ read.at \notin {"idle", "answered"} /\ Cardinality(read.could) <= 3
         [] OTHER -> TRUE

(***************************************************************************)
(* Beside a command, another client makes, moves and removes one item in   *)
(* Personal, two in the Trash, and the directory.  The Trash has two items *)
(* to begin with.                                                          *)
(***************************************************************************)
Plain == Body(<<>>, <<>>)

TwoTrashed == CreateItem(CreateItem(NewVault(0), Trash, "a", Plain, 0).db,
                         Trash, "b", Plain, 0).db

OtherClient ==
    \/ Apply(CreateItem(db, Personal, "a", Plain, wall))
    \/ \E name \in {"c", "doc"} : Apply(CreateItem(db, Trash, name, Plain, wall))
    \/ Apply(MoveItem(db, Trash, "c", Personal, "a", Plain, wall))
    \/ Apply(DeleteItem(db, Personal, "a"))
    \/ Apply(DeleteItem(db, Trash, "c"))
    \/ Apply(CreateDir(db, Personal, wall))
    \/ Apply(DeleteDir(db, Personal))

(***************************************************************************)
(* Beside a read, another client saves, restores, removes and makes anew   *)
(* the item that is read, moves it to another name and back, and renames   *)
(* the directory.  The item has a field and a file to begin with.          *)
(***************************************************************************)
Full == Body(<< <<"note", secret>> >>, << <<"doc", f1>> >>)

OneItem == CreateItem([NewVault(0) EXCEPT !.files = {f1}], Personal, "a", Full, 0).db

OtherWriter ==
    \/ \E request \in MCUpdates : Apply(UpdateItem(db, Personal, "a", request, wall))
    \/ Apply(RestoreVersion(db, Personal, "a", 1, wall))
    \/ Apply(DeleteItem(db, Personal, "a"))
    \/ Apply(CreateItem(db, Personal, "a", Plain, wall))
    \/ \E move \in {<<"a", "b">>, <<"b", "a">>} :
           Apply(MoveItem(db, Personal, move[1], Personal, move[2], Plain, wall))
    \/ \E names \in {<<Personal, "etc">>, <<"etc", Personal>>} :
           Apply(UpdateDir(db, names[1], names[2], wall))

mcVars == <<commandVars, read, mix>>

InitWith(tables) ==
    /\ db = tables /\ placed = [i \in DOMAIN tables.items |-> 0]
    /\ wall = 0 /\ real = 0 /\ walk = NoWalk

MCInit ==
    /\ read = NoRead /\ shell = Idle
    /\ \/ mix \in {"time", "names", "walk"} /\ Init
       \/ mix = "commands" /\ InitWith(TwoTrashed)
       \/ mix = "reads" /\ InitWith(OneItem)

OtherClients ==
    /\ UNCHANGED <<shell, mix>>
    /\ \/ mix = "commands" /\ OtherClient
       \/ mix = "time" /\ (NewItem \/ Move \/ Update \/ Delete \/ Restore
                             \/ Clean \/ Upload \/ Tick \/ SetBack)
       \/ mix = "names" /\ (NewDir \/ RenameDir \/ DropDir \/ NewItem \/ NewCopy \/ Move
                              \/ Update \/ Delete \/ Restore \/ Upload \/ CollectOrphan)
       \/ mix = "walk" /\ (NewItem \/ Move \/ Delete \/ BeginWalk
                              \/ FindMarker \/ NextPage \/ EndWalk)
       \/ mix = "reads" /\ OtherWriter
    /\ read' = Overtaken
    /\ WithinMix'

Command == mix = "commands" /\ CommandStep /\ UNCHANGED <<read, mix>>

Reader == mix = "reads" /\ (BeginRead \/ ReadStep) /\ UNCHANGED <<shell, mix>>

MCNext ==
    \/ OtherClients
    \/ Command
    \/ Reader
    \/ /\ mix = "commands" /\ UNCHANGED <<read, mix>>
       /\ Begin \/ Interrupt
       /\ shell'.order.op = "edit" => \A i \in UserItems : db.items[i].latest = 1

MCSpec == MCInit /\ [][MCNext]_mcVars /\ WF_mcVars(Command)
==============================================================================
