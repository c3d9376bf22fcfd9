----------------------------- MODULE Completion -----------------------------
(***************************************************************************)
(* A word of a command line: the user types the beginning of a path and    *)
(* presses Tab, the shell asks the command and that the agent what may     *)
(* come next (commands/completion.rs, shell_completions), and in the end   *)
(* the command takes the word for a path (commands/path.rs), asks for it,  *)
(* or makes a pattern of it that stands for this name only (commands/      *)
(* dir.rs).                                                                *)
(*                                                                         *)
(* A text is a sequence of characters.  Names that contain a slash, which  *)
(* no command can address, are left out.                                   *)
(***************************************************************************)
EXTENDS Integers, Sequences, FiniteSets
LOCAL INSTANCE SequencesExt

CONSTANTS
    Trees,      \* what vaults hold: dirs, items of a dir, references, contacts
    Letters,    \* the characters in their order, the slash among them
    Beginnings, \* what a user types before the first Tab
    MaxEntries  \* the 200 entries an answer has at most

Slash == "/"

VARIABLES
    tree,       \* the vault
    argument,   \* the completer of the argument
    typed,      \* the word; a pass:// or op:// before it stays where it is
    offer,      \* the candidates the shell got, whether there are more
    meant       \* what the command took the word for in the end

completionVars == <<tree, argument, typed, offer, meant>>

NoOffer == [at |-> "none", entries |-> {}, truncated |-> FALSE]

-----------------------------------------------------------------------------
(***************************************************************************)
(* split('/'), starts_with and the order of SQLite and of Rust.            *)
(***************************************************************************)
Split(text) ==
    LET cuts == SetToSortSeq({0, Len(text) + 1} \cup {k \in DOMAIN text : text[k] = Slash}, <)
    IN  [i \in 1 .. Len(cuts) - 1 |-> SubSeq(text, cuts[i] + 1, cuts[i + 1] - 1)]

Joined(parts) ==
    FlattenSeq([i \in DOMAIN parts |-> IF i = 1 THEN parts[1] ELSE <<Slash>> \o parts[i]])

Begins(prefix, text) == Len(prefix) <= Len(text) /\ SubSeq(text, 1, Len(prefix)) = prefix

Rank(c) == CHOOSE k \in DOMAIN Letters : Letters[k] = c

Precedes(one, other) ==
    \/ one # other /\ Begins(one, other)
    \/ \E k \in DOMAIN one \cap DOMAIN other :
           /\ SubSeq(one, 1, k - 1) = SubSeq(other, 1, k - 1)
           /\ Rank(one[k]) < Rank(other[k])

FirstOf(texts, n) ==
    {t \in texts : Cardinality({u \in texts : Precedes(u, t)}) < n}

-----------------------------------------------------------------------------
(***************************************************************************)
(* shell_completions of the agent.  Each query ends one row after the      *)
(* limit of the answer, so that a list which was cut shows; an exact name  *)
(* comes first (rank 0), what is below it next, other beginnings last.     *)
(***************************************************************************)
QueryToLimit(texts) == FirstOf(texts, MaxEntries)
Query(texts) == FirstOf(texts, MaxEntries + 1)

CandidateOf(rank, parts, kind) == [rank |-> rank, text |-> Joined(parts), kind |-> kind]
RankOf(name, prefix) == IF name = prefix THEN 0 ELSE 2

Dirs == DOMAIN tree.items
HasItem(dir, name) == dir \in Dirs /\ name \in DOMAIN tree.items[dir]

ContactEntries(prefix) ==
    {CandidateOf(RankOf(e, prefix), <<e>>, "contact") :
        e \in Query({c \in tree.contacts : Begins(prefix, c)})}

DirEntries(prefix) ==
    {CandidateOf(RankOf(d, prefix), <<d>>, "dir") : d \in Query({e \in Dirs : Begins(prefix, e)})}

ItemEntries(dir, prefix, below) ==
    IF dir \notin Dirs THEN {}
    ELSE {CandidateOf(IF below THEN 1 ELSE RankOf(i, prefix), <<dir, i>>, "item") :
             i \in Query({n \in DOMAIN tree.items[dir] : Begins(prefix, n)})}

PushReferenceCompletions(dir, item, prefix, below, kinds) ==
    IF ~HasItem(dir, item) THEN {}
    ELSE UNION {{CandidateOf(IF below THEN 1 ELSE RankOf(r, prefix), <<dir, item, r>>, kind) :
                    r \in Query({n \in tree.items[dir][item][kind] : Begins(prefix, n)})} :
                kind \in kinds \cap {"field", "file"}}

EntriesFor(prefix, kinds) ==
    LET parts == Split(prefix)
        When(kind, entries) == IF kind \in kinds THEN entries ELSE {}
    IN  When("contact", ContactEntries(prefix))
        \cup CASE Len(parts) = 1 -> When("dir", DirEntries(prefix))
                                    \cup When("item", ItemEntries(prefix, <<>>, TRUE))
               [] Len(parts) = 2 -> When("item", ItemEntries(parts[1], parts[2], FALSE))
                                    \cup PushReferenceCompletions(parts[1], parts[2], <<>>, TRUE,
                                                                  kinds)
               [] Len(parts) = 3 -> PushReferenceCompletions(parts[1], parts[2], parts[3],
                                                             FALSE, kinds)
               [] OTHER -> {}

KindOrder == <<"dir", "item", "field", "file", "contact">>
ShownBefore(one, other) ==
    LET key(e) == CHOOSE k \in DOMAIN KindOrder : KindOrder[k] = e.kind
    IN  \/ one.rank < other.rank
        \/ one.rank = other.rank /\ Precedes(one.text, other.text)
        \/ <<one.rank, one.text>> = <<other.rank, other.text>> /\ key(one) < key(other)

FinishShellCompletions(entries) ==
    [entries |-> {e \in entries : Cardinality({f \in entries : ShownBefore(f, e)}) < MaxEntries},
     truncated |-> Cardinality(entries) > MaxEntries]

(***************************************************************************)
(* validate_completion_prefix: anything for a contact, three parts at most *)
(* for a path, and only the last of them empty.                            *)
(***************************************************************************)
ValidPrefix(prefix, kinds) ==
    LET parts == Split(prefix)
    IN  \/ kinds = {"contact"}
        \/ Len(parts) <= 3 /\ \A i \in 1 .. Len(parts) - 1 : parts[i] # <<>>

-----------------------------------------------------------------------------
(***************************************************************************)
(* The client's side: the kinds it asks for by the argument and by the     *)
(* parts there are already, and which of them end a word.  Any other entry *)
(* gets a slash.                                                           *)
(***************************************************************************)
ComponentCount == IF typed = <<>> THEN 0 ELSE Len(Split(typed))

AskedKinds ==
    CASE argument \in {"new_item", "existing_dir"} -> {"dir"}
      [] argument \in {"existing_item", "dir_or_item"} ->
             IF ComponentCount <= 1 THEN {"dir", "item"} ELSE {"item"}
      [] argument = "reference" ->
             IF ComponentCount <= 1 THEN {"dir", "item"}
             ELSE IF ComponentCount = 2 THEN {"item", "field", "file"} ELSE {"field", "file"}
      [] argument = "contact" -> {"contact"}
      [] argument = "share" -> {"dir", "item", "contact"}

Terminals ==
    CASE argument = "new_item" -> {}
      [] argument = "existing_dir" -> {"dir"}
      [] argument = "existing_item" -> {"item"}
      [] argument = "dir_or_item" -> {"dir", "item"}
      [] argument = "reference" -> {"field", "file"}
      [] argument = "contact" -> {"contact"}
      [] argument = "share" -> {"dir", "item", "field", "file", "contact"}

RenderCandidate(entry) ==
    [text |-> IF entry.kind \in Terminals \/ Begins(<<Slash>>, Reverse(entry.text))
              THEN entry.text ELSE Append(entry.text, Slash),
     kind |-> entry.kind, final |-> entry.kind \in Terminals]

Tab ==
    /\ offer.at = "none" /\ meant.as = "nothing"
    /\ offer' = IF ~ValidPrefix(typed, AskedKinds) THEN [NoOffer EXCEPT !.at = "refused"]
                ELSE LET answer == FinishShellCompletions(EntriesFor(typed, AskedKinds))
                     IN  [at |-> "shown", truncated |-> answer.truncated,
                          entries |-> {RenderCandidate(e) : e \in answer.entries}]
    /\ UNCHANGED <<tree, argument, typed, meant>>

(***************************************************************************)
(* The user takes a candidate that goes on from the word.                  *)
(***************************************************************************)
TakeCandidate ==
    \E entry \in offer.entries :
        /\ Begins(typed, entry.text) /\ entry.text # typed
        /\ typed' = entry.text
        /\ offer' = NoOffer
        /\ UNCHANGED <<tree, argument, meant>>

-----------------------------------------------------------------------------
(***************************************************************************)
(* parse_item_path, parse_dir_or_item_path, parse_reference_path, and      *)
(* parse_list_target of ls, which takes one slash after a directory.  A    *)
(* contact, and the directory of mkdir or rmdir, is taken as it is.        *)
(***************************************************************************)
Components(text) == \A i \in DOMAIN Split(text) : Split(text)[i] # <<>>

Path(text, lengths) ==
    IF Components(text) /\ Len(Split(text)) \in lengths
    THEN [as |-> "path", parts |-> Split(text)]
    ELSE [as |-> "refused", parts |-> <<>>]

ParseItemPath(text) == Path(text, {2})
ParseDirOrItemPath(text) == Path(text, {1, 2})
ParseReferencePath(text) == Path(text, {3})

ParseListTarget(text) ==
    IF text # <<>> /\ text[Len(text)] = Slash
    THEN Path(SubSeq(text, 1, Len(text) - 1), {1})
    ELSE ParseDirOrItemPath(text)

ParseItemSource(text) ==
    LET at == {k \in DOMAIN text : text[k] = Slash}
        first == CHOOSE k \in at : \A j \in at : k <= j
        dir == SubSeq(text, 1, first - 1)
        item == SubSeq(text, first + 1, Len(text))
    IN  IF at = {} \/ dir = <<>> \/ item = <<>> \/ \E k \in DOMAIN item : item[k] = Slash
        THEN [as |-> "refused", parts |-> <<>>]
        ELSE [as |-> "path", parts |-> <<dir, item>>]

Readings ==
    CASE argument \in {"new_item", "existing_item"} -> {ParseItemPath(typed)}
      [] argument = "dir_or_item" -> {ParseDirOrItemPath(typed), ParseListTarget(typed)}
      [] argument = "reference" -> {ParseReferencePath(typed)}
      [] argument \in {"existing_dir", "contact"} -> {[as |-> "word", parts |-> <<typed>>]}
      [] argument = "share" -> {ParseDirOrItemPath(typed), [as |-> "word", parts |-> <<typed>>]}

Enter ==
    /\ meant.as = "nothing"
    /\ meant' \in Readings
    /\ offer' = NoOffer
    /\ UNCHANGED <<tree, argument, typed>>

(***************************************************************************)
(* escape_sqlite_glob, and what SQLite's GLOB makes of the pattern: a star *)
(* any text, a question mark any character, brackets one of a set.         *)
(***************************************************************************)
EscapeSqliteGlob(name) ==
    FlattenSeq([k \in DOMAIN name |->
        IF name[k] \in {"*", "?", "["} THEN <<"[", name[k], "]">> ELSE <<name[k]>>])

GlobMatches(pattern, name) ==
    LET n == Len(pattern)
        Close(i) == CHOOSE k \in i + 2 .. n : pattern[k] = "]" /\ \A j \in i + 2 .. k - 1 : pattern[j] # "]"
        fits[i \in 1 .. n + 1, j \in 1 .. Len(name) + 1] ==
            IF i > n THEN j > Len(name)
            ELSE IF pattern[i] = "*" THEN \E k \in j .. Len(name) + 1 : fits[i + 1, k]
            ELSE /\ j <= Len(name)
                 /\ IF pattern[i] = "["
                    THEN /\ \E k \in i + 1 .. Close(i) - 1 : pattern[k] = name[j]
                         /\ fits[Close(i) + 1, j + 1]
                    ELSE pattern[i] \in {"?", name[j]} /\ fits[i + 1, j + 1]
    IN  fits[1, 1]

InitCompletion ==
    /\ tree \in Trees
    /\ argument \in {"new_item", "existing_dir", "existing_item", "dir_or_item", "reference",
                     "contact", "share"}
    /\ typed \in Beginnings
    /\ offer = NoOffer
    /\ meant = [as |-> "nothing", parts |-> <<>>]

NextCompletion == Tab \/ TakeCandidate \/ Enter

-----------------------------------------------------------------------------
(***************************************************************************)
(* What the argument is for: the paths there are for it.                   *)
(***************************************************************************)
ItemPaths == UNION {{<<d, i>> : i \in DOMAIN tree.items[d]} : d \in Dirs}
ReferencePaths ==
    UNION {{<<p[1], p[2], r>> : r \in UNION {tree.items[p[1]][p[2]][kind] :
                                                 kind \in {"field", "file"}}} : p \in ItemPaths}
DirPaths == {<<d>> : d \in Dirs}

Targets ==
    CASE argument = "new_item" -> {<<d, <<>> >> : d \in Dirs}
      [] argument = "existing_dir" -> DirPaths
      [] argument = "existing_item" -> ItemPaths
      [] argument = "dir_or_item" -> DirPaths \cup ItemPaths
      [] argument = "reference" -> ReferencePaths
      [] argument = "contact" -> {<<c>> : c \in tree.contacts}
      [] argument = "share" -> DirPaths \cup ItemPaths \cup {<<c>> : c \in tree.contacts}

(***************************************************************************)
(* Pressing Tab leads on: whatever the argument is for and begins with the *)
(* word is reached by one of the candidates, each time one step further,   *)
(* as long as the answer was not cut; and it is never cut in silence.      *)
(***************************************************************************)
OnTheWay(path) ==
    UNION {{Joined(SubSeq(path, 1, k)), Append(Joined(SubSeq(path, 1, k)), Slash)} :
              k \in DOMAIN path}

TabLeadsOn ==
    offer.at = "shown" /\ ~offer.truncated =>
        \A path \in Targets :
            (Begins(typed, Joined(path)) /\ Joined(path) # typed) =>
                \E entry \in offer.entries :
                    /\ Begins(typed, entry.text) /\ entry.text # typed
                    /\ entry.text \in OnTheWay(path)

(***************************************************************************)
(* A candidate that ends the word is a path the command takes, to          *)
(* something that is there; any other is the beginning of a longer word.   *)
(***************************************************************************)
CandidatesAreGood ==
    \A entry \in offer.entries :
        IF entry.final THEN \E path \in Targets : Joined(path) = entry.text
        ELSE entry.text[Len(entry.text)] = Slash

(***************************************************************************)
(* What the command takes the word for is what was typed, part by part,    *)
(* none of them empty, a source the agent takes as well (copy_from), and   *)
(* with --globoff a pattern of this name alone.                            *)
(***************************************************************************)
WordIsMeant ==
    meant.as = "path" =>
        /\ typed \in {Joined(meant.parts), Append(Joined(meant.parts), Slash)}
        /\ \A i \in DOMAIN meant.parts : meant.parts[i] # <<>>
        /\ Len(meant.parts) = 2 =>
               /\ ParseItemSource(Joined(meant.parts)) = meant
               /\ \A d \in Dirs : \A name \in DOMAIN tree.items[d] :
                      GlobMatches(EscapeSqliteGlob(meant.parts[2]), name)
                          <=> name = meant.parts[2]

(***************************************************************************)
(* Completion leads to every path there is and to no other, and a path is  *)
(* the same for the user, the command and the agent.                       *)
(***************************************************************************)
WordsAgree == TabLeadsOn /\ CandidatesAreGood /\ WordIsMeant
==============================================================================
