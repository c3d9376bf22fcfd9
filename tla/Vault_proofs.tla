----------------------------- MODULE Vault_proofs -----------------------------
(***************************************************************************)
(* What the vault holds stays sound and nothing in it is lost, whatever    *)
(* requests, cleanups, commands and clock changes follow each other, for   *)
(* every set of names, files, requests and commands. The argument goes by  *)
(* operation: each one that succeeds takes sound tables to tables that     *)
(* Follow them, and those that do not delete or clean up take them to      *)
(* tables that have Grown; a command is a sequence of such operations. The *)
(* fault the proof would find first is an id or a version number used      *)
(* twice, so it begins with what makes the next one new.                   *)
(***************************************************************************)
EXTENDS Commands, Readers, FiniteSetTheorems, SequenceTheorems, WellFoundedInduction, TLAPS

-----------------------------------------------------------------------------
(***************************************************************************)
(* A strict order on a finite set that is not empty has a minimal element. *)
(***************************************************************************)
LEMMA MinimalExists ==
    ASSUME NEW S, IsFiniteSet(S), S # {},
           NEW R \in SUBSET (S \X S),
           \A x \in S : <<x, x>> \notin R,
           \A x, y, z \in S : <<x, y>> \in R /\ <<y, z>> \in R => <<x, z>> \in R
    PROVE  \E x \in S : \A y \in S : <<y, x>> \notin R
<1> DEFINE Below(x) == {y \in S : <<y, x>> \in R}
           T == {Below(x) : x \in S}
<1>1. IsWellFoundedOn(StrictSubsetOrdering(S), SUBSET S)
  <2>1. FiniteSubsetsOf(S) = SUBSET S
    BY FS_FiniteSubsetsOfFinite
  <2>2. IsWellFoundedOn(StrictSubsetOrdering(S), FiniteSubsetsOf(S))
    BY FS_StrictSubsetOrderingWellFounded
  <2> QED BY <2>1, <2>2
<1>2. T \subseteq SUBSET S /\ T # {}
  <2>1. \A x \in S : Below(x) \in SUBSET S
    OBVIOUS
  <2>2. PICK x \in S : TRUE
    OBVIOUS
  <2> HIDE DEF Below
  <2> QED BY <2>1, <2>2
<1>3. PICK t \in T : \A u \in T : <<u, t>> \notin StrictSubsetOrdering(S)
  <2> HIDE DEF T
  <2> QED BY <1>1, <1>2, WFMin
<1>4. PICK x \in S : t = Below(x)
  OBVIOUS
<1>5. ASSUME NEW y \in S, <<y, x>> \in R PROVE FALSE
  <2>1. Below(y) \subseteq Below(x)
    BY <1>5
  <2>2. y \in Below(x) /\ y \notin Below(y)
    BY <1>5
  <2>3. Below(y) \in T /\ Below(y) \in SUBSET S /\ Below(x) \in SUBSET S
    BY SMTT(60)
  <2>4. <<Below(y), Below(x)>> \in StrictSubsetOrdering(S)
    <3> HIDE DEF Below
    <3> QED BY <2>1, <2>2, <2>3 DEF StrictSubsetOrdering
  <2> QED BY <1>3, <1>4, <2>3, <2>4
<1> QED BY <1>5

(***************************************************************************)
(* A finite set of integers that is not empty has a maximum.               *)
(***************************************************************************)
LEMMA MaxOfFinite ==
    ASSUME NEW S \in SUBSET Int, IsFiniteSet(S), S # {}
    PROVE  Max(S) \in S /\ \A x \in S : x <= Max(S)
<1> DEFINE R == {p \in S \X S : p[1] > p[2]}
<1>1. \A x, y \in S : <<x, y>> \in R <=> x > y
  OBVIOUS
<1>2. R \in SUBSET (S \X S)
  OBVIOUS
<1> HIDE DEF R
<1>3. \A x \in S : <<x, x>> \notin R
  BY <1>1
<1>4. \A x, y, z \in S : <<x, y>> \in R /\ <<y, z>> \in R => <<x, z>> \in R
  BY <1>1
<1>5. \E x \in S : \A y \in S : <<y, x>> \notin R
  BY <1>2, <1>3, <1>4, MinimalExists
<1>6. PICK x \in S : \A y \in S : <<y, x>> \notin R
  BY <1>5
<1>7. \A y \in S : ~(y > x)
  BY <1>1, <1>6
<1>8. \A y \in S : y \in Int
  OBVIOUS
<1>9. \A y \in S : x >= y
  <2> HIDE DEF R
  <2> QED BY <1>7, <1>8
<1> QED BY <1>9, <1>8 DEF Max

(***************************************************************************)
(* The id a table gives to its next row is greater than all it has.        *)
(***************************************************************************)
LEMMA NewRowIdIsNew ==
    ASSUME NEW table, DOMAIN table \subseteq Nat, IsFiniteSet(DOMAIN table)
    PROVE  /\ NewRowId(table) \in Nat \ {0}
           /\ \A i \in DOMAIN table : i < NewRowId(table)
<1>1. CASE DOMAIN table = {}
  BY <1>1 DEF NewRowId
<1>2. CASE DOMAIN table # {}
  <2>1. /\ Max(DOMAIN table) \in DOMAIN table
        /\ \A i \in DOMAIN table : i <= Max(DOMAIN table)
    BY <1>2, MaxOfFinite
  <2> QED BY <1>2, <2>1 DEF NewRowId
<1> QED BY <1>1, <1>2

(***************************************************************************)
(* Of the versions of an item one is the oldest, by time and then by       *)
(* number: the query that finds it never comes back empty.                 *)
(***************************************************************************)
LEMMA OldestExists ==
    ASSUME NEW versions, DOMAIN versions \subseteq Nat, IsFiniteSet(DOMAIN versions),
           DOMAIN versions # {}, \A v \in DOMAIN versions : versions[v].created \in Nat
    PROVE  OldestOf(versions) \in DOMAIN versions
<1> DEFINE S == DOMAIN versions
           Older(v, w) == \/ versions[v].created < versions[w].created
                          \/ versions[v].created = versions[w].created /\ v < w
           R == {p \in S \X S : Older(p[1], p[2])}
<1>1. \A v, w \in S : <<v, w>> \in R <=> Older(v, w)
  OBVIOUS
<1>2. R \in SUBSET (S \X S)
  OBVIOUS
<1>3. \A v \in S : <<v, v>> \notin R
  BY <1>1
<1>4. \A u, v, w \in S : <<u, v>> \in R /\ <<v, w>> \in R => <<u, w>> \in R
  <2> HIDE DEF R
  <2> QED BY <1>1
<1>5. PICK v \in S : \A w \in S : <<w, v>> \notin R
  <2> HIDE DEF R
  <2> QED BY <1>2, <1>3, <1>4, MinimalExists
<1>6. \A w \in S : ~Older(w, v)
  BY <1>1, <1>5
<1>7. \A w \in S : \/ versions[v].created < versions[w].created
                   \/ versions[v].created = versions[w].created /\ v <= w
  BY <1>6
<1> QED BY <1>7 DEF OldestOf

(***************************************************************************)
(* A list of names and values that repeats no name and no value attaches   *)
(* no file under two names. It is the count of the values, not of the      *)
(* pairs, that the code compares.                                          *)
(***************************************************************************)
LEMMA AsFunctionInjective ==
    ASSUME NEW pairs, IsList(pairs), ~NamesRepeat(pairs), ~ValuesRepeat(pairs)
    PROVE  \A f, g \in DOMAIN AsFunction(pairs) :
               AsFunction(pairs)[f] = AsFunction(pairs)[g] => f = g
<1> DEFINE S == 1 .. Len(pairs)
           V == {pairs[k][2] : k \in S}
           h == [k \in S |-> pairs[k][2]]
<1>1. DOMAIN pairs = S /\ Len(pairs) \in Nat
  BY DEF IsList
<1>2. IsFiniteSet(S) /\ Cardinality(S) = Len(pairs)
  <2>1. 1 \in Int /\ Len(pairs) \in Int
    BY <1>1
  <2>2. /\ IsFiniteSet(1 .. Len(pairs))
        /\ Cardinality(1 .. Len(pairs)) = IF 1 > Len(pairs) THEN 0 ELSE Len(pairs) - 1 + 1
    BY <2>1, FS_Interval
  <2> QED BY <1>1, <2>2
<1>3. h \in Surjection(S, V)
  BY DEF Surjection
<1>4. IsFiniteSet(V) /\ Cardinality(V) <= Cardinality(S)
  <2> HIDE DEF h, V, S
  <2> QED BY <1>2, <1>3, FS_Surjection
<1>5. Cardinality(V) >= Cardinality(S)
  <2>1. ~(Cardinality(V) < Len(pairs))
    BY <1>1 DEF ValuesRepeat
  <2>2. Cardinality(V) \in Nat
    <3> HIDE DEF V
    <3> QED BY <1>4, FS_CardinalityType
  <2> HIDE DEF V, S
  <2> QED BY <2>1, <2>2, <1>1, <1>2
<1>6. Cardinality(V) = Cardinality(S)
  <2>1. Cardinality(V) \in Nat /\ Cardinality(S) \in Nat
    <3> HIDE DEF V, S
    <3> QED BY <1>2, <1>4, FS_CardinalityType
  <2> HIDE DEF V, S
  <2> QED BY <1>4, <1>5, <2>1
<1>7. h \in Injection(S, V)
  <2> HIDE DEF h, V, S
  <2> QED BY <1>2, <1>3, <1>6, FS_Surjection
<1>8. \A j, k \in S : pairs[j][2] = pairs[k][2] => j = k
  <2>1. \A j, k \in S : h[j] = h[k] => j = k
    BY <1>7 DEF Injection, IsInjective
  <2> QED BY <2>1
<1> SUFFICES ASSUME NEW f \in PairNames(pairs), NEW g \in PairNames(pairs),
                    AsFunction(pairs)[f] = AsFunction(pairs)[g]
             PROVE  f = g
  BY DEF AsFunction
<1> DEFINE At(name) == CHOOSE k \in DOMAIN pairs : pairs[k][1] = name
<1>9. \A name \in PairNames(pairs) : At(name) \in S /\ pairs[At(name)][1] = name
  BY <1>1 DEF PairNames
<1>10. \A name \in PairNames(pairs) : AsFunction(pairs)[name] = pairs[At(name)][2]
  BY DEF AsFunction
<1> HIDE DEF At, S
<1> QED BY <1>8, <1>9, <1>10

-----------------------------------------------------------------------------
(***************************************************************************)
(* The files of a version have rows, and each has one name in it, which no *)
(* field has.                                                              *)
(***************************************************************************)
FilesFit(attached, files) ==
    /\ Range(attached) \subseteq files
    /\ \A f, g \in DOMAIN attached : attached[f] = attached[g] => f = g

IsFunction(f) == f = [x \in DOMAIN f |-> f[x]]

VersionSound(version, files) ==
    /\ version.created \in Nat
    /\ FilesFit(version.files, files)
    /\ IsFunction(version.fields)
    /\ ~Clash(version.fields, version.files)

(***************************************************************************)
(* A row of items: its pointers name versions it has, the latest being the *)
(* greatest by number, and each version is sound.  What is hidden, or asks *)
(* for the password, is in Internal.                                       *)
(***************************************************************************)
ItemSound(item, files) ==
    /\ item = [dir |-> item.dir, name |-> item.name, flags |-> item.flags,
               created |-> item.created, updated |-> item.updated,
               oldest |-> item.oldest, latest |-> item.latest, versions |-> item.versions]
    /\ item.updated \in Nat
    /\ IsFiniteSet(DOMAIN item.versions)
    /\ item.oldest \in DOMAIN item.versions
    /\ item.latest \in DOMAIN item.versions
    /\ \A v \in DOMAIN item.versions :
           v \in Nat \ {0} /\ v <= item.latest /\ VersionSound(item.versions[v], files)
    /\ item.flags = {} \/ (item.dir = 2 /\ "hidden" \in item.flags)

SamePath(row, other) == row.dir = other.dir /\ row.name = other.name

PathsUnique(items) ==
    \A i, j \in DOMAIN items : SamePath(items[i], items[j]) => i = j

ItemsSound(items, files) ==
    /\ DOMAIN items \subseteq Nat /\ IsFiniteSet(DOMAIN items)
    /\ \A i \in DOMAIN items : ItemSound(items[i], files)
    /\ PathsUnique(items)

(***************************************************************************)
(* The items of Internal have one version: a cleanup has nothing to take   *)
(* from them.                                                              *)
(***************************************************************************)
KeysFixed(items) ==
    \A i \in DOMAIN items : items[i].dir = 2 => DOMAIN items[i].versions = {items[i].latest}

(***************************************************************************)
(* The directories: names are unique, and the two the vault made for       *)
(* itself are where they were, with the flags that keep requests away.     *)
(***************************************************************************)
DirsSound(dirs) ==
    /\ DOMAIN dirs \subseteq Nat \ {0} /\ IsFiniteSet(DOMAIN dirs)
    /\ \A d \in DOMAIN dirs :
           dirs[d] = [name |-> dirs[d].name, flags |-> dirs[d].flags,
                      created |-> dirs[d].created, updated |-> dirs[d].updated]
    /\ \A d, e \in DOMAIN dirs : dirs[d].name = dirs[e].name => d = e
    /\ {1, 2} \subseteq DOMAIN dirs
    /\ dirs[1].name = Trash /\ dirs[1].flags = {"hidden", "denyOverwrite"}
    /\ dirs[2].name = Internal /\ dirs[2].flags = {"hidden", "system"}

ItemsHoused(items, dirs) == \A i \in DOMAIN items : items[i].dir \in DOMAIN dirs

(***************************************************************************)
(* The tables: sound rows, and no item without its directory.              *)
(***************************************************************************)
TablesSound(d) ==
    /\ d = [dirs |-> d.dirs, items |-> d.items, files |-> d.files]
    /\ DirsSound(d.dirs)
    /\ ItemsSound(d.items, d.files)
    /\ KeysFixed(d.items)
    /\ ItemsHoused(d.items, d.dirs)

(***************************************************************************)
(* What an operation may do to an item at a time: if it sets no new time   *)
(* it leaves the item where it is, and versions it has afterwards are as   *)
(* before or newly numbered.                                               *)
(***************************************************************************)
ItemFollows(old, new, now) ==
    /\ \/ new.updated = now
       \/ /\ new.dir = old.dir /\ new.name = old.name
          /\ new.created = old.created /\ new.updated = old.updated
    /\ \A v \in DOMAIN new.versions :
           \/ v \in DOMAIN old.versions /\ new.versions[v] = old.versions[v]
           \/ v > old.latest

ItemsFollow(old, new, now) ==
    \A i \in DOMAIN new :
        IF i \in DOMAIN old THEN ItemFollows(old[i], new[i], now) ELSE new[i].updated = now

DirsFollow(old, new) == \A r \in {1, 2} : new[r] = old[r]

(***************************************************************************)
(* What is in Internal stays as it is and gets no company.                 *)
(***************************************************************************)
KeysFollow(old, new) ==
    /\ \A i \in DOMAIN old : old[i].dir = 2 => i \in DOMAIN new /\ new[i] = old[i]
    /\ \A i \in DOMAIN new : new[i].dir = 2 => i \in DOMAIN old /\ old[i].dir = 2

(***************************************************************************)
(* An item of the Trash gets no new version, wherever it goes.             *)
(***************************************************************************)
TrashFollows(old, new) ==
    \A i \in DOMAIN old \cap DOMAIN new :
        old[i].dir = 1 => DOMAIN new[i].versions \subseteq DOMAIN old[i].versions

(***************************************************************************)
(* No item and no version is gone.                                         *)
(***************************************************************************)
Keeps(old, new) ==
    \A i \in DOMAIN old :
        i \in DOMAIN new /\ DOMAIN old[i].versions \subseteq DOMAIN new[i].versions

(***************************************************************************)
(* What may come of the tables in any one operation: they are sound again, *)
(* and every change to a row is a permitted one.                           *)
(***************************************************************************)
Follows(d, e, now) ==
    /\ TablesSound(e)
    /\ TrashFollows(d.items, e.items)
    /\ DirsFollow(d.dirs, e.dirs)
    /\ ItemsFollow(d.items, e.items, now)
    /\ KeysFollow(d.items, e.items)

(***************************************************************************)
(* Items may be gone, but those that are left are untouched.               *)
(***************************************************************************)
Spares(old, new) == \A i \in DOMAIN old \cap DOMAIN new : new[i] = old[i]

WithItems(d, items) == [d EXCEPT !.items = items]

(***************************************************************************)
(* What may come of the tables in an operation that removes nothing.       *)
(***************************************************************************)
Grows(d, e, now) == Follows(d, e, now) /\ Keeps(d.items, e.items)

-----------------------------------------------------------------------------
(***************************************************************************)
(* An item may stay as it is.                                              *)
(***************************************************************************)
LEMMA ItemFollowsItself ==
    ASSUME NEW item, NEW now
    PROVE  ItemFollows(item, item, now)
BY DEF ItemFollows

(***************************************************************************)
(* To change the items only, it is enough to look at the items.            *)
(***************************************************************************)
LEMMA ItemsRule ==
    ASSUME NEW d, TablesSound(d), NEW now, NEW items,
           ItemsSound(items, d.files), KeysFixed(items),
           ItemsFollow(d.items, items, now), KeysFollow(d.items, items),
           ItemsHoused(items, d.dirs), TrashFollows(d.items, items)
    PROVE  Follows(d, WithItems(d, items), now) /\ WithItems(d, items).items = items
<1> DEFINE e == WithItems(d, items)
<1>1. e = [dirs |-> d.dirs, items |-> items, files |-> d.files]
  BY DEF TablesSound, WithItems
<1> HIDE DEF e
<1>2. e.dirs = d.dirs /\ e.items = items /\ e.files = d.files
  BY <1>1
<1>3. Follows(d, e, now)
  BY <1>1, <1>2 DEF Follows, TablesSound, DirsFollow
<1> QED BY <1>2, <1>3 DEF e

(***************************************************************************)
(* To change the directories only, it is enough to look at the             *)
(* directories.                                                            *)
(***************************************************************************)
LEMMA DirsRule ==
    ASSUME NEW d, TablesSound(d), NEW now, NEW dirs,
           DirsSound(dirs), DirsFollow(d.dirs, dirs), ItemsHoused(d.items, dirs),
           NEW e, e = [d EXCEPT !.dirs = dirs]
    PROVE  Grows(d, e, now)
<1>1. e = [dirs |-> dirs, items |-> d.items, files |-> d.files]
  BY DEF TablesSound
<1>2. e.dirs = dirs /\ e.items = d.items /\ e.files = d.files
  BY <1>1
<1>3. /\ ItemsFollow(d.items, d.items, now) /\ KeysFollow(d.items, d.items)
      /\ TrashFollows(d.items, d.items) /\ Keeps(d.items, d.items)
  BY ItemFollowsItself DEF ItemsFollow, KeysFollow, TrashFollows, Keeps
<1> QED BY <1>1, <1>2, <1>3 DEF Grows, Follows, TablesSound

(***************************************************************************)
(* The rows of files may change as long as those attached keep theirs.     *)
(***************************************************************************)
LEMMA FilesRule ==
    ASSUME NEW d, TablesSound(d), NEW now, NEW files, AttachedFiles(d) \subseteq files,
           NEW e, e = [d EXCEPT !.files = files]
    PROVE  Grows(d, e, now) /\ e.items = d.items
<1>1. e = [dirs |-> d.dirs, items |-> d.items, files |-> files]
  BY DEF TablesSound
<1>2. e.dirs = d.dirs /\ e.items = d.items /\ e.files = files
  BY <1>1
<1>3. /\ ItemsFollow(d.items, d.items, now) /\ KeysFollow(d.items, d.items)
      /\ TrashFollows(d.items, d.items) /\ Keeps(d.items, d.items)
  BY ItemFollowsItself DEF ItemsFollow, KeysFollow, TrashFollows, Keeps
<1>4. ASSUME NEW i \in DOMAIN d.items PROVE ItemSound(d.items[i], files)
  <2>1. ItemSound(d.items[i], d.files)
    BY DEF TablesSound, ItemsSound
  <2>2. ASSUME NEW v \in DOMAIN d.items[i].versions
        PROVE  VersionSound(d.items[i].versions[v], files)
    <3> DEFINE version == d.items[i].versions[v]
    <3>1. version \in VersionsOf(d, i)
      BY DEF VersionsOf
    <3>2. Range(version.files) \subseteq files
      BY <3>1 DEF AttachedFiles
    <3>3. VersionSound(version, d.files)
      BY <2>1 DEF ItemSound
    <3> HIDE DEF version
    <3>4. VersionSound(version, files)
      BY <3>2, <3>3 DEF VersionSound, FilesFit
    <3> QED BY <3>4 DEF version
  <2> QED BY <2>1, <2>2 DEF ItemSound
<1>5. ItemsSound(d.items, files)
  BY <1>4 DEF TablesSound, ItemsSound
<1> QED BY <1>1, <1>2, <1>3, <1>5 DEF Grows, Follows, TablesSound, DirsFollow

(***************************************************************************)
(* An item may be added to a directory other than Internal, under the next *)
(* id.                                                                     *)
(***************************************************************************)
LEMMA AddRule ==
    ASSUME NEW d, TablesSound(d), NEW now, NEW row,
           ItemSound(row, d.files), row.dir \in DOMAIN d.dirs \ {2}, row.updated = now,
           \A i \in DOMAIN d.items : ~SamePath(d.items[i], row),
           NEW e, e = [d EXCEPT !.items = With(@, NewRowId(@), row)]
    PROVE  Grows(d, e, now)
<1> DEFINE id == NewRowId(d.items)
           items == With(d.items, id, row)
<1>1. id \in Nat /\ \A i \in DOMAIN d.items : i < id
  BY NewRowIdIsNew DEF TablesSound, ItemsSound
<1>2. id \notin DOMAIN d.items
  BY <1>1 DEF TablesSound, ItemsSound
<1>3. /\ DOMAIN items = DOMAIN d.items \cup {id}
      /\ items[id] = row
      /\ \A i \in DOMAIN d.items : items[i] = d.items[i]
  BY <1>2 DEF With
<1>4. e = WithItems(d, items)
  BY DEF TablesSound, WithItems
<1> HIDE DEF items, id
<1>5. ItemsSound(items, d.files)
  <2>1. DOMAIN items \subseteq Nat /\ IsFiniteSet(DOMAIN items)
    BY <1>1, <1>3, FS_AddElement DEF TablesSound, ItemsSound
  <2>2. PathsUnique(items)
    BY <1>3 DEF TablesSound, ItemsSound, PathsUnique, SamePath
  <2> QED BY <2>1, <2>2, <1>3 DEF TablesSound, ItemsSound
<1>6. KeysFixed(items)
  BY <1>3 DEF TablesSound, KeysFixed
<1>7. ItemsFollow(d.items, items, now)
  BY <1>2, <1>3, ItemFollowsItself DEF ItemsFollow
<1>8. KeysFollow(d.items, items)
  BY <1>3 DEF KeysFollow
<1>9. ItemsHoused(items, d.dirs)
  BY <1>3 DEF ItemsHoused, TablesSound
<1>10. TrashFollows(d.items, items) /\ Keeps(d.items, items)
  BY <1>3 DEF TrashFollows, Keeps
<1>11. Follows(d, e, now) /\ e.items = items
  <2>1. Follows(d, WithItems(d, items), now) /\ WithItems(d, items).items = items
    BY <1>5, <1>6, <1>7, <1>8, <1>9, <1>10, ItemsRule
  <2> QED BY <2>1, <1>4
<1> QED BY <1>10, <1>11 DEF Grows

(***************************************************************************)
(* An item outside Internal may be changed, and moved to another place     *)
(* outside it.                                                             *)
(***************************************************************************)
LEMMA ChangeRule ==
    ASSUME NEW d, TablesSound(d), NEW now, NEW i \in DOMAIN d.items, NEW row,
           ItemSound(row, d.files), d.items[i].dir # 2, row.dir \in DOMAIN d.dirs \ {2},
           ItemFollows(d.items[i], row, now),
           SamePath(d.items[i], row) \/ \A j \in DOMAIN d.items : ~SamePath(d.items[j], row),
           DOMAIN d.items[i].versions \subseteq DOMAIN row.versions,
           d.items[i].dir = 1 => DOMAIN row.versions \subseteq DOMAIN d.items[i].versions,
           NEW e, e = [d EXCEPT !.items = [@ EXCEPT ![i] = row]]
    PROVE  Grows(d, e, now)
<1> DEFINE items == [d.items EXCEPT ![i] = row]
<1>1. /\ DOMAIN items = DOMAIN d.items
      /\ items[i] = row
      /\ \A j \in DOMAIN d.items : j # i => items[j] = d.items[j]
  OBVIOUS
<1>2. e = WithItems(d, items)
  BY DEF TablesSound, WithItems
<1> HIDE DEF items
<1>3. ItemsSound(items, d.files)
  <2>1. \A j \in DOMAIN items : ItemSound(items[j], d.files)
    BY <1>1 DEF TablesSound, ItemsSound
  <2>2. PathsUnique(items)
    BY <1>1 DEF TablesSound, ItemsSound, PathsUnique, SamePath
  <2> QED BY <2>1, <2>2, <1>1 DEF TablesSound, ItemsSound
<1>4. KeysFixed(items)
  BY <1>1 DEF TablesSound, KeysFixed
<1>5. ItemsFollow(d.items, items, now)
  BY <1>1, ItemFollowsItself DEF ItemsFollow
<1>6. KeysFollow(d.items, items)
  BY <1>1 DEF KeysFollow
<1>7. ItemsHoused(items, d.dirs)
  BY <1>1 DEF ItemsHoused, TablesSound
<1>8. TrashFollows(d.items, items) /\ Keeps(d.items, items)
  BY <1>1 DEF TrashFollows, Keeps
<1>9. Follows(d, e, now) /\ e.items = items
  <2>1. Follows(d, WithItems(d, items), now) /\ WithItems(d, items).items = items
    BY <1>3, <1>4, <1>5, <1>6, <1>7, <1>8, ItemsRule
  <2> QED BY <2>1, <1>2
<1> QED BY <1>8, <1>9 DEF Grows

(***************************************************************************)
(* Items outside Internal may be taken away.                               *)
(***************************************************************************)
LEMMA DropRule ==
    ASSUME NEW d, TablesSound(d), NEW now, NEW S,
           \A i \in DOMAIN d.items : d.items[i].dir = 2 => i \notin S
    PROVE  LET e == WithItems(d, Without(d.items, S))
           IN  /\ Follows(d, e, now)
               /\ Spares(d.items, e.items)
<1> DEFINE items == Without(d.items, S)
           e == WithItems(d, items)
<1>1. /\ DOMAIN items = DOMAIN d.items \ S
      /\ \A i \in DOMAIN items : items[i] = d.items[i]
  BY DEF Without
<1> HIDE DEF items
<1>3. ItemsSound(items, d.files)
  <2>1. DOMAIN items \subseteq Nat /\ IsFiniteSet(DOMAIN items)
    BY <1>1, FS_Subset DEF TablesSound, ItemsSound
  <2>2. PathsUnique(items)
    BY <1>1 DEF TablesSound, ItemsSound, PathsUnique
  <2> QED BY <2>1, <2>2, <1>1 DEF TablesSound, ItemsSound
<1>4. KeysFixed(items)
  BY <1>1 DEF TablesSound, KeysFixed
<1>5. ItemsFollow(d.items, items, now)
  BY <1>1, ItemFollowsItself DEF ItemsFollow
<1>6. KeysFollow(d.items, items)
  BY <1>1 DEF KeysFollow
<1>7. ItemsHoused(items, d.dirs)
  BY <1>1 DEF ItemsHoused, TablesSound
<1>8. TrashFollows(d.items, items)
  BY <1>1 DEF TrashFollows
<1>9. Follows(d, e, now) /\ e.items = items
  BY <1>3, <1>4, <1>5, <1>6, <1>7, <1>8, ItemsRule
<1> HIDE DEF e
<1>10. Spares(d.items, e.items)
  BY <1>1, <1>9 DEF Spares
<1> QED BY <1>9, <1>10 DEF e, items

-----------------------------------------------------------------------------
(***************************************************************************)
(* The directory a name leads to has that name.                            *)
(***************************************************************************)
LEMMA NamedDir ==
    ASSUME NEW d, NEW name, HasDir(d, name)
    PROVE  DirId(d, name) \in DOMAIN d.dirs /\ d.dirs[DirId(d, name)].name = name
<1>1. \E e \in DirsNamed(d, name) : TRUE
  BY DEF HasDir
<1>2. DirId(d, name) \in DirsNamed(d, name)
  BY <1>1 DEF DirId
<1> QED BY <1>2 DEF DirsNamed

(***************************************************************************)
(* A request may write to no directory of the system, so not to Internal,  *)
(* nor overwrite in a directory that denies it, so not in the Trash.       *)
(***************************************************************************)
LEMMA OpenDir ==
    ASSUME NEW d, DirsSound(d.dirs), NEW name,
           \/ WritableDir(d, name) = "ok"
           \/ OverwriteableDir(d, name) = "ok"
    PROVE  /\ DirId(d, name) \in DOMAIN d.dirs \ {2}
           /\ OverwriteableDir(d, name) = "ok" => DirId(d, name) # 1
<1>1. /\ HasDir(d, name) /\ "system" \notin DirFlags(d, name)
      /\ OverwriteableDir(d, name) = "ok" => "denyOverwrite" \notin DirFlags(d, name)
  BY DEF WritableDir, OverwriteableDir
<1> QED BY <1>1, NamedDir DEF DirsSound, DirFlags

(***************************************************************************)
(* The directories a request may rename or remove are neither Trash nor    *)
(* Internal.                                                               *)
(***************************************************************************)
LEMMA PublicDir ==
    ASSUME NEW d, DirsSound(d.dirs), NEW name, HasPublicDir(d, name)
    PROVE  HasDir(d, name) /\ DirId(d, name) \notin {1, 2}
BY DEF DirsSound, DirFlags, HasPublicDir

(***************************************************************************)
(* The item a directory and a name lead to is in that directory under that *)
(* name.                                                                   *)
(***************************************************************************)
LEMMA NamedItem ==
    ASSUME NEW d, NEW dir, NEW name, HasItem(d, dir, name)
    PROVE  /\ ItemId(d, dir, name) \in DOMAIN d.items
           /\ d.items[ItemId(d, dir, name)].dir = DirId(d, dir)
           /\ d.items[ItemId(d, dir, name)].name = name
<1>1. \E i \in ItemsNamed(d, dir, name) : TRUE
  BY DEF HasItem
<1>2. ItemId(d, dir, name) \in ItemsNamed(d, dir, name)
  BY <1>1 DEF ItemId
<1> QED BY <1>2 DEF ItemsNamed

(***************************************************************************)
(* create_dir: its name is free, so names stay unique.                     *)
(***************************************************************************)
LEMMA CreateDirFollows ==
    ASSUME NEW d, TablesSound(d), NEW name, NEW now,
           CreateDir(d, name, now).status = "ok"
    PROVE  Grows(d, CreateDir(d, name, now).db, now)
<1> DEFINE id == NewRowId(d.dirs)
           row == Dir(name, {}, now)
           dirs == With(d.dirs, id, row)
<1>1. /\ ~HasDir(d, name)
      /\ CreateDir(d, name, now).db = [d EXCEPT !.dirs = dirs]
  BY DEF CreateDir, Outcome, Done, TablesSound
<1>2. id \in Nat \ {0} /\ \A e \in DOMAIN d.dirs : e < id
  BY NewRowIdIsNew DEF TablesSound, DirsSound
<1>3. id \notin DOMAIN d.dirs
  <2> HIDE DEF id
  <2> QED BY <1>2
<1>4. /\ DOMAIN dirs = DOMAIN d.dirs \cup {id}
      /\ dirs[id] = row
      /\ \A e \in DOMAIN d.dirs : dirs[e] = d.dirs[e]
  BY <1>3 DEF With
<1>5. \A e \in DOMAIN d.dirs : d.dirs[e].name # name
  BY <1>1 DEF HasDir, DirsNamed
<1>6. row = [name |-> row.name, flags |-> row.flags, created |-> row.created,
             updated |-> row.updated] /\ row.name = name
  BY DEF Dir
<1> HIDE DEF dirs, id, row
<1>7. DirsSound(dirs)
  <2>1. DOMAIN dirs \subseteq Nat \ {0} /\ IsFiniteSet(DOMAIN dirs)
    BY <1>2, <1>4, FS_AddElement DEF TablesSound, DirsSound
  <2>2. \A e \in DOMAIN dirs :
           dirs[e] = [name |-> dirs[e].name, flags |-> dirs[e].flags,
                      created |-> dirs[e].created, updated |-> dirs[e].updated]
    BY <1>4, <1>6 DEF TablesSound, DirsSound
  <2>3. \A e, f \in DOMAIN dirs : dirs[e].name = dirs[f].name => e = f
    BY <1>4, <1>5, <1>6 DEF TablesSound, DirsSound
  <2> QED BY <2>1, <2>2, <2>3, <1>4 DEF TablesSound, DirsSound
<1>8. DirsFollow(d.dirs, dirs)
  BY <1>4 DEF DirsFollow, TablesSound, DirsSound
<1>9. ItemsHoused(d.items, dirs)
  BY <1>4 DEF ItemsHoused, TablesSound
<1> QED BY <1>1, <1>7, <1>8, <1>9, DirsRule

(***************************************************************************)
(* update_dir: the new name is free or its own, and it spares the vault's  *)
(* own two.                                                                *)
(***************************************************************************)
LEMMA UpdateDirFollows ==
    ASSUME NEW d, TablesSound(d), NEW name, NEW newName, NEW now,
           UpdateDir(d, name, newName, now).status = "ok"
    PROVE  Grows(d, UpdateDir(d, name, newName, now).db, now)
<1> DEFINE id == DirId(d, name)
           row == [d.dirs[id] EXCEPT !.name = newName, !.updated = now]
           dirs == [d.dirs EXCEPT ![id] = row]
<1>1. /\ HasPublicDir(d, name)
      /\ HasDir(d, newName) => newName = name
      /\ UpdateDir(d, name, newName, now).db
            = [d EXCEPT !.dirs[id].name = newName, !.dirs[id].updated = now]
  BY DEF UpdateDir, Outcome, Done
<1>2. id \in DOMAIN d.dirs /\ id \notin {1, 2} /\ d.dirs[id].name = name
  BY <1>1, PublicDir, NamedDir DEF TablesSound
<1>3. UpdateDir(d, name, newName, now).db = [d EXCEPT !.dirs = dirs]
  BY <1>1, <1>2 DEF TablesSound
<1>4. /\ DOMAIN dirs = DOMAIN d.dirs
      /\ dirs[id] = row
      /\ \A e \in DOMAIN d.dirs : e # id => dirs[e] = d.dirs[e]
  BY <1>2
<1>5. \A e \in DOMAIN d.dirs : e # id => d.dirs[e].name # newName
  BY <1>1, <1>2 DEF HasDir, DirsNamed, TablesSound, DirsSound
<1>6. row = [name |-> row.name, flags |-> row.flags, created |-> row.created,
             updated |-> row.updated] /\ row.name = newName
  <2> DEFINE old == d.dirs[id]
  <2>1. old = [name |-> old.name, flags |-> old.flags, created |-> old.created,
               updated |-> old.updated]
    BY <1>2 DEF TablesSound, DirsSound
  <2>2. row = [old EXCEPT !.name = newName, !.updated = now]
    OBVIOUS
  <2> HIDE DEF old, row
  <2>3. row = [name |-> newName, flags |-> old.flags, created |-> old.created, updated |-> now]
    BY <2>1, <2>2
  <2> QED BY <2>3
<1> HIDE DEF dirs, row, id
<1>7. DirsSound(dirs)
  <2>2. \A e \in DOMAIN dirs :
           dirs[e] = [name |-> dirs[e].name, flags |-> dirs[e].flags,
                      created |-> dirs[e].created, updated |-> dirs[e].updated]
    BY <1>4, <1>6 DEF TablesSound, DirsSound
  <2>3. \A e, f \in DOMAIN dirs : dirs[e].name = dirs[f].name => e = f
    BY <1>4, <1>5, <1>6 DEF TablesSound, DirsSound
  <2> QED BY <2>2, <2>3, <1>2, <1>4 DEF TablesSound, DirsSound
<1>8. DirsFollow(d.dirs, dirs)
  BY <1>2, <1>4 DEF DirsFollow, TablesSound, DirsSound
<1>9. ItemsHoused(d.items, dirs)
  BY <1>4 DEF ItemsHoused, TablesSound
<1> QED BY <1>3, <1>7, <1>8, <1>9, DirsRule

(***************************************************************************)
(* delete_dir: the directory is empty, so no item is without one.          *)
(***************************************************************************)
LEMMA DeleteDirFollows ==
    ASSUME NEW d, TablesSound(d), NEW name, NEW now,
           DeleteDir(d, name).status = "ok"
    PROVE  Grows(d, DeleteDir(d, name).db, now)
<1> DEFINE id == DirId(d, name)
           dirs == Without(d.dirs, {id})
<1>1. /\ HasPublicDir(d, name) /\ ItemsIn(d, id) = {}
      /\ DeleteDir(d, name).db = [d EXCEPT !.dirs = dirs]
  BY DEF DeleteDir, Outcome, Done, TablesSound
<1>2. id \notin {1, 2}
  BY <1>1, PublicDir DEF TablesSound
<1>3. /\ DOMAIN dirs = DOMAIN d.dirs \ {id}
      /\ \A e \in DOMAIN dirs : dirs[e] = d.dirs[e]
  BY DEF Without
<1> HIDE DEF dirs, id
<1>4. DirsSound(dirs)
  <2>1. DOMAIN dirs \subseteq Nat \ {0} /\ IsFiniteSet(DOMAIN dirs)
    BY <1>3, FS_Subset DEF TablesSound, DirsSound
  <2> QED BY <2>1, <1>2, <1>3 DEF TablesSound, DirsSound
<1>5. DirsFollow(d.dirs, dirs)
  BY <1>2, <1>3 DEF DirsFollow, TablesSound, DirsSound
<1>6. ItemsHoused(d.items, dirs)
  BY <1>1, <1>3 DEF ItemsHoused, ItemsIn, TablesSound
<1> QED BY <1>1, <1>4, <1>5, <1>6, DirsRule

-----------------------------------------------------------------------------
(***************************************************************************)
(* What a request attaches to what the item keeps: no file is attached     *)
(* twice, and all have rows.                                               *)
(***************************************************************************)
LEMMA AttachedFit ==
    ASSUME NEW d, NEW base, FilesFit(base, d.files), NEW pairs, IsList(pairs), ~BadFiles(pairs),
           NEW S, AttachStatus(d, Without(base, S), AsFunction(pairs)) = "ok"
    PROVE  FilesFit(Override(Without(base, S), AsFunction(pairs)), d.files)
<1> DEFINE kept == Without(base, S)
           claimed == AsFunction(pairs)
           files == Override(kept, claimed)
<1>1. \A f, g \in DOMAIN claimed : claimed[f] = claimed[g] => f = g
  BY AsFunctionInjective DEF BadFiles
<1>2. /\ DOMAIN kept \subseteq DOMAIN base
      /\ \A f \in DOMAIN kept : kept[f] = base[f]
  BY DEF Without
<1> HIDE DEF kept, claimed
<1>3. Range(claimed) \subseteq d.files /\ Range(kept) \cap Range(claimed) = {}
  BY DEF AttachStatus, kept, claimed
<1>4. Range(kept) \subseteq d.files
  BY <1>2 DEF Range, FilesFit
<1>5. /\ DOMAIN files = DOMAIN kept \cup DOMAIN claimed
      /\ \A f \in DOMAIN files : files[f] = IF f \in DOMAIN claimed THEN claimed[f] ELSE kept[f]
  BY DEF Override
<1>6. \A f \in DOMAIN kept, g \in DOMAIN claimed : kept[f] # claimed[g]
  BY <1>3 DEF Range
<1> HIDE DEF files
<1>7. Range(files) \subseteq d.files
  BY <1>3, <1>4, <1>5 DEF Range
<1>8. \A f, g \in DOMAIN files : files[f] = files[g] => f = g
  BY <1>1, <1>2, <1>5, <1>6 DEF FilesFit
<1>9. FilesFit(files, d.files)
  BY <1>7, <1>8 DEF FilesFit
<1> QED BY <1>9 DEF files, kept, claimed

(***************************************************************************)
(* The part that create_item and copy_item share adds a sound item.        *)
(***************************************************************************)
LEMMA CreateFromFollows ==
    ASSUME NEW d, TablesSound(d), NEW dir, DirId(d, dir) \in DOMAIN d.dirs \ {2}, NEW name,
           ~HasItem(d, dir, name),
           NEW base, FilesFit(base.files, d.files),
           NEW request, IsList(request.files), NEW now \in Nat,
           CreateFrom(d, dir, name, base, request, now).status = "ok"
    PROVE  Grows(d, CreateFrom(d, dir, name, base, request, now).db, now)
<1> DEFINE fields  == Override(base.fields, AsFunction(request.fields))
           claimed == AsFunction(request.files)
           kept    == Without(base.files, DOMAIN claimed)
           files   == Override(kept, claimed)
           row     == [dir |-> DirId(d, dir), name |-> name, flags |-> {},
                       created |-> now, updated |-> now, oldest |-> 1, latest |-> 1,
                       versions |-> FirstVersion(fields, files, now)]
           e       == [d EXCEPT !.items = With(@, NewRowId(@), row)]
<1>1. ~BadFiles(request.files) /\ AttachStatus(d, kept, claimed) = "ok"
      /\ ~Clash(fields, files)
      /\ CreateFrom(d, dir, name, base, request, now).db = e
  <2>1. CreateFrom(d, dir, name, base, request, now) =
            IF BadFields(request.fields) \/ BadFiles(request.files) \/ Clash(fields, files)
            THEN Outcome("bad_request", d)
            ELSE IF AttachStatus(d, kept, claimed) # "ok"
            THEN Outcome(AttachStatus(d, kept, claimed), d)
            ELSE Done(e)
    BY DEF CreateFrom
  <2> HIDE DEF e, fields, claimed, kept, files
  <2> QED BY <2>1 DEF Outcome, Done
<1>2. FilesFit(files, d.files)
  <2> HIDE DEF fields
  <2> QED BY <1>1, AttachedFit
<1>a. IsFunction(fields)
  BY DEF IsFunction, Override
<1> HIDE DEF fields, files, claimed, kept
<1>3. ItemSound(row, d.files)
  <2>1. /\ DOMAIN row.versions = {1}
        /\ row.versions[1] = [created |-> now, fields |-> fields, files |-> files]
    BY DEF FirstVersion
  <2>2. VersionSound(row.versions[1], d.files)
    BY <2>1, <1>1, <1>2, <1>a DEF VersionSound
  <2>3. IsFiniteSet(DOMAIN row.versions)
    BY ZenonT(90), <2>1, FS_Singleton
  <2>4. row.latest = 1 /\ row.oldest = 1 /\ row.updated = now /\ row.flags = {}
    OBVIOUS
  <2>5. row = [dir |-> row.dir, name |-> row.name, flags |-> row.flags,
               created |-> row.created, updated |-> row.updated,
               oldest |-> row.oldest, latest |-> row.latest, versions |-> row.versions]
    OBVIOUS
  <2> HIDE DEF row
  <2> QED BY <2>1, <2>2, <2>3, <2>4, <2>5 DEF ItemSound
<1>4. row.dir \in DOMAIN d.dirs \ {2} /\ row.updated = now
  OBVIOUS
<1>b. \A i \in DOMAIN d.items : ~SamePath(d.items[i], row)
  BY DEF HasItem, ItemsNamed, SamePath
<1>5. Grows(d, e, now)
  <2> HIDE DEF row
  <2> QED BY <1>3, <1>4, <1>b, AddRule
<1> QED BY <1>1, <1>5

(***************************************************************************)
(* create_item adds a sound item in a directory that may be written to.    *)
(***************************************************************************)
LEMMA CreateItemFollows ==
    ASSUME NEW d, TablesSound(d), NEW dir, NEW name,
           NEW request, IsList(request.files), NEW now \in Nat,
           CreateItem(d, dir, name, request, now).status = "ok"
    PROVE  Grows(d, CreateItem(d, dir, name, request, now).db, now)
<1>1. /\ WritableDir(d, dir) = "ok" /\ ~HasItem(d, dir, name)
      /\ CreateItem(d, dir, name, request, now)
            = CreateFrom(d, dir, name, NoBase, request, now)
  BY DEF CreateItem, Outcome
<1>2. DirId(d, dir) \in DOMAIN d.dirs \ {2}
  BY <1>1, OpenDir DEF TablesSound
<1>3. FilesFit(NoBase.files, d.files)
  BY DEF FilesFit, NoBase, None, Range
<1> QED BY <1>1, <1>2, <1>3, CreateFromFollows

(***************************************************************************)
(* What the latest version of an item has attached may be attached to a    *)
(* copy.                                                                   *)
(***************************************************************************)
LEMMA LatestFit ==
    ASSUME NEW d, TablesSound(d), NEW i \in DOMAIN d.items
    PROVE  FilesFit(SourceFiles(d.items[i]), d.files)
BY DEF TablesSound, ItemsSound, ItemSound, VersionSound, SourceFiles, Latest

(***************************************************************************)
(* copy_item adds a sound item with what its source shows.                 *)
(***************************************************************************)
LEMMA CopyItemFollows ==
    ASSUME NEW d, TablesSound(d), NEW dir, NEW name, NEW srcDir, NEW src,
           NEW request, IsList(request.files), NEW now \in Nat,
           CopyItem(d, dir, name, srcDir, src, request, now).status = "ok"
    PROVE  Grows(d, CopyItem(d, dir, name, srcDir, src, request, now).db, now)
<1> DEFINE source == d.items[ItemId(d, srcDir, src)]
           base   == [fields |-> SourceFields(source), files |-> SourceFiles(source)]
<1>1. /\ WritableDir(d, dir) = "ok" /\ HasPublicItem(d, srcDir, src)
      /\ ~HasItem(d, dir, name)
      /\ CopyItem(d, dir, name, srcDir, src, request, now)
            = CreateFrom(d, dir, name, base, request, now)
  BY DEF CopyItem, Outcome
<1>2. DirId(d, dir) \in DOMAIN d.dirs \ {2}
  BY <1>1, OpenDir DEF TablesSound
<1>3. FilesFit(base.files, d.files)
  BY <1>1, NamedItem, LatestFit DEF HasPublicItem
<1> HIDE DEF base
<1> QED BY <1>1, <1>2, <1>3, CreateFromFollows

-----------------------------------------------------------------------------
(***************************************************************************)
(* A new version gets the number after the latest, is the latest, and      *)
(* leaves those before it alone.                                           *)
(***************************************************************************)
LEMMA AddVersionSound ==
    ASSUME NEW item, NEW F, ItemSound(item, F), NEW fields, IsFunction(fields),
           NEW files, FilesFit(files, F), ~Clash(fields, files), NEW now \in Nat
    PROVE  /\ ItemSound(AddVersion(item, fields, files, now), F)
           /\ ItemFollows(item, AddVersion(item, fields, files, now), now)
           /\ AddVersion(item, fields, files, now).dir = item.dir
           /\ SamePath(item, AddVersion(item, fields, files, now))
           /\ DOMAIN item.versions \subseteq DOMAIN AddVersion(item, fields, files, now).versions
<1> DEFINE n == item.latest + 1
           version == [created |-> now, fields |-> fields, files |-> files]
           versions == With(item.versions, n, version)
           new == AddVersion(item, fields, files, now)
<1>1. new = [dir |-> item.dir, name |-> item.name, flags |-> item.flags,
             created |-> item.created, updated |-> now,
             oldest |-> item.oldest, latest |-> n, versions |-> versions]
  <2>1. new = [item EXCEPT !.versions = versions, !.latest = n, !.updated = now]
    BY DEF AddVersion, NextVersion, ItemSound
  <2> HIDE DEF new, versions, n
  <2> QED BY <2>1 DEF ItemSound
<1>2. item.latest \in Nat /\ n \in Nat \ {0} /\ n > item.latest
  BY DEF ItemSound
<1>3. n \notin DOMAIN item.versions
  <2> HIDE DEF n
  <2> QED BY <1>2 DEF ItemSound
<1>4. /\ DOMAIN versions = DOMAIN item.versions \cup {n}
      /\ versions[n] = version
      /\ \A v \in DOMAIN item.versions : versions[v] = item.versions[v]
  BY <1>3 DEF With
<1>5. VersionSound(version, F)
  BY DEF VersionSound
<1> HIDE DEF version, versions, n, new
<1>6. new.dir = item.dir /\ new.updated = now /\ new.latest = n /\ new.oldest = item.oldest
      /\ new.versions = versions /\ new.flags = item.flags /\ new.name = item.name
  BY <1>1
<1>7. new = [dir |-> new.dir, name |-> new.name, flags |-> new.flags,
             created |-> new.created, updated |-> new.updated,
             oldest |-> new.oldest, latest |-> new.latest, versions |-> new.versions]
  BY <1>1
<1>8. IsFiniteSet(DOMAIN versions)
  BY <1>4, FS_AddElement DEF ItemSound
<1>9. \A v \in DOMAIN versions : v \in Nat \ {0} /\ v <= n /\ VersionSound(versions[v], F)
  BY <1>2, <1>4, <1>5 DEF ItemSound
<1>10. ItemSound(new, F)
  BY <1>4, <1>6, <1>7, <1>8, <1>9 DEF ItemSound
<1>11. ItemFollows(item, new, now)
  BY <1>2, <1>4, <1>6 DEF ItemFollows
<1> QED BY <1>4, <1>6, <1>10, <1>11 DEF new, SamePath

(***************************************************************************)
(* update_item adds a version to an item that is not in the Trash or       *)
(* Internal.                                                               *)
(***************************************************************************)
LEMMA UpdateItemFollows ==
    ASSUME NEW d, TablesSound(d), NEW dir, NEW name,
           NEW request, IsList(request.files), NEW now \in Nat,
           UpdateItem(d, dir, name, request, now).status = "ok"
    PROVE  Grows(d, UpdateItem(d, dir, name, request, now).db, now)
<1> DEFINE id      == ItemId(d, dir, name)
           fields  == MergedFields(d.items[id], request)
           claimed == AsFunction(request.files)
           kept    == Without(SourceFiles(d.items[id]), DOMAIN claimed \cup request.dropFiles)
           files   == Override(kept, claimed)
           row     == AddVersion(d.items[id], fields, files, now)
           e       == [d EXCEPT !.items[id] = AddVersion(@, fields, files, now)]
<1>1. /\ OverwriteableDir(d, dir) = "ok" /\ HasPublicItem(d, dir, name)
      /\ ~BadFiles(request.files) /\ AttachStatus(d, kept, claimed) = "ok"
      /\ ~Clash(fields, files)
      /\ UpdateItem(d, dir, name, request, now).db = e
  <2>1. UpdateItem(d, dir, name, request, now) =
            IF OverwriteableDir(d, dir) # "ok" THEN Outcome(OverwriteableDir(d, dir), d)
            ELSE IF ~HasPublicItem(d, dir, name) THEN Outcome("not_found", d)
            ELSE IF MergeRefused(request) \/ Clash(fields, files)
            THEN Outcome("bad_request", d)
            ELSE IF AttachStatus(d, kept, claimed) # "ok"
            THEN Outcome(AttachStatus(d, kept, claimed), d)
            ELSE Done(e)
    BY DEF UpdateItem
  <2> HIDE DEF e, fields, claimed, kept, files
  <2> QED BY <2>1 DEF Outcome, Done, MergeRefused
<1>2. id \in DOMAIN d.items /\ d.items[id].dir \in DOMAIN d.dirs \ {1, 2}
  BY <1>1, NamedItem, OpenDir DEF HasPublicItem, TablesSound
<1>3. FilesFit(files, d.files)
  <2>1. FilesFit(SourceFiles(d.items[id]), d.files)
    BY <1>2, LatestFit
  <2> HIDE DEF fields, id
  <2> QED BY <1>1, <2>1, AttachedFit
<1>4. e = [d EXCEPT !.items = [@ EXCEPT ![id] = row]]
  BY <1>2 DEF TablesSound
<1>a. IsFunction(fields)
  BY DEF IsFunction, MergedFields, Override
<1> HIDE DEF fields, files, claimed, kept, id, e
<1>5. ItemSound(d.items[id], d.files)
  BY <1>2 DEF TablesSound, ItemsSound
<1>6. /\ ItemSound(row, d.files) /\ ItemFollows(d.items[id], row, now)
      /\ row.dir \in DOMAIN d.dirs \ {2}
      /\ DOMAIN d.items[id].versions \subseteq DOMAIN row.versions
      /\ SamePath(d.items[id], row)
  BY <1>1, <1>2, <1>3, <1>5, <1>a, AddVersionSound
<1> HIDE DEF row
<1> QED BY <1>1, <1>2, <1>4, <1>6, ChangeRule

(***************************************************************************)
(* restore_version adds a version like an old one.                         *)
(***************************************************************************)
LEMMA RestoreVersionFollows ==
    ASSUME NEW d, TablesSound(d), NEW dir, NEW name, NEW version, NEW now \in Nat,
           RestoreVersion(d, dir, name, version, now).status = "ok"
    PROVE  Grows(d, RestoreVersion(d, dir, name, version, now).db, now)
<1> DEFINE id      == ItemId(d, dir, name)
           item    == d.items[id]
           old     == item.versions[version]
           row     == AddVersion(d.items[id], old.fields, old.files, now)
           e       == [d EXCEPT !.items[id] = AddVersion(@, old.fields, old.files, now)]
<1>1. /\ OverwriteableDir(d, dir) = "ok" /\ HasPublicItem(d, dir, name)
      /\ version \in DOMAIN item.versions
      /\ RestoreVersion(d, dir, name, version, now).db = e
  <2>1. RestoreVersion(d, dir, name, version, now) =
            IF OverwriteableDir(d, dir) # "ok" THEN Outcome(OverwriteableDir(d, dir), d)
            ELSE IF ~HasPublicItem(d, dir, name) THEN Outcome("not_found", d)
            ELSE IF version = item.latest THEN Outcome("bad_request", d)
            ELSE IF version \notin DOMAIN item.versions THEN Outcome("not_found", d)
            ELSE Done(e)
    BY DEF RestoreVersion
  <2> HIDE DEF e, item
  <2> QED BY <2>1 DEF Outcome, Done
<1>2. id \in DOMAIN d.items /\ d.items[id].dir \in DOMAIN d.dirs \ {1, 2}
  BY <1>1, NamedItem, OpenDir DEF HasPublicItem, TablesSound
<1>3. e = [d EXCEPT !.items = [@ EXCEPT ![id] = row]]
  BY <1>2 DEF TablesSound
<1>4. ItemSound(item, d.files)
  BY <1>2 DEF TablesSound, ItemsSound
<1> HIDE DEF id, e
<1>5. FilesFit(old.files, d.files) /\ IsFunction(old.fields)
      /\ ~Clash(old.fields, old.files)
  BY <1>1, <1>4 DEF ItemSound, VersionSound
<1>6. /\ ItemSound(row, d.files) /\ ItemFollows(item, row, now)
      /\ row.dir \in DOMAIN d.dirs \ {2}
      /\ DOMAIN item.versions \subseteq DOMAIN row.versions
      /\ SamePath(item, row)
  <2> HIDE DEF old
  <2> QED BY <1>2, <1>4, <1>5, AddVersionSound
<1> HIDE DEF row
<1> QED BY <1>1, <1>2, <1>3, <1>6, ChangeRule

(***************************************************************************)
(* move_item moves the row with all its versions, to a directory that may  *)
(* be written to and a name that is free there.                            *)
(***************************************************************************)
LEMMA MoveItemFollows ==
    ASSUME NEW d, TablesSound(d), NEW dir, NEW name, NEW srcDir, NEW src,
           NEW request, NEW now \in Nat,
           MoveItem(d, dir, name, srcDir, src, request, now).status = "ok"
    PROVE  Grows(d, MoveItem(d, dir, name, srcDir, src, request, now).db, now)
<1> DEFINE id   == ItemId(d, srcDir, src)
           item == d.items[id]
           to   == DirId(d, dir)
           row  == [item EXCEPT !.dir = to, !.name = name, !.updated = now]
           e    == [d EXCEPT !.items[id] =
                        [@ EXCEPT !.dir = to, !.name = name, !.updated = now]]
<1>1. /\ WritableDir(d, dir) = "ok" /\ WritableDir(d, srcDir) = "ok"
      /\ HasPublicItem(d, srcDir, src) /\ ~HasItem(d, dir, name)
      /\ MoveItem(d, dir, name, srcDir, src, request, now).db = e
  <2>1. MoveItem(d, dir, name, srcDir, src, request, now) =
            IF ~ValidName(name) THEN Outcome("bad_request", d)
            ELSE IF WritableDir(d, dir) # "ok" THEN Outcome(WritableDir(d, dir), d)
            ELSE IF WritableDir(d, srcDir) # "ok" THEN Outcome(WritableDir(d, srcDir), d)
            ELSE IF ~HasPublicItem(d, srcDir, src) THEN Outcome("not_found", d)
            ELSE IF request.fields \o request.files # <<>> THEN Outcome("bad_request", d)
            ELSE IF HasItem(d, dir, name) THEN Outcome("conflict", d)
            ELSE Done(e)
    BY DEF MoveItem
  <2> HIDE DEF e
  <2> QED BY <2>1 DEF Outcome, Done
<1>2. id \in DOMAIN d.items /\ d.items[id].dir # 2 /\ to \in DOMAIN d.dirs \ {2}
  BY <1>1, NamedItem, OpenDir DEF HasPublicItem, TablesSound
<1>3. e = [d EXCEPT !.items = [@ EXCEPT ![id] = row]]
  BY <1>2 DEF TablesSound
<1>4. ItemSound(item, d.files)
  BY <1>2 DEF TablesSound, ItemsSound
<1>a. \A j \in DOMAIN d.items : ~(d.items[j].dir = to /\ d.items[j].name = name)
  BY <1>1 DEF HasItem, ItemsNamed
<1>b. item.flags = {}
  BY <1>2, <1>4 DEF ItemSound
<1> HIDE DEF id, e, to
<1>5. row = [dir |-> to, name |-> name, flags |-> item.flags,
             created |-> item.created, updated |-> now,
             oldest |-> item.oldest, latest |-> item.latest, versions |-> item.versions]
  <2>1. row = [item EXCEPT !.dir = to, !.name = name, !.updated = now]
    OBVIOUS
  <2> HIDE DEF item, row
  <2> QED BY <1>4, <2>1 DEF ItemSound
<1> HIDE DEF row
<1>6. /\ row.dir = to /\ row.updated = now /\ row.latest = item.latest
      /\ row.name = name /\ row.flags = item.flags
      /\ row.oldest = item.oldest /\ row.versions = item.versions
      /\ row = [dir |-> row.dir, name |-> row.name, flags |-> row.flags,
                created |-> row.created, updated |-> row.updated,
                oldest |-> row.oldest, latest |-> row.latest, versions |-> row.versions]
  <2> HIDE DEF item
  <2> QED BY <1>5
<1>7. ItemSound(row, d.files)
  <2> HIDE DEF item
  <2> QED BY <1>4, <1>6, <1>b DEF ItemSound
<1>8. ItemFollows(item, row, now)
  <2> HIDE DEF item
  <2> QED BY <1>6 DEF ItemFollows
<1>9. \A j \in DOMAIN d.items : ~SamePath(d.items[j], row)
  BY <1>6, <1>a DEF SamePath
<1> QED BY <1>1, <1>2, <1>3, <1>6, <1>7, <1>8, <1>9, ChangeRule

(***************************************************************************)
(* delete_item takes one item and leaves the others alone.                 *)
(***************************************************************************)
LEMMA DeleteItemFollows ==
    ASSUME NEW d, TablesSound(d), NEW dir, NEW name, NEW now,
           DeleteItem(d, dir, name).status = "ok"
    PROVE  /\ Follows(d, DeleteItem(d, dir, name).db, now)
           /\ Spares(d.items, DeleteItem(d, dir, name).db.items)
<1> DEFINE id == ItemId(d, dir, name)
           e  == [d EXCEPT !.items = Without(@, {id})]
<1>1. /\ WritableDir(d, dir) = "ok" /\ HasPublicItem(d, dir, name)
      /\ DeleteItem(d, dir, name).db = e
  BY DEF DeleteItem, Outcome, Done
<1>2. d.items[id].dir # 2
  BY <1>1, NamedItem, OpenDir DEF HasPublicItem, TablesSound
<1>3. \A i \in DOMAIN d.items : d.items[i].dir = 2 => i \notin {id}
  BY <1>2
<1>4. e = WithItems(d, Without(d.items, {id}))
  BY DEF TablesSound, WithItems
<1> HIDE DEF e, id
<1>5. /\ Follows(d, e, now)
      /\ Spares(d.items, e.items)
  BY <1>3, <1>4, DropRule
<1> QED BY <1>1, <1>5

-----------------------------------------------------------------------------
(***************************************************************************)
(* The cleanup of one item's versions keeps the latest, points to the      *)
(* oldest of those left, and does nothing to an item with one version.     *)
(***************************************************************************)
LEMMA CleanItemSound ==
    ASSUME NEW item, NEW F, ItemSound(item, F), NEW now \in Nat
    PROVE  /\ ItemSound(CleanItem(item, now), F)
           /\ ItemFollows(item, CleanItem(item, now), now)
           /\ CleanItem(item, now).dir = item.dir
           /\ SamePath(CleanItem(item, now), item)
           /\ DOMAIN item.versions = {item.latest} => CleanItem(item, now) = item
           /\ DOMAIN CleanItem(item, now).versions \subseteq DOMAIN item.versions
           /\ DOMAIN item.versions \ DOMAIN CleanItem(item, now).versions
              \subseteq ExpiredVersions(item, now)
<1> DEFINE gone == ExpiredVersions(item, now)
           kept == Without(item.versions, gone)
           new  == CleanItem(item, now)
<1>1. item.latest \notin gone /\ gone \subseteq DOMAIN item.versions
  BY DEF ExpiredVersions
<1>2. CASE gone = {}
  <2>1. new = item
    BY <1>2 DEF CleanItem
  <2> QED BY <2>1, ItemFollowsItself DEF SamePath
<1>3. CASE gone # {}
  <2>1. /\ DOMAIN kept = DOMAIN item.versions \ gone
        /\ \A v \in DOMAIN kept : kept[v] = item.versions[v]
    BY DEF Without
  <2>2. new = [item EXCEPT !.versions = kept, !.oldest = OldestOf(kept)]
    BY <1>3 DEF CleanItem
  <2> HIDE DEF gone, kept, new
  <2>3. new = [dir |-> item.dir, name |-> item.name, flags |-> item.flags,
               created |-> item.created, updated |-> item.updated,
               oldest |-> OldestOf(kept), latest |-> item.latest, versions |-> kept]
    BY <2>2 DEF ItemSound
  <2>4. item.latest \in DOMAIN kept
    BY <1>1, <2>1 DEF ItemSound
  <2>5. DOMAIN kept \subseteq Nat /\ IsFiniteSet(DOMAIN kept)
    BY <2>1, FS_Subset DEF ItemSound
  <2>6. \A v \in DOMAIN kept :
            v \in Nat \ {0} /\ v <= item.latest /\ VersionSound(kept[v], F)
    BY <2>1 DEF ItemSound
  <2>7. OldestOf(kept) \in DOMAIN kept
    BY <2>4, <2>5, <2>6, OldestExists DEF VersionSound
  <2>8. /\ new.dir = item.dir /\ new.updated = item.updated /\ new.latest = item.latest
        /\ new.name = item.name /\ new.created = item.created /\ new.flags = item.flags
        /\ new.oldest = OldestOf(kept) /\ new.versions = kept
        /\ new = [dir |-> new.dir, name |-> new.name, flags |-> new.flags,
                  created |-> new.created, updated |-> new.updated,
                  oldest |-> new.oldest, latest |-> new.latest, versions |-> new.versions]
    BY <2>3
  <2>9. ItemSound(new, F)
    BY <2>4, <2>5, <2>6, <2>7, <2>8 DEF ItemSound
  <2>10. ItemFollows(item, new, now)
    BY <2>1, <2>8 DEF ItemFollows
  <2>11. DOMAIN item.versions # {item.latest}
    BY <1>1, <1>3
  <2>12. DOMAIN item.versions \ DOMAIN new.versions \subseteq gone
    BY <2>1, <2>8
  <2> QED BY <2>1, <2>8, <2>9, <2>10, <2>11, <2>12 DEF new, gone, SamePath
<1> QED BY <1>2, <1>3

(***************************************************************************)
(* The cleanup commits: no pointer is left dangling; the items it takes    *)
(* are those that expired in the Trash, and the versions it takes of       *)
(* others have expired.                                                    *)
(***************************************************************************)
LEMMA CleanUpFollows ==
    ASSUME NEW d, TablesSound(d), NEW now \in Nat
    PROVE  /\ CleanUp(d, now).status = "ok"
           /\ Follows(d, CleanUp(d, now).db, now)
           /\ \A i \in DOMAIN d.items \ DOMAIN CleanUp(d, now).db.items :
                  i \in ExpiredItems(d, now)
           /\ \A i \in DOMAIN d.items \cap DOMAIN CleanUp(d, now).db.items :
                  DOMAIN d.items[i].versions \ DOMAIN CleanUp(d, now).db.items[i].versions
                  \subseteq ExpiredVersions(d.items[i], now)
<1> DEFINE kept  == Without(d.items, ExpiredItems(d, now))
           items == [i \in DOMAIN kept |-> CleanItem(kept[i], now)]
           e     == [d EXCEPT !.items = items]
<1>1. CleanUp(d, now) = IF PointersValid(e) THEN Done(e) ELSE Outcome("internal", d)
  BY DEF CleanUp
<1>2. DOMAIN items = DOMAIN d.items \ ExpiredItems(d, now)
  BY DEF Without
<1>3. \A i \in DOMAIN items : i \in DOMAIN d.items /\ items[i] = CleanItem(d.items[i], now)
  BY DEF Without
<1>4. \A i \in ExpiredItems(d, now) : d.items[i].dir # 2
  BY VaultAssumption DEF ExpiredItems, TablesSound, DirsSound
<1>5. e = [dirs |-> d.dirs, items |-> items, files |-> d.files]
  <2> HIDE DEF items
  <2> QED BY DEF TablesSound
<1>6. e.items = items
  BY <1>5
<1> HIDE DEF items, e
<1>7. \A i \in DOMAIN items :
        /\ i \in DOMAIN d.items
        /\ ItemSound(items[i], d.files)
        /\ ItemFollows(d.items[i], items[i], now)
        /\ items[i].dir = d.items[i].dir
        /\ SamePath(items[i], d.items[i])
        /\ DOMAIN items[i].versions \subseteq DOMAIN d.items[i].versions
        /\ d.items[i].dir = 2 => items[i] = d.items[i]
        /\ DOMAIN d.items[i].versions \ DOMAIN items[i].versions
           \subseteq ExpiredVersions(d.items[i], now)
  <2> TAKE i \in DOMAIN items
  <2>1. i \in DOMAIN d.items /\ items[i] = CleanItem(d.items[i], now)
    BY <1>3
  <2>2. ItemSound(d.items[i], d.files)
    BY <2>1 DEF TablesSound, ItemsSound
  <2>3. d.items[i].dir = 2 => DOMAIN d.items[i].versions = {d.items[i].latest}
    BY <2>1 DEF TablesSound, KeysFixed
  <2> QED BY <2>1, <2>2, <2>3, CleanItemSound
<1>8. ItemsSound(items, d.files)
  <2>1. DOMAIN items \subseteq Nat /\ IsFiniteSet(DOMAIN items)
    BY <1>2, FS_Subset DEF TablesSound, ItemsSound
  <2>2. PathsUnique(items)
    BY <1>7 DEF PathsUnique, SamePath, TablesSound, ItemsSound
  <2> QED BY <2>1, <2>2, <1>7 DEF ItemsSound
<1>9. KeysFixed(items)
  BY <1>7 DEF TablesSound, KeysFixed
<1>10. ItemsFollow(d.items, items, now)
  BY <1>7 DEF ItemsFollow
<1>11. KeysFollow(d.items, items)
  BY <1>2, <1>4, <1>7 DEF KeysFollow
<1>12. e = WithItems(d, items)
  BY DEF e, WithItems
<1>13. Follows(d, e, now)
  <2>1. ItemsHoused(items, d.dirs) /\ TrashFollows(d.items, items)
    BY <1>7 DEF ItemsHoused, TrashFollows, TablesSound
  <2> QED BY <2>1, <1>8, <1>9, <1>10, <1>11, <1>12, ItemsRule
<1>14. PointersValid(e)
  BY <1>6, <1>8 DEF PointersValid, ItemsSound, ItemSound
<1>15. CleanUp(d, now).status = "ok" /\ CleanUp(d, now).db = e
  BY <1>1, <1>14 DEF Done, Outcome
<1> QED BY <1>2, <1>6, <1>7, <1>13, <1>15

(***************************************************************************)
(* Removing orphans takes no file that is attached.                        *)
(***************************************************************************)
LEMMA RemoveOrphansFollows ==
    ASSUME NEW d, TablesSound(d), NEW ids, NEW now
    PROVE  Grows(d, RemoveOrphans(d, ids), now) /\ RemoveOrphans(d, ids).items = d.items
<1> DEFINE files == d.files \ (ids \ AttachedFiles(d))
<1>1. RemoveOrphans(d, ids) = [d EXCEPT !.files = files]
  BY DEF RemoveOrphans, TablesSound
<1>2. AttachedFiles(d) \subseteq d.files
  BY DEF AttachedFiles, VersionsOf, TablesSound, ItemsSound, ItemSound, VersionSound, FilesFit
<1>3. AttachedFiles(d) \subseteq files
  BY <1>2
<1> HIDE DEF files
<1> QED BY <1>1, <1>3, FilesRule

(***************************************************************************)
(* An upload adds a file that nothing has attached yet.                    *)
(***************************************************************************)
LEMMA UploadFollows ==
    ASSUME NEW d, TablesSound(d), NEW f, NEW now
    PROVE  /\ Grows(d, [d EXCEPT !.files = @ \cup {f}], now)
           /\ [d EXCEPT !.files = @ \cup {f}].items = d.items
<1> DEFINE files == d.files \cup {f}
<1>1. AttachedFiles(d) \subseteq files
  BY DEF AttachedFiles, VersionsOf, TablesSound, ItemsSound, ItemSound, VersionSound, FilesFit
<1>2. [d EXCEPT !.files = @ \cup {f}] = [d EXCEPT !.files = files]
  BY DEF TablesSound
<1> HIDE DEF files
<1> QED BY <1>1, <1>2, FilesRule

-----------------------------------------------------------------------------
(***************************************************************************)
(* The clock that dates an item may have been set back since, but the item *)
(* has not been in its place for longer, by the wall clock, than in truth  *)
(* plus what the clock lost. This is what makes the retention period one   *)
(* of real time.                                                           *)
(***************************************************************************)
PlacedSound ==
    /\ DOMAIN placed = DOMAIN db.items
    /\ \A i \in DOMAIN db.items :
           placed[i] \in Nat /\ placed[i] - db.items[i].updated <= real - wall

(***************************************************************************)
(* The invariant of the vault.                                             *)
(***************************************************************************)
VaultInv ==
    /\ TablesSound(db)
    /\ wall \in Nat /\ real \in Nat
    /\ PlacedSound

(***************************************************************************)
(* A new vault is sound: its two directories, its key pair, and Personal.  *)
(***************************************************************************)
THEOREM VaultInit == Init => VaultInv
<1> SUFFICES ASSUME Init PROVE VaultInv
  OBVIOUS
<1> DEFINE dirs == <<Dir(Trash, {"hidden", "denyOverwrite"}, 0),
                     Dir(Internal, {"hidden", "system"}, 0),
                     Dir(Personal, {}, 0)>>
           items == <<KeyRow(KeyItem, {"hidden", "mustauth"}, 0), KeyRow(PublicKeyItem, {}, 0)>>
<1>1. db = [dirs |-> dirs, items |-> items, files |-> {}]
  BY DEF Init, NewVault
<1>2. DOMAIN dirs = 1 .. 3 /\ DOMAIN items = 1 .. 2
  OBVIOUS
<1>3. /\ dirs[1] = [name |-> Trash, flags |-> {"hidden", "denyOverwrite"},
                    created |-> 0, updated |-> 0]
      /\ dirs[2] = [name |-> Internal, flags |-> {"hidden", "system"},
                    created |-> 0, updated |-> 0]
      /\ dirs[3] = [name |-> Personal, flags |-> {}, created |-> 0, updated |-> 0]
  BY DEF Dir
<1>4. ASSUME NEW i \in 1 .. 2
      PROVE  /\ ItemSound(items[i], {})
             /\ items[i].dir = 2 /\ items[i].updated = 0
             /\ items[i].name = IF i = 1 THEN KeyItem ELSE PublicKeyItem
             /\ DOMAIN items[i].versions = {items[i].latest}
  <2>1. \E name, flags :
            /\ items[i] = KeyRow(name, flags, 0)
            /\ name = IF i = 1 THEN KeyItem ELSE PublicKeyItem
            /\ flags = {} \/ flags = {"hidden", "mustauth"}
    <3>1. i = 1 \/ i = 2
      OBVIOUS
    <3> QED BY <3>1
  <2> HIDE DEF items
  <2>a. PICK name, flags :
            /\ items[i] = KeyRow(name, flags, 0)
            /\ name = IF i = 1 THEN KeyItem ELSE PublicKeyItem
            /\ flags = {} \/ flags = {"hidden", "mustauth"}
    BY <2>1, Zenon
  <2> DEFINE row == KeyRow(name, flags, 0)
             version == [created |-> 0, fields |-> [f \in {"key"} |-> name], files |-> None]
  <2>2. /\ row = [dir |-> 2, name |-> name, flags |-> flags, created |-> 0, updated |-> 0,
                  oldest |-> 1, latest |-> 1, versions |-> row.versions]
        /\ DOMAIN row.versions = {1} /\ row.versions[1] = version
    BY DEF KeyRow, FirstVersion
  <2>3. VersionSound(version, {})
    BY DEF VersionSound, FilesFit, None, Range, IsFunction, Clash
  <2> HIDE DEF row, version
  <2>4. IsFiniteSet(DOMAIN row.versions)
    BY <2>2, FS_Singleton
  <2>5. /\ row.dir = 2 /\ row.updated = 0 /\ row.latest = 1 /\ row.oldest = 1
        /\ row.name = name /\ row.flags = flags
        /\ row = [dir |-> row.dir, name |-> row.name, flags |-> row.flags,
                  created |-> row.created, updated |-> row.updated,
                  oldest |-> row.oldest, latest |-> row.latest, versions |-> row.versions]
    BY <2>2
  <2>6. ItemSound(row, {})
    BY <2>2, <2>3, <2>4, <2>5, <2>a DEF ItemSound
  <2>7. items[i] = row
    BY <2>a DEF row
  <2>8. row.name = IF i = 1 THEN KeyItem ELSE PublicKeyItem
    BY <2>a, <2>5
  <2>9. DOMAIN row.versions = {row.latest}
    BY <2>2, <2>5
  <2> QED BY <2>5, <2>6, <2>7, <2>8, <2>9
<1> HIDE DEF dirs, items
<1>5. db.dirs = dirs /\ db.items = items /\ db.files = {}
  BY <1>1
<1>6. IsFiniteSet(1 .. 3) /\ IsFiniteSet(1 .. 2)
  <2>1. \A b \in Int : IsFiniteSet(1 .. b)
    BY FS_Interval
  <2>2. 3 \in Int /\ 2 \in Int
    OBVIOUS
  <2> QED BY <2>1, <2>2, Zenon
<1>7. DirsSound(dirs)
  <2>1. \A d \in 1 .. 3 : d = 1 \/ d = 2 \/ d = 3
    OBVIOUS
  <2>2. \A d \in DOMAIN dirs :
           dirs[d] = [name |-> dirs[d].name, flags |-> dirs[d].flags,
                      created |-> dirs[d].created, updated |-> dirs[d].updated]
    BY <1>2, <1>3, <2>1
  <2>3. \A d, e \in DOMAIN dirs : dirs[d].name = dirs[e].name => d = e
    BY <1>2, <1>3, <2>1, VaultAssumption
  <2> QED BY <1>2, <1>3, <1>6, <2>2, <2>3 DEF DirsSound
<1>8. ItemsSound(items, {}) /\ KeysFixed(items) /\ ItemsHoused(items, dirs)
  <2>1. \A i, j \in DOMAIN items : items[i].name = items[j].name => i = j
    BY <1>2, <1>4, VaultAssumption
  <2>2. PathsUnique(items)
    BY <2>1 DEF PathsUnique, SamePath
  <2> QED BY <2>2, <1>2, <1>4, <1>6 DEF ItemsSound, KeysFixed, ItemsHoused
<1>9. TablesSound(db)
  BY <1>1, <1>5, <1>7, <1>8 DEF TablesSound
<1>10. wall = 0 /\ real = 0 /\ placed = [i \in DOMAIN items |-> 0]
  BY <1>1 DEF Init, NewVault
<1>11. PlacedSound
  BY <1>2, <1>4, <1>5, <1>10 DEF PlacedSound
<1> QED BY <1>9, <1>10, <1>11 DEF VaultInv

-----------------------------------------------------------------------------
(***************************************************************************)
(* An operation that follows the rules leaves a sound vault.               *)
(***************************************************************************)
LEMMA FollowedSound ==
    ASSUME VaultInv, Follows(db, db', wall), placed' = Placed, UNCHANGED <<wall, real>>
    PROVE  VaultInv'
<1>1. TablesSound(db') /\ ItemsFollow(db.items, db'.items, wall)
  BY DEF Follows
<1>2. /\ DOMAIN placed' = DOMAIN db'.items
      /\ \A i \in DOMAIN db'.items : placed'[i] = IF SamePlace(i) THEN placed[i] ELSE real
  BY DEF Placed
<1>3. ASSUME NEW i \in DOMAIN db'.items
      PROVE  placed'[i] \in Nat /\ placed'[i] - db'.items[i].updated <= real - wall
  <2>1. CASE SamePlace(i)
    BY <1>2, <2>1 DEF SamePlace, VaultInv, PlacedSound
  <2>2. CASE ~SamePlace(i)
    <3>1. db'.items[i].updated = wall
      BY <1>1, <2>2 DEF ItemsFollow, ItemFollows, SamePlace
    <3> QED BY <1>2, <2>2, <3>1 DEF VaultInv
  <2> QED BY <2>1, <2>2
<1>4. PlacedSound'
  BY <1>2, <1>3 DEF PlacedSound
<1> QED BY <1>1, <1>4 DEF VaultInv

(***************************************************************************)
(* So does one that touches the rows of files only.                        *)
(***************************************************************************)
LEMMA RefiledSound ==
    ASSUME VaultInv, Follows(db, db', wall), db'.items = db.items,
           UNCHANGED <<wall, real, placed>>
    PROVE  VaultInv'
BY DEF VaultInv, PlacedSound, Follows

(***************************************************************************)
(* The step of HistoryIsAppendOnly.                                        *)
(***************************************************************************)
HistoryStep ==
    \A i \in DOMAIN db.items \cap DOMAIN db'.items :
        \A v \in DOMAIN db'.items[i].versions :
            \/ /\ v \in DOMAIN db.items[i].versions
               /\ db'.items[i].versions[v] = db.items[i].versions[v]
            \/ v > Max(DOMAIN db.items[i].versions)

(***************************************************************************)
(* The step of ReservedStand.                                              *)
(***************************************************************************)
ReservedStep ==
    /\ \A d \in Reserved : d \in DOMAIN db'.dirs /\ db'.dirs[d] = db.dirs[d]
    /\ ItemsIn(db', 2) = ItemsIn(db, 2)
    /\ \A i \in ItemsIn(db, 2) : db'.items[i] = db.items[i]

(***************************************************************************)
(* The latest version has the greatest number an item has.                 *)
(***************************************************************************)
LEMMA LatestIsMax ==
    ASSUME NEW d, TablesSound(d), NEW i \in DOMAIN d.items
    PROVE  d.items[i].latest = Max(DOMAIN d.items[i].versions)
<1> DEFINE S == DOMAIN d.items[i].versions
           n == d.items[i].latest
<1>1. ItemSound(d.items[i], d.files)
  BY DEF TablesSound, ItemsSound
<1>2. S \subseteq Nat /\ IsFiniteSet(S) /\ n \in S /\ \A v \in S : v <= n
  BY <1>1 DEF ItemSound
<1> HIDE DEF S, n
<1>3. Max(S) \in S /\ \A v \in S : v <= Max(S)
  BY <1>2, MaxOfFinite
<1>4. n \in Nat /\ Max(S) \in Nat /\ n <= Max(S) /\ Max(S) <= n
  BY <1>2, <1>3
<1>5. n = Max(S)
  BY <1>4
<1> QED BY <1>5 DEF S, n

(***************************************************************************)
(* Tables that follow others append to their history, and leave the        *)
(* reserved be.                                                            *)
(***************************************************************************)
LEMMA FollowedHistory ==
    ASSUME TablesSound(db), NEW now, Follows(db, db', now)
    PROVE  HistoryStep /\ ReservedStep
<1>1. TablesSound(db') /\ ItemsFollow(db.items, db'.items, now)
      /\ DirsFollow(db.dirs, db'.dirs) /\ KeysFollow(db.items, db'.items)
  BY DEF Follows
<1>2. HistoryStep
  <2> SUFFICES ASSUME NEW i \in DOMAIN db.items \cap DOMAIN db'.items,
                      NEW v \in DOMAIN db'.items[i].versions
               PROVE  \/ /\ v \in DOMAIN db.items[i].versions
                         /\ db'.items[i].versions[v] = db.items[i].versions[v]
                      \/ v > Max(DOMAIN db.items[i].versions)
    BY DEF HistoryStep
  <2>1. ItemFollows(db.items[i], db'.items[i], now)
    BY <1>1 DEF ItemsFollow
  <2>2. db.items[i].latest = Max(DOMAIN db.items[i].versions)
    BY LatestIsMax
  <2> QED BY <2>1, <2>2 DEF ItemFollows
<1>3. ReservedStep
  BY <1>1 DEF ReservedStep, Reserved, DirsFollow, KeysFollow, ItemsIn, TablesSound, DirsSound
<1> QED BY <1>2, <1>3

(***************************************************************************)
(* A sound vault has what RowsSound asks.                                  *)
(***************************************************************************)
LEMMA SoundRows ==
    ASSUME VaultInv
    PROVE  RowsSound
<1>1. PointersValid(db)
  BY DEF VaultInv, TablesSound, ItemsSound, ItemSound, PointersValid
<1>2. \A i \in DOMAIN db.items : db.items[i].latest = Max(DOMAIN db.items[i].versions)
  BY LatestIsMax DEF VaultInv
<1>3. CleanUp(db, wall).status = "ok"
  BY CleanUpFollows DEF VaultInv
<1>4. \A i \in DOMAIN db.items : \A version \in VersionsOf(db, i) : VersionSound(version, db.files)
  BY DEF VaultInv, TablesSound, ItemsSound, ItemSound, VersionsOf
<1>5. AttachedFiles(db) \subseteq db.files
  BY <1>4 DEF AttachedFiles, VersionSound, FilesFit
<1>6. FilesSound
  BY <1>4, <1>5 DEF FilesSound, VersionSound, FilesFit
<1> QED BY <1>1, <1>2, <1>3, <1>6 DEF RowsSound, VersionsSound

(***************************************************************************)
(* The cleanup takes only what was in the Trash for the retention period   *)
(* of real time: what looks expired by a clock that can only have lost     *)
(* time, is.                                                               *)
(***************************************************************************)
LEMMA KeptPromise ==
    ASSUME VaultInv, Clean, NEW i \in DOMAIN db.items \ DOMAIN db'.items
    PROVE  /\ db.dirs[db.items[i].dir].name = Trash
           /\ real - placed[i] >= TrashRetention
<1>1. db' = CleanUp(db, wall).db
  BY DEF Clean, Apply
<1>2. i \in ExpiredItems(db, wall)
  BY <1>1, CleanUpFollows DEF VaultInv
<1>3. /\ db.items[i].updated <= wall - TrashRetention
      /\ db.dirs[db.items[i].dir].name = Trash
  BY <1>2 DEF ExpiredItems, Cutoff
<1>4. /\ placed[i] \in Nat /\ placed[i] - db.items[i].updated <= real - wall
      /\ db.items[i].updated \in Nat /\ wall \in Nat /\ real \in Nat
  BY DEF VaultInv, PlacedSound, TablesSound, ItemsSound, ItemSound
<1> QED BY <1>3, <1>4, VaultAssumption

-----------------------------------------------------------------------------
(***************************************************************************)
(* What an operation on the tables does beside them.                       *)
(***************************************************************************)
Standing == placed' = Placed /\ UNCHANGED <<wall, real>>

(***************************************************************************)
(* A request that was served succeeded, and left the clocks alone.         *)
(***************************************************************************)
LEMMA ApplyStands ==
    ASSUME NEW outcome, Apply(outcome)
    PROVE  outcome.status = "ok" /\ db' = outcome.db /\ Standing
BY DEF Apply, Standing

(***************************************************************************)
(* All requests but deletions only let the vault grow.                     *)
(***************************************************************************)
LEMMA OperationsGrow ==
    ASSUME VaultInv,
           \/ NewDir \/ RenameDir \/ DropDir \/ NewItem \/ NewCopy
           \/ Move \/ Update \/ Restore
    PROVE  Grows(db, db', wall) /\ Standing
<1>1. TablesSound(db) /\ wall \in Nat
  BY DEF VaultInv
<1>2. CASE NewDir
  BY <1>1, <1>2, CreateDirFollows DEF NewDir, Apply, Standing
<1>3. CASE RenameDir
  BY <1>1, <1>3, UpdateDirFollows DEF RenameDir, Apply, Standing
<1>4. CASE DropDir
  BY <1>1, <1>4, DeleteDirFollows DEF DropDir, Apply, Standing
<1>5. CASE NewItem
  BY <1>1, <1>5, CreateItemFollows, RequestAssumption DEF NewItem, Apply, Standing
<1>6. CASE NewCopy
  BY <1>1, <1>6, CopyItemFollows, RequestAssumption DEF NewCopy, Apply, Standing
<1>7. CASE Move
  BY <1>1, <1>7, MoveItemFollows DEF Move, Apply, Standing
<1>8. CASE Update
  BY <1>1, <1>8, UpdateItemFollows, RequestAssumption DEF Update, Apply, Standing
<1>9. CASE Restore
  BY <1>1, <1>9, RestoreVersionFollows DEF Restore, Apply, Standing
<1> QED BY <1>2, <1>3, <1>4, <1>5, <1>6, <1>7, <1>8, <1>9

(***************************************************************************)
(* A deletion leaves all other items alone.                                *)
(***************************************************************************)
LEMMA DeleteStep ==
    ASSUME VaultInv, Delete
    PROVE  /\ Follows(db, db', wall) /\ Standing
           /\ Spares(db.items, db'.items)
<1>1. PICK dir \in DirNames, name \in ItemNames : Apply(DeleteItem(db, dir, name))
  BY DEF Delete
<1>2. DeleteItem(db, dir, name).status = "ok" /\ db' = DeleteItem(db, dir, name).db /\ Standing
  BY <1>1, ApplyStands
<1>3. TablesSound(db)
  BY DEF VaultInv
<1> DEFINE e == DeleteItem(db, dir, name).db
<1>4. /\ Follows(db, e, wall)
      /\ Spares(db.items, e.items)
  BY <1>2, <1>3, DeleteItemFollows
<1>5. db' = e
  BY <1>2
<1> HIDE DEF e
<1> QED BY <1>2, <1>4, <1>5

(***************************************************************************)
(* A cleanup follows the rules.                                            *)
(***************************************************************************)
LEMMA CleanStep ==
    ASSUME VaultInv, Clean
    PROVE  Follows(db, db', wall) /\ Standing
BY CleanUpFollows DEF Clean, Apply, Standing, VaultInv

(***************************************************************************)
(* Uploads and the removal of orphans leave the items alone.               *)
(***************************************************************************)
LEMMA RefileStep ==
    ASSUME VaultInv, Upload \/ CollectOrphan
    PROVE  Grows(db, db', wall) /\ db'.items = db.items /\ UNCHANGED <<wall, real, placed>>
<1>1. CASE Upload
  <2>1. PICK f \in Files : db' = [db EXCEPT !.files = @ \cup {f}] /\ UNCHANGED <<wall, real, placed>>
    BY <1>1 DEF Upload
  <2>2. /\ Grows(db, [db EXCEPT !.files = @ \cup {f}], wall)
        /\ [db EXCEPT !.files = @ \cup {f}].items = db.items
    BY UploadFollows DEF VaultInv
  <2> QED BY <2>1, <2>2
<1>2. CASE CollectOrphan
  BY <1>2, RemoveOrphansFollows DEF CollectOrphan, VaultInv
<1> QED BY <1>1, <1>2

(***************************************************************************)
(* To do nothing follows the rules.                                        *)
(***************************************************************************)
LEMMA Unchanged ==
    ASSUME NEW d, TablesSound(d), NEW now
    PROVE  Grows(d, d, now)
BY ItemFollowsItself DEF Grows, Follows, Keeps, DirsFollow, ItemsFollow, KeysFollow, TrashFollows

(***************************************************************************)
(* The clocks and the listing client change no table.                      *)
(***************************************************************************)
LEMMA ClockStep ==
    ASSUME VaultInv,
           \/ Tick \/ SetBack \/ BeginWalk \/ FindMarker \/ NextPage \/ EndWalk
           \/ UNCHANGED vars
    PROVE  db' = db /\ VaultInv'
<1>1. CASE Tick
  BY <1>1 DEF Tick, VaultInv, PlacedSound, TablesSound, ItemsSound, ItemSound
<1>2. CASE SetBack
  BY <1>2 DEF SetBack, VaultInv, PlacedSound, TablesSound, ItemsSound, ItemSound
<1>3. CASE UNCHANGED <<db, wall, real, placed>>
  BY <1>3 DEF VaultInv, PlacedSound
<1> QED BY <1>1, <1>2, <1>3 DEF BeginWalk, FindMarker, NextPage, EndWalk, vars

(***************************************************************************)
(* Every step of the vault keeps it sound.                                 *)
(***************************************************************************)
LEMMA VaultStep ==
    ASSUME VaultInv, [Next]_vars
    PROVE  /\ VaultInv' /\ Follows(db, db', wall)
           /\ Grows(db, db', wall) \/ Delete \/ Clean
<1>1. CASE \/ NewDir \/ RenameDir \/ DropDir \/ NewItem \/ NewCopy
           \/ Move \/ Update \/ Restore
  BY <1>1, OperationsGrow, FollowedSound DEF Standing, Grows
<1>2. CASE Delete
  BY <1>2, DeleteStep, FollowedSound DEF Standing
<1>3. CASE Clean
  BY <1>3, CleanStep, FollowedSound DEF Standing
<1>4. CASE Upload \/ CollectOrphan
  BY <1>4, RefileStep, RefiledSound DEF Grows
<1>5. CASE \/ Tick \/ SetBack \/ BeginWalk \/ FindMarker \/ NextPage \/ EndWalk
           \/ UNCHANGED vars
  <2>1. Grows(db, db, wall)
    BY Unchanged DEF VaultInv
  <2> QED BY <1>5, <2>1, ClockStep DEF Grows
<1> QED BY <1>1, <1>2, <1>3, <1>4, <1>5 DEF Next

-----------------------------------------------------------------------------
(***************************************************************************)
(* A refused create_item changes nothing.                                  *)
(***************************************************************************)
LEMMA CreateItemRefusal ==
    ASSUME NEW d, NEW dir, NEW name, NEW request, NEW now,
           CreateItem(d, dir, name, request, now).status # "ok"
    PROVE  CreateItem(d, dir, name, request, now).db = d
BY DEF CreateItem, CreateFrom, Outcome, Done

(***************************************************************************)
(* A refused copy_item changes nothing.                                    *)
(***************************************************************************)
LEMMA CopyItemRefusal ==
    ASSUME NEW d, NEW dir, NEW name, NEW srcDir, NEW src, NEW request, NEW now,
           CopyItem(d, dir, name, srcDir, src, request, now).status # "ok"
    PROVE  CopyItem(d, dir, name, srcDir, src, request, now).db = d
BY DEF CopyItem, CreateFrom, Outcome, Done

(***************************************************************************)
(* A refused move_item changes nothing.                                    *)
(***************************************************************************)
LEMMA MoveItemRefusal ==
    ASSUME NEW d, NEW dir, NEW name, NEW srcDir, NEW src, NEW request, NEW now,
           MoveItem(d, dir, name, srcDir, src, request, now).status # "ok"
    PROVE  MoveItem(d, dir, name, srcDir, src, request, now).db = d
BY DEF MoveItem, Outcome, Done

(***************************************************************************)
(* A refused update_item changes nothing.                                  *)
(***************************************************************************)
LEMMA UpdateItemRefusal ==
    ASSUME NEW d, NEW dir, NEW name, NEW request, NEW now,
           UpdateItem(d, dir, name, request, now).status # "ok"
    PROVE  UpdateItem(d, dir, name, request, now).db = d
BY DEF UpdateItem, Outcome, Done

(***************************************************************************)
(* A refused delete_item changes nothing.                                  *)
(***************************************************************************)
LEMMA DeleteItemRefusal ==
    ASSUME NEW d, NEW dir, NEW name, DeleteItem(d, dir, name).status # "ok"
    PROVE  DeleteItem(d, dir, name).db = d
BY DEF DeleteItem, Outcome, Done

(***************************************************************************)
(* Refused create_dir and delete_dir change nothing.                       *)
(***************************************************************************)
LEMMA DirRefusal ==
    ASSUME NEW d, NEW name, NEW now
    PROVE  /\ CreateDir(d, name, now).status # "ok" => CreateDir(d, name, now).db = d
           /\ DeleteDir(d, name).status # "ok" => DeleteDir(d, name).db = d
BY DEF CreateDir, DeleteDir, Outcome, Done

-----------------------------------------------------------------------------
(***************************************************************************)
(* A sequence over any set is a list.                                      *)
(***************************************************************************)
LEMMA SeqIsList ==
    ASSUME NEW S, NEW s \in Seq(S)
    PROVE  IsList(s)
<1>1. Len(s) \in Nat /\ s \in [1 .. Len(s) -> S] /\ DOMAIN s = 1 .. Len(s)
  BY LenProperties
<1>2. s \in [1 .. Len(s) -> Range(s)]
  BY <1>1 DEF Range
<1> QED BY <1>1, <1>2 DEF IsList

(***************************************************************************)
(* A list has a length, and an entry for each number up to it.             *)
(***************************************************************************)
LEMMA ListShape ==
    ASSUME NEW s, IsList(s)
    PROVE  Len(s) \in Nat /\ DOMAIN s = 1 .. Len(s) /\ s = [k \in 1 .. Len(s) |-> s[k]]
<1>1. s \in Seq(Range(s))
  BY DEF IsList
<1> QED BY <1>1, LenProperties

(***************************************************************************)
(* Two lists make a list, as long as both.                                 *)
(***************************************************************************)
LEMMA ListConcat ==
    ASSUME NEW s, NEW t, IsList(s), IsList(t)
    PROVE  IsList(s \o t) /\ Len(s \o t) = Len(s) + Len(t)
<1> DEFINE S == Range(s) \cup Range(t)
<1>1. s \in Seq(S)
  <2>1. s \in [1 .. Len(s) -> S] /\ Len(s) \in Nat
    BY ListShape DEF Range
  <2> QED BY <2>1
<1>2. t \in Seq(S)
  <2>1. t \in [1 .. Len(t) -> S] /\ Len(t) \in Nat
    BY ListShape DEF Range
  <2> QED BY <2>1
<1> HIDE DEF S
<1>3. s \o t \in Seq(S) /\ Len(s \o t) = Len(s) + Len(t)
  BY <1>1, <1>2, ConcatProperties
<1> QED BY <1>3, SeqIsList

(***************************************************************************)
(* The rest of a list is a list, one shorter, of entries the list has.     *)
(***************************************************************************)
LEMMA ListTail ==
    ASSUME NEW s, IsList(s), Len(s) > 1
    PROVE  /\ IsList(Tail(s)) /\ Len(Tail(s)) = Len(s) - 1
           /\ \A k \in DOMAIN Tail(s) : \E j \in DOMAIN s : Tail(s)[k] = s[j]
<1>1. s \in Seq(Range(s)) /\ Len(s) \in Nat /\ s # <<>>
  BY ListShape DEF IsList
<1>2. /\ Tail(s) \in Seq(Range(s)) /\ Len(Tail(s)) = Len(s) - 1
      /\ \A k \in 1 .. Len(Tail(s)) : Tail(s)[k] = s[k + 1]
  BY <1>1, HeadTailProperties
<1>3. IsList(Tail(s))
  BY <1>2, SeqIsList
<1>4. DOMAIN Tail(s) = 1 .. (Len(s) - 1) /\ DOMAIN s = 1 .. Len(s)
  BY <1>2, <1>3, ListShape
<1>5. \A k \in 1 .. (Len(s) - 1) : k + 1 \in 1 .. Len(s)
  BY <1>1
<1> QED BY <1>2, <1>3, <1>4, <1>5

(***************************************************************************)
(* A key tells the rows of a list apart.                                   *)
(***************************************************************************)
Ordered(keys, rows) ==
    /\ IsFiniteSet(rows)
    /\ \A r \in rows : keys[r] \in Int
    /\ \A r, q \in rows : keys[r] = keys[q] => r = q

(***************************************************************************)
(* All of the rows, each once, by their keys.                              *)
(***************************************************************************)
Sorted(s, keys, rows) ==
    /\ s \in Seq(rows) /\ Len(s) = Cardinality(rows)
    /\ \A r \in rows : \E k \in 1 .. Len(s) : s[k] = r
    /\ \A j, k \in 1 .. Len(s) : j < k => keys[s[j]] < keys[s[k]]

(***************************************************************************)
(* The rows of a list by their keys: as many are before a row as its place *)
(* says, so that there is one for each place.                              *)
(***************************************************************************)
LEMMA InOrderSorts ==
    ASSUME NEW keys, NEW rows, Ordered(keys, rows)
    PROVE  Sorted(InOrder(keys, rows), keys, rows)
<1> DEFINE n == Cardinality(rows)
           Below(r) == {t \in rows : keys[t] < keys[r]}
           place == [r \in rows |-> Cardinality(Below(r))]
           T == 0 .. (n - 1)
           s == InOrder(keys, rows)
<1>1. IsFiniteSet(rows) /\ n \in Nat
  BY FS_CardinalityType DEF Ordered
<1>2. \A r \in rows : IsFiniteSet(Below(r)) /\ Cardinality(Below(r)) \in T
  <2> TAKE r \in rows
  <2>1. Below(r) \subseteq rows \ {r}
    BY DEF Ordered
  <2>2. IsFiniteSet(rows \ {r}) /\ Cardinality(rows \ {r}) = n - 1
    BY <1>1, FS_RemoveElement
  <2> HIDE DEF Below, n
  <2>3. IsFiniteSet(Below(r)) /\ Cardinality(Below(r)) <= n - 1
    BY <2>1, <2>2, FS_Subset
  <2>4. Cardinality(Below(r)) \in Nat
    BY <2>3, FS_CardinalityType
  <2> QED BY <2>3, <2>4, <1>1
<1>3. \A r, q \in rows : keys[r] < keys[q] => Cardinality(Below(r)) < Cardinality(Below(q))
  <2> SUFFICES ASSUME NEW r \in rows, NEW q \in rows, keys[r] < keys[q]
               PROVE  Cardinality(Below(r)) < Cardinality(Below(q))
    OBVIOUS
  <2>1. Below(r) \subseteq Below(q)
    BY DEF Ordered
  <2>2. r \in Below(q) /\ r \notin Below(r)
    BY DEF Ordered
  <2>3. IsFiniteSet(Below(r)) /\ IsFiniteSet(Below(q))
    BY <1>2
  <2> HIDE DEF Below
  <2>4. Cardinality(Below(r)) <= Cardinality(Below(q))
    BY <2>1, <2>3, FS_Subset
  <2>5. Cardinality(Below(r)) # Cardinality(Below(q))
    BY <2>1, <2>2, <2>3, FS_Subset
  <2>6. Cardinality(Below(r)) \in Nat /\ Cardinality(Below(q)) \in Nat
    BY <2>3, FS_CardinalityType
  <2> QED BY <2>4, <2>5, <2>6
<1>4. \A r, q \in rows : Cardinality(Below(r)) = Cardinality(Below(q)) => r = q
  <2> SUFFICES ASSUME NEW r \in rows, NEW q \in rows,
                      Cardinality(Below(r)) = Cardinality(Below(q))
               PROVE  r = q
    OBVIOUS
  <2>1. Cardinality(Below(r)) \in Int /\ Cardinality(Below(q)) \in Int
    BY <1>2
  <2> HIDE DEF Below
  <2>2. ~(keys[r] < keys[q]) /\ ~(keys[q] < keys[r])
    BY <1>3, <2>1
  <2>3. keys[r] = keys[q]
    BY <2>2 DEF Ordered
  <2> QED BY <2>3 DEF Ordered
<1>5. place \in Injection(rows, T)
  <2> HIDE DEF Below, T
  <2> QED BY <1>2, <1>4 DEF Injection, IsInjective
<1>6. IsFiniteSet(T) /\ Cardinality(T) = n
  <2>1. 0 \in Int /\ n - 1 \in Int
    BY <1>1
  <2>2. IsFiniteSet(T) /\ Cardinality(T) = IF 0 > n - 1 THEN 0 ELSE (n - 1) - 0 + 1
    BY <2>1, FS_Interval
  <2> HIDE DEF n, T
  <2> QED BY <2>2, <1>1
<1>7. place \in Surjection(rows, T)
  <2> HIDE DEF place, T
  <2> QED BY <1>5, <1>6, FS_Injection
<1>8. \A k \in 1 .. n : \E r \in rows : Cardinality(Below(r)) = k - 1
  <2> TAKE k \in 1 .. n
  <2>1. k - 1 \in T
    BY <1>1
  <2>2. \E r \in rows : place[r] = k - 1
    <3> HIDE DEF place, T
    <3> QED BY <1>7, <2>1 DEF Surjection
  <2> QED BY <2>2
<1>9. s = [k \in 1 .. n |-> CHOOSE r \in rows : Cardinality(Below(r)) = k - 1]
  BY DEF InOrder
<1> HIDE DEF s, Below, n
<1>10. \A k \in 1 .. n : s[k] \in rows /\ Cardinality(Below(s[k])) = k - 1
  BY <1>8, <1>9
<1>11. s \in Seq(rows) /\ Len(s) = n
  <2>1. s \in [1 .. n -> rows]
    BY <1>9, <1>10
  <2> QED BY <1>1, <2>1, LenProperties
<1>12. ASSUME NEW r \in rows PROVE \E k \in 1 .. n : s[k] = r
  <2> DEFINE k == Cardinality(Below(r)) + 1
  <2>1. k \in 1 .. n /\ k - 1 = Cardinality(Below(r))
    BY <1>1, <1>2
  <2> HIDE DEF k
  <2>2. s[k] = r
    BY <1>4, <1>10, <2>1
  <2> QED BY <2>1, <2>2
<1>13. ASSUME NEW j \in 1 .. n, NEW k \in 1 .. n, j < k PROVE keys[s[j]] < keys[s[k]]
  <2>1. /\ s[j] \in rows /\ s[k] \in rows
        /\ Cardinality(Below(s[j])) = j - 1 /\ Cardinality(Below(s[k])) = k - 1
    BY <1>10
  <2>2. j \in Int /\ k \in Int /\ j # k
    BY <1>13
  <2>3. keys[s[j]] # keys[s[k]]
    <3>1. s[j] # s[k]
      BY <2>1, <2>2
    <3> QED BY <2>1, <3>1 DEF Ordered
  <2>4. ~(keys[s[k]] < keys[s[j]])
    <3>1. ~(k - 1 < j - 1)
      BY <2>2, <1>13
    <3> QED BY <1>3, <2>1, <3>1
  <2>5. keys[s[j]] \in Int /\ keys[s[k]] \in Int
    BY <2>1 DEF Ordered
  <2> QED BY <2>3, <2>4, <2>5
<1> QED BY <1>11, <1>12, <1>13 DEF Sorted, s, n

(***************************************************************************)
(* A page shows, each once, the rows from the one it starts at to the one  *)
(* its marker names, or to the end if it has none.                         *)
(***************************************************************************)
Shows(page, keys, rows) ==
    /\ page.entries \in Seq(rows)
    /\ \A j, k \in 1 .. Len(page.entries) : page.entries[j] = page.entries[k] => j = k
    /\ page.next = NoMarker => \A r \in rows : \E k \in 1 .. Len(page.entries) :
                                                  page.entries[k] = r
    /\ page.next # NoMarker =>
           /\ page.next.id \in rows
           /\ \A r \in rows : (\E k \in 1 .. Len(page.entries) : page.entries[k] = r)
                                  <=> keys[r] < keys[page.next.id]

LEMMA PageShows ==
    ASSUME NEW keys, Ordered(keys, DOMAIN keys), NEW from, NEW limit \in Nat, NEW scope
    PROVE  /\ Shows(PageOf(keys, from, limit, scope), keys, RowsFrom(keys, from))
           /\ Cardinality(RowsFrom(keys, from)) <= limit =>
                  /\ PageOf(keys, from, limit, scope).next = NoMarker
                  /\ Len(PageOf(keys, from, limit, scope).entries)
                         = Cardinality(RowsFrom(keys, from))
<1> DEFINE rows == RowsFrom(keys, from)
           s == InOrder(keys, rows)
           n == IF limit + 1 < Len(s) THEN limit + 1 ELSE Len(s)
           fetched == SubSeq(s, 1, n)
           page == PageOf(keys, from, limit, scope)
<1>1. Ordered(keys, rows)
  <2>1. rows \subseteq DOMAIN keys
    BY DEF RowsFrom
  <2>2. IsFiniteSet(rows)
    <3> HIDE DEF rows
    <3> QED BY <2>1, FS_Subset DEF Ordered
  <2> HIDE DEF rows
  <2> QED BY <2>1, <2>2 DEF Ordered
<1> HIDE DEF rows
<1>2. Sorted(s, keys, rows)
  BY <1>1, InOrderSorts
<1>3. page = IF Len(fetched) > limit
             THEN [entries |-> SubSeq(fetched, 1, limit),
                   next |-> [id |-> fetched[limit + 1], scope |-> scope]]
             ELSE [entries |-> fetched, next |-> NoMarker]
  BY DEF PageOf, rows
<1> HIDE DEF s, page
<1>4. /\ s \in Seq(rows) /\ Len(s) \in Nat
      /\ \A k \in 1 .. Len(s) : s[k] \in rows
  BY <1>2, LenProperties, ElementOfSeq DEF Sorted
<1>5. n \in Nat /\ n <= Len(s)
  BY <1>4
<1> HIDE DEF n
<1>6. fetched \in Seq(rows) /\ Len(fetched) = n /\ \A k \in 1 .. n : fetched[k] = s[k]
  <2>1. \A k \in 1 .. n : s[k] \in rows
    BY <1>4, <1>5
  <2> QED BY <1>5, <2>1, SubSeqProperties
<1> HIDE DEF fetched
<1>7. \A j, k \in 1 .. Len(s) : s[j] = s[k] => j = k
  <2> SUFFICES ASSUME NEW j \in 1 .. Len(s), NEW k \in 1 .. Len(s), s[j] = s[k]
               PROVE  j = k
    OBVIOUS
  <2>1. keys[s[j]] \in Int
    BY <1>1, <1>4 DEF Ordered
  <2>2. ~(j < k) /\ ~(k < j)
    BY <1>2, <2>1 DEF Sorted
  <2> QED BY <1>4, <2>2
<1>8. CASE limit < Len(s)
  <2>1. n = limit + 1 /\ limit + 1 \in 1 .. Len(s) /\ 1 .. limit \subseteq 1 .. Len(s)
    BY <1>4, <1>8 DEF n
  <2>2. page = [entries |-> SubSeq(fetched, 1, limit),
                next |-> [id |-> fetched[limit + 1], scope |-> scope]]
    BY <1>3, <1>6, <2>1
  <2> DEFINE e == SubSeq(fetched, 1, limit)
             m == [id |-> fetched[limit + 1], scope |-> scope]
  <2>3. e \in Seq(rows) /\ Len(e) = limit /\ \A k \in 1 .. limit : e[k] = s[k]
    <3>1. \A k \in 1 .. limit : k \in 1 .. n /\ fetched[k] = s[k] /\ fetched[k] \in rows
      BY <1>4, <1>6, <2>1
    <3>2. SubSeq(fetched, 1, limit) \in Seq(rows)
      BY <3>1, SubSeqProperties
    <3>3. Len(e) = limit /\ \A k \in 1 .. limit : e[k] = fetched[k]
      BY <3>1, SubSeqProperties
    <3> QED BY <3>1, <3>2, <3>3
  <2>4. m.id = s[limit + 1]
    BY <1>6, <2>1
  <2>5. m # NoMarker
    <3>1. "scope" \in DOMAIN m /\ "scope" \notin DOMAIN NoMarker
      BY DEF NoMarker
    <3> HIDE DEF m
    <3> QED BY <3>1
  <2>6. page.entries = e /\ page.next = m
    BY <2>2
  <2> HIDE DEF e, m
  <2>7. s[limit + 1] \in rows
    BY <1>4, <2>1
  <2>8. ASSUME NEW r \in rows
        PROVE  (\E k \in 1 .. limit : e[k] = r) <=> keys[r] < keys[s[limit + 1]]
    <3>1. PICK p \in 1 .. Len(s) : s[p] = r
      BY <1>2 DEF Sorted
    <3>2. ASSUME NEW k \in 1 .. limit, e[k] = r PROVE keys[r] < keys[s[limit + 1]]
      <4>1. k < limit + 1 /\ k \in 1 .. Len(s)
        BY <2>1
      <4>2. s[k] = r
        BY <2>3, <3>2
      <4> QED BY <1>2, <2>1, <4>1, <4>2 DEF Sorted
    <3>3. ASSUME keys[r] < keys[s[limit + 1]] PROVE p \in 1 .. limit
      <4>1. keys[r] \in Int /\ keys[s[limit + 1]] \in Int
        BY <1>1, <2>7 DEF Ordered
      <4>2. p # limit + 1
        BY <3>1, <3>3, <4>1
      <4>3. ~(limit + 1 < p)
        <5>1. limit + 1 < p => keys[s[limit + 1]] < keys[s[p]]
          BY <1>2, <2>1 DEF Sorted
        <5> QED BY <3>1, <3>3, <4>1, <5>1
      <4> QED BY <1>4, <4>2, <4>3
    <3> QED BY <2>3, <3>1, <3>2, <3>3
  <2>9. Shows(page, keys, rows)
    <3>1. \A j, k \in 1 .. limit : e[j] = e[k] => j = k
      BY <1>7, <2>1, <2>3
    <3> QED BY <2>3, <2>4, <2>5, <2>6, <2>7, <2>8, <3>1 DEF Shows
  <2>10. ~(Cardinality(rows) <= limit)
    BY <1>2, <1>4, <1>8 DEF Sorted
  <2> QED BY <2>9, <2>10 DEF page, rows
<1>9. CASE ~(limit < Len(s))
  <2>1. n = Len(s)
    BY <1>4, <1>9 DEF n
  <2>2. page = [entries |-> fetched, next |-> NoMarker]
    BY <1>3, <1>4, <1>6, <1>9, <2>1
  <2>3. page.entries = fetched /\ page.next = NoMarker
    BY <2>2
  <2>4. Shows(page, keys, rows)
    BY <1>2, <1>6, <1>7, <2>1, <2>3 DEF Shows, Sorted
  <2>5. Len(page.entries) = Cardinality(rows)
    BY <1>2, <1>6, <2>1, <2>3 DEF Sorted
  <2> QED BY <2>3, <2>4, <2>5 DEF page, rows
<1> QED BY <1>8, <1>9

(***************************************************************************)
(* A page of a listing is a list.                                          *)
(***************************************************************************)
LEMMA PageIsList ==
    ASSUME NEW keys, IsFiniteSet(DOMAIN keys), NEW from, NEW limit \in Nat, NEW scope
    PROVE  IsList(PageOf(keys, from, limit, scope).entries)
<1> DEFINE found == RowsFrom(keys, from)
           rows == InOrder(keys, found)
           n == IF limit + 1 < Len(rows) THEN limit + 1 ELSE Len(rows)
           fetched == SubSeq(rows, 1, n)
           page == PageOf(keys, from, limit, scope)
<1>1. IsFiniteSet(found)
  BY FS_Subset DEF RowsFrom
<1>2. Cardinality(found) \in Nat
  <2> HIDE DEF found
  <2> QED BY <1>1, FS_CardinalityType
<1>3. IsList(rows)
  <2> DEFINE S == Range(rows)
  <2>1. rows \in [1 .. Cardinality(found) -> S]
    BY DEF InOrder, Range
  <2> HIDE DEF S, found, rows
  <2>2. rows \in Seq(S)
    BY <1>2, <2>1
  <2> QED BY <2>2, SeqIsList
<1> HIDE DEF rows, found
<1>4. /\ Len(rows) \in Nat /\ \A k \in 1 .. Len(rows) : rows[k] \in Range(rows)
  BY <1>3, ListShape DEF Range
<1>5. n \in Nat /\ n <= Len(rows)
  BY <1>4
<1>6. fetched \in Seq(Range(rows))
  <2> HIDE DEF n
  <2>1. \A k \in 1 .. n : rows[k] \in Range(rows)
    BY <1>4, <1>5
  <2> QED BY <1>5, <2>1, SubSeqProperties
<1> HIDE DEF n, fetched
<1>7. CASE Len(fetched) > limit
  <2>1. Len(fetched) \in Nat /\ \A k \in 1 .. Len(fetched) : fetched[k] \in Range(rows)
    BY <1>6, ElementOfSeq, LenProperties
  <2>2. \A k \in 1 .. limit : fetched[k] \in Range(rows)
    BY <2>1, <1>7
  <2>3. SubSeq(fetched, 1, limit) \in Seq(Range(rows))
    BY <2>2, SubSeqProperties
  <2>4. page.entries = SubSeq(fetched, 1, limit)
    BY <1>7 DEF PageOf, fetched, rows, found, n
  <2> QED BY <2>3, <2>4, SeqIsList
<1>8. CASE ~(Len(fetched) > limit)
  <2>1. page.entries = fetched
    BY <1>8 DEF PageOf, fetched, rows, found, n
  <2> QED BY <2>1, <1>6, SeqIsList
<1> QED BY <1>7, <1>8

(***************************************************************************)
(* What list_items answers is a list.                                      *)
(***************************************************************************)
LEMMA ListedIsList ==
    ASSUME NEW d, TablesSound(d), NEW dir, NEW glob, NEW desc, NEW marker, NEW limit,
           ListItems(d, dir, glob, desc, marker, limit).status = "ok"
    PROVE  IsList(ListItems(d, dir, glob, desc, marker, limit).shows.entries)
<1> DEFINE keys == ItemKeys(d, DirId(d, dir), glob, desc)
           scope == <<"items", DirId(d, dir), glob, desc>>
           page == ListItems(d, dir, glob, desc, marker, limit)
<1>1. IsFiniteSet(DOMAIN keys)
  <2>1. DOMAIN keys \subseteq DOMAIN d.items
    BY DEF ItemKeys, PublicItems, ItemsIn
  <2> HIDE DEF keys
  <2> QED BY <2>1, FS_Subset DEF TablesSound, ItemsSound
<1>2. page = Paged(keys, marker, limit, scope)
  BY DEF ListItems, Refused, Answer
<1> HIDE DEF keys, scope
<1>3. /\ limit \in Nat
      /\ \E from : page.shows = PageOf(keys, from, limit, scope)
  BY <1>2 DEF Paged, Refused, Answer, MaxPage
<1> QED BY <1>1, <1>3, PageIsList

-----------------------------------------------------------------------------
(***************************************************************************)
(* Where an rm is while it removes.                                        *)
(***************************************************************************)
Removing == {"remove", "trash", "fallback", "look", "numbered"}

FromDir(paths, dir) == \A k \in DOMAIN paths : paths[k].from.dir = dir

(***************************************************************************)
(* An rm at work: what is left to do are items of the directory it was     *)
(* given. Since its one source decided for good whether it may delete,     *)
(* this ties each deletion to the command that asked for it.               *)
(***************************************************************************)
Removal ==
    /\ shell.order.op = "rm"
    /\ IsList(shell.todo) /\ Len(shell.todo) > 0
    /\ FromDir(shell.todo, Path.dir)

(***************************************************************************)
(* A command that plans: an rm has not moved on to another source.         *)
(***************************************************************************)
Planning ==
    /\ shell.order \in Orders
    /\ IsList(shell.listing)
    /\ shell.order.op = "rm" => shell.sources = shell.order.sources /\ shell.found = <<>>

(***************************************************************************)
(* add and edit keep their request, with its list of files.                *)
(***************************************************************************)
Saves == shell.order \in Orders /\ shell.order.op \in {"add", "edit"}

(***************************************************************************)
(* The invariant of the command.                                           *)
(***************************************************************************)
ShellSound ==
    /\ DOMAIN shell = DOMAIN Idle
    /\ shell.at = "plan" => Planning
    /\ shell.at \in Removing => Removal
    /\ shell.at \in {"preflight", "upload"} => Saves

(***************************************************************************)
(* What the shell is made of.                                              *)
(***************************************************************************)
LEMMA IdleShape ==
    /\ DOMAIN Idle = {"at", "order", "sources", "listing", "marker", "found", "todo", "created",
                      "name"}
    /\ Idle.at = "idle" /\ Idle.listing = <<>> /\ Idle.found = <<>>
BY DEF Idle

(***************************************************************************)
(* A command that stops is sound.                                          *)
(***************************************************************************)
LEMMA FinishSound ==
    ASSUME Finish
    PROVE  ShellSound' /\ shell'.at = "done"
<1>1. DOMAIN shell' = DOMAIN Idle /\ shell'.at = "done"
  BY IdleShape DEF Finish
<1> QED BY <1>1 DEF ShellSound, Removing

(***************************************************************************)
(* A command that begins is sound.                                         *)
(***************************************************************************)
LEMMA BeginSound ==
    ASSUME Begin
    PROVE  ShellSound'
<1>1. PICK order \in Orders :
        shell' = [Idle EXCEPT !.order = order,
                              !.sources = order.sources,
                              !.at = CASE order.op \in {"rm", "mv", "cp"} -> "plan"
                                       [] order.op \in {"add", "edit"} -> "preflight"
                                       [] OTHER -> "mkdir"]
  BY DEF Begin
<1>2. /\ DOMAIN shell' = DOMAIN Idle
      /\ shell'.order = order /\ shell'.sources = order.sources
      /\ shell'.listing = <<>> /\ shell'.found = <<>>
      /\ shell'.at = CASE order.op \in {"rm", "mv", "cp"} -> "plan"
                       [] order.op \in {"add", "edit"} -> "preflight"
                       [] OTHER -> "mkdir"
  BY <1>1, IdleShape
<1>3. \/ shell'.at = "plan"
      \/ shell'.at = "preflight" /\ order.op \in {"add", "edit"}
      \/ shell'.at = "mkdir"
  BY <1>2
<1>4. IsList(<<>>)
  BY SeqIsList, EmptySeq
<1>5. Planning'
  BY <1>2, <1>4 DEF Planning
<1>6. shell'.at = "preflight" => Saves'
  BY <1>2, <1>3 DEF Saves
<1> QED BY <1>2, <1>3, <1>5, <1>6 DEF ShellSound, Removing

(***************************************************************************)
(* An rm that goes on, or ends, is sound; going on is a step.              *)
(***************************************************************************)
LEMMA NextJobSound ==
    ASSUME ShellSound, NEW at \in {"remove", "transfer"}, at = "remove" => Removal,
           NextJob(at)
    PROVE  ShellSound' /\ (at = "remove" /\ shell.at = at => shell' # shell)
<1>1. CASE Len(shell.todo) > 1
  <2>1. shell' = [shell EXCEPT !.at = at, !.todo = Tail(@), !.created = 0, !.name = Whole]
    BY <1>1 DEF NextJob
  <2>2. /\ DOMAIN shell' = DOMAIN Idle
        /\ shell'.at = at /\ shell'.todo = Tail(shell.todo) /\ shell'.order = shell.order
    BY <2>1, IdleShape DEF ShellSound
  <2>3. ASSUME at = "remove" PROVE Removal' /\ shell' # shell
    <3>1. IsList(shell.todo) /\ FromDir(shell.todo, Path.dir) /\ shell.order.op = "rm"
      BY <2>3 DEF Removal
    <3>2. /\ IsList(Tail(shell.todo)) /\ Len(Tail(shell.todo)) = Len(shell.todo) - 1
          /\ \A k \in DOMAIN Tail(shell.todo) :
                 \E j \in DOMAIN shell.todo : Tail(shell.todo)[k] = shell.todo[j]
      BY <1>1, <3>1, ListTail
    <3>3. Len(shell.todo) \in Nat
      BY <3>1, ListShape
    <3>4. FromDir(Tail(shell.todo), Path.dir)
      BY <3>1, <3>2 DEF FromDir
    <3>5. Removal'
      BY <1>1, <2>2, <3>1, <3>2, <3>3, <3>4 DEF Removal, Path, FromDir
    <3>6. Len(shell'.todo) # Len(shell.todo)
      BY <2>2, <3>2, <3>3
    <3> QED BY <3>5, <3>6
  <2> QED BY <2>2, <2>3 DEF ShellSound, Removing
<1>2. CASE ~(Len(shell.todo) > 1)
  <2>1. CASE shell' = [shell EXCEPT !.at = "rmdir", !.created = 0, !.name = Whole]
    <3>1. DOMAIN shell' = DOMAIN Idle /\ shell'.at = "rmdir"
      BY <2>1, IdleShape DEF ShellSound
    <3> QED BY <3>1 DEF ShellSound, Removing
  <2>2. CASE Finish
    BY <2>2, FinishSound
  <2> QED BY <1>2, <2>1, <2>2 DEF NextJob
<1> QED BY <1>1, <1>2

(***************************************************************************)
(* A planner that has expanded its source is sound: an rm has one only.    *)
(***************************************************************************)
LEMMA TakeSourceSound ==
    ASSUME ShellSound, shell.at = "plan", NEW paths, IsList(paths), Len(paths) > 0,
           \A k \in DOMAIN paths : paths[k].dir = Head(shell.sources).dir,
           TakeSource(paths)
    PROVE  ShellSound'
<1> DEFINE found == Expanded(shell.found, paths)
<1>1. Planning /\ DOMAIN shell = DOMAIN Idle
  BY DEF ShellSound
<1>2. ASSUME shell.order.op = "rm"
      PROVE  /\ Len(shell.sources) = 1 /\ Head(shell.sources) = shell.order.sources[1]
             /\ found = paths
  <2>1. Len(shell.sources) = 1 /\ Head(shell.sources) = shell.order.sources[1]
    BY <1>1, <1>2, OrderAssumption DEF Planning
  <2>2. <<>> \o paths = paths
    <3>1. paths \in Seq(Range(paths))
      BY DEF IsList
    <3> QED BY <3>1, ConcatEmptySeq
  <2> QED BY <2>1, <2>2, <1>1, <1>2 DEF Planning, Expanded
<1>3. CASE Len(shell.sources) > 1
  <2>1. shell' = [shell EXCEPT !.sources = Tail(@), !.found = found,
                               !.listing = <<>>, !.marker = NoMarker]
    BY <1>3 DEF TakeSource
  <2>2. /\ DOMAIN shell' = DOMAIN Idle /\ shell'.at = "plan" /\ shell'.order = shell.order
        /\ shell'.listing = <<>>
    BY <1>1, <2>1, IdleShape
  <2>3. IsList(<<>>)
    BY SeqIsList, EmptySeq
  <2>4. ASSUME shell.order.op = "rm" PROVE FALSE
    <3>1. Len(shell.sources) = 1
      BY <1>2, <2>4
    <3> QED BY <1>3, <3>1
  <2> QED BY <1>1, <2>2, <2>3, <2>4 DEF ShellSound, Planning, Removing
<1>4. CASE ~(Len(shell.sources) > 1) /\ Finish
  BY <1>4, FinishSound
<1>5. CASE shell' = [Idle EXCEPT !.at = IF shell.order.op = "rm" THEN "remove" ELSE "transfer",
                                 !.order = shell.order, !.todo = Transfers(found)]
  <2>1. /\ DOMAIN shell' = DOMAIN Idle /\ shell'.order = shell.order
        /\ shell'.at = IF shell.order.op = "rm" THEN "remove" ELSE "transfer"
        /\ shell'.todo = Transfers(found)
    BY <1>5, IdleShape
  <2>2. ASSUME shell.order.op = "rm" PROVE Removal'
    <3>1. /\ Transfers(paths) = [k \in DOMAIN paths |-> [from |-> paths[k],
                                                         to |-> Target(paths[k])]]
      BY DEF Transfers
    <3>2. /\ DOMAIN Transfers(paths) = 1 .. Len(paths)
          /\ \A k \in 1 .. Len(paths) : Transfers(paths)[k].from = paths[k]
          /\ Len(paths) \in Nat
      BY <3>1, ListShape
    <3>3. Transfers(paths) \in Seq(Range(Transfers(paths)))
      <4> DEFINE t == Transfers(paths)
      <4>1. t = [k \in 1 .. Len(paths) |-> t[k]]
        BY <3>1, <3>2
      <4> HIDE DEF t
      <4>2. t \in [1 .. Len(paths) -> Range(t)]
        BY <3>2, <4>1 DEF Range, t
      <4> QED BY <3>2, <4>2 DEF t
    <3>4. IsList(Transfers(paths)) /\ Len(Transfers(paths)) = Len(paths)
      BY <3>2, <3>3 DEF IsList
    <3>5. FromDir(Transfers(paths), shell.order.sources[1].dir)
      BY <1>2, <2>2, <3>2, ListShape DEF FromDir
    <3>6. shell'.todo = Transfers(paths)
      BY <1>2, <2>1, <2>2
    <3> HIDE DEF found
    <3> QED BY <2>1, <2>2, <3>4, <3>5, <3>6 DEF Removal, Path
  <2> QED BY <2>1, <2>2 DEF ShellSound, Removing
<1> QED BY <1>3, <1>4, <1>5 DEF TakeSource

-----------------------------------------------------------------------------
(***************************************************************************)
(* What a step of a command may do: it keeps both invariants, and removes  *)
(* nothing unless it is an rm that may.                                    *)
(***************************************************************************)
Advanced ==
    /\ VaultInv' /\ ShellSound'
    /\ Follows(db, db', wall)
    /\ Grows(db, db', wall) \/ (MayDestroy /\ Spares(db.items, db'.items))

(***************************************************************************)
(* A request that only lets the vault grow, served or refused.             *)
(***************************************************************************)
LEMMA AskGrows ==
    ASSUME VaultInv, NEW outcome, Ask(outcome),
           outcome.status = "ok" => Grows(db, outcome.db, wall),
           outcome.status # "ok" => outcome.db = db
    PROVE  VaultInv' /\ Follows(db, db', wall) /\ Grows(db, db', wall)
<1>1. Grows(db, db, wall)
  BY Unchanged DEF VaultInv
<1>2. Grows(db, db', wall)
  BY <1>1 DEF Ask
<1> QED BY <1>2, FollowedSound DEF Ask, Grows

(***************************************************************************)
(* A step of the command that asks nothing of the vault.                   *)
(***************************************************************************)
LEMMA NoChangeGrows ==
    ASSUME VaultInv, NoChange
    PROVE  VaultInv' /\ Follows(db, db', wall) /\ Grows(db, db', wall)
<1>1. Grows(db, db, wall)
  BY Unchanged DEF VaultInv
<1>2. db' = db /\ VaultInv'
  BY ClockStep DEF NoChange
<1> QED BY <1>1, <1>2 DEF Grows

(***************************************************************************)
(* The paths of the names listed in a directory are all in it.             *)
(***************************************************************************)
LEMMA PathsShape ==
    ASSUME NEW dir, NEW names, IsList(names)
    PROVE  /\ IsList(Paths(dir, names)) /\ Len(Paths(dir, names)) = Len(names)
           /\ \A k \in DOMAIN Paths(dir, names) : Paths(dir, names)[k].dir = dir
<1> DEFINE t == Paths(dir, names)
<1>1. DOMAIN names = 1 .. Len(names) /\ Len(names) \in Nat
  BY ListShape
<1>2. t = [k \in 1 .. Len(names) |-> [dir |-> dir, item |-> names[k]]]
  BY <1>1 DEF Paths
<1>3. DOMAIN t = 1 .. Len(names) /\ \A k \in DOMAIN t : t[k].dir = dir
  BY <1>2
<1>4. t \in [1 .. Len(names) -> Range(t)]
  BY <1>2 DEF Range
<1> HIDE DEF t
<1>5. t \in Seq(Range(t)) /\ Len(t) = Len(names)
  BY <1>1, <1>3, <1>4
<1> QED BY <1>3, <1>5 DEF IsList, t

(***************************************************************************)
(* A source taken literally.                                               *)
(***************************************************************************)
LEMMA PlanLiteralStep ==
    ASSUME VaultInv, ShellSound, PlanLiteral
    PROVE  Advanced
<1> DEFINE source == Head(shell.sources)
<1>1. CASE Finish
  BY <1>1, FinishSound, NoChangeGrows DEF PlanLiteral, Advanced
<1>2. CASE TakeSource(Paths(source.dir, <<source.item>>))
  <2>1. IsList(<<source.item>>) /\ Len(<<source.item>>) = 1
    <3>1. <<source.item>> \in Seq({source.item})
      OBVIOUS
    <3> QED BY <3>1, SeqIsList
  <2> DEFINE names == <<source.item>>
             paths == Paths(source.dir, names)
  <2>2. IsList(paths) /\ Len(paths) = 1 /\ \A k \in DOMAIN paths : paths[k].dir = source.dir
    <3> HIDE DEF names
    <3> QED BY <2>1, PathsShape DEF names
  <2>3. shell.at = "plan"
    BY DEF PlanLiteral
  <2>4. TakeSource(paths)
    BY <1>2
  <2> HIDE DEF paths
  <2>5. Len(paths) > 0
    BY <2>2
  <2>6. ShellSound'
    BY SMTT(60), <2>2, <2>3, <2>4, <2>5, TakeSourceSound
  <2> QED BY <2>6, NoChangeGrows DEF PlanLiteral, Advanced
<1> QED BY <1>1, <1>2 DEF PlanLiteral

(***************************************************************************)
(* A source listed by pages: every page is of its directory.               *)
(***************************************************************************)
LEMMA PlanPageStep ==
    ASSUME VaultInv, ShellSound, PlanPage
    PROVE  Advanced
<1> DEFINE source == Head(shell.sources)
           page == ListItems(db, source.dir, source.glob, FALSE, shell.marker, PageSize)
           names == [k \in DOMAIN page.shows.entries |-> db.items[page.shows.entries[k]].name]
           listing == shell.listing \o names
<1>1. shell.at = "plan" /\ NoChange
  BY ZenonT(90) DEF PlanPage
<1>2. \/ Finish
      \/ /\ page.status = "ok"
         /\ shell' = [shell EXCEPT !.listing = listing, !.marker = page.shows.next]
      \/ /\ page.status = "ok" /\ listing # <<>>
         /\ TakeSource(Paths(source.dir, listing))
  BY DEF PlanPage
<1>3. ASSUME page.status = "ok" PROVE IsList(listing)
  <2> DEFINE entries == page.shows.entries
  <2>1. IsList(entries)
    BY <1>3, ListedIsList DEF VaultInv
  <2>2. DOMAIN entries = 1 .. Len(entries) /\ Len(entries) \in Nat
    <3> HIDE DEF entries
    <3> QED BY <2>1, ListShape
  <2>3. names \in [1 .. Len(entries) -> Range(names)]
    <3> HIDE DEF page
    <3> QED BY <2>2 DEF Range
  <2>4. IsList(names)
    <3> HIDE DEF names, entries
    <3>1. names \in Seq(Range(names))
      BY <2>2, <2>3
    <3> QED BY <3>1 DEF IsList
  <2> HIDE DEF names
  <2> QED BY <1>1, <2>4, ListConcat DEF ShellSound, Planning
<1> HIDE DEF listing, page
<1>4. CASE Finish
  BY <1>1, <1>4, FinishSound, NoChangeGrows DEF Advanced
<1>5. CASE /\ page.status = "ok"
           /\ shell' = [shell EXCEPT !.listing = listing, !.marker = page.shows.next]
  <2>1. /\ DOMAIN shell' = DOMAIN Idle /\ shell'.at = "plan" /\ shell'.order = shell.order
        /\ shell'.sources = shell.sources /\ shell'.found = shell.found
        /\ shell'.listing = listing
    BY <1>1, <1>5, IdleShape DEF ShellSound
  <2>2. IsList(listing)
    BY <1>3, <1>5
  <2>3. ShellSound'
    BY <1>1, <2>1, <2>2 DEF ShellSound, Planning, Removing
  <2> QED BY <1>1, <2>3, NoChangeGrows DEF Advanced
<1>6. CASE /\ page.status = "ok" /\ listing # <<>>
           /\ TakeSource(Paths(source.dir, listing))
  <2>1. IsList(listing)
    BY <1>3, <1>6
  <2>2. Len(listing) > 0
    <3>1. listing \in Seq(Range(listing)) /\ Len(listing) \in Nat
      BY <2>1, ListShape DEF IsList
    <3> QED BY <1>6, <3>1, EmptySeq
  <2> DEFINE paths == Paths(source.dir, listing)
  <2>3. IsList(paths) /\ Len(paths) > 0 /\ \A k \in DOMAIN paths : paths[k].dir = source.dir
    BY <2>1, <2>2, PathsShape
  <2> HIDE DEF paths
  <2>4. ShellSound'
    BY <1>1, <1>6, <2>3, TakeSourceSound DEF paths
  <2> QED BY <1>1, <2>4, NoChangeGrows DEF Advanced
<1> QED BY <1>2, <1>4, <1>5, <1>6

(***************************************************************************)
(* A copy or a move removes nothing.                                       *)
(***************************************************************************)
LEMMA TransferStep ==
    ASSUME VaultInv, ShellSound, Transfer
    PROVE  Advanced
<1> DEFINE from == Job.from
           to == Job.to
           moved == MoveItem(db, to.dir, to.item, from.dir, from.item, EmptyRequest, wall)
           copied == CopyItem(db, to.dir, to.item, from.dir, from.item, EmptyRequest, wall)
           outcome == IF shell.order.op = "mv" THEN moved ELSE copied
<1>1. shell.at = "transfer" /\ Request(outcome, "transfer")
  BY DEF Transfer
<1>2. IsList(EmptyRequest.files)
  <2>1. IsList(<<>>)
    BY SeqIsList, EmptySeq
  <2> QED BY <2>1 DEF EmptyRequest
<1>3. TablesSound(db) /\ wall \in Nat
  BY DEF VaultInv
<1>4. /\ moved.status = "ok" => Grows(db, moved.db, wall)
      /\ moved.status # "ok" => moved.db = db
  BY <1>3, MoveItemFollows, MoveItemRefusal
<1>5. /\ copied.status = "ok" => Grows(db, copied.db, wall)
      /\ copied.status # "ok" => copied.db = db
  BY <1>2, <1>3, CopyItemFollows, CopyItemRefusal
<1> HIDE DEF moved, copied, from, to
<1>6. /\ outcome.status = "ok" => Grows(db, outcome.db, wall)
      /\ outcome.status # "ok" => outcome.db = db
  BY <1>4, <1>5
<1> HIDE DEF outcome
<1>7. Ask(outcome) /\ (NextJob("transfer") \/ Finish)
  BY <1>1 DEF Request
<1>8. VaultInv' /\ Follows(db, db', wall) /\ Grows(db, db', wall)
  BY <1>6, <1>7, AskGrows
<1>9. ShellSound'
  BY <1>7, NextJobSound, FinishSound
<1> QED BY <1>8, <1>9 DEF Advanced

(***************************************************************************)
(* A deletion by rm, which the command allows.                             *)
(***************************************************************************)
LEMMA RemoveForGoodStep ==
    ASSUME VaultInv, ShellSound, RemoveForGood
    PROVE  Advanced
<1> DEFINE dir == Job.from.dir
           name == Job.from.item
           outcome == DeleteItem(db, dir, name)
<1>1. /\ shell.at = "remove" /\ Permanent(shell.order, dir)
      /\ Ask(outcome)
      /\ IF outcome.status = "ok" THEN NextJob("remove") ELSE Finish
  BY DEF RemoveForGood, Request
<1>2. Removal
  BY <1>1 DEF ShellSound, Removing
<1>3. dir = Path.dir /\ shell.order.op = "rm"
  <2>1. 1 \in DOMAIN shell.todo
    BY <1>2, ListShape DEF Removal
  <2> QED BY <1>2, <2>1 DEF Removal, FromDir, Job
<1>4. ShellSound' /\ shell' # shell
  BY <1>1, <1>2, NextJobSound, FinishSound
<1>5. MayDestroy
  BY <1>1, <1>3, <1>4 DEF MayDestroy
<1> HIDE DEF dir, name
<1>6. CASE outcome.status = "ok"
  <2>1. Follows(db, outcome.db, wall) /\ Spares(db.items, outcome.db.items)
    BY <1>6, DeleteItemFollows DEF VaultInv
  <2>2. db' = outcome.db
    BY <1>1 DEF Ask
  <2> HIDE DEF outcome
  <2>3. Follows(db, db', wall) /\ Spares(db.items, db'.items)
    BY <2>1, <2>2
  <2>4. VaultInv'
    BY <1>1, <2>3, FollowedSound DEF Ask
  <2> QED BY <1>4, <1>5, <2>3, <2>4 DEF Advanced
<1>7. CASE outcome.status # "ok"
  <2>1. outcome.db = db
    BY <1>7, DeleteItemRefusal
  <2> HIDE DEF outcome
  <2> QED BY <1>1, <1>4, <1>7, <2>1, AskGrows DEF Advanced
<1> QED BY <1>6, <1>7

(***************************************************************************)
(* An rm that goes on with the same item is sound.                         *)
(***************************************************************************)
LEMMA KeepRemoving ==
    ASSUME ShellSound, Removal, DOMAIN shell' = DOMAIN shell, shell'.at \in Removing,
           shell'.order = shell.order, shell'.todo = shell.todo
    PROVE  ShellSound'
BY DEF ShellSound, Removal, Removing, Path, FromDir

(***************************************************************************)
(* Looking up the creation time before a move to the Trash.                *)
(***************************************************************************)
LEMMA InspectStep ==
    ASSUME VaultInv, ShellSound, Inspect
    PROVE  Advanced
<1>1. Removal /\ NoChange
  BY DEF Inspect, ShellSound, Removing
<1>2. CASE Finish
  BY <1>1, <1>2, FinishSound, NoChangeGrows DEF Advanced
<1>3. CASE ~Finish
  <2>1. DOMAIN shell' = DOMAIN shell /\ shell'.at = "trash"
        /\ shell'.order = shell.order /\ shell'.todo = shell.todo
    BY <1>3, IdleShape DEF Inspect, ShellSound
  <2>2. ShellSound'
    BY <1>1, <2>1, KeepRemoving DEF Removing
  <2> QED BY <1>1, <2>2, NoChangeGrows DEF Advanced
<1> QED BY <1>2, <1>3

(***************************************************************************)
(* A move to the Trash, whether or not the name is free, removes nothing.  *)
(***************************************************************************)
LEMMA MoveToTrashStep ==
    ASSUME VaultInv, ShellSound, Removal, NEW next, MoveToTrash(next),
           DOMAIN next = DOMAIN shell, next.at \in Removing,
           next.order = shell.order, next.todo = shell.todo
    PROVE  Advanced
<1> DEFINE outcome == MoveItem(db, Trash, shell.name, Job.from.dir, Job.from.item,
                               EmptyRequest, wall)
<1>1. /\ outcome.status = "ok" => Grows(db, outcome.db, wall)
      /\ outcome.status # "ok" => outcome.db = db
  BY MoveItemFollows, MoveItemRefusal DEF VaultInv
<1>2. IF outcome.status = "conflict" THEN shell' = next /\ NoChange
      ELSE Request(outcome, "remove")
  BY DEF MoveToTrash
<1> HIDE DEF outcome
<1>3. CASE shell' = next /\ NoChange
  <2>1. ShellSound'
    BY <1>3, KeepRemoving
  <2> QED BY <1>3, <2>1, NoChangeGrows DEF Advanced
<1>4. CASE Request(outcome, "remove")
  <2>1. Ask(outcome) /\ (NextJob("remove") \/ Finish)
    BY <1>4 DEF Request
  <2>2. VaultInv' /\ Follows(db, db', wall) /\ Grows(db, db', wall)
    BY <1>1, <2>1, AskGrows
  <2>3. ShellSound'
    BY <2>1, NextJobSound, FinishSound
  <2> QED BY <2>2, <2>3 DEF Advanced
<1> QED BY <1>2, <1>3, <1>4

(***************************************************************************)
(* All four steps of the search for a free name in the Trash.              *)
(***************************************************************************)
LEMMA TrashSteps ==
    ASSUME VaultInv, ShellSound,
           TrashSameName \/ TrashFallback \/ TrashLook \/ TrashNumbered
    PROVE  Advanced
<1>1. shell.at \in Removing /\ Removal /\ DOMAIN shell = DOMAIN Idle
  BY DEF TrashSameName, TrashFallback, TrashLook, TrashNumbered, ShellSound, Removing
<1>2. CASE TrashSameName
  <2> DEFINE next == [shell EXCEPT !.at = "fallback", !.name = Fallback]
  <2>1. /\ DOMAIN next = DOMAIN shell /\ next.at = "fallback"
        /\ next.order = shell.order /\ next.todo = shell.todo
    BY <1>1, IdleShape
  <2>2. MoveToTrash(next)
    BY <1>2 DEF TrashSameName
  <2> HIDE DEF next
  <2> QED BY <1>1, <2>1, <2>2, MoveToTrashStep DEF Removing
<1>3. CASE TrashFallback \/ TrashNumbered
  <2> DEFINE next == [shell EXCEPT !.at = "look"]
  <2>1. /\ DOMAIN next = DOMAIN shell /\ next.at = "look"
        /\ next.order = shell.order /\ next.todo = shell.todo
    BY <1>1, IdleShape
  <2>2. MoveToTrash(next)
    BY <1>3 DEF TrashFallback, TrashNumbered
  <2> HIDE DEF next
  <2> QED BY <1>1, <2>1, <2>2, MoveToTrashStep DEF Removing
<1>4. CASE TrashLook
  <2>1. CASE Finish
    BY <1>4, <2>1, FinishSound, NoChangeGrows DEF Advanced, TrashLook
  <2>2. CASE ~Finish
    <3>1. shell' = [shell EXCEPT !.at = "numbered", !.name = Numbered[LookForNumber]]
      BY <1>4, <2>2 DEF TrashLook
    <3>2. /\ DOMAIN shell' = DOMAIN shell /\ shell'.at = "numbered"
          /\ shell'.order = shell.order /\ shell'.todo = shell.todo
      BY <1>1, <3>1, IdleShape
    <3>3. ShellSound'
      BY <1>1, <3>2, KeepRemoving DEF Removing
    <3> QED BY <1>4, <3>3, NoChangeGrows DEF Advanced, TrashLook
  <2> QED BY <2>1, <2>2
<1> QED BY <1>2, <1>3, <1>4

(***************************************************************************)
(* The removal of a directory after rm -r, and mkdir.                      *)
(***************************************************************************)
LEMMA DirSteps ==
    ASSUME VaultInv, ShellSound, RemoveDir \/ MakeDir
    PROVE  Advanced
<1>1. TablesSound(db)
  BY DEF VaultInv
<1>2. CASE RemoveDir
  <2> DEFINE outcome == DeleteDir(db, Path.dir)
  <2>1. /\ outcome.status = "ok" => Grows(db, outcome.db, wall)
        /\ outcome.status # "ok" => outcome.db = db
    BY <1>1, DeleteDirFollows, DirRefusal
  <2>2. Ask(outcome) /\ Finish
    BY <1>2 DEF RemoveDir
  <2> HIDE DEF outcome
  <2> QED BY <2>1, <2>2, AskGrows, FinishSound DEF Advanced
<1>3. CASE MakeDir
  <2> DEFINE outcome == CreateDir(db, Path.dir, wall)
  <2>1. /\ outcome.status = "ok" => Grows(db, outcome.db, wall)
        /\ outcome.status # "ok" => outcome.db = db
    BY <1>1, CreateDirFollows, DirRefusal
  <2>2. Ask(outcome) /\ Finish
    BY <1>3 DEF MakeDir
  <2> HIDE DEF outcome
  <2> QED BY <2>1, <2>2, AskGrows, FinishSound DEF Advanced
<1> QED BY <1>2, <1>3

(***************************************************************************)
(* add and edit: the check, the uploads and the request.                   *)
(***************************************************************************)
LEMMA SaveSteps ==
    ASSUME VaultInv, ShellSound, Preflight \/ UploadFile \/ Save
    PROVE  Advanced
<1>1. Saves /\ DOMAIN shell = DOMAIN Idle
  BY DEF ShellSound, Preflight, UploadFile, Save
<1>2. CASE Preflight
  <2>1. CASE Finish
    BY <1>2, <2>1, FinishSound, NoChangeGrows DEF Advanced, Preflight
  <2>2. CASE ~Finish
    <3>1. shell' = [shell EXCEPT !.at = "upload", !.todo = shell.order.request.files]
      BY <1>2, <2>2 DEF Preflight
    <3>2. DOMAIN shell' = DOMAIN Idle /\ shell'.at = "upload" /\ shell'.order = shell.order
      BY <1>1, <3>1, IdleShape
    <3>3. ShellSound'
      BY <1>1, <3>2 DEF ShellSound, Saves, Removing
    <3> QED BY <1>2, <3>3, NoChangeGrows DEF Advanced, Preflight
  <2> QED BY <2>1, <2>2
<1>3. CASE UploadFile
  <2> DEFINE f == shell.todo[1][2]
             e == [db EXCEPT !.files = @ \cup {f}]
             outcome == Done(e)
  <2>1. Grows(db, e, wall)
    BY UploadFollows DEF VaultInv
  <2>2. Ask(outcome) /\ shell.at = "upload" /\ shell' = [shell EXCEPT !.todo = Tail(@)]
    BY <1>3 DEF UploadFile
  <2> HIDE DEF e
  <2>3. outcome.status = "ok" /\ outcome.db = e
    BY DEF Done, Outcome
  <2> HIDE DEF outcome
  <2>4. DOMAIN shell' = DOMAIN Idle /\ shell'.at = "upload" /\ shell'.order = shell.order
    BY <1>1, <2>2, IdleShape
  <2>5. ShellSound'
    BY <1>1, <2>4 DEF ShellSound, Saves, Removing
  <2>6. VaultInv' /\ Follows(db, db', wall) /\ Grows(db, db', wall)
    BY <2>1, <2>2, <2>3, AskGrows
  <2> QED BY <2>5, <2>6 DEF Advanced
<1>4. CASE Save
  <2> DEFINE request == shell.order.request
             created == CreateItem(db, Path.dir, Path.item, request, wall)
             updated == UpdateItem(db, Path.dir, Path.item, request, wall)
             outcome == IF shell.order.op = "add" THEN created ELSE updated
  <2>1. IsList(request.files)
    BY <1>1, OrderAssumption DEF Saves
  <2>2. TablesSound(db) /\ wall \in Nat
    BY DEF VaultInv
  <2>3. Ask(outcome) /\ Finish
    BY <1>4 DEF Save
  <2> HIDE DEF request
  <2>4. /\ created.status = "ok" => Grows(db, created.db, wall)
        /\ created.status # "ok" => created.db = db
    BY <2>1, <2>2, CreateItemFollows, CreateItemRefusal
  <2>5. /\ updated.status = "ok" => Grows(db, updated.db, wall)
        /\ updated.status # "ok" => updated.db = db
    BY <2>1, <2>2, UpdateItemFollows, UpdateItemRefusal
  <2> HIDE DEF created, updated
  <2>6. /\ outcome.status = "ok" => Grows(db, outcome.db, wall)
        /\ outcome.status # "ok" => outcome.db = db
    BY <2>4, <2>5
  <2> HIDE DEF outcome
  <2> QED BY <2>3, <2>6, AskGrows, FinishSound DEF Advanced
<1> QED BY <1>2, <1>3, <1>4

(***************************************************************************)
(* Every step of a command.                                                *)
(***************************************************************************)
LEMMA CommandAdvances ==
    ASSUME VaultInv, ShellSound, CommandStep
    PROVE  Advanced
BY PlanLiteralStep, PlanPageStep, TransferStep, RemoveForGoodStep, InspectStep, TrashSteps,
   DirSteps, SaveSteps DEF CommandStep

-----------------------------------------------------------------------------
(***************************************************************************)
(* The invariant: a sound vault and a sound command.                       *)
(***************************************************************************)
CommandInv == VaultInv /\ ShellSound

(***************************************************************************)
(* The step of NothingVanishes.                                            *)
(***************************************************************************)
VanishStep ==
    /\ \/ DOMAIN db.items \subseteq DOMAIN db'.items
       \/ MayDestroy
       \/ shell' = shell /\ (Delete \/ Clean)
    /\ \A i \in DOMAIN db.items \cap DOMAIN db'.items :
           /\ \/ DOMAIN db.items[i].versions \subseteq DOMAIN db'.items[i].versions
              \/ /\ Clean
                 /\ DOMAIN db.items[i].versions \ DOMAIN db'.items[i].versions
                    \subseteq Outlived(i)
           /\ db.dirs[db.items[i].dir].name = Trash /\ SamePlace(i)
              => DOMAIN db'.items[i].versions \subseteq DOMAIN db.items[i].versions

(***************************************************************************)
(* A cleanup takes of an item that stays only versions that outlived the   *)
(* retention period.                                                       *)
(***************************************************************************)
LEMMA CleanOutlived ==
    ASSUME VaultInv, Clean, NEW i \in DOMAIN db.items \cap DOMAIN db'.items
    PROVE  DOMAIN db.items[i].versions \ DOMAIN db'.items[i].versions \subseteq Outlived(i)
<1>1. db' = CleanUp(db, wall).db
  BY DEF Clean, Apply
<1>2. DOMAIN db.items[i].versions \ DOMAIN db'.items[i].versions
      \subseteq ExpiredVersions(db.items[i], wall)
  BY <1>1, CleanUpFollows DEF VaultInv
<1>3. ASSUME NEW v \in ExpiredVersions(db.items[i], wall)
      PROVE  v \in Outlived(i)
  <2>1. /\ v \in DOMAIN db.items[i].versions /\ v # db.items[i].latest /\ VersionRetention > 0
        /\ db.items[i].versions[v].created <= wall - VersionRetention
    BY <1>3 DEF ExpiredVersions, Cutoff
  <2>2. db.items[i].versions[v].created \in Nat /\ wall \in Nat
    BY <2>1 DEF VaultInv, TablesSound, ItemsSound, ItemSound, VersionSound
  <2> QED BY <2>1, <2>2, VaultAssumption DEF Outlived
<1> QED BY <1>2, <1>3

(***************************************************************************)
(* Each kind of step is one that NothingVanishes allows.                   *)
(***************************************************************************)
LEMMA VanishRule ==
    ASSUME VaultInv, TablesSound(db), NEW now, Follows(db, db', now),
           \/ Keeps(db.items, db'.items)
           \/ MayDestroy /\ Spares(db.items, db'.items)
           \/ shell' = shell /\ Delete /\ Spares(db.items, db'.items)
           \/ shell' = shell /\ Clean
    PROVE  VanishStep
<1>1. \/ DOMAIN db.items \subseteq DOMAIN db'.items
      \/ MayDestroy
      \/ shell' = shell /\ (Delete \/ Clean)
  BY DEF Keeps
<1>2. ASSUME NEW i \in DOMAIN db.items \cap DOMAIN db'.items
      PROVE  \/ DOMAIN db.items[i].versions \subseteq DOMAIN db'.items[i].versions
             \/ /\ Clean
                /\ DOMAIN db.items[i].versions \ DOMAIN db'.items[i].versions
                   \subseteq Outlived(i)
  BY CleanOutlived DEF Keeps, Spares
<1>3. ASSUME NEW i \in DOMAIN db.items \cap DOMAIN db'.items,
             db.dirs[db.items[i].dir].name = Trash
      PROVE  DOMAIN db'.items[i].versions \subseteq DOMAIN db.items[i].versions
  <2>1. db.items[i].dir = 1
    BY <1>3 DEF TablesSound, DirsSound, ItemsHoused
  <2> QED BY <2>1 DEF Follows, TrashFollows
<1> HIDE DEF Delete, Clean, MayDestroy
<1> QED BY <1>1, <1>2, <1>3 DEF VanishStep

(***************************************************************************)
(* Every step keeps the invariant, follows the rules and lets nothing      *)
(* vanish.                                                                 *)
(***************************************************************************)
LEMMA CommandInvStep ==
    ASSUME CommandInv, [NextCommands]_commandVars
    PROVE  CommandInv' /\ Follows(db, db', wall) /\ VanishStep
<1>1. VaultInv /\ ShellSound /\ TablesSound(db)
  BY DEF CommandInv, VaultInv
<1>2. CASE Begin
  <2>1. VaultInv' /\ Follows(db, db', wall) /\ Grows(db, db', wall)
    BY <1>1, <1>2, NoChangeGrows DEF Begin
  <2> QED BY <1>1, <1>2, <2>1, BeginSound, VanishRule DEF CommandInv, Grows
<1>3. CASE CommandStep
  BY <1>1, <1>3, CommandAdvances, VanishRule DEF CommandInv, Advanced, Grows
<1>4. CASE Interrupt
  <2>1. VaultInv' /\ Follows(db, db', wall) /\ Grows(db, db', wall)
    BY <1>1, <1>4, NoChangeGrows DEF Interrupt
  <2>2. ShellSound'
    BY <1>4, FinishSound DEF Interrupt
  <2> QED BY <1>1, <2>1, <2>2, VanishRule DEF CommandInv, Grows
<1>5. CASE Others \/ UNCHANGED commandVars
  <2>1. [Next]_vars /\ shell' = shell
    BY <1>5 DEF Others, commandVars
  <2>2. /\ VaultInv' /\ Follows(db, db', wall)
        /\ Grows(db, db', wall) \/ Delete \/ Clean
    BY <1>1, <2>1, VaultStep
  <2>3. Delete => Spares(db.items, db'.items)
    BY <1>1, DeleteStep
  <2>4. ShellSound'
    BY <1>1, <2>1 DEF ShellSound, Planning, Removal, Saves, Path, FromDir
  <2>5. VanishStep
    BY <1>1, <2>1, <2>2, <2>3, VanishRule DEF Grows
  <2> QED BY <2>2, <2>4, <2>5 DEF CommandInv
<1> QED BY <1>2, <1>3, <1>4, <1>5 DEF NextCommands

(***************************************************************************)
(* In every execution, of any commands beside any requests, cleanups and   *)
(* clock changes, the vault and the command are sound.                     *)
(***************************************************************************)
THEOREM VaultInvariant == CommandSpec => []CommandInv
<1>1. InitCommands => CommandInv
  <2>1. shell = Idle => ShellSound
    BY IdleShape DEF ShellSound, Removing
  <2> QED BY <2>1, VaultInit DEF InitCommands, CommandInv
<1>2. CommandInv /\ [NextCommands]_commandVars => CommandInv'
  BY CommandInvStep
<1> QED BY <1>1, <1>2, PTL DEF CommandSpec

(***************************************************************************)
(* Requests, cleanups and commands, in any order, leave every item with    *)
(* the versions its pointers name, the latest being the greatest by        *)
(* number, so that a cleanup always commits; and with files that are       *)
(* there, each under one name.                                             *)
(***************************************************************************)
THEOREM RowsStaySound == CommandSpec => []RowsSound
<1>1. CommandInv => RowsSound
  BY SoundRows DEF CommandInv
<1> QED BY <1>1, VaultInvariant, PTL

(***************************************************************************)
(* A version is never changed and its number never given to another.       *)
(***************************************************************************)
THEOREM HistoryStands == CommandSpec => HistoryIsAppendOnly
<1>1. CommandInv /\ [NextCommands]_commandVars => [HistoryStep]_vars
  BY CommandInvStep, FollowedHistory DEF CommandInv, VaultInv
<1>2. CommandSpec => [][HistoryStep]_vars
  BY <1>1, VaultInvariant, PTL DEF CommandSpec
<1> QED BY <1>2, PTL DEF HistoryIsAppendOnly, HistoryStep

(***************************************************************************)
(* The step of TrashKeepsItsPromise.                                       *)
(***************************************************************************)
PromiseStep ==
    Clean => \A i \in DOMAIN db.items \ DOMAIN db'.items :
                 /\ db.dirs[db.items[i].dir].name = Trash
                 /\ real - placed[i] >= TrashRetention

(***************************************************************************)
(* An item goes only by its deletion, the end of its time in the Trash, in *)
(* real time though the wall clock is set back, or an rm that may delete;  *)
(* a version only by a cleanup, when it has been followed by another and   *)
(* outlived the retention period; and the vault's own directories and keys *)
(* stand.                                                                  *)
(***************************************************************************)
THEOREM NothingLost == CommandSpec => NothingIsLost
<1>1. CommandInv /\ [NextCommands]_commandVars => [VanishStep]_commandVars
  BY CommandInvStep
<1>2. CommandInv => [PromiseStep]_vars
  BY KeptPromise DEF CommandInv, PromiseStep
<1>3. CommandInv /\ [NextCommands]_commandVars => [ReservedStep]_vars
  BY CommandInvStep, FollowedHistory DEF CommandInv, VaultInv
<1>4. CommandSpec => [][VanishStep]_commandVars
  BY <1>1, VaultInvariant, PTL DEF CommandSpec
<1>5. CommandSpec => [][PromiseStep]_vars
  BY <1>2, VaultInvariant, PTL DEF CommandSpec
<1>6. CommandSpec => [][ReservedStep]_vars
  BY <1>3, VaultInvariant, PTL DEF CommandSpec
<1>7. NothingVanishes <=> [][VanishStep]_commandVars
  BY PTL DEF NothingVanishes, VanishStep
<1>8. TrashKeepsItsPromise <=> [][PromiseStep]_vars
  BY PTL DEF TrashKeepsItsPromise, PromiseStep
<1>9. ReservedStand <=> [][ReservedStep]_vars
  BY PTL DEF ReservedStand, ReservedStep
<1> QED BY <1>4, <1>5, <1>6, <1>7, <1>8, <1>9, PTL DEF NothingIsLost

-----------------------------------------------------------------------------
(***************************************************************************)
(* What an item or a reference shows of a version, once its row is found.  *)
(***************************************************************************)
Content(asked, row) ==
    IF asked.kind = "item" THEN ItemShows(row.fields, row.files)
    ELSE IF asked.field \in DOMAIN row.fields \cup DOMAIN row.files
    THEN ReferenceShows(row.fields, row.files, asked.field)
    ELSE Refused("not_found")

(***************************************************************************)
(* The rows of the items in a directory under a name.                      *)
(***************************************************************************)
Matches(d, dir, name) == {i \in DOMAIN d.items : d.items[i].dir = dir /\ d.items[i].name = name}

(***************************************************************************)
(* A read of the whole at once finds what its name leads to: the one row   *)
(* of that name in the one directory of its name.                          *)
(***************************************************************************)
LEMMA Found ==
    ASSUME NEW d, TablesSound(d), NEW dirName, NEW name, NEW dir \in DOMAIN d.dirs,
           d.dirs[dir].name = dirName
    PROVE  /\ HasDir(d, dirName) /\ DirId(d, dirName) = dir
           /\ ItemsNamed(d, dirName, name) = Matches(d, dir, name)
           /\ \A i \in Matches(d, dir, name) :
                  ItemId(d, dirName, name) = i /\ Matches(d, dir, name) = {i}
<1>1. HasDir(d, dirName)
  BY DEF HasDir, DirsNamed
<1>2. DirId(d, dirName) = dir
  BY <1>1, NamedDir DEF TablesSound, DirsSound
<1>3. ItemsNamed(d, dirName, name) = Matches(d, dir, name)
  BY <1>2 DEF ItemsNamed, Matches
<1>4. ASSUME NEW i \in Matches(d, dir, name)
      PROVE  ItemId(d, dirName, name) = i /\ Matches(d, dir, name) = {i}
  <2>1. \A j \in Matches(d, dir, name) : j = i
    BY <1>4 DEF Matches, TablesSound, ItemsSound, PathsUnique, SamePath
  <2>2. Matches(d, dir, name) = {i}
    BY <1>4, <2>1
  <2> QED BY <1>3, <2>2 DEF ItemId
<1> QED BY <1>1, <1>2, <1>3, <1>4

(***************************************************************************)
(* The answer at once, by the kind of the read.                            *)
(***************************************************************************)
Got(d, asked) == GetItem(d, asked.dir, asked.name, asked.version, "raw", FALSE)

GotReference(d, asked) ==
    GetReference(d, asked.dir, asked.name, asked.field, asked.version, TRUE, FALSE)

LEMMA AtOnceByKind ==
    ASSUME NEW d, NEW asked
    PROVE  /\ asked.kind = "item" =>
                  AtOnce(d, asked) =
                      IF Got(d, asked).status # "ok" THEN Got(d, asked)
                      ELSE Answer("ok", [fields |-> Got(d, asked).shows.fields,
                                         files |-> Got(d, asked).shows.files])
           /\ asked.kind = "reference" => AtOnce(d, asked) = GotReference(d, asked)
BY DEF AtOnce, Got, GotReference

(***************************************************************************)
(* Without a row that is not hidden there is nothing to show.              *)
(***************************************************************************)
LEMMA AtOnceMissing ==
    ASSUME NEW d, TablesSound(d), NEW asked, asked.kind \in {"item", "reference"},
           \/ ~HasDir(d, asked.dir)
           \/ \E dir \in DOMAIN d.dirs :
                 /\ d.dirs[dir].name = asked.dir
                 /\ \A i \in Matches(d, dir, asked.name) : "hidden" \in d.items[i].flags
    PROVE  AtOnce(d, asked) = Refused("not_found")
<1>1. ~HasDir(d, asked.dir) \/ ~HasPublicItem(d, asked.dir, asked.name)
  <2> SUFFICES ASSUME HasDir(d, asked.dir), NEW dir \in DOMAIN d.dirs,
                      d.dirs[dir].name = asked.dir,
                      \A i \in Matches(d, dir, asked.name) : "hidden" \in d.items[i].flags,
                      HasPublicItem(d, asked.dir, asked.name)
               PROVE  FALSE
    OBVIOUS
  <2>1. ItemsNamed(d, asked.dir, asked.name) = Matches(d, dir, asked.name)
    BY Found
  <2>2. \E i \in ItemsNamed(d, asked.dir, asked.name) : TRUE
    BY DEF HasPublicItem, HasItem
  <2>3. ItemId(d, asked.dir, asked.name) \in Matches(d, dir, asked.name)
    BY SMTT(60), <2>1, <2>2 DEF ItemId
  <2> QED BY <2>3 DEF HasPublicItem
<1>2. Got(d, asked) = Refused("not_found")
  BY ZenonT(90), <1>1 DEF GetItem, Got
<1>3. GotReference(d, asked) = Refused("not_found")
  BY <1>1 DEF GetReference, GotReference
<1>4. Refused("not_found").status # "ok"
  BY DEF Refused, Answer
<1> QED BY <1>2, <1>3, <1>4, AtOnceByKind

(***************************************************************************)
(* With one, the answer is what the version asked for shows, if there is   *)
(* such a version.                                                         *)
(***************************************************************************)
LEMMA AtOnceFound ==
    ASSUME NEW d, TablesSound(d), NEW asked, asked.kind \in {"item", "reference"},
           NEW dir \in DOMAIN d.dirs, d.dirs[dir].name = asked.dir,
           NEW i \in Matches(d, dir, asked.name), "hidden" \notin d.items[i].flags
    PROVE  AtOnce(d, asked) =
               IF AskedVersion(d.items[i], asked.version) \in DOMAIN d.items[i].versions
               THEN Content(asked, d.items[i].versions[AskedVersion(d.items[i], asked.version)])
               ELSE Refused("not_found")
<1> DEFINE item == d.items[i]
           v    == AskedVersion(item, asked.version)
           row  == item.versions[v]
<1>1. /\ HasDir(d, asked.dir)
      /\ ItemId(d, asked.dir, asked.name) = i
      /\ HasItem(d, asked.dir, asked.name)
  BY Found DEF HasItem
<1>2. HasPublicItem(d, asked.dir, asked.name)
  BY <1>1 DEF HasPublicItem
<1>3. ItemSound(item, d.files) /\ item.flags = {}
  BY DEF TablesSound, ItemsSound, ItemSound, Matches
<1>4. v \in DOMAIN item.versions => IsFunction(row.fields)
  BY <1>3 DEF ItemSound, VersionSound
<1> HIDE DEF item, v, row
<1>5. CASE asked.kind = "item"
  <2>1. Got(d, asked) =
            IF v \notin DOMAIN item.versions THEN Refused("not_found")
            ELSE Answer("ok", [fields |-> [f \in DOMAIN row.fields |-> row.fields[f]],
                               files |-> DOMAIN row.files,
                               total |-> Cardinality(DOMAIN item.versions)])
    BY <1>1, <1>2, <1>3 DEF Got, GetItem, Shown, item, v, row
  <2>2. CASE v \in DOMAIN item.versions
    <3> DEFINE got == Got(d, asked)
    <3>3. /\ got.status = "ok"
          /\ got.shows.fields = row.fields
          /\ got.shows.files = DOMAIN row.files
      BY <1>4, <2>1, <2>2 DEF Answer, IsFunction
    <3>4. AtOnce(d, asked) = IF got.status # "ok" THEN got
                             ELSE Answer("ok", [fields |-> got.shows.fields,
                                                files |-> got.shows.files])
      BY <1>5, AtOnceByKind
    <3> HIDE DEF got
    <3>1. AtOnce(d, asked) = Answer("ok", [fields |-> row.fields, files |-> DOMAIN row.files])
      BY <3>3, <3>4
    <3>2. AtOnce(d, asked) = ItemShows(row.fields, row.files)
      BY <3>1 DEF ItemShows
    <3> QED BY <1>5, <2>2, <3>2 DEF Content, row, v, item
  <2>3. CASE v \notin DOMAIN item.versions
    <3>1. AtOnce(d, asked) = Refused("not_found")
      <4>1. Got(d, asked) = Refused("not_found") /\ Refused("not_found").status # "ok"
        BY <2>1, <2>3 DEF Answer, Refused
      <4> QED BY <1>5, <4>1, AtOnceByKind
    <3> QED BY <2>3, <3>1 DEF v, item
  <2> QED BY <2>2, <2>3
<1>6. CASE asked.kind = "reference"
  <2>1. AtOnce(d, asked) = GotReference(d, asked)
    BY <1>6, AtOnceByKind
  <2>2. AtOnce(d, asked) =
            IF v \notin DOMAIN item.versions THEN Refused("not_found")
            ELSE IF asked.field \in DOMAIN row.fields
            THEN Answer("ok", [data |-> row.fields[asked.field]])
            ELSE IF asked.field \in DOMAIN row.files
            THEN Answer("ok", [file |-> row.files[asked.field]])
            ELSE Refused("not_found")
    BY <1>1, <1>2, <1>3, <2>1 DEF GotReference, GetReference, Shown, item, v, row
  <2>3. AtOnce(d, asked) =
            IF v \in DOMAIN item.versions THEN Content(asked, row) ELSE Refused("not_found")
    BY <1>6, <2>2 DEF Content, ReferenceShows
  <2> QED BY <2>3 DEF row, v, item
<1> QED BY <1>5, <1>6

-----------------------------------------------------------------------------
(***************************************************************************)
(* A read has always the same parts.                                       *)
(***************************************************************************)
ReadShape(r) ==
    r = [at |-> r.at, asked |-> r.asked, dir |-> r.dir, item |-> r.item, found |-> r.found,
         fields |-> r.fields, answer |-> r.answer, could |-> r.could, steady |-> r.steady]

Searching == {"dir", "item", "version", "check", "fields", "files"}

(***************************************************************************)
(* What a read has found so far, in the tables d: its directory by name;   *)
(* before it looks for the version, that the item is not hidden; then a    *)
(* version of which the content was, at one moment, what was asked for;    *)
(* and at the end the fields of that version.                              *)
(***************************************************************************)
HasFoundDir(d, r) == r.dir \in DOMAIN d.dirs /\ d.dirs[r.dir].name = r.asked.dir

InPublic(d, r) ==
    \A i \in Matches(d, r.dir, r.asked.name) : "hidden" \notin d.items[i].flags

HasFoundVersion(d, r) ==
    /\ r.item \in DOMAIN d.items
    /\ r.found \in DOMAIN d.items[r.item].versions
    /\ Content(r.asked, d.items[r.item].versions[r.found]) \in r.could

HasFields(d, r) ==
    /\ r.fields = d.items[r.item].versions[r.found].fields
    /\ r.asked.kind = "item" \/ r.asked.field \notin DOMAIN r.fields

Situated(d, r) ==
    /\ r.at = "dir" => r.dir = 0
    /\ r.at \in {"dir", "item", "version"} => r.found = 0
    /\ r.at \in Searching \ {"dir"} => HasFoundDir(d, r)
    /\ r.at = "version" => InPublic(d, r)
    /\ r.at \in {"check", "fields", "files"} => HasFoundVersion(d, r)
    /\ r.at = "files" => HasFields(d, r)

(***************************************************************************)
(* The invariant of the read: what is true at once has been noted, and     *)
(* unless the read has been overtaken it has found what it says.           *)
(***************************************************************************)
ReadSound ==
    \/ read = NoRead
    \/ /\ ReadShape(read)
       /\ read.asked \in Reads
       /\ read.at \in Searching \cup {"snapshot", "answered"}
       /\ read.at \in Searching => read.asked.kind \in {"item", "reference"}
       /\ read.at # "answered" => AtOnce(db, read.asked) \in read.could
       /\ read.at \in Searching /\ read.steady => Situated(db, read)
       /\ ReadsAreWhole

ReadInv == VaultInv /\ ReadSound

(***************************************************************************)
(* A read that has not begun is idle, and only such a one.                 *)
(***************************************************************************)
LEMMA ReadAt ==
    ASSUME ReadSound
    PROVE  read.at = "idle" <=> read = NoRead
BY DEF ReadSound, NoRead, Searching

(***************************************************************************)
(* An answer that could be given at one moment is sound.                   *)
(***************************************************************************)
LEMMA ReplySound ==
    ASSUME VaultInv, ReadSound, read # NoRead, NEW answer, Reply(answer), UNCHANGED vars,
           read.steady \/ read.asked.kind = "export" => answer \in read.could
    PROVE  ReadSound'
<1>1. ReadShape(read) /\ read.asked \in Reads
  BY DEF ReadSound
<1>2. read' = [at |-> "answered", asked |-> read.asked, dir |-> read.dir, item |-> read.item,
               found |-> read.found, fields |-> read.fields, answer |-> answer,
               could |-> read.could, steady |-> read.steady]
  BY <1>1 DEF Reply, ReadShape
<1>3. /\ read'.at = "answered" /\ read'.asked = read.asked
      /\ read'.answer = answer /\ read'.could = read.could
      /\ read'.steady = read.steady
      /\ ReadShape(read)'
  BY <1>2 DEF ReadShape
<1>4. ReadsAreWhole'
  BY <1>3 DEF ReadsAreWhole
<1> QED BY <1>1, <1>3, <1>4 DEF ReadSound, Searching

(***************************************************************************)
(* A read that goes on, having found what it says, is sound.               *)
(***************************************************************************)
LEMMA GoOnSound ==
    ASSUME ReadSound, read # NoRead, read.at \in Searching, UNCHANGED vars, ReadShape(read)',
           read'.at \in Searching, read'.asked = read.asked, read'.could = read.could,
           read'.steady = read.steady, read.steady => Situated(db, read')
    PROVE  ReadSound'
<1>1. /\ read.asked \in Reads /\ read.asked.kind \in {"item", "reference"}
      /\ AtOnce(db, read.asked) \in read.could
  BY DEF ReadSound, Searching
<1>2. db' = db
  BY DEF vars
<1>3. AtOnce(db', read'.asked) \in read'.could
  BY <1>1, <1>2
<1>4. ReadsAreWhole'
  BY DEF ReadsAreWhole, Searching
<1> QED BY <1>1, <1>2, <1>3, <1>4 DEF ReadSound

(***************************************************************************)
(* A read begins with what it could answer at once.                        *)
(***************************************************************************)
LEMMA BeginReadSound ==
    ASSUME BeginRead
    PROVE  ReadSound'
<1>1. PICK asked \in Reads :
        read' = [at |-> IF asked.kind = "export" THEN "snapshot" ELSE "dir",
                 asked |-> asked, dir |-> 0, item |-> 0, found |-> 0, fields |-> None,
                 answer |-> Refused("none"), could |-> {AtOnce(db, asked)}, steady |-> TRUE]
  BY DEF BeginRead
<1>2. /\ read'.at = IF asked.kind = "export" THEN "snapshot" ELSE "dir"
      /\ read'.asked = asked /\ read'.dir = 0 /\ read'.found = 0
      /\ read'.could = {AtOnce(db, asked)}
      /\ ReadShape(read)'
  BY <1>1 DEF ReadShape
<1>3. asked.kind \in {"item", "reference", "export"}
  BY ReadsAssumption
<1>4. AtOnce(db', read'.asked) \in read'.could
  BY <1>2 DEF BeginRead, Reading, vars
<1>5. Situated(db', read')
  BY <1>2 DEF Situated, Searching
<1>6. ReadsAreWhole'
  BY <1>2 DEF ReadsAreWhole
<1> QED BY <1>2, <1>3, <1>4, <1>5, <1>6 DEF ReadSound, Searching

(***************************************************************************)
(* What is known of a read that searches.                                  *)
(***************************************************************************)
LEMMA SearchingRead ==
    ASSUME VaultInv, ReadSound, NEW at \in Searching, Reading(at)
    PROVE  /\ read # NoRead /\ ReadShape(read) /\ read.at = at /\ TablesSound(db)
           /\ read.asked.kind \in {"item", "reference"}
           /\ AtOnce(db, read.asked) \in read.could
           /\ read.steady => Situated(db, read)
           /\ Rows = Matches(db, read.dir, read.asked.name)
           /\ UNCHANGED vars /\ db' = db
<1>1. read.at = at /\ read # NoRead
  BY ReadAt DEF Reading, Searching
<1>2. Rows = Matches(db, read.dir, read.asked.name)
  BY DEF Rows, Matches
<1> QED BY <1>1, <1>2 DEF ReadSound, Reading, vars, VaultInv, Searching

(***************************************************************************)
(* dir_id_in: the directory of that name, or there is none now.            *)
(***************************************************************************)
LEMMA FindDirSound ==
    ASSUME VaultInv, ReadSound, FindDir
    PROVE  ReadSound'
<1>1. /\ read # NoRead /\ ReadShape(read) /\ read.at = "dir" /\ TablesSound(db)
      /\ read.asked.kind \in {"item", "reference"}
      /\ AtOnce(db, read.asked) \in read.could
      /\ read.steady => Situated(db, read)
      /\ UNCHANGED vars
  BY SearchingRead DEF FindDir, Searching
<1>2. CASE HasDir(db, read.asked.dir)
  <2> DEFINE dir == DirId(db, read.asked.dir)
  <2>1. read' = [read EXCEPT !.at = "item", !.dir = dir]
    BY <1>2 DEF FindDir
  <2>2. dir \in DOMAIN db.dirs /\ db.dirs[dir].name = read.asked.dir
    BY <1>2, NamedDir
  <2> HIDE DEF dir
  <2>3. read' = [at |-> "item", asked |-> read.asked, dir |-> dir, item |-> read.item,
                 found |-> read.found, fields |-> read.fields, answer |-> read.answer,
                 could |-> read.could, steady |-> read.steady]
    BY <1>1, <2>1 DEF ReadShape
  <2>4. /\ read'.at = "item" /\ read'.asked = read.asked /\ read'.dir = dir
        /\ read'.found = read.found /\ read'.could = read.could
        /\ read'.steady = read.steady
        /\ ReadShape(read)'
    BY <2>3 DEF ReadShape
  <2>5. read.steady => Situated(db, read')
    BY <1>1, <2>2, <2>4 DEF Situated, HasFoundDir
  <2> QED BY <1>1, <2>4, <2>5, GoOnSound DEF Searching
<1>3. CASE ~HasDir(db, read.asked.dir)
  <2>1. Reply(Refused("not_found"))
    BY <1>3 DEF FindDir
  <2>2. AtOnce(db, read.asked) = Refused("not_found")
    BY <1>1, <1>3, AtOnceMissing
  <2> QED BY <1>1, <2>1, <2>2, ReplySound
<1> QED BY <1>2, <1>3

(***************************************************************************)
(* public_item_row_in: the one row of that name is not hidden, or there is *)
(* nothing to show now.                                                    *)
(***************************************************************************)
LEMMA FindItemSound ==
    ASSUME VaultInv, ReadSound, FindItem
    PROVE  ReadSound'
<1>1. /\ read # NoRead /\ ReadShape(read) /\ read.at = "item" /\ TablesSound(db)
      /\ read.asked.kind \in {"item", "reference"}
      /\ AtOnce(db, read.asked) \in read.could
      /\ read.steady => Situated(db, read)
      /\ Rows = Matches(db, read.dir, read.asked.name)
      /\ UNCHANGED vars
  BY SearchingRead DEF FindItem, Searching
<1>a. read.steady => HasFoundDir(db, read)
  BY <1>1 DEF Situated, Searching
<1>2. CASE \E i \in Rows : "hidden" \notin db.items[i].flags
  <2>1. read' = [read EXCEPT !.at = "version"]
    BY <1>2 DEF FindItem
  <2>2. PICK i \in Matches(db, read.dir, read.asked.name) : "hidden" \notin db.items[i].flags
    BY <1>1, <1>2
  <2>3. read.steady => InPublic(db, read)
    BY <1>1, <1>a, <2>2, Found DEF HasFoundDir, InPublic
  <2>4. read' = [at |-> "version", asked |-> read.asked, dir |-> read.dir, item |-> read.item,
                 found |-> read.found, fields |-> read.fields, answer |-> read.answer,
                 could |-> read.could, steady |-> read.steady]
    BY <1>1, <2>1 DEF ReadShape
  <2>5. /\ read'.at = "version" /\ read'.asked = read.asked /\ read'.dir = read.dir
        /\ read'.found = read.found /\ read'.could = read.could
        /\ read'.steady = read.steady
        /\ ReadShape(read)'
    BY <2>4 DEF ReadShape
  <2>6. read.steady => Situated(db, read')
    BY <1>1, <1>a, <2>3, <2>5 DEF Situated, HasFoundDir, InPublic
  <2> QED BY <1>1, <2>5, <2>6, GoOnSound DEF Searching
<1>3. CASE ~(\E i \in Rows : "hidden" \notin db.items[i].flags)
  <2>1. Reply(Refused("not_found"))
    BY <1>3 DEF FindItem
  <2>2. read.steady => AtOnce(db, read.asked) = Refused("not_found")
    BY <1>1, <1>3, <1>a, AtOnceMissing DEF HasFoundDir
  <2>3. read.asked.kind # "export"
    BY <1>1
  <2> QED BY <1>1, <2>1, <2>2, <2>3, ReplySound
<1> QED BY <1>2, <1>3

(***************************************************************************)
(* item_version_row: the row of that name now has the version asked for,   *)
(* and so this is what it shows; or it has not, and nothing is shown.      *)
(***************************************************************************)
LEMMA FindVersionSound ==
    ASSUME VaultInv, ReadSound, FindVersion
    PROVE  ReadSound'
<1> DEFINE Asked(i) == AskedVersion(db.items[i], read.asked.version)
           Has(i)   == Asked(i) \in DOMAIN db.items[i].versions
<1>1. /\ read # NoRead /\ ReadShape(read) /\ read.at = "version" /\ TablesSound(db)
      /\ read.asked.kind \in {"item", "reference"}
      /\ AtOnce(db, read.asked) \in read.could
      /\ read.steady => Situated(db, read)
      /\ Rows = Matches(db, read.dir, read.asked.name)
      /\ UNCHANGED vars
  BY SearchingRead DEF FindVersion, Searching
<1>a. read.steady => HasFoundDir(db, read) /\ InPublic(db, read)
  BY <1>1 DEF Situated, Searching
<1>2. CASE \E i \in Rows : Has(i)
  <2>1. PICK i \in Rows : read' = [read EXCEPT !.at = "check", !.item = i, !.found = Asked(i)]
    BY <1>2 DEF FindVersion
  <2> DEFINE v == Asked(i)
  <2>2. ASSUME read.steady
        PROVE  /\ v \in DOMAIN db.items[i].versions
               /\ Content(read.asked, db.items[i].versions[v]) \in read.could
    <3>1. read.dir \in DOMAIN db.dirs /\ db.dirs[read.dir].name = read.asked.dir
      BY <1>a, <2>2 DEF HasFoundDir
    <3>2. Matches(db, read.dir, read.asked.name) = {i}
      BY <1>1, <3>1, Found
    <3>3. v \in DOMAIN db.items[i].versions
      <4>1. PICK j \in Rows : Has(j)
        BY <1>2
      <4>2. j = i
        BY <1>1, <3>2, <4>1
      <4> QED BY <4>1, <4>2
    <3>4. "hidden" \notin db.items[i].flags
      BY <1>a, <2>2, <3>2 DEF InPublic
    <3>5. AtOnce(db, read.asked) = Content(read.asked, db.items[i].versions[v])
      BY <1>1, <3>1, <3>2, <3>3, <3>4, AtOnceFound
    <3> QED BY <1>1, <3>3, <3>5
  <2>3. i \in DOMAIN db.items
    BY DEF Rows
  <2> HIDE DEF v
  <2>4. read' = [at |-> "check", asked |-> read.asked, dir |-> read.dir, item |-> i,
                 found |-> v, fields |-> read.fields, answer |-> read.answer,
                 could |-> read.could, steady |-> read.steady]
    BY <1>1, <2>1 DEF ReadShape, v
  <2>5. /\ read'.at = "check" /\ read'.asked = read.asked /\ read'.dir = read.dir
        /\ read'.item = i /\ read'.found = v /\ read'.could = read.could
        /\ read'.steady = read.steady
        /\ ReadShape(read)'
    BY <2>4 DEF ReadShape
  <2>6. read.steady => Situated(db, read')
    BY <1>1, <1>a, <2>2, <2>3, <2>5 DEF Situated, HasFoundDir, HasFoundVersion
  <2> QED BY <1>1, <2>5, <2>6, GoOnSound DEF Searching
<1>3. CASE ~(\E i \in Rows : Has(i))
  <2>1. Reply(Refused("not_found"))
    BY <1>3 DEF FindVersion
  <2>2. ASSUME read.steady PROVE AtOnce(db, read.asked) = Refused("not_found")
    <3>1. read.dir \in DOMAIN db.dirs /\ db.dirs[read.dir].name = read.asked.dir
      BY <1>a, <2>2 DEF HasFoundDir
    <3>2. CASE Rows = {}
      <4>1. Matches(db, read.dir, read.asked.name) = {}
        BY <1>1, <3>2
      <4>2. \A i \in Matches(db, read.dir, read.asked.name) : "hidden" \in db.items[i].flags
        BY <4>1
      <4>3. \E dir \in DOMAIN db.dirs :
                /\ db.dirs[dir].name = read.asked.dir
                /\ \A i \in Matches(db, dir, read.asked.name) : "hidden" \in db.items[i].flags
        BY <3>1, <4>2
      <4> QED BY <1>1, <4>3, AtOnceMissing
    <3>3. CASE Rows # {}
      <4>1. PICK i \in Rows : TRUE
        BY <3>3
      <4>2. "hidden" \notin db.items[i].flags
        BY <1>1, <1>a, <2>2, <4>1 DEF InPublic
      <4>3. ~Has(i)
        BY <1>3
      <4> QED BY <1>1, <3>1, <4>1, <4>2, <4>3, AtOnceFound
    <3> QED BY <3>2, <3>3
  <2>3. read.asked.kind # "export"
    BY <1>1
  <2> QED BY <1>1, <2>1, <2>2, <2>3, ReplySound
<1> QED BY <1>2, <1>3

(***************************************************************************)
(* item_fields_for_version finds the version still there, unless it was    *)
(* removed meanwhile.                                                      *)
(***************************************************************************)
LEMMA CheckVersionSound ==
    ASSUME VaultInv, ReadSound, CheckVersion
    PROVE  ReadSound'
<1>1. /\ read # NoRead /\ ReadShape(read) /\ read.at = "check"
      /\ read.asked.kind \in {"item", "reference"}
      /\ read.steady => Situated(db, read)
      /\ UNCHANGED vars
  BY SearchingRead DEF CheckVersion, Searching
<1>2. read.steady => HasFoundDir(db, read) /\ HasFoundVersion(db, read)
  BY <1>1 DEF Situated, Searching
<1>3. CASE HasVersion
  <2>1. read' = [read EXCEPT !.at = "fields"]
    BY <1>3 DEF CheckVersion
  <2>2. read' = [at |-> "fields", asked |-> read.asked, dir |-> read.dir, item |-> read.item,
                 found |-> read.found, fields |-> read.fields, answer |-> read.answer,
                 could |-> read.could, steady |-> read.steady]
    BY <1>1, <2>1 DEF ReadShape
  <2>3. /\ read'.at = "fields" /\ read'.asked = read.asked /\ read'.dir = read.dir
        /\ read'.item = read.item /\ read'.found = read.found /\ read'.could = read.could
        /\ read'.steady = read.steady
        /\ ReadShape(read)'
    BY <2>2 DEF ReadShape
  <2>4. read.steady => Situated(db, read')
    BY <1>2, <2>3 DEF Situated, HasFoundDir, HasFoundVersion
  <2> QED BY <1>1, <2>3, <2>4, GoOnSound DEF Searching
<1>4. CASE ~HasVersion
  <2>1. Reply(Refused("not_found"))
    BY <1>4 DEF CheckVersion
  <2>2. ~read.steady
    BY <1>2, <1>4 DEF HasFoundVersion, HasVersion
  <2> QED BY <1>1, <2>1, <2>2, ReplySound
<1> QED BY <1>3, <1>4

(***************************************************************************)
(* Its fields: a reference to one of them is answered, and otherwise the   *)
(* files come next.                                                        *)
(***************************************************************************)
LEMMA ReadFieldsSound ==
    ASSUME VaultInv, ReadSound, ReadFields
    PROVE  ReadSound'
<1> DEFINE row == db.items[read.item].versions[read.found]
           Answers == read.asked.kind = "reference" /\ read.asked.field \in DOMAIN FieldRows
<1>1. /\ read # NoRead /\ ReadShape(read) /\ read.at = "fields"
      /\ read.asked.kind \in {"item", "reference"}
      /\ read.steady => Situated(db, read)
      /\ UNCHANGED vars
  BY SearchingRead DEF ReadFields, Searching
<1>2. read.steady => HasFoundDir(db, read) /\ HasFoundVersion(db, read)
  BY <1>1 DEF Situated, Searching
<1>3. read.steady => FieldRows = row.fields
  BY <1>2 DEF FieldRows, HasVersion, HasFoundVersion
<1> DEFINE fields == FieldRows
<1> HIDE DEF row
<1>4. CASE Answers
  <2>1. Reply(ReferenceShows(FieldRows, None, read.asked.field))
    BY <1>4 DEF ReadFields
  <2>2. ReferenceShows(FieldRows, None, read.asked.field)
            = Answer("ok", [data |-> FieldRows[read.asked.field]])
    BY <1>4 DEF ReferenceShows
  <2>3. ASSUME read.steady
        PROVE  Content(read.asked, row) = Answer("ok", [data |-> FieldRows[read.asked.field]])
    BY <1>3, <1>4, <2>3 DEF Content, ReferenceShows
  <2>4. read.steady => ReferenceShows(FieldRows, None, read.asked.field) \in read.could
    BY <1>2, <2>2, <2>3 DEF HasFoundVersion, row
  <2> QED BY <1>1, <1>4, <2>1, <2>4, ReplySound
<1>5. CASE ~Answers
  <2>1. read' = [read EXCEPT !.at = "files", !.fields = fields]
    BY <1>5 DEF ReadFields
  <2>2. read.asked.kind = "item" \/ read.asked.field \notin DOMAIN fields
    BY <1>1, <1>5
  <2> HIDE DEF fields
  <2>3. read' = [at |-> "files", asked |-> read.asked, dir |-> read.dir, item |-> read.item,
                 found |-> read.found, fields |-> fields, answer |-> read.answer,
                 could |-> read.could, steady |-> read.steady]
    BY <1>1, <2>1 DEF ReadShape
  <2>4. /\ read'.at = "files" /\ read'.asked = read.asked /\ read'.dir = read.dir
        /\ read'.item = read.item /\ read'.found = read.found /\ read'.could = read.could
        /\ read'.steady = read.steady /\ read'.fields = fields
        /\ ReadShape(read)'
    BY <2>3 DEF ReadShape
  <2>5. read.steady => HasFields(db, read')
    BY <1>3, <2>2, <2>4 DEF HasFields, fields, row
  <2>6. read.steady => Situated(db, read')
    BY <1>2, <2>4, <2>5 DEF Situated, HasFoundDir, HasFoundVersion
  <2> QED BY <1>1, <2>4, <2>6, GoOnSound DEF Searching
<1> QED BY <1>4, <1>5

(***************************************************************************)
(* Its files: with the fields read before they make up the version.        *)
(***************************************************************************)
LEMMA ReadFilesSound ==
    ASSUME VaultInv, ReadSound, ReadFiles
    PROVE  ReadSound'
<1> DEFINE row == db.items[read.item].versions[read.found]
<1>1. /\ read # NoRead /\ ReadShape(read) /\ read.at = "files"
      /\ read.asked.kind \in {"item", "reference"}
      /\ read.steady => Situated(db, read)
      /\ UNCHANGED vars
  BY SearchingRead DEF ReadFiles, Searching
<1>2. read.steady => HasFoundVersion(db, read) /\ HasFields(db, read)
  BY <1>1 DEF Situated, Searching
<1>3. read.steady => /\ FileRows = row.files
                     /\ read.fields = row.fields
                     /\ Content(read.asked, row) \in read.could
  BY <1>2 DEF FileRows, HasVersion, HasFoundVersion, HasFields
<1> HIDE DEF row
<1>4. read.asked.kind # "export"
  BY <1>1
<1>5. CASE read.asked.kind = "item"
  <2>1. Reply(ItemShows(read.fields, FileRows))
    BY <1>5 DEF ReadFiles
  <2>2. read.steady => Content(read.asked, row) = ItemShows(read.fields, FileRows)
    BY <1>3, <1>5 DEF Content
  <2> QED BY <1>1, <1>3, <1>4, <2>1, <2>2, ReplySound
<1>6. CASE read.asked.kind # "item"
  <2>1. read.steady => read.asked.field \notin DOMAIN row.fields
    BY <1>2, <1>3, <1>6 DEF HasFields
  <2>2. CASE read.asked.field \in DOMAIN FileRows
    <3>1. Reply(ReferenceShows(None, FileRows, read.asked.field))
      BY <1>6, <2>2 DEF ReadFiles
    <3>2. ReferenceShows(None, FileRows, read.asked.field)
              = Answer("ok", [file |-> FileRows[read.asked.field]])
      BY DEF ReferenceShows, None
    <3>3. read.steady => Content(read.asked, row)
                             = Answer("ok", [file |-> FileRows[read.asked.field]])
      BY <1>3, <1>6, <2>1, <2>2 DEF Content, ReferenceShows
    <3> QED BY <1>1, <1>3, <1>4, <3>1, <3>2, <3>3, ReplySound
  <2>3. CASE read.asked.field \notin DOMAIN FileRows
    <3>1. Reply(Refused("not_found"))
      BY <1>6, <2>3 DEF ReadFiles
    <3>2. read.steady => Content(read.asked, row) = Refused("not_found")
      BY <1>3, <1>6, <2>1, <2>3 DEF Content
    <3> QED BY <1>1, <1>3, <1>4, <3>1, <3>2, ReplySound
  <2> QED BY <2>2, <2>3
<1> QED BY <1>5, <1>6

(***************************************************************************)
(* An export answers what its one snapshot shows.                          *)
(***************************************************************************)
LEMMA TakeSnapshotSound ==
    ASSUME VaultInv, ReadSound, TakeSnapshot
    PROVE  ReadSound'
<1>1. read # NoRead /\ AtOnce(db, read.asked) \in read.could
  BY DEF TakeSnapshot, Reading, ReadSound, NoRead
<1> QED BY <1>1, ReplySound DEF TakeSnapshot, Reading

-----------------------------------------------------------------------------
(***************************************************************************)
(* What a writer's step leaves of what a read has found, if the read stays *)
(* steady.                                                                 *)
(***************************************************************************)
LEMMA FoundStays ==
    ASSUME VaultInv, Follows(db, db', wall), read.at \in Searching,
           Situated(db, read), StaysFound,
           NEW r, r.at = read.at, r.asked = read.asked, r.dir = read.dir, r.item = read.item,
           r.found = read.found, r.fields = read.fields, read.could \subseteq r.could
    PROVE  Situated(db', r)
<1>1. TablesSound(db) /\ TablesSound(db') /\ KeysFollow(db.items, db'.items)
      /\ ReservedStep /\ HistoryStep
  BY FollowedHistory DEF Follows, VaultInv
<1>2. ASSUME read.at \in Searching \ {"dir"} PROVE HasFoundDir(db', r)
  <2>1. read.dir \in DOMAIN db.dirs /\ db.dirs[read.dir].name = read.asked.dir
    BY <1>2 DEF Situated, HasFoundDir
  <2>2. read.dir # 0
    BY <1>1, <2>1 DEF TablesSound, DirsSound
  <2> QED BY <2>1, <2>2 DEF StaysFound, HasFoundDir
<1>3. ASSUME read.at = "version" PROVE InPublic(db', r)
  <2> SUFFICES ASSUME NEW i \in DOMAIN db'.items, db'.items[i].dir = read.dir,
                      db'.items[i].name = read.asked.name, "hidden" \in db'.items[i].flags
               PROVE  FALSE
    BY DEF InPublic, Matches
  <2>1. db'.items[i].dir = 2
    BY <1>1 DEF TablesSound, ItemsSound, ItemSound
  <2>2. i \in DOMAIN db.items /\ db'.items[i] = db.items[i]
    BY <1>1, <2>1 DEF KeysFollow
  <2>3. InPublic(db, read)
    BY <1>3 DEF Situated
  <2> QED BY <2>2, <2>3 DEF InPublic, Matches
<1>4. ASSUME read.at \in {"check", "fields", "files"}
      PROVE  /\ HasFoundVersion(db', r)
             /\ db'.items[read.item].versions[read.found]
                    = db.items[read.item].versions[read.found]
  <2> DEFINE i == read.item
             v == read.found
  <2>1. i \in DOMAIN db.items /\ v \in DOMAIN db.items[i].versions
        /\ Content(read.asked, db.items[i].versions[v]) \in read.could
    BY <1>4 DEF Situated, HasFoundVersion
  <2> HIDE DEF i, v
  <2>2. ItemSound(db.items[i], db.files)
    BY <1>1, <2>1 DEF TablesSound, ItemsSound
  <2>3. v # 0 /\ v \in Nat /\ v <= db.items[i].latest /\ db.items[i].latest \in Nat
    BY <2>1, <2>2 DEF ItemSound
  <2>4. i \in DOMAIN db'.items /\ v \in DOMAIN db'.items[i].versions
    BY <2>3 DEF StaysFound, i, v
  <2>5. db.items[i].latest = Max(DOMAIN db.items[i].versions)
    BY <1>1, <2>1, LatestIsMax
  <2>6. ~(v > Max(DOMAIN db.items[i].versions))
    BY <2>3, <2>5
  <2>7. db'.items[i].versions[v] = db.items[i].versions[v]
    BY <1>1, <2>1, <2>4, <2>6 DEF HistoryStep
  <2> QED BY <2>1, <2>4, <2>7 DEF HasFoundVersion, i, v
<1>5. read.at = "files" => HasFields(db', r)
  BY <1>4 DEF Situated, HasFields
<1> QED BY <1>2, <1>3, <1>4, <1>5 DEF Situated, Searching

(***************************************************************************)
(* A writer's step overtakes a read: what is true at once afterwards is    *)
(* noted, and so is the loss of what the read had found.                   *)
(***************************************************************************)
LEMMA OvertakenSound ==
    ASSUME VaultInv, ReadSound, Follows(db, db', wall), read' = Overtaken
    PROVE  ReadSound'
<1>1. CASE read.at \in {"idle", "answered"}
  <2>1. read' = read
    BY <1>1 DEF Overtaken
  <2> QED BY <1>1, <2>1, ReadAt DEF ReadSound, ReadsAreWhole, Searching
<1>2. CASE read.at \notin {"idle", "answered"}
  <2> DEFINE could  == read.could \cup {AtOnce(db', read.asked)}
             steady == read.steady /\ StaysFound
  <2>1. read' = [read EXCEPT !.could = could, !.steady = steady]
    BY <1>2, Zenon DEF Overtaken
  <2>2. /\ ReadShape(read) /\ read.asked \in Reads
        /\ read.at \in Searching \cup {"snapshot"}
        /\ read.at \in Searching => read.asked.kind \in {"item", "reference"}
        /\ read.at \in Searching /\ read.steady => Situated(db, read)
    BY <1>2, ReadAt DEF ReadSound
  <2>3. AtOnce(db', read.asked) \in could /\ read.could \subseteq could
    OBVIOUS
  <2>4. steady => read.steady /\ StaysFound
    OBVIOUS
  <2> HIDE DEF could, steady
  <2>5. read' = [at |-> read.at, asked |-> read.asked, dir |-> read.dir, item |-> read.item,
                 found |-> read.found, fields |-> read.fields, answer |-> read.answer,
                 could |-> could, steady |-> steady]
    BY <2>1, <2>2 DEF ReadShape
  <2>6. /\ read'.at = read.at /\ read'.asked = read.asked /\ read'.dir = read.dir
        /\ read'.item = read.item /\ read'.found = read.found /\ read'.fields = read.fields
        /\ read'.could = could /\ read'.steady = steady
        /\ ReadShape(read)'
    BY <2>5 DEF ReadShape
  <2>7. read'.at \in Searching /\ read'.steady => Situated(db', read')
    BY <2>2, <2>3, <2>4, <2>6, FoundStays
  <2>8. ReadsAreWhole'
    BY <1>2, <2>6 DEF ReadsAreWhole
  <2> QED BY <2>2, <2>3, <2>6, <2>7, <2>8 DEF ReadSound
<1> QED BY <1>1, <1>2

(***************************************************************************)
(* Every step of a read, and of the vault beside it, keeps the invariant.  *)
(***************************************************************************)
LEMMA ReadInvStep ==
    ASSUME ReadInv, [NextReaders]_readVars
    PROVE  ReadInv'
<1>1. VaultInv /\ ReadSound
  BY DEF ReadInv
<1>2. ASSUME UNCHANGED vars PROVE VaultInv'
  BY <1>1, <1>2, ClockStep
<1>3. CASE BeginRead
  BY <1>1, <1>2, <1>3, BeginReadSound DEF ReadInv, BeginRead, Reading
<1>4. CASE ReadStep
  <2>1. UNCHANGED vars
    BY <1>4 DEF ReadStep, FindDir, FindItem, FindVersion, CheckVersion, ReadFields, ReadFiles,
                TakeSnapshot, Reading
  <2>2. ReadSound'
    BY <1>1, <1>4, FindDirSound, FindItemSound, FindVersionSound, CheckVersionSound,
       ReadFieldsSound, ReadFilesSound, TakeSnapshotSound DEF ReadStep
  <2> QED BY <1>2, <2>1, <2>2 DEF ReadInv
<1>5. CASE Writes
  <2>1. [Next]_vars /\ read' = Overtaken
    BY <1>5 DEF Writes
  <2>2. VaultInv' /\ Follows(db, db', wall)
    BY <1>1, <2>1, VaultStep
  <2> QED BY <1>1, <2>1, <2>2, OvertakenSound DEF ReadInv
<1>6. CASE UNCHANGED readVars
  <2>1. UNCHANGED vars /\ read' = read /\ db' = db
    BY <1>6 DEF readVars, vars
  <2>2. ReadSound'
    BY <1>1, <2>1 DEF ReadSound, ReadsAreWhole
  <2> QED BY <1>2, <2>1, <2>2 DEF ReadInv
<1> QED BY <1>3, <1>4, <1>5, <1>6 DEF NextReaders

(***************************************************************************)
(* A read answers what the vault held at one moment while it ran, for any  *)
(* writes in between: a version found cannot change, and the fields and    *)
(* the files shown are those of one version.  Only what was removed or     *)
(* renamed under the read is excepted, and for an export not even that.    *)
(***************************************************************************)
THEOREM ReadsStayWhole == ReadersSpec => []ReadsAreWhole
<1>1. InitReaders => ReadInv
  BY VaultInit DEF InitReaders, ReadInv, ReadSound
<1>2. ReadInv /\ [NextReaders]_readVars => ReadInv'
  BY ReadInvStep
<1>3. ReadInv => ReadsAreWhole
  BY DEF ReadInv, ReadSound, ReadsAreWhole, NoRead
<1> QED BY <1>1, <1>2, <1>3, PTL DEF ReadersSpec

-----------------------------------------------------------------------------
(***************************************************************************)
(* Every name has a rank of its own.                                       *)
(***************************************************************************)
LEMMA RankIsPlace ==
    ASSUME NEW name \in Glob
    PROVE  /\ Rank(name) \in DOMAIN NameOrder /\ NameOrder[Rank(name)] = name
           /\ Rank(name) \in Nat \ {0}
<1>1. \E k \in DOMAIN NameOrder : NameOrder[k] = name
  BY DEF Glob, Range
<1>2. Rank(name) \in DOMAIN NameOrder /\ NameOrder[Rank(name)] = name
  BY <1>1 DEF Rank
<1>3. Len(NameOrder) \in Nat /\ DOMAIN NameOrder = 1 .. Len(NameOrder)
  BY NamesAssumption, ListShape
<1> QED BY <1>2, <1>3

(***************************************************************************)
(* The names in the rows are among those that are ordered.                 *)
(***************************************************************************)
VersionNamed(version) == DOMAIN version.fields \cup DOMAIN version.files \subseteq Glob

RowNamed(row) ==
    /\ row.name \in Glob
    /\ \A v \in DOMAIN row.versions : VersionNamed(row.versions[v])

Named(items) == \A i \in DOMAIN items : RowNamed(items[i])

(***************************************************************************)
(* A row that is added, or changed, brings names that are ordered.         *)
(***************************************************************************)
LEMMA NamedRows ==
    ASSUME NEW d, TablesSound(d), Named(d.items), NEW i, NEW row, RowNamed(row), NEW e,
           \/ e = [d EXCEPT !.items = With(@, i, row)]
           \/ e = [d EXCEPT !.items = [@ EXCEPT ![i] = row]]
    PROVE  Named(e.items)
<1>1. \/ e.items = With(d.items, i, row)
      \/ e.items = [d.items EXCEPT ![i] = row]
  <2>1. d = [dirs |-> d.dirs, items |-> d.items, files |-> d.files]
    BY DEF TablesSound
  <2> QED BY <2>1
<1>2. \A j \in DOMAIN e.items : e.items[j] = row \/ (j \in DOMAIN d.items /\ e.items[j] = d.items[j])
  <2>1. CASE e.items = With(d.items, i, row)
    BY <2>1 DEF With
  <2>2. CASE e.items = [d.items EXCEPT ![i] = row]
    BY <2>2
  <2> QED BY <1>1, <2>1, <2>2
<1> QED BY <1>2 DEF Named

(***************************************************************************)
(* What a request brings, laid over what was there, has names of both.     *)
(***************************************************************************)
LEMMA OverrideNames ==
    ASSUME NEW f, NEW pairs, DOMAIN f \subseteq Glob, PairNames(pairs) \subseteq Glob
    PROVE  DOMAIN Override(f, AsFunction(pairs)) \subseteq Glob
BY DEF Override, AsFunction

(***************************************************************************)
(* create_item and copy_item.                                              *)
(***************************************************************************)
LEMMA CreateFromNamed ==
    ASSUME NEW d, TablesSound(d), Named(d.items), NEW dir, NEW name \in Glob, NEW base,
           VersionNamed(base), NEW request,
           PairNames(request.fields) \cup PairNames(request.files) \subseteq Glob, NEW now,
           CreateFrom(d, dir, name, base, request, now).status = "ok"
    PROVE  Named(CreateFrom(d, dir, name, base, request, now).db.items)
<1> DEFINE fields  == Override(base.fields, AsFunction(request.fields))
           claimed == AsFunction(request.files)
           kept    == Without(base.files, DOMAIN claimed)
           files   == Override(kept, claimed)
           row     == [dir |-> DirId(d, dir), name |-> name, flags |-> {},
                       created |-> now, updated |-> now, oldest |-> 1, latest |-> 1,
                       versions |-> FirstVersion(fields, files, now)]
           id      == NewRowId(d.items)
           e       == [d EXCEPT !.items = With(@, NewRowId(@), row)]
<1>1. CreateFrom(d, dir, name, base, request, now).db = e
  <2>1. CreateFrom(d, dir, name, base, request, now) =
            IF BadFields(request.fields) \/ BadFiles(request.files) \/ Clash(fields, files)
            THEN Outcome("bad_request", d)
            ELSE IF AttachStatus(d, kept, claimed) # "ok"
            THEN Outcome(AttachStatus(d, kept, claimed), d)
            ELSE Done(e)
    BY DEF CreateFrom
  <2> HIDE DEF e, fields, claimed, kept, files
  <2> QED BY <2>1 DEF Outcome, Done
<1>2. DOMAIN fields \subseteq Glob /\ DOMAIN files \subseteq Glob
  <2>1. DOMAIN kept \subseteq Glob
    BY DEF Without, VersionNamed
  <2> HIDE DEF kept
  <2> QED BY <2>1, OverrideNames DEF VersionNamed
<1> HIDE DEF fields, files
<1>3. RowNamed(row)
  <2>1. /\ DOMAIN row.versions = {1}
        /\ row.versions[1] = [created |-> now, fields |-> fields, files |-> files]
    BY DEF FirstVersion
  <2>2. VersionNamed(row.versions[1])
    BY <1>2, <2>1 DEF VersionNamed
  <2>3. row.name = name
    OBVIOUS
  <2> HIDE DEF row
  <2> QED BY <2>1, <2>2, <2>3 DEF RowNamed
<1>4. e = [d EXCEPT !.items = With(@, id, row)]
  BY DEF TablesSound
<1> HIDE DEF row, e, id
<1>5. Named(e.items)
  BY <1>3, <1>4, NamedRows
<1> QED BY <1>1, <1>5

(***************************************************************************)
(* Of a name's item all versions are named.                                *)
(***************************************************************************)
LEMMA SourceNamed ==
    ASSUME NEW d, TablesSound(d), Named(d.items), NEW i \in DOMAIN d.items
    PROVE  DOMAIN SourceFields(d.items[i]) \cup DOMAIN SourceFiles(d.items[i]) \subseteq Glob
<1>1. d.items[i].latest \in DOMAIN d.items[i].versions
  BY DEF TablesSound, ItemsSound, ItemSound
<1> QED BY <1>1 DEF Named, RowNamed, VersionNamed, SourceFields, SourceFiles, Latest

(***************************************************************************)
(* The requests that make an item.                                         *)
(***************************************************************************)
LEMMA NewItemNamed ==
    ASSUME VaultInv, Named(db.items), NewItem \/ NewCopy
    PROVE  Named(db'.items)
<1>1. TablesSound(db)
  BY DEF VaultInv
<1>2. CASE NewItem
  <2>1. PICK dir \in DirNames, name \in ItemNames, request \in Creations :
            Apply(CreateItem(db, dir, name, request, wall))
    BY <1>2 DEF NewItem
  <2>2. /\ CreateItem(db, dir, name, request, wall)
              = CreateFrom(db, dir, name, NoBase, request, wall)
        /\ CreateItem(db, dir, name, request, wall).status = "ok"
        /\ db' = CreateItem(db, dir, name, request, wall).db
    BY <2>1 DEF CreateItem, Outcome, Apply
  <2>3. VersionNamed(NoBase)
    BY DEF VersionNamed, NoBase, None
  <2>4. name \in Glob /\ PairNames(request.fields) \cup PairNames(request.files) \subseteq Glob
    BY NamesAssumption
  <2> QED BY <1>1, <2>2, <2>3, <2>4, CreateFromNamed
<1>3. CASE NewCopy
  <2>1. PICK dir \in DirNames, srcDir \in DirNames, name \in ItemNames, src \in ItemNames,
             request \in Creations : Apply(CopyItem(db, dir, name, srcDir, src, request, wall))
    BY <1>3 DEF NewCopy
  <2> DEFINE source == db.items[ItemId(db, srcDir, src)]
             base == [fields |-> SourceFields(source), files |-> SourceFiles(source)]
  <2>2. /\ HasPublicItem(db, srcDir, src)
        /\ CopyItem(db, dir, name, srcDir, src, request, wall)
              = CreateFrom(db, dir, name, base, request, wall)
        /\ CopyItem(db, dir, name, srcDir, src, request, wall).status = "ok"
        /\ db' = CopyItem(db, dir, name, srcDir, src, request, wall).db
    BY <2>1 DEF CopyItem, Outcome, Apply
  <2>3. VersionNamed(base)
    <3>1. ItemId(db, srcDir, src) \in DOMAIN db.items
      BY <2>2, NamedItem DEF HasPublicItem
    <3> QED BY <1>1, <3>1, SourceNamed DEF VersionNamed
  <2>4. name \in Glob /\ PairNames(request.fields) \cup PairNames(request.files) \subseteq Glob
    BY NamesAssumption
  <2> HIDE DEF base
  <2> QED BY <1>1, <2>2, <2>3, <2>4, CreateFromNamed
<1> QED BY <1>2, <1>3

(***************************************************************************)
(* A new version brings the names it is given.                             *)
(***************************************************************************)
LEMMA AddVersionNamed ==
    ASSUME NEW item, NEW F, ItemSound(item, F), RowNamed(item), NEW fields, NEW files, NEW now,
           DOMAIN fields \cup DOMAIN files \subseteq Glob
    PROVE  RowNamed(AddVersion(item, fields, files, now))
<1> DEFINE n == item.latest + 1
           version == [created |-> now, fields |-> fields, files |-> files]
           versions == With(item.versions, n, version)
           new == AddVersion(item, fields, files, now)
<1>1. new = [item EXCEPT !.versions = versions, !.latest = n, !.updated = now]
  BY DEF AddVersion, NextVersion, ItemSound
<1>2. \A v \in DOMAIN versions : versions[v] = version \/ (v \in DOMAIN item.versions
                                                            /\ versions[v] = item.versions[v])
  BY DEF With
<1>3. VersionNamed(version)
  BY DEF VersionNamed
<1> HIDE DEF new, versions, n, version
<1>4. new.name = item.name /\ new.versions = versions
  BY <1>1 DEF ItemSound
<1>5. RowNamed(new)
  BY <1>2, <1>3, <1>4 DEF RowNamed
<1> QED BY <1>5 DEF new

(***************************************************************************)
(* The requests that change an item.                                       *)
(***************************************************************************)
LEMMA UpdateNamed ==
    ASSUME VaultInv, Named(db.items), Update
    PROVE  Named(db'.items)
<1>1. TablesSound(db)
  BY DEF VaultInv
<1>2. PICK dir \in DirNames, name \in ItemNames, request \in Updates :
          Apply(UpdateItem(db, dir, name, request, wall))
  BY DEF Update
<1> DEFINE id      == ItemId(db, dir, name)
           item    == db.items[id]
           fields  == MergedFields(item, request)
           claimed == AsFunction(request.files)
           kept    == Without(SourceFiles(item), DOMAIN claimed \cup request.dropFiles)
           files   == Override(kept, claimed)
           row     == AddVersion(item, fields, files, wall)
           e       == [db EXCEPT !.items[id] = AddVersion(@, fields, files, wall)]
<1>3. HasPublicItem(db, dir, name) /\ db' = e
  <2>1. UpdateItem(db, dir, name, request, wall) =
            IF OverwriteableDir(db, dir) # "ok" THEN Outcome(OverwriteableDir(db, dir), db)
            ELSE IF ~HasPublicItem(db, dir, name) THEN Outcome("not_found", db)
            ELSE IF MergeRefused(request) \/ Clash(fields, files)
            THEN Outcome("bad_request", db)
            ELSE IF AttachStatus(db, kept, claimed) # "ok"
            THEN Outcome(AttachStatus(db, kept, claimed), db)
            ELSE Done(e)
    BY DEF UpdateItem
  <2>2. /\ UpdateItem(db, dir, name, request, wall).status = "ok"
        /\ db' = UpdateItem(db, dir, name, request, wall).db
    BY <1>2, ApplyStands
  <2> HIDE DEF e, fields, claimed, kept, files, item
  <2> QED BY <2>1, <2>2 DEF Outcome, Done
<1>4. id \in DOMAIN db.items
  BY <1>3, NamedItem DEF HasPublicItem
<1>5. DOMAIN SourceFields(item) \cup DOMAIN SourceFiles(item) \subseteq Glob
  BY <1>1, <1>4, SourceNamed
<1>6. PairNames(request.fields) \cup PairNames(request.files) \subseteq Glob
  BY NamesAssumption
<1>7. DOMAIN fields \cup DOMAIN files \subseteq Glob
  <2>1. /\ DOMAIN kept \subseteq Glob
        /\ DOMAIN Without(SourceFields(item), request.dropFields) \subseteq Glob
    BY <1>5 DEF Without
  <2> HIDE DEF kept, item
  <2>2. DOMAIN fields \subseteq Glob
    BY <1>6, <2>1, OverrideNames DEF MergedFields
  <2>3. DOMAIN files \subseteq Glob
    BY <1>6, <2>1, OverrideNames
  <2> QED BY <2>2, <2>3
<1>8. e = [db EXCEPT !.items = [@ EXCEPT ![id] = row]]
  BY <1>1, <1>4 DEF TablesSound
<1>9. RowNamed(row)
  <2>1. ItemSound(item, db.files) /\ RowNamed(item)
    BY <1>1, <1>4 DEF TablesSound, ItemsSound, Named
  <2> HIDE DEF fields, files, item
  <2> QED BY <1>7, <2>1, AddVersionNamed
<1> HIDE DEF row, e, id
<1> QED BY <1>1, <1>3, <1>8, <1>9, NamedRows

LEMMA RestoreNamed ==
    ASSUME VaultInv, Named(db.items), Restore
    PROVE  Named(db'.items)
<1>1. TablesSound(db)
  BY DEF VaultInv
<1>2. PICK dir \in DirNames, name \in ItemNames, version \in 1 .. MaxVersion :
          Apply(RestoreVersion(db, dir, name, version, wall))
  BY DEF Restore
<1> DEFINE id      == ItemId(db, dir, name)
           item    == db.items[id]
           old     == item.versions[version]
           row     == AddVersion(item, old.fields, old.files, wall)
           e       == [db EXCEPT !.items[id] = AddVersion(@, old.fields, old.files, wall)]
<1>3. HasPublicItem(db, dir, name) /\ version \in DOMAIN item.versions /\ db' = e
  <2>1. RestoreVersion(db, dir, name, version, wall) =
            IF OverwriteableDir(db, dir) # "ok" THEN Outcome(OverwriteableDir(db, dir), db)
            ELSE IF ~HasPublicItem(db, dir, name) THEN Outcome("not_found", db)
            ELSE IF version = item.latest THEN Outcome("bad_request", db)
            ELSE IF version \notin DOMAIN item.versions THEN Outcome("not_found", db)
            ELSE Done(e)
    BY DEF RestoreVersion
  <2>2. /\ RestoreVersion(db, dir, name, version, wall).status = "ok"
        /\ db' = RestoreVersion(db, dir, name, version, wall).db
    BY <1>2, ApplyStands
  <2> HIDE DEF e, item
  <2> QED BY <2>1, <2>2 DEF Outcome, Done
<1>4. id \in DOMAIN db.items
  BY <1>3, NamedItem DEF HasPublicItem
<1>5. ItemSound(item, db.files) /\ RowNamed(item)
  BY <1>1, <1>4 DEF TablesSound, ItemsSound, Named
<1>6. e = [db EXCEPT !.items = [@ EXCEPT ![id] = row]]
  BY <1>1, <1>4 DEF TablesSound
<1>7. DOMAIN old.fields \cup DOMAIN old.files \subseteq Glob
  BY <1>3, <1>5 DEF RowNamed, VersionNamed
<1>8. RowNamed(row)
  <2> HIDE DEF old, item
  <2> QED BY <1>5, <1>7, AddVersionNamed
<1> HIDE DEF row, e, id
<1> QED BY <1>1, <1>3, <1>6, <1>8, NamedRows

LEMMA MoveNamed ==
    ASSUME VaultInv, Named(db.items), Move
    PROVE  Named(db'.items)
<1>1. TablesSound(db)
  BY DEF VaultInv
<1>2. PICK dir \in DirNames, srcDir \in DirNames, name \in ItemNames, src \in ItemNames,
           request \in Creations : Apply(MoveItem(db, dir, name, srcDir, src, request, wall))
  BY DEF Move
<1> DEFINE id   == ItemId(db, srcDir, src)
           item == db.items[id]
           to   == DirId(db, dir)
           row  == [item EXCEPT !.dir = to, !.name = name, !.updated = wall]
           e    == [db EXCEPT !.items[id] =
                        [@ EXCEPT !.dir = to, !.name = name, !.updated = wall]]
<1>3. HasPublicItem(db, srcDir, src) /\ db' = e
  <2>1. MoveItem(db, dir, name, srcDir, src, request, wall) =
            IF ~ValidName(name) THEN Outcome("bad_request", db)
            ELSE IF WritableDir(db, dir) # "ok" THEN Outcome(WritableDir(db, dir), db)
            ELSE IF WritableDir(db, srcDir) # "ok" THEN Outcome(WritableDir(db, srcDir), db)
            ELSE IF ~HasPublicItem(db, srcDir, src) THEN Outcome("not_found", db)
            ELSE IF request.fields \o request.files # <<>> THEN Outcome("bad_request", db)
            ELSE IF HasItem(db, dir, name) THEN Outcome("conflict", db)
            ELSE Done(e)
    BY DEF MoveItem
  <2>2. /\ MoveItem(db, dir, name, srcDir, src, request, wall).status = "ok"
        /\ db' = MoveItem(db, dir, name, srcDir, src, request, wall).db
    BY <1>2, ApplyStands
  <2> HIDE DEF e
  <2> QED BY <2>1, <2>2 DEF Outcome, Done
<1>4. id \in DOMAIN db.items
  BY <1>3, NamedItem DEF HasPublicItem
<1>5. ItemSound(item, db.files) /\ RowNamed(item) /\ name \in Glob
  BY <1>1, <1>4, NamesAssumption DEF TablesSound, ItemsSound, Named
<1>6. e = [db EXCEPT !.items = [@ EXCEPT ![id] = row]]
  BY <1>1, <1>4 DEF TablesSound
<1>7. RowNamed(row)
  <2>1. row = [item EXCEPT !.dir = to, !.name = name, !.updated = wall]
    OBVIOUS
  <2> HIDE DEF row, item
  <2>2. row.name = name /\ row.versions = item.versions
    BY <1>5, <2>1 DEF ItemSound
  <2> QED BY <1>5, <2>2 DEF RowNamed
<1> HIDE DEF row, e, id
<1> QED BY <1>1, <1>3, <1>6, <1>7, NamedRows

(***************************************************************************)
(* Deletions and cleanups bring no names.                                  *)
(***************************************************************************)
LEMMA FewerNamed ==
    ASSUME VaultInv, Named(db.items), Delete \/ Clean
    PROVE  Named(db'.items)
<1>1. TablesSound(db) /\ wall \in Nat
  BY DEF VaultInv
<1>2. CASE Delete
  <2>1. PICK dir \in DirNames, name \in ItemNames : Apply(DeleteItem(db, dir, name))
    BY <1>2 DEF Delete
  <2> DEFINE items == Without(db.items, {ItemId(db, dir, name)})
             e == [db EXCEPT !.items = items]
  <2>2. db' = e
    BY <2>1 DEF DeleteItem, Outcome, Done, Apply
  <2> HIDE DEF items
  <2>3. db'.items = items
    BY <1>1, <2>2 DEF TablesSound
  <2> QED BY <2>3 DEF items, Without, Named
<1>3. CASE Clean
  <2> DEFINE kept  == Without(db.items, ExpiredItems(db, wall))
             items == [i \in DOMAIN kept |-> CleanItem(kept[i], wall)]
             e     == [db EXCEPT !.items = items]
  <2>1. CleanUp(db, wall) = IF PointersValid(e) THEN Done(e) ELSE Outcome("internal", db)
    BY DEF CleanUp
  <2>2. CleanUp(db, wall).status = "ok" /\ db' = CleanUp(db, wall).db
    BY <1>3, ApplyStands DEF Clean
  <2>3. db' = e
    <3> HIDE DEF e
    <3> QED BY <2>1, <2>2 DEF Outcome, Done
  <2>4. \A i \in DOMAIN items : i \in DOMAIN db.items /\ items[i] = CleanItem(db.items[i], wall)
    BY DEF Without
  <2> HIDE DEF items
  <2>5. db'.items = items
    BY <1>1, <2>3 DEF TablesSound
  <2>6. ASSUME NEW i \in DOMAIN items PROVE RowNamed(items[i])
    <3> DEFINE item == db.items[i]
               gone == ExpiredVersions(item, wall)
               less == Without(item.versions, gone)
               new  == CleanItem(item, wall)
    <3>1. ItemSound(item, db.files) /\ RowNamed(item)
      BY <1>1, <2>4, <2>6 DEF TablesSound, ItemsSound, Named
    <3>2. new = item \/ new = [item EXCEPT !.versions = less, !.oldest = OldestOf(less)]
      BY DEF CleanItem
    <3>3. \A v \in DOMAIN less : v \in DOMAIN item.versions /\ less[v] = item.versions[v]
      BY DEF Without
    <3> HIDE DEF item, less, new
    <3>4. new.name = item.name /\ (new.versions = item.versions \/ new.versions = less)
      BY <3>1, <3>2 DEF ItemSound
    <3>5. RowNamed(new)
      BY <3>1, <3>3, <3>4 DEF RowNamed
    <3> QED BY <2>4, <2>6, <3>5 DEF new, item
  <2> QED BY <2>5, <2>6 DEF Named
<1> QED BY <1>2, <1>3

(***************************************************************************)
(* Requests about directories change no item.                              *)
(***************************************************************************)
LEMMA DirsLeaveItems ==
    ASSUME VaultInv, NewDir \/ RenameDir \/ DropDir
    PROVE  db'.items = db.items
<1>1. db = [dirs |-> db.dirs, items |-> db.items, files |-> db.files]
  BY DEF VaultInv, TablesSound
<1>2. CASE NewDir
  <2>1. PICK name \in DirNames : Apply(CreateDir(db, name, wall))
    BY <1>2 DEF NewDir
  <2> DEFINE dirs == With(db.dirs, NewRowId(db.dirs), Dir(name, {}, wall))
  <2>2. db' = [db EXCEPT !.dirs = dirs]
    BY <1>1, <2>1 DEF Apply, CreateDir, Outcome, Done
  <2> HIDE DEF dirs
  <2> QED BY <1>1, <2>2
<1>3. CASE RenameDir
  <2>1. PICK name \in DirNames, newName \in DirNames :
            Apply(UpdateDir(db, name, newName, wall))
    BY <1>3 DEF RenameDir
  <2> DEFINE e == [db EXCEPT !.dirs[DirId(db, name)].name = newName,
                             !.dirs[DirId(db, name)].updated = wall]
  <2>2. db' = e
    <3>1. UpdateDir(db, name, newName, wall) =
              IF ~ValidName(newName) THEN Outcome("bad_request", db)
              ELSE IF ~HasPublicDir(db, name) THEN Outcome("not_found", db)
              ELSE IF HasDir(db, newName) /\ newName # name THEN Outcome("conflict", db)
              ELSE Done(e)
      BY DEF UpdateDir
    <3> HIDE DEF e
    <3> QED BY <2>1, <3>1 DEF Apply, Outcome, Done
  <2>3. e.items = db.items
    BY <1>1
  <2> HIDE DEF e
  <2> QED BY <2>2, <2>3
<1>4. CASE DropDir
  <2>1. PICK name \in DirNames : Apply(DeleteDir(db, name))
    BY <1>4 DEF DropDir
  <2> DEFINE dirs == Without(db.dirs, {DirId(db, name)})
  <2>2. db' = [db EXCEPT !.dirs = dirs]
    BY <1>1, <2>1 DEF Apply, DeleteDir, Outcome, Done
  <2> HIDE DEF dirs
  <2> QED BY <1>1, <2>2
<1> QED BY <1>2, <1>3, <1>4

(***************************************************************************)
(* What the listings count on: names that are ordered, and tables small    *)
(* enough for a page.                                                      *)
(***************************************************************************)
Small(items) ==
    /\ DOMAIN items \subseteq 1 .. MaxPage
    /\ \A i \in DOMAIN items : items[i].latest <= MaxPage

Listable == Named(db.items) /\ Small(db.items)

LEMMA ListableInit ==
    ASSUME Init
    PROVE  Listable
<1> DEFINE items == <<KeyRow(KeyItem, {"hidden", "mustauth"}, 0), KeyRow(PublicKeyItem, {}, 0)>>
<1>1. db.items = items
  BY DEF Init, NewVault
<1>2. DOMAIN items = {1, 2} /\ items[1] = KeyRow(KeyItem, {"hidden", "mustauth"}, 0)
      /\ items[2] = KeyRow(PublicKeyItem, {}, 0)
  OBVIOUS
<1>3. ASSUME NEW name, name \in {KeyItem, PublicKeyItem}, NEW flags
      PROVE  RowNamed(KeyRow(name, flags, 0)) /\ KeyRow(name, flags, 0).latest = 1
  <2> DEFINE row == KeyRow(name, flags, 0)
  <2>1. row.name = name /\ row.latest = 1
        /\ row.versions = FirstVersion([f \in {"key"} |-> name], None, 0)
    BY DEF KeyRow
  <2>2. DOMAIN row.versions = {1}
        /\ row.versions[1] = [created |-> 0, fields |-> [f \in {"key"} |-> name], files |-> None]
    BY <2>1 DEF FirstVersion
  <2>3. VersionNamed(row.versions[1])
    BY <2>2, NamesAssumption DEF VersionNamed, None
  <2> HIDE DEF row
  <2>4. name \in Glob
    BY <1>3, NamesAssumption
  <2>5. \A v \in DOMAIN row.versions : VersionNamed(row.versions[v])
    BY <2>2, <2>3
  <2>6. RowNamed(row)
    BY <2>1, <2>4, <2>5 DEF RowNamed
  <2> QED BY <2>1, <2>6 DEF row
<1> HIDE DEF items
<1>4. \A i \in DOMAIN items : RowNamed(items[i]) /\ items[i].latest = 1
  <2>1. /\ RowNamed(items[1]) /\ items[1].latest = 1
        /\ RowNamed(items[2]) /\ items[2].latest = 1
    BY <1>2, <1>3
  <2> QED BY <1>2, <2>1
<1> QED BY <1>1, <1>2, <1>4 DEF Listable, Named, Small, MaxPage

LEMMA ListableStep ==
    ASSUME VaultInv, Listable, [Next]_vars
    PROVE  Listable'
<1>1. VaultInv /\ Named(db.items) /\ Small(db.items)
  BY DEF Listable
<1>2. ASSUME NEW outcome, Apply(outcome)
      PROVE  Small(db'.items)
  <2>1. /\ DOMAIN db'.items \subseteq 1 .. MaxItems
        /\ \A i \in DOMAIN db'.items : db'.items[i].latest <= MaxVersion
    BY <1>2 DEF Apply, WithinBounds
  <2>2. \A i \in DOMAIN db'.items : db'.items[i].latest \in Nat
    <3>1. VaultInv'
      BY VaultStep
    <3> QED BY <3>1 DEF VaultInv, TablesSound, ItemsSound, ItemSound
  <2> QED BY <2>1, <2>2, BoundsAssumption DEF Small, MaxPage
<1>3. ASSUME db'.items = db.items
      PROVE  Listable'
  BY <1>1, <1>3 DEF Listable, Named, Small
<1>4. CASE NewItem \/ NewCopy
  BY <1>1, <1>2, <1>4, NewItemNamed DEF NewItem, NewCopy, Listable
<1>5. CASE Move \/ Update \/ Restore
  BY <1>1, <1>2, <1>5, MoveNamed, UpdateNamed, RestoreNamed DEF Move, Update, Restore, Listable
<1>6. CASE Delete \/ Clean
  BY <1>1, <1>2, <1>6, FewerNamed DEF Delete, Clean, Listable
<1>7. CASE NewDir \/ RenameDir \/ DropDir
  BY <1>1, <1>3, <1>7, DirsLeaveItems
<1>8. CASE Upload \/ CollectOrphan
  BY <1>1, <1>3, <1>8, RefileStep
<1>9. CASE \/ Tick \/ SetBack \/ BeginWalk \/ FindMarker \/ NextPage \/ EndWalk
           \/ UNCHANGED vars
  BY <1>1, <1>3, <1>9, ClockStep
<1> QED BY <1>4, <1>5, <1>6, <1>7, <1>8, <1>9 DEF Next

-----------------------------------------------------------------------------
(***************************************************************************)
(* The places that a listing of a directory gives its items.               *)
(***************************************************************************)
LEMMA KeysOrdered ==
    ASSUME NEW d, TablesSound(d), Named(d.items), NEW dir
    PROVE  /\ DOMAIN ItemKeys(d, dir, Glob, FALSE) = PublicItems(d, dir)
           /\ \A i \in PublicItems(d, dir) :
                  /\ ItemKeys(d, dir, Glob, FALSE)[i] = Rank(d.items[i].name)
                  /\ ItemKeys(d, dir, Glob, FALSE)[i] \in Nat \ {0}
           /\ Ordered(ItemKeys(d, dir, Glob, FALSE), PublicItems(d, dir))
<1> DEFINE keys == ItemKeys(d, dir, Glob, FALSE)
           rows == PublicItems(d, dir)
<1>1. \A i \in rows : i \in DOMAIN d.items /\ d.items[i].dir = dir /\ d.items[i].name \in Glob
  BY DEF PublicItems, ItemsIn, Named, RowNamed
<1>2. /\ DOMAIN keys = rows
      /\ \A i \in rows : keys[i] = Rank(d.items[i].name)
  BY <1>1 DEF ItemKeys
<1> HIDE DEF keys, rows
<1>3. \A i \in rows : /\ keys[i] \in Nat \ {0} /\ NameOrder[keys[i]] = d.items[i].name
  BY <1>1, <1>2, RankIsPlace
<1>4. \A i, j \in rows : keys[i] = keys[j] => i = j
  <2> SUFFICES ASSUME NEW i \in rows, NEW j \in rows, keys[i] = keys[j] PROVE i = j
    OBVIOUS
  <2>1. d.items[i].name = d.items[j].name /\ d.items[i].dir = d.items[j].dir
    BY <1>1, <1>3
  <2> QED BY <1>1, <2>1 DEF TablesSound, ItemsSound, PathsUnique, SamePath
<1>5. IsFiniteSet(rows)
  <2>1. rows \subseteq DOMAIN d.items
    BY <1>1
  <2> QED BY <2>1, FS_Subset DEF TablesSound, ItemsSound
<1>6. Ordered(keys, rows)
  BY <1>3, <1>4, <1>5 DEF Ordered
<1> QED BY <1>2, <1>3, <1>6 DEF keys, rows

(***************************************************************************)
(* How often a list has an entry.                                          *)
(***************************************************************************)
Never(s, i) == \A k \in 1 .. Len(s) : s[k] # i

Once(s, i) == \E k \in 1 .. Len(s) : \A j \in 1 .. Len(s) : s[j] = i <=> j = k

LEMMA OnceCounts ==
    ASSUME NEW s \in Seq(Nat), NEW i, Once(s, i)
    PROVE  Cardinality({k \in DOMAIN s : s[k] = i}) = 1
<1>1. PICK k \in 1 .. Len(s) : \A j \in 1 .. Len(s) : s[j] = i <=> j = k
  BY DEF Once
<1>2. DOMAIN s = 1 .. Len(s)
  BY LenProperties
<1>3. {j \in DOMAIN s : s[j] = i} = {k}
  BY <1>1, <1>2
<1> QED BY <1>3, FS_Singleton

LEMMA ConcatCounts ==
    ASSUME NEW s \in Seq(Nat), NEW t \in Seq(Nat), NEW i
    PROVE  /\ s \o t \in Seq(Nat)
           /\ Never(s, i) /\ Never(t, i) => Never(s \o t, i)
           /\ Never(s, i) /\ Once(t, i) => Once(s \o t, i)
           /\ Once(s, i) /\ Never(t, i) => Once(s \o t, i)
<1> DEFINE u == s \o t
           m == Len(s)
           n == Len(t)
<1>1. /\ u \in Seq(Nat) /\ Len(u) = m + n /\ m \in Nat /\ n \in Nat
      /\ \A k \in 1 .. m + n : u[k] = IF k <= m THEN s[k] ELSE t[k - m]
  BY ConcatProperties, LenProperties
<1> HIDE DEF u, m, n
<1>2. \A k \in 1 .. m + n : k <= m => k \in 1 .. m
  BY <1>1
<1>3. \A k \in 1 .. m + n : ~(k <= m) => k - m \in 1 .. n
  BY <1>1
<1>4. ASSUME Never(s, i), Never(t, i) PROVE Never(u, i)
  BY <1>1, <1>2, <1>3, <1>4 DEF Never, m, n
<1>5. ASSUME Never(s, i), Once(t, i) PROVE Once(u, i)
  <2>1. PICK k \in 1 .. n : \A j \in 1 .. n : t[j] = i <=> j = k
    BY <1>5 DEF Once, n
  <2>2. k + m \in 1 .. m + n /\ k \in Nat
    BY SMTT(60), <1>1
  <2>3. \A j \in 1 .. m + n : ~(j <= m) => (j - m = k <=> j = k + m)
    BY <1>1, <2>2
  <2>4. \A j \in 1 .. m + n : j <= m => j # k + m
    BY <1>1, <2>1
  <2>5. \A j \in 1 .. m + n : u[j] = i <=> j = k + m
    <3> TAKE j \in 1 .. m + n
    <3>1. CASE j <= m
      BY <1>1, <1>2, <1>5, <2>4, <3>1 DEF Never, m
    <3>2. CASE ~(j <= m)
      BY <1>1, <1>3, <2>1, <2>3, <3>2
    <3> QED BY <3>1, <3>2
  <2>6. k + m \in 1 .. Len(u) /\ \A j \in 1 .. Len(u) : u[j] = i <=> j = k + m
    BY <1>1, <2>2, <2>5
  <2> QED BY <2>6 DEF Once
<1>6. ASSUME Once(s, i), Never(t, i) PROVE Once(u, i)
  <2>1. PICK k \in 1 .. m : \A j \in 1 .. m : s[j] = i <=> j = k
    BY <1>6 DEF Once, m
  <2>2. k \in 1 .. m + n /\ k <= m
    BY <1>1
  <2>3. \A j \in 1 .. m + n : u[j] = i <=> j = k
    <3> TAKE j \in 1 .. m + n
    <3>1. CASE j <= m
      BY <1>1, <1>2, <2>1, <3>1
    <3>2. CASE ~(j <= m)
      BY <1>1, <1>3, <1>6, <2>2, <3>2 DEF Never, n
    <3> QED BY <3>1, <3>2
  <2>6. k \in 1 .. Len(u) /\ \A j \in 1 .. Len(u) : u[j] = i <=> j = k
    BY <1>1, <2>2, <2>3
  <2> QED BY <2>6 DEF Once
<1> QED BY <1>1, <1>4, <1>5, <1>6 DEF u

(***************************************************************************)
(* Of the items that stay, those before a place have been seen once, and   *)
(* the others not yet.                                                     *)
(***************************************************************************)
SeenBefore(items, stay, seen, place) ==
    \A i \in stay : IF Rank(items[i].name) < place THEN Once(seen, i) ELSE Never(seen, i)

(***************************************************************************)
(* A walk has seen all before its marker, by the name the marker's row has *)
(* now, or before the place it has looked up.                              *)
(***************************************************************************)
WalkShape(w) ==
    /\ w = [at |-> w.at, dir |-> w.dir, marker |-> w.marker, from |-> w.from,
            seen |-> w.seen, stay |-> w.stay, steady |-> w.steady]
    /\ w.at # "none" /\ w.dir # 2 /\ w.from \in Nat /\ w.seen \in Seq(Nat)

OnItsWay(items, w) ==
    /\ w.stay \subseteq DOMAIN items
    /\ \A i \in w.stay : items[i].dir = w.dir
    /\ w.steady /\ w.at = "walking" =>
           IF w.marker = NoMarker THEN w.from = 0 /\ w.seen = <<>>
           ELSE /\ w.marker.id \in DOMAIN items
                /\ SeenBefore(items, w.stay, w.seen, Rank(items[w.marker.id].name))
    /\ w.steady /\ w.at = "fetching" => SeenBefore(items, w.stay, w.seen, w.from)
    /\ w.steady /\ w.at = "done" => \A i \in w.stay : Once(w.seen, i)

WalkSound == walk = NoWalk \/ (WalkShape(walk) /\ OnItsWay(db.items, walk))

(***************************************************************************)
(* A request served meanwhile takes from the walk what it moves, renames   *)
(* or removes, and leaves the rest in its place.                           *)
(***************************************************************************)
LEMMA WatchedSound ==
    ASSUME WalkSound, walk' = Watched
    PROVE  WalkSound'
<1>1. CASE walk = NoWalk
  BY <1>1 DEF Watched, NoWalk, WalkSound
<1>2. CASE walk # NoWalk
  <2>1. WalkShape(walk) /\ OnItsWay(db.items, walk)
    BY <1>2 DEF WalkSound
  <2> DEFINE stay == {i \in walk.stay : i \in DOMAIN db'.items /\ Stays(i)}
             steady == walk.steady /\ (walk.marker = NoMarker \/ walk.at # "walking"
                                         \/ (walk.marker.id \in DOMAIN db'.items
                                                /\ Stays(walk.marker.id)))
  <2>2. walk' = [walk EXCEPT !.stay = stay, !.steady = steady]
    BY <2>1 DEF Watched, WalkShape
  <2>3. /\ stay \subseteq walk.stay /\ stay \subseteq DOMAIN db'.items
        /\ \A i \in stay : /\ db'.items[i].dir = db.items[i].dir
                           /\ db'.items[i].name = db.items[i].name
    BY DEF Stays, SamePlace
  <2>4. steady => walk.steady
    OBVIOUS
  <2>5. ASSUME steady, walk.at = "walking", walk.marker # NoMarker
        PROVE  /\ walk.marker.id \in DOMAIN db'.items
               /\ db'.items[walk.marker.id].name = db.items[walk.marker.id].name
    BY <2>5 DEF Stays, SamePlace
  <2> HIDE DEF stay, steady
  <2>6. walk' = [at |-> walk.at, dir |-> walk.dir, marker |-> walk.marker, from |-> walk.from,
                 seen |-> walk.seen, stay |-> stay, steady |-> steady]
    BY <2>1, <2>2 DEF WalkShape
  <2>7. /\ walk'.at = walk.at /\ walk'.dir = walk.dir /\ walk'.marker = walk.marker
        /\ walk'.from = walk.from /\ walk'.seen = walk.seen
        /\ walk'.stay = stay /\ walk'.steady = steady
    BY <2>6
  <2>8. WalkShape(walk)'
    BY <2>1, <2>6, <2>7 DEF WalkShape
  <2>9. \A place : SeenBefore(db.items, walk.stay, walk.seen, place)
                      => SeenBefore(db'.items, stay, walk.seen, place)
    BY <2>3 DEF SeenBefore
  <2>10. OnItsWay(db.items, walk)'
    <3>1. walk'.stay \subseteq DOMAIN db'.items /\ \A i \in walk'.stay : db'.items[i].dir = walk'.dir
      BY <2>1, <2>3, <2>7 DEF OnItsWay
    <3>2. ASSUME steady, walk.at = "walking"
          PROVE  IF walk.marker = NoMarker THEN walk.from = 0 /\ walk.seen = <<>>
                 ELSE /\ walk.marker.id \in DOMAIN db'.items
                      /\ SeenBefore(db'.items, stay, walk.seen,
                                    Rank(db'.items[walk.marker.id].name))
      BY <2>1, <2>4, <2>5, <2>9, <3>2 DEF OnItsWay
    <3>3. ASSUME steady, walk.at = "fetching"
          PROVE  SeenBefore(db'.items, stay, walk.seen, walk.from)
      BY <2>1, <2>4, <2>9, <3>3 DEF OnItsWay
    <3>4. ASSUME steady, walk.at = "done"
          PROVE  \A i \in stay : Once(walk.seen, i)
      BY <2>1, <2>3, <2>4, <3>4 DEF OnItsWay
    <3> QED BY <2>7, <3>1, <3>2, <3>3, <3>4 DEF OnItsWay
  <2> QED BY <2>8, <2>10 DEF WalkSound
<1> QED BY <1>1, <1>2

(***************************************************************************)
(* The client begins with what the directory has now.                      *)
(***************************************************************************)
LEMMA BeginWalkSound ==
    ASSUME TablesSound(db), BeginWalk
    PROVE  WalkSound'
<1>1. PICK name \in DirNames :
          /\ HasPublicDir(db, name)
          /\ walk' = [at |-> "walking", dir |-> DirId(db, name), marker |-> NoMarker, from |-> 0,
                      seen |-> <<>>, stay |-> PublicItems(db, DirId(db, name)), steady |-> TRUE]
  BY DEF BeginWalk
<1> DEFINE dir == DirId(db, name)
           stay == PublicItems(db, dir)
<1>2. dir # 2
  BY <1>1, PublicDir DEF TablesSound
<1>3. stay \subseteq DOMAIN db.items /\ \A i \in stay : db.items[i].dir = dir
  BY DEF PublicItems, ItemsIn
<1>4. db' = db
  BY DEF BeginWalk
<1> HIDE DEF dir, stay
<1>5. /\ walk'.at = "walking" /\ walk'.dir = dir /\ walk'.marker = NoMarker /\ walk'.from = 0
      /\ walk'.seen = <<>> /\ walk'.stay = stay
      /\ walk' = [at |-> walk'.at, dir |-> walk'.dir, marker |-> walk'.marker,
                  from |-> walk'.from, seen |-> walk'.seen, stay |-> walk'.stay,
                  steady |-> walk'.steady]
  BY <1>1 DEF dir, stay
<1>6. <<>> \in Seq(Nat)
  OBVIOUS
<1>7. WalkShape(walk)'
  BY <1>2, <1>5, <1>6 DEF WalkShape
<1>8. OnItsWay(db.items, walk)'
  BY <1>3, <1>4, <1>5 DEF OnItsWay
<1> QED BY <1>7, <1>8 DEF WalkSound

(***************************************************************************)
(* The marker's row gives the place to go on from, which is the beginning  *)
(* if there is no marker.                                                  *)
(***************************************************************************)
LEMMA FindMarkerSound ==
    ASSUME TablesSound(db), Named(db.items), WalkSound, FindMarker
    PROVE  WalkSound'
<1> DEFINE keys == WalkKeys
           id == walk.marker.id
<1>1. walk.at = "walking" /\ db' = db /\ WalkShape(walk) /\ OnItsWay(db.items, walk)
  BY DEF FindMarker, WalkSound, NoWalk
<1>2. walk' = IF walk.marker = NoMarker THEN [walk EXCEPT !.at = "fetching"]
              ELSE IF id \notin DOMAIN keys THEN [walk EXCEPT !.at = "refused"]
              ELSE [walk EXCEPT !.at = "fetching", !.from = keys[id]]
  BY DEF FindMarker
<1>3. /\ DOMAIN keys \subseteq DOMAIN db.items
      /\ \A i \in DOMAIN keys : keys[i] = Rank(db.items[i].name) /\ keys[i] \in Nat \ {0}
  BY ZenonT(90), KeysOrdered DEF WalkKeys, PublicItems, ItemsIn
<1>4. \A i \in walk.stay : Rank(db.items[i].name) \in Nat \ {0}
  BY <1>1, RankIsPlace DEF OnItsWay, Named, RowNamed
<1> HIDE DEF keys, id
<1>5. PICK at \in {"fetching", "refused"}, from \in Nat :
          /\ walk' = [walk EXCEPT !.at = at, !.from = from]
          /\ at = "fetching" =>
                 IF walk.marker = NoMarker THEN from = walk.from
                 ELSE id \in DOMAIN keys /\ from = keys[id]
  <2>1. walk = [walk EXCEPT !.from = walk.from]
    BY <1>1 DEF WalkShape
  <2>2. CASE walk.marker = NoMarker
    <3>1. walk' = [walk EXCEPT !.at = "fetching", !.from = walk.from]
      BY <1>1, <1>2, <2>2 DEF WalkShape
    <3> QED BY <1>1, <2>2, <3>1 DEF WalkShape
  <2>3. CASE walk.marker # NoMarker /\ id \notin DOMAIN keys
    <3>1. walk' = [walk EXCEPT !.at = "refused", !.from = walk.from]
      BY <1>1, <1>2, <2>3 DEF WalkShape
    <3> QED BY <1>1, <2>3, <3>1 DEF WalkShape
  <2>4. CASE walk.marker # NoMarker /\ id \in DOMAIN keys
    BY <1>2, <1>3, <2>4
  <2> QED BY <2>2, <2>3, <2>4
<1>6. walk' = [at |-> at, dir |-> walk.dir, marker |-> walk.marker, from |-> from,
               seen |-> walk.seen, stay |-> walk.stay, steady |-> walk.steady]
  BY <1>1, <1>5 DEF WalkShape
<1>7. /\ walk'.at = at /\ walk'.dir = walk.dir /\ walk'.marker = walk.marker
      /\ walk'.from = from /\ walk'.seen = walk.seen
      /\ walk'.stay = walk.stay /\ walk'.steady = walk.steady
  BY <1>6
<1>8. WalkShape(walk)'
  BY <1>1, <1>5, <1>6, <1>7 DEF WalkShape
<1>9. ASSUME walk.steady, at = "fetching"
      PROVE  SeenBefore(db.items, walk.stay, walk.seen, from)
  <2>1. CASE walk.marker = NoMarker
    <3>1. from = 0 /\ walk.seen = <<>>
      BY <1>1, <1>5, <1>9, <2>1 DEF OnItsWay
    <3>2. \A i : Never(walk.seen, i)
      BY <3>1 DEF Never
    <3>3. \A i \in walk.stay : ~(Rank(db.items[i].name) < from)
      BY <1>4, <3>1
    <3> QED BY <3>2, <3>3 DEF SeenBefore
  <2>2. CASE walk.marker # NoMarker
    <3>1. from = Rank(db.items[id].name)
      BY <1>3, <1>5, <1>9, <2>2
    <3> QED BY <1>1, <1>9, <2>2, <3>1 DEF OnItsWay, id
  <2> QED BY <2>1, <2>2
<1>10. OnItsWay(db.items, walk)'
  BY <1>1, <1>5, <1>7, <1>9 DEF OnItsWay
<1> QED BY <1>8, <1>10 DEF WalkSound

(***************************************************************************)
(* A page has each row from the place on, up to its marker's, once.        *)
(***************************************************************************)
LEMMA NextPageSound ==
    ASSUME TablesSound(db), Named(db.items), WalkSound, NextPage
    PROVE  WalkSound'
<1> DEFINE keys == WalkKeys
           rows == RowsFrom(keys, walk.from)
           page == PageOf(keys, walk.from, PageLimit, walk.dir)
           entries == page.entries
           seen == walk.seen \o entries
           at == IF page.next = NoMarker THEN "done" ELSE "walking"
<1>1. walk.at = "fetching" /\ db' = db /\ WalkShape(walk) /\ OnItsWay(db.items, walk)
  BY DEF NextPage, WalkSound, NoWalk
<1>2. walk' = [walk EXCEPT !.seen = seen, !.marker = page.next, !.at = at]
  BY <1>1 DEF NextPage, WalkShape
<1>3. /\ DOMAIN keys = PublicItems(db, walk.dir)
      /\ \A i \in DOMAIN keys : keys[i] = Rank(db.items[i].name) /\ keys[i] \in Nat \ {0}
      /\ Ordered(keys, DOMAIN keys)
  BY KeysOrdered DEF WalkKeys
<1>4. Shows(page, keys, rows)
  <2>1. PageLimit \in Nat
    BY BoundsAssumption
  <2> HIDE DEF keys
  <2> QED BY <1>3, <2>1, PageShows
<1>5. rows = {i \in DOMAIN keys : keys[i] >= walk.from}
  BY DEF RowsFrom
<1>6. walk.stay \subseteq DOMAIN keys
  <2>1. ASSUME NEW i \in walk.stay PROVE i \in PublicItems(db, walk.dir)
    <3>1. i \in DOMAIN db.items /\ db.items[i].dir = walk.dir /\ walk.dir # 2
      BY <1>1 DEF OnItsWay, WalkShape
    <3>2. db.items[i].flags = {}
      BY <3>1 DEF TablesSound, ItemsSound, ItemSound
    <3> QED BY <3>1, <3>2 DEF PublicItems, ItemsIn
  <2> HIDE DEF keys
  <2> QED BY <1>3, <2>1
<1>7. DOMAIN keys \subseteq DOMAIN db.items /\ DOMAIN db.items \subseteq Nat
  <2> HIDE DEF keys
  <2> QED BY <1>3 DEF PublicItems, ItemsIn, TablesSound, ItemsSound
<1> HIDE DEF keys, rows, page
<1>8. walk.seen \in Seq(Nat) /\ entries \in Seq(Nat) /\ walk.from \in Nat
  <2>1. rows \subseteq Nat
    BY <1>5, <1>7
  <2> QED BY <1>1, <1>4, <2>1, SeqMonotonic DEF Shows, WalkShape
<1>9. \A i : /\ i \notin rows => Never(entries, i)
             /\ (\E k \in 1 .. Len(entries) : entries[k] = i) => Once(entries, i)
             /\ ~(\E k \in 1 .. Len(entries) : entries[k] = i) => Never(entries, i)
  <2>1. \A k \in 1 .. Len(entries) : entries[k] \in rows
    BY <1>4, ElementOfSeq DEF Shows
  <2>2. \A j, k \in 1 .. Len(entries) : entries[j] = entries[k] => j = k
    BY <1>4 DEF Shows
  <2> QED BY <2>1, <2>2 DEF Never, Once
<1> HIDE DEF entries, seen, at
<1>10. \A i : /\ Never(walk.seen, i) /\ Never(entries, i) => Never(seen, i)
              /\ Never(walk.seen, i) /\ Once(entries, i) => Once(seen, i)
              /\ Once(walk.seen, i) /\ Never(entries, i) => Once(seen, i)
  BY <1>8, ConcatCounts DEF seen
<1>11. seen \in Seq(Nat)
  BY <1>8, ConcatCounts DEF seen
<1>12. ASSUME walk.steady, at = "done", NEW i \in walk.stay
       PROVE  Once(seen, i)
  <2>1. SeenBefore(db.items, walk.stay, walk.seen, walk.from)
    BY <1>1, <1>12 DEF OnItsWay
  <2>2. keys[i] \in Nat /\ keys[i] = Rank(db.items[i].name) /\ i \in DOMAIN keys
    BY <1>3, <1>6
  <2>3. CASE keys[i] < walk.from
    <3>1. i \notin rows
      BY <1>5, <1>8, <2>2, <2>3
    <3>2. Once(walk.seen, i)
      BY <2>1, <2>2, <2>3 DEF SeenBefore
    <3> QED BY <1>9, <1>10, <3>1, <3>2
  <2>4. CASE ~(keys[i] < walk.from)
    <3>1. i \in rows
      BY <1>5, <1>8, <2>2, <2>4
    <3>2. Never(walk.seen, i)
      BY <2>1, <2>2, <2>4 DEF SeenBefore
    <3>3. \E k \in 1 .. Len(entries) : entries[k] = i
      BY <1>4, <1>12, <3>1 DEF Shows, at, entries
    <3> QED BY <1>9, <1>10, <3>2, <3>3
  <2> QED BY <2>3, <2>4
<1>13. ASSUME walk.steady, at = "walking"
       PROVE  /\ page.next # NoMarker /\ page.next.id \in DOMAIN db.items
              /\ SeenBefore(db.items, walk.stay, seen, Rank(db.items[page.next.id].name))
  <2>1. SeenBefore(db.items, walk.stay, walk.seen, walk.from)
    BY <1>1, <1>13 DEF OnItsWay
  <2>2. /\ page.next # NoMarker /\ page.next.id \in rows
        /\ \A r \in rows : (\E k \in 1 .. Len(entries) : entries[k] = r)
                               <=> keys[r] < keys[page.next.id]
    BY <1>4, <1>13 DEF Shows, at, entries
  <2> DEFINE last == page.next.id
             place == keys[last]
  <2>3. last \in DOMAIN keys /\ place \in Nat /\ walk.from <= place
        /\ place = Rank(db.items[last].name)
    BY <1>3, <1>5, <1>8, <2>2
  <2> HIDE DEF last, place
  <2>4. ASSUME NEW i \in walk.stay
        PROVE  IF Rank(db.items[i].name) < place THEN Once(seen, i) ELSE Never(seen, i)
    <3>1. keys[i] \in Nat /\ keys[i] = Rank(db.items[i].name) /\ i \in DOMAIN keys
      BY <1>3, <1>6
    <3>2. CASE keys[i] < walk.from
      <4>1. i \notin rows /\ keys[i] < place
        BY <1>5, <1>8, <2>3, <3>1, <3>2
      <4>2. Once(walk.seen, i)
        BY <2>1, <3>1, <3>2 DEF SeenBefore
      <4>3. Once(seen, i)
        BY <1>9, <1>10, <4>1, <4>2
      <4> QED BY <3>1, <4>1, <4>3
    <3>3. CASE ~(keys[i] < walk.from)
      <4>1. i \in rows
        BY <1>5, <1>8, <3>1, <3>3
      <4>2. Never(walk.seen, i)
        BY <2>1, <3>1, <3>3 DEF SeenBefore
      <4>3. (\E k \in 1 .. Len(entries) : entries[k] = i) <=> keys[i] < place
        BY <2>2, <4>1 DEF place, last
      <4>4. CASE keys[i] < place
        BY <1>9, <1>10, <3>1, <4>2, <4>3, <4>4
      <4>5. CASE ~(keys[i] < place)
        BY <1>9, <1>10, <3>1, <4>2, <4>3, <4>5
      <4> QED BY <4>4, <4>5
    <3> QED BY <3>2, <3>3
  <2>5. SeenBefore(db.items, walk.stay, seen, place)
    BY <2>4 DEF SeenBefore
  <2> QED BY <1>7, <2>2, <2>3, <2>5 DEF last
<1>14. walk' = [at |-> at, dir |-> walk.dir, marker |-> page.next, from |-> walk.from,
                seen |-> seen, stay |-> walk.stay, steady |-> walk.steady]
  BY <1>1, <1>2 DEF WalkShape
<1>15. /\ walk'.at = at /\ walk'.dir = walk.dir /\ walk'.marker = page.next
       /\ walk'.from = walk.from /\ walk'.seen = seen
       /\ walk'.stay = walk.stay /\ walk'.steady = walk.steady
  BY <1>14
<1>16. at = "done" \/ at = "walking"
  BY DEF at
<1>17. WalkShape(walk)'
  BY <1>1, <1>11, <1>14, <1>15, <1>16 DEF WalkShape
<1>18. OnItsWay(db.items, walk)'
  BY <1>1, <1>12, <1>13, <1>15, <1>16 DEF OnItsWay
<1> QED BY <1>17, <1>18 DEF WalkSound

(***************************************************************************)
(* Every step leaves the walk as it should be.                             *)
(***************************************************************************)
LEMMA WalkStep ==
    ASSUME VaultInv, Listable, WalkSound, [Next]_vars
    PROVE  WalkSound'
<1>1. TablesSound(db) /\ Named(db.items)
  BY DEF VaultInv, Listable
<1>2. ASSUME db'.items = db.items, walk' = walk PROVE WalkSound'
  BY <1>2 DEF WalkSound
<1>3. CASE \/ NewDir \/ RenameDir \/ DropDir \/ NewItem \/ NewCopy
           \/ Move \/ Update \/ Delete \/ Restore \/ Clean
  <2>1. walk' = Watched
    BY <1>3 DEF NewDir, RenameDir, DropDir, NewItem, NewCopy, Move, Update, Delete, Restore,
                Clean, Apply
  <2> QED BY <2>1, WatchedSound
<1>4. CASE Upload \/ CollectOrphan
  BY <1>2, <1>4, RefileStep DEF Upload, CollectOrphan
<1>5. CASE Tick \/ SetBack \/ UNCHANGED vars
  BY <1>2, <1>5 DEF Tick, SetBack, vars
<1>6. CASE BeginWalk
  BY <1>1, <1>6, BeginWalkSound
<1>7. CASE FindMarker
  BY <1>1, <1>7, FindMarkerSound
<1>8. CASE NextPage
  BY <1>1, <1>8, NextPageSound
<1>9. CASE EndWalk
  BY <1>9 DEF EndWalk, WalkSound
<1> QED BY <1>3, <1>4, <1>5, <1>6, <1>7, <1>8, <1>9 DEF Next

LEMMA WalkHolds ==
    ASSUME WalkSound
    PROVE  WalkIsComplete
BY OnceCounts DEF WalkSound, NoWalk, WalkShape, OnItsWay, WalkIsComplete

-----------------------------------------------------------------------------
(***************************************************************************)
(* What a page may hold.                                                   *)
(***************************************************************************)
LEMMA FitsPage ==
    ASSUME NEW S, S \subseteq 1 .. MaxPage
    PROVE  IsFiniteSet(S) /\ Cardinality(S) \in Nat /\ Cardinality(S) <= MaxPage
<1>1. IsFiniteSet(1 .. MaxPage) /\ Cardinality(1 .. MaxPage) = MaxPage
  <2>1. 1 \in Int /\ MaxPage \in Int /\ ~(1 > MaxPage) /\ MaxPage - 1 + 1 = MaxPage
    BY DEF MaxPage
  <2>2. /\ IsFiniteSet(1 .. MaxPage)
        /\ Cardinality(1 .. MaxPage) = IF 1 > MaxPage THEN 0 ELSE MaxPage - 1 + 1
    BY <2>1, FS_Interval
  <2> QED BY <2>1, <2>2
<1>2. IsFiniteSet(S) /\ Cardinality(S) <= Cardinality(1 .. MaxPage)
  BY <1>1, FS_Subset
<1> QED BY <1>1, <1>2, FS_CardinalityType

(***************************************************************************)
(* The first page, if all rows fit, shows all of them and has no marker.   *)
(***************************************************************************)
LEMMA WholePage ==
    ASSUME NEW keys, Ordered(keys, DOMAIN keys), \A r \in DOMAIN keys : keys[r] \in Nat,
           Cardinality(DOMAIN keys) <= MaxPage, NEW scope
    PROVE  LET entries == Paged(keys, NoMarker, MaxPage, scope).shows.entries
           IN  /\ entries \in Seq(DOMAIN keys)
               /\ Range(entries) = DOMAIN keys
               /\ Len(entries) = Cardinality(DOMAIN keys)
<1> DEFINE page == PageOf(keys, 0, MaxPage, scope)
           entries == page.entries
<1>1. Paged(keys, NoMarker, MaxPage, scope).shows = page
  BY DEF Paged, Answer, MaxPage
<1>2. RowsFrom(keys, 0) = DOMAIN keys
  BY DEF RowsFrom
<1>3. MaxPage \in Nat
  BY DEF MaxPage
<1>4. /\ Shows(page, keys, DOMAIN keys) /\ page.next = NoMarker
      /\ Len(entries) = Cardinality(DOMAIN keys)
  BY <1>2, <1>3, PageShows
<1> HIDE DEF page
<1>5. /\ entries \in Seq(DOMAIN keys)
      /\ \A r \in DOMAIN keys : \E k \in 1 .. Len(entries) : entries[k] = r
  BY <1>4 DEF Shows
<1> HIDE DEF entries
<1>6. DOMAIN entries = 1 .. Len(entries) /\ \A k \in 1 .. Len(entries) : entries[k] \in DOMAIN keys
  BY <1>5, LenProperties, ElementOfSeq
<1>7. Range(entries) = DOMAIN keys
  BY <1>5, <1>6 DEF Range
<1> QED BY <1>1, <1>4, <1>5, <1>7 DEF entries

(***************************************************************************)
(* What is listed of a directory are the names of its public items.        *)
(***************************************************************************)
LEMMA ListedNames ==
    ASSUME VaultInv, Listable, NEW dir, HasDir(db, dir)
    PROVE  Listed(dir) = {db.items[i].name : i \in PublicItems(db, DirId(db, dir))}
<1> DEFINE d == DirId(db, dir)
           keys == ItemKeys(db, d, Glob, FALSE)
           scope == <<"items", d, Glob, FALSE>>
<1>1. ListItems(db, dir, Glob, FALSE, NoMarker, MaxPage) = Paged(keys, NoMarker, MaxPage, scope)
  BY DEF ListItems
<1>2. /\ DOMAIN keys = PublicItems(db, d)
      /\ \A i \in DOMAIN keys : keys[i] \in Nat
      /\ Ordered(keys, DOMAIN keys)
  BY KeysOrdered DEF VaultInv, Listable
<1>3. Cardinality(DOMAIN keys) <= MaxPage
  <2>1. PublicItems(db, d) \subseteq 1 .. MaxPage
    BY DEF PublicItems, ItemsIn, Listable, Small
  <2> HIDE DEF keys, d
  <2> QED BY <1>2, <2>1, FitsPage
<1> HIDE DEF keys, scope, d
<1>4. Range(Paged(keys, NoMarker, MaxPage, scope).shows.entries) = DOMAIN keys
  BY <1>2, <1>3, WholePage
<1> QED BY <1>1, <1>2, <1>4 DEF Listed, d

(***************************************************************************)
(* An item is public exactly if it is listed, and it is then the one of    *)
(* its name.                                                               *)
(***************************************************************************)
LEMMA ListedItem ==
    ASSUME VaultInv, Listable, NEW dir, HasDir(db, dir), NEW name
    PROVE  /\ HasPublicItem(db, dir, name) <=> name \in Listed(dir)
           /\ HasPublicItem(db, dir, name) =>
                  /\ ItemId(db, dir, name) \in DOMAIN db.items
                  /\ db.items[ItemId(db, dir, name)].flags = {}
<1> DEFINE d == DirId(db, dir)
           id == ItemId(db, dir, name)
<1>1. TablesSound(db) /\ d \in DOMAIN db.dirs /\ db.dirs[d].name = dir
  BY NamedDir DEF VaultInv
<1>2. \A i \in DOMAIN db.items : db.items[i].flags = {} \/ "hidden" \in db.items[i].flags
  BY <1>1 DEF TablesSound, ItemsSound, ItemSound
<1>3. /\ ItemsNamed(db, dir, name) = Matches(db, d, name)
      /\ \A i \in Matches(db, d, name) : id = i
  BY <1>1, Found
<1>4. ASSUME HasPublicItem(db, dir, name)
      PROVE  /\ id \in DOMAIN db.items /\ db.items[id].flags = {}
             /\ name \in Listed(dir)
  <2>1. /\ id \in DOMAIN db.items /\ db.items[id].dir = d /\ db.items[id].name = name
        /\ "hidden" \notin db.items[id].flags
    BY <1>4, NamedItem DEF HasPublicItem
  <2>2. id \in PublicItems(db, d)
    BY <2>1 DEF PublicItems, ItemsIn
  <2> QED BY <1>2, <2>1, <2>2, ListedNames
<1>5. ASSUME name \in Listed(dir)
      PROVE  HasPublicItem(db, dir, name)
  <2>1. PICK i \in PublicItems(db, d) : db.items[i].name = name
    BY <1>5, ListedNames
  <2>2. i \in Matches(db, d, name) /\ "hidden" \notin db.items[i].flags
    BY <2>1 DEF PublicItems, ItemsIn, Matches
  <2>3. id = i /\ HasItem(db, dir, name)
    BY <1>3, <2>2 DEF HasItem
  <2> QED BY <2>2, <2>3 DEF HasPublicItem
<1> QED BY <1>4, <1>5

(***************************************************************************)
(* What opening a public item shows, and what its references give.         *)
(***************************************************************************)
Open(dir, name, version) == GetItem(db, dir, name, version, "raw", FALSE)

Refer(dir, name, field) == GetReference(db, dir, name, field, 0, TRUE, FALSE)

LEMMA Opened ==
    ASSUME VaultInv, Listable, NEW dir, HasDir(db, dir), NEW name, HasPublicItem(db, dir, name),
           NEW version,
           AskedVersion(db.items[ItemId(db, dir, name)], version)
               \in DOMAIN db.items[ItemId(db, dir, name)].versions
    PROVE  LET item == db.items[ItemId(db, dir, name)]
               row  == item.versions[AskedVersion(item, version)]
           IN  /\ Open(dir, name, version).status = "ok"
               /\ Open(dir, name, version).shows.fields = row.fields
               /\ Open(dir, name, version).shows.files = DOMAIN row.files
               /\ Open(dir, name, version).shows.total = Cardinality(DOMAIN item.versions)
<1> DEFINE item == db.items[ItemId(db, dir, name)]
           row  == item.versions[AskedVersion(item, version)]
           shown == [f \in DOMAIN row.fields |-> Shown(row.fields[f], "raw")]
           shows == [fields |-> shown, files |-> DOMAIN row.files,
                     total |-> Cardinality(DOMAIN item.versions)]
<1>1. item.flags = {} /\ ItemSound(item, db.files)
  BY ListedItem DEF VaultInv, TablesSound, ItemsSound
<1>2. Open(dir, name, version) = Answer("ok", shows)
  BY <1>1 DEF GetItem, Open
<1>3. \A data : Shown(data, "raw") = data
  BY SMTT(60) DEF Shown
<1>4. row.fields = [f \in DOMAIN row.fields |-> row.fields[f]]
  BY SMTT(60), <1>1 DEF ItemSound, VersionSound, IsFunction
<1>5. shown = row.fields
  BY <1>3, <1>4
<1> HIDE DEF item, row, shown
<1>6. shows.fields = row.fields /\ shows.files = DOMAIN row.files
      /\ shows.total = Cardinality(DOMAIN item.versions)
  BY <1>5
<1> HIDE DEF shows
<1>7. Open(dir, name, version).status = "ok" /\ Open(dir, name, version).shows = shows
  BY <1>2 DEF Answer
<1> QED BY <1>6, <1>7 DEF item, row

LEMMA NotOpened ==
    ASSUME NEW dir, NEW name, ~HasPublicItem(db, dir, name)
    PROVE  Open(dir, name, 0).status # "ok"
BY DEF GetItem, Refused, Answer, Open

(***************************************************************************)
(* What an item's references, its export and its completions give.         *)
(***************************************************************************)
LEMMA ReferencesDoAgree ==
    ASSUME VaultInv, Listable, NEW dir, HasDir(db, dir), NEW name, HasPublicItem(db, dir, name)
    PROVE  ReferencesAgree(dir, name, Open(dir, name, 0).shows)
<1> DEFINE id == ItemId(db, dir, name)
           item == db.items[id]
           row == Latest(item)
           shows == Open(dir, name, 0).shows
           export == ExportSnapshot(db, dir, name).shows
<1>1. /\ id \in DOMAIN db.items /\ item.flags = {}
      /\ ItemSound(item, db.files) /\ RowNamed(item)
  BY ListedItem DEF VaultInv, TablesSound, ItemsSound, Listable, Named
<1>2. /\ AskedVersion(item, 0) = item.latest /\ item.latest \in DOMAIN item.versions
      /\ row = item.versions[item.latest]
  BY SMTT(60), <1>1 DEF AskedVersion, ItemSound, Latest
<1>3. /\ VersionSound(row, db.files) /\ DOMAIN row.fields \cup DOMAIN row.files \subseteq Glob
  BY <1>1, <1>2 DEF ItemSound, RowNamed, VersionNamed
<1> HIDE DEF id, item, row
<1>4. shows.fields = row.fields /\ shows.files = DOMAIN row.files
  BY <1>2, Opened DEF id, item
<1>5. export.fields = row.fields /\ export.files = row.files
  <2>1. ExportSnapshot(db, dir, name)
            = Answer("ok", [fields |-> row.fields, files |-> row.files])
    BY SMTT(60) DEF ExportSnapshot, row, item, id
  <2> QED BY <2>1 DEF Answer
<1>6. ASSUME NEW f
      PROVE  Refer(dir, name, f)
                 = IF f \in DOMAIN row.fields THEN Answer("ok", [data |-> row.fields[f]])
                   ELSE IF f \in DOMAIN row.files THEN Answer("ok", [file |-> row.files[f]])
                   ELSE Refused("not_found")
  BY <1>1, <1>2 DEF GetReference, Refer, Shown, item, id
<1>7. \A f : f \in DOMAIN row.files => f \notin DOMAIN row.fields
  BY <1>3 DEF VersionSound, Clash
<1>8. \A f \in DOMAIN row.fields : Refer(dir, name, f).shows = [data |-> row.fields[f]]
  BY <1>6 DEF Answer
<1>9. \A f \in DOMAIN row.files : Refer(dir, name, f).shows = [file |-> row.files[f]]
  BY <1>6, <1>7 DEF Answer
<1>10. HasPublicDir(db, dir) =>
           References(db, dir, name, Glob)
               = {<<dir, name, f>> : f \in DOMAIN row.fields \cup DOMAIN row.files}
  <2>1. (DOMAIN row.fields \cup DOMAIN row.files) \cap Glob
            = DOMAIN row.fields \cup DOMAIN row.files
    BY <1>3
  <2> QED BY <2>1 DEF References, row, item, id
<1> HIDE DEF shows, export
<1>11. /\ \A f \in DOMAIN shows.fields : Refer(dir, name, f).shows = [data |-> shows.fields[f]]
       /\ \A f \in shows.files : Refer(dir, name, f).shows = [file |-> export.files[f]]
       /\ export.fields = shows.fields
       /\ HasPublicDir(db, dir) =>
              References(db, dir, name, Glob)
                  = {<<dir, name, f>> : f \in DOMAIN shows.fields \cup shows.files}
  BY <1>4, <1>5, <1>8, <1>9, <1>10
<1>12. ReferencesAgree(dir, name, shows)
  BY <1>11, Zenon DEF ReferencesAgree, Refer, export
<1> QED BY <1>12 DEF shows

(***************************************************************************)
(* Its versions.                                                           *)
(***************************************************************************)
LEMMA VersionsDoAgree ==
    ASSUME VaultInv, Listable, NEW dir, HasDir(db, dir), NEW name, HasPublicItem(db, dir, name)
    PROVE  VersionsAgree(dir, name, Open(dir, name, 0).shows)
<1> DEFINE id == ItemId(db, dir, name)
           item == db.items[id]
           keys == [v \in DOMAIN item.versions |-> item.latest - v]
           shows == Open(dir, name, 0).shows
           entries == ListVersions(db, dir, name, NoMarker, MaxPage).shows.entries
<1>1. id \in DOMAIN db.items /\ ItemSound(item, db.files) /\ item.latest <= MaxPage
  BY ListedItem DEF VaultInv, TablesSound, ItemsSound, Listable, Small
<1>2. ListVersions(db, dir, name, NoMarker, MaxPage)
          = Paged(keys, NoMarker, MaxPage, <<"versions", id>>)
  BY DEF ListVersions
<1> HIDE DEF item, id
<1>3. /\ item.latest \in Nat /\ item.latest \in DOMAIN item.versions
      /\ \A v \in DOMAIN item.versions : v \in Nat \ {0} /\ v <= item.latest
  BY <1>1 DEF ItemSound
<1>4. /\ IsFiniteSet(DOMAIN item.versions)
      /\ Cardinality(DOMAIN item.versions) <= MaxPage
  <2>1. DOMAIN item.versions \subseteq 1 .. MaxPage
    BY <1>1, <1>3 DEF MaxPage
  <2> QED BY <2>1, FitsPage
<1>5. /\ DOMAIN keys = DOMAIN item.versions
      /\ \A v \in DOMAIN item.versions : keys[v] = item.latest - v /\ keys[v] \in Nat
  BY <1>3
<1>6. Ordered(keys, DOMAIN keys)
  <2> HIDE DEF keys
  <2>1. \A v, w \in DOMAIN item.versions : keys[v] = keys[w] => v = w
    BY <1>3, <1>5
  <2> QED BY <1>4, <1>5, <2>1 DEF Ordered
<1> HIDE DEF keys
<1>7. Range(entries) = DOMAIN item.versions /\ Len(entries) = Cardinality(DOMAIN item.versions)
  BY <1>2, <1>4, <1>5, <1>6, WholePage
<1>8. shows.total = Cardinality(DOMAIN item.versions)
  <2>1. AskedVersion(item, 0) = item.latest
    BY DEF AskedVersion
  <2> QED BY <1>3, <2>1, Opened DEF item, id
<1>9. ASSUME NEW v \in DOMAIN item.versions
      PROVE  Open(dir, name, v).status = "ok"
  <2>1. AskedVersion(item, v) = v
    BY <1>3 DEF AskedVersion
  <2> QED BY <2>1, Opened DEF item, id
<1> HIDE DEF entries, shows
<1>10. /\ Len(entries) = shows.total
       /\ \A v \in Range(entries) : Open(dir, name, v).status = "ok"
  BY <1>7, <1>8, <1>9
<1>11. VersionsAgree(dir, name, shows)
  BY <1>10, Zenon DEF VersionsAgree, entries, Open
<1> QED BY <1>11 DEF shows

(***************************************************************************)
(* The count of a directory's items is that of the names listed.           *)
(***************************************************************************)
LEMMA CountsAgree ==
    ASSUME VaultInv, Listable, NEW dir, HasDir(db, dir)
    PROVE  Cardinality(PublicItems(db, DirId(db, dir))) = Cardinality(Listed(dir))
<1> DEFINE rows == PublicItems(db, DirId(db, dir))
           f == [i \in rows |-> db.items[i].name]
<1>1. Listed(dir) = {db.items[i].name : i \in rows}
  BY ListedNames
<1>2. \A i, j \in rows : db.items[i].name = db.items[j].name => i = j
  BY DEF PublicItems, ItemsIn, VaultInv, TablesSound, ItemsSound, PathsUnique, SamePath
<1>3. IsFiniteSet(rows)
  <2>1. rows \subseteq DOMAIN db.items /\ IsFiniteSet(DOMAIN db.items)
    BY DEF PublicItems, ItemsIn, VaultInv, TablesSound, ItemsSound
  <2> HIDE DEF rows
  <2> QED BY <2>1, FS_Subset
<1> HIDE DEF rows
<1>4. f \in Bijection(rows, Listed(dir))
  BY <1>1, <1>2 DEF Bijection, Injection, Surjection, IsInjective
<1>5. ExistsBijection(rows, Listed(dir))
  BY <1>4 DEF ExistsBijection
<1>6. Cardinality(Listed(dir)) = Cardinality(rows)
  BY <1>3, <1>5, FS_Bijection
<1> QED BY <1>6 DEF rows

(***************************************************************************)
(* So all the readers give of one state is one and the same.               *)
(***************************************************************************)
LEMMA ViewsDoAgree ==
    ASSUME VaultInv, Listable
    PROVE  ViewsAgree
<1> SUFFICES ASSUME NEW dir \in DirNames, HasDir(db, dir)
             PROVE  /\ \A name \in ItemNames \cup {KeyItem, PublicKeyItem} :
                           LET got == GetItem(db, dir, name, 0, "raw", FALSE)
                           IN  /\ got.status = "ok" <=> name \in Listed(dir)
                               /\ got.status = "ok" => /\ ReferencesAgree(dir, name, got.shows)
                                                       /\ VersionsAgree(dir, name, got.shows)
                    /\ HasPublicDir(db, dir) =>
                           GetDir(db, dir).shows.items = Cardinality(Listed(dir))
                    /\ CompleteItem(db, dir, Glob, {})
                           \subseteq {<<dir, name>> : name \in Listed(dir)}
  BY DEF ViewsAgree
<1>1. ASSUME NEW name
      PROVE  /\ Open(dir, name, 0).status = "ok" <=> name \in Listed(dir)
             /\ Open(dir, name, 0).status = "ok" => HasPublicItem(db, dir, name)
  <2>1. CASE HasPublicItem(db, dir, name)
    <3> DEFINE item == db.items[ItemId(db, dir, name)]
    <3>1. AskedVersion(item, 0) = item.latest /\ item.latest \in DOMAIN item.versions
      BY <2>1, ListedItem DEF VaultInv, TablesSound, ItemsSound, ItemSound, AskedVersion
    <3>2. Open(dir, name, 0).status = "ok"
      BY <2>1, <3>1, Opened
    <3> QED BY <2>1, <3>2, ListedItem
  <2>2. CASE ~HasPublicItem(db, dir, name)
    BY <2>2, NotOpened, ListedItem
  <2> QED BY <2>1, <2>2
<1>2. ASSUME NEW name
      PROVE  LET got == GetItem(db, dir, name, 0, "raw", FALSE)
             IN  /\ got.status = "ok" <=> name \in Listed(dir)
                 /\ got.status = "ok" => /\ ReferencesAgree(dir, name, got.shows)
                                         /\ VersionsAgree(dir, name, got.shows)
  <2>1. /\ Open(dir, name, 0).status = "ok" <=> name \in Listed(dir)
        /\ Open(dir, name, 0).status = "ok" =>
               /\ ReferencesAgree(dir, name, Open(dir, name, 0).shows)
               /\ VersionsAgree(dir, name, Open(dir, name, 0).shows)
    BY <1>1, ReferencesDoAgree, VersionsDoAgree
  <2> QED BY <2>1, Zenon DEF Open
<1>3. HasPublicDir(db, dir) => GetDir(db, dir).shows.items = Cardinality(Listed(dir))
  BY CountsAgree DEF GetDir, Answer
<1>4. CompleteItem(db, dir, Glob, {}) \subseteq {<<dir, name>> : name \in Listed(dir)}
  <2>1. NamesIn(db, DirId(db, dir), Glob) \subseteq Listed(dir)
    BY ListedNames DEF NamesIn
  <2>2. UNION {References(db, dir, n, Range(NameOrder)) : n \in {}} = {}
    OBVIOUS
  <2> QED BY <2>1, <2>2 DEF CompleteItem
<1> QED BY <1>2, <1>3, <1>4

(***************************************************************************)
(* What the reads show holds, for every vault, names, requests and reads:  *)
(* an item is listed exactly if it can be opened; its references, export,  *)
(* versions and completions give what opening it shows; a listing by pages *)
(* misses and repeats nothing that stays; and an answer of several         *)
(* statements is one the vault could have given at once.                   *)
(***************************************************************************)
THEOREM ReadsStayTrue == ReadersSpec => []ReadsHold
<1> DEFINE ListInv == VaultInv /\ Listable /\ WalkSound
<1>1. InitReaders => ListInv
  BY VaultInit, ListableInit DEF InitReaders, WalkSound, Init
<1>2. ListInv /\ [NextReaders]_readVars => ListInv'
  <2>1. [NextReaders]_readVars => [Next]_vars
    BY DEF NextReaders, readVars, BeginRead, ReadStep, FindDir, FindItem, FindVersion,
           CheckVersion, ReadFields, ReadFiles, TakeSnapshot, Reading, Writes
  <2> QED BY <2>1, VaultStep, ListableStep, WalkStep
<1>3. ListInv => ReadsAgree
  BY ViewsDoAgree, WalkHolds DEF ReadsAgree
<1>4. ReadersSpec => []ReadsAgree
  <2> HIDE DEF ListInv
  <2> QED BY <1>1, <1>2, <1>3, PTL DEF ReadersSpec
<1> QED BY <1>4, ReadsStayWhole, PTL DEF ReadsHold
=============================================================================
