--------------------------- MODULE AuthCache_proofs ---------------------------
(***************************************************************************)
(* What the operations of a scope cache return: a cache again, with no     *)
(* scope they were not asked to keep or to add.  The session's proofs rest *)
(* on these facts.                                                         *)
(***************************************************************************)
EXTENDS AuthCache, FiniteSetTheorems, TLAPS

Entries(S, I) == [at: I, pos: 1 .. Cardinality(S)]

(***************************************************************************)
(* A cache is a function on some of the scopes (struct AuthCache).         *)
(***************************************************************************)
LEMMA CacheIsFunction ==
    ASSUME NEW S, NEW I, NEW cache, IsFiniteSet(S)
    PROVE  /\ cache \in Caches(S, I)
                => /\ cache \in [DOMAIN cache -> Entries(S, I)]
                   /\ DOMAIN cache \subseteq S
                   /\ IsFiniteSet(DOMAIN cache)
           /\ \A T \in SUBSET S : cache \in [T -> Entries(S, I)] => cache \in Caches(S, I)
<1>1. ASSUME cache \in Caches(S, I)
      PROVE  /\ cache \in [DOMAIN cache -> Entries(S, I)]
             /\ DOMAIN cache \subseteq S
  <2>1. PICK T \in SUBSET S : cache \in [T -> Entries(S, I)]
    BY <1>1 DEF Caches, Entries
  <2>2. DOMAIN cache = T
    BY <2>1
  <2> QED
    BY <2>1, <2>2
<1>2. ASSUME cache \in Caches(S, I)
      PROVE  IsFiniteSet(DOMAIN cache)
  BY <1>1, <1>2, FS_Subset
<1>3. ASSUME NEW T \in SUBSET S, cache \in [T -> Entries(S, I)]
      PROVE  cache \in Caches(S, I)
  BY <1>3 DEF Caches, Entries
<1> QED
  BY <1>1, <1>2, <1>3

(***************************************************************************)
(* The empty Vec is a cache (AuthCache::default, clear).                   *)
(***************************************************************************)
LEMMA EmptyCacheType ==
    ASSUME NEW S, NEW I, IsFiniteSet(S)
    PROVE  /\ EmptyCache \in Caches(S, I)
           /\ DOMAIN EmptyCache = {}
<1>1. DOMAIN EmptyCache = {}
  BY DEF EmptyCache
<1>2. EmptyCache \in [{} -> Entries(S, I)]
  BY DEF EmptyCache
<1> QED
  BY <1>1, <1>2, CacheIsFunction

-----------------------------------------------------------------------------
(* Which scopes an operation leaves in the cache *)

(***************************************************************************)
(* Vec::retain keeps the entries it is asked to keep.                      *)
(***************************************************************************)
LEMMA RetainDomain ==
    ASSUME NEW cache, NEW T
    PROVE  DOMAIN Retain(cache, T) = DOMAIN cache \cap T
BY DEF Retain

(***************************************************************************)
(* AuthCache::remove leaves every scope but the one it is given.           *)
(***************************************************************************)
LEMMA RemoveDomain ==
    ASSUME NEW cache, NEW scope
    PROVE  DOMAIN Remove(cache, scope) = DOMAIN cache \ {scope}
BY SMTT(60), RetainDomain DEF Remove

(***************************************************************************)
(* AuthCache::retain_unexpired leaves the scopes with a live entry.        *)
(***************************************************************************)
LEMMA RetainUnexpiredDomain ==
    ASSUME NEW cache, NEW now, NEW ttl
    PROVE  DOMAIN RetainUnexpired(cache, now, ttl) = Live(cache, now, ttl)
BY ZenonT(90), RetainDomain DEF RetainUnexpired, Live

(***************************************************************************)
(* Vec::push adds its scope.                                               *)
(***************************************************************************)
LEMMA PushBackDomain ==
    ASSUME NEW cache, NEW scope, NEW at
    PROVE  DOMAIN PushBack(cache, scope, at) = DOMAIN cache \cup {scope}
BY DEF PushBack

(***************************************************************************)
(* AuthCache::insert adds no scope but its own.                            *)
(***************************************************************************)
LEMMA InsertDomain ==
    ASSUME NEW cache, NEW scope, NEW now
    PROVE  DOMAIN Insert(cache, scope, now) \subseteq DOMAIN cache \cup {scope}
<1> DEFINE grown == PushBack(Remove(cache, scope), scope, now)
           front == {s \in DOMAIN grown : grown[s].pos > 1}
<1>1. DOMAIN grown = DOMAIN cache \cup {scope}
  <2>1. DOMAIN Remove(cache, scope) = DOMAIN cache \ {scope}
    BY RemoveDomain
  <2>2. DOMAIN grown = DOMAIN Remove(cache, scope) \cup {scope}
    BY PushBackDomain
  <2> QED
    BY <2>1, <2>2
<1>2. DOMAIN Retain(grown, front) \subseteq DOMAIN grown
  BY ZenonT(90), RetainDomain
<1>3. Insert(cache, scope, now) =
        IF Cardinality(DOMAIN grown) > Capacity THEN Retain(grown, front) ELSE grown
  BY DEF Insert
<1> HIDE DEF grown, front
<1> QED
  BY <1>1, <1>2, <1>3

(***************************************************************************)
(* Into an empty cache it does insert it: eviction spares a newest entry.  *)
(***************************************************************************)
LEMMA InsertIntoEmpty ==
    ASSUME NEW cache, NEW scope, NEW now, DOMAIN cache = {}
    PROVE  DOMAIN Insert(cache, scope, now) = {scope}
<1> DEFINE grown == PushBack(Remove(cache, scope), scope, now)
<1>1. DOMAIN grown = {scope}
  BY RemoveDomain DEF PushBack
<1>2. Cardinality(DOMAIN grown) = 1
  BY <1>1, FS_Singleton
<1>3. ~(Cardinality(DOMAIN grown) > Capacity)
  BY <1>2, CapacityAssumption
<1> QED
  BY <1>1, <1>3 DEF Insert

(***************************************************************************)
(* AuthCache::contains leaves the scopes with a live entry.                *)
(***************************************************************************)
LEMMA AfterContainsDomain ==
    ASSUME NEW cache, NEW scope, NEW now, NEW ttl
    PROVE  DOMAIN AfterContains(cache, scope, now, ttl) = Live(cache, now, ttl)
<1> DEFINE kept == RetainUnexpired(cache, now, ttl)
<1>1. DOMAIN kept = Live(cache, now, ttl)
  BY RetainUnexpiredDomain
<1>2. DOMAIN PushBack(Remove(kept, scope), scope, kept[scope].at) = DOMAIN kept \cup {scope}
  <2>1. DOMAIN Remove(kept, scope) = DOMAIN kept \ {scope}
    BY RemoveDomain
  <2>2. DOMAIN PushBack(Remove(kept, scope), scope, kept[scope].at)
          = DOMAIN Remove(kept, scope) \cup {scope}
    BY PushBackDomain
  <2> QED
    BY <2>1, <2>2
<1>3. AfterContains(cache, scope, now, ttl) =
        IF scope \in DOMAIN kept
        THEN PushBack(Remove(kept, scope), scope, kept[scope].at)
        ELSE kept
  BY DEF AfterContains
<1> HIDE DEF kept
<1> QED
  BY <1>1, <1>2, <1>3

-----------------------------------------------------------------------------
(* An operation on a cache returns a cache *)

(***************************************************************************)
(* Vec::retain.                                                            *)
(***************************************************************************)
LEMMA RetainType ==
    ASSUME NEW S, NEW I, IsFiniteSet(S), NEW cache \in Caches(S, I), NEW T
    PROVE  Retain(cache, T) \in Caches(S, I)
<1> DEFINE D == DOMAIN cache \cap T
           Ahead(s) == {t \in D : cache[t].pos <= cache[s].pos}
<1>1. /\ cache \in [DOMAIN cache -> Entries(S, I)]
      /\ DOMAIN cache \subseteq S
      /\ IsFiniteSet(DOMAIN cache)
  BY CacheIsFunction
<1>2. ASSUME NEW s \in D
      PROVE  Cardinality(Ahead(s)) \in 1 .. Cardinality(S)
  <2>1. Ahead(s) \subseteq S /\ s \in Ahead(s)
    BY <1>1 DEF Entries
  <2>2. IsFiniteSet(Ahead(s)) /\ Cardinality(Ahead(s)) <= Cardinality(S)
    BY <2>1, FS_Subset
  <2>3. Cardinality(Ahead(s)) # 0
    BY <2>1, <2>2, FS_EmptySet
  <2>4. Cardinality(Ahead(s)) \in Nat /\ Cardinality(S) \in Nat
    BY <2>2, FS_CardinalityType
  <2> HIDE DEF Ahead
  <2> QED
    BY <2>2, <2>3, <2>4
<1>3. Retain(cache, T) = [s \in D |-> [at |-> cache[s].at, pos |-> Cardinality(Ahead(s))]]
  BY DEF Retain
<1> HIDE DEF Ahead
<1>4. \A s \in D : cache[s].at \in I
  BY <1>1 DEF Entries
<1>5. Retain(cache, T) \in [D -> Entries(S, I)]
  BY <1>2, <1>3, <1>4 DEF Entries
<1> QED
  BY <1>1, <1>5, CacheIsFunction

(***************************************************************************)
(* Vec::push.                                                              *)
(***************************************************************************)
LEMMA PushBackType ==
    ASSUME NEW S, NEW I, IsFiniteSet(S), NEW cache \in Caches(S, I),
           NEW scope \in S, NEW at \in I
    PROVE  PushBack(cache, scope, at) \in Caches(S, I)
<1> DEFINE D == DOMAIN cache \ {scope}
<1>1. /\ cache \in [DOMAIN cache -> Entries(S, I)]
      /\ DOMAIN cache \subseteq S
  BY CacheIsFunction
<1>2. Cardinality(D) + 1 \in 1 .. Cardinality(S)
  <2>1. IsFiniteSet(S \ {scope}) /\ Cardinality(S \ {scope}) = Cardinality(S) - 1
    BY FS_RemoveElement
  <2>2. D \subseteq S \ {scope}
    BY <1>1
  <2>3. IsFiniteSet(D) /\ Cardinality(D) <= Cardinality(S \ {scope})
    BY <2>1, <2>2, FS_Subset
  <2>4. Cardinality(D) \in Nat /\ Cardinality(S) \in Nat
    BY <2>3, FS_CardinalityType
  <2> QED
    BY <2>1, <2>3, <2>4
<1>3. PushBack(cache, scope, at) \in [DOMAIN cache \cup {scope} -> Entries(S, I)]
  BY <1>1, <1>2 DEF PushBack, Entries
<1>4. DOMAIN cache \cup {scope} \in SUBSET S
  BY <1>1
<1> QED
  BY <1>3, <1>4, CacheIsFunction

(***************************************************************************)
(* AuthCache::remove and insert.                                           *)
(***************************************************************************)
LEMMA RemoveType ==
    ASSUME NEW S, NEW I, IsFiniteSet(S), NEW cache \in Caches(S, I), NEW scope
    PROVE  Remove(cache, scope) \in Caches(S, I)
BY RetainType DEF Remove

(***************************************************************************)
(* An insertion, evictions included, leaves a cache of the same scopes and  *)
(* instants.                                                                *)
(***************************************************************************)
LEMMA InsertType ==
    ASSUME NEW S, NEW I, IsFiniteSet(S), NEW cache \in Caches(S, I),
           NEW scope \in S, NEW now \in I
    PROVE  Insert(cache, scope, now) \in Caches(S, I)
<1> DEFINE grown == PushBack(Remove(cache, scope), scope, now)
<1>1. Remove(cache, scope) \in Caches(S, I)
  BY RemoveType
<1>2. grown \in Caches(S, I)
  BY <1>1, PushBackType
<1>3. \A T : Retain(grown, T) \in Caches(S, I)
  BY <1>2, RetainType
<1> QED
  BY <1>2, <1>3 DEF Insert

(***************************************************************************)
(* AuthCache::retain_unexpired and contains.                               *)
(***************************************************************************)
LEMMA RetainUnexpiredType ==
    ASSUME NEW S, NEW I, IsFiniteSet(S), NEW cache \in Caches(S, I), NEW now, NEW ttl
    PROVE  RetainUnexpired(cache, now, ttl) \in Caches(S, I)
BY RetainType DEF RetainUnexpired

(***************************************************************************)
(* A look-up, which prunes and reorders, leaves a cache.                    *)
(***************************************************************************)
LEMMA AfterContainsType ==
    ASSUME NEW S, NEW I, IsFiniteSet(S), NEW cache \in Caches(S, I),
           NEW scope, NEW now, NEW ttl
    PROVE  AfterContains(cache, scope, now, ttl) \in Caches(S, I)
<1> DEFINE kept == RetainUnexpired(cache, now, ttl)
<1>1. kept \in Caches(S, I)
  BY RetainUnexpiredType
<1> HIDE DEF kept
<1>2. Remove(kept, scope) \in Caches(S, I)
  BY <1>1, RemoveType
<1>3. ASSUME scope \in DOMAIN kept
      PROVE  PushBack(Remove(kept, scope), scope, kept[scope].at) \in Caches(S, I)
  <2>1. scope \in S /\ kept[scope].at \in I
    BY <1>1, <1>3, CacheIsFunction DEF Entries
  <2> QED
    BY <1>2, <2>1, PushBackType
<1> QED
  BY <1>1, <1>3 DEF AfterContains, kept

-----------------------------------------------------------------------------
(* When the surviving entries were inserted *)

(***************************************************************************)
(* Vec::retain, remove and retain_unexpired leave an entry's instant.      *)
(***************************************************************************)
LEMMA RetainAt ==
    ASSUME NEW cache, NEW T
    PROVE  \A s \in DOMAIN Retain(cache, T) : Retain(cache, T)[s].at = cache[s].at
BY DEF Retain

(***************************************************************************)
(* Removing a scope leaves the instants of the others alone.                *)
(***************************************************************************)
LEMMA RemoveAt ==
    ASSUME NEW cache, NEW scope
    PROVE  \A s \in DOMAIN Remove(cache, scope) : Remove(cache, scope)[s].at = cache[s].at
BY RetainAt DEF Remove

(***************************************************************************)
(* Pruning leaves the instants of what it keeps alone.                      *)
(***************************************************************************)
LEMMA RetainUnexpiredAt ==
    ASSUME NEW cache, NEW now, NEW ttl
    PROVE  \A s \in DOMAIN RetainUnexpired(cache, now, ttl) :
               RetainUnexpired(cache, now, ttl)[s].at = cache[s].at
BY RetainAt DEF RetainUnexpired

(***************************************************************************)
(* contains moves the entry it finds to the back, with its old instant.    *)
(***************************************************************************)
LEMMA AfterContainsAt ==
    ASSUME NEW cache, NEW scope, NEW now, NEW ttl
    PROVE  \A s \in DOMAIN AfterContains(cache, scope, now, ttl) :
               /\ s \in DOMAIN cache
               /\ AfterContains(cache, scope, now, ttl)[s].at = cache[s].at
<1> DEFINE kept == RetainUnexpired(cache, now, ttl)
           rest == Remove(kept, scope)
           back == PushBack(rest, scope, kept[scope].at)
<1>1. \A s \in DOMAIN kept : s \in DOMAIN cache /\ kept[s].at = cache[s].at
  <2>1. DOMAIN kept = Live(cache, now, ttl)
    BY RetainUnexpiredDomain
  <2>2. \A s \in DOMAIN kept : kept[s].at = cache[s].at
    BY RetainUnexpiredAt
  <2> QED
    BY <2>1, <2>2 DEF Live
<1>2. \A s \in DOMAIN rest : s \in DOMAIN kept /\ rest[s].at = kept[s].at
  BY ZenonT(90), RemoveAt, RemoveDomain
<1>3. AfterContains(cache, scope, now, ttl) = IF scope \in DOMAIN kept THEN back ELSE kept
  BY DEF AfterContains
<1> HIDE DEF kept, rest
<1>4. \A s \in DOMAIN back :
          IF s = scope THEN back[s].at = kept[scope].at ELSE s \in DOMAIN rest /\ back[s] = rest[s]
  BY DEF PushBack
<1> HIDE DEF back
<1> QED
  BY <1>1, <1>2, <1>3, <1>4

(***************************************************************************)
(* insert gives its own scope the instant it is called with.               *)
(***************************************************************************)
LEMMA InsertAt ==
    ASSUME NEW cache, NEW scope, NEW now
    PROVE  \A s \in DOMAIN Insert(cache, scope, now) :
               IF s = scope
               THEN Insert(cache, scope, now)[s].at = now
               ELSE s \in DOMAIN cache /\ Insert(cache, scope, now)[s].at = cache[s].at
<1> DEFINE rest  == Remove(cache, scope)
           grown == PushBack(rest, scope, now)
           front == {s \in DOMAIN grown : grown[s].pos > 1}
<1>1. \A s \in DOMAIN rest : s \in DOMAIN cache /\ rest[s].at = cache[s].at
  BY ZenonT(90), RemoveAt, RemoveDomain
<1>2. Insert(cache, scope, now) =
        IF Cardinality(DOMAIN grown) > Capacity THEN Retain(grown, front) ELSE grown
  BY DEF Insert
<1> HIDE DEF rest
<1>3. \A s \in DOMAIN grown :
          IF s = scope THEN grown[s].at = now ELSE s \in DOMAIN rest /\ grown[s] = rest[s]
  BY DEF PushBack
<1> HIDE DEF grown, front
<1>4. \A s \in DOMAIN Retain(grown, front) :
          s \in DOMAIN grown /\ Retain(grown, front)[s].at = grown[s].at
  BY RetainAt, RetainDomain
<1> QED
  BY <1>1, <1>2, <1>3, <1>4

-----------------------------------------------------------------------------
(* The order of the entries *)

(***************************************************************************)
(* The entries are those of a Vec within its capacity: no two have the     *)
(* same position, and the position of each is the number of entries up to  *)
(* it.                                                                     *)
(***************************************************************************)
UpTo(cache, s) == {t \in DOMAIN cache : cache[t].pos <= cache[s].pos}

Apart(cache) ==
    \A s, t \in DOMAIN cache : cache[s].pos = cache[t].pos => s = t

InOrder(cache) ==
    /\ Cardinality(DOMAIN cache) <= Capacity
    /\ Apart(cache)
    /\ \A s \in DOMAIN cache : cache[s].pos = Cardinality(UpTo(cache, s))

(***************************************************************************)
(* A new cache is in order.                                                 *)
(***************************************************************************)
LEMMA EmptyInOrder == InOrder(EmptyCache)
<1>1. DOMAIN EmptyCache = {}
  BY DEF EmptyCache
<1> QED
  BY <1>1, FS_EmptySet, CapacityAssumption DEF InOrder, Apart

(***************************************************************************)
(* What a cache is made of, for the proofs about the order.                *)
(***************************************************************************)
LEMMA CacheParts ==
    ASSUME NEW S, NEW I, IsFiniteSet(S), NEW cache \in Caches(S, I)
    PROVE  /\ IsFiniteSet(DOMAIN cache)
           /\ Cardinality(DOMAIN cache) \in Nat
           /\ \A s \in DOMAIN cache : cache[s].pos \in Nat \ {0}
           /\ \A s \in DOMAIN cache : /\ IsFiniteSet(UpTo(cache, s))
                                      /\ Cardinality(UpTo(cache, s)) \in Nat
                                      /\ Cardinality(UpTo(cache, s)) <= Cardinality(DOMAIN cache)
<1>1. IsFiniteSet(DOMAIN cache) /\ cache \in [DOMAIN cache -> Entries(S, I)]
  BY CacheIsFunction
<1>2. Cardinality(DOMAIN cache) \in Nat
  BY <1>1, FS_CardinalityType
<1>3. \A s \in DOMAIN cache : cache[s].pos \in Nat \ {0}
  <2>1. Cardinality(S) \in Nat
    BY FS_CardinalityType
  <2> QED
    BY <1>1, <2>1 DEF Entries
<1>4. ASSUME NEW s \in DOMAIN cache
      PROVE  /\ IsFiniteSet(UpTo(cache, s))
             /\ Cardinality(UpTo(cache, s)) \in Nat
             /\ Cardinality(UpTo(cache, s)) <= Cardinality(DOMAIN cache)
  <2>1. UpTo(cache, s) \subseteq DOMAIN cache
    BY DEF UpTo
  <2> QED
    BY <1>1, <2>1, FS_Subset, FS_CardinalityType
<1> QED
  BY <1>1, <1>2, <1>3, <1>4

(***************************************************************************)
(* Whatever Vec::retain keeps is a Vec again.                              *)
(***************************************************************************)
LEMMA RetainInOrder ==
    ASSUME NEW S, NEW I, IsFiniteSet(S), NEW cache \in Caches(S, I), NEW T,
           Apart(cache), Cardinality(DOMAIN cache \cap T) <= Capacity
    PROVE  InOrder(Retain(cache, T))
<1> DEFINE D == DOMAIN cache \cap T
           Ahead(s) == {t \in D : cache[t].pos <= cache[s].pos}
           kept == Retain(cache, T)
<1>1. kept = [s \in D |-> [at |-> cache[s].at, pos |-> Cardinality(Ahead(s))]]
  BY DEF Retain
<1>2. IsFiniteSet(D) /\ \A s \in D : cache[s].pos \in Nat
  BY CacheParts, FS_Subset
<1> HIDE DEF kept
<1>3. ASSUME NEW s \in D
      PROVE  /\ UpTo(kept, s) = Ahead(s)
             /\ \A t \in D : Cardinality(Ahead(t)) = Cardinality(Ahead(s)) => t = s
  <2>1. ASSUME NEW t \in D, cache[t].pos <= cache[s].pos
        PROVE  Cardinality(Ahead(t)) <= Cardinality(Ahead(s))
    <3>1. Ahead(t) \subseteq Ahead(s) /\ IsFiniteSet(Ahead(s))
      BY <1>2, <2>1, FS_Subset
    <3> QED
      BY <3>1, FS_Subset
  <2>2. ASSUME NEW t \in D, cache[t].pos > cache[s].pos
        PROVE  Cardinality(Ahead(t)) > Cardinality(Ahead(s))
    <3>1. Ahead(s) \subseteq Ahead(t) /\ t \in Ahead(t) \ Ahead(s)
      BY <1>2, <2>2
    <3>2. IsFiniteSet(Ahead(t)) /\ IsFiniteSet(Ahead(s))
      BY <1>2, FS_Subset
    <3>3. Cardinality(Ahead(s)) # Cardinality(Ahead(t)) /\ Cardinality(Ahead(s)) <= Cardinality(Ahead(t))
      BY <3>1, <3>2, FS_Subset
    <3>4. Cardinality(Ahead(s)) \in Nat /\ Cardinality(Ahead(t)) \in Nat
      BY <3>2, FS_CardinalityType
    <3> QED
      BY <3>3, <3>4
  <2>3. \A t \in D : Cardinality(Ahead(t)) \in Nat
    <3>1. \A t \in D : IsFiniteSet(Ahead(t))
      BY <1>2, FS_Subset
    <3> QED
      BY <3>1, FS_CardinalityType
  <2> HIDE DEF Ahead
  <2>4. UpTo(kept, s) = {t \in D : Cardinality(Ahead(t)) <= Cardinality(Ahead(s))}
    BY <1>1 DEF UpTo
  <2>5. \A t \in D : Cardinality(Ahead(t)) <= Cardinality(Ahead(s)) <=> cache[t].pos <= cache[s].pos
    BY <1>2, <2>1, <2>2, <2>3
  <2>6. UpTo(kept, s) = {t \in D : cache[t].pos <= cache[s].pos}
    BY <2>4, <2>5
  <2>7. \A t \in D : Cardinality(Ahead(t)) = Cardinality(Ahead(s)) => cache[t].pos <= cache[s].pos
    BY <2>3, <2>5
  <2>8. \A t \in D : Cardinality(Ahead(t)) = Cardinality(Ahead(s)) => cache[s].pos <= cache[t].pos
    <3>1. ASSUME NEW t \in D, cache[s].pos > cache[t].pos
          PROVE  Cardinality(Ahead(s)) > Cardinality(Ahead(t))
      <4>1. Ahead(t) \subseteq Ahead(s) /\ s \in Ahead(s) \ Ahead(t)
        BY <1>2, <3>1 DEF Ahead
      <4>2. IsFiniteSet(Ahead(s)) /\ IsFiniteSet(Ahead(t))
        BY <1>2, FS_Subset DEF Ahead
      <4>3. Cardinality(Ahead(t)) # Cardinality(Ahead(s)) /\ Cardinality(Ahead(t)) <= Cardinality(Ahead(s))
        BY <4>1, <4>2, FS_Subset
      <4> QED
        BY <2>3, <4>3
    <3> QED
      BY <1>2, <2>3, <3>1
  <2> QED
    BY <1>2, <2>6, <2>7, <2>8 DEF Ahead, Apart
<1> HIDE DEF Ahead
<1>4. DOMAIN kept = D /\ \A s \in D : kept[s].pos = Cardinality(Ahead(s))
  BY <1>1
<1> QED
  BY <1>3, <1>4 DEF InOrder, Apart, kept

(***************************************************************************)
(* A part of a cache within its capacity is within its capacity.           *)
(***************************************************************************)
LEMMA PartInOrder ==
    ASSUME NEW S, NEW I, IsFiniteSet(S), NEW cache \in Caches(S, I), NEW T, InOrder(cache)
    PROVE  InOrder(Retain(cache, T))
<1>1. IsFiniteSet(DOMAIN cache) /\ Cardinality(DOMAIN cache) \in Nat
  BY CacheParts
<1>2. /\ Cardinality(DOMAIN cache \cap T) <= Cardinality(DOMAIN cache)
      /\ Cardinality(DOMAIN cache \cap T) \in Nat
  BY <1>1, FS_Subset, FS_CardinalityType
<1>3. Cardinality(DOMAIN cache \cap T) <= Capacity
  BY <1>1, <1>2, CapacityAssumption DEF InOrder
<1> QED
  BY <1>3, RetainInOrder DEF InOrder

(***************************************************************************)
(* A push of a scope that is not in the Vec puts it at the back.           *)
(***************************************************************************)
LEMMA PushBackInOrder ==
    ASSUME NEW S, NEW I, IsFiniteSet(S), NEW cache \in Caches(S, I), InOrder(cache),
           NEW scope, scope \notin DOMAIN cache, NEW at
    PROVE  LET grown == PushBack(cache, scope, at)
           IN  /\ Apart(grown)
               /\ \A s \in DOMAIN grown : grown[s].pos = Cardinality(UpTo(grown, s))
               /\ grown[scope].pos = Cardinality(DOMAIN grown)
               /\ Cardinality(DOMAIN grown) = Cardinality(DOMAIN cache) + 1
<1> DEFINE grown == PushBack(cache, scope, at)
<1>1. /\ IsFiniteSet(DOMAIN cache) /\ Cardinality(DOMAIN cache) \in Nat
      /\ \A s \in DOMAIN cache : cache[s].pos \in Nat /\ cache[s].pos <= Cardinality(DOMAIN cache)
  BY CacheParts DEF InOrder
<1>2. DOMAIN cache \ {scope} = DOMAIN cache
  OBVIOUS
<1>3. grown = [s \in DOMAIN cache \cup {scope} |->
                  IF s = scope THEN [at |-> at, pos |-> Cardinality(DOMAIN cache) + 1] ELSE cache[s]]
  BY <1>2 DEF PushBack
<1>4. Cardinality(DOMAIN cache \cup {scope}) = Cardinality(DOMAIN cache) + 1
  BY <1>1, FS_AddElement
<1> HIDE DEF grown
<1>5. /\ DOMAIN grown = DOMAIN cache \cup {scope}
      /\ grown[scope].pos = Cardinality(DOMAIN cache) + 1
      /\ \A s \in DOMAIN cache : grown[s] = cache[s]
  BY <1>3
<1>6. UpTo(grown, scope) = DOMAIN grown
  BY <1>1, <1>5 DEF UpTo
<1>7. \A s \in DOMAIN cache : UpTo(grown, s) = UpTo(cache, s)
  BY <1>1, <1>5 DEF UpTo
<1>8. \A s \in DOMAIN grown : grown[s].pos = Cardinality(UpTo(grown, s))
  BY <1>4, <1>5, <1>6, <1>7 DEF InOrder
<1>9. Apart(grown)
  BY <1>1, <1>5 DEF Apart, InOrder
<1> QED
  BY <1>4, <1>5, <1>8, <1>9 DEF grown

(***************************************************************************)
(* insert leaves the cache in order and its own scope in it; only a full   *)
(* cache loses an entry, and it loses the one at the front.                *)
(***************************************************************************)
LEMMA InsertInOrder ==
    ASSUME NEW S, NEW I, IsFiniteSet(S), NEW cache \in Caches(S, I), InOrder(cache),
           NEW scope \in S, NEW now \in I
    PROVE  /\ InOrder(Insert(cache, scope, now))
           /\ scope \in DOMAIN Insert(cache, scope, now)
           /\ \A s \in DOMAIN cache \ DOMAIN Insert(cache, scope, now) : cache[s].pos = 1
<1> DEFINE rest  == Remove(cache, scope)
           grown == PushBack(rest, scope, now)
           behind == {s \in DOMAIN grown : grown[s].pos > 1}
           kept == Retain(grown, behind)
<1>1. rest \in Caches(S, I) /\ InOrder(rest) /\ DOMAIN rest = DOMAIN cache \ {scope}
  BY RemoveType, RemoveDomain, PartInOrder DEF Remove
<1>2. grown \in Caches(S, I) /\ DOMAIN grown = DOMAIN cache \cup {scope}
  <2>1. DOMAIN grown = DOMAIN rest \cup {scope}
    BY PushBackDomain
  <2> QED
    BY <1>1, <2>1, PushBackType
<1>3. /\ IsFiniteSet(DOMAIN rest) /\ Cardinality(DOMAIN rest) \in Nat
      /\ IsFiniteSet(DOMAIN grown) /\ Cardinality(DOMAIN grown) \in Nat
      /\ \A s \in DOMAIN grown : grown[s].pos \in Nat \ {0}
  BY <1>1, <1>2, CacheParts
<1>4. Insert(cache, scope, now) =
        IF Cardinality(DOMAIN grown) > Capacity THEN kept ELSE grown
  BY DEF Insert
<1> HIDE DEF rest
<1>5. /\ Apart(grown)
      /\ \A s \in DOMAIN grown : grown[s].pos = Cardinality(UpTo(grown, s))
      /\ grown[scope].pos = Cardinality(DOMAIN grown)
      /\ Cardinality(DOMAIN grown) = Cardinality(DOMAIN rest) + 1
  BY <1>1, PushBackInOrder
<1>6. \A s \in DOMAIN rest : grown[s] = rest[s]
  BY <1>1 DEF PushBack
<1> HIDE DEF grown
<1>7. CASE ~(Cardinality(DOMAIN grown) > Capacity)
  <2>1. InOrder(grown)
    BY <1>3, <1>5, <1>7, CapacityAssumption DEF InOrder
  <2> QED
    BY <1>2, <1>4, <1>7, <2>1
<1>8. CASE Cardinality(DOMAIN grown) > Capacity
  <2>1. DOMAIN kept = behind
    BY ZenonT(90), RetainDomain
  <2>2. scope \in behind
    BY <1>2, <1>3, <1>5, <1>8, CapacityAssumption
  <2>3. scope \notin DOMAIN cache
    <3>1. scope \in DOMAIN cache => DOMAIN grown = DOMAIN cache
      BY <1>2
    <3>2. Cardinality(DOMAIN cache) <= Capacity
      BY DEF InOrder
    <3> QED
      BY <1>3, <1>8, <3>1, <3>2, CapacityAssumption
  <2>4. ASSUME NEW s \in DOMAIN cache
        PROVE  grown[s].pos = cache[s].pos
    <3>1. DOMAIN cache \cap (DOMAIN cache \ {scope}) = DOMAIN cache
      BY <2>3
    <3>2. rest = [t \in DOMAIN cache |->
                     [at |-> cache[t].at,
                      pos |-> Cardinality({u \in DOMAIN cache : cache[u].pos <= cache[t].pos})]]
      BY <3>1 DEF rest, Remove, Retain
    <3>3. rest[s].pos = Cardinality(UpTo(cache, s))
      BY <3>2 DEF UpTo
    <3> QED
      BY <1>1, <1>6, <2>3, <3>3 DEF InOrder
  <2>5. \A s \in DOMAIN cache \ DOMAIN kept : cache[s].pos = 1
    BY <1>2, <1>3, <2>1, <2>4
  <2>6. InOrder(kept)
    <3>1. \E s \in DOMAIN grown : s \notin behind
      <4> DEFINE n == Cardinality(DOMAIN grown)
                 place == [s \in DOMAIN grown |-> grown[s].pos]
      <4>1. \A s \in DOMAIN grown : grown[s].pos <= n
        BY <1>2, <1>5, CacheParts
      <4> HIDE DEF behind
      <4>2. ASSUME \A s \in DOMAIN grown : grown[s].pos > 1
            PROVE  FALSE
        <5>1. place \in [DOMAIN grown -> 2 .. n]
          BY <1>3, <4>1, <4>2
        <5>2. IsFiniteSet(2 .. n) /\ Cardinality(2 .. n) < n
          <6>1. n \in Nat /\ n > 0
            BY <1>3, <1>5
          <6> HIDE DEF n
          <6> QED
            BY SMTT(60), <6>1, FS_Interval
        <5> DEFINE D == DOMAIN grown
                   R == 2 .. n
        <5>3. IsFiniteSet(D) /\ IsFiniteSet(R) /\ Cardinality(R) < Cardinality(D) /\ place \in [D -> R]
          BY <1>3, <5>1, <5>2
        <5> HIDE DEF D, R, place
        <5>4. \E x, y \in D : x # y /\ place[x] = place[y]
          BY <5>3, FS_PigeonHole
        <5> QED
          BY <1>5, <5>4 DEF Apart, D, place
      <4> QED
        BY <4>2 DEF behind
    <3>2. Cardinality(behind) < Cardinality(DOMAIN grown) /\ Cardinality(behind) \in Nat
      <4>1. behind \subseteq DOMAIN grown /\ behind # DOMAIN grown
        BY <3>1
      <4> HIDE DEF behind
      <4> QED
        BY <1>3, <4>1, FS_Subset, FS_CardinalityType
    <3>3. Cardinality(DOMAIN rest) <= Capacity
      BY <1>1 DEF InOrder
    <3>4. Cardinality(behind) <= Capacity
      BY <1>3, <1>5, <3>2, <3>3, CapacityAssumption
    <3>5. DOMAIN grown \cap behind = behind
      OBVIOUS
    <3> HIDE DEF behind
    <3> QED
      BY <1>2, <1>5, <3>4, <3>5, RetainInOrder
  <2> QED
    BY <1>4, <1>8, <2>1, <2>2, <2>5, <2>6
<1> QED
  BY <1>7, <1>8

(***************************************************************************)
(* contains leaves it in order.                                            *)
(***************************************************************************)
LEMMA AfterContainsInOrder ==
    ASSUME NEW S, NEW I, IsFiniteSet(S), NEW cache \in Caches(S, I), InOrder(cache),
           NEW scope, NEW now, NEW ttl
    PROVE  InOrder(AfterContains(cache, scope, now, ttl))
<1> DEFINE kept == RetainUnexpired(cache, now, ttl)
           rest == Remove(kept, scope)
           back == PushBack(rest, scope, kept[scope].at)
<1>1. kept \in Caches(S, I) /\ InOrder(kept)
  BY RetainUnexpiredType, PartInOrder DEF RetainUnexpired
<1>2. AfterContains(cache, scope, now, ttl) = IF scope \in DOMAIN kept THEN back ELSE kept
  BY DEF AfterContains
<1> HIDE DEF kept
<1>3. rest \in Caches(S, I) /\ InOrder(rest) /\ DOMAIN rest = DOMAIN kept \ {scope}
  BY <1>1, RemoveType, RemoveDomain, PartInOrder DEF Remove
<1> HIDE DEF rest
<1>4. ASSUME scope \in DOMAIN kept
      PROVE  InOrder(back)
  <2>1. /\ Apart(back)
        /\ \A s \in DOMAIN back : back[s].pos = Cardinality(UpTo(back, s))
    BY <1>3, PushBackInOrder
  <2>2. DOMAIN back = DOMAIN kept
    <3>1. DOMAIN back = DOMAIN rest \cup {scope}
      BY PushBackDomain
    <3> QED
      BY <1>3, <1>4, <3>1
  <2> HIDE DEF back
  <2> QED
    BY <1>1, <2>1, <2>2 DEF InOrder
<1> QED
  BY <1>1, <1>2, <1>4
=============================================================================
