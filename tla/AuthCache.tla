------------------------------ MODULE AuthCache ------------------------------
(***************************************************************************)
(* The agent's scope cache (struct AuthCache of agent/state.rs) as a set   *)
(* of operators.  The code keeps a Vec of (scope hash, inserted_at) with   *)
(* no scope hash twice, least recently used first; here a cache is the     *)
(* function from each cached scope to its entry, whose field pos is the    *)
(* entry's index in the Vec.  AuthCacheVec states the operations on the    *)
(* Vec itself and is checked to implement these.                           *)
(***************************************************************************)
EXTENDS Integers, FiniteSets

CONSTANTS
    Capacity    \* SCOPE_CACHE_CAPACITY: the most entries a cache holds

ASSUME CapacityAssumption == Capacity \in Nat \ {0}

Caches(Scopes, Instants) ==
    UNION {[S -> [at: Instants, pos: 1 .. Cardinality(Scopes)]] : S \in SUBSET Scopes}

EmptyCache == [s \in {} |-> [at |-> 0, pos |-> 1]]

(***************************************************************************)
(* Vec::retain: the entries of S survive, in their order.                  *)
(***************************************************************************)
Retain(cache, S) ==
    [s \in DOMAIN cache \cap S |->
        [at  |-> cache[s].at,
         pos |-> Cardinality({t \in DOMAIN cache \cap S :
                                  cache[t].pos <= cache[s].pos})]]

(***************************************************************************)
(* An entry is live when it is younger than ttl.  checked_duration_since   *)
(* is None for an entry newer than the instant it is compared with, and    *)
(* such an entry is not live either.                                       *)
(***************************************************************************)
IsLive(entry, now, ttl) ==
    /\ entry.at <= now
    /\ now - entry.at < ttl

Live(cache, now, ttl) == {s \in DOMAIN cache : IsLive(cache[s], now, ttl)}

RetainUnexpired(cache, now, ttl) == Retain(cache, Live(cache, now, ttl))

Remove(cache, scope) == Retain(cache, DOMAIN cache \ {scope})

PushBack(cache, scope, at) ==
    [s \in DOMAIN cache \cup {scope} |->
        IF s = scope
        THEN [at |-> at, pos |-> Cardinality(DOMAIN cache \ {scope}) + 1]
        ELSE cache[s]]

(***************************************************************************)
(* insert: the newest entry goes to the back; over capacity the front is   *)
(* evicted.                                                                *)
(***************************************************************************)
Insert(cache, scope, now) ==
    LET grown == PushBack(Remove(cache, scope), scope, now)
    IN  IF Cardinality(DOMAIN grown) > Capacity
        THEN Retain(grown, {s \in DOMAIN grown : grown[s].pos > 1})
        ELSE grown

(***************************************************************************)
(* contains answers whether the scope has a live entry; it also drops      *)
(* every entry that is not live and moves the one it found to the back,    *)
(* with the instant it was inserted at unchanged.                          *)
(***************************************************************************)
Contains(cache, scope, now, ttl) == scope \in Live(cache, now, ttl)

AfterContainsRenewing(cache, scope, now, ttl) ==
    LET kept == RetainUnexpired(cache, now, ttl)
    IN  IF scope \in DOMAIN kept
        THEN PushBack(Remove(kept, scope), scope, now)
        ELSE kept

AfterContains(cache, scope, now, ttl) ==
    LET kept == RetainUnexpired(cache, now, ttl)
    IN  IF scope \in DOMAIN kept
        THEN PushBack(Remove(kept, scope), scope, kept[scope].at)
        ELSE kept
=============================================================================
