----------------------------- MODULE AuthCacheVec -----------------------------
(***************************************************************************)
(* AuthCache as agent/state.rs writes it: entries is the Vec, front first. *)
(***************************************************************************)
EXTENDS Integers, FiniteSets, Sequences

CONSTANTS
    Capacity,
    Scopes,
    Instants,
    Ttls

ASSUME VecAssumption == Capacity \in Nat \ {0}

VARIABLES
    entries,    \* Vec<AuthCacheEntry>
    call        \* the last call, with its arguments and what it returned

Vec == INSTANCE SequencesExt

Entry == [scope: Scopes, at: Instants]

Init == entries = <<>> /\ call = <<"new">>

(***************************************************************************)
(* Vec::retain: from front to back, what is in S stays.                    *)
(***************************************************************************)
Retained(S) ==
    LET kept[i \in 0 .. Len(entries)] ==
            IF i = 0 THEN <<>>
            ELSE IF entries[i] \in S THEN Append(kept[i - 1], entries[i])
            ELSE kept[i - 1]
    IN  kept[Len(entries)]

Without(s) == Retained({e \in Entry : e.scope # s})

Unexpired(now, ttl) == Retained({e \in Entry : e.at <= now /\ now - e.at < ttl})

Insert(s, now) ==
    LET grown == Append(Without(s), [scope |-> s, at |-> now])
    IN  /\ entries' = IF Len(grown) > Capacity THEN Tail(grown) ELSE grown
        /\ call' = <<"insert", s, now>>

ContainsInPlace(s, now, ttl) ==
    /\ entries' = Unexpired(now, ttl)
    /\ call' = <<"contains", s, now, ttl, \E i \in DOMAIN entries' : entries'[i].scope = s>>

Contains(s, now, ttl) ==
    LET kept  == Unexpired(now, ttl)
        found == {i \in DOMAIN kept : kept[i].scope = s}
    IN  /\ \/ found = {} /\ entries' = kept
           \/ \E i \in found :
                  /\ \A j \in found : i <= j
                  /\ entries' = Append(Vec!RemoveAt(kept, i), kept[i])
        /\ call' = <<"contains", s, now, ttl, found # {}>>

RetainUnexpired(now, ttl) ==
    /\ entries' = Unexpired(now, ttl)
    /\ call' = <<"retain", now, ttl>>

Remove(s) ==
    /\ entries' = Without(s)
    /\ call' = <<"remove", s>>

Clear ==
    /\ entries' = <<>>
    /\ call' = <<"clear">>

Next ==
    \/ \E s \in Scopes, now \in Instants : Insert(s, now)
    \/ \E s \in Scopes, now \in Instants, ttl \in Ttls : Contains(s, now, ttl)
    \/ \E now \in Instants, ttl \in Ttls : RetainUnexpired(now, ttl)
    \/ \E s \in Scopes : Remove(s)
    \/ Clear

Spec == Init /\ [][Next]_<<entries, call>>

-----------------------------------------------------------------------------

(***************************************************************************)
(* The Vec read as a function from scope to entry.                         *)
(***************************************************************************)
AsTable ==
    [s \in {entries[i].scope : i \in DOMAIN entries} |->
        LET i == CHOOSE j \in DOMAIN entries : entries[j].scope = s
        IN  [at |-> entries[i].at, pos |-> i]]

Table == INSTANCE AuthCacheTable WITH table <- AsTable

(***************************************************************************)
(* Entries are well formed and never more than Capacity (state.rs:1059).   *)
(***************************************************************************)
TypeOK ==
    /\ entries \in Seq(Entry)
    /\ Len(entries) <= Capacity

(***************************************************************************)
(* The cache never holds one scope twice, so an expiry or a removal of a   *)
(* scope leaves no second, older entry that would keep it authorized       *)
(* (insert, state.rs:1053; remove, state.rs:1119).                         *)
(***************************************************************************)
OneEntryPerScope ==
    \A i, j \in DOMAIN entries : entries[i].scope = entries[j].scope => i = j

VecSound == TypeOK /\ OneEntryPerScope

(***************************************************************************)
(* Every call on the Vec does what the operation of AuthCache does: the    *)
(* entries it keeps, the instants they were inserted at (a lookup moves an *)
(* entry but never renews it), their order, what a lookup answers, and the *)
(* entry an insert over capacity evicts (state.rs:1051-1121); and the Vec  *)
(* is always sound.                                                        *)
(***************************************************************************)
Stays == UNCHANGED <<entries, call>>
ImplementsTable ==
    /\ []VecSound
    /\ Table!Init /\ [][Stays \/ Table!Next]_<<entries, call>>
=============================================================================
