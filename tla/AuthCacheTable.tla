---------------------------- MODULE AuthCacheTable ----------------------------
(***************************************************************************)
(* The operations of AuthCache as a state machine on one cache: what the   *)
(* agent's session model relies on.                                        *)
(***************************************************************************)
EXTENDS AuthCache

CONSTANTS
    Scopes,     \* scope hashes
    Instants,   \* clock readings, in any order: a caller's may be stale
    Ttls        \* lifetimes the setting takes

VARIABLES
    table,
    call    \* the last call, with its arguments and what it returned

Init == table = EmptyCache /\ call = <<"new">>

Next ==
    \/ \E s \in Scopes, now \in Instants :
           /\ table' = Insert(table, s, now)
           /\ call' = <<"insert", s, now>>
    \/ \E s \in Scopes, now \in Instants, ttl \in Ttls :
           /\ table' = AfterContains(table, s, now, ttl)
           /\ call' = <<"contains", s, now, ttl, Contains(table, s, now, ttl)>>
    \/ \E now \in Instants, ttl \in Ttls :
           /\ table' = RetainUnexpired(table, now, ttl)
           /\ call' = <<"retain", now, ttl>>
    \/ \E s \in Scopes :
           /\ table' = Remove(table, s)
           /\ call' = <<"remove", s>>
    \/ /\ table' = EmptyCache
       /\ call' = <<"clear">>

Spec == Init /\ [][Next]_<<table, call>>
=============================================================================
