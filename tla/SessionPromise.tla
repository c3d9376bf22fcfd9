---------------------------- MODULE SessionPromise ----------------------------
(***************************************************************************)
(* What the agent promises about access to the vault, without clocks,      *)
(* epochs, handles or locks:                                               *)
(*                                                                         *)
(*   - a scope is granted only for a client whose master password was      *)
(*     accepted, by the verifier or by the vault it opened, after the last *)
(*     revocation;                                                         *)
(*   - a revocation - a lock, an unload, a clock failure, a change of the  *)
(*     process identification type - withdraws at once every grant and     *)
(*     every password that was accepted but not yet turned into a grant;   *)
(*   - a request is served only for a scope of its own that is granted.    *)
(*                                                                         *)
(* Grants may disappear at any time: expiry and eviction fail closed.      *)
(* AgentSession implements this module: AgentSessionRefinement_proofs.     *)
(***************************************************************************)
CONSTANTS
    Clients,    \* local processes that talk to the agent
    IdentTypes, \* process identification types
    ScopeOf     \* ScopeOf[c][t]: the scope hash of client c under type t

VARIABLES
    granted,    \* granted[a]: the scopes authorized for access scope a
    proving,    \* clients whose password was accepted, grant still to come
    serving     \* clients whose request was admitted and is not over

vars == <<granted, proving, serving>>

AccessScopes == {"items", "settings"}

ScopesOf(c) == {ScopeOf[c][t] : t \in IdentTypes}

Nothing == [a \in AccessScopes |-> {}]

Shrinks == \A a \in AccessScopes : granted'[a] \subseteq granted[a]

Init ==
    /\ granted = Nothing
    /\ proving = {}
    /\ serving = {}

Prove(c) ==
    /\ proving' = proving \cup {c}
    /\ UNCHANGED <<granted, serving>>

GiveUp(c) ==
    /\ proving' = proving \ {c}
    /\ UNCHANGED <<granted, serving>>

Grant(c) ==
    /\ c \in proving
    /\ \E a \in AccessScopes, s \in ScopesOf(c) :
           /\ granted'[a] \subseteq granted[a] \cup {s}
           /\ \A b \in AccessScopes \ {a} : granted'[b] = granted[b]
    /\ proving' = proving \ {c}
    /\ UNCHANGED serving

Open(c) ==
    /\ c \in proving
    /\ granted = Nothing
    /\ \E a \in AccessScopes, s \in ScopesOf(c) :
           granted' = [Nothing EXCEPT ![a] = {s}]
    /\ proving' = {}
    /\ UNCHANGED serving

Forget ==
    /\ Shrinks
    /\ UNCHANGED <<proving, serving>>

Revoke ==
    /\ granted' = Nothing
    /\ proving' = {}
    /\ UNCHANGED serving

Serve(c) ==
    /\ \E a \in AccessScopes : ScopesOf(c) \cap granted[a] # {}
    /\ Shrinks
    /\ serving' = serving \cup {c}
    /\ UNCHANGED proving

Finish(c) ==
    /\ serving' = serving \ {c}
    /\ UNCHANGED <<granted, proving>>

Next ==
    \/ \E c \in Clients :
           \/ Prove(c) \/ GiveUp(c) \/ Grant(c) \/ Open(c) \/ Serve(c) \/ Finish(c)
    \/ Forget
    \/ Revoke

Spec == Init /\ [][Next]_vars
=============================================================================
