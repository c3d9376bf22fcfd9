--------------------------------- MODULE Gate ---------------------------------
(***************************************************************************)
(* Who may do what (agent/auth.rs, with the unlock routes of controller.rs *)
(* and the policy of state.rs): what a peer's credentials and processes    *)
(* make of it, the unlock method it is offered and what that asks for, the *)
(* two access scopes with their own durations, and what each route needs.  *)
(* Every request is one step here: how the steps of several requests cross *)
(* is AgentSession, how the processes are found Identify.                  *)
(***************************************************************************)
EXTENDS Naturals, FiniteSets

CONSTANTS
    Peers,      \* records: own (user and group are the agent's), chain and origin
                \* (hashes, or Untold if the processes cannot be told), program
    Platforms,  \* a subset of {"macos", "desktop", "plain"}: Linux with or without
                \* a toolkit is one of the last two
    Duration,   \* how long an unlock of each access scope lasts
    DenialTtl,  \* how long the Deny of a dialog lasts
    MaxTime     \* bound: the clock

ASSUME GateAssumption ==
    /\ \A scope \in {"items", "settings"} : Duration[scope] \in Nat
    /\ DenialTtl \in Nat
    /\ MaxTime \in Nat

Untold == "unknown"
AccessScopes == {"items", "settings"}
Types == {"insecure-all", "process-chain", "originating-process"}

VARIABLES
    platform,   \* (fixed)
    vault,      \* on disk: old (needs a migration), type and trusted of its settings
    gate,       \* the agent: open, needed (a migration), type, allowed (a set of
                \* <<access scope, hash, inserted at>>), latest expiry or 0
    denied,     \* the denials that stand, entries of the same form
    time,
    grants,     \* history: the unlocks that stand
    entered     \* history: the last request that was let in

gateVars == <<platform, vault, gate, denied, time, grants, entered>>

(***************************************************************************)
(* PeerAuthorization::scope_hash, under the identification type in force.  *)
(***************************************************************************)
ScopeHash(peer, type) ==
    CASE type = "insecure-all" -> "all"
      [] type = "process-chain" -> peer.chain
      [] type = "originating-process" -> peer.origin

Identified(peer) == peer.own /\ ScopeHash(peer, gate.type) # Untold

(***************************************************************************)
(* What unlock_methods offers, and what a route of auth_routes demands: a  *)
(* session to show a dialog in, or a program the direct way may be used    *)
(* by (direct_unlock_caller, which macOS does not have).                   *)
(***************************************************************************)
OffersDialog(capable) == platform = "macos" \/ (platform = "desktop" /\ capable)
Offered(capable) == IF OffersDialog(capable) THEN "gui" ELSE "direct"

HasRoute(way) == IF way = "gui" THEN platform # "plain" ELSE platform # "macos"

CallerKnown(peer) == peer.program # Untold
Exists(peer) == peer.program # "gone"
IsTrusted(peer) == peer.program = "agent" \/ peer.program \in vault.trusted

MayUse(peer, way, capable) ==
    /\ HasRoute(way)
    /\ IF way = "gui" THEN OffersDialog(capable) ELSE CallerKnown(peer) /\ Exists(peer)

(***************************************************************************)
(* is_scope_denied_for_scope: by the hash under the type in force.         *)
(* unlock_gui asks it before it shows a dialog; unlock_direct does not.    *)
(***************************************************************************)
IsDenied(peer, scope) ==
    \E denial \in denied :
        /\ denial[1] = scope /\ denial[2] = ScopeHash(peer, gate.type)
        /\ time - denial[3] < DenialTtl

Undenied(scope, hash) == {denial \in denied : denial[1] # scope \/ denial[2] # hash}

(***************************************************************************)
(* The answer of unlock_direct and of unlock_gui, whose user consents and  *)
(* types the password, which is the last of three if it is wrong.  An open *)
(* vault's verifier makes access_denied of a wrong one, the opening of a   *)
(* closed vault unlock_failed, which is access_denied again behind the     *)
(* dialog; the peer is known by the type of the vault's settings.          *)
(***************************************************************************)
UnlockStatus(peer, way, capable, scope, password) ==
    LET type == IF gate.open THEN gate.type ELSE vault.type
    IN  IF ~Identified(peer) \/ ~MayUse(peer, way, capable) THEN "access_denied"
        ELSE IF way = "gui" /\ IsDenied(peer, scope) THEN "temporary_lockout"
        ELSE IF password # "right"
             THEN IF gate.open \/ way = "gui" THEN "access_denied" ELSE "unlock_failed"
        ELSE IF ~gate.open /\ vault.old THEN "migration_needed"
        ELSE IF ScopeHash(peer, type) = Untold THEN "access_denied"
        ELSE IF way = "direct" /\ ~IsTrusted(peer) THEN "access_denied"
        ELSE "ok"

Later(a, b) == IF a > b THEN a ELSE b

Renewed(allowed, scope, hash) ==
    {entry \in allowed : entry[1] # scope \/ entry[2] # hash} \cup {<<scope, hash, time>>}

ForgetAll(g) == [g EXCEPT !.allowed = {}, !.latest = 0]

SetProcessIdentificationType(g, type) ==
    IF g.type = type THEN g ELSE [ForgetAll(g) EXCEPT !.type = type]

NobodyIn == [route |-> "none", had |-> {}]

(***************************************************************************)
(* unlock_direct and unlock_gui: an unlock takes the denial of its scope   *)
(* and hash away, and a new type all of them.  What is refused, but by the *)
(* Deny of a dialog, changes nothing, and is no step.                      *)
(***************************************************************************)
UnlockAt(peer, way, capable, scope, password) ==
    LET status == UnlockStatus(peer, way, capable, scope, password)
        type   == IF gate.open THEN gate.type ELSE vault.type
        hash   == ScopeHash(peer, type)
        before == SetProcessIdentificationType(gate, type)
    IN  \/ /\ status = "ok"
           /\ gate' = [before EXCEPT !.open = TRUE,
                          !.allowed = Renewed(@, scope, hash),
                          !.latest = Later(@, time + Duration[scope])]
           /\ denied' = IF before.type = gate.type THEN Undenied(scope, hash) ELSE {}
           /\ grants' = {g \in grants : /\ before.type = gate.type
                                       /\ (g.scope # scope \/ g.hash # hash)} \cup
                  {[scope |-> scope, hash |-> hash, at |-> time,
                    sound |-> password = "right" /\ (way = "gui" \/ IsTrusted(peer))]}
        \/ /\ status = "migration_needed" /\ ~gate.needed
           /\ gate' = [gate EXCEPT !.needed = TRUE] /\ UNCHANGED <<denied, grants>>

Unlock ==
    /\ \E peer \in Peers, way \in {"gui", "direct"}, capable \in BOOLEAN,
          scope \in AccessScopes, password \in {"right", "wrong"} :
        UnlockAt(peer, way, capable, scope, password)
    /\ entered' = NobodyIn
    /\ UNCHANGED <<platform, vault, time>>

DenyScope ==
    /\ \E peer \in Peers, capable \in BOOLEAN, scope \in AccessScopes :
        /\ Identified(peer) /\ MayUse(peer, "gui", capable) /\ ~IsDenied(peer, scope)
        /\ LET hash == ScopeHash(peer, gate.type)
           IN  denied' = Undenied(scope, hash) \cup {<<scope, hash, time>>}
    /\ entered' = NobodyIn
    /\ UNCHANGED <<platform, vault, gate, time, grants>>

Lock ==
    /\ \E peer \in Peers : Identified(peer)
    /\ gate' = [ForgetAll(gate) EXCEPT !.latest = time]
    /\ grants' = {}
    /\ entered' = NobodyIn
    /\ UNCHANGED <<platform, vault, denied, time>>

(***************************************************************************)
(* What database_routes asks for: the settings are a scope of their own,   *)
(* but a setting of the client itself ("cli.") may be read with either.    *)
(***************************************************************************)
Routes == {"items", "listSettings", "getSetting", "getClientSetting", "putSetting",
           "putClientSetting"}

RequiredScopesOfClient(route) ==
    CASE route = "items" -> {"items"}
      [] route \in {"getClientSetting", "putClientSetting"} -> AccessScopes
      [] OTHER -> {"settings"}

RequiredScopes(route) ==
    CASE route = "items" -> {"items"}
      [] route = "getClientSetting" -> AccessScopes
      [] OTHER -> {"settings"}

IsLive(entry) == time - entry[3] < Duration[entry[1]]
StillLive(g, scope) == {entry \in g.allowed : entry[1] # scope \/ IsLive(entry)}

Allows(hash, scope) ==
    gate.open /\ \E entry \in gate.allowed :
        entry[1] = scope /\ entry[2] = hash /\ IsLive(entry)

LetsIn(peer, route) ==
    /\ Identified(peer)
    /\ ~gate.needed
    /\ \E scope \in RequiredScopes(route) : Allows(ScopeHash(peer, gate.type), scope)

(***************************************************************************)
(* require_authorized_database_for_scopes; a setting that is put may be    *)
(* the list of trusted programs, or the identification type, which the     *)
(* agent publishes (upsert_setting).                                       *)
(***************************************************************************)
GrantedTo(hash) ==
    {g.scope : g \in {h \in grants : /\ h.hash = hash /\ h.sound
                                    /\ time - h.at < Duration[h.scope]}}

PutSetting(stored, published) ==
    /\ vault' = stored
    /\ gate' = published
    /\ grants' = IF published.type = gate.type THEN grants ELSE {}
    /\ denied' = IF published.type = gate.type THEN denied ELSE {}

Request ==
    /\ \E peer \in Peers, route \in Routes :
        /\ LetsIn(peer, route)
        /\ entered' = [route |-> route, had |-> GrantedTo(ScopeHash(peer, gate.type))]
        /\ IF route # "putSetting" THEN UNCHANGED <<vault, gate, denied, grants>>
           ELSE \/ \E type \in Types :
                    PutSetting([vault EXCEPT !.type = type],
                               SetProcessIdentificationType(gate, type))
                \/ \E trusted \in SUBSET {"tool"} :
                    PutSetting([vault EXCEPT !.trusted = trusted], gate)
    /\ UNCHANGED <<platform, time>>

(***************************************************************************)
(* unload_if_authorization_expired, when nothing is in progress.           *)
(***************************************************************************)
Unloaded(g) == [ForgetAll(g) EXCEPT !.open = FALSE]

Sweep ==
    /\ gate.open
    /\ LET left == StillLive(gate, "items") \cap StillLive(gate, "settings")
           ends == {entry[3] + Duration[entry[1]] : entry \in left}
       IN  IF left = {} THEN gate' = Unloaded(gate) /\ grants' = {}
           ELSE /\ gate' = [gate EXCEPT !.allowed = left,
                                !.latest = CHOOSE t \in ends : \A u \in ends : u <= t]
                /\ UNCHANGED grants
    /\ entered' = NobodyIn
    /\ UNCHANGED <<platform, vault, denied, time>>

Tick ==
    /\ time < MaxTime
    /\ time' = time + 1
    /\ grants' = {g \in grants : time' - g.at < Duration[g.scope]}
    /\ denied' = {denial \in denied : time' - denial[3] < DenialTtl}
    /\ entered' = NobodyIn
    /\ UNCHANGED <<platform, vault, gate>>

InitGate ==
    /\ platform \in Platforms
    /\ \E old \in BOOLEAN, type \in Types :
        vault = [old |-> old, type |-> type, trusted |-> {}]
    /\ gate = [open |-> FALSE, needed |-> FALSE, type |-> "process-chain", allowed |-> {},
               latest |-> 0]
    /\ time = 0 /\ denied = {} /\ grants = {} /\ entered = NobodyIn

NextGate == Unlock \/ DenyScope \/ Lock \/ Request \/ Sweep \/ Tick

GateSpec == InitGate /\ [][NextGate]_gateVars

-----------------------------------------------------------------------------
(***************************************************************************)
(* Whoever was let in had a grant of its own: the same processes, under    *)
(* the type that is in force, unlocked that very scope with the password   *)
(* no longer ago than the scope's duration, with nothing locked since; and *)
(* a direct unlock was a trusted program's.  A change of a setting needs   *)
(* the settings scope, whichever setting it is.                            *)
(***************************************************************************)
EntryIsGranted ==
    CASE entered.route = "none" -> TRUE
      [] entered.route = "items" -> "items" \in entered.had
      [] entered.route = "getClientSetting" -> entered.had # {}
      [] OTHER -> "settings" \in entered.had

(***************************************************************************)
(* status tells the truth: it shows a time left for a scope exactly when   *)
(* a request of that scope is let in, until the time it shows, and the     *)
(* vault is not unloaded before then.                                      *)
(***************************************************************************)
ExpiresAt(hash, scope) ==
    {ends \in {entry[3] + Duration[scope] :
                  entry \in {e \in gate.allowed : e[1] = scope /\ e[2] = hash}} : ends > time}

Remaining(hash, scope) ==
    IF gate.open THEN {ends - time : ends \in ExpiresAt(hash, scope)} ELSE {}

Status(peer, scope) ==
    IF Identified(peer) THEN Remaining(ScopeHash(peer, gate.type), scope) ELSE {}

StatusTells ==
    \A peer \in Peers, scope \in AccessScopes :
        /\ Identified(peer) /\ Allows(ScopeHash(peer, gate.type), scope)
                <=> Status(peer, scope) # {}
        /\ \A left \in Status(peer, scope) : time + left <= gate.latest

(***************************************************************************)
(* Whoever has a shown way in can use it: the method offered to a client   *)
(* is a route that takes its request, and with the right password and a    *)
(* current vault it fails only while a denial of that very scope stands    *)
(* (which no direct unlock minds), for a program that is not trusted, or   *)
(* whose processes cannot be told as the vault's own setting wants.        *)
(***************************************************************************)
OfferedWayIn ==
    \A peer \in Peers, capable \in BOOLEAN, scope \in AccessScopes :
        LET way    == Offered(capable)
            status == UnlockStatus(peer, way, capable, scope, "right")
        IN  Identified(peer) /\ status # "ok" =>
                \/ status = "migration_needed" /\ vault.old
                \/ status = "temporary_lockout" /\ way = "gui" /\ IsDenied(peer, scope)
                \/ ~gate.open /\ ScopeHash(peer, vault.type) = Untold
                \/ way = "direct" /\ ~(peer.program # "gone" /\ IsTrusted(peer))

GateHolds == EntryIsGranted /\ StatusTells /\ OfferedWayIn
==============================================================================
