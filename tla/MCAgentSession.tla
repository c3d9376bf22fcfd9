---------------------------- MODULE MCAgentSession ----------------------------
(***************************************************************************)
(* Values of the constants of AgentSession for TLC: two terminals of one   *)
(* desktop session, which have a process chain each and share the process  *)
(* they originate from.                                                    *)
(***************************************************************************)
EXTENDS AgentSession, TLC

CONSTANTS c1, c2, chain, origin

MCClients == {c1, c2}

MCScopeOf ==
    (c1 :> (chain :> "chain-1" @@ origin :> "origin")) @@
    (c2 :> (chain :> "chain-2" @@ origin :> "origin"))

Disk(ttl, denialTtl, identType, stale) ==
    [authTtl |-> [a \in AccessScopes |-> ttl], denialTtl |-> denialTtl,
     identType |-> identType, stale |-> stale]

PlainDisk == {Disk(1, 1, chain, FALSE)}

OriginDisk == {Disk(1, 1, origin, FALSE)}

AnyDisk == {Disk(1, 1, t, stale) : t \in {chain, origin}, stale \in BOOLEAN}

Items == <<"items">>
Settings == <<"settings">>

UnlockRoute(tries) == [kind |-> "unlock", tries |-> tries]
GuiRoute(tries) == [kind |-> "gui", tries |-> tries]
ReadRoute(tries) == [kind |-> "read", tries |-> tries]
LockRoute == [kind |-> "lock", tries |-> <<>>]
SettingRoute == [kind |-> "setting", tries |-> Settings]
JobRoute == [kind |-> "job", tries |-> Items]

LockRoutes == {UnlockRoute(Items), ReadRoute(Items), LockRoute}

JobRoutes == {UnlockRoute(Items), JobRoute}

DialogRoutes == {GuiRoute(Items), ReadRoute(Items), LockRoute}

GuiRoutes == {GuiRoute(Items), GuiRoute(Settings), LockRoute}

SettingRoutes == {UnlockRoute(Items), SettingRoute, LockRoute}

SettingUnlockRoutes ==
    {UnlockRoute(Settings), SettingRoute, ReadRoute(<<"items", "settings">>)}

LiveRoutes == LockRoutes \cup {JobRoute}

GrantedRoutes == DialogRoutes \cup GuiRoutes

WorkRoutes == SettingUnlockRoutes \cup JobRoutes

NoWrites == {}

TypeWrites == {[name |-> "identType", value |-> t] : t \in {chain, origin}}

DenialWrites == {[name |-> "denialTtl", value |-> d] : d \in {1, 2}}

AllWrites ==
    TypeWrites \cup {[name |-> n, value |-> 2] : n \in {"denialTtl", "settings"}}

=============================================================================
