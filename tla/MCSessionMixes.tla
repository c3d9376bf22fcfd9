---------------------------- MODULE MCSessionMixes ----------------------------
(***************************************************************************)
(* AgentSession for TLC, with several mixes of requests side by side: each *)
(* behaviour keeps to the routes, the budgets and the disks of one of them.*)
(***************************************************************************)
EXTENDS MCAgentSession

CONSTANT Mixing

VARIABLE mix

Mix(routes, number, mishaps, disks) ==
    [routes |-> routes, requests |-> number, faults |-> mishaps, disks |-> disks]

Mixes ==
    [dialogs |-> Mix(DialogRoutes, 3, 1, PlainDisk),
     denials |-> Mix(GuiRoutes, 3, 0, PlainDisk),
     settings |-> Mix(SettingUnlockRoutes, 4, 0, AnyDisk),
     jobs |-> Mix(JobRoutes, 3, 1, PlainDisk),
     ends |-> Mix(LiveRoutes, 3, 0, PlainDisk),
     recovers |-> Mix(LockRoutes, 3, 1, PlainDisk)]

mcVars == <<vars, mix>>

MCInit ==
    /\ Init
    /\ mix \in Mixing
    /\ requests = Mixes[mix].requests
    /\ faults = Mixes[mix].faults
    /\ disk \in Mixes[mix].disks

(* A client makes no other request than the mix's, and writes no setting
   but in the mix that is about them. *)
WithinMix ==
    \A c \in Clients :
        client[c].pc \in {"unlock", "gui", "lock", "authorize"} =>
            \E route \in Mixes[mix].routes :
                route.kind = client[c].kind
                    /\ \E i \in 0 .. Len(route.tries) :
                          client[c].tries = SubSeq(route.tries, i + 1, Len(route.tries))

MCNext == UNCHANGED mix /\ Next /\ WithinMix'

MCSpec == MCInit /\ [][MCNext]_mcVars

MCFairSpec == MCSpec /\ Fairness
=============================================================================
