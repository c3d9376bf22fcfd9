------------------------------- MODULE MCStore -------------------------------
(***************************************************************************)
(* Transfers for TLC, in three mixes: two jobs and a client that uploads   *)
(* once, with nothing going wrong and on one day ("jobs"); one job of one  *)
(* file, whose client may go away, and a client that uploads twice, over   *)
(* two days, and work that begins before a decided cleanup does ("days");  *)
(* one job, one upload, two items, two days and an I/O error or a crash    *)
(* ("faults").                                                             *)
(***************************************************************************)
EXTENDS Transfers, TLC

CONSTANTS u, j1, j2, m, n, x, y

VARIABLE mix

MCIds == 1 .. 4

MCArchives == {[files |-> <<x>>, flaw |-> "none"], [files |-> <<x>>, flaw |-> "end"],
               [files |-> <<x, y>>, flaw |-> "none"], [files |-> <<x>>, flaw |-> "file"]}

mcVars == <<vars, mix>>

Once == \A c \in Clients : client[c].uploads <= 1

OneItem == DOMAIN items \subseteq {m} /\ \A j \in DOMAIN jobs : jobs[j].name = m

WithinMix ==
    CASE mix = "jobs" ->
            /\ Once /\ OneItem /\ Unharmed /\ day = 0 /\ ~due
            /\ \A j \in Jobs : ~Abandoned(j)
            /\ \A c \in Clients : stream[c] = NoStream
            /\ \A j \in DOMAIN task : task[j].flaw # "file"
      [] mix = "days" ->
            /\ Unharmed /\ OneItem /\ DOMAIN jobs \subseteq {j1}
            /\ \A j \in DOMAIN task : task[j].flaw # "end" /\ Len(task[j].left) < 2
            /\ Abandoned(j1) => Once /\ \A c \in Clients : stream[c] = NoStream
      [] mix = "faults" ->
            /\ Once /\ DOMAIN jobs \subseteq {j1} /\ ~Abandoned(j1)
            /\ due => Active = {} /\ \A c \in Clients : client[c].at # "upload"

MCInit == Init /\ mix \in {"jobs", "days", "faults"}

MCNext == UNCHANGED mix /\ Next /\ WithinMix'

MCSpec ==
    /\ MCInit /\ [][MCNext]_mcVars
    /\ WF_vars(Writer)
    /\ \A j \in Jobs : SF_vars(HandlerStep(j) \/ JobStep(j))
==============================================================================
