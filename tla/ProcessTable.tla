----------------------------- MODULE ProcessTable -----------------------------
(***************************************************************************)
(* What the agent reads of one process (agent/process.rs): on Linux the    *)
(* line of /proc/<pid>/stat, in which the process chooses its own name; on *)
(* macOS, call by call, the login process that stands between a shell and  *)
(* its terminal and belongs to root.  Processes end meanwhile, their       *)
(* children go to launchd, and pids are used again.                        *)
(*                                                                         *)
(* Module Identify makes the walk from process to process; there a pid is  *)
(* not used again and the crossing is one step.                            *)
(***************************************************************************)
EXTENDS Integers, Sequences, FiniteSets

CONSTANTS
    Pids,           \* pids; 1 is launchd
    Kins,           \* the process tables a crossing starts in: pid -> process
    Shell,          \* the pid of the process whose parent is looked for
    MaxForks,       \* bound: new processes during the crossing
    Comms           \* what processes are called: sequences of characters

(***************************************************************************)
(* A crossing begins at a shell of the user's that is alive; who was there *)
(* before is older than whoever comes.                                     *)
(***************************************************************************)
TableRow ==
    [born : Int, parent : Int, who : {"own", "root", "login", "sudo"},
     group : Int, session : Int, tty : BOOLEAN]

ASSUME KinsAssumption ==
    /\ Pids \subseteq Nat \ {0} /\ Shell \in Pids
    /\ \A table \in Kins :
          /\ DOMAIN table \subseteq Pids
          /\ \A p \in DOMAIN table : table[p] \in TableRow /\ table[p].born <= 0
          /\ Shell \in DOMAIN table /\ table[Shell].who = "own"

ASSUME CommsAssumption == \A comm \in Comms : comm \in Seq(STRING)

VARIABLES
    kin,        \* pid -> [born, parent, who, group, session, tty] of the living
    births,     \* the last start time that was given
    crossing,   \* the call under way: its step, what it has read, what it returns
    real,       \* history: the parent it read was the one it took it for
    stat,       \* a process of Linux: [name, parent, session, start]
    parsed      \* what its line was taken for

tableVars == <<kin, births, crossing, real, stat, parsed>>

Launchd == 1

-----------------------------------------------------------------------------
(***************************************************************************)
(* proc_pidinfo: everything of a process of the user's, with its start     *)
(* time; of one of root's (login, sudo) the short form, without it.        *)
(***************************************************************************)
NotRead == [pid |-> 0]

EffectiveUid(p) == IF p.who = "own" THEN "own" ELSE "root"
RealUid(p) == IF p.who = "root" THEN "root" ELSE "own"

MacosBsdInfo(pid) ==
    IF pid \notin DOMAIN kin \/ kin[pid].who # "own" THEN NotRead
    ELSE [pid |-> pid, born |-> kin[pid].born, parent |-> kin[pid].parent, tty |-> kin[pid].tty]

MacosShortBsdInfo(pid) ==
    IF pid \notin DOMAIN kin THEN NotRead
    ELSE [pid |-> pid, parent |-> kin[pid].parent, group |-> kin[pid].group,
          effective |-> EffectiveUid(kin[pid]), realuid |-> RealUid(kin[pid]),
          command |-> kin[pid].who]

MacosSessionId(pid) == IF pid \in DOMAIN kin THEN kin[pid].session ELSE 0

ProcessUidOf(pid) == IF pid \in DOMAIN kin THEN EffectiveUid(kin[pid]) ELSE "unknown"

(***************************************************************************)
(* crosses_macos_login_boundary, on the evidence that was read.            *)
(***************************************************************************)
CrossesMacosLoginBoundary(boundary, parentUid, session, tty) ==
    /\ boundary.group = boundary.pid
    /\ boundary.effective = "root" /\ boundary.realuid = "own"
    /\ parentUid = "own"
    /\ boundary.command = "login"
    /\ session = boundary.pid
    /\ tty

-----------------------------------------------------------------------------
(***************************************************************************)
(* verified_parent_across_macos_login_boundary, read by read.  The walk    *)
(* has read the shell before; what does not fit ends the call with None.   *)
(***************************************************************************)
Reading(step) == crossing.at = step

Give(result) == crossing' = [crossing EXCEPT !.at = "ended", !.result = result]

Unverified(holds, next) == IF holds THEN crossing' = next ELSE Give(NotRead)

ReadShell ==
    /\ Reading("child")
    /\ LET info == MacosBsdInfo(Shell)
           fits == info # NotRead
                   /\ info.parent = crossing.walked.parent /\ info.born = crossing.walked.born
       IN  Unverified(fits, [crossing EXCEPT !.at = "boundary", !.child = info])
    /\ UNCHANGED <<kin, births, real, stat, parsed>>

ReadBoundary ==
    /\ Reading("boundary")
    /\ LET info == MacosShortBsdInfo(crossing.walked.parent)
       IN  Unverified(info # NotRead /\ info.parent > 0,
                      [crossing EXCEPT !.at = "uid", !.boundary = info])
    /\ UNCHANGED <<kin, births, real, stat, parsed>>

ReadBoundaryParentUid ==
    /\ Reading("uid")
    /\ crossing' = [crossing EXCEPT !.at = "session",
                        !.uid = ProcessUidOf(crossing.boundary.parent)]
    /\ UNCHANGED <<kin, births, real, stat, parsed>>

ReadShellSession ==
    /\ Reading("session")
    /\ Unverified(CrossesMacosLoginBoundary(crossing.boundary, crossing.uid,
                                            MacosSessionId(Shell), crossing.child.tty),
                  [crossing EXCEPT !.at = "parent"])
    /\ UNCHANGED <<kin, births, real, stat, parsed>>

StandsBetween(pid) ==
    /\ Shell \in DOMAIN kin /\ kin[Shell].born = crossing.walked.born
    /\ kin[Shell].parent \in DOMAIN kin
    /\ kin[kin[Shell].parent].who = "login"
    /\ kin[kin[Shell].parent].parent = pid

ReadBoundaryParent ==
    /\ Reading("parent")
    /\ LET info == MacosBsdInfo(crossing.boundary.parent)
       IN  Unverified(info # NotRead, [crossing EXCEPT !.at = "again", !.parent = info])
    /\ real' = StandsBetween(crossing.boundary.parent)
    /\ UNCHANGED <<kin, births, stat, parsed>>

RevalidateBoundary ==
    /\ Reading("again")
    /\ Unverified(MacosShortBsdInfo(crossing.boundary.pid) = crossing.boundary,
                  [crossing EXCEPT !.at = "child again"])
    /\ UNCHANGED <<kin, births, real, stat, parsed>>

RevalidateShellByStart ==
    /\ Reading("child again")
    /\ LET info == MacosBsdInfo(Shell)
       IN  Give(IF info # NotRead /\ info.born = crossing.child.born
                THEN crossing.parent ELSE NotRead)
    /\ UNCHANGED <<kin, births, real, stat, parsed>>

RevalidateShell ==
    /\ Reading("child again")
    /\ Give(IF MacosBsdInfo(Shell) = crossing.child THEN crossing.parent ELSE NotRead)
    /\ UNCHANGED <<kin, births, real, stat, parsed>>

(***************************************************************************)
(* Around it: processes end, and new ones take their pids, as leaders of a *)
(* session of their own or in their parent's.                              *)
(***************************************************************************)
ProcessEnds(p) ==
    /\ crossing.at # "ended"
    /\ p \in DOMAIN kin \ {Launchd}
    /\ kin' = [q \in DOMAIN kin \ {p} |->
                  [kin[q] EXCEPT !.parent = IF @ = p THEN Launchd ELSE @]]
    /\ UNCHANGED <<births, crossing, real, stat, parsed>>

Forked(p, q, who, leads) ==
    [born |-> births + 1, parent |-> p, who |-> who, tty |-> kin[p].tty \/ leads,
     group |-> IF leads THEN q ELSE kin[p].group,
     session |-> IF leads THEN q ELSE kin[p].session]

ProcessForks(p, q) ==
    /\ crossing.at # "ended"
    /\ births < MaxForks
    /\ p \in DOMAIN kin /\ q \in Pids \ DOMAIN kin
    /\ \E who \in {"own", "login", "sudo"}, leads \in BOOLEAN :
           kin' = [r \in DOMAIN kin \cup {q} |->
                      IF r = q THEN Forked(p, q, who, leads) ELSE kin[r]]
    /\ births' = births + 1
    /\ UNCHANGED <<crossing, real, stat, parsed>>

-----------------------------------------------------------------------------
(***************************************************************************)
(* parse_linux_process_stat: the name is in brackets and may hold any      *)
(* character; what follows its last bracket are fields without brackets,   *)
(* the state first.  A field is one string here.                           *)
(***************************************************************************)
StatFields(process) ==
    <<"S", process.parent, "group", process.session>>
    \o [i \in 1 .. 15 |-> "other"] \o <<process.start, "other">>

Blank == " "

StatLine(process) ==
    LET after == StatFields(process)
    IN  <<"pid", Blank, "(">> \o process.name \o <<")">>
        \o [i \in 1 .. 2 * Len(after) |-> IF i % 2 = 1 THEN Blank ELSE after[i \div 2]]

WordsOf(line) ==
    LET words[i \in 0 .. Len(line)] ==
            IF i = 0 THEN <<>>
            ELSE IF line[i] = Blank THEN words[i - 1] ELSE Append(words[i - 1], line[i])
    IN  words[Len(line)]

Unparsed == [parent |-> "", session |-> "", start |-> ""]

FieldsAfter(line, close) ==
    LET words == WordsOf(SubSeq(line, close + 2, Len(line)))
    IN  IF Len(words) < 20 THEN Unparsed
        ELSE [parent |-> words[2], session |-> words[4], start |-> words[20]]

ParseToFirstBracket(line) ==
    LET closing == {i \in DOMAIN line : line[i] = ")"}
    IN  FieldsAfter(line, CHOOSE i \in closing : \A j \in closing : i <= j)

ParseLinuxProcessStat(line) ==
    LET closing == {i \in DOMAIN line : line[i] = ")"}
    IN  FieldsAfter(line, CHOOSE i \in closing : \A j \in closing : j <= i)

ReadStat ==
    /\ parsed = Unparsed
    /\ parsed' = ParseLinuxProcessStat(StatLine(stat))
    /\ UNCHANGED <<kin, births, crossing, real, stat>>

InitCrossing ==
    /\ kin \in Kins
    /\ births = 0
    /\ crossing = [at |-> "child", walked |-> MacosBsdInfo(Shell), child |-> NotRead,
                   boundary |-> NotRead, uid |-> "unknown", parent |-> NotRead,
                   result |-> NotRead]
    /\ real = FALSE

InitStat == stat \in [name : Comms, parent : {"2"}, session : {"3"}, start : {"4"}]

InitTable == InitCrossing /\ InitStat /\ parsed = Unparsed

NextCrossing ==
    \/ ReadShell \/ ReadBoundary \/ ReadBoundaryParentUid \/ ReadShellSession
    \/ ReadBoundaryParent \/ RevalidateBoundary \/ RevalidateShell
    \/ (\E p \in Pids : ProcessEnds(p)) \/ (\E p, q \in Pids : ProcessForks(p, q))

TableSpec == InitTable /\ [][NextCrossing \/ ReadStat]_tableVars

-----------------------------------------------------------------------------
(***************************************************************************)
(* A process that is passed over was the login process between the shell   *)
(* and the process that is returned, when that one was read: no end of a   *)
(* process and no second use of a pid between the reads makes another one  *)
(* of it (process.rs:941-994).  And whatever a process calls itself, its   *)
(* line tells its parent, session and start (process.rs:889-907).          *)
(***************************************************************************)
ReadingsHold ==
    /\ crossing.result # NotRead => real
    /\ parsed # Unparsed =>
           parsed = [parent |-> stat.parent, session |-> stat.session, start |-> stat.start]
==============================================================================
