-------------------------------- MODULE Shell --------------------------------
(***************************************************************************)
(* Three commands that take secrets out of the vault into the user's       *)
(* session: clip, which puts one on the clipboard and takes it away again, *)
(* run, which gives a child variables and files, and share, which copies   *)
(* the encrypted exports of the agent's jobs.  Other programs use the      *)
(* clipboard and the disk, other clients change the items, and a signal    *)
(* may kill the command at any step.                                       *)
(***************************************************************************)
EXTENDS Integers, Sequences, FiniteSets

CONSTANTS
    Environments,   \* sets of [key, name]: variables that hold references
                    \* and the file name that is safe for them
    Shares          \* sequences of [dir, item]: what is to be shared

ASSUME SharesAssumption ==
    \A paths \in Shares :
        /\ Len(paths) \in Nat /\ DOMAIN paths = 1 .. Len(paths)
        /\ \A i, j \in DOMAIN paths : paths[i] = paths[j] => i = j

VARIABLES
    clipboard,  \* what it holds
    clip,       \* [at, message]: the clip command
    vars,       \* the run command: variables still to be resolved, and child's
    sharing,    \* the share command: what is left, where it goes, the job
    disk        \* destination -> what it holds

shellVars == <<clipboard, clip, vars, sharing, disk>>

-----------------------------------------------------------------------------
(***************************************************************************)
(* clip (copy_and_clear).  The value, the setting and the clipboard are    *)
(* asked for before anything is written.  A message on a closed stderr     *)
(* ends the command at once.  The time that passes and the user's ^C have  *)
(* the same effect.                                                        *)
(***************************************************************************)
InitClip == clipboard \in {"other", "image"} /\ clip = [at |-> "start", message |-> TRUE]

CopySecret ==
    /\ clip.at = "start"
    /\ \/ clip' = [clip EXCEPT !.at = "error"] /\ UNCHANGED clipboard
       \/ \E written \in BOOLEAN :
              /\ clip' = [at |-> IF written THEN "waiting" ELSE "error", message |-> written]
              /\ clipboard' = "secret"
    /\ UNCHANGED <<vars, sharing, disk>>

StopWaiting ==
    /\ clip.at = "waiting"
    /\ clip' = [clip EXCEPT !.at = "checking"]
    /\ UNCHANGED <<clipboard, vars, sharing, disk>>

CheckClipboard ==
    /\ clip.at = "checking"
    /\ clip' = [clip EXCEPT !.at = CASE clipboard = "secret" -> "matched"
                                     [] clipboard = "image" -> "error"
                                     [] OTHER -> "ok"]
    /\ UNCHANGED <<clipboard, vars, sharing, disk>>

ClearClipboard ==
    /\ clip.at = "matched"
    /\ \/ clipboard' = "nothing" /\ clip' = [clip EXCEPT !.at = "ok"]
       \/ clip' = [clip EXCEPT !.at = "error"] /\ UNCHANGED clipboard
    /\ UNCHANGED <<vars, sharing, disk>>

OtherCopies ==
    /\ clip.at \in {"waiting", "checking", "matched"}
    /\ clipboard' \in {"other", "image"}
    /\ UNCHANGED <<clip, vars, sharing, disk>>

ClipKilled ==
    /\ clip.at \in {"start", "waiting", "checking", "matched"}
    /\ clip' = [clip EXCEPT !.at = "killed"]
    /\ UNCHANGED <<clipboard, vars, sharing, disk>>

NextClip ==
    CopySecret \/ StopWaiting \/ CheckClipboard \/ ClearClipboard \/ OtherCopies \/ ClipKilled

-----------------------------------------------------------------------------
(***************************************************************************)
(* run: each variable that holds a reference costs two requests, one that  *)
(* says whether it is a file or a field and one that brings the bytes.     *)
(* The item may change in between.  A file goes under the name made from   *)
(* the variable's, which must be free.                                     *)
(***************************************************************************)
Kinds == {"file", "field", "absent"}

InitRun ==
    \E env \in Environments :
        vars = [at |-> "resolving", left |-> env, key |-> "", kind |-> "absent",
                given |-> {}, files |-> {}]

(* Every error leaves by dropping the directory, which may fail unnoticed. *)
Fail(status) == \E files \in {{}, vars.files} :
    vars' = [vars EXCEPT !.at = status, !.files = files]

ClassifyReference ==
    /\ vars.at = "resolving" /\ vars.key = "" /\ vars.left # {}
    /\ \/ \E v \in vars.left, kind \in Kinds :
              vars' = [vars EXCEPT !.key = v.key, !.kind = kind]
       \/ Fail("error")
    /\ UNCHANGED <<clipboard, clip, sharing, disk>>

Placed(v) == [key |-> v.key, file |-> v.name]

Given(v, as, files) ==
    vars' = [vars EXCEPT !.key = "", !.left = @ \ {v}, !.files = files,
                 !.given = @ \cup {[key |-> v.key, as |-> as, file |-> v.name]}]

IsTaken(v) == \E f \in vars.files : f.file = v.name

PlaceOver(v) ==
    \/ vars.kind = "file"
       /\ Given(v, "path", {f \in vars.files : f.file # v.name} \cup {Placed(v)})
    \/ vars.kind = "field" /\ Given(v, "value", vars.files)

Place(v) ==
    \/ vars.kind = "file" /\ ~IsTaken(v) /\ Given(v, "path", vars.files \cup {Placed(v)})
    \/ vars.kind = "field" /\ Given(v, "value", vars.files)

FetchReference ==
    /\ vars.at = "resolving" /\ vars.key # ""
    /\ \/ \E v \in vars.left : v.key = vars.key /\ Place(v)
       \/ Fail("error")
    /\ UNCHANGED <<clipboard, clip, sharing, disk>>

StartChild ==
    /\ vars.at = "resolving" /\ vars.key = "" /\ vars.left = {}
    /\ vars' = [vars EXCEPT !.at = "child"] \/ Fail("error")
    /\ UNCHANGED <<clipboard, clip, sharing, disk>>

ChildEnds ==
    /\ vars.at = "child"
    /\ \/ \E status \in {"ok", "error"} : vars' = [vars EXCEPT !.at = status, !.files = {}]
       \/ Fail("error")
    /\ UNCHANGED <<clipboard, clip, sharing, disk>>

(* ^C reaches the child and the command, which has no handler for it.      *)
RunKilled ==
    /\ vars.at \in {"resolving", "child"}
    /\ vars' = [vars EXCEPT !.at = "killed"]
    /\ UNCHANGED <<clipboard, clip, sharing, disk>>

NextRun == ClassifyReference \/ FetchReference \/ StartChild \/ ChildEnds \/ RunKilled

-----------------------------------------------------------------------------
(***************************************************************************)
(* share: one destination for every item, made from its name without its   *)
(* directory and told apart by a number; then for each item in turn a job  *)
(* of the agent, which is asked for until it has ended, a copy to a file   *)
(* that must not exist, and the removal of the agent's own.  A job of an   *)
(* agent that died stays running, and the command goes on asking.          *)
(***************************************************************************)
Earlier(paths, i) == Cardinality({j \in 1 .. i : paths[j].item = paths[i].item})

Destination(paths, i) == [item |-> paths[i].item, number |-> Earlier(paths, i)]

Before == [state |-> "before", path |-> [dir |-> "", item |-> ""]]
Copied(path, whole) == [state |-> IF whole THEN "whole" ELSE "part", path |-> path]

InitShare ==
    \E paths \in Shares :
        \E existing \in SUBSET {Destination(paths, i) : i \in DOMAIN paths} :
               /\ disk = [d \in existing |-> Before]
               /\ sharing = [at |-> "next", paths |-> paths, done |-> 0, job |-> "none",
                             output |-> FALSE, existing |-> existing]

Target == Destination(sharing.paths, sharing.done + 1)

RequestExport ==
    /\ sharing.at = "next"
    /\ sharing' = IF sharing.done = Len(sharing.paths) THEN [sharing EXCEPT !.at = "ok"]
                  ELSE [sharing EXCEPT !.at = "polling", !.job = "running"]
    /\ UNCHANGED <<clipboard, clip, vars, disk>>

JobEnds ==
    /\ sharing.job = "running"
    /\ \E outcome \in {"succeeded", "failed", "forgotten"} :
           sharing' = [sharing EXCEPT !.job = outcome, !.output = outcome = "succeeded"]
    /\ UNCHANGED <<clipboard, clip, vars, disk>>

PollJob ==
    /\ sharing.at = "polling" /\ sharing.job \in {"succeeded", "failed"}
    /\ sharing' = [sharing EXCEPT !.at = IF sharing.job = "failed" THEN "error" ELSE "copying"]
    /\ UNCHANGED <<clipboard, clip, vars, disk>>

CopyOutput ==
    /\ sharing.at = "copying"
    /\ IF Target \in DOMAIN disk THEN sharing' = [sharing EXCEPT !.at = "error"] /\ UNCHANGED disk
       ELSE \E whole \in BOOLEAN :
              /\ disk' = [d \in DOMAIN disk \cup {Target} |->
                     IF d = Target THEN Copied(sharing.paths[sharing.done + 1], whole)
                     ELSE disk[d]]
              /\ sharing' = [sharing EXCEPT !.at = IF whole THEN "removing" ELSE "error"]
    /\ UNCHANGED <<clipboard, clip, vars>>

RemoveOutput ==
    /\ sharing.at = "removing"
    /\ \/ sharing' = [sharing EXCEPT !.at = "next", !.done = @ + 1,
                                     !.job = "none", !.output = FALSE]
       \/ sharing' = [sharing EXCEPT !.at = "error"]
    /\ UNCHANGED <<clipboard, clip, vars, disk>>

ShareFails ==
    /\ sharing.at \in {"next", "polling"}
    /\ sharing' = [sharing EXCEPT !.at = "error"]
    /\ UNCHANGED <<clipboard, clip, vars, disk>>

NextShare ==
    RequestExport \/ JobEnds \/ PollJob \/ CopyOutput \/ RemoveOutput \/ ShareFails

-----------------------------------------------------------------------------
InitShell == InitClip /\ InitRun /\ InitShare

NextShell == NextClip \/ NextRun \/ NextShare

ShellSpec == InitShell /\ [][NextShell]_shellVars

-----------------------------------------------------------------------------
(***************************************************************************)
(* What comes of the secrets.  A clip that reports success has left nothing*)
(* of them on the clipboard, whatever others copied meanwhile.  A child is *)
(* given a path only to the file of that variable, and no two variables    *)
(* share one; what was written for it is gone when the command reports its *)
(* status.  A share that reports success has put the whole export of every *)
(* item in a file of its own, has changed no file that was there, and left *)
(* none of the agent's (clip.rs:107-143, run.rs:40-98, share.rs:73-96,     *)
(* 188-205, 240-262).                                                      *)
(***************************************************************************)
SecretsLeave ==
    /\ clip.at = "ok" => clipboard # "secret"
    /\ vars.at = "child" =>
           \A g \in vars.given : g.as = "path" => [key |-> g.key, file |-> g.file] \in vars.files
    /\ vars.at = "ok" => vars.files = {}
    /\ \A d \in sharing.existing : disk[d] = Before
    /\ sharing.at = "ok" =>
           /\ ~sharing.output
           /\ \A i \in DOMAIN sharing.paths :
                  disk[Destination(sharing.paths, i)] = Copied(sharing.paths[i], TRUE)
=============================================================================
