-------------------------------- MODULE Prompt --------------------------------
(***************************************************************************)
(* The password dialog (agent/gui_auth.rs) and the handler of the GUI      *)
(* unlock that waits for it (agent/controller.rs).  They run on different  *)
(* threads: the handler asks the main thread for a window and then reads   *)
(* an unbounded channel of outcomes, and each password carries a oneshot   *)
(* channel for the handler's verdict, which the window polls.              *)
(*                                                                         *)
(* There are four builds: with GTK, with Qt, with AppKit, and without a    *)
(* GUI, where the dispatcher dismisses every request.  That the unlock     *)
(* itself may be superseded, or need a migration, is part of AgentSession; *)
(* here a password is right or wrong.                                      *)
(***************************************************************************)
EXTENDS Naturals, Sequences

CONSTANTS
    Requests,       \* GUI unlocks, of one scope
    Backends,       \* the builds: a subset of {"gtk", "qt", "appkit", "none"}
    MaxAttempts     \* MAX_GUI_PASSWORD_ATTEMPTS

ASSUME PromptAssumption == MaxAttempts \in Nat \ {0}

VARIABLES
    backend,
    handler,    \* handler[r]: where it is, and the passwords it has checked
    outcomes,   \* outcomes[r]: what the window sent and nobody has read yet
    feedback,   \* feedback[r]: the oneshot channel the window polls
    window,     \* window[r]: none, queued, open, awaiting, closed
    lockedOut,  \* a denial of the scope is in force
    refusal     \* history: the user clicked Deny while the handler was there

promptVars == <<backend, handler, outcomes, feedback, window, lockedOut, refusal>>

Over == {"allowed", "refused", "lockout", "gone"}
Listening(r) == handler[r].at \in {"waiting", "checking"}
Shown(r) == window[r] \in {"open", "awaiting"}

EndAt(r, at) == handler' = [handler EXCEPT ![r].at = at]

(***************************************************************************)
(* unlock_gui_with_prompt: a scope that was denied is refused at once; for *)
(* the others dispatch_prompt queues the window.                           *)
(***************************************************************************)
Arrive(r) ==
    /\ handler[r].at = "new"
    /\ IF lockedOut
       THEN EndAt(r, "lockout") /\ UNCHANGED window
       ELSE EndAt(r, "waiting") /\ window' = [window EXCEPT ![r] = "queued"]
    /\ UNCHANGED <<backend, outcomes, feedback, lockedOut, refusal>>

(***************************************************************************)
(* The dispatcher takes the request up, even if nobody waits any more.     *)
(***************************************************************************)
PresentWindow(r) ==
    /\ window[r] = "queued"
    /\ backend # "none"
    /\ window' = [window EXCEPT ![r] = "open"]
    /\ UNCHANGED <<backend, handler, outcomes, feedback, lockedOut, refusal>>

SendTo(r, outcome) ==
    outcomes' = IF Listening(r) THEN [outcomes EXCEPT ![r] = Append(@, outcome)] ELSE outcomes

DismissUnseen(r) ==
    /\ window[r] = "queued"
    /\ backend = "none"
    /\ window' = [window EXCEPT ![r] = "closed"]
    /\ SendTo(r, "dismissed")
    /\ UNCHANGED <<backend, handler, feedback, lockedOut, refusal>>

(***************************************************************************)
(* The window sends a password and takes no input until the verdict comes. *)
(* If nobody listens, GTK and AppKit close it; Qt has no oneshot to poll,  *)
(* and its QML waits for feedback all the same.                            *)
(***************************************************************************)
SubmitAgain(r, password) ==
    /\ Shown(r)
    /\ Listening(r)
    /\ SendTo(r, password)
    /\ feedback' = [feedback EXCEPT ![r] = "empty"]
    /\ window' = [window EXCEPT ![r] = "awaiting"]

Submit(r, password) ==
    /\ window[r] = "open"
    /\ Listening(r)
    /\ SendTo(r, password)
    /\ feedback' = [feedback EXCEPT ![r] = "empty"]
    /\ window' = [window EXCEPT ![r] = "awaiting"]

SubmitToNobody(r, then) ==
    /\ window[r] = "open"
    /\ ~Listening(r)
    /\ window' = [window EXCEPT ![r] = then]
    /\ UNCHANGED <<outcomes, feedback>>

SubmitGtk(r, password) ==
    /\ backend = "gtk"
    /\ Submit(r, password) \/ SubmitToNobody(r, "closed")
    /\ UNCHANGED <<backend, handler, lockedOut, refusal>>

SubmitAppKit(r, password) ==
    /\ backend = "appkit"
    /\ Submit(r, password) \/ SubmitToNobody(r, "closed")
    /\ UNCHANGED <<backend, handler, lockedOut, refusal>>

SubmitQt(r, password) ==
    /\ backend = "qt"
    /\ Submit(r, password) \/ SubmitToNobody(r, "awaiting")
    /\ UNCHANGED <<backend, handler, lockedOut, refusal>>

(***************************************************************************)
(* finish_prompt: the first outcome finishes the prompt, so that the close *)
(* request that closing the window makes sends nothing more.               *)
(***************************************************************************)
FinishByClosing(r, outcome) ==
    /\ window' = [window EXCEPT ![r] = "closed"]
    /\ SendTo(r, "dismissed")

Finish(r, outcome) ==
    /\ window' = [window EXCEPT ![r] = "closed"]
    /\ SendTo(r, outcome)

ClickDeny(r) ==
    /\ Shown(r)
    /\ Finish(r, "denied")
    /\ refusal' = [refusal EXCEPT ![r] = Listening(r)]
    /\ UNCHANGED <<backend, handler, feedback, lockedOut>>

CloseWindow(r) ==
    /\ Shown(r)
    /\ Finish(r, "dismissed")
    /\ UNCHANGED <<backend, handler, feedback, lockedOut, refusal>>

(***************************************************************************)
(* poll_feedback: a password that was wrong opens the window again; the    *)
(* end of the handler, whatever its reason, closes it.                     *)
(***************************************************************************)
PollForComplete(r) ==
    /\ window[r] = "awaiting"
    /\ feedback[r] \in {"incorrect", "complete"}
    /\ window' = [window EXCEPT ![r] = IF feedback[r] = "incorrect" THEN "open" ELSE "closed"]
    /\ feedback' = [feedback EXCEPT ![r] = "none"]
    /\ UNCHANGED <<backend, handler, outcomes, lockedOut, refusal>>

PollFeedback(r) ==
    /\ window[r] = "awaiting"
    /\ feedback[r] \in {"incorrect", "complete", "closed"}
    /\ window' = [window EXCEPT ![r] = IF feedback[r] = "incorrect" THEN "open" ELSE "closed"]
    /\ feedback' = [feedback EXCEPT ![r] = "none"]
    /\ UNCHANGED <<backend, handler, outcomes, lockedOut, refusal>>

(***************************************************************************)
(* PromptSession::next: a channel whose window is gone gives Dismissed.    *)
(***************************************************************************)
NextOutcome(r) == IF outcomes[r] = <<>> THEN "dismissed" ELSE Head(outcomes[r])

TakeOutcome(r) ==
    /\ handler[r].at = "waiting"
    /\ outcomes[r] # <<>> \/ window[r] = "closed"
    /\ outcomes' = [outcomes EXCEPT ![r] = IF @ = <<>> THEN @ ELSE Tail(@)]
    /\ CASE NextOutcome(r) = "denied" ->
               EndAt(r, "lockout") /\ lockedOut' = TRUE
         [] NextOutcome(r) = "dismissed" ->
               EndAt(r, "refused") /\ UNCHANGED lockedOut
         [] OTHER ->
               /\ handler' = [handler EXCEPT ![r].at = "checking", ![r].password = NextOutcome(r)]
               /\ UNCHANGED lockedOut
    /\ UNCHANGED <<backend, feedback, window, refusal>>

(***************************************************************************)
(* The verdict on a password, and what the window is told.  An unlock that *)
(* succeeds takes the denial of the scope away.                            *)
(***************************************************************************)
LastTry(r) == handler[r].checked + 1 >= MaxAttempts

CheckPassword(r) ==
    /\ handler[r].at = "checking"
    /\ \/ /\ handler[r].password = "right"
          /\ EndAt(r, "allowed")
          /\ feedback' = [feedback EXCEPT ![r] = "complete"]
          /\ lockedOut' = FALSE
       \/ /\ handler[r].password = "wrong"
          /\ handler' = [handler EXCEPT ![r].checked = @ + 1,
                                       ![r].at = IF LastTry(r) THEN "refused" ELSE "waiting"]
          /\ feedback' = [feedback EXCEPT ![r] = IF LastTry(r) THEN "complete" ELSE "incorrect"]
          /\ UNCHANGED lockedOut
    /\ UNCHANGED <<backend, outcomes, window, refusal>>

(***************************************************************************)
(* The client disconnects: the handler and all it holds are dropped, the   *)
(* sender of a verdict not given among it.                                 *)
(***************************************************************************)
Disconnect(r) ==
    /\ handler[r].at \notin Over \cup {"new"}
    /\ EndAt(r, "gone")
    /\ outcomes' = [outcomes EXCEPT ![r] = <<>>]
    /\ feedback' = [feedback EXCEPT ![r] = IF @ = "empty" THEN "closed" ELSE @]
    /\ UNCHANGED <<backend, window, lockedOut, refusal>>

InitPrompt ==
    /\ backend \in Backends
    /\ handler = [r \in Requests |-> [at |-> "new", checked |-> 0, password |-> "none"]]
    /\ outcomes = [r \in Requests |-> <<>>]
    /\ feedback = [r \in Requests |-> "none"]
    /\ window = [r \in Requests |-> "none"]
    /\ lockedOut = FALSE
    /\ refusal = [r \in Requests |-> FALSE]

Person(r) ==
    \/ ClickDeny(r) \/ CloseWindow(r)
    \/ \E password \in {"right", "wrong"} :
           SubmitGtk(r, password) \/ SubmitAppKit(r, password) \/ SubmitQt(r, password)

Threads(r) ==
    \/ PresentWindow(r) \/ DismissUnseen(r) \/ PollFeedback(r)
    \/ TakeOutcome(r) \/ CheckPassword(r)

NextPrompt == \E r \in Requests : Arrive(r) \/ Disconnect(r) \/ Person(r) \/ Threads(r)

PromptSpec == InitPrompt /\ [][NextPrompt]_promptVars

-----------------------------------------------------------------------------
(***************************************************************************)
(* A user who clicks Deny while the request is there is heard: the request *)
(* ends in the lockout, unless a password submitted before was right or    *)
(* was the last one allowed, or the client goes away (controller.rs:       *)
(* 257-334 with gui_auth.rs:575-623).                                      *)
(***************************************************************************)
DenyWins ==
    \A r \in Requests :
        refusal[r] /\ handler[r].at = "refused" => handler[r].checked = MaxAttempts

(***************************************************************************)
(* No password is left lying in the channel of a handler that has ended    *)
(* with a verdict: the window submits none before it has seen the verdict  *)
(* on the one before.                                                      *)
(***************************************************************************)
NoPasswordUnread ==
    \A r \in Requests :
        handler[r].at \in Over => \A i \in DOMAIN outcomes[r] : outcomes[r][i] \in {"denied", "dismissed"}

(***************************************************************************)
(* The dialog and its handler agree in the end: a refusal is heard, and no *)
(* password is left unread.                                                *)
(***************************************************************************)
DialogSound == DenyWins /\ NoPasswordUnread

(***************************************************************************)
(* A window that waits for a verdict does not wait for ever, also when the *)
(* client goes away: it opens again or is closed.  (Not so in Qt when      *)
(* nobody listened to the password: see PromptsStuck.)                     *)
(***************************************************************************)
PromptsStuck(r) == backend = "qt" /\ window[r] = "awaiting" /\ feedback[r] = "none"

WindowsAnswer ==
    \A r \in Requests :
        window[r] = "awaiting" /\ ~PromptsStuck(r) ~> window[r] # "awaiting"
==============================================================================
