-------------------------------- MODULE Client --------------------------------
(***************************************************************************)
(* The client of the agent's API (commands/client.rs), for one request a   *)
(* command makes: it is sent over a connection that is kept from request   *)
(* to request; if the agent denies access the vault is unlocked, by a      *)
(* password asked for on the terminal or by the agent's own dialog, and    *)
(* the request is sent once more.  The agent may be locked again, die and  *)
(* be started again at any moment, and so lose a request or an answer.     *)
(***************************************************************************)
EXTENDS Naturals

CONSTANTS
    Calls,          \* how the request is made: a subset of
                    \*   "process"  request_with_unlock, AuthMode::ProcessOnly
                    \*   "bearer"   the same, AuthMode::IncludePassword
                    \*   "complete" shell_completions
                    \*   "bare"     post_empty_without_unlock
    MaxPasswordAttempts,
    MaxDeaths       \* bound: how often the agent dies

ASSUME ClientAssumption ==
    /\ Calls \subseteq {"process", "bearer", "complete", "bare"}
    /\ MaxPasswordAttempts \in Nat \ {0}

VARIABLES
    mode,       \* how the request is made (fixed)
    method,     \* the unlock method the agent offers: "direct" or "gui" (fixed)
    mustauth,   \* the request asks for the password itself (fixed)
    client,     \* at: what it does next; tries: passwords asked for;
                \* password: the one it holds; result
    conn,       \* the kept connection: none, up, or broken without its knowledge
    net,        \* the request or the answer that is on its way
    agent,      \* is it up, and is this client authorized
    applied,    \* history: how often the request has had its effect
    sent        \* history: what was sent with a password, and after what

clientVars == <<mode, method, mustauth, client, conn, net, agent, applied, sent>>

Quiet == [to |-> "nobody"]

Ask(what, password) == [to |-> "agent", what |-> what, password |-> password]

Reply(status, close) == [to |-> "client", what |-> net.what, status |-> status, close |-> close]

End(result) == client' = [client EXCEPT !.at = "done", !.result = result]

(***************************************************************************)
(* The password that goes with a request: with the repeated request only   *)
(* if it was made with IncludePassword.                                    *)
(***************************************************************************)
PasswordForAny(what) ==
    IF what \in {"unlock", "again"} THEN client.password ELSE "none"

PasswordFor(what) ==
    CASE what = "unlock" /\ method = "direct" -> client.password
      [] what = "again" /\ mode = "bearer" -> client.password
      [] OTHER -> "none"

Sending == client.at \in {"first", "discover", "unlock", "again"} /\ net = Quiet

(***************************************************************************)
(* request: a connection is made if there is none.  An error on the way    *)
(* drops the connection and ends the command; nothing is sent again.       *)
(***************************************************************************)
Send ==
    /\ Sending
    /\ conn = "up" \/ (conn = "none" /\ agent.up)
    /\ conn' = "up"
    /\ net' = Ask(client.at, PasswordFor(client.at))
    /\ sent' = IF PasswordFor(client.at) = "none" THEN sent
               ELSE sent \cup {<<client.at, client.tries>>}
    /\ UNCHANGED <<mode, method, mustauth, client, agent, applied>>

SendFailsAndIsTriedAgain ==
    /\ Sending
    /\ conn = "broken" \/ (conn = "none" /\ ~agent.up)
    /\ conn' = "none"
    /\ UNCHANGED <<mode, method, mustauth, client, net, agent, applied, sent>>

SendFails ==
    /\ Sending
    /\ conn = "broken" \/ (conn = "none" /\ ~agent.up)
    /\ conn' = "none"
    /\ End("error")
    /\ UNCHANGED <<mode, method, mustauth, net, agent, applied, sent>>

AnswerLostAndSentAgain ==
    /\ net.to = "lost"
    /\ conn' = "none"
    /\ net' = Quiet
    /\ UNCHANGED <<mode, method, mustauth, client, agent, applied, sent>>

AnswerLost ==
    /\ net.to = "lost"
    /\ conn' = "none"
    /\ net' = Quiet
    /\ End("error")
    /\ UNCHANGED <<mode, method, mustauth, agent, applied, sent>>

(***************************************************************************)
(* The agent: a request is denied without an authorization, and one that   *)
(* asks for the password without the right one; or it has its effect, or   *)
(* fails for a reason of its own.  An answer may close the connection.     *)
(***************************************************************************)
BearerPasswordIsValid(password) == password = "right"

Denied(password) == ~agent.authorized \/ (mustauth /\ ~BearerPasswordIsValid(password))

HandleCall ==
    /\ net.to = "agent"
    /\ net.what \in {"first", "again"}
    /\ \E close \in BOOLEAN :
        IF Denied(net.password)
        THEN net' = Reply("access_denied", close) /\ UNCHANGED applied
        ELSE \/ net' = Reply("ok", close) /\ applied' = applied + 1
             \/ net' = Reply("refused", close) /\ UNCHANGED applied
    /\ UNCHANGED <<mode, method, mustauth, client, conn, agent, sent>>

HandleDiscover ==
    /\ net.to = "agent"
    /\ net.what = "discover"
    /\ \E close \in BOOLEAN : net' = Reply("ok", close)
    /\ UNCHANGED <<mode, method, mustauth, client, conn, agent, applied, sent>>

(***************************************************************************)
(* A direct unlock answers unlock_failed to a wrong password, or           *)
(* access_denied if the vault is open; access_denied is also what a        *)
(* program that is not trusted gets for the right one.  Either way of      *)
(* unlocking may find that the vault needs migration: "refused".           *)
(***************************************************************************)
Unlocks(status) ==
    /\ net' = Reply(status, FALSE)
    /\ agent' = [agent EXCEPT !.authorized = @ \/ status = "ok"]

HandleUnlock ==
    /\ net.to = "agent"
    /\ net.what = "unlock" /\ method = "direct"
    /\ \E status \in {"ok", "unlock_failed", "access_denied", "refused"} :
        /\ status = "ok" => net.password = "right"
        /\ net.password = "right" => status # "unlock_failed"
        /\ Unlocks(status)
    /\ UNCHANGED <<mode, method, mustauth, client, conn, applied, sent>>

(***************************************************************************)
(* The dialog: refused where the processes cannot be told (access_denied)  *)
(* or a denial still stands (temporary_lockout, "refused"); otherwise it   *)
(* is open until somebody answers it, for prompt.next() knows no timeout.  *)
(* Its user may deny it (temporary_lockout), close it or type wrong        *)
(* passwords (access_denied).                                              *)
(***************************************************************************)
BehindDialog == [to |-> "dialog", what |-> "unlock"]

AskedOfDialog == net.to = "agent" /\ net.what = "unlock" /\ method = "gui"

OpenDialog ==
    /\ AskedOfDialog
    /\ net' = BehindDialog
    /\ UNCHANGED <<mode, method, mustauth, client, conn, agent, applied, sent>>

RefuseDialog ==
    /\ AskedOfDialog
    /\ \E status \in {"access_denied", "refused"} : Unlocks(status)
    /\ UNCHANGED <<mode, method, mustauth, client, conn, applied, sent>>

AnswerDialog ==
    /\ net.to = "dialog"
    /\ \E status \in {"ok", "access_denied", "refused"} : Unlocks(status)
    /\ UNCHANGED <<mode, method, mustauth, client, conn, applied, sent>>

(***************************************************************************)
(* request_with_unlock_prompt_for_scope: what follows from each answer.    *)
(* shell_completions asks for no password and gives up instead; a request  *)
(* without unlock reports what it got.                                     *)
(***************************************************************************)
AfterFirst(status) ==
    IF status = "access_denied" /\ mode # "bare"
    THEN client' = [client EXCEPT !.at = "discover"]
    ELSE End(status)

AfterDiscover ==
    IF method = "gui" THEN client' = [client EXCEPT !.at = "unlock"]
    ELSE IF mode = "complete" THEN End("error")
    ELSE client' = [client EXCEPT !.at = "ask"]

IsRetryableUnlockError(status) == status \in {"access_denied", "unlock_failed"}

AfterUnlock(status) ==
    IF status = "ok" THEN client' = [client EXCEPT !.at = "again"]
    ELSE IF method = "direct" /\ IsRetryableUnlockError(status)
            /\ client.tries < MaxPasswordAttempts
    THEN client' = [client EXCEPT !.at = "ask"]
    ELSE End("error")

Receive ==
    /\ net.to = "client"
    /\ net' = Quiet
    /\ conn' = IF net.close THEN "none" ELSE conn
    /\ CASE net.what = "first"    -> AfterFirst(net.status)
         [] net.what = "discover" -> AfterDiscover
         [] net.what = "unlock"   -> AfterUnlock(net.status)
         [] net.what = "again"    -> End(net.status)
    /\ UNCHANGED <<mode, method, mustauth, agent, applied, sent>>

(***************************************************************************)
(* prompt_master_password: the person at the terminal types a password, or *)
(* ends the input.                                                         *)
(***************************************************************************)
TypePassword ==
    /\ client.at = "ask"
    /\ \E password \in {"right", "wrong"} :
           client' = [client EXCEPT !.at = "unlock", !.password = password, !.tries = @ + 1]
    /\ UNCHANGED <<mode, method, mustauth, conn, net, agent, applied, sent>>

EndInput ==
    /\ client.at = "ask"
    /\ End("error")
    /\ UNCHANGED <<mode, method, mustauth, conn, net, agent, applied, sent>>

Relock ==
    /\ agent.authorized
    /\ agent' = [agent EXCEPT !.authorized = FALSE]
    /\ UNCHANGED <<mode, method, mustauth, client, conn, net, applied, sent>>

(***************************************************************************)
(* When the agent dies, what is on its way is lost, on either side of the  *)
(* request's effect, and the kept connection is broken.                    *)
(***************************************************************************)
AgentDies ==
    /\ agent.up
    /\ agent.deaths < MaxDeaths
    /\ agent' = [up |-> FALSE, authorized |-> FALSE, deaths |-> agent.deaths + 1]
    /\ conn' = IF conn = "up" THEN "broken" ELSE conn
    /\ net' = IF net = Quiet THEN Quiet ELSE [to |-> "lost"]
    /\ UNCHANGED <<mode, method, mustauth, client, applied, sent>>

AgentStarts ==
    /\ ~agent.up
    /\ agent' = [agent EXCEPT !.up = TRUE]
    /\ UNCHANGED <<mode, method, mustauth, client, conn, net, applied, sent>>

InitClient ==
    /\ mode \in Calls
    /\ method \in {"direct", "gui"}
    /\ mustauth \in {mode = "bearer", FALSE}
    /\ client = [at |-> "first", tries |-> 0, password |-> "none", result |-> "none"]
    /\ conn \in {"none", "up"}
    /\ net = Quiet
    /\ agent \in [up : {TRUE}, authorized : BOOLEAN, deaths : {0}]
    /\ applied = 0
    /\ sent = {}

ClientSteps == Send \/ SendFails \/ AnswerLost \/ Receive

AgentSteps == HandleCall \/ HandleDiscover \/ HandleUnlock \/ OpenDialog \/ RefuseDialog

NextClient ==
    \/ ClientSteps \/ AgentSteps
    \/ AnswerDialog \/ TypePassword \/ EndInput
    \/ Relock \/ AgentDies \/ AgentStarts

ClientSpec == InitClient /\ [][NextClient]_clientVars

-----------------------------------------------------------------------------
(***************************************************************************)
(* The request has its effect at most once, whatever is denied, asked,     *)
(* lost and sent again; exactly once if the command succeeds; and not at   *)
(* all if it reports that access was denied (client.rs:362-414, 606-660).  *)
(***************************************************************************)
AppliedOnce ==
    /\ applied <= 1
    /\ client.result = "ok" => applied = 1
    /\ client.result \in {"access_denied", "refused"} => applied = 0

(***************************************************************************)
(* A password leaves the client only to unlock, at most MaxPasswordAttempts*)
(* times, and with the repeated request if that was made with              *)
(* IncludePassword: never with the dialog, never for a completion.         *)
(***************************************************************************)
PasswordsAreMeant ==
    /\ sent # {} => method = "direct" /\ mode \in {"process", "bearer"}
    /\ \A s \in sent : s[1] = "unlock" \/ (s[1] = "again" /\ mode = "bearer")
    /\ client.tries <= MaxPasswordAttempts

(***************************************************************************)
(* Both: what one request of a command may do to the vault and say to the  *)
(* agent on the way to its end.                                            *)
(***************************************************************************)
RequestsAreMeant == AppliedOnce /\ PasswordsAreMeant

(***************************************************************************)
(* A command comes to its end, or to where it waits for a person: at its   *)
(* password prompt, or behind the agent's dialog, which may stay open for  *)
(* ever; once that is answered it goes on.  So it is whether the agent     *)
(* answers, refuses, dies or is never there (client.rs:362-414, 606-660,   *)
(* gui_auth.rs:38-43).                                                     *)
(***************************************************************************)
CallEnds ==
    client.at # "ask" /\ net.to # "dialog" ~>
        client.at \in {"done", "ask"} \/ net.to = "dialog"
==============================================================================
