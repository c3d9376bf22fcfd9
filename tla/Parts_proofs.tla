----------------------------- MODULE Parts_proofs -----------------------------
(***************************************************************************)
(* The client, the processes around the vault's files, the password        *)
(* dialog, its windows, the gate, the catalog of applications and the      *)
(* agent under its service manager: each keeps what the runs check of it,  *)
(* for every set of requests, processes, peers, files and agents, and for  *)
(* every limit of the attempts. The components share no state, and each    *)
(* part of this module stands alone: the invariant of a component, in      *)
(* named conjuncts, a lemma for each of its actions, and the theorem.      *)
(***************************************************************************)
EXTENDS Client, Lifecycle, Prompt, Gate, Catalog, Windows, Daemon,
        FiniteSetTheorems, SequenceTheorems, WellFoundedInduction, TLAPS

(***************************************************************************)
(* The client. Where a request of its own is on its way, or about to be.   *)
(***************************************************************************)
Travelling == {"first", "discover", "unlock", "again"}

(***************************************************************************)
(* What a request may carry as its password.                               *)
(***************************************************************************)
Carried == {"none", "right", "wrong"}

(***************************************************************************)
(* The calls whose command line may ask for a password.                    *)
(***************************************************************************)
Asking == {"process", "bearer"}

(***************************************************************************)
(* The types of one command's call.                                        *)
(***************************************************************************)
CallSound ==
    /\ mode \in Calls /\ method \in {"direct", "gui"}
    /\ client \in [at: Travelling \cup {"ask", "done"}, tries: 0 .. MaxPasswordAttempts,
                   password: Carried,
                   result: {"none", "ok", "access_denied", "refused", "error"}]
    /\ applied \in Nat

(***************************************************************************)
(* What the agent can answer to a request of a kind.                       *)
(***************************************************************************)
Answers(what) ==
    CASE what = "discover" -> {"ok"}
      [] what = "unlock" -> {"ok", "unlock_failed", "access_denied", "refused"}
      [] OTHER -> {"ok", "access_denied", "refused"}

(***************************************************************************)
(* On the connection there is nothing, or the request the client waits     *)
(* for, with a dialog open over an unlock, or an answer to it, or neither  *)
(* since the agent died.                                                   *)
(***************************************************************************)
OnItsWay ==
    \/ net = Quiet
    \/ net = [to |-> "lost"] /\ client.at \in Travelling
    \/ net = BehindDialog /\ client.at = "unlock"
    \/ /\ client.at \in Travelling
       /\ \E password \in Carried : net = Ask(client.at, password)
    \/ /\ client.at \in Travelling
       /\ \E status \in Answers(client.at), close \in BOOLEAN :
             net = [to |-> "client", what |-> client.at, status |-> status, close |-> close]

(***************************************************************************)
(* How often the call has been applied, by where the client stands: a call *)
(* that was denied was not, and only after an answer ok is it sure that it *)
(* was. This is what makes the second sending safe: the client sends again *)
(* only after access_denied.                                               *)
(***************************************************************************)
EffectSound ==
    /\ client.at # "done" => client.result = "none"
    /\ client.at \in {"discover", "ask", "unlock"} => applied = 0
    /\ client.at \in {"first", "again"} =>
          /\ net.to \in {"nobody", "agent"} => applied = 0
          /\ net.to = "client" => applied = (IF net.status = "ok" THEN 1 ELSE 0)
          /\ net.to = "lost" => applied <= 1
    /\ client.at = "done" => AppliedOnce

(***************************************************************************)
(* Who has a password to send: it was asked for by a command that may ask, *)
(* for the direct method, and not more than MaxPasswordAttempts times; it  *)
(* has been sent with an unlock, or with the call that follows it if that  *)
(* call demands one.                                                       *)
(***************************************************************************)
PasswordSound ==
    /\ client.at \in {"discover", "unlock", "ask", "again"} => mode # "bare"
    /\ client.at \in {"first", "discover"} => client.tries = 0
    /\ client.at = "ask" => client.tries < MaxPasswordAttempts
    /\ client.at = "ask" \/ (client.at = "unlock" /\ method = "direct")
          => method = "direct" /\ mode \in Asking
    /\ client.password # "none" => method = "direct" /\ mode \in Asking
    /\ sent # {} => method = "direct" /\ mode \in Asking
    /\ \A s \in sent : s[1] = "unlock" \/ (s[1] = "again" /\ mode = "bearer")

(***************************************************************************)
(* The inductive invariant of the client. RequestsAreMeant alone is not    *)
(* inductive: it says how often a call was applied when the client has     *)
(* ended, and not what the answers under way still tell about it.          *)
(***************************************************************************)
ClientInv == CallSound /\ OnItsWay /\ EffectSound /\ PasswordSound

(***************************************************************************)
(* The invariant holds before the first request.                           *)
(***************************************************************************)
THEOREM ClientInitially == InitClient => ClientInv
BY ClientAssumption DEF InitClient, ClientInv, CallSound, OnItsWay, EffectSound, PasswordSound,
   Travelling, Carried, Quiet

(***************************************************************************)
(* The invariant implies the property.                                     *)
(***************************************************************************)
LEMMA ClientMeans == ClientInv => RequestsAreMeant
BY ClientAssumption
   DEF ClientInv, CallSound, OnItsWay, EffectSound, PasswordSound, Quiet, Ask, Travelling, Asking,
       RequestsAreMeant, AppliedOnce, PasswordsAreMeant, Answers

(***************************************************************************)
(* The five states of the connection, told apart by where the message      *)
(* goes.                                                                   *)
(***************************************************************************)
LEMMA NetCases ==
    ASSUME OnItsWay
    PROVE  /\ \/ net = Quiet /\ net.to = "nobody"
              \/ net.to = "lost"
              \/ net.to = "dialog" /\ net.what = client.at /\ client.at = "unlock"
              \/ /\ net.to = "agent" /\ net.what = client.at /\ net.password \in Carried
              \/ /\ net.to = "client" /\ net.what = client.at
                 /\ net.status \in Answers(client.at) /\ net.close \in BOOLEAN
           /\ net.to = "nobody" <=> net = Quiet
           /\ net # Quiet => client.at \in Travelling
<1>1. CASE net = Quiet
  BY <1>1 DEF Quiet
<1>2. CASE net = [to |-> "lost"] /\ client.at \in Travelling
  BY <1>2 DEF Quiet
<1>3. CASE net = BehindDialog /\ client.at = "unlock"
  BY <1>3 DEF Quiet, BehindDialog, Travelling
<1>4. ASSUME client.at \in Travelling, NEW password \in Carried, net = Ask(client.at, password)
      PROVE  net.to = "agent" /\ net.what = client.at /\ net.password \in Carried /\ net # Quiet
  BY <1>4 DEF Quiet, Ask
<1>5. ASSUME client.at \in Travelling, NEW status \in Answers(client.at), NEW close \in BOOLEAN,
             net = [to |-> "client", what |-> client.at, status |-> status, close |-> close]
      PROVE  /\ net.to = "client" /\ net.what = client.at /\ net # Quiet
             /\ net.status \in Answers(client.at) /\ net.close \in BOOLEAN
  BY <1>5 DEF Quiet
<1> QED BY <1>1, <1>2, <1>3, <1>4, <1>5 DEF OnItsWay

(***************************************************************************)
(* A client that ends with the result its answer justifies.                *)
(***************************************************************************)
LEMMA EndSound ==
    ASSUME ClientInv, NEW result \in {"ok", "access_denied", "refused", "error"}, End(result),
           net' = Quiet, UNCHANGED <<mode, method, applied, sent>>,
           applied <= 1, result = "ok" => applied = 1,
           result \in {"access_denied", "refused"} => applied = 0
    PROVE  ClientInv'
<1>1. /\ client'.at = "done" /\ client'.tries = client.tries
      /\ client'.password = client.password /\ client'.result = result
      /\ client' = [at |-> "done", tries |-> client.tries, password |-> client.password,
                    result |-> result]
  BY DEF ClientInv, CallSound, End
<1>2. CallSound'
  BY <1>1 DEF ClientInv, CallSound
<1>3. EffectSound'
  BY <1>1 DEF EffectSound, AppliedOnce
<1>4. PasswordSound'
  BY <1>1 DEF ClientInv, PasswordSound
<1> QED BY <1>2, <1>3, <1>4 DEF ClientInv, OnItsWay

(***************************************************************************)
(* A client that goes on to its next request, or to ask for a password.    *)
(***************************************************************************)
LEMMA GoOnSound ==
    ASSUME ClientInv, NEW at \in {"discover", "ask", "unlock", "again"},
           client' = [client EXCEPT !.at = at], client.at # "done",
           net' = Quiet, UNCHANGED <<mode, method, applied, sent>>, applied = 0,
           mode # "bare",
           at = "discover" => client.tries = 0,
           at = "ask" => client.tries < MaxPasswordAttempts,
           at = "ask" \/ (at = "unlock" /\ method = "direct")
              => method = "direct" /\ mode \in Asking
    PROVE  ClientInv'
<1>1. /\ client'.at = at /\ client'.tries = client.tries
      /\ client'.password = client.password /\ client'.result = client.result
      /\ client' = [at |-> at, tries |-> client.tries, password |-> client.password,
                    result |-> client.result]
  BY DEF ClientInv, CallSound
<1>2. CallSound'
  BY <1>1 DEF ClientInv, CallSound, Travelling
<1>3. EffectSound'
  BY <1>1 DEF ClientInv, EffectSound, Quiet
<1>4. PasswordSound'
  BY <1>1 DEF ClientInv, PasswordSound
<1> QED BY <1>2, <1>3, <1>4 DEF ClientInv, OnItsWay

(***************************************************************************)
(* The client takes an answer (the whole of its control flow).             *)
(***************************************************************************)
LEMMA ReceiveSound ==
    ASSUME ClientInv, Receive
    PROVE  ClientInv'
<1> DEFINE status == net.status
<1>1. /\ net.to = "client" /\ net.what = client.at /\ status \in Answers(client.at)
      /\ client.at \in Travelling
  BY NetCases DEF ClientInv, Receive, Quiet
<1>2. net' = Quiet /\ UNCHANGED <<mode, method, applied, sent>>
  BY DEF Receive
<1>3. client.at \in {"first", "again"} =>
          /\ status \in {"ok", "access_denied", "refused"}
          /\ applied = (IF status = "ok" THEN 1 ELSE 0)
  BY <1>1 DEF ClientInv, EffectSound, Answers
<1>4. client.at \in {"discover", "unlock"} => applied = 0
  BY DEF ClientInv, EffectSound
<1>5. PasswordSound
  BY DEF ClientInv
<1>6. CASE client.at = "first"
  <2>1. AfterFirst(status)
    BY <1>1, <1>6 DEF Receive
  <2>2. CASE status = "access_denied" /\ mode # "bare"
    <3>1. client' = [client EXCEPT !.at = "discover"]
      BY <2>1, <2>2 DEF AfterFirst
    <3> QED BY <3>1, <1>2, <1>3, <1>5, <1>6, <2>2, GoOnSound DEF PasswordSound
  <2>3. CASE ~(status = "access_denied" /\ mode # "bare")
    <3>1. End(status)
      BY <2>1, <2>3 DEF AfterFirst
    <3> QED BY <3>1, <1>2, <1>3, <1>6, EndSound
  <2> QED BY <2>2, <2>3
<1>7. CASE client.at = "discover"
  <2>1. AfterDiscover
    BY <1>1, <1>7 DEF Receive
  <2>2. client.tries = 0 /\ mode # "bare" /\ mode \in Calls /\ method \in {"direct", "gui"}
    BY <1>7 DEF ClientInv, CallSound, PasswordSound
  <2>3. CASE method = "gui"
    <3>1. client' = [client EXCEPT !.at = "unlock"]
      BY <2>1, <2>3 DEF AfterDiscover
    <3> QED BY <3>1, <1>2, <1>4, <1>7, <2>2, <2>3, GoOnSound
  <2>4. CASE method = "direct" /\ mode = "complete"
    BY <2>1, <2>4, <1>2, <1>4, <1>7, EndSound DEF AfterDiscover
  <2>5. CASE method = "direct" /\ mode # "complete"
    <3>1. client' = [client EXCEPT !.at = "ask"]
      BY <2>1, <2>5 DEF AfterDiscover
    <3>2. mode \in Asking /\ 0 < MaxPasswordAttempts
      BY <2>2, <2>5, ClientAssumption DEF Asking
    <3> QED BY <3>1, <3>2, <1>2, <1>4, <1>7, <2>2, <2>5, GoOnSound
  <2> QED BY <2>2, <2>3, <2>4, <2>5
<1>8. CASE client.at = "unlock"
  <2>1. AfterUnlock(status)
    BY <1>1, <1>8 DEF Receive
  <2>2. mode # "bare" /\ (method = "direct" => mode \in Asking)
    BY <1>8 DEF ClientInv, PasswordSound
  <2>3. CASE status = "ok"
    <3>1. client' = [client EXCEPT !.at = "again"]
      BY <2>1, <2>3 DEF AfterUnlock
    <3> QED BY <3>1, <1>2, <1>4, <1>8, <2>2, GoOnSound
  <2>4. CASE /\ status # "ok" /\ method = "direct" /\ IsRetryableUnlockError(status)
             /\ client.tries < MaxPasswordAttempts
    <3>1. client' = [client EXCEPT !.at = "ask"]
      BY <2>1, <2>4 DEF AfterUnlock
    <3> QED BY <3>1, <1>2, <1>4, <1>8, <2>2, <2>4, GoOnSound
  <2>5. CASE /\ status # "ok"
             /\ ~(method = "direct" /\ IsRetryableUnlockError(status)
                     /\ client.tries < MaxPasswordAttempts)
    <3>1. End("error")
      BY <2>1, <2>5 DEF AfterUnlock
    <3> QED BY <3>1, <1>2, <1>4, <1>8, EndSound
  <2> QED BY <2>3, <2>4, <2>5
<1>9. CASE client.at = "again"
  <2>1. End(status)
    BY <1>1, <1>9 DEF Receive
  <2> QED BY <2>1, <1>2, <1>3, <1>9, EndSound
<1> QED BY <1>1, <1>6, <1>7, <1>8, <1>9 DEF Travelling

(***************************************************************************)
(* The agent, or the person at its dialog, answers a request of any kind.  *)
(***************************************************************************)
LEMMA AgentAnswers ==
    ASSUME ClientInv, HandleCall \/ HandleDiscover \/ HandleUnlock \/ RefuseDialog \/ AnswerDialog
    PROVE  ClientInv'
<1>1. net.to \in {"agent", "dialog"} /\ net.what = client.at /\ client.at \in Travelling
  BY NetCases DEF ClientInv, HandleCall, HandleDiscover, HandleUnlock, RefuseDialog,
     AskedOfDialog, AnswerDialog, Quiet
<1>2. UNCHANGED <<mode, method, client, sent>>
  BY DEF HandleCall, HandleDiscover, HandleUnlock, RefuseDialog, AnswerDialog
<1>3. \E status \in Answers(client.at), close \in BOOLEAN :
         /\ net' = Reply(status, close)
         /\ applied' = IF client.at \in {"first", "again"} /\ status = "ok"
                       THEN applied + 1 ELSE applied
  <2>1. CASE HandleCall
    BY <1>1, <2>1 DEF HandleCall, Answers
  <2>2. CASE HandleDiscover
    BY <1>1, <2>2 DEF HandleDiscover, Answers
  <2>3. CASE HandleUnlock
    BY <1>1, <2>3 DEF HandleUnlock, Unlocks, Answers
  <2>4. CASE RefuseDialog
    BY <1>1, <2>4 DEF RefuseDialog, AskedOfDialog, Unlocks, Answers
  <2>5. CASE AnswerDialog
    BY NetCases, <2>5 DEF AnswerDialog, Unlocks, Answers, ClientInv
  <2> QED BY <2>1, <2>2, <2>3, <2>4, <2>5
<1>4. PICK status \in Answers(client.at), close \in BOOLEAN :
         /\ net' = Reply(status, close)
         /\ applied' = IF client.at \in {"first", "again"} /\ status = "ok"
                       THEN applied + 1 ELSE applied
  BY <1>3
<1>5. /\ net' = [to |-> "client", what |-> client.at, status |-> status, close |-> close]
      /\ net'.to = "client" /\ net'.status = status
  BY <1>1, <1>4 DEF Reply
<1>6. OnItsWay'
  BY <1>1, <1>2, <1>5 DEF OnItsWay
<1>7. client.at \in {"first", "again"} => applied = 0
  BY <1>1, NetCases DEF ClientInv, EffectSound
<1>8. EffectSound'
  BY <1>1, <1>2, <1>4, <1>5, <1>7 DEF ClientInv, EffectSound, Travelling
<1>9. CallSound' /\ PasswordSound'
  BY <1>2, <1>4 DEF ClientInv, CallSound, PasswordSound
<1> QED BY <1>6, <1>8, <1>9 DEF ClientInv

(***************************************************************************)
(* The dialog opens over an unlock, which has no effect to count.          *)
(***************************************************************************)
LEMMA OpenDialogSound ==
    ASSUME ClientInv, OpenDialog
    PROVE  ClientInv'
<1>1. net.to = "agent" /\ client.at = "unlock" /\ UNCHANGED <<mode, method, client, applied, sent>>
  BY NetCases DEF OpenDialog, AskedOfDialog, ClientInv, Quiet
<1>2. net' = BehindDialog /\ net'.to = "dialog"
  BY DEF OpenDialog, BehindDialog
<1>3. CallSound' /\ OnItsWay' /\ PasswordSound'
  BY <1>1, <1>2 DEF ClientInv, CallSound, OnItsWay, PasswordSound
<1>4. EffectSound'
  BY <1>1, <1>2 DEF ClientInv, EffectSound
<1> QED BY <1>3, <1>4 DEF ClientInv

(***************************************************************************)
(* The client sends.                                                       *)
(***************************************************************************)
LEMMA SendSound ==
    ASSUME ClientInv, Send
    PROVE  ClientInv'
<1>1. /\ net = Quiet /\ client.at \in Travelling /\ UNCHANGED <<mode, method, client, applied>>
      /\ net' = Ask(client.at, PasswordFor(client.at))
  BY DEF Send, Sending, Travelling
<1>2. PasswordFor(client.at) \in Carried
  BY DEF PasswordFor, ClientInv, CallSound, Carried
<1>3. OnItsWay'
  BY <1>1, <1>2 DEF OnItsWay
<1>4. net.to = "nobody" /\ net'.to = "agent"
  BY <1>1 DEF Quiet, Ask
<1>5. EffectSound'
  BY <1>1, <1>4 DEF ClientInv, EffectSound, Travelling
<1>6. PasswordSound'
  BY <1>1 DEF ClientInv, PasswordSound, Send, PasswordFor
<1>7. CallSound'
  BY <1>1 DEF ClientInv, CallSound
<1> QED BY <1>3, <1>5, <1>6, <1>7 DEF ClientInv

(***************************************************************************)
(* A password is typed: one more try, and fewer were made than allowed.    *)
(***************************************************************************)
LEMMA TypePasswordSound ==
    ASSUME ClientInv, TypePassword
    PROVE  ClientInv'
<1>1. client.at = "ask" /\ UNCHANGED <<mode, method, net, applied, sent>> /\ net = Quiet
  BY NetCases DEF TypePassword, ClientInv, Travelling
<1>2. PICK password \in {"right", "wrong"} :
         client' = [client EXCEPT !.at = "unlock", !.password = password, !.tries = @ + 1]
  BY DEF TypePassword
<1>3. client.tries \in Nat /\ client.tries < MaxPasswordAttempts
  BY <1>1, ClientAssumption DEF ClientInv, CallSound, PasswordSound
<1>4. client' = [at |-> "unlock", tries |-> client.tries + 1, password |-> password,
                    result |-> client.result]
  BY <1>2 DEF ClientInv, CallSound
<1>5. CallSound'
  BY <1>1, <1>3, <1>4, ClientAssumption DEF ClientInv, CallSound, Carried, Travelling
<1>6. EffectSound'
  BY <1>1, <1>4 DEF ClientInv, EffectSound
<1>7. PasswordSound'
  BY <1>1, <1>4 DEF ClientInv, PasswordSound
<1> QED BY <1>1, <1>5, <1>6, <1>7 DEF ClientInv, OnItsWay

(***************************************************************************)
(* A request that cannot be sent, an answer that is lost, the end of the   *)
(* input.                                                                  *)
(***************************************************************************)
LEMMA FailSound ==
    ASSUME ClientInv, SendFails \/ AnswerLost \/ EndInput
    PROVE  ClientInv'
<1>1. net' = Quiet /\ End("error") /\ UNCHANGED <<mode, method, applied, sent>>
  BY NetCases DEF SendFails, Sending, AnswerLost, EndInput, ClientInv, Travelling
<1>2. applied <= 1
  <2>1. CASE SendFails
    BY <2>1 DEF SendFails, Sending, ClientInv, EffectSound, Quiet
  <2>2. CASE AnswerLost
    BY <2>2, NetCases DEF AnswerLost, ClientInv, EffectSound, Travelling, Quiet
  <2>3. CASE EndInput
    BY <2>3 DEF EndInput, ClientInv, EffectSound
  <2> QED BY <2>1, <2>2, <2>3
<1> QED BY <1>1, <1>2, EndSound

(***************************************************************************)
(* The agent dies: what was on its way is lost, applied or not.            *)
(***************************************************************************)
LEMMA DeathSound ==
    ASSUME ClientInv, AgentDies
    PROVE  ClientInv'
<1>1. UNCHANGED <<mode, method, client, applied, sent>>
  BY DEF AgentDies
<1>2. CASE net = Quiet
  BY <1>1, <1>2 DEF AgentDies, ClientInv, CallSound, OnItsWay, EffectSound, PasswordSound,
     AppliedOnce
<1>3. CASE net # Quiet
  <2>1. client.at \in Travelling /\ net' = [to |-> "lost"] /\ net'.to = "lost"
    BY <1>3, NetCases DEF AgentDies, ClientInv
  <2>2. client.at \in {"first", "again"} => applied <= 1
    BY <1>3, NetCases DEF ClientInv, EffectSound
  <2>3. EffectSound'
    BY <1>1, <2>1, <2>2 DEF ClientInv, EffectSound, Travelling
  <2> QED BY <1>1, <2>1, <2>3 DEF ClientInv, CallSound, OnItsWay, PasswordSound
<1> QED BY <1>2, <1>3

(***************************************************************************)
(* Every step of the client and of the agent keeps the invariant.          *)
(***************************************************************************)
LEMMA ClientStepKeeps ==
    ASSUME ClientInv, [NextClient]_clientVars
    PROVE  ClientInv'
<1>1. CASE Relock \/ AgentStarts \/ UNCHANGED clientVars
  BY <1>1 DEF Relock, AgentStarts, clientVars, ClientInv, CallSound, OnItsWay, EffectSound,
     PasswordSound, AppliedOnce
<1> QED BY <1>1, SendSound, FailSound, ReceiveSound, AgentAnswers, OpenDialogSound,
        TypePasswordSound, DeathSound DEF NextClient, ClientSteps, AgentSteps

(***************************************************************************)
(* A command's call is applied at most once, exactly once when the client  *)
(* reports success and not at all when it reports a denial, and a password *)
(* is sent only by the commands and in the requests it is meant for        *)
(* (client.rs: request with one unlock and one retry).                     *)
(***************************************************************************)
THEOREM RequestsMeant == ClientSpec => []RequestsAreMeant
<1>1. ClientInv /\ [NextClient]_clientVars => ClientInv'
  BY ClientStepKeeps
<1> QED BY ClientInitially, ClientMeans, <1>1, PTL DEF ClientSpec

-----------------------------------------------------------------------------

(***************************************************************************)
(* The processes around the vault. How much of a database there can be.    *)
(***************************************************************************)
Made == {"file", "schema", "dirs", "keys", "settings"}

(***************************************************************************)
(* The databases there can be; the values of the settings are abstract.    *)
(***************************************************************************)
Tables ==
    [made : Made, version : 0 .. 3, fields : {"column", "rows"}, denies : BOOLEAN,
     legacy : Settings \cup {Unset}, current : Settings \cup {Unset}, key : Passwords]

(***************************************************************************)
(* The processes that take the lock: agents, migrations and changes of the *)
(* password.                                                               *)
(***************************************************************************)
Runners == Procs \ Creators

(***************************************************************************)
(* Where they can stand.                                                   *)
(***************************************************************************)
RunnerSteps == {"start", "find", "unlink", "bind", "serve", "open", "compat", "require",
                "fields", "names", "defaults", "opened", "done"}

(***************************************************************************)
(* Where an init can stand: it takes no lock.                              *)
(***************************************************************************)
CreatorSteps == {"start", "file", "schema", "dirs", "keys", "settings", "version", "done"}

(***************************************************************************)
(* The types of the processes' control state.                              *)
(***************************************************************************)
ProcTypes ==
    [Procs -> [at : RunnerSteps \cup CreatorSteps, key : Passwords \cup {"none"},
               version : 0 .. 3]]

(***************************************************************************)
(* The types of the state.                                                 *)
(***************************************************************************)
LifeTypes ==
    /\ db \in {Absent} \cup Tables
    /\ proc \in ProcTypes
    /\ choice \in Settings
    /\ spoiled \in BOOLEAN

(***************************************************************************)
(* What a process that has opened the database knows of it: its key, and   *)
(* the version it has seen or made. An init that goes on meanwhile must    *)
(* not take this away.                                                     *)
(***************************************************************************)
Knows(p) ==
    /\ db # Absent /\ proc[p].key = db.key
    /\ proc[p].at = "compat" => proc[p].version < 2
    /\ proc[p].at \in {"require", "fields"} => db.version >= 2
    /\ proc[p].at \in {"names", "defaults", "opened"} => db.version = 3
    /\ proc[p].at \in {"defaults", "opened"} => db.legacy = Unset

(***************************************************************************)
(* Where a process stands that has opened the database.                    *)
(***************************************************************************)
Past == {"compat", "require", "fields", "names", "defaults", "opened"}

(***************************************************************************)
(* A process that has begun and not ended holds the lock, and an agent     *)
(* past bind is the one its socket leads to.                               *)
(***************************************************************************)
Runner(p) ==
    /\ proc[p].at \in RunnerSteps
    /\ proc[p].at \notin {"start", "done"} => lock = p
    /\ p \in Agents /\ proc[p].at \in Past \cup {"serve"} => socket = p
    /\ p \in Agents => proc[p].at # "open"
    /\ proc[p].at \in Past => Knows(p)

(***************************************************************************)
(* Where an init stands once its schema is written.                        *)
(***************************************************************************)
Beyond == {"dirs", "keys", "settings", "version"}

(***************************************************************************)
(* How much of the database there is when an init stands there.            *)
(***************************************************************************)
Reached(at) ==
    CASE at = "dirs" -> "schema"
      [] at = "keys" -> "dirs"
      [] at = "settings" -> "keys"
      [] at = "version" -> "settings"

(***************************************************************************)
(* An init past its schema has made exactly what is there, and nobody has  *)
(* given the database its last version.                                    *)
(***************************************************************************)
Creator(c) ==
    /\ proc[c].at \in CreatorSteps
    /\ proc[c].at \in Beyond \cup {"schema"} => db # Absent
    /\ proc[c].at \in Beyond =>
          db.made = Reached(proc[c].at) /\ db.fields = "rows" /\ db.version # 3

(***************************************************************************)
(* Of any number of inits one gets past the schema: the others fail at it. *)
(***************************************************************************)
OneInit ==
    \A c, d \in Creators : proc[c].at \in Beyond /\ proc[d].at \in Beyond => c = d

(***************************************************************************)
(* The user's setting is in the database under one of its two names;       *)
(* before init has written it there is none, and nobody has chosen.        *)
(***************************************************************************)
Chosen ==
    IF db.made = "settings"
    THEN \/ db.current = choice /\ db.legacy = Unset
         \/ db.current = Unset /\ db.legacy = choice
    ELSE db.current = Unset /\ db.legacy = Unset /\ choice = "default"

(***************************************************************************)
(* What holds of a database whoever wrote it: the last version only on a   *)
(* complete one with its fields in rows, and a Trash that denies           *)
(* overwriting as soon as one is expected to.                              *)
(***************************************************************************)
DataSound ==
    /\ db.version = 3 => db.fields = "rows" /\ db.made = "settings"
    /\ db.version >= 2 => db.made # "file"
    /\ db.made = "file" <=> db.fields = "column" /\ db.made # "settings"
    /\ db.made \in {"dirs", "keys", "settings"} /\ (db.fields = "rows" \/ db.version >= 2)
          => db.denies
    /\ Chosen

(***************************************************************************)
(* Some init stands there.                                                 *)
(***************************************************************************)
SomeCreatorAt(at) == \E c \in Creators : proc[c].at = at

(***************************************************************************)
(* An incomplete database has an init that will go on, as long as none was *)
(* killed.                                                                 *)
(***************************************************************************)
Finishing ==
    /\ db.made = "file" => SomeCreatorAt("schema")
    /\ db.made = "schema" => SomeCreatorAt("dirs")
    /\ db.made = "dirs" => SomeCreatorAt("keys")
    /\ db.made = "keys" => SomeCreatorAt("settings")
    /\ db.made = "settings" /\ db.fields = "rows" /\ db.version # 3 => SomeCreatorAt("version")

(***************************************************************************)
(* The inductive invariant of the processes. LockHolds speaks of the       *)
(* agents that serve and VaultSurvives of the database alone; that no step *)
(* in between takes either away rests on who holds the lock, on what each  *)
(* process has read, and on which init is still running.                   *)
(***************************************************************************)
LifeInv ==
    /\ LifeTypes
    /\ \A p \in Runners : Runner(p)
    /\ \A c \in Creators : Creator(c)
    /\ OneInit
    /\ IF db = Absent THEN choice = "default" ELSE DataSound
    /\ db # Absent /\ ~spoiled => Finishing

(***************************************************************************)
(* The invariant implies both properties.                                  *)
(***************************************************************************)
LEMMA LifeMeans == LifeInv => LockHolds /\ VaultSurvives
<1> SUFFICES ASSUME LifeInv PROVE LockHolds /\ VaultSurvives
  OBVIOUS
<1>1. \A p \in Procs : p \in Runners \/ (p \in Creators /\ proc[p].at \in CreatorSteps)
  BY DEF Runners, LifeInv, Creator
<1>2. LockHolds
  <2>1. ListenerReachable
    BY <1>1 DEF ListenerReachable, LifeInv, Runner, Past, Served, CreatorSteps, Procs
  <2>2. KeyStands
    BY <1>1 DEF KeyStands, At, LifeInv, Runner, Past, Knows, CreatorSteps
  <2> QED BY <2>1, <2>2 DEF LockHolds
<1>3. SettingsSurvive
  <2> SUFFICES ASSUME NEW p \in Procs, proc[p].at = "opened"
               PROVE  db.current = choice /\ db.legacy = Unset
    BY DEF SettingsSurvive, At
  <2>1. Knows(p)
    BY <1>1 DEF LifeInv, Runner, Past, CreatorSteps
  <2>2. DataSound /\ db.version = 3 /\ db.legacy = Unset
    BY <2>1 DEF Knows, LifeInv
  <2>3. choice # Unset
    BY DEF LifeInv, LifeTypes, Settings, Unset
  <2> QED BY <2>2, <2>3 DEF DataSound, Chosen
<1>4. VaultWhole
  <2> SUFFICES ASSUME db # Absent, ~spoiled, \A c \in Creators : ~Creating(c)
               PROVE  /\ db.made = "settings"
                      /\ db.fields = "rows" <=> db.version = 3
                      /\ db.version >= 2 => db.denies
    BY DEF VaultWhole
  <2>1. \A at \in {"schema", "dirs", "keys", "settings", "version"} : ~SomeCreatorAt(at)
    BY DEF SomeCreatorAt, Creating
  <2>2. Finishing /\ DataSound /\ db \in Tables
    BY DEF LifeInv, LifeTypes
  <2>3. db.made = "settings"
    BY <2>1, <2>2 DEF Finishing, Tables, Made
  <2>4. db.fields = "rows" <=> db.version = 3
    BY <2>1, <2>2, <2>3 DEF Finishing, DataSound
  <2> QED BY <2>2, <2>3, <2>4 DEF DataSound
<1> QED BY <1>2, <1>3, <1>4 DEF VaultSurvives

(***************************************************************************)
(* It holds of no database and of what the releases before left behind.    *)
(***************************************************************************)
LEMMA LifeInitially == InitLifecycle => LifeInv
<1> SUFFICES ASSUME InitLifecycle PROVE LifeInv
  OBVIOUS
<1>1. \A p \in Procs : proc[p] = [at |-> "start", key |-> "none", version |-> 0]
                       /\ proc[p].at = "start"
  BY DEF InitLifecycle
<1>2. proc \in ProcTypes
  <2>1. proc = [p \in Procs |-> [at |-> "start", key |-> "none", version |-> 0]]
    BY DEF InitLifecycle
  <2> QED BY <2>1 DEF ProcTypes, RunnerSteps
<1>3. \A p \in Runners : Runner(p)
  BY <1>1 DEF Runner, Runners, RunnerSteps, Past
<1>4. (\A c \in Creators : Creator(c)) /\ OneInit
  BY <1>1 DEF Creator, CreatorSteps, Beyond, OneInit, Procs
<1>5. spoiled = FALSE
  BY DEF InitLifecycle
<1>6. CASE db = Absent
  BY <1>2, <1>3, <1>4, <1>5, <1>6 DEF LifeInv, LifeTypes, InitLifecycle, Settings
<1>7. ASSUME db # Absent
      PROVE  LifeInv
  <2>1. db \in Released /\ ((db.legacy = Unset) # (db.current = Unset))
    BY <1>7 DEF InitLifecycle
  <2>2. PICK v \in 0 .. 3, old \in Settings \cup {Unset}, new \in Settings \cup {Unset} :
           db = [made |-> "settings", version |-> v, fields |-> IF v = 3 THEN "rows" ELSE "column",
                 denies |-> v >= 2, legacy |-> old, current |-> new, key |-> "old"]
    BY <2>1 DEF Released
  <2>3. /\ db.made = "settings" /\ db.version = v
        /\ db.fields = (IF v = 3 THEN "rows" ELSE "column")
        /\ db.denies = (v >= 2) /\ db.legacy = old /\ db.current = new
    BY <2>2
  <2>4. db \in Tables
    BY <2>2 DEF Tables, Made, Passwords
  <2>5. choice = IF old = Unset THEN new ELSE old
    BY <1>7, <2>3 DEF InitLifecycle
  <2>6. (old = Unset) # (new = Unset)
    BY <2>1, <2>3
  <2>7. choice \in Settings /\ Chosen
    BY <2>3, <2>5, <2>6 DEF Chosen
  <2>8. DataSound
    <3>1. v = 3 => v >= 2
      BY <2>2
    <3>2. v >= 2 => db.denies
      BY <2>3
    <3> QED BY <2>3, <2>7, <3>1, <3>2 DEF DataSound
  <2>9. Finishing
    BY <2>3 DEF Finishing
  <2> QED BY <1>2, <1>3, <1>4, <1>5, <1>7, <2>4, <2>7, <2>8, <2>9 DEF LifeInv, LifeTypes
<1> QED BY <1>6, <1>7

(***************************************************************************)
(* Process p takes another row, the others keep theirs.                    *)
(***************************************************************************)
Becomes(p, at, key, version) ==
    /\ proc' \in ProcTypes
    /\ proc'[p].at = at /\ proc'[p].key = key /\ proc'[p].version = version
    /\ \A q \in Procs \ {p} : proc'[q] = proc[q]

(***************************************************************************)
(* GoTo in these terms.                                                    *)
(***************************************************************************)
LEMMA GoToBecomes ==
    ASSUME proc \in ProcTypes, NEW p \in Procs, NEW step \in RunnerSteps \cup CreatorSteps,
           GoTo(p, step)
    PROVE  Becomes(p, step, proc[p].key, proc[p].version)
<1> DEFINE row == [proc[p] EXCEPT !.at = step]
<1>1. row = [at |-> step, key |-> proc[p].key, version |-> proc[p].version]
  <2>1. proc[p] = [at |-> proc[p].at, key |-> proc[p].key, version |-> proc[p].version]
    BY DEF ProcTypes
  <2> QED BY <2>1
<1>2. proc' = [proc EXCEPT ![p] = row]
  BY DEF GoTo, ProcTypes
<1> HIDE DEF row
<1>3. proc'[p] = row /\ \A q \in Procs \ {p} : proc'[q] = proc[q]
  BY <1>2 DEF ProcTypes
<1>4. proc' \in ProcTypes
  BY <1>1, <1>2 DEF ProcTypes
<1>5. row.at = step /\ row.key = proc[p].key /\ row.version = proc[p].version
  BY <1>1
<1> QED BY <1>3, <1>4, <1>5 DEF Becomes

(***************************************************************************)
(* The vault is closed and its key forgotten, in these terms.              *)
(***************************************************************************)
LEMMA ShutsBecomes ==
    ASSUME proc \in ProcTypes, NEW p \in Procs, NEW step \in {"serve", "done"},
           proc' = [proc EXCEPT ![p].at = step, ![p].key = "none"]
    PROVE  Becomes(p, step, "none", proc[p].version)
<1> DEFINE row == [proc[p] EXCEPT !.at = step, !.key = "none"]
<1>1. row = [at |-> step, key |-> "none", version |-> proc[p].version]
  <2> DEFINE old == proc[p]
  <2>1. old = [at |-> old.at, key |-> old.key, version |-> old.version]
    BY DEF ProcTypes
  <2>2. row = [old EXCEPT !.at = step, !.key = "none"]
    OBVIOUS
  <2> HIDE DEF old, row
  <2>3. row = [at |-> step, key |-> "none", version |-> old.version]
    BY <2>1, <2>2
  <2> QED BY <2>3 DEF old
<1>2. proc' = [proc EXCEPT ![p] = row]
  BY DEF ProcTypes
<1> HIDE DEF row
<1>3. proc'[p] = row /\ \A q \in Procs \ {p} : proc'[q] = proc[q]
  BY <1>2 DEF ProcTypes
<1>4. proc' \in ProcTypes
  BY ZenonT(90), <1>1, <1>2 DEF ProcTypes, RunnerSteps
<1>5. row.at = step /\ row.key = "none" /\ row.version = proc[p].version
  BY <1>1
<1> QED BY <1>3, <1>4, <1>5 DEF Becomes

(***************************************************************************)
(* While one process holds the lock, the others that need it stand still.  *)
(***************************************************************************)
LEMMA RunnersStay ==
    ASSUME LifeInv, NEW p \in Runners, lock = p, NEW at, NEW key, NEW version,
           Becomes(p, at, key, version), Runner(p)'
    PROVE  \A q \in Runners : Runner(q)'
<1> SUFFICES ASSUME NEW q \in Runners, q # p PROVE Runner(q)'
  OBVIOUS
<1>1. proc'[q] = proc[q]
  BY DEF Becomes, Runners
<1>2. proc[q].at \in {"start", "done"}
  BY DEF LifeInv, Runner
<1> QED BY <1>1, <1>2 DEF Runner, RunnerSteps, Past

(***************************************************************************)
(* A step of a runner leaves the inits what they rely on, if it keeps the  *)
(* stage and the fields or no init is past its schema.                     *)
(***************************************************************************)
LEMMA CreatorsStay ==
    ASSUME LifeInv, NEW p \in Runners, NEW at, NEW key, NEW version,
           Becomes(p, at, key, version), db # Absent => db' # Absent,
           \/ db'.made = db.made /\ db'.fields = db.fields /\ (db.version # 3 => db'.version # 3)
           \/ \A c \in Creators : proc[c].at \notin Beyond
    PROVE  /\ \A c \in Creators : Creator(c)'
           /\ OneInit'
           /\ \A step : SomeCreatorAt(step)' <=> SomeCreatorAt(step)
<1>1. \A c \in Creators : proc'[c] = proc[c]
  BY DEF Becomes, Runners, Procs
<1>2. \A c \in Creators : Creator(c)'
  BY <1>1 DEF LifeInv, Creator
<1>3. OneInit'
  BY <1>1 DEF LifeInv, OneInit
<1>4. \A step : SomeCreatorAt(step)' <=> SomeCreatorAt(step)
  BY <1>1 DEF SomeCreatorAt
<1> QED BY <1>2, <1>3, <1>4

(***************************************************************************)
(* A step of a runner that leaves the database.                            *)
(***************************************************************************)
LEMMA RunnerMoves ==
    ASSUME LifeInv, NEW p \in Runners, lock = p, NEW at, NEW key, NEW version,
           Becomes(p, at, key, version), Runner(p)', UNCHANGED <<db, choice, spoiled>>
    PROVE  LifeInv'
<1>1. \A q \in Runners : Runner(q)'
  BY RunnersStay
<1>2. /\ \A c \in Creators : Creator(c)'
      /\ OneInit'
      /\ \A step : SomeCreatorAt(step)' <=> SomeCreatorAt(step)
  <2>1. db'.made = db.made /\ db'.fields = db.fields /\ (db.version # 3 => db'.version # 3)
        /\ (db # Absent => db' # Absent)
    OBVIOUS
  <2> QED BY <2>1, CreatorsStay
<1>3. Finishing => Finishing'
  BY <1>2 DEF Finishing
<1>4. DataSound => DataSound'
  BY DEF DataSound, Chosen
<1>5. LifeTypes'
  BY DEF LifeInv, LifeTypes, Becomes
<1> QED BY <1>1, <1>2, <1>3, <1>4, <1>5 DEF LifeInv

(***************************************************************************)
(* A step of a runner that writes the database.                            *)
(***************************************************************************)
LEMMA RunnerWrites ==
    ASSUME LifeInv, NEW p \in Runners, lock = p, NEW at, NEW key, NEW version,
           Becomes(p, at, key, version), Runner(p)',
           db # Absent, db' \in Tables, choice' \in Settings, spoiled' \in BOOLEAN, DataSound',
           \/ db'.made = db.made /\ db'.fields = db.fields /\ (db.version # 3 => db'.version # 3)
           \/ \A c \in Creators : proc[c].at \notin Beyond,
           ~spoiled' => ~spoiled /\ (Finishing => Finishing')
    PROVE  LifeInv'
<1>1. \A q \in Runners : Runner(q)'
  BY RunnersStay
<1>2. db' # Absent
  BY DEF Absent, Tables, Made
<1>3. /\ \A c \in Creators : Creator(c)'
      /\ OneInit'
  BY <1>2, CreatorsStay
<1>4. LifeTypes'
  BY DEF LifeTypes, Becomes
<1> QED BY <1>1, <1>2, <1>3, <1>4 DEF LifeInv

(***************************************************************************)
(* A process that stands at a step of the runners is one and holds the     *)
(* lock.                                                                   *)
(***************************************************************************)
LEMMA AtSteps ==
    ASSUME LifeInv, NEW p \in Procs
    PROVE  /\ p \in Runners /\ proc[p].at \notin {"start", "done"} => lock = p
           /\ p \notin Creators => p \in Runners
           /\ p \in Creators => proc[p].at \in CreatorSteps
BY DEF LifeInv, Runner, Creator, Runners

(***************************************************************************)
(* The lock is taken, or refused.                                          *)
(***************************************************************************)
LEMMA AcquireSound ==
    ASSUME LifeInv, NEW p \in Procs, Acquire(p) \/ Refused(p)
    PROVE  LifeInv'
<1>1. p \in Runners /\ proc[p].at = "start" /\ UNCHANGED <<db, choice, spoiled, socket>>
  BY DEF Acquire, Refused, At, Runners
<1>2. CASE Acquire(p)
  <2> DEFINE step == IF p \in Agents THEN "find" ELSE "open"
  <2>1. lock = Nobody /\ lock' = p /\ GoTo(p, step) /\ step \in RunnerSteps
    BY <1>2 DEF Acquire, RunnerSteps
  <2>2. Becomes(p, step, proc[p].key, proc[p].version)
    BY <2>1, GoToBecomes DEF LifeInv, LifeTypes
  <2>3. Runner(p)'
    BY <2>1, <2>2 DEF Runner, RunnerSteps, Becomes, Past
  <2>4. \A q \in Runners : Runner(q)'
    <3> SUFFICES ASSUME NEW q \in Runners, q # p PROVE Runner(q)'
      BY <2>3
    <3>1. proc'[q] = proc[q]
      BY <2>2 DEF Becomes, Runners
    <3>2. q # Nobody
      BY LifecycleAssumption DEF Runners, Procs
    <3>3. proc[q].at \in {"start", "done"}
      BY <2>1, <3>2 DEF LifeInv, Runner
    <3> QED BY <3>1, <3>3 DEF Runner, RunnerSteps, Past
  <2> HIDE DEF step
  <2>5. /\ \A c \in Creators : Creator(c)'
        /\ OneInit'
        /\ \A at : SomeCreatorAt(at)' <=> SomeCreatorAt(at)
    <3>1. db'.made = db.made /\ db'.fields = db.fields /\ (db.version # 3 => db'.version # 3)
          /\ (db # Absent => db' # Absent)
      BY <1>1
    <3> QED BY <1>1, <2>2, <3>1, CreatorsStay
  <2>6. (Finishing => Finishing') /\ (DataSound => DataSound') /\ LifeTypes'
    BY <1>1, <2>2, <2>5 DEF Finishing, DataSound, Chosen, LifeTypes, LifeInv, Becomes
  <2> QED BY <1>1, <2>4, <2>5, <2>6 DEF LifeInv
<1>3. CASE Refused(p)
  <2>1. GoTo(p, "done") /\ lock' = lock
    BY <1>3 DEF Refused
  <2>2. Becomes(p, "done", proc[p].key, proc[p].version)
    BY <2>1, GoToBecomes DEF LifeInv, LifeTypes, RunnerSteps
  <2>4. \A q \in Runners : Runner(q)'
    <3> SUFFICES ASSUME NEW q \in Runners PROVE Runner(q)'
      OBVIOUS
    <3>1. CASE q = p
      BY <2>2, <3>1 DEF Becomes, Runner, RunnerSteps, Past
    <3>2. CASE q # p
      <4>1. proc'[q] = proc[q]
        BY <2>2, <3>2 DEF Becomes, Runners
      <4> QED BY <1>1, <2>1, <4>1 DEF LifeInv, Runner, Knows
    <3> QED BY <3>1, <3>2
  <2>5. /\ \A c \in Creators : Creator(c)'
        /\ OneInit'
        /\ \A at : SomeCreatorAt(at)' <=> SomeCreatorAt(at)
    <3>1. db'.made = db.made /\ db'.fields = db.fields /\ (db.version # 3 => db'.version # 3)
          /\ (db # Absent => db' # Absent)
      BY <1>1
    <3> QED BY <1>1, <2>2, <3>1, CreatorsStay
  <2>6. (Finishing => Finishing') /\ (DataSound => DataSound') /\ LifeTypes'
    BY <1>1, <2>2, <2>5 DEF Finishing, DataSound, Chosen, LifeTypes, LifeInv, Becomes
  <2> QED BY <1>1, <2>4, <2>5, <2>6 DEF LifeInv
<1> QED BY <1>2, <1>3

(***************************************************************************)
(* A runner that ends forgets its key.                                     *)
(***************************************************************************)
LEMMA LeaveBecomes ==
    ASSUME LifeInv, NEW p \in Runners, lock = p, Leave(p)
    PROVE  Becomes(p, "done", "none", proc[p].version) /\ Runner(p)'
<1>1. Becomes(p, "done", "none", proc[p].version)
  BY ShutsBecomes DEF Leave, LifeInv, LifeTypes, Runners
<1>2. Runner(p)'
  BY <1>1 DEF Becomes, Runner, RunnerSteps, Past
<1> QED BY <1>1, <1>2

(***************************************************************************)
(* An opening that fails: the agent serves on, the others end.             *)
(***************************************************************************)
LEMMA GiveUpSound ==
    ASSUME LifeInv, NEW p \in Runners, lock = p, GiveUp(p),
           p \in Agents => socket = p, UNCHANGED <<socket, db, choice, spoiled>>
    PROVE  LifeInv'
<1>1. CASE p \in Agents
  <2>1. Becomes(p, "serve", "none", proc[p].version) /\ lock' = lock
    BY <1>1, ShutsBecomes DEF GiveUp, LifeInv, LifeTypes, Runners
  <2>2. Runner(p)'
    BY <1>1, <2>1 DEF Becomes, Runner, RunnerSteps, Past
  <2> QED BY <2>1, <2>2, RunnerMoves
<1>2. CASE p \notin Agents
  BY <1>2, LeaveBecomes, RunnerMoves DEF GiveUp
<1> QED BY <1>1, <1>2

(***************************************************************************)
(* A runner that ends and leaves the database keeps the invariant.         *)
(***************************************************************************)
LEMMA LeaveSound ==
    ASSUME LifeInv, NEW p \in Runners, lock = p, Leave(p), UNCHANGED <<socket, db, choice, spoiled>>
    PROVE  LifeInv'
BY LeaveBecomes, RunnerMoves

(***************************************************************************)
(* A runner that goes to its next step.                                    *)
(***************************************************************************)
LEMMA GoOn ==
    ASSUME LifeInv, NEW p \in Runners, lock = p, NEW step \in RunnerSteps, GoTo(p, step)
    PROVE  Becomes(p, step, proc[p].key, proc[p].version)
BY GoToBecomes DEF LifeInv, LifeTypes, Runners

(***************************************************************************)
(* The agent looks for the database, removes a stale socket and binds.     *)
(***************************************************************************)
LEMMA AgentStartSound ==
    ASSUME LifeInv, NEW a \in Procs, AgentStart(a)
    PROVE  LifeInv'
<1>1. a \in Runners /\ lock = a
  <2>1. proc[a].at \in {"find", "unlink", "bind"}
    BY DEF AgentStart, FindDatabase, RemoveStaleSocket, Bind, At
  <2> QED BY <2>1, AtSteps DEF CreatorSteps
<1>2. CASE FindDatabase(a)
  <2>1. CASE db = Absent
    BY <1>1, <1>2, <2>1, LeaveSound DEF FindDatabase
  <2>2. CASE db # Absent
    <3>1. Becomes(a, "unlink", proc[a].key, proc[a].version) /\ lock' = lock
      BY <1>1, <1>2, <2>2, GoOn DEF FindDatabase, RunnerSteps
    <3>2. Runner(a)'
      BY <1>1, <3>1 DEF Becomes, Runner, RunnerSteps, Past
    <3> QED BY <1>1, <1>2, <3>1, <3>2, RunnerMoves DEF FindDatabase
  <2> QED BY <2>1, <2>2
<1>3. CASE RemoveStaleSocket(a)
  <2>1. Becomes(a, "bind", proc[a].key, proc[a].version) /\ lock' = lock
    BY <1>1, <1>3, GoOn DEF RemoveStaleSocket, RunnerSteps
  <2>2. Runner(a)'
    BY <1>1, <2>1 DEF Becomes, Runner, RunnerSteps, Past
  <2> QED BY <1>1, <1>3, <2>1, <2>2, RunnerMoves DEF RemoveStaleSocket
<1>4. CASE Bind(a)
  <2>1. CASE socket = Nobody
    <3>1. Becomes(a, "serve", proc[a].key, proc[a].version) /\ lock' = lock /\ socket' = a
      BY <1>1, <1>4, <2>1, GoOn DEF Bind, RunnerSteps
    <3>2. Runner(a)'
      BY <1>1, <3>1 DEF Becomes, Runner, RunnerSteps, Past
    <3> QED BY <1>1, <1>4, <3>1, <3>2, RunnerMoves DEF Bind
  <2>2. CASE socket # Nobody
    BY <1>1, <1>4, <2>2, LeaveSound DEF Bind
  <2> QED BY <2>1, <2>2
<1> QED BY <1>2, <1>3, <1>4 DEF AgentStart

(***************************************************************************)
(* The database is opened with a password, right or wrong.                 *)
(***************************************************************************)
LEMMA OpenDatabaseSound ==
    ASSUME LifeInv, NEW p \in Procs, OpenDatabase(p)
    PROVE  LifeInv'
<1>1. /\ p \in Runners /\ lock = p /\ (p \in Agents => socket = p)
      /\ UNCHANGED <<socket, db, choice, spoiled>>
  <2>1. p \notin Creators /\ proc[p].at \in {"serve", "open"}
    BY DEF OpenDatabase, Opening
  <2>2. p \in Runners
    BY <2>1 DEF Runners
  <2> QED BY <2>1, <2>2 DEF LifeInv, Runner, OpenDatabase
<1>2. PICK password \in Passwords :
         IF db # Absent /\ password = db.key
         THEN /\ proc' = [proc EXCEPT ![p] =
                     [at |-> IF db.version >= 2 THEN "require" ELSE "compat",
                      key |-> password, version |-> db.version]]
              /\ UNCHANGED lock
         ELSE GiveUp(p)
  BY DEF OpenDatabase
<1>3. CASE db # Absent /\ password = db.key
  <2> DEFINE step == IF db.version >= 2 THEN "require" ELSE "compat"
             row == [at |-> step, key |-> password, version |-> db.version]
  <2>1. proc' = [proc EXCEPT ![p] = row] /\ lock' = lock
    BY <1>2, <1>3
  <2>2. db \in Tables /\ db.version \in 0 .. 3
    BY <1>3 DEF LifeInv, LifeTypes, Tables
  <2>3. row \in [at : RunnerSteps \cup CreatorSteps, key : Passwords \cup {"none"},
                version : 0 .. 3]
    BY <2>2 DEF RunnerSteps
  <2>4. row.at = step /\ row.key = password /\ row.version = db.version
    OBVIOUS
  <2>5. (step = "require" /\ db.version >= 2) \/ (step = "compat" /\ db.version < 2)
    <3>1. CASE db.version >= 2
      BY <3>1
    <3>2. CASE ~(db.version >= 2)
      <4>1. step = "compat"
        BY <3>2
      <4>2. db.version < 2
        <5> HIDE DEF step
        <5> QED BY <2>2, <3>2
      <4> QED BY <4>1, <4>2
    <3> QED BY <3>1, <3>2
  <2> HIDE DEF row, step
  <2>6. Becomes(p, step, password, db.version)
    BY <1>1, <2>1, <2>3, <2>4 DEF Becomes, ProcTypes, LifeInv, LifeTypes
  <2>7. Runner(p)'
    BY <1>1, <1>3, <2>1, <2>5, <2>6 DEF Becomes, Runner, RunnerSteps, Past, Knows
  <2> QED BY <1>1, <2>1, <2>6, <2>7, RunnerMoves
<1>4. CASE ~(db # Absent /\ password = db.key)
  BY <1>1, <1>2, <1>4, GiveUpSound
<1> QED BY <1>3, <1>4

(***************************************************************************)
(* What is true of a process that has opened the database.                 *)
(***************************************************************************)
LEMMA KnowingRunner ==
    ASSUME LifeInv, NEW p \in Procs, proc[p].at \in Past
    PROVE  /\ p \in Runners /\ lock = p /\ (p \in Agents => socket = p) /\ Knows(p)
           /\ db # Absent /\ db \in Tables /\ DataSound
<1>1. p \in Runners
  BY AtSteps DEF Past, CreatorSteps
<1>2. lock = p /\ (p \in Agents => socket = p) /\ Knows(p)
  BY <1>1 DEF LifeInv, Runner, Past
<1> QED BY <1>1, <1>2 DEF Knows, LifeInv, LifeTypes

(***************************************************************************)
(* With the last version, or with its fields in a column, no init is under *)
(* way.                                                                    *)
(***************************************************************************)
LEMMA NoInitAtThree ==
    ASSUME LifeInv, db # Absent, db.version = 3 \/ db.fields = "column"
    PROVE  \A c \in Creators : proc[c].at \notin Beyond
BY DEF LifeInv, Creator

(***************************************************************************)
(* The migration to version 2, against an init under way.                  *)
(***************************************************************************)
LEMMA CompatSound ==
    ASSUME LifeInv, NEW p \in Procs, Compat(p)
    PROVE  LifeInv'
<1>1. /\ p \in Runners /\ lock = p /\ (p \in Agents => socket = p) /\ Knows(p)
      /\ db # Absent /\ db \in Tables /\ DataSound /\ proc[p].at = "compat"
  BY KnowingRunner DEF Compat, At, Past
<1>2. CASE db.made = "file"
  BY <1>1, <1>2, GiveUpSound DEF Compat
<1>3. CASE db.made # "file"
  <2>1. /\ db' = [db EXCEPT !.version = 2, !.denies = @ \/ db.made # "schema"]
        /\ spoiled' = (spoiled \/ db.made # "settings" \/ db.version > proc[p].version)
        /\ GoTo(p, "require") /\ UNCHANGED <<lock, socket, choice>>
    BY <1>3 DEF Compat
  <2>2. Becomes(p, "require", proc[p].key, proc[p].version)
    BY <1>1, <2>1, GoOn DEF RunnerSteps
  <2>3. db' = [made |-> db.made, version |-> 2, fields |-> db.fields,
               denies |-> db.denies \/ db.made # "schema",
               legacy |-> db.legacy, current |-> db.current, key |-> db.key]
    <3>1. db = [made |-> db.made, version |-> db.version, fields |-> db.fields,
                denies |-> db.denies,
                legacy |-> db.legacy, current |-> db.current, key |-> db.key]
      BY <1>1 DEF Tables
    <3> DEFINE denies == db.denies \/ db.made # "schema"
    <3>2. db' = [db EXCEPT !.version = 2, !.denies = denies]
      BY <2>1
    <3> HIDE DEF denies
    <3>3. db' = [made |-> db.made, version |-> 2, fields |-> db.fields, denies |-> denies,
                 legacy |-> db.legacy, current |-> db.current, key |-> db.key]
      BY <3>1, <3>2
    <3> QED BY <3>3 DEF denies
  <2>4. /\ db'.made = db.made /\ db'.version = 2 /\ db'.fields = db.fields
        /\ db'.legacy = db.legacy /\ db'.current = db.current /\ db'.key = db.key
        /\ db'.denies = (db.denies \/ db.made # "schema")
    BY <2>3
  <2>5. db' \in Tables
    BY <1>1, <2>3 DEF Tables
  <2>6. db' # Absent
    BY <2>5 DEF Absent, Tables, Made
  <2>7. Runner(p)'
    BY <1>1, <2>1, <2>2, <2>4, <2>6 DEF Becomes, Runner, RunnerSteps, Past, Knows
  <2>8. DataSound'
    <3>1. db'.made \in {"dirs", "keys", "settings"} => db'.denies
      BY <2>4
    <3>2. Chosen'
      BY <1>1, <2>1, <2>4 DEF DataSound, Chosen
    <3>3. db'.made = "file" <=> db'.fields = "column" /\ db'.made # "settings"
      BY <1>1, <2>4 DEF DataSound
    <3> QED BY <1>3, <2>4, <3>1, <3>2, <3>3 DEF DataSound
  <2>9. ~spoiled' => ~spoiled /\ db.made = "settings" /\ db.version < 2
    <3>1. db.version \in 0 .. 3 /\ proc[p].version \in 0 .. 3 /\ proc[p].version < 2
      BY <1>1 DEF Tables, Knows, LifeInv, LifeTypes, ProcTypes
    <3>2. ~spoiled' => ~spoiled /\ db.made = "settings" /\ ~(db.version > proc[p].version)
      BY <2>1
    <3> QED BY <3>1, <3>2
  <2>10. ASSUME ~spoiled' PROVE Finishing => Finishing'
    <3>1. \A at : SomeCreatorAt(at) => SomeCreatorAt(at)'
      BY <1>1, <2>2 DEF Becomes, SomeCreatorAt, Runners, Procs
    <3> QED BY <2>4, <2>9, <2>10, <3>1 DEF Finishing
  <2>11. choice' \in Settings /\ spoiled' \in BOOLEAN
    BY <2>1 DEF LifeInv, LifeTypes
  <2>12. db'.version # 3
    BY <2>4
  <2> QED BY <1>1, <2>1, <2>2, <2>4, <2>5, <2>7, <2>8, <2>9, <2>10, <2>11, <2>12, RunnerWrites
<1> QED BY <1>2, <1>3

(***************************************************************************)
(* The version is required, or migrated further.                           *)
(***************************************************************************)
LEMMA RequireSound ==
    ASSUME LifeInv, NEW p \in Procs, Require(p)
    PROVE  LifeInv'
<1>1. /\ p \in Runners /\ lock = p /\ (p \in Agents => socket = p) /\ Knows(p)
      /\ proc[p].at = "require" /\ UNCHANGED <<socket, db, choice, spoiled>>
  BY KnowingRunner DEF Require, At, Past
<1>2. ASSUME NEW step \in {"names", "fields"}, GoTo(p, step), lock' = lock,
             step = "names" => db.version = 3
      PROVE  LifeInv'
  <2>1. Becomes(p, step, proc[p].key, proc[p].version)
    BY <1>1, <1>2, GoOn DEF RunnerSteps
  <2>2. Runner(p)'
    BY <1>1, <1>2, <2>1 DEF Becomes, Runner, RunnerSteps, Past, Knows
  <2> QED BY <1>1, <1>2, <2>1, <2>2, RunnerMoves
<1>3. CASE GiveUp(p)
  BY <1>1, <1>3, GiveUpSound
<1> QED BY <1>2, <1>3 DEF Require

(***************************************************************************)
(* A database is the record of its seven fields.                           *)
(***************************************************************************)
LEMMA TablesShape ==
    ASSUME db \in Tables
    PROVE  /\ db = [made |-> db.made, version |-> db.version, fields |-> db.fields,
                    denies |-> db.denies, legacy |-> db.legacy, current |-> db.current,
                    key |-> db.key]
           /\ db.made \in Made /\ db.version \in 0 .. 3 /\ db.fields \in {"column", "rows"}
           /\ db.denies \in BOOLEAN /\ db.key \in Passwords
           /\ db.legacy \in Settings \cup {Unset} /\ db.current \in Settings \cup {Unset}
BY DEF Tables

(***************************************************************************)
(* The migration of the fields to rows.                                    *)
(***************************************************************************)
LEMMA MigrateFieldsSound ==
    ASSUME LifeInv, NEW p \in Procs, MigrateFields(p)
    PROVE  LifeInv'
<1>1. /\ p \in Runners /\ lock = p /\ (p \in Agents => socket = p) /\ Knows(p)
      /\ db # Absent /\ db \in Tables /\ DataSound /\ proc[p].at = "fields"
      /\ UNCHANGED <<socket, choice, spoiled>>
  BY KnowingRunner DEF MigrateFields, At, Past
<1>2. CASE Leave(p) /\ UNCHANGED db
  BY <1>1, <1>2, LeaveSound
<1>3. CASE /\ db.fields = "column" /\ db' = [db EXCEPT !.fields = "rows", !.version = 3]
           /\ GoTo(p, "names") /\ UNCHANGED lock
  <2>1. Becomes(p, "names", proc[p].key, proc[p].version)
    BY <1>1, <1>3, GoOn DEF RunnerSteps
  <2>2. db' = [made |-> db.made, version |-> 3, fields |-> "rows", denies |-> db.denies,
               legacy |-> db.legacy, current |-> db.current, key |-> db.key]
    BY <1>1, <1>3, TablesShape
  <2>3. /\ db'.made = db.made /\ db'.version = 3 /\ db'.fields = "rows"
        /\ db'.legacy = db.legacy /\ db'.current = db.current /\ db'.key = db.key
        /\ db'.denies = db.denies
    BY <2>2
  <2>4. db' \in Tables
    BY <1>1, <2>2, TablesShape DEF Tables
  <2>5. db' # Absent
    BY <2>4 DEF Absent, Tables, Made
  <2>6. Runner(p)'
    BY <1>1, <1>3, <2>1, <2>3, <2>5 DEF Becomes, Runner, RunnerSteps, Past, Knows
  <2>7. db.made = "settings" /\ db.denies
    BY <1>1, <1>3 DEF DataSound, Knows
  <2>8. DataSound'
    BY <1>1, <2>3, <2>7 DEF DataSound, Chosen
  <2>9. Finishing'
    BY <2>3, <2>7 DEF Finishing
  <2>10. \A c \in Creators : proc[c].at \notin Beyond
    BY <1>1, <1>3, NoInitAtThree
  <2>11. choice' \in Settings /\ spoiled' \in BOOLEAN
    BY <1>1 DEF LifeInv, LifeTypes
  <2> QED BY <1>1, <2>1, <2>4, <2>6, <2>8, <2>9, <2>10, <2>11, RunnerWrites
<1> QED BY <1>2, <1>3 DEF MigrateFields

(***************************************************************************)
(* A runner writes the settings or the key of a database of version 3.     *)
(***************************************************************************)
LEMMA CurrentWrites ==
    ASSUME LifeInv, NEW p \in Runners, lock = p, db # Absent, db \in Tables, db.version = 3,
           NEW at, NEW key, NEW version, Becomes(p, at, key, version), Runner(p)',
           NEW legacy \in Settings \cup {Unset}, NEW current \in Settings \cup {Unset},
           NEW password \in Passwords,
           db' = [made |-> db.made, version |-> 3, fields |-> db.fields, denies |-> db.denies,
                  legacy |-> legacy, current |-> current, key |-> password],
           choice' \in Settings,
           \/ current = choice' /\ legacy = Unset
           \/ current = Unset /\ legacy = choice',
           spoiled' = spoiled
    PROVE  LifeInv'
<1>1. /\ db'.made = db.made /\ db'.version = 3 /\ db'.fields = db.fields
      /\ db'.legacy = legacy /\ db'.current = current /\ db'.denies = db.denies
  OBVIOUS
<1>2. db' \in Tables
  BY TablesShape DEF Tables
<1>3. DataSound /\ db.made = "settings" /\ db.fields = "rows"
  BY DEF LifeInv, DataSound
<1>4. DataSound'
  BY <1>1, <1>3 DEF DataSound, Chosen
<1>5. Finishing'
  BY <1>1, <1>3 DEF Finishing
<1>6. \A c \in Creators : proc[c].at \notin Beyond
  BY NoInitAtThree
<1>7. spoiled' \in BOOLEAN
  BY DEF LifeInv, LifeTypes
<1> QED BY <1>2, <1>4, <1>5, <1>6, <1>7, RunnerWrites

(***************************************************************************)
(* The setting moves to its new name: the value is neither lost nor        *)
(* doubled.                                                                *)
(***************************************************************************)
LEMMA NamesSound ==
    ASSUME LifeInv, NEW p \in Procs, Names(p)
    PROVE  LifeInv'
<1>1. /\ p \in Runners /\ lock = p /\ (p \in Agents => socket = p) /\ Knows(p)
      /\ db # Absent /\ db \in Tables /\ DataSound /\ proc[p].at = "names"
      /\ GoTo(p, "defaults") /\ UNCHANGED <<lock, socket, choice, spoiled>>
  BY KnowingRunner DEF Names, At, Past
<1>2. Becomes(p, "defaults", proc[p].key, proc[p].version)
  BY <1>1, GoOn DEF RunnerSteps
<1>3. db.version = 3 /\ db.made = "settings"
  BY <1>1 DEF Knows, DataSound
<1> DEFINE current == IF db.current = Unset THEN db.legacy ELSE db.current
<1>4. db' = [made |-> db.made, version |-> 3, fields |-> db.fields, denies |-> db.denies,
             legacy |-> Unset, current |-> current, key |-> db.key]
  BY <1>1, <1>3, TablesShape DEF Names
<1>5. current = choice' /\ choice' \in Settings
  BY <1>1, <1>3 DEF DataSound, Chosen, LifeInv, LifeTypes, Settings, Unset
<1>6. db.key \in Passwords
  BY <1>1, TablesShape
<1> HIDE DEF current
<1>7. db'.key = db.key /\ db'.version = 3 /\ db'.legacy = Unset /\ db' # Absent
  BY <1>4 DEF Absent
<1>8. Runner(p)'
  BY <1>1, <1>2, <1>7 DEF Becomes, Runner, RunnerSteps, Past, Knows
<1>9. current \in Settings \cup {Unset} /\ Unset \in Settings \cup {Unset}
  BY <1>5
<1> QED BY <1>1, <1>2, <1>3, <1>4, <1>5, <1>6, <1>8, <1>9, CurrentWrites

(***************************************************************************)
(* The defaults fill what is missing, and so not the setting just moved.   *)
(***************************************************************************)
LEMMA DefaultsSound ==
    ASSUME LifeInv, NEW p \in Procs, Defaults(p)
    PROVE  LifeInv'
<1>1. /\ p \in Runners /\ lock = p /\ (p \in Agents => socket = p) /\ Knows(p)
      /\ db # Absent /\ db \in Tables /\ DataSound /\ proc[p].at = "defaults"
      /\ UNCHANGED <<socket, choice, spoiled>>
  BY KnowingRunner DEF Defaults, At, Past
<1>2. db.version = 3 /\ db.made = "settings" /\ db.legacy = Unset
  BY <1>1 DEF Knows, DataSound
<1>3. db.current = choice /\ choice \in Settings /\ choice # Unset
  BY <1>1, <1>2 DEF DataSound, Chosen, LifeInv, LifeTypes, Settings, Unset
<1>4. db' = [made |-> db.made, version |-> 3, fields |-> db.fields, denies |-> db.denies,
             legacy |-> Unset, current |-> choice, key |-> db.key]
  BY <1>1, <1>2, <1>3, TablesShape DEF Defaults
<1>5. db.key \in Passwords
  BY <1>1, TablesShape
<1>6. db'.key = db.key /\ db'.version = 3 /\ db'.legacy = Unset /\ db' # Absent
  BY <1>4 DEF Absent
<1>7. choice \in Settings \cup {Unset} /\ Unset \in Settings \cup {Unset}
  BY <1>3
<1>8. CASE p \in Migrators
  <2>1. Becomes(p, "done", "none", proc[p].version) /\ Runner(p)'
    BY <1>1, <1>8, LeaveBecomes DEF Defaults
  <2> QED BY <1>1, <1>2, <1>3, <1>4, <1>5, <1>7, <2>1, CurrentWrites
<1>9. CASE p \notin Migrators
  <2>1. Becomes(p, "opened", proc[p].key, proc[p].version) /\ lock' = lock
    BY <1>1, <1>9, GoOn DEF Defaults, RunnerSteps
  <2>2. Runner(p)'
    BY <1>1, <1>6, <2>1 DEF Becomes, Runner, RunnerSteps, Past, Knows
  <2> QED BY <1>1, <1>2, <1>3, <1>4, <1>5, <1>7, <2>1, <2>2, CurrentWrites
<1> QED BY <1>8, <1>9

(***************************************************************************)
(* The open vault: a setting is changed, the vault closed, the key         *)
(* changed.                                                                *)
(***************************************************************************)
LEMMA OpenedSound ==
    ASSUME LifeInv, NEW p \in Procs, ChangeSetting(p) \/ CloseVault(p) \/ Rekey(p)
    PROVE  LifeInv'
<1>1. /\ p \in Runners /\ lock = p /\ (p \in Agents => socket = p) /\ Knows(p)
      /\ db # Absent /\ db \in Tables /\ DataSound /\ proc[p].at = "opened"
      /\ UNCHANGED <<socket, spoiled>>
  BY KnowingRunner DEF ChangeSetting, CloseVault, Rekey, At, Past
<1>2. db.version = 3 /\ db.made = "settings" /\ db.legacy = Unset
  BY <1>1 DEF Knows, DataSound
<1>3. db.current = choice /\ choice \in Settings /\ choice # Unset
  BY <1>1, <1>2 DEF DataSound, Chosen, LifeInv, LifeTypes, Settings, Unset
<1>4. db.key \in Passwords /\ Unset \in Settings \cup {Unset}
  BY <1>1, TablesShape
<1>5. CASE ChangeSetting(p)
  <2>1. PICK v \in Settings : db' = [db EXCEPT !.current = v] /\ choice' = v
    BY <1>5 DEF ChangeSetting
  <2>2. db' = [made |-> db.made, version |-> 3, fields |-> db.fields, denies |-> db.denies,
               legacy |-> Unset, current |-> v, key |-> db.key]
    BY <1>1, <1>2, <2>1, TablesShape
  <2>3. Becomes(p, "opened", proc[p].key, proc[p].version) /\ lock' = lock
    BY <1>1, <1>5 DEF ChangeSetting, Becomes, LifeInv, LifeTypes
  <2>4. db'.key = db.key /\ db'.version = 3 /\ db'.legacy = Unset /\ db' # Absent
    BY <2>2 DEF Absent
  <2>5. Runner(p)'
    BY <1>1, <2>3, <2>4 DEF Becomes, Runner, RunnerSteps, Past, Knows
  <2> QED BY <1>1, <1>2, <1>4, <2>1, <2>2, <2>3, <2>5, CurrentWrites
<1>6. CASE CloseVault(p)
  <2>1. Becomes(p, "serve", "none", proc[p].version) /\ lock' = lock
    BY <1>1, <1>6, ShutsBecomes DEF CloseVault, LifeInv, LifeTypes
  <2>2. Runner(p)'
    BY <1>1, <2>1 DEF Becomes, Runner, RunnerSteps, Past
  <2> QED BY <1>1, <1>6, <2>1, <2>2, RunnerMoves DEF CloseVault
<1>7. CASE Rekey(p)
  <2>1. Becomes(p, "done", "none", proc[p].version) /\ Runner(p)'
    BY <1>1, <1>7, LeaveBecomes DEF Rekey
  <2>2. PICK password \in Passwords : db' = [db EXCEPT !.key = password]
    <3>1. CASE UNCHANGED db
      BY <1>1, <1>4, <3>1, TablesShape
    <3> QED BY <1>7, <3>1 DEF Rekey
  <2>3. db' = [made |-> db.made, version |-> 3, fields |-> db.fields, denies |-> db.denies,
               legacy |-> Unset, current |-> choice, key |-> password]
    BY <1>1, <1>2, <1>3, <2>2, TablesShape
  <2>4. choice' = choice
    BY <1>7 DEF Rekey
  <2> QED BY <1>1, <1>2, <1>3, <1>4, <2>1, <2>3, <2>4, CurrentWrites
<1> QED BY <1>5, <1>6, <1>7

(***************************************************************************)
(* A step of an init leaves the runners what they know: it changes neither *)
(* key nor legacy name, and takes no version back.                         *)
(***************************************************************************)
LEMMA RunnersWatch ==
    ASSUME LifeInv, NEW c \in Creators, NEW at, NEW key, NEW version,
           Becomes(c, at, key, version), socket' = socket,
           lock' = lock \/ lock' = ReleasedBy(c),
           db # Absent => /\ db' # Absent /\ db'.key = db.key /\ db'.legacy = db.legacy
                          /\ db.version >= 2 => db'.version >= 2
                          /\ db.version = 3 => db'.version = 3
    PROVE  \A q \in Runners : Runner(q)'
<1> SUFFICES ASSUME NEW q \in Runners PROVE Runner(q)'
  OBVIOUS
<1>1. q # c /\ proc'[q] = proc[q] /\ Runner(q)
  BY DEF Becomes, Runners, LifeInv
<1>2. lock = q => lock' = q
  BY <1>1 DEF ReleasedBy
<1>3. Knows(q) => Knows(q)'
  BY <1>1 DEF Knows
<1> QED BY <1>1, <1>2, <1>3 DEF Runner

(***************************************************************************)
(* A step of an init keeps the invariant.                                  *)
(***************************************************************************)
LEMMA CreatorStep ==
    ASSUME LifeInv, NEW c \in Creators, NEW at, NEW key, NEW version,
           Becomes(c, at, key, version), Creator(c)', UNCHANGED <<socket, choice>>,
           lock' = lock \/ lock' = ReleasedBy(c), spoiled' \in BOOLEAN,
           \/ db' = db
           \/ /\ db' \in Tables /\ DataSound'
              /\ db # Absent => /\ db'.key = db.key /\ db'.legacy = db.legacy
                                /\ db.version >= 2 => db'.version >= 2
                                /\ db.version = 3 => db'.version = 3
              /\ \A d \in Creators \ {c} : proc[d].at \notin Beyond,
           at \in Beyond => \A d \in Creators \ {c} : proc[d].at \notin Beyond,
           db' # Absent /\ ~spoiled' => Finishing'
    PROVE  LifeInv'
<1>1. db' \in Tables => db' # Absent
  BY DEF Absent, Tables, Made
<1>2. \A q \in Runners : Runner(q)'
  BY <1>1, RunnersWatch
<1>3. \A d \in Creators \ {c} : proc'[d] = proc[d] /\ Creator(d)
  BY DEF Becomes, Procs, LifeInv
<1>4. \A d \in Creators \ {c} : Creator(d)'
  <2> SUFFICES ASSUME NEW d \in Creators \ {c} PROVE Creator(d)'
    OBVIOUS
  <2> QED BY <1>1, <1>3 DEF Creator
<1>5. OneInit'
  BY <1>3 DEF OneInit, LifeInv, Becomes
<1>6. LifeTypes'
  BY DEF LifeTypes, LifeInv, Becomes
<1>7. db' # Absent => DataSound'
  BY DEF LifeInv, DataSound, Chosen
<1>8. db' = Absent => choice' = "default"
  BY <1>1 DEF LifeInv
<1> QED BY <1>2, <1>4, <1>5, <1>6, <1>7, <1>8 DEF LifeInv

(***************************************************************************)
(* An init that moves leaves the others where they are.                    *)
(***************************************************************************)
LEMMA OthersAt ==
    ASSUME LifeInv, NEW c \in Creators, NEW at, NEW key, NEW version,
           Becomes(c, at, key, version)
    PROVE  /\ SomeCreatorAt(at)'
           /\ \A step : SomeCreatorAt(step) /\ proc[c].at # step => SomeCreatorAt(step)'
BY DEF Becomes, SomeCreatorAt, Procs

(***************************************************************************)
(* init looks whether there is a database.                                 *)
(***************************************************************************)
LEMMA CheckAbsentSound ==
    ASSUME LifeInv, NEW c \in Procs, CheckAbsent(c)
    PROVE  LifeInv'
<1> DEFINE step == IF db = Absent THEN "file" ELSE "done"
<1>1. c \in Creators /\ proc[c].at = "start" /\ UNCHANGED <<lock, socket, db, choice, spoiled>>
  BY DEF CheckAbsent, At
<1>2. Becomes(c, step, proc[c].key, proc[c].version) /\ step \in {"file", "done"}
  BY GoToBecomes DEF CheckAbsent, LifeInv, LifeTypes, CreatorSteps
<1> HIDE DEF step
<1>3. Creator(c)'
  BY <1>2 DEF Becomes, Creator, CreatorSteps, Beyond
<1>4. Finishing => Finishing'
  BY <1>1, <1>2, OthersAt DEF Finishing
<1>5. step \notin Beyond /\ spoiled' \in BOOLEAN
  BY <1>1, <1>2 DEF Beyond, LifeInv, LifeTypes
<1> QED BY <1>1, <1>2, <1>3, <1>4, <1>5, CreatorStep DEF LifeInv

(***************************************************************************)
(* init creates the file, or finds one and tries its password on it.       *)
(***************************************************************************)
LEMMA CreateFileSound ==
    ASSUME LifeInv, NEW c \in Procs, CreateFile(c)
    PROVE  LifeInv'
<1>1. c \in Creators /\ proc[c].at = "file" /\ UNCHANGED <<lock, socket, choice, spoiled>>
  BY AtSteps DEF CreateFile, At, Runners, LifeInv, Runner, RunnerSteps
<1>2. PICK password \in Passwords :
         /\ db' = IF db = Absent THEN EmptyFile(password) ELSE db
         /\ proc' = [proc EXCEPT ![c].at = IF db'.key = password THEN "schema" ELSE "done"]
  BY DEF CreateFile
<1>3. PICK step \in {"schema", "done"} :
         GoTo(c, step) /\ (db'.key = password => step = "schema")
  BY <1>2 DEF GoTo
<1>4. Becomes(c, step, proc[c].key, proc[c].version)
  BY <1>3, GoToBecomes DEF LifeInv, LifeTypes, CreatorSteps
<1>5. /\ spoiled' \in BOOLEAN
      /\ \A at : SomeCreatorAt(at) /\ at # "file" => SomeCreatorAt(at)'
      /\ SomeCreatorAt(step)'
  <2>1. spoiled' \in BOOLEAN
    BY <1>1 DEF LifeInv, LifeTypes
  <2>2. SomeCreatorAt(step)'
    BY <1>1, <1>4, OthersAt
  <2>3. \A at : SomeCreatorAt(at) /\ at # "file" => SomeCreatorAt(at)'
    BY <1>1, <1>4, OthersAt
  <2> QED BY <2>1, <2>2, <2>3
<1>6. CASE db = Absent
  <2>1. db' = [made |-> "file", version |-> 0, fields |-> "column", denies |-> FALSE,
               legacy |-> Unset, current |-> Unset, key |-> password]
    BY <1>2, <1>6 DEF EmptyFile
  <2>2. step = "schema"
    BY <1>3, <2>1
  <2>3. db' \in Tables /\ db' # Absent
    BY <2>1 DEF Tables, Made, Absent
  <2>4. DataSound'
    BY <1>1, <1>6, <2>1 DEF DataSound, Chosen, LifeInv
  <2>5. \A d \in Creators : proc[d].at \notin Beyond
    BY <1>6 DEF LifeInv, Creator
  <2>6. Finishing'
    <3>1. db'.made = "file"
      BY <2>1
    <3>2. SomeCreatorAt("schema")'
      BY <1>5, <2>2
    <3> QED BY <3>1, <3>2 DEF Finishing
  <2>7. Creator(c)'
    BY <1>4, <2>2, <2>3 DEF Becomes, Creator, CreatorSteps, Beyond
  <2> QED BY <1>1, <1>4, <1>5, <1>6, <2>3, <2>4, <2>5, <2>6, <2>7, CreatorStep
<1>7. CASE db # Absent
  <2>1. db' = db
    BY <1>2, <1>7
  <2>2. Creator(c)'
    BY <1>3, <1>4, <1>7, <2>1 DEF Becomes, Creator, CreatorSteps, Beyond
  <2>3. Finishing => Finishing'
    BY <1>5, <2>1 DEF Finishing
  <2>4. step \notin Beyond
    BY <1>3 DEF Beyond
  <2> QED BY <1>1, <1>4, <1>5, <1>7, <2>1, <2>2, <2>3, <2>4, CreatorStep DEF LifeInv
<1> QED BY <1>6, <1>7

(***************************************************************************)
(* init writes the schema: of two inits the second fails here.             *)
(***************************************************************************)
LEMMA CreateSchemaSound ==
    ASSUME LifeInv, NEW c \in Procs, CreateSchema(c)
    PROVE  LifeInv'
<1>1. c \in Creators /\ proc[c].at = "schema" /\ UNCHANGED <<lock, socket, choice, spoiled>>
  BY AtSteps DEF CreateSchema, At, Runners, LifeInv, Runner, RunnerSteps
<1>2. db # Absent /\ db \in Tables /\ DataSound
  BY <1>1 DEF LifeInv, LifeTypes, Creator
<1>3. CASE db.made = "file"
  <2>1. Becomes(c, "dirs", proc[c].key, proc[c].version)
    BY <1>3, GoToBecomes DEF CreateSchema, LifeInv, LifeTypes, CreatorSteps
  <2>2. db' = [made |-> "schema", version |-> db.version, fields |-> "rows", denies |-> db.denies,
               legacy |-> db.legacy, current |-> db.current, key |-> db.key]
    BY <1>2, <1>3, TablesShape DEF CreateSchema
  <2>3. db' \in Tables
    BY <1>2, <2>2, TablesShape DEF Tables, Made
  <2>4. /\ db'.made = "schema" /\ db'.version = db.version /\ db'.fields = "rows"
        /\ db'.legacy = db.legacy /\ db'.current = db.current /\ db'.key = db.key
    BY <2>2
  <2>5. db.version # 3
    BY <1>2, <1>3 DEF DataSound
  <2>6. DataSound'
    BY <1>1, <1>2, <1>3, <2>4, <2>5 DEF DataSound, Chosen
  <2>7. \A d \in Creators : proc[d].at \notin Beyond
    BY <1>3 DEF LifeInv, Creator, Reached, Beyond
  <2>8. Finishing'
    BY <2>1, <2>4, OthersAt, <1>1 DEF Finishing
  <2>9. Creator(c)'
    BY <2>1, <2>3, <2>4, <2>5
       DEF Becomes, Creator, CreatorSteps, Beyond, Reached, Tables, Absent, Made
  <2>10. spoiled' \in BOOLEAN
    BY <1>1 DEF LifeInv, LifeTypes
  <2> QED BY <1>1, <2>1, <2>3, <2>4, <2>6, <2>7, <2>8, <2>9, <2>10, CreatorStep
<1>4. CASE db.made # "file"
  <2>1. Becomes(c, "done", proc[c].key, proc[c].version) /\ db' = db
    BY <1>4, GoToBecomes DEF CreateSchema, LifeInv, LifeTypes, CreatorSteps
  <2>2. Creator(c)'
    BY <2>1 DEF Becomes, Creator, CreatorSteps, Beyond
  <2>3. Finishing => Finishing'
    BY <1>1, <1>4, <2>1, OthersAt DEF Finishing
  <2>4. spoiled' \in BOOLEAN /\ "done" \notin Beyond
    BY <1>1 DEF LifeInv, LifeTypes, Beyond
  <2> QED BY <1>1, <1>2, <2>1, <2>2, <2>3, <2>4, CreatorStep DEF LifeInv
<1> QED BY <1>3, <1>4

(***************************************************************************)
(* init fills the database: directories, keys, settings, version.          *)
(***************************************************************************)
LEMMA FillSound ==
    ASSUME LifeInv, NEW c \in Procs,
           CreateDirs(c) \/ CreateKeys(c) \/ CreateSettings(c) \/ SetVersion(c)
    PROVE  LifeInv'
<1>1. /\ c \in Creators /\ proc[c].at \in Beyond
      /\ UNCHANGED <<lock, socket, choice, spoiled>>
  BY AtSteps DEF CreateDirs, CreateKeys, CreateSettings, SetVersion, At, Runners, LifeInv, Runner,
     RunnerSteps, Beyond
<1>2. /\ db # Absent /\ db \in Tables /\ DataSound /\ db.version # 3 /\ db.fields = "rows"
      /\ db.made = Reached(proc[c].at)
  BY <1>1 DEF LifeInv, LifeTypes, Creator
<1>3. \A d \in Creators \ {c} : proc[d].at \notin Beyond
  BY <1>1 DEF LifeInv, OneInit
<1>4. spoiled' \in BOOLEAN
  BY <1>1 DEF LifeInv, LifeTypes
<1>5. CASE CreateDirs(c)
  <2>1. Becomes(c, "keys", proc[c].key, proc[c].version) /\ proc[c].at = "dirs"
    BY <1>5, GoToBecomes DEF CreateDirs, At, LifeInv, LifeTypes, CreatorSteps
  <2>2. db' = [made |-> "dirs", version |-> db.version, fields |-> db.fields, denies |-> TRUE,
               legacy |-> db.legacy, current |-> db.current, key |-> db.key]
    BY <1>2, <1>5, TablesShape DEF CreateDirs
  <2>3. /\ db'.made = "dirs" /\ db'.version = db.version /\ db'.fields = "rows" /\ db'.denies
        /\ db'.legacy = db.legacy /\ db'.current = db.current /\ db'.key = db.key
    BY <1>2, <2>2
  <2>4. db' \in Tables
    BY <1>2, <2>2, TablesShape DEF Tables, Made
  <2>5. db.made = "schema"
    BY <1>2, <2>1 DEF Reached
  <2>6. DataSound' /\ Finishing'
    BY <1>1, <1>2, <2>1, <2>3, <2>5, OthersAt DEF DataSound, Chosen, Finishing
  <2>7. Creator(c)'
    BY <1>2, <2>1, <2>3, <2>4
       DEF Becomes, Creator, CreatorSteps, Beyond, Reached, Tables, Absent, Made
  <2> QED BY <1>1, <1>3, <1>4, <2>1, <2>3, <2>4, <2>6, <2>7, CreatorStep
<1>6. CASE CreateKeys(c)
  <2>1. Becomes(c, "settings", proc[c].key, proc[c].version) /\ proc[c].at = "keys"
    BY <1>6, GoToBecomes DEF CreateKeys, At, LifeInv, LifeTypes, CreatorSteps
  <2>2. db' = [made |-> "keys", version |-> db.version, fields |-> db.fields, denies |-> db.denies,
               legacy |-> db.legacy, current |-> db.current, key |-> db.key]
    BY <1>2, <1>6, TablesShape DEF CreateKeys
  <2>3. /\ db'.made = "keys" /\ db'.version = db.version /\ db'.fields = "rows"
        /\ db'.denies = db.denies
        /\ db'.legacy = db.legacy /\ db'.current = db.current /\ db'.key = db.key
    BY <1>2, <2>2
  <2>4. db' \in Tables
    BY <1>2, <2>2, TablesShape DEF Tables, Made
  <2>5. db.made = "dirs"
    BY <1>2, <2>1 DEF Reached
  <2>6. DataSound' /\ Finishing'
    BY <1>1, <1>2, <2>1, <2>3, <2>5, OthersAt DEF DataSound, Chosen, Finishing
  <2>7. Creator(c)'
    BY <1>2, <2>1, <2>3, <2>4
       DEF Becomes, Creator, CreatorSteps, Beyond, Reached, Tables, Absent, Made
  <2> QED BY <1>1, <1>3, <1>4, <2>1, <2>3, <2>4, <2>6, <2>7, CreatorStep
<1>7. CASE CreateSettings(c)
  <2>1. Becomes(c, "version", proc[c].key, proc[c].version) /\ proc[c].at = "settings"
    BY <1>7, GoToBecomes DEF CreateSettings, At, LifeInv, LifeTypes, CreatorSteps
  <2>2. db' = [made |-> "settings", version |-> db.version, fields |-> db.fields,
               denies |-> db.denies, legacy |-> db.legacy, current |-> "default", key |-> db.key]
    BY <1>2, <1>7, TablesShape DEF CreateSettings
  <2>3. /\ db'.made = "settings" /\ db'.version = db.version /\ db'.fields = "rows"
        /\ db'.denies = db.denies
        /\ db'.legacy = db.legacy /\ db'.current = "default" /\ db'.key = db.key
    BY <1>2, <2>2
  <2>4. db' \in Tables
    BY <1>2, <2>2, TablesShape DEF Tables, Made, Settings
  <2>5. db.made = "keys"
    BY <1>2, <2>1 DEF Reached
  <2>6. DataSound' /\ Finishing'
    BY <1>1, <1>2, <2>1, <2>3, <2>5, OthersAt DEF DataSound, Chosen, Finishing
  <2>7. Creator(c)'
    BY <1>2, <2>1, <2>3, <2>4
       DEF Becomes, Creator, CreatorSteps, Beyond, Reached, Tables, Absent, Made
  <2> QED BY <1>1, <1>3, <1>4, <2>1, <2>3, <2>4, <2>6, <2>7, CreatorStep
<1>8. CASE SetVersion(c)
  <2>1. Becomes(c, "done", proc[c].key, proc[c].version) /\ proc[c].at = "version"
    BY <1>8, GoToBecomes DEF SetVersion, At, LifeInv, LifeTypes, CreatorSteps
  <2>2. db' = [made |-> db.made, version |-> 3, fields |-> db.fields,
               denies |-> db.denies, legacy |-> db.legacy, current |-> db.current, key |-> db.key]
    BY <1>2, <1>8, TablesShape DEF SetVersion
  <2>3. /\ db'.made = db.made /\ db'.version = 3 /\ db'.fields = "rows"
        /\ db'.denies = db.denies
        /\ db'.legacy = db.legacy /\ db'.current = db.current /\ db'.key = db.key
    BY <1>2, <2>2
  <2>4. db' \in Tables
    BY <1>2, <2>2, TablesShape DEF Tables
  <2>5. db.made = "settings"
    BY <1>2, <2>1 DEF Reached
  <2>6. DataSound' /\ Finishing'
    BY <1>1, <1>2, <2>1, <2>3, <2>5 DEF DataSound, Chosen, Finishing
  <2>7. Creator(c)'
    BY <2>1 DEF Becomes, Creator, CreatorSteps, Beyond
  <2> QED BY <1>1, <1>3, <1>4, <2>1, <2>3, <2>4, <2>6, <2>7, CreatorStep
<1> QED BY <1>5, <1>6, <1>7, <1>8

(***************************************************************************)
(* A process is killed, at any step.                                       *)
(***************************************************************************)
LEMMA DieSound ==
    ASSUME LifeInv, NEW p \in Procs, Die(p)
    PROVE  LifeInv'
<1>1. /\ proc[p].at \notin {"start", "done"} /\ Leave(p) /\ UNCHANGED <<socket, db, choice>>
      /\ spoiled' = (spoiled \/ (p \in Creators /\ Creating(p) /\ ~At(p, "file")))
  BY DEF Die, Live, At
<1>2. CASE p \in Runners
  <2>1. lock = p /\ spoiled' = spoiled
    BY <1>1, <1>2, AtSteps DEF Runners, LifeInv, LifeTypes
  <2> QED BY <1>1, <1>2, <2>1, LeaveSound
<1>3. CASE p \in Creators
  <2>1. Becomes(p, "done", "none", proc[p].version) /\ lock' = ReleasedBy(p)
    BY <1>1, ShutsBecomes DEF Leave, LifeInv, LifeTypes
  <2>2. Creator(p)'
    BY <2>1 DEF Becomes, Creator, CreatorSteps, Beyond
  <2>3. ~spoiled' => ~spoiled /\ proc[p].at \in {"start", "file", "done"}
    BY <1>1, <1>3, AtSteps DEF Creating, At, CreatorSteps
  <2>4. ~spoiled' => (Finishing => Finishing')
    BY <1>1, <1>3, <2>1, <2>3, OthersAt DEF Finishing
  <2>5. spoiled' \in BOOLEAN /\ "done" \notin Beyond
    BY <1>1 DEF LifeInv, LifeTypes, Beyond
  <2> QED BY <1>1, <1>3, <2>1, <2>2, <2>3, <2>4, <2>5, CreatorStep DEF LifeInv
<1> QED BY <1>2, <1>3 DEF Runners

(***************************************************************************)
(* Every step of every process keeps the invariant.                        *)
(***************************************************************************)
LEMMA LifeStepKeeps ==
    ASSUME LifeInv, [NextLifecycle]_lifeVars
    PROVE  LifeInv'
<1>1. CASE NextLifecycle
  <2>1. PICK p \in Procs :
           \/ Locked(p) \/ AgentStart(p) \/ Open(p) \/ ChangeSetting(p) \/ CloseVault(p)
           \/ Rekey(p) \/ Create(p) \/ Die(p)
    BY <1>1 DEF NextLifecycle
  <2>2. Locked(p) => LifeInv'
    BY AcquireSound DEF Locked
  <2>3. Open(p) => LifeInv'
    BY OpenDatabaseSound, CompatSound, RequireSound, MigrateFieldsSound, NamesSound, DefaultsSound
       DEF Open
  <2>4. Create(p) => LifeInv'
    BY CheckAbsentSound, CreateFileSound, CreateSchemaSound, FillSound DEF Create
  <2> QED BY <2>1, <2>2, <2>3, <2>4, AgentStartSound, OpenedSound, DieSound
<1>2. CASE UNCHANGED lifeVars
  <2>1. UNCHANGED <<lock, socket, db, proc, choice, spoiled>>
    BY <1>2 DEF lifeVars
  <2>2. \A p \in Runners : Runner(p)'
    BY <2>1 DEF LifeInv, Runner, Knows
  <2>3. (\A c \in Creators : Creator(c)') /\ OneInit'
    BY <2>1 DEF LifeInv, Creator, OneInit
  <2>4. (DataSound => DataSound') /\ (Finishing => Finishing') /\ LifeTypes'
    BY <2>1 DEF LifeInv, LifeTypes, DataSound, Chosen, Finishing, SomeCreatorAt
  <2> QED BY <2>1, <2>2, <2>3, <2>4 DEF LifeInv
<1> QED BY <1>1, <1>2

(***************************************************************************)
(* The invariant holds, for any number of agents, migrations, changes of   *)
(* the password and inits, killed at any step.                             *)
(***************************************************************************)
THEOREM LifeInvariant == LifeSpec => []LifeInv
<1>1. LifeInv /\ [NextLifecycle]_lifeVars => LifeInv'
  BY LifeStepKeeps
<1> QED BY LifeInitially, <1>1, PTL DEF LifeSpec

(***************************************************************************)
(* The agent that serves is the one the listen path leads to, however many *)
(* were started, refused or killed, and an open vault is open under the    *)
(* password that encrypts it: passwd never changes it under an agent       *)
(* (lock.rs, agent.rs, passwd.rs).                                         *)
(***************************************************************************)
THEOREM LockKeeps == LifeSpec => []LockHolds
BY LifeInvariant, LifeMeans, PTL

(***************************************************************************)
(* Whoever has opened the vault finds the setting the user chose, and a    *)
(* vault that no init is making or was killed at is one the next opening   *)
(* or migration can take, wherever a migration died (db.rs, init.rs,       *)
(* migrate.rs).                                                            *)
(***************************************************************************)
THEOREM VaultStaysWhole == LifeSpec => []VaultSurvives
BY LifeInvariant, LifeMeans, PTL

-----------------------------------------------------------------------------

(***************************************************************************)
(* The password dialog. What a user can type.                              *)
(***************************************************************************)
Typed == {"right", "wrong"}

(***************************************************************************)
(* What a window sends to its handler.                                     *)
(***************************************************************************)
Outcomes == Typed \cup {"denied", "dismissed"}

(***************************************************************************)
(* The control state of a handler.                                         *)
(***************************************************************************)
Handlers == [at : {"new", "waiting", "checking"} \cup Over, checked : Nat,
             password : Typed \cup {"none"}]

(***************************************************************************)
(* The types of the state.                                                 *)
(***************************************************************************)
PromptTypes ==
    /\ handler \in [Requests -> Handlers]
    /\ outcomes \in [Requests -> Seq(Outcomes)]
    /\ feedback \in [Requests -> {"none", "empty", "incorrect", "complete", "closed"}]
    /\ window \in [Requests -> {"none", "queued", "open", "awaiting", "closed"}]
    /\ refusal \in [Requests -> BOOLEAN]

(***************************************************************************)
(* What a window that was closed has sent last: Deny if the user clicked   *)
(* it.                                                                     *)
(***************************************************************************)
LastWord(r) == IF refusal[r] THEN "denied" ELSE "dismissed"

(***************************************************************************)
(* No window has been asked for.                                           *)
(***************************************************************************)
Unseen(r) ==
    /\ window[r] = "none" /\ ~refusal[r]
    /\ outcomes[r] = <<>>

(***************************************************************************)
(* The window waits for input and the handler for its outcome: nothing is  *)
(* sent.                                                                   *)
(***************************************************************************)
Unsubmitted(r) ==
    /\ window[r] \in {"queued", "open"} /\ ~refusal[r]
    /\ handler[r].at = "waiting" /\ outcomes[r] = <<>>

(***************************************************************************)
(* A password was sent: it is in the channel, or with the handler, and the *)
(* window waits for the verdict.                                           *)
(***************************************************************************)
Unanswered(r) ==
    /\ window[r] = "awaiting" /\ ~refusal[r] /\ feedback[r] = "empty"
    /\ \/ handler[r].at = "waiting" /\ \E password \in Typed : outcomes[r] = <<password>>
       \/ handler[r].at = "checking" /\ outcomes[r] = <<>>

(***************************************************************************)
(* The password was wrong and the window has not seen the verdict yet.     *)
(***************************************************************************)
Unpolled(r) ==
    /\ window[r] = "awaiting" /\ ~refusal[r] /\ feedback[r] = "incorrect"
    /\ handler[r].at = "waiting" /\ outcomes[r] = <<>>

(***************************************************************************)
(* The window is closed: what is left in the channel ends with its last    *)
(* outcome, after at most one password.                                    *)
(***************************************************************************)
Ending(r) ==
    /\ window[r] = "closed"
    /\ \/ outcomes[r] = <<LastWord(r)>>
       \/ /\ handler[r].at = "waiting"
          /\ \E password \in Typed : outcomes[r] = <<password, LastWord(r)>>

(***************************************************************************)
(* One dialog: while its handler listens, window, channel, verdict and     *)
(* handler are in one of four states; after that no password is in the     *)
(* channel, and a refusal the user clicked was heard, or the last password *)
(* allowed was wrong.                                                      *)
(***************************************************************************)
Dialog(r) ==
    /\ handler[r].at \notin Over => handler[r].checked < MaxAttempts
    /\ handler[r].at = "new" => Unseen(r)
    /\ handler[r].at = "checking" => handler[r].password \in Typed
    /\ Listening(r) => Unsubmitted(r) \/ Unanswered(r) \/ Unpolled(r) \/ Ending(r)
    /\ handler[r].at \in Over =>
           /\ \A i \in DOMAIN outcomes[r] : outcomes[r][i] \in {"denied", "dismissed"}
           /\ refusal[r] /\ handler[r].at = "refused" => handler[r].checked = MaxAttempts

(***************************************************************************)
(* The inductive invariant of the dialogs. DialogSound speaks of handlers  *)
(* that have ended; what makes it true is that a password and the outcome  *)
(* that closes the window are never in the channel in another order, and   *)
(* never two passwords.                                                    *)
(***************************************************************************)
PromptInv == PromptTypes /\ \A r \in Requests : Dialog(r)

(***************************************************************************)
(* What Append, Head and Tail make of sequences of one and two.            *)
(***************************************************************************)
LEMMA Tuples ==
    ASSUME NEW a, NEW b
    PROVE  /\ Append(<<>>, a) = <<a>> /\ Append(<<a>>, b) = <<a, b>>
           /\ Head(<<a>>) = a /\ Head(<<a, b>>) = a
           /\ Tail(<<a>>) = <<>> /\ Tail(<<a, b>>) = <<b>>
           /\ <<a>> # <<>> /\ <<a, b>> # <<>>
           /\ \A i \in DOMAIN <<a>> : <<a>>[i] = a
<1>1. Append(<<>>, a) = <<a>> /\ Append(<<a>>, b) = <<a, b>>
  <2>1. Append(<<>>, a) = <<a>>
    OBVIOUS
  <2>2. <<a>> \in Seq({a, b}) /\ Len(<<a>>) = 1
    OBVIOUS
  <2>3. Append(<<a>>, b) \in Seq({a, b}) /\ Len(Append(<<a>>, b)) = 2
    BY <2>2
  <2>4. Append(<<a>>, b)[1] = a /\ Append(<<a>>, b)[2] = b
    BY <2>2
  <2>5. <<a, b>> \in Seq({a, b}) /\ Len(<<a, b>>) = 2 /\ <<a, b>>[1] = a /\ <<a, b>>[2] = b
    OBVIOUS
  <2>6. Append(<<a>>, b) = <<a, b>>
    <3> DEFINE s == Append(<<a>>, b)
               t == <<a, b>>
    <3>1. s \in Seq({a, b}) /\ t \in Seq({a, b}) /\ Len(s) = 2 /\ Len(t) = 2
      BY <2>3, <2>5
    <3>2. s[1] = t[1] /\ s[2] = t[2]
      BY <2>4, <2>5
    <3> HIDE DEF s, t
    <3>3. \A i \in 1..Len(s) : s[i] = t[i]
      BY <3>1, <3>2
    <3>4. s = t
      BY <3>1, <3>3, SeqEqual
    <3> QED BY <3>4 DEF s, t
  <2> QED BY <2>1, <2>6
<1>2. Head(<<a>>) = a /\ Head(<<a, b>>) = a
  OBVIOUS
<1>3. Tail(<<a>>) = <<>> 
  OBVIOUS
<1>4. Tail(<<a, b>>) = <<b>>
  OBVIOUS
<1>5. <<a>> # <<>> /\ <<a, b>> # <<>>
  OBVIOUS
<1>6. \A i \in DOMAIN <<a>> : <<a>>[i] = a
  OBVIOUS
<1> QED BY <1>1, <1>2, <1>3, <1>4, <1>5, <1>6

(***************************************************************************)
(* The other dialogs stay as they are.                                     *)
(***************************************************************************)
Others(r) ==
    \A q \in Requests \ {r} :
        /\ handler'[q] = handler[q] /\ outcomes'[q] = outcomes[q]
        /\ feedback'[q] = feedback[q] /\ window'[q] = window[q]
        /\ refusal'[q] = refusal[q]

(***************************************************************************)
(* A step of one dialog keeps the invariant if it keeps that dialog sound. *)
(***************************************************************************)
LEMMA OthersKeep ==
    ASSUME PromptInv, NEW r \in Requests, Others(r), PromptTypes', Dialog(r)'
    PROVE  PromptInv'
<1>1. ASSUME NEW q \in Requests \ {r} PROVE Dialog(q)'
  BY <1>1 DEF Others, PromptInv, Dialog, Unseen, Unsubmitted, Unanswered, Unpolled, Ending,
              LastWord, Listening
<1> QED BY <1>1 DEF PromptInv

(***************************************************************************)
(* EndAt changes where one handler is and nothing else.                    *)
(***************************************************************************)
LEMMA EndAtEnds ==
    ASSUME PromptTypes, NEW r \in Requests, NEW at \in {"new", "waiting", "checking"} \cup Over,
           EndAt(r, at)
    PROVE  /\ handler' \in [Requests -> Handlers]
           /\ handler'[r].at = at /\ handler'[r].checked = handler[r].checked
           /\ handler'[r].password = handler[r].password
           /\ \A q \in Requests \ {r} : handler'[q] = handler[q]
<1>1. handler[r] \in Handlers
  BY DEF PromptTypes
<1>2. [handler[r] EXCEPT !.at = at] \in Handlers
  BY <1>1 DEF Handlers, Over
<1> QED BY <1>1, <1>2 DEF EndAt, PromptTypes, Handlers

(***************************************************************************)
(* SendTo appends for a handler that listens, and is dropped otherwise.    *)
(***************************************************************************)
LEMMA SendToSends ==
    ASSUME PromptTypes, NEW r \in Requests, NEW outcome \in Outcomes, SendTo(r, outcome)
    PROVE  /\ outcomes' \in [Requests -> Seq(Outcomes)]
           /\ outcomes'[r] = IF Listening(r) THEN Append(outcomes[r], outcome) ELSE outcomes[r]
           /\ \A q \in Requests \ {r} : outcomes'[q] = outcomes[q]
<1>1. Append(outcomes[r], outcome) \in Seq(Outcomes)
  BY DEF PromptTypes
<1> QED BY <1>1 DEF SendTo, PromptTypes

(***************************************************************************)
(* A request arrives: refused at once, or a window is asked for.           *)
(***************************************************************************)
LEMMA ArriveSound ==
    ASSUME PromptInv, NEW r \in Requests, Arrive(r)
    PROVE  PromptInv'
<1>1. /\ handler[r].at = "new" /\ UNCHANGED <<outcomes, feedback, refusal>>
      /\ Unseen(r) /\ handler[r].checked < MaxAttempts
  BY DEF Arrive, PromptInv, Dialog, Over
<1>2. CASE EndAt(r, "lockout") /\ UNCHANGED window
  <2>1. handler' \in [Requests -> Handlers] /\ handler'[r].at = "lockout"
    BY <1>2, EndAtEnds DEF Over, PromptInv
  <2>2. Others(r) /\ PromptTypes'
    BY <1>1, <1>2, <2>1, EndAtEnds DEF Others, Over, PromptInv, PromptTypes
  <2>3. Dialog(r)'
    BY <1>1, <2>1 DEF Dialog, Over, Listening, Unseen
  <2> QED BY <2>2, <2>3, OthersKeep
<1>3. CASE EndAt(r, "waiting") /\ window' = [window EXCEPT ![r] = "queued"]
  <2>1. /\ handler'[r].at = "waiting" /\ handler'[r].checked = handler[r].checked
        /\ window'[r] = "queued"
    BY <1>3, EndAtEnds DEF PromptInv, PromptTypes
  <2>2. Others(r) /\ PromptTypes'
    BY <1>1, <1>3, EndAtEnds DEF Others, PromptInv, PromptTypes
  <2>3. Dialog(r)'
    BY <1>1, <2>1 DEF Dialog, Over, Listening, Unseen, Unsubmitted
  <2> QED BY <2>2, <2>3, OthersKeep
<1> QED BY <1>2, <1>3 DEF Arrive

(***************************************************************************)
(* The window is shown.                                                    *)
(***************************************************************************)
LEMMA PresentSound ==
    ASSUME PromptInv, NEW r \in Requests, PresentWindow(r)
    PROVE  PromptInv'
<1>1. /\ window[r] = "queued" /\ window' = [window EXCEPT ![r] = "open"]
      /\ UNCHANGED <<handler, outcomes, feedback, refusal>>
  BY DEF PresentWindow
<1>2. window'[r] = "open" /\ Others(r) /\ PromptTypes'
  BY <1>1 DEF Others, PromptInv, PromptTypes
<1>3. Dialog(r)'
  BY <1>1, <1>2 DEF Dialog, Listening, Unseen, Unsubmitted, Unanswered, Unpolled, Ending,
                    PromptInv
<1> QED BY <1>2, <1>3, OthersKeep

(***************************************************************************)
(* A window that is closed with its last outcome, whoever closes it.       *)
(***************************************************************************)
LEMMA FinishSound ==
    ASSUME PromptInv, NEW r \in Requests, NEW outcome \in {"denied", "dismissed"},
           window[r] \in {"queued", "open", "awaiting"},
           window' = [window EXCEPT ![r] = "closed"],
           refusal' \in [Requests -> BOOLEAN],
           \A q \in Requests \ {r} : refusal'[q] = refusal[q],
           Listening(r) => (refusal'[r] <=> outcome = "denied"),
           ~Listening(r) => (refusal'[r] => refusal[r]),
           SendTo(r, outcome), UNCHANGED <<handler, feedback>>
    PROVE  PromptInv'
<1>1. window'[r] = "closed" /\ outcome \in Outcomes
  BY DEF PromptInv, PromptTypes, Outcomes
<1>2. /\ outcomes' \in [Requests -> Seq(Outcomes)]
      /\ outcomes'[r] = IF Listening(r) THEN Append(outcomes[r], outcome) ELSE outcomes[r]
      /\ \A q \in Requests \ {r} : outcomes'[q] = outcomes[q]
  BY <1>1, SendToSends DEF PromptInv
<1>3. Others(r) /\ PromptTypes'
  BY <1>2 DEF Others, PromptInv, PromptTypes
<1>4. handler[r].at # "new"
  BY DEF PromptInv, Dialog, Unseen
<1>5. CASE Listening(r)
  <2>1. LastWord(r)' = outcome
    BY <1>5 DEF LastWord
  <2>2. \/ outcomes[r] = <<>>
        \/ handler[r].at = "waiting" /\ \E password \in Typed : outcomes[r] = <<password>>
    BY <1>5 DEF PromptInv, Dialog, Unsubmitted, Unanswered, Unpolled, Ending
  <2>3. outcomes'[r] = Append(outcomes[r], outcome)
    BY <1>2, <1>5
  <2>4. \/ outcomes'[r] = <<outcome>>
        \/ /\ handler[r].at = "waiting"
           /\ \E password \in Typed : outcomes'[r] = <<password, outcome>>
    <3>1. CASE outcomes[r] = <<>>
      BY <2>3, <3>1, Tuples
    <3>2. CASE handler[r].at = "waiting" /\ \E password \in Typed : outcomes[r] = <<password>>
      <4> PICK password \in Typed : outcomes[r] = <<password>>
        BY <3>2
      <4>1. outcomes'[r] = <<password, outcome>>
        BY ZenonT(90), <2>3, Tuples
      <4> QED BY <3>2, <4>1
    <3> QED BY <2>2, <3>1, <3>2
  <2>5. Ending(r)'
    BY <1>1, <2>1, <2>4 DEF Ending
  <2> QED BY <1>3, <1>4, <1>5, <2>5, OthersKeep DEF Dialog, PromptInv, Listening, Over
<1>6. CASE ~Listening(r)
  <2>1. handler[r].at \in Over
    BY <1>4, <1>6 DEF PromptInv, PromptTypes, Handlers, Listening
  <2>2. Dialog(r)'
    BY <1>1, <1>2, <1>6, <2>1 DEF Dialog, PromptInv, Listening, Over
  <2> QED BY <1>3, <2>2, OthersKeep
<1> QED BY <1>5, <1>6

(***************************************************************************)
(* Without a GUI the request is dismissed unseen.                          *)
(***************************************************************************)
LEMMA DismissSound ==
    ASSUME PromptInv, NEW r \in Requests, DismissUnseen(r)
    PROVE  PromptInv'
<1>1. Listening(r) => ~refusal[r]
  BY DEF DismissUnseen, PromptInv, Dialog, Unsubmitted, Unanswered, Unpolled, Ending
<1>2. refusal' = refusal /\ refusal \in [Requests -> BOOLEAN]
  BY DEF DismissUnseen, PromptInv, PromptTypes
<1> QED BY <1>1, <1>2, FinishSound DEF DismissUnseen

(***************************************************************************)
(* The user clicks Deny.                                                   *)
(***************************************************************************)
LEMMA DenySound ==
    ASSUME PromptInv, NEW r \in Requests, ClickDeny(r)
    PROVE  PromptInv'
<1>1. Listening(r) \in BOOLEAN
  BY DEF Listening
<1>2. /\ refusal' \in [Requests -> BOOLEAN] /\ refusal'[r] = Listening(r)
      /\ \A q \in Requests \ {r} : refusal'[q] = refusal[q]
  BY <1>1 DEF ClickDeny, PromptInv, PromptTypes
<1> QED BY <1>2, FinishSound DEF ClickDeny, Finish, Shown

(***************************************************************************)
(* The user closes the window.                                             *)
(***************************************************************************)
LEMMA CloseSound ==
    ASSUME PromptInv, NEW r \in Requests, CloseWindow(r)
    PROVE  PromptInv'
<1>1. Listening(r) => ~refusal[r]
  BY DEF CloseWindow, Shown, PromptInv, Dialog, Unsubmitted, Unanswered, Unpolled, Ending
<1>2. refusal' = refusal /\ refusal \in [Requests -> BOOLEAN]
  BY DEF CloseWindow, PromptInv, PromptTypes
<1> QED BY <1>1, <1>2, FinishSound DEF CloseWindow, Finish, Shown

(***************************************************************************)
(* A password is sent to a handler that listens.                           *)
(***************************************************************************)
LEMMA SubmitSound ==
    ASSUME PromptInv, NEW r \in Requests, NEW password \in Typed, Submit(r, password),
           UNCHANGED <<handler, refusal>>
    PROVE  PromptInv'
<1>1. /\ window'[r] = "awaiting" /\ feedback'[r] = "empty" /\ password \in Outcomes
      /\ window[r] = "open" /\ Listening(r)
  BY DEF Submit, PromptInv, PromptTypes, Outcomes
<1>2. /\ outcomes' \in [Requests -> Seq(Outcomes)]
      /\ outcomes'[r] = Append(outcomes[r], password)
      /\ \A q \in Requests \ {r} : outcomes'[q] = outcomes[q]
  BY <1>1, SendToSends DEF PromptInv, Submit
<1>3. Others(r) /\ PromptTypes'
  BY <1>2 DEF Submit, Others, PromptInv, PromptTypes
<1>4. handler[r].at = "waiting" /\ outcomes[r] = <<>> /\ ~refusal[r]
  BY <1>1 DEF PromptInv, Dialog, Unsubmitted, Unanswered, Unpolled, Ending
<1>5. outcomes'[r] = <<password>>
  BY <1>2, <1>4, Tuples
<1>6. Unanswered(r)'
  BY <1>1, <1>4, <1>5 DEF Unanswered
<1>7. Dialog(r)'
  BY <1>4, <1>6 DEF Dialog, Listening, Over, PromptInv
<1> QED BY <1>3, <1>7, OthersKeep

(***************************************************************************)
(* A password for a handler that has ended is not sent.                    *)
(***************************************************************************)
LEMMA ToNobodySound ==
    ASSUME PromptInv, NEW r \in Requests, NEW then \in {"closed", "awaiting"},
           SubmitToNobody(r, then), UNCHANGED <<handler, refusal>>
    PROVE  PromptInv'
<1>1. Others(r) /\ PromptTypes'
  BY DEF SubmitToNobody, Others, PromptInv, PromptTypes
<1>2. handler[r].at \in Over
  BY DEF SubmitToNobody, Listening, PromptInv, PromptTypes, Handlers, Dialog, Unseen
<1>3. Dialog(r)'
  BY <1>2 DEF SubmitToNobody, Dialog, Listening, Over, PromptInv
<1> QED BY <1>1, <1>3, OthersKeep

(***************************************************************************)
(* The window sees the verdict.                                            *)
(***************************************************************************)
LEMMA PollSound ==
    ASSUME PromptInv, NEW r \in Requests, PollFeedback(r)
    PROVE  PromptInv'
<1> DEFINE then == IF feedback[r] = "incorrect" THEN "open" ELSE "closed"
<1>1. /\ window[r] = "awaiting" /\ feedback[r] \in {"incorrect", "complete", "closed"}
      /\ window' = [window EXCEPT ![r] = then] /\ then \in {"open", "closed"}
      /\ feedback[r] = "incorrect" => then = "open"
      /\ feedback' = [feedback EXCEPT ![r] = "none"]
      /\ UNCHANGED <<handler, outcomes, refusal>>
  BY DEF PollFeedback
<1> HIDE DEF then
<1>2. window'[r] = then /\ Others(r) /\ PromptTypes'
  BY <1>1 DEF Others, PromptInv, PromptTypes
<1>3. handler[r].at # "new" /\ (Listening(r) => Unpolled(r))
  BY <1>1 DEF PromptInv, Dialog, Unseen, Unsubmitted, Unanswered, Ending
<1>4. Listening(r) => Unsubmitted(r)'
  BY <1>1, <1>2, <1>3 DEF Unpolled, Unsubmitted
<1>5. Dialog(r)'
  BY <1>1, <1>3, <1>4 DEF Dialog, PromptInv, Listening, Over
<1> QED BY <1>2, <1>5, OthersKeep

(***************************************************************************)
(* The handler takes an outcome from the channel.                          *)
(***************************************************************************)
LEMMA TakeSound ==
    ASSUME PromptInv, NEW r \in Requests, TakeOutcome(r)
    PROVE  PromptInv'
<1>1. /\ handler[r].at = "waiting" /\ UNCHANGED <<feedback, window, refusal>>
      /\ outcomes' = [outcomes EXCEPT ![r] = IF @ = <<>> THEN @ ELSE Tail(@)]
  BY DEF TakeOutcome
<1>2. outcomes[r] # <<>>
  BY DEF TakeOutcome, PromptInv, Dialog, Listening, Unsubmitted, Unanswered, Unpolled, Ending, Over
<1>3. Tail(outcomes[r]) \in Seq(Outcomes) /\ Head(outcomes[r]) \in Outcomes
  BY <1>2 DEF PromptInv, PromptTypes
<1>4. /\ outcomes' \in [Requests -> Seq(Outcomes)] /\ outcomes'[r] = Tail(outcomes[r])
      /\ \A q \in Requests \ {r} : outcomes'[q] = outcomes[q]
  BY <1>1, <1>2, <1>3 DEF PromptInv, PromptTypes
<1>5. handler[r].checked < MaxAttempts
  BY <1>1 DEF PromptInv, Dialog, Over
<1>6. CASE Head(outcomes[r]) \in {"denied", "dismissed"}
  <2> DEFINE at == IF Head(outcomes[r]) = "denied" THEN "lockout" ELSE "refused"
  <2>1. EndAt(r, at) /\ at \in Over
    BY <1>2, <1>6 DEF TakeOutcome, NextOutcome, Over
  <2>2. /\ handler' \in [Requests -> Handlers] /\ handler'[r].at = at
        /\ \A q \in Requests \ {r} : handler'[q] = handler[q]
    BY <2>1, EndAtEnds DEF PromptInv
  <2>3. Others(r) /\ PromptTypes'
    BY <1>1, <1>4, <2>2 DEF Others, PromptInv, PromptTypes
  <2>4. window[r] = "closed" /\ outcomes[r] = <<LastWord(r)>>
    <3>1. Unanswered(r) => \E password \in Typed : Head(outcomes[r]) = password
      BY <1>1, Tuples DEF Unanswered
    <3>2. /\ Ending(r) => window[r] = "closed"
          /\ Ending(r) => \/ outcomes[r] = <<LastWord(r)>>
                          \/ \E password \in Typed : Head(outcomes[r]) = password
      BY <1>1, Tuples DEF Ending
    <3> QED BY <1>1, <1>2, <1>6, <3>1, <3>2
            DEF PromptInv, Dialog, Listening, Unsubmitted, Unpolled, Typed
  <2>5. outcomes'[r] = <<>> /\ Head(outcomes[r]) = LastWord(r)
    BY <1>4, <2>4, Tuples
  <2>6. refusal[r] => at = "lockout"
    BY <2>5 DEF LastWord
  <2> HIDE DEF at
  <2>7. Dialog(r)'
    BY <1>1, <2>1, <2>2, <2>5, <2>6 DEF Dialog, Listening, Over
  <2> QED BY <2>3, <2>7, OthersKeep
<1>7. CASE Head(outcomes[r]) \in Typed
  <2> DEFINE password == Head(outcomes[r])
             now == [handler[r] EXCEPT !.at = "checking", !.password = password]
  <2>1. handler' = [handler EXCEPT ![r] = now]
    BY <1>2, <1>7 DEF TakeOutcome, NextOutcome, Typed
  <2>2. /\ now \in Handlers /\ now.at = "checking" /\ now.password \in Typed
        /\ now.checked = handler[r].checked
    BY <1>7 DEF PromptInv, PromptTypes, Handlers
  <2> HIDE DEF now
  <2>3. /\ handler' \in [Requests -> Handlers] /\ handler'[r] = now
        /\ \A q \in Requests \ {r} : handler'[q] = handler[q]
    BY <2>1, <2>2 DEF PromptInv, PromptTypes
  <2>4. Others(r) /\ PromptTypes'
    BY <1>1, <1>4, <2>3 DEF Others, PromptInv, PromptTypes
  <2>5. Unanswered(r) => Unanswered(r)'
    <3> SUFFICES ASSUME Unanswered(r) PROVE Unanswered(r)'
      OBVIOUS
    <3> PICK typed \in Typed : outcomes[r] = <<typed>>
      BY <1>1 DEF Unanswered
    <3>1. outcomes'[r] = <<>>
      BY <1>4, Tuples
    <3> QED BY <1>1, <2>2, <2>3, <3>1 DEF Unanswered
  <2>6. Ending(r) => Ending(r)'
    <3> SUFFICES ASSUME Ending(r) PROVE Ending(r)'
      OBVIOUS
    <3>1. outcomes[r] # <<LastWord(r)>>
      BY <1>7, Tuples DEF Typed, LastWord
    <3> PICK typed \in Typed : outcomes[r] = <<typed, LastWord(r)>>
      BY <3>1 DEF Ending
    <3>2. outcomes'[r] = <<LastWord(r)>>
      BY <1>4, Tuples
    <3> QED BY <1>1, <3>2 DEF Ending, LastWord
  <2>7. Unanswered(r) \/ Ending(r)
    BY <1>1, <1>2 DEF PromptInv, Dialog, Listening, Unsubmitted, Unpolled
  <2>8. Dialog(r)'
    BY <1>5, <2>2, <2>3, <2>5, <2>6, <2>7 DEF Dialog, Listening, Over
  <2> QED BY <2>4, <2>8, OthersKeep
<1> QED BY <1>3, <1>6, <1>7 DEF Outcomes

(***************************************************************************)
(* A handler with another count of attempts and another place.             *)
(***************************************************************************)
LEMMA Counted ==
    ASSUME NEW h \in Handlers, NEW at, NEW n
    PROVE  [h EXCEPT !.checked = n, !.at = at]
               = [at |-> at, checked |-> n, password |-> h.password]
<1>1. h = [at |-> h.at, checked |-> h.checked, password |-> h.password]
  BY DEF Handlers
<1> DEFINE g == [h EXCEPT !.checked = n, !.at = at]
<1>2. DOMAIN g = {"at", "checked", "password"}
  BY <1>1
<1>3. g.at = at /\ g.checked = n /\ g.password = h.password
  BY <1>1
<1>4. g = [x \in {"at", "checked", "password"} |-> g[x]]
  BY <1>2
<1> HIDE DEF g
<1>5. g = [at |-> at, checked |-> n, password |-> h.password]
  BY <1>3, <1>4
<1> QED BY <1>5 DEF g

(***************************************************************************)
(* The verdict on a password: right, wrong, or wrong for the last time.    *)
(***************************************************************************)
LEMMA CheckSound ==
    ASSUME PromptInv, NEW r \in Requests, CheckPassword(r)
    PROVE  PromptInv'
<1>1. handler[r].at = "checking" /\ UNCHANGED <<outcomes, window, refusal>>
  BY DEF CheckPassword
<1>2. /\ handler[r] \in Handlers /\ handler[r].checked \in Nat
      /\ handler[r].checked < MaxAttempts
  BY <1>1 DEF PromptInv, Dialog, Over, PromptTypes, Handlers
<1>3. /\ \/ window[r] = "awaiting" /\ ~refusal[r] /\ outcomes[r] = <<>>
         \/ window[r] = "closed" /\ outcomes[r] = <<LastWord(r)>>
      /\ \A i \in DOMAIN outcomes[r] : outcomes[r][i] \in {"denied", "dismissed"}
  <2>1. Unanswered(r) \/ Ending(r)
    BY <1>1 DEF PromptInv, Dialog, Listening, Unsubmitted, Unpolled
  <2>2. \/ window[r] = "awaiting" /\ ~refusal[r] /\ outcomes[r] = <<>>
        \/ window[r] = "closed" /\ outcomes[r] = <<LastWord(r)>>
    BY <1>1, <2>1 DEF Unanswered, Ending
  <2>3. \A i \in DOMAIN outcomes[r] : outcomes[r][i] \in {"denied", "dismissed"}
    <3>1. CASE outcomes[r] = <<>>
      BY <3>1
    <3>2. CASE outcomes[r] = <<LastWord(r)>>
      BY <3>2, Tuples DEF LastWord
    <3> QED BY <2>2, <3>1, <3>2
  <2> QED BY <2>2, <2>3
<1>4. CASE EndAt(r, "allowed") /\ feedback' = [feedback EXCEPT ![r] = "complete"]
  <2>1. /\ handler' \in [Requests -> Handlers] /\ handler'[r].at = "allowed"
        /\ \A q \in Requests \ {r} : handler'[q] = handler[q]
    BY <1>4, EndAtEnds DEF PromptInv, Over
  <2>2. Others(r) /\ PromptTypes'
    BY <1>1, <1>4, <2>1 DEF Others, PromptInv, PromptTypes
  <2>3. Dialog(r)'
    BY <1>1, <1>3, <2>1 DEF Dialog, Listening, Over
  <2> QED BY <2>2, <2>3, OthersKeep
<1>5. ASSUME handler[r].password = "wrong",
             handler' = [handler EXCEPT ![r].checked = @ + 1,
                                       ![r].at = IF LastTry(r) THEN "refused" ELSE "waiting"],
             feedback' = [feedback EXCEPT ![r] = IF LastTry(r) THEN "complete" ELSE "incorrect"]
      PROVE  PromptInv'
  <2> DEFINE at == IF LastTry(r) THEN "refused" ELSE "waiting"
             now == [handler[r] EXCEPT !.checked = @ + 1, !.at = at]
             told == IF LastTry(r) THEN "complete" ELSE "incorrect"
  <2>1. handler' = [handler EXCEPT ![r] = now] /\ feedback' = [feedback EXCEPT ![r] = told]
    BY <1>5
  <2>2. /\ now \in Handlers /\ now.at = at /\ now.checked = handler[r].checked + 1
    <3>1. at \in {"waiting"} \cup Over
      BY DEF Over
    <3> HIDE DEF at
    <3>2. /\ handler[r] \in [at : {"new", "waiting", "checking"} \cup Over, checked : Nat,
                             password : Typed \cup {"none"}]
          /\ handler[r].checked + 1 \in Nat
      BY <1>2 DEF Handlers
    <3>3. now = [at |-> at, checked |-> handler[r].checked + 1, password |-> handler[r].password]
      BY <3>2, Counted DEF Handlers
    <3> QED BY <3>1, <3>2, <3>3 DEF Handlers
  <2>3. \/ at = "refused" /\ told = "complete" /\ LastTry(r)
        \/ at = "waiting" /\ told = "incorrect" /\ ~LastTry(r)
    OBVIOUS
  <2> HIDE DEF now, at, told
  <2>4. /\ handler' \in [Requests -> Handlers] /\ handler'[r] = now
        /\ \A q \in Requests \ {r} : handler'[q] = handler[q]
    BY <2>1, <2>2 DEF PromptInv, PromptTypes
  <2>5. feedback'[r] = told
    BY <2>1 DEF PromptInv, PromptTypes
  <2>6. Others(r) /\ PromptTypes'
    BY <1>1, <2>1, <2>3, <2>4 DEF Others, PromptInv, PromptTypes
  <2>7. LastTry(r) <=> now.checked = MaxAttempts
    BY <1>2, <2>2, PromptAssumption DEF LastTry
  <2>8. ~LastTry(r) => now.checked < MaxAttempts
    BY <1>2, <2>2, PromptAssumption DEF LastTry
  <2>9. at = "waiting" => Unpolled(r)' \/ Ending(r)'
    <3>1. LastWord(r)' = LastWord(r)
      BY <1>1 DEF LastWord
    <3> QED BY <1>1, <1>3, <2>2, <2>3, <2>4, <2>5, <3>1 DEF Unpolled, Ending
  <2>10. Dialog(r)'
    BY <1>1, <1>3, <2>2, <2>3, <2>4, <2>7, <2>8, <2>9 DEF Dialog, Listening, Over
  <2> QED BY <2>6, <2>10, OthersKeep
<1> QED BY <1>4, <1>5 DEF CheckPassword

(***************************************************************************)
(* The client goes away and its handler with it.                           *)
(***************************************************************************)
LEMMA DisconnectSound ==
    ASSUME PromptInv, NEW r \in Requests, Disconnect(r)
    PROVE  PromptInv'
<1> DEFINE told == IF feedback[r] = "empty" THEN "closed" ELSE feedback[r]
<1>1. /\ EndAt(r, "gone") /\ outcomes' = [outcomes EXCEPT ![r] = <<>>]
      /\ feedback' = [feedback EXCEPT ![r] = told] /\ UNCHANGED <<window, refusal>>
  BY DEF Disconnect
<1>2. /\ handler' \in [Requests -> Handlers] /\ handler'[r].at = "gone"
      /\ \A q \in Requests \ {r} : handler'[q] = handler[q]
  BY <1>1, EndAtEnds DEF PromptInv, Over
<1>3. told \in {"none", "empty", "incorrect", "complete", "closed"}
  BY DEF PromptInv, PromptTypes
<1> HIDE DEF told
<1>4. outcomes'[r] = <<>>
  BY <1>1 DEF PromptInv, PromptTypes
<1>5. Others(r) /\ PromptTypes'
  <2>1. /\ feedback' \in [Requests -> {"none", "empty", "incorrect", "complete", "closed"}]
        /\ \A q \in Requests \ {r} : feedback'[q] = feedback[q]
    BY <1>1, <1>3 DEF PromptInv, PromptTypes
  <2>2. /\ outcomes' \in [Requests -> Seq(Outcomes)]
        /\ \A q \in Requests \ {r} : outcomes'[q] = outcomes[q]
    BY <1>1 DEF PromptInv, PromptTypes
  <2> QED BY <1>1, <1>2, <2>1, <2>2 DEF Others, PromptInv, PromptTypes
<1>6. Dialog(r)'
  BY <1>2, <1>4 DEF Dialog, Listening, Over
<1> QED BY <1>5, <1>6, OthersKeep

(***************************************************************************)
(* Every step of every dialog keeps the invariant.                         *)
(***************************************************************************)
LEMMA PromptStepKeeps ==
    ASSUME PromptInv, [NextPrompt]_promptVars
    PROVE  PromptInv'
<1>1. CASE UNCHANGED promptVars
  BY <1>1 DEF promptVars, PromptInv, PromptTypes, Dialog, Unseen, Unsubmitted, Unanswered,
              Unpolled, Ending, LastWord, Listening
<1>2. ASSUME NEW r \in Requests, NEW password \in Typed,
             SubmitGtk(r, password) \/ SubmitAppKit(r, password) \/ SubmitQt(r, password)
      PROVE  PromptInv'
  BY <1>2, SubmitSound, ToNobodySound DEF SubmitGtk, SubmitAppKit, SubmitQt
<1>3. ASSUME NEW r \in Requests, Person(r)
      PROVE  PromptInv'
  BY <1>2, <1>3, DenySound, CloseSound DEF Person, Typed
<1>4. ASSUME NEW r \in Requests, Threads(r)
      PROVE  PromptInv'
  BY <1>4, PresentSound, DismissSound, PollSound, TakeSound, CheckSound DEF Threads
<1> QED BY <1>1, <1>3, <1>4, ArriveSound, DisconnectSound DEF NextPrompt

(***************************************************************************)
(* It holds before the first request.                                      *)
(***************************************************************************)
LEMMA PromptInitially ==
    ASSUME InitPrompt
    PROVE  PromptInv
BY PromptAssumption
   DEF InitPrompt, PromptInv, PromptTypes, Handlers, Dialog, Unseen, Listening, Over

(***************************************************************************)
(* A user who clicks Deny while the request is there is heard, and no      *)
(* password is left unread in a channel, for every build, any number of    *)
(* requests and every limit of the attempts (gui_auth.rs, controller.rs).  *)
(***************************************************************************)
THEOREM DialogStaysSound == PromptSpec => []DialogSound
<1>1. PromptInv => DialogSound
  BY DEF PromptInv, Dialog, DialogSound, DenyWins, NoPasswordUnread, Over
<1> QED BY <1>1, PromptInitially, PromptStepKeeps, PTL DEF PromptSpec

-----------------------------------------------------------------------------

(***************************************************************************)
(* The gate. The hashes of the peers, under every identification type.     *)
(***************************************************************************)
Hashes == {ScopeHash(peer, type) : peer \in Peers, type \in Types}

(***************************************************************************)
(* What can be in the table of who may enter.                              *)
(***************************************************************************)
GateEntries == AccessScopes \X Hashes \X Nat

(***************************************************************************)
(* The types of the state.                                                 *)
(***************************************************************************)
GateTypes ==
    /\ vault \in [old : BOOLEAN, type : Types, trusted : SUBSET {"tool"}]
    /\ gate \in [open : BOOLEAN, needed : BOOLEAN, type : Types, allowed : SUBSET GateEntries,
                 latest : Nat]
    /\ time \in Nat

(***************************************************************************)
(* Every entry that is live has a grant that stands: the same scope and    *)
(* hash, given at the same time, with the right password and by one who    *)
(* may.                                                                    *)
(***************************************************************************)
EntriesGranted ==
    \A entry \in gate.allowed : IsLive(entry) =>
        \E g \in grants : /\ g.scope = entry[1] /\ g.hash = entry[2] /\ g.at = entry[3]
                          /\ g.sound

(***************************************************************************)
(* No entry is from the future, and none outlives the latest expiry.       *)
(***************************************************************************)
EntriesEnd ==
    \A entry \in gate.allowed :
        /\ entry[3] <= time
        /\ entry[3] + Duration[entry[1]] <= gate.latest

(***************************************************************************)
(* The inductive invariant of the gate. That a request let in had a grant  *)
(* is no invariant by itself: the code looks at its table, so the table    *)
(* must follow the grants through every unlock, lock, change of type and   *)
(* sweep.                                                                  *)
(***************************************************************************)
GateInv == GateTypes /\ EntriesGranted /\ EntriesEnd /\ EntryIsGranted

-----------------------------------------------------------------------------

(***************************************************************************)
(* A set of numbers that is bounded and not empty has a greatest: the      *)
(* latest expiry.                                                          *)
(***************************************************************************)
LEMMA SomeLatest ==
    ASSUME NEW ends \in SUBSET Nat, ends # {}, NEW bound \in Nat, \A u \in ends : u <= bound
    PROVE  \E t \in ends : \A u \in ends : u <= t
<1> DEFINE above == {n \in Nat : \A u \in ends : u <= n}
<1>1. above \subseteq Nat /\ above # {}
  OBVIOUS
<1> HIDE DEF above
<1>2. PICK least \in above : \A n \in above : ~(<<n, least>> \in OpToRel(<, Nat))
  BY <1>1, NatLessThanWellFounded, WFMin
<1>3. least \in Nat /\ \A u \in ends : u <= least
  BY DEF above
<1>4. \A n \in above : ~(n < least)
  BY <1>1, <1>2, <1>3 DEF OpToRel
<1>5. CASE least = 0
  <2>1. \A u \in ends : u = least
    BY <1>3, <1>5
  <2> QED BY <1>3, <2>1
<1>6. CASE least # 0
  <2>1. least - 1 \in Nat /\ least - 1 < least
    BY <1>3, <1>6
  <2>2. least - 1 \notin above
    BY <1>4, <2>1
  <2>3. PICK u \in ends : ~(u <= least - 1)
    BY <2>1, <2>2 DEF above
  <2>4. u = least
    BY <1>3, <2>1, <2>3
  <2> QED BY <1>3, <2>4
<1> QED BY <1>5, <1>6

(***************************************************************************)
(* The parts of an entry.                                                  *)
(***************************************************************************)
LEMMA EntryParts ==
    ASSUME NEW entry \in GateEntries
    PROVE  /\ entry[1] \in AccessScopes /\ entry[2] \in Hashes /\ entry[3] \in Nat
           /\ entry = <<entry[1], entry[2], entry[3]>> /\ Duration[entry[1]] \in Nat
BY GateAssumption DEF GateEntries, AccessScopes

(***************************************************************************)
(* A gate that has forgotten every entry.                                  *)
(***************************************************************************)
LEMMA Forgotten ==
    ASSUME GateTypes, NEW latest \in Nat, NEW open \in BOOLEAN, NEW type \in Types
    PROVE  /\ [ForgetAll(gate) EXCEPT !.latest = latest] \in [open : BOOLEAN, needed : BOOLEAN,
                  type : Types, allowed : SUBSET GateEntries, latest : Nat]
           /\ [ForgetAll(gate) EXCEPT !.latest = latest].allowed = {}
           /\ [ForgetAll(gate) EXCEPT !.type = type] \in [open : BOOLEAN, needed : BOOLEAN,
                  type : Types, allowed : SUBSET GateEntries, latest : Nat]
           /\ [ForgetAll(gate) EXCEPT !.type = type].allowed = {}
           /\ [ForgetAll(gate) EXCEPT !.open = open] \in [open : BOOLEAN, needed : BOOLEAN,
                  type : Types, allowed : SUBSET GateEntries, latest : Nat]
           /\ [ForgetAll(gate) EXCEPT !.open = open].allowed = {}
BY DEF GateTypes, ForgetAll

(***************************************************************************)
(* Another identification type takes every entry away.                     *)
(***************************************************************************)
LEMMA TypeSet ==
    ASSUME GateTypes, NEW type \in Types
    PROVE  LET published == SetProcessIdentificationType(gate, type)
           IN  /\ published \in [open : BOOLEAN, needed : BOOLEAN, type : Types,
                                 allowed : SUBSET GateEntries, latest : Nat]
               /\ published.type = type
               /\ \/ published = gate /\ gate.type = type
                  \/ gate.type # type /\ published.allowed = {}
<1>1. CASE gate.type = type
  BY <1>1 DEF SetProcessIdentificationType, GateTypes
<1>2. CASE gate.type # type
  BY <1>2, Forgotten DEF SetProcessIdentificationType, GateTypes, ForgetAll
<1> QED BY <1>1, <1>2

(***************************************************************************)
(* An unlock: the entry and its grant are of the same time.                *)
(***************************************************************************)
LEMMA UnlockSound ==
    ASSUME GateInv, Unlock
    PROVE  GateInv'
<1>1. PICK peer \in Peers, way \in {"gui", "direct"}, capable \in BOOLEAN,
           scope \in AccessScopes, password \in {"right", "wrong"} :
         UnlockAt(peer, way, capable, scope, password)
  BY DEF Unlock
<1>2. UNCHANGED <<vault, time>> /\ EntryIsGranted'
  BY DEF Unlock, EntryIsGranted, NobodyIn
<1> DEFINE type   == IF gate.open THEN gate.type ELSE vault.type
           hash   == ScopeHash(peer, type)
           before == SetProcessIdentificationType(gate, type)
           status == UnlockStatus(peer, way, capable, scope, password)
           sound  == password = "right" /\ (way = "gui" \/ IsTrusted(peer))
           latest == Later(before.latest, time + Duration[scope])
           new    == [scope |-> scope, hash |-> hash, at |-> time, sound |-> sound]
           after  == [before EXCEPT !.open = TRUE, !.allowed = Renewed(@, scope, hash),
                                    !.latest = latest]
<1>3. \/ /\ status = "ok" /\ gate' = after
         /\ grants' = {g \in grants : /\ before.type = gate.type
                                     /\ (g.scope # scope \/ g.hash # hash)} \cup {new}
      \/ gate' = [gate EXCEPT !.needed = TRUE] /\ grants' = grants
  BY <1>1 DEF UnlockAt
<1>4. type \in Types
  BY DEF GateInv, GateTypes
<1>5. status = "ok" => sound
  BY DEF UnlockStatus
<1>6. hash \in Hashes
  BY <1>4 DEF Hashes
<1> HIDE DEF type, status, sound, new, hash
<1>7. /\ before \in [open : BOOLEAN, needed : BOOLEAN, type : Types, allowed : SUBSET GateEntries,
                     latest : Nat]
      /\ before.type = type
      /\ \/ before = gate
         \/ gate.type # type /\ before.allowed = {}
  <2>1. GateTypes
    BY DEF GateInv
  <2>2. /\ before \in [open : BOOLEAN, needed : BOOLEAN, type : Types,
                       allowed : SUBSET GateEntries, latest : Nat]
        /\ before.type = type
        /\ \/ before = gate /\ gate.type = type
           \/ gate.type # type /\ before.allowed = {}
    BY <1>4, <2>1, TypeSet
  <2> HIDE DEF before
  <2> QED BY <2>2
<1> HIDE DEF before
<1>8. ASSUME status = "ok", gate' = after,
             grants' = {g \in grants : /\ before.type = gate.type
                                      /\ (g.scope # scope \/ g.hash # hash)} \cup {new}
      PROVE  GateInv'
  <2>1. time \in Nat /\ Duration[scope] \in Nat /\ before.latest \in Nat
    BY <1>7, GateAssumption DEF GateInv, GateTypes, AccessScopes
  <2>2. latest \in Nat /\ latest >= before.latest /\ latest >= time + Duration[scope]
    BY <2>1 DEF Later
  <2> HIDE DEF latest
  <2> DEFINE allowed == Renewed(before.allowed, scope, hash)
  <2>3. allowed \in SUBSET GateEntries
    BY <1>6, <1>7, <2>1 DEF Renewed, GateEntries
  <2>4. \A entry \in allowed : \/ entry = <<scope, hash, time>>
                               \/ /\ entry \in before.allowed
                                  /\ entry[1] # scope \/ entry[2] # hash
    BY DEF Renewed
  <2> HIDE DEF allowed
  <2>5. after \in [open : BOOLEAN, needed : BOOLEAN, type : Types, allowed : SUBSET GateEntries,
                   latest : Nat]
        /\ after.allowed = allowed /\ after.latest = latest
    BY <1>7, <2>2, <2>3 DEF allowed
  <2> HIDE DEF after
  <2>6. GateTypes'
    BY <1>2, <1>8, <2>5 DEF GateInv, GateTypes
  <2>7. ASSUME NEW entry \in before.allowed
        PROVE  before = gate /\ entry \in gate.allowed /\ entry \in GateEntries
    BY <1>7, <2>7
  <2>8. EntriesEnd'
    <3> SUFFICES ASSUME NEW entry \in allowed
                 PROVE  entry[3] <= time /\ entry[3] + Duration[entry[1]] <= latest
      BY <1>2, <1>8, <2>5 DEF EntriesEnd
    <3>1. CASE entry = <<scope, hash, time>>
      BY <2>1, <2>2, <3>1
    <3>2. CASE entry \in before.allowed
      <4>1. before = gate /\ entry[3] <= time /\ entry[3] + Duration[entry[1]] <= gate.latest
        BY <2>7, <3>2 DEF GateInv, EntriesEnd
      <4>2. entry[3] \in Nat /\ Duration[entry[1]] \in Nat
        BY <2>7, <3>2, EntryParts
      <4> QED BY <2>1, <2>2, <4>1, <4>2
    <3> QED BY <2>4, <3>1, <3>2
  <2>9. EntriesGranted'
    <3> SUFFICES ASSUME NEW entry \in allowed, IsLive(entry)
                 PROVE  \E g \in grants' : /\ g.scope = entry[1] /\ g.hash = entry[2]
                                           /\ g.at = entry[3] /\ g.sound
      BY <1>2, <1>8, <2>5 DEF EntriesGranted, IsLive
    <3>1. CASE entry = <<scope, hash, time>>
      <4>1. new \in grants'
        BY <1>8
      <4>2. new.scope = scope /\ new.hash = hash /\ new.at = time /\ new.sound
        BY <1>5, <1>8 DEF new
      <4> QED BY <3>1, <4>1, <4>2
    <3>2. CASE entry \in before.allowed /\ (entry[1] # scope \/ entry[2] # hash)
      <4>1. PICK g \in grants : /\ g.scope = entry[1] /\ g.hash = entry[2]
                                /\ g.at = entry[3] /\ g.sound
        BY <2>7, <3>2 DEF GateInv, EntriesGranted
      <4>2. g \in grants'
        BY <1>8, <2>7, <3>2, <4>1
      <4> QED BY <4>1, <4>2
    <3> QED BY <2>4, <3>1, <3>2
  <2> QED BY <1>2, <2>6, <2>8, <2>9 DEF GateInv
<1>9. ASSUME gate' = [gate EXCEPT !.needed = TRUE], grants' = grants
      PROVE  GateInv'
  <2>1. /\ gate' \in [open : BOOLEAN, needed : BOOLEAN, type : Types, allowed : SUBSET GateEntries,
                      latest : Nat]
        /\ gate'.allowed = gate.allowed /\ gate'.latest = gate.latest
    BY <1>9 DEF GateInv, GateTypes
  <2> QED BY <1>2, <1>9, <2>1 DEF GateInv, GateTypes, EntriesGranted, EntriesEnd, IsLive
<1> QED BY <1>3, <1>8, <1>9

(***************************************************************************)
(* A dialog that is denied lets nobody in and keeps nobody out.            *)
(***************************************************************************)
LEMMA DenyScopeSound ==
    ASSUME GateInv, DenyScope
    PROVE  GateInv'
<1>1. UNCHANGED <<vault, gate, time, grants>> /\ EntryIsGranted'
  BY DEF DenyScope, EntryIsGranted, NobodyIn
<1> QED BY <1>1 DEF GateInv, GateTypes, EntriesGranted, EntriesEnd, IsLive

(***************************************************************************)
(* A lock takes every entry away.                                          *)
(***************************************************************************)
LEMMA LockSound ==
    ASSUME GateInv, Lock
    PROVE  GateInv'
<1>1. /\ gate' \in [open : BOOLEAN, needed : BOOLEAN, type : Types, allowed : SUBSET GateEntries,
                    latest : Nat]
      /\ gate'.allowed = {} /\ UNCHANGED <<vault, time>> /\ EntryIsGranted'
  BY Forgotten DEF Lock, GateInv, GateTypes, EntryIsGranted, NobodyIn
<1> QED BY <1>1 DEF GateInv, GateTypes, EntriesGranted, EntriesEnd

(***************************************************************************)
(* Whoever is let in has a sound grant for a scope the route accepts.      *)
(***************************************************************************)
LEMMA LetInGranted ==
    ASSUME GateInv, NEW peer \in Peers, NEW door \in Routes, LetsIn(peer, door)
    PROVE  \E scope \in RequiredScopes(door) : scope \in GrantedTo(ScopeHash(peer, gate.type))
<1> DEFINE hash == ScopeHash(peer, gate.type)
<1>1. PICK scope \in RequiredScopes(door) : Allows(hash, scope)
  BY DEF LetsIn
<1> HIDE DEF hash
<1>2. PICK entry \in gate.allowed : entry[1] = scope /\ entry[2] = hash /\ IsLive(entry)
  BY <1>1 DEF Allows
<1>3. PICK g \in grants : g.scope = scope /\ g.hash = hash /\ g.at = entry[3] /\ g.sound
  BY <1>2 DEF GateInv, EntriesGranted
<1>4. time - g.at < Duration[g.scope]
  BY <1>2, <1>3 DEF IsLive
<1>5. scope \in GrantedTo(hash)
  BY <1>3, <1>4 DEF GrantedTo
<1> QED BY <1>5 DEF hash

(***************************************************************************)
(* A request that is let in, among them those that change the settings.    *)
(***************************************************************************)
LEMMA RequestSound ==
    ASSUME GateInv, Request
    PROVE  GateInv'
<1>1. PICK peer \in Peers, door \in Routes :
        /\ LetsIn(peer, door)
        /\ entered' = [route |-> door, had |-> GrantedTo(ScopeHash(peer, gate.type))]
        /\ IF door # "putSetting" THEN UNCHANGED <<vault, gate, denied, grants>>
           ELSE \/ \E type \in Types :
                    PutSetting([vault EXCEPT !.type = type],
                               SetProcessIdentificationType(gate, type))
                \/ \E trusted \in SUBSET {"tool"} :
                    PutSetting([vault EXCEPT !.trusted = trusted], gate)
  BY DEF Request
<1>2. time' = time
  BY DEF Request
<1>3. EntryIsGranted'
  <2>1. PICK scope \in RequiredScopes(door) : scope \in GrantedTo(ScopeHash(peer, gate.type))
    BY <1>1, LetInGranted
  <2>2. entered'.route = door /\ scope \in entered'.had
    BY <1>1, <2>1
  <2>3. /\ door = "items" => scope = "items"
        /\ door \notin {"items", "getClientSetting"} => scope = "settings"
    BY <2>1 DEF RequiredScopes
  <2> QED BY <2>2, <2>3 DEF EntryIsGranted
<1>4. CASE UNCHANGED <<vault, gate, grants>>
  BY <1>2, <1>3, <1>4 DEF GateInv, GateTypes, EntriesGranted, EntriesEnd, IsLive
<1>5. ASSUME NEW type \in Types,
             PutSetting([vault EXCEPT !.type = type], SetProcessIdentificationType(gate, type))
      PROVE  GateInv'
  <2> DEFINE published == SetProcessIdentificationType(gate, type)
  <2>1. /\ vault' = [vault EXCEPT !.type = type] /\ gate' = published
        /\ grants' = IF published.type = gate.type THEN grants ELSE {}
    BY <1>5 DEF PutSetting
  <2>2. vault' \in [old : BOOLEAN, type : Types, trusted : SUBSET {"tool"}]
    BY <2>1 DEF GateInv, GateTypes
  <2>3. /\ published \in [open : BOOLEAN, needed : BOOLEAN, type : Types,
                          allowed : SUBSET GateEntries, latest : Nat]
        /\ published.type = type
        /\ published = gate \/ published.allowed = {}
    BY TypeSet DEF GateInv
  <2> HIDE DEF published
  <2>4. CASE published = gate
    BY <1>2, <1>3, <2>1, <2>2, <2>4 DEF GateInv, GateTypes, EntriesGranted, EntriesEnd, IsLive
  <2>5. CASE published.allowed = {}
    BY <1>2, <1>3, <2>1, <2>2, <2>3, <2>5 DEF GateInv, GateTypes, EntriesGranted, EntriesEnd
  <2> QED BY <2>3, <2>4, <2>5
<1>6. ASSUME NEW trusted \in SUBSET {"tool"},
             PutSetting([vault EXCEPT !.trusted = trusted], gate)
      PROVE  GateInv'
  <2>1. /\ vault' \in [old : BOOLEAN, type : Types, trusted : SUBSET {"tool"}]
        /\ gate' = gate /\ grants' = grants
    BY <1>6 DEF PutSetting, GateInv, GateTypes
  <2> QED BY <1>2, <1>3, <2>1 DEF GateInv, GateTypes, EntriesGranted, EntriesEnd, IsLive
<1> QED BY <1>1, <1>4, <1>5, <1>6

(***************************************************************************)
(* The sweep keeps the live entries, and computes the latest expiry anew.  *)
(***************************************************************************)
LEMMA SweepSound ==
    ASSUME GateInv, Sweep
    PROVE  GateInv'
<1> DEFINE left == StillLive(gate, "items") \cap StillLive(gate, "settings")
           ends == {entry[3] + Duration[entry[1]] : entry \in left}
           latest == CHOOSE t \in ends : \A u \in ends : u <= t
<1>1. UNCHANGED <<vault, time>> /\ EntryIsGranted'
  BY DEF Sweep, EntryIsGranted, NobodyIn
<1>2. \/ left = {} /\ gate' = Unloaded(gate)
      \/ left # {} /\ gate' = [gate EXCEPT !.allowed = left, !.latest = latest] /\ grants' = grants
  BY DEF Sweep
<1>3. CASE left = {} /\ gate' = Unloaded(gate)
  <2>1. /\ gate' \in [open : BOOLEAN, needed : BOOLEAN, type : Types, allowed : SUBSET GateEntries,
                      latest : Nat]
        /\ gate'.allowed = {}
    BY <1>3, Forgotten, GateAssumption DEF Unloaded, GateInv, GateTypes
  <2> QED BY <1>1, <2>1 DEF GateInv, GateTypes, EntriesGranted, EntriesEnd
<1>4. ASSUME left # {}, gate' = [gate EXCEPT !.allowed = left, !.latest = latest],
             grants' = grants
      PROVE  GateInv'
  <2>1. left \subseteq gate.allowed /\ left \in SUBSET GateEntries
    BY DEF StillLive, GateInv, GateTypes
  <2> HIDE DEF left
  <2>2. \A entry \in left : /\ entry[3] + Duration[entry[1]] \in Nat
                            /\ entry[3] + Duration[entry[1]] <= gate.latest
    BY <2>1, EntryParts DEF GateInv, EntriesEnd
  <2>3. ends \in SUBSET Nat /\ ends # {} /\ \A u \in ends : u <= gate.latest
    BY <1>4, <2>2
  <2>4. \A entry \in left : entry[3] + Duration[entry[1]] \in ends
    OBVIOUS
  <2> HIDE DEF ends
  <2>5. \E t \in ends : \A u \in ends : u <= t
    BY <2>3, SomeLatest DEF GateInv, GateTypes
  <2>6. latest \in ends /\ \A u \in ends : u <= latest
    BY <2>5
  <2> HIDE DEF latest
  <2>7. /\ gate' \in [open : BOOLEAN, needed : BOOLEAN, type : Types, allowed : SUBSET GateEntries,
                      latest : Nat]
        /\ gate'.allowed = left /\ gate'.latest = latest
    BY <1>4, <2>1, <2>3, <2>6 DEF GateInv, GateTypes
  <2>8. EntriesEnd'
    BY <1>1, <2>1, <2>4, <2>6, <2>7 DEF EntriesEnd, GateInv
  <2>9. EntriesGranted'
    BY <1>1, <1>4, <2>1, <2>7 DEF EntriesGranted, GateInv, IsLive
  <2> QED BY <1>1, <2>7, <2>8, <2>9 DEF GateInv, GateTypes
<1> QED BY <1>2, <1>3, <1>4

(***************************************************************************)
(* Time passes: an entry and its grant end together.                       *)
(***************************************************************************)
LEMMA TickSound ==
    ASSUME GateInv, Tick
    PROVE  GateInv'
<1>1. /\ time' = time + 1 /\ UNCHANGED <<vault, gate>> /\ EntryIsGranted'
      /\ grants' = {g \in grants : time' - g.at < Duration[g.scope]}
  BY DEF Tick, EntryIsGranted, NobodyIn
<1>2. time \in Nat /\ time' \in Nat /\ gate.allowed \in SUBSET GateEntries
  BY <1>1 DEF GateInv, GateTypes
<1>3. EntriesEnd'
  <2> SUFFICES ASSUME NEW entry \in gate.allowed PROVE entry[3] <= time'
    BY <1>1 DEF EntriesEnd, GateInv
  <2>1. entry[3] \in Nat /\ entry[3] <= time
    BY <1>2, EntryParts DEF EntriesEnd, GateInv
  <2> QED BY <1>1, <1>2, <2>1
<1>4. EntriesGranted'
  <2> SUFFICES ASSUME NEW entry \in gate.allowed, time' - entry[3] < Duration[entry[1]]
               PROVE  \E g \in grants' : /\ g.scope = entry[1] /\ g.hash = entry[2]
                                         /\ g.at = entry[3] /\ g.sound
    BY <1>1 DEF EntriesGranted, IsLive
  <2>1. entry[3] \in Nat /\ Duration[entry[1]] \in Nat
    BY <1>2, EntryParts
  <2>2. time - entry[3] < Duration[entry[1]]
    BY <1>1, <1>2, <2>1
  <2>3. PICK g \in grants : /\ g.scope = entry[1] /\ g.hash = entry[2]
                            /\ g.at = entry[3] /\ g.sound
    BY <2>2 DEF EntriesGranted, GateInv, IsLive
  <2>4. g \in grants'
    BY <1>1, <2>3
  <2> QED BY <2>3, <2>4
<1> QED BY <1>1, <1>2, <1>3, <1>4 DEF GateInv, GateTypes

(***************************************************************************)
(* It holds of a closed vault.                                             *)
(***************************************************************************)
LEMMA GateInitially ==
    ASSUME InitGate
    PROVE  GateInv
<1>1. GateTypes
  BY DEF InitGate, GateTypes, Types
<1>2. gate.allowed = {} /\ EntryIsGranted
  BY DEF InitGate, EntryIsGranted, NobodyIn
<1> QED BY <1>1, <1>2 DEF GateInv, EntriesGranted, EntriesEnd

(***************************************************************************)
(* Every step keeps the invariant.                                         *)
(***************************************************************************)
LEMMA GateStepKeeps ==
    ASSUME GateInv, [NextGate]_gateVars
    PROVE  GateInv'
<1>1. CASE UNCHANGED gateVars
  BY <1>1 DEF gateVars, GateInv, GateTypes, EntriesGranted, EntriesEnd, IsLive, EntryIsGranted
<1> QED BY <1>1, UnlockSound, DenyScopeSound, LockSound, RequestSound, SweepSound,
        TickSound DEF NextGate

-----------------------------------------------------------------------------

(***************************************************************************)
(* The time left that status shows is positive exactly for those who are   *)
(* let in, and is not after the time the vault is unloaded.                *)
(***************************************************************************)
LEMMA StatusIsTrue ==
    ASSUME GateInv
    PROVE  StatusTells
<1> SUFFICES ASSUME NEW peer \in Peers, NEW scope \in AccessScopes
             PROVE  /\ Identified(peer) /\ Allows(ScopeHash(peer, gate.type), scope)
                           <=> Status(peer, scope) # {}
                    /\ \A left \in Status(peer, scope) : time + left <= gate.latest
  BY DEF StatusTells
<1> DEFINE hash == ScopeHash(peer, gate.type)
           own  == {entry \in gate.allowed : entry[1] = scope /\ entry[2] = hash}
<1>1. time \in Nat /\ gate.latest \in Nat /\ Duration[scope] \in Nat
  BY GateAssumption DEF GateInv, GateTypes, AccessScopes
<1>2. ASSUME NEW entry \in own
      PROVE  /\ entry[3] \in Nat /\ entry[3] + Duration[scope] <= gate.latest
             /\ entry \in gate.allowed /\ entry[1] = scope /\ entry[2] = hash
  BY <1>2, EntryParts DEF GateInv, GateTypes, EntriesEnd
<1>3. ASSUME NEW entry \in own
      PROVE  IsLive(entry) <=> entry[3] + Duration[scope] > time
  BY <1>1, <1>2, <1>3 DEF IsLive
<1>4. Status(peer, scope) = IF Identified(peer) /\ gate.open
                            THEN {ends - time : ends \in ExpiresAt(hash, scope)} ELSE {}
  BY DEF Status, Remaining
<1>5. ExpiresAt(hash, scope) =
          {ends \in {entry[3] + Duration[scope] : entry \in own} : ends > time}
  BY DEF ExpiresAt
<1>6. Allows(hash, scope) <=> gate.open /\ \E entry \in own : IsLive(entry)
  BY DEF Allows
<1> HIDE DEF own
<1>7. (\E entry \in own : IsLive(entry)) <=> ExpiresAt(hash, scope) # {}
  BY <1>3, <1>5
<1>8. \A ends \in ExpiresAt(hash, scope) : ends \in Nat /\ ends <= gate.latest
  BY <1>1, <1>2, <1>5
<1> HIDE DEF hash
<1>9. ASSUME NEW left \in Status(peer, scope)
      PROVE  time + left <= gate.latest
  BY <1>1, <1>4, <1>8, <1>9
<1>10. Identified(peer) /\ Allows(hash, scope) <=> Status(peer, scope) # {}
  BY <1>4, <1>6, <1>7
<1> QED BY <1>9, <1>10 DEF hash

(***************************************************************************)
(* The unlock method a client is offered is one it can use, but while a    *)
(* denial stands.                                                          *)
(***************************************************************************)
LEMMA OfferIsReal ==
    ASSUME GateInv
    PROVE  OfferedWayIn
<1> SUFFICES ASSUME NEW peer \in Peers, NEW capable \in BOOLEAN, NEW scope \in AccessScopes,
                    Identified(peer),
                    UnlockStatus(peer, Offered(capable), capable, scope, "right") # "ok"
             PROVE  \/ /\ UnlockStatus(peer, Offered(capable), capable, scope, "right")
                             = "migration_needed"
                       /\ vault.old
                    \/ /\ UnlockStatus(peer, Offered(capable), capable, scope, "right")
                             = "temporary_lockout"
                       /\ Offered(capable) = "gui" /\ IsDenied(peer, scope)
                    \/ ~gate.open /\ ScopeHash(peer, vault.type) = Untold
                    \/ Offered(capable) = "direct" /\ ~(peer.program # "gone" /\ IsTrusted(peer))
  BY DEF OfferedWayIn
<1>1. CASE OffersDialog(capable)
  <2>1. Offered(capable) = "gui" /\ MayUse(peer, "gui", capable)
    BY <1>1 DEF Offered, MayUse, HasRoute, OffersDialog
  <2> QED BY <2>1 DEF UnlockStatus, Identified
<1>2. CASE ~OffersDialog(capable)
  <2>1. Offered(capable) = "direct" /\ HasRoute("direct")
    BY <1>2 DEF Offered, HasRoute, OffersDialog
  <2>2. IsTrusted(peer) => CallerKnown(peer)
    BY DEF IsTrusted, CallerKnown, Untold, GateInv, GateTypes
  <2>3. ASSUME peer.program # "gone", IsTrusted(peer)
        PROVE  MayUse(peer, "direct", capable)
    BY <2>1, <2>2, <2>3 DEF MayUse, Exists
  <2> QED BY <2>1, <2>3 DEF UnlockStatus, Identified
<1> QED BY <1>1, <1>2

(***************************************************************************)
(* Whoever is let in has a grant of the very scope the route needs, status *)
(* tells the truth and the way in that is shown can be used unless a       *)
(* denial of that scope stands, for all peers, all durations and every     *)
(* platform (auth.rs, controller.rs, state.rs).                            *)
(***************************************************************************)
THEOREM GateStaysSound == GateSpec => []GateHolds
<1>1. GateInv => GateHolds
  BY StatusIsTrue, OfferIsReal DEF GateInv, GateHolds
<1> QED BY <1>1, GateInitially, GateStepKeeps, PTL DEF GateSpec

-----------------------------------------------------------------------------

(***************************************************************************)
(* The catalog. An index that is not above another is not below it either. *)
(***************************************************************************)
LEMMA IndexOrder == \A n \in Nat : \A i, j \in 1 .. n : ~(j < i) => i <= j
OBVIOUS

(***************************************************************************)
(* Of the files of one id the first decides: what it says, if it can be    *)
(* shown, is in the catalog.                                               *)
(***************************************************************************)
LEMMA FirstCounts ==
    ASSUME NEW roots, NEW n \in Nat, DOMAIN roots = 1 .. n,
           NEW r \in DOMAIN roots, NEW id \in AppIds, id \in DOMAIN roots[r],
           ~(\E y \in DOMAIN roots : y < r /\ id \in DOMAIN roots[y]),
           IsVisibleApplication(roots[r][id]), roots[r][id].name # ""
    PROVE  FromDesktopEntry(id, roots[r][id]) \in FromEntries(roots)
<1>1. ASSUME NEW y \in DOMAIN roots, id \in DOMAIN roots[y] PROVE r <= y
  <2>1. r \in 1 .. n /\ y \in 1 .. n
    OBVIOUS
  <2>2. ~(y < r)
    BY <1>1
  <2> QED BY <2>1, <2>2, IndexOrder
<1>2. roots[r][id] \in FirstSeen(roots, id)
  BY <1>1 DEF FirstSeen
<1> DEFINE mine(x) == {FromDesktopEntry(x, file) :
              file \in {f \in FirstSeen(roots, x) : IsVisibleApplication(f) /\ f.name # ""}}
<1>3. FromDesktopEntry(id, roots[r][id]) \in mine(id)
  BY <1>2
<1>4. FromEntries(roots) = UNION {mine(x) : x \in AppIds}
  BY DEF FromEntries
<1> HIDE DEF mine
<1> QED BY <1>3, <1>4

(***************************************************************************)
(* FromEntries, which goes through the ids, lists exactly the files that   *)
(* no earlier directory has under the same id, that this desktop shows and *)
(* that have a name: the two ways of saying it are the same for any number *)
(* of directories.                                                         *)
(***************************************************************************)
LEMMA ListedOnce ==
    ASSUME NEW roots, NEW n \in Nat, DOMAIN roots = 1 .. n
    PROVE  FromEntries(roots) =
               {FromDesktopEntry(a[2], roots[a[1]][a[2]]) :
                    a \in {b \in (DOMAIN roots) \X AppIds :
                              /\ b[2] \in DOMAIN roots[b[1]]
                              /\ ~(\E r \in DOMAIN roots : r < b[1] /\ b[2] \in DOMAIN roots[r])
                              /\ IsVisibleApplication(roots[b[1]][b[2]])
                              /\ roots[b[1]][b[2]].name # ""}}
<1> DEFINE counts(b) == /\ b[2] \in DOMAIN roots[b[1]]
                        /\ ~(\E r \in DOMAIN roots : r < b[1] /\ b[2] \in DOMAIN roots[r])
                        /\ IsVisibleApplication(roots[b[1]][b[2]])
                        /\ roots[b[1]][b[2]].name # ""
           apps == {b \in (DOMAIN roots) \X AppIds : counts(b)}
<1>1. ASSUME NEW entry \in FromEntries(roots)
      PROVE  \E a \in apps : entry = FromDesktopEntry(a[2], roots[a[1]][a[2]])
  <2>1. PICK id \in AppIds : entry \in {FromDesktopEntry(id, file) :
            file \in {f \in FirstSeen(roots, id) : IsVisibleApplication(f) /\ f.name # ""}}
    BY DEF FromEntries
  <2>2. PICK file \in FirstSeen(roots, id) :
            /\ IsVisibleApplication(file) /\ file.name # ""
            /\ entry = FromDesktopEntry(id, file)
    BY <2>1
  <2>3. PICK r \in DOMAIN roots : /\ id \in DOMAIN roots[r] /\ file = roots[r][id]
                                  /\ \A y \in DOMAIN roots : id \in DOMAIN roots[y] => r <= y
    BY <2>2 DEF FirstSeen
  <2>4. ~(\E y \in DOMAIN roots : y < r /\ id \in DOMAIN roots[y])
    BY <2>3
  <2>5. <<r, id>> \in apps
    BY <2>2, <2>3, <2>4
  <2> QED BY <2>2, <2>3, <2>5
<1>2. ASSUME NEW a \in apps
      PROVE  FromDesktopEntry(a[2], roots[a[1]][a[2]]) \in FromEntries(roots)
  <2>1. /\ a[1] \in DOMAIN roots /\ a[2] \in AppIds /\ a[2] \in DOMAIN roots[a[1]]
        /\ ~(\E y \in DOMAIN roots : y < a[1] /\ a[2] \in DOMAIN roots[y])
        /\ IsVisibleApplication(roots[a[1]][a[2]]) /\ roots[a[1]][a[2]].name # ""
    OBVIOUS
  <2> HIDE DEF apps
  <2> QED BY <2>1, FirstCounts
<1> QED BY ZenonT(90), <1>1, <1>2

(***************************************************************************)
(* The same of the directories as they are.                                *)
(***************************************************************************)
LEMMA MenuListed ==
    ASSUME NEW n \in Nat, DOMAIN menu = 1 .. n
    PROVE  FromEntries(menu) = {FromDesktopEntry(a[2], menu[a[1]][a[2]]) : a \in Applications}
<1>1. Applications = {b \in (DOMAIN menu) \X AppIds :
                              /\ b[2] \in DOMAIN menu[b[1]]
                              /\ ~(\E r \in DOMAIN menu : r < b[1] /\ b[2] \in DOMAIN menu[r])
                              /\ IsVisibleApplication(menu[b[1]][b[2]])
                              /\ menu[b[1]][b[2]].name # ""}
  BY DEF Applications, IsListed, Shadowed
<1> QED BY <1>1, ListedOnce

-----------------------------------------------------------------------------

(***************************************************************************)
(* A look-up has its fields and no other.                                  *)
(***************************************************************************)
IsLookup(k) ==
    k = [at |-> k.at, process |-> k.process, now |-> k.now, missed |-> k.missed,
         read |-> k.read, begun |-> k.begun, refreshed |-> k.refreshed, answer |-> k.answer,
         of |-> k.of]

(***************************************************************************)
(* Where a look-up has read nothing yet.                                   *)
(***************************************************************************)
Searching == {"look", "missed", "waiting"}

(***************************************************************************)
(* The types of what the look-ups share.                                   *)
(***************************************************************************)
CatalogTypes ==
    /\ menu = [r \in DOMAIN menu |-> menu[r]]
    /\ \E n \in Nat : DOMAIN menu = 1 .. n
    /\ edits \in Nat /\ hour \in 0 .. LastHour
    /\ catalog.of \in 0 .. edits
    /\ refresh = [locked |-> refresh.locked, last |-> refresh.last]
    /\ refresh.last \in (0 .. LastHour) \cup {Never}
    /\ DOMAIN lookups = Lookers

(***************************************************************************)
(* The types of a look-up: nothing in it is of a change to come.           *)
(***************************************************************************)
LookupTypes(l) ==
    /\ IsLookup(lookups[l])
    /\ lookups[l].at \in Searching \cup {"loading", "again", "answered"}
    /\ lookups[l].now \in 0 .. LastHour
    /\ lookups[l].missed \in 0 .. edits /\ lookups[l].begun \in 0 .. edits
    /\ lookups[l].of \in 0 .. catalog.of
    /\ lookups[l].refreshed \in BOOLEAN

(***************************************************************************)
(* What a load has read is the directories from the first on, and they are *)
(* as they were if none has changed since it began.                        *)
(***************************************************************************)
ReadSoFar(l) ==
    /\ \E k \in Nat : DOMAIN lookups[l].read = 1 .. k
    /\ lookups[l].read = [r \in DOMAIN lookups[l].read |-> lookups[l].read[r]]
    /\ lookups[l].begun = edits =>
           \A r \in DOMAIN lookups[l].read : lookups[l].read[r] = menu[r]

(***************************************************************************)
(* Who loads holds the mutex, began after the load that is stored and      *)
(* after its own miss, and a cooldown after the last load; who has loaded  *)
(* finds a catalog that is not older than its miss.                        *)
(***************************************************************************)
LoadSound(l) ==
    /\ lookups[l].at = "loading" =>
           /\ refresh.locked = l
           /\ catalog.of <= lookups[l].begun /\ lookups[l].missed <= lookups[l].begun
           /\ refresh.last # Never => lookups[l].now >= refresh.last + Cooldown
           /\ ReadSoFar(l)
    /\ lookups[l].at \in Searching => lookups[l].read = <<>>
    /\ lookups[l].at \in Searching \cup {"loading"} => ~lookups[l].refreshed
    /\ lookups[l].refreshed => lookups[l].missed <= catalog.of

(***************************************************************************)
(* The loads are a cooldown apart, and none is later than the last one     *)
(* remembered.                                                             *)
(***************************************************************************)
LoadsApart ==
    /\ \A a \in loads : /\ a[2] \in 0 .. LastHour
                         /\ refresh.last # Never /\ a[2] <= refresh.last
    /\ \A a, b \in loads : a # b => a[2] - b[2] >= Cooldown \/ b[2] - a[2] >= Cooldown

(***************************************************************************)
(* If nothing has changed under or since its load, the catalog is that of  *)
(* the directories.                                                        *)
(***************************************************************************)
CatalogCurrent == catalog.steady /\ catalog.of = edits => catalog.entries = FromEntries(menu)

(***************************************************************************)
(* The inductive invariant of the catalog. That the catalog never goes     *)
(* back is a fact about the load that is under way: the mutex, the change  *)
(* it began at and what it has read so far must be tied to one another.    *)
(***************************************************************************)
CatalogInv ==
    /\ CatalogTypes
    /\ \A l \in Lookers : LookupTypes(l) /\ LoadSound(l)
    /\ LoadsApart
    /\ CatalogCurrent

(***************************************************************************)
(* Never is no hour of the clock.                                          *)
(***************************************************************************)
LEMMA NeverIsLater == Never \in Nat /\ Never \notin 0 .. LastHour
BY CooldownAssumption, HourAssumption DEF Never

(***************************************************************************)
(* The invariant gives the property.                                       *)
(***************************************************************************)
LEMMA CatalogMeans == CatalogInv => CatalogHolds
<1> SUFFICES ASSUME CatalogInv PROVE CatalogHolds
  OBVIOUS
<1>1. ASSUME NEW l \in Lookers
      PROVE  /\ lookups[l].refreshed => lookups[l].missed <= catalog.of
             /\ lookups[l].at = "answered" => lookups[l].of <= catalog.of
  BY <1>1 DEF CatalogInv, LookupTypes, LoadSound
<1>2. PICK n \in Nat : DOMAIN menu = 1 .. n
  BY DEF CatalogInv, CatalogTypes
<1>3. FromEntries(menu) = {FromDesktopEntry(a[2], menu[a[1]][a[2]]) : a \in Applications}
  BY <1>2, MenuListed
<1> QED BY <1>1, <1>3 DEF CatalogHolds, CatalogInv, LoadsApart, CatalogCurrent

(***************************************************************************)
(* It holds at the start, when the catalog has been loaded once.           *)
(***************************************************************************)
LEMMA CatalogInitially == InitCatalog => CatalogInv
<1> SUFFICES ASSUME InitCatalog PROVE CatalogInv
  OBVIOUS
<1>1. PICK process \in [Lookers -> Wants] : lookups = [l \in Lookers |-> Lookup(process[l])]
  BY DEF InitCatalog
<1>2. /\ menu \in Menus /\ edits = 0 /\ hour = 0 /\ loads = {}
      /\ catalog.of = 0 /\ catalog.entries = FromEntries(menu)
      /\ refresh = [locked |-> NotLocked, last |-> Never] /\ refresh.last = Never
      /\ refresh.locked = NotLocked
  BY DEF InitCatalog
<1>3. CatalogTypes
  BY <1>1, <1>2, MenusAssumption, HourAssumption DEF CatalogTypes
<1>4. ASSUME NEW l \in Lookers
      PROVE  LookupTypes(l) /\ LoadSound(l)
  <2>1. lookups[l] = Lookup(process[l])
    BY <1>1
  <2>2. /\ lookups[l].at = "look" /\ lookups[l].now = 0 /\ lookups[l].missed = 0
        /\ lookups[l].read = <<>> /\ lookups[l].begun = 0 /\ lookups[l].refreshed = FALSE
        /\ lookups[l].of = 0 /\ IsLookup(lookups[l])
    BY <2>1 DEF Lookup, IsLookup
  <2>3. 0 \in 0 .. LastHour /\ 0 \in 0 .. edits /\ 0 \in 0 .. catalog.of
    BY <1>2, HourAssumption
  <2>4. LookupTypes(l)
    BY <2>2, <2>3 DEF LookupTypes, Searching
  <2>5. LoadSound(l)
    BY <2>2 DEF LoadSound, Searching
  <2> QED BY <2>4, <2>5
<1> QED BY <1>2, <1>3, <1>4 DEF CatalogInv, LoadsApart, CatalogCurrent

(***************************************************************************)
(* A request moves itself and no other.                                    *)
(***************************************************************************)
LEMMA MoveMoves ==
    ASSUME CatalogTypes, NEW l \in Lookers, NEW to, Move(l, to)
    PROVE  /\ DOMAIN lookups' = Lookers /\ lookups'[l] = to
           /\ \A m \in Lookers \ {l} : lookups'[m] = lookups[m]
BY DEF CatalogTypes, Move

(***************************************************************************)
(* A step of one request that changes neither the catalog nor the          *)
(* directories keeps the invariant if it keeps that request's part of it   *)
(* and does not take the mutex from another.                               *)
(***************************************************************************)
LEMMA LookerMoves ==
    ASSUME CatalogInv, NEW l \in Lookers, NEW to, Move(l, to), LookupTypes(l)', LoadSound(l)',
           UNCHANGED <<menu, edits, hour, catalog, loads>>,
           refresh' = [locked |-> refresh'.locked, last |-> refresh.last],
           refresh'.last = refresh.last,
           \A m \in Lookers \ {l} : refresh.locked = m => refresh'.locked = m
    PROVE  CatalogInv'
<1>1. /\ DOMAIN lookups' = Lookers /\ \A m \in Lookers \ {l} : lookups'[m] = lookups[m]
  BY MoveMoves DEF CatalogInv
<1>2. ASSUME NEW m \in Lookers \ {l}
      PROVE  LookupTypes(m)' /\ LoadSound(m)'
  BY SMTT(60), <1>1, <1>2 DEF CatalogInv, LookupTypes, LoadSound, ReadSoFar
<1>3. CatalogTypes'
  BY <1>1 DEF CatalogInv, CatalogTypes
<1>4. LoadsApart' /\ CatalogCurrent'
  BY DEF CatalogInv, LoadsApart, CatalogCurrent
<1> QED BY <1>2, <1>3, <1>4 DEF CatalogInv

(***************************************************************************)
(* A request that is answered.                                             *)
(***************************************************************************)
LEMMA AnswerSound ==
    ASSUME CatalogInv, NEW l \in Lookers, Move(l, AnswerOf(l)),
           lookups[l].at \in {"look", "again"},
           UNCHANGED <<menu, edits, hour, catalog, refresh, loads>>
    PROVE  CatalogInv'
<1>1. /\ IsLookup(lookups[l]) /\ LookupTypes(l) /\ LoadSound(l)
      /\ catalog.of \in 0 .. edits /\ edits \in Nat /\ refresh' = refresh
      /\ refresh = [locked |-> refresh.locked, last |-> refresh.last]
  BY DEF CatalogInv, LookupTypes, CatalogTypes
<1> DEFINE k == lookups[l]
           to == AnswerOf(l)
           answer == ApplicationOf(k.process)
<1>2. to = [at |-> "answered", process |-> k.process, now |-> k.now, missed |-> k.missed,
            read |-> k.read, begun |-> k.begun, refreshed |-> k.refreshed, answer |-> answer,
            of |-> catalog.of]
  <2> HIDE DEF answer
  <2>1. to = [k EXCEPT !.at = "answered", !.answer = answer, !.of = catalog.of]
    BY DEF AnswerOf, answer
  <2>2. k = [at |-> k.at, process |-> k.process, now |-> k.now, missed |-> k.missed,
         read |-> k.read, begun |-> k.begun, refreshed |-> k.refreshed, answer |-> k.answer,
         of |-> k.of]
    BY <1>1 DEF IsLookup
  <2> HIDE DEF k, to
  <2> QED BY <2>1, <2>2
<1> HIDE DEF to, answer
<1>3. /\ to.at = "answered" /\ to.now = k.now /\ to.missed = k.missed /\ to.read = k.read
      /\ to.begun = k.begun /\ to.refreshed = k.refreshed /\ to.of = catalog.of /\ IsLookup(to)
  BY <1>2 DEF IsLookup
<1>4. Move(l, to) /\ lookups'[l] = to
  BY MoveMoves DEF CatalogInv, to
<1>5. LookupTypes(l)'
  BY <1>1, <1>3, <1>4 DEF LookupTypes
<1>6. LoadSound(l)'
  BY <1>1, <1>3, <1>4 DEF LoadSound, Searching
<1> QED BY <1>1, <1>4, <1>5, <1>6, LookerMoves

(***************************************************************************)
(* A look that finds, a look that misses, and the second look.             *)
(***************************************************************************)
LEMMA LookSound ==
    ASSUME CatalogInv, NEW l \in Lookers, Look(l) \/ LookAgain(l)
    PROVE  CatalogInv'
<1>1. CASE Move(l, AnswerOf(l))
  BY <1>1, AnswerSound DEF Look, LookAgain
<1>2. CASE lookups[l].at = "look" /\ Move(l, [lookups[l] EXCEPT !.at = "missed", !.missed = edits])
           /\ UNCHANGED <<menu, edits, hour, catalog, refresh, loads>>
  <2> DEFINE k == lookups[l]
             to == [k EXCEPT !.at = "missed", !.missed = edits]
  <2>1. /\ IsLookup(k) /\ LookupTypes(l) /\ LoadSound(l) /\ edits \in Nat
        /\ refresh = [locked |-> refresh.locked, last |-> refresh.last]
    BY DEF CatalogInv, LookupTypes, CatalogTypes
  <2>2. to = [at |-> "missed", process |-> k.process, now |-> k.now, missed |-> edits,
              read |-> k.read, begun |-> k.begun, refreshed |-> k.refreshed,
              answer |-> k.answer, of |-> k.of]
    <3>1. k = [at |-> k.at, process |-> k.process, now |-> k.now, missed |-> k.missed,
               read |-> k.read, begun |-> k.begun, refreshed |-> k.refreshed,
               answer |-> k.answer, of |-> k.of]
      BY <2>1 DEF IsLookup
    <3>2. to = [k EXCEPT !.at = "missed", !.missed = edits]
      OBVIOUS
    <3> HIDE DEF k, to
    <3> QED BY <3>1, <3>2
  <2>3. Move(l, to)
    BY <1>2
  <2> HIDE DEF to
  <2>4. /\ to.at = "missed" /\ to.now = k.now /\ to.missed = edits /\ to.read = k.read
        /\ to.begun = k.begun /\ to.refreshed = k.refreshed /\ to.of = k.of /\ IsLookup(to)
    BY <2>2 DEF IsLookup
  <2>5. lookups'[l] = to
    BY <2>3, MoveMoves DEF CatalogInv
  <2>6. LookupTypes(l)'
    BY <1>2, <2>1, <2>4, <2>5 DEF LookupTypes, Searching
  <2>7. LoadSound(l)'
    BY <1>2, <2>1, <2>4, <2>5 DEF LoadSound, Searching
  <2> QED BY <1>2, <2>1, <2>3, <2>6, <2>7, LookerMoves
<1> QED BY <1>1, <1>2 DEF Look, LookAgain

(***************************************************************************)
(* What the steps of a request make of its look-up.                        *)
(***************************************************************************)
LEMMA LookupChanges ==
    ASSUME NEW k, IsLookup(k), NEW at, NEW x
    PROVE  /\ [k EXCEPT !.at = at] = [at |-> at, process |-> k.process, now |-> k.now,
                  missed |-> k.missed, read |-> k.read, begun |-> k.begun,
                  refreshed |-> k.refreshed, answer |-> k.answer, of |-> k.of]
           /\ [k EXCEPT !.at = at, !.now = x] = [at |-> at, process |-> k.process, now |-> x,
                  missed |-> k.missed, read |-> k.read, begun |-> k.begun,
                  refreshed |-> k.refreshed, answer |-> k.answer, of |-> k.of]
           /\ [k EXCEPT !.at = at, !.begun = x] = [at |-> at, process |-> k.process,
                  now |-> k.now, missed |-> k.missed, read |-> k.read, begun |-> x,
                  refreshed |-> k.refreshed, answer |-> k.answer, of |-> k.of]
           /\ [k EXCEPT !.read = x] = [at |-> k.at, process |-> k.process, now |-> k.now,
                  missed |-> k.missed, read |-> x, begun |-> k.begun,
                  refreshed |-> k.refreshed, answer |-> k.answer, of |-> k.of]
           /\ [k EXCEPT !.at = at, !.refreshed = x] = [at |-> at, process |-> k.process,
                  now |-> k.now, missed |-> k.missed, read |-> k.read, begun |-> k.begun,
                  refreshed |-> x, answer |-> k.answer, of |-> k.of]
<1>1. k = [at |-> k.at, process |-> k.process, now |-> k.now, missed |-> k.missed,
           read |-> k.read, begun |-> k.begun, refreshed |-> k.refreshed, answer |-> k.answer,
           of |-> k.of]
  BY DEF IsLookup
<1>2. [k EXCEPT !.at = at] = [at |-> at, process |-> k.process, now |-> k.now,
                  missed |-> k.missed, read |-> k.read, begun |-> k.begun,
                  refreshed |-> k.refreshed, answer |-> k.answer, of |-> k.of]
  BY <1>1
<1>3. [k EXCEPT !.at = at, !.now = x] = [at |-> at, process |-> k.process, now |-> x,
                  missed |-> k.missed, read |-> k.read, begun |-> k.begun,
                  refreshed |-> k.refreshed, answer |-> k.answer, of |-> k.of]
  <2> DEFINE moved == [k EXCEPT !.at = at]
  <2>1. [k EXCEPT !.at = at, !.now = x] = [moved EXCEPT !.now = x]
    OBVIOUS
  <2> HIDE DEF moved
  <2>2. moved = [at |-> at, process |-> k.process, now |-> k.now,
                  missed |-> k.missed, read |-> k.read, begun |-> k.begun,
                  refreshed |-> k.refreshed, answer |-> k.answer, of |-> k.of]
    BY <1>2 DEF moved
  <2> QED BY <2>1, <2>2
<1>4. [k EXCEPT !.at = at, !.begun = x] = [at |-> at, process |-> k.process,
                  now |-> k.now, missed |-> k.missed, read |-> k.read, begun |-> x,
                  refreshed |-> k.refreshed, answer |-> k.answer, of |-> k.of]
  <2> DEFINE moved == [k EXCEPT !.at = at]
  <2>1. [k EXCEPT !.at = at, !.begun = x] = [moved EXCEPT !.begun = x]
    OBVIOUS
  <2> HIDE DEF moved
  <2>2. moved = [at |-> at, process |-> k.process, now |-> k.now,
                  missed |-> k.missed, read |-> k.read, begun |-> k.begun,
                  refreshed |-> k.refreshed, answer |-> k.answer, of |-> k.of]
    BY <1>2 DEF moved
  <2> QED BY <2>1, <2>2
<1>5. [k EXCEPT !.read = x] = [at |-> k.at, process |-> k.process, now |-> k.now,
                  missed |-> k.missed, read |-> x, begun |-> k.begun,
                  refreshed |-> k.refreshed, answer |-> k.answer, of |-> k.of]
  BY <1>1
<1>6. [k EXCEPT !.at = at, !.refreshed = x] = [at |-> at, process |-> k.process,
                  now |-> k.now, missed |-> k.missed, read |-> k.read, begun |-> k.begun,
                  refreshed |-> x, answer |-> k.answer, of |-> k.of]
  <2> DEFINE moved == [k EXCEPT !.at = at]
  <2>1. [k EXCEPT !.at = at, !.refreshed = x] = [moved EXCEPT !.refreshed = x]
    OBVIOUS
  <2> HIDE DEF moved
  <2>2. moved = [at |-> at, process |-> k.process, now |-> k.now,
                  missed |-> k.missed, read |-> k.read, begun |-> k.begun,
                  refreshed |-> k.refreshed, answer |-> k.answer, of |-> k.of]
    BY <1>2 DEF moved
  <2> QED BY <2>1, <2>2
<1> QED BY <1>2, <1>3, <1>4, <1>5, <1>6

(***************************************************************************)
(* The time is taken after the miss and before the mutex.                  *)
(***************************************************************************)
LEMMA TakeNowSound ==
    ASSUME CatalogInv, NEW l \in Lookers, TakeNow(l)
    PROVE  CatalogInv'
<1> DEFINE k == lookups[l]
           to == [k EXCEPT !.at = "waiting", !.now = hour]
<1>1. /\ IsLookup(k) /\ LookupTypes(l) /\ LoadSound(l) /\ hour \in 0 .. LastHour
      /\ refresh = [locked |-> refresh.locked, last |-> refresh.last] /\ k.at = "missed"
      /\ UNCHANGED <<menu, edits, hour, catalog, refresh, loads>> /\ Move(l, to)
  BY DEF CatalogInv, LookupTypes, CatalogTypes, TakeNow
<1>2. to = [at |-> "waiting", process |-> k.process, now |-> hour, missed |-> k.missed,
            read |-> k.read, begun |-> k.begun, refreshed |-> k.refreshed, answer |-> k.answer,
            of |-> k.of]
  BY ZenonT(90), <1>1, LookupChanges
<1> HIDE DEF to
<1>3. /\ to.at = "waiting" /\ to.now = hour /\ to.missed = k.missed /\ to.read = k.read
      /\ to.begun = k.begun /\ to.refreshed = k.refreshed /\ to.of = k.of /\ IsLookup(to)
  BY <1>2 DEF IsLookup
<1>4. lookups'[l] = to
  BY <1>1, MoveMoves DEF CatalogInv
<1>5. LookupTypes(l)'
  BY <1>1, <1>3, <1>4 DEF LookupTypes, Searching
<1>6. LoadSound(l)'
  BY <1>1, <1>3, <1>4 DEF LoadSound, Searching
<1> QED BY <1>1, <1>5, <1>6, LookerMoves

(***************************************************************************)
(* Under the mutex: a load begins only a cooldown after the last one,      *)
(* though the time was taken before the wait.                              *)
(***************************************************************************)
LEMMA LockRefreshSound ==
    ASSUME CatalogInv, NEW l \in Lookers, LockRefresh(l)
    PROVE  CatalogInv'
<1> DEFINE k == lookups[l]
<1>1. /\ IsLookup(k) /\ LookupTypes(l) /\ LoadSound(l) /\ edits \in Nat
      /\ catalog.of \in 0 .. edits /\ refresh.last \in (0 .. LastHour) \cup {Never}
      /\ refresh = [locked |-> refresh.locked, last |-> refresh.last]
      /\ k.at = "waiting" /\ refresh.locked = NotLocked
      /\ UNCHANGED <<menu, edits, hour, catalog, loads>>
  BY DEF CatalogInv, LookupTypes, CatalogTypes, LockRefresh
<1>2. CASE InCooldown(l)
  <2> DEFINE to == [k EXCEPT !.at = "answered"]
  <2>1. Move(l, to) /\ refresh' = refresh
    BY <1>2 DEF LockRefresh
  <2>2. to = [at |-> "answered", process |-> k.process, now |-> k.now, missed |-> k.missed,
              read |-> k.read, begun |-> k.begun, refreshed |-> k.refreshed,
              answer |-> k.answer, of |-> k.of]
    BY <1>1, LookupChanges
  <2> HIDE DEF to
  <2>3. /\ to.at = "answered" /\ to.now = k.now /\ to.missed = k.missed /\ to.read = k.read
        /\ to.begun = k.begun /\ to.refreshed = k.refreshed /\ to.of = k.of /\ IsLookup(to)
    BY <2>2 DEF IsLookup
  <2>4. lookups'[l] = to
    BY <2>1, MoveMoves DEF CatalogInv
  <2>5. LookupTypes(l)'
    BY <1>1, <2>3, <2>4 DEF LookupTypes, Searching
  <2>6. LoadSound(l)'
    BY <1>1, <2>3, <2>4 DEF LoadSound, Searching
  <2> QED BY <1>1, <2>1, <2>5, <2>6, LookerMoves
<1>3. CASE ~InCooldown(l)
  <2> DEFINE to == [k EXCEPT !.at = "loading", !.begun = edits]
  <2>1. Move(l, to) /\ refresh' = [refresh EXCEPT !.locked = l]
    BY <1>3 DEF LockRefresh
  <2>2. to = [at |-> "loading", process |-> k.process, now |-> k.now, missed |-> k.missed,
              read |-> k.read, begun |-> edits, refreshed |-> k.refreshed,
              answer |-> k.answer, of |-> k.of]
    BY ZenonT(90), <1>1, LookupChanges
  <2> HIDE DEF to
  <2>3. /\ to.at = "loading" /\ to.now = k.now /\ to.missed = k.missed /\ to.read = k.read
        /\ to.begun = edits /\ to.refreshed = k.refreshed /\ to.of = k.of /\ IsLookup(to)
    BY <2>2 DEF IsLookup
  <2>4. lookups'[l] = to
    BY <2>1, MoveMoves DEF CatalogInv
  <2>5. /\ refresh' = [locked |-> l, last |-> refresh.last]
        /\ refresh'.locked = l /\ refresh'.last = refresh.last
    BY <1>1, <2>1
  <2>6. LookupTypes(l)'
    BY <1>1, <2>3, <2>4 DEF LookupTypes, Searching
  <2>7. refresh.last # Never => k.now >= refresh.last + Cooldown
    <3> SUFFICES ASSUME refresh.last # Never PROVE k.now >= refresh.last + Cooldown
      OBVIOUS
    <3>1. k.now \in Nat /\ refresh.last \in Nat /\ Cooldown \in Nat /\ Cooldown > 0
      BY <1>1, HourAssumption, CooldownAssumption DEF LookupTypes
    <3>2. ~(SaturatingSince(k.now, refresh.last) < Cooldown)
      BY <1>3 DEF InCooldown
    <3> QED BY <3>1, <3>2 DEF SaturatingSince
  <2>8. k.read = <<>> /\ ~k.refreshed
    BY <1>1 DEF LoadSound, Searching
  <2>9. ReadSoFar(l)'
    <3>1. DOMAIN k.read = 1 .. 0 /\ k.read = [r \in DOMAIN k.read |-> k.read[r]]
          /\ \A r \in DOMAIN k.read : FALSE
      BY <2>8
    <3>2. lookups'[l].read = k.read
      BY <2>3, <2>4
    <3> QED BY <3>1, <3>2 DEF ReadSoFar
  <2>10. LoadSound(l)'
    <3>1. lookups[l].missed <= edits /\ catalog.of <= edits
      BY <1>1 DEF LookupTypes
    <3> QED BY <1>1, <2>3, <2>4, <2>5, <2>7, <2>8, <2>9, <3>1 DEF LoadSound, Searching
  <2>11. \A m \in Lookers \ {l} : refresh.locked # m
    BY <1>1, LockAssumption
  <2> QED BY <1>1, <2>1, <2>5, <2>6, <2>10, <2>11, LookerMoves
<1> QED BY <1>2, <1>3

(***************************************************************************)
(* One more directory is read.                                             *)
(***************************************************************************)
LEMMA LoadRootSound ==
    ASSUME CatalogInv, NEW l \in Lookers, LoadRoot(l)
    PROVE  CatalogInv'
<1> DEFINE k == lookups[l]
           next == Cardinality(DOMAIN k.read) + 1
           read == [r \in 1 .. next |-> IF r = next THEN menu[r] ELSE k.read[r]]
           to == [k EXCEPT !.read = read]
<1>1. /\ IsLookup(k) /\ LookupTypes(l) /\ LoadSound(l) /\ ReadSoFar(l)
      /\ refresh = [locked |-> refresh.locked, last |-> refresh.last] /\ k.at = "loading"
      /\ UNCHANGED <<menu, edits, hour, catalog, refresh, loads>> /\ Move(l, to)
  BY DEF CatalogInv, LookupTypes, CatalogTypes, LoadRoot, LoadSound
<1>2. PICK n \in Nat : DOMAIN k.read = 1 .. n
  BY <1>1 DEF ReadSoFar
<1>3. Cardinality(DOMAIN k.read) = n
  BY <1>2, FS_Interval
<1>4. next = n + 1 /\ next \in Nat
  BY <1>3
<1> HIDE DEF next
<1>5. /\ DOMAIN read = 1 .. next /\ read = [r \in DOMAIN read |-> read[r]]
      /\ k.begun = edits => \A r \in DOMAIN read : read[r] = menu[r]
  <2>1. DOMAIN read = 1 .. next /\ read = [r \in DOMAIN read |-> read[r]]
    OBVIOUS
  <2>2. ASSUME k.begun = edits, NEW r \in 1 .. next
        PROVE  read[r] = menu[r]
    <3>1. read[r] = IF r = next THEN menu[r] ELSE k.read[r]
      OBVIOUS
    <3>2. r # next => r \in DOMAIN k.read
      BY <1>2, <1>4
    <3> QED BY <1>1, <2>2, <3>1, <3>2 DEF ReadSoFar
  <2> QED BY <2>1, <2>2
<1> HIDE DEF read
<1>6. to = [at |-> k.at, process |-> k.process, now |-> k.now, missed |-> k.missed,
            read |-> read, begun |-> k.begun, refreshed |-> k.refreshed, answer |-> k.answer,
            of |-> k.of]
  BY <1>1, LookupChanges
<1> HIDE DEF to
<1>7. /\ to.at = k.at /\ to.now = k.now /\ to.missed = k.missed /\ to.read = read
      /\ to.begun = k.begun /\ to.refreshed = k.refreshed /\ to.of = k.of /\ IsLookup(to)
  BY <1>6 DEF IsLookup
<1>8. lookups'[l] = to
  BY <1>1, MoveMoves DEF CatalogInv
<1>9. LookupTypes(l)'
  BY <1>1, <1>7, <1>8 DEF LookupTypes, Searching
<1>10. ReadSoFar(l)'
  BY <1>1, <1>4, <1>5, <1>7, <1>8 DEF ReadSoFar
<1>11. LoadSound(l)'
  BY <1>1, <1>7, <1>8, <1>10 DEF LoadSound, Searching
<1> QED BY <1>1, <1>9, <1>11, LookerMoves

(***************************************************************************)
(* The new catalog is stored: not older than the one before, and that of   *)
(* the directories if none of them changed meanwhile.                      *)
(***************************************************************************)
LEMMA StoreCatalogSound ==
    ASSUME CatalogInv, NEW l \in Lookers, StoreCatalog(l)
    PROVE  CatalogInv'
<1> DEFINE k == lookups[l]
           to == [k EXCEPT !.at = "again", !.refreshed = TRUE]
<1>1. /\ IsLookup(k) /\ LookupTypes(l) /\ LoadSound(l) /\ ReadSoFar(l)
      /\ k.at = "loading" /\ DOMAIN k.read = DOMAIN menu
      /\ UNCHANGED <<menu, edits, hour>> /\ Move(l, to)
      /\ catalog' = [entries |-> FromEntries(k.read), of |-> k.begun, steady |-> k.begun = edits]
      /\ refresh' = [locked |-> NotLocked, last |-> k.now]
      /\ loads' = loads \cup {<<l, k.now>>}
  BY DEF CatalogInv, LookupTypes, StoreCatalog, LoadSound
<1>2. /\ k.now \in 0 .. LastHour /\ k.begun \in 0 .. edits /\ edits \in Nat
      /\ k.missed \in 0 .. edits /\ catalog.of \in 0 .. edits
      /\ refresh.last \in (0 .. LastHour) \cup {Never}
      /\ refresh.locked = l /\ catalog.of <= k.begun /\ k.missed <= k.begun
      /\ refresh.last # Never => k.now >= refresh.last + Cooldown
  BY <1>1 DEF CatalogInv, LookupTypes, CatalogTypes, LoadSound
<1>3. /\ catalog'.entries = FromEntries(k.read) /\ catalog'.of = k.begun
      /\ catalog'.steady <=> k.begun = edits
  BY <1>1
<1>4. refresh'.last = k.now
  BY <1>1
<1>5. to = [at |-> "again", process |-> k.process, now |-> k.now, missed |-> k.missed,
            read |-> k.read, begun |-> k.begun, refreshed |-> TRUE, answer |-> k.answer,
            of |-> k.of]
  BY ZenonT(90), <1>1, LookupChanges
<1> HIDE DEF to
<1>6. /\ to.at = "again" /\ to.now = k.now /\ to.missed = k.missed
      /\ to.begun = k.begun /\ to.refreshed = TRUE /\ to.of = k.of /\ IsLookup(to)
  BY <1>5 DEF IsLookup
<1>7. /\ DOMAIN lookups' = Lookers /\ lookups'[l] = to
      /\ \A m \in Lookers \ {l} : lookups'[m] = lookups[m]
  BY <1>1, MoveMoves DEF CatalogInv
<1>8. LookupTypes(l)'
  <2>1. k.of \in 0 .. k.begun
    BY <1>1, <1>2 DEF LookupTypes
  <2> QED BY <1>1, <1>2, <1>3, <1>6, <1>7, <2>1 DEF LookupTypes
<1>9. LoadSound(l)'
  BY <1>2, <1>3, <1>6, <1>7 DEF LoadSound, Searching
<1>10. ASSUME NEW m \in Lookers \ {l}
       PROVE  LookupTypes(m)' /\ LoadSound(m)'
  <2>1. LookupTypes(m) /\ LoadSound(m) /\ lookups[m].at # "loading"
    BY <1>2, <1>10 DEF CatalogInv, LoadSound
  <2>2. LookupTypes(m)'
    BY <1>1, <1>2, <1>3, <1>7, <2>1 DEF LookupTypes
  <2>3. lookups[m].refreshed => lookups[m].missed <= k.begun
    BY <1>2, <2>1 DEF LookupTypes, LoadSound
  <2>4. LoadSound(m)'
    BY <1>3, <1>7, <2>1, <2>3 DEF LoadSound
  <2> QED BY <2>2, <2>4
<1>11. CatalogTypes'
  <2>1. refresh'.locked = NotLocked
    BY <1>1
  <2> QED BY <1>1, <1>2, <1>3, <1>4, <1>7, <2>1 DEF CatalogInv, CatalogTypes
<1>12. LoadsApart'
  <2>1. k.now # Never /\ Cooldown \in Nat /\ k.now \in Nat
    BY <1>2, NeverIsLater, CooldownAssumption, HourAssumption
  <2>2. ASSUME NEW a \in loads
        PROVE  /\ a[2] \in 0 .. LastHour /\ a[2] \in Nat /\ k.now - a[2] >= Cooldown
               /\ a[2] <= k.now
    <3>1. a[2] \in 0 .. LastHour /\ refresh.last # Never /\ a[2] <= refresh.last
      BY <2>2 DEF CatalogInv, LoadsApart
    <3>2. refresh.last \in Nat /\ a[2] \in Nat /\ k.now >= refresh.last + Cooldown
      BY <1>2, <3>1, HourAssumption
    <3> QED BY <2>1, <3>1, <3>2
  <2>3. ASSUME NEW a \in loads'
        PROVE  a[2] \in 0 .. LastHour /\ refresh'.last # Never /\ a[2] <= refresh'.last
    <3>1. CASE a \in loads
      BY <1>4, <2>1, <2>2, <3>1
    <3>2. CASE a = <<l, k.now>>
      BY <1>2, <1>4, <2>1, <3>2
    <3> QED BY <1>1, <3>1, <3>2
  <2>4. ASSUME NEW a \in loads', NEW b \in loads', a # b
        PROVE  a[2] - b[2] >= Cooldown \/ b[2] - a[2] >= Cooldown
    <3>1. CASE a \in loads /\ b \in loads
      BY <2>4, <3>1 DEF CatalogInv, LoadsApart
    <3>2. CASE a \in loads /\ b = <<l, k.now>>
      BY <2>2, <3>2
    <3>3. CASE a = <<l, k.now>> /\ b \in loads
      BY <2>2, <3>3
    <3> QED BY <1>1, <2>4, <3>1, <3>2, <3>3
  <2> QED BY <2>3, <2>4 DEF LoadsApart
<1>13. CatalogCurrent'
  <2> SUFFICES ASSUME k.begun = edits PROVE FromEntries(k.read) = FromEntries(menu)
    BY <1>1, <1>3 DEF CatalogCurrent
  <2>1. \A r \in DOMAIN menu : k.read[r] = menu[r]
    BY <1>1 DEF ReadSoFar
  <2>2. k.read = [r \in DOMAIN menu |-> menu[r]]
    BY <1>1, <2>1 DEF ReadSoFar
  <2>3. menu = [r \in DOMAIN menu |-> menu[r]]
    BY DEF CatalogInv, CatalogTypes
  <2>4. k.read = menu
    BY <2>2, <2>3
  <2> QED BY <2>4
<1> QED BY <1>8, <1>9, <1>10, <1>11, <1>12, <1>13 DEF CatalogInv

(***************************************************************************)
(* A file comes, changes or goes: no load and no catalog is of this        *)
(* change.                                                                 *)
(***************************************************************************)
LEMMA EditMenuSound ==
    ASSUME CatalogInv, NEW root \in DOMAIN menu, NEW id \in AppIds, EditMenu(root, id)
    PROVE  CatalogInv'
<1>1. /\ edits' = edits + 1 /\ UNCHANGED <<hour, catalog, refresh, lookups, loads>>
      /\ edits \in Nat /\ catalog.of \in 0 .. edits
  BY DEF EditMenu, CatalogInv, CatalogTypes
<1>2. \E listed : menu' = [menu EXCEPT ![root] = listed]
  BY DEF EditMenu
<1>3. DOMAIN menu' = DOMAIN menu /\ menu' = [r \in DOMAIN menu' |-> menu'[r]]
  BY <1>2
<1>4. CatalogTypes'
  BY <1>1, <1>3 DEF CatalogInv, CatalogTypes
<1>5. ASSUME NEW l \in Lookers
      PROVE  LookupTypes(l)' /\ LoadSound(l)'
  <2>1. LookupTypes(l) /\ LoadSound(l)
    BY DEF CatalogInv
  <2>2. LookupTypes(l)'
    BY <1>1, <2>1 DEF LookupTypes
  <2>3. lookups[l].begun # edits + 1
    BY <1>1, <2>1 DEF LookupTypes
  <2>4. ReadSoFar(l) => ReadSoFar(l)'
    BY <1>1, <2>3 DEF ReadSoFar
  <2>5. LoadSound(l)'
    BY <1>1, <2>1, <2>4 DEF LoadSound
  <2> QED BY <2>2, <2>5
<1>6. catalog.of # edits'
  BY <1>1
<1> QED BY <1>1, <1>4, <1>5, <1>6 DEF CatalogInv, LoadsApart, CatalogCurrent

(***************************************************************************)
(* Time passes.                                                            *)
(***************************************************************************)
LEMMA HourPassesSound ==
    ASSUME CatalogInv, HourPasses
    PROVE  CatalogInv'
<1>1. hour' \in 0 .. LastHour /\ UNCHANGED <<menu, edits, catalog, refresh, lookups, loads>>
  BY HourAssumption DEF HourPasses, CatalogInv, CatalogTypes
<1>2. CatalogTypes'
  BY <1>1 DEF CatalogInv, CatalogTypes
<1> QED BY <1>1, <1>2 DEF CatalogInv, LookupTypes, LoadSound, ReadSoFar, LoadsApart, CatalogCurrent

(***************************************************************************)
(* Every step keeps the invariant.                                         *)
(***************************************************************************)
LEMMA CatalogStepKeeps ==
    ASSUME CatalogInv, [NextCatalog]_catalogVars
    PROVE  CatalogInv'
<1>1. CASE UNCHANGED catalogVars
  BY <1>1 DEF catalogVars, CatalogInv, CatalogTypes, LookupTypes, LoadSound, ReadSoFar,
              LoadsApart, CatalogCurrent
<1> QED BY <1>1, LookSound, TakeNowSound, LockRefreshSound, LoadRootSound, StoreCatalogSound,
           EditMenuSound, HourPassesSound DEF NextCatalog

(***************************************************************************)
(* A catalog never goes back, a request that loads after a miss is         *)
(* answered from directories as they were after it, loads are a cooldown   *)
(* apart, and an undisturbed load lists the applications of the            *)
(* directories and no other, for any number of requests, directories and   *)
(* files (desktop.rs).                                                     *)
(***************************************************************************)
THEOREM CatalogStands == CatalogSpec => []CatalogHolds
BY CatalogInitially, CatalogMeans, CatalogStepKeeps, PTL DEF CatalogSpec

-----------------------------------------------------------------------------

(***************************************************************************)
(* The windows. What a handler can hear from its window.                   *)
(***************************************************************************)
HeardSet == {"password", "denied", "dismissed"}

(***************************************************************************)
(* How many passwords it has heard.                                        *)
(***************************************************************************)
PasswordsIn(k) == Cardinality({i \in DOMAIN k.heard : k.heard[i] = "password"})

(***************************************************************************)
(* It has heard a final outcome.                                           *)
(***************************************************************************)
Decided(k) == \E i \in DOMAIN k.heard : Final(k.heard[i])

(***************************************************************************)
(* The fields of a request: an EXCEPT leaves all others, and says so only  *)
(* of these.                                                               *)
(***************************************************************************)
IsAsk(k) ==
    k = [at |-> k.at, display |-> k.display, scope |-> k.scope,
         listening |-> k.listening, heard |-> k.heard, verdicts |-> k.verdicts]

(***************************************************************************)
(* The fields of a window.                                                 *)
(***************************************************************************)
IsPanel(p) ==
    p = [at |-> p.at, label |-> p.label, text |-> p.text, enabled |-> p.enabled,
         error |-> p.error, finished |-> p.finished, sender |-> p.sender,
         feedback |-> p.feedback]

(***************************************************************************)
(* The types of a request.                                                 *)
(***************************************************************************)
AskTypes(k) ==
    /\ IsAsk(k)
    /\ k.at \in {"new", "queued", "taken"} /\ k.listening \in BOOLEAN
    /\ k.heard \in Seq(HeardSet) /\ k.verdicts \in Nat

(***************************************************************************)
(* The types of a window.                                                  *)
(***************************************************************************)
PanelTypes(p) ==
    /\ IsPanel(p)
    /\ p.at \in {"none", "shown", "closing", "closed"}
    /\ p.enabled \in BOOLEAN /\ p.error \in BOOLEAN
    /\ p.finished \in BOOLEAN /\ p.sender \in BOOLEAN
    /\ p.feedback \in {"none", "empty"} \cup Verdicts

(***************************************************************************)
(* What the handler has heard by itself: nothing before the request is     *)
(* taken, nothing after a final outcome, and at most one password more     *)
(* than it has judged.                                                     *)
(***************************************************************************)
HeardInOrder(k) ==
    /\ k.at = "new" => ~k.listening
    /\ k.at # "taken" => k.heard = <<>> /\ k.verdicts = 0
    /\ \A i \in DOMAIN k.heard : Final(k.heard[i]) => i = Len(k.heard)
    /\ PasswordsIn(k) <= k.verdicts + 1

(***************************************************************************)
(* A request and its window. A handler that listens has judged all         *)
(* passwords unless the window still waits for its verdict; a wrong        *)
(* password shows only after one; a window that waits cannot be typed      *)
(* into; and a sender is left only as long as nothing is decided, which is *)
(* why a second final outcome cannot follow.                               *)
(***************************************************************************)
Together(k, p) ==
    /\ k.listening /\ p.feedback # "empty" => PasswordsIn(k) <= k.verdicts
    /\ p.feedback = "incorrect" \/ p.error => k.verdicts > 0
    /\ p.feedback # "none" => ~p.enabled /\ p.text = ""
    /\ p.sender => k.at = "taken" /\ ~Decided(k)
    /\ p.at # "none" => k.at = "taken"

(***************************************************************************)
(* A window by where it stands, whether it is Qt's CURRENT, and whether    *)
(* the thread is inside its closing. Between the close that the code asks  *)
(* for and the signal it gets, the window is finished, has no sender and   *)
(* an empty field; after a close of the window manager it is none of these *)
(* until the signal.                                                       *)
(***************************************************************************)
Stage(p, isCurrent, isClosing) ==
    /\ p.at = "none" =>
           /\ p.feedback = "none" /\ p.text = "" /\ ~p.enabled /\ ~p.error /\ ~p.finished
           /\ p.sender <=> isCurrent
    /\ isCurrent => p.at = "none"
    /\ p.at = "shown" => p.sender /\ ~p.finished
    /\ p.at = "closing" <=> isClosing
    /\ p.at = "closing" => (p.finished <=> ~p.sender) /\ (p.finished => p.text = "")
    /\ p.at = "closed" => p.finished /\ ~p.sender /\ ~p.enabled /\ p.text = ""

(***************************************************************************)
(* Each request with its window.                                           *)
(***************************************************************************)
EachAsk ==
    /\ DOMAIN ask = Asks /\ DOMAIN panel = Asks
    /\ \A a \in Asks :
           /\ AskTypes(ask[a]) /\ PanelTypes(panel[a])
           /\ HeardInOrder(ask[a]) /\ Together(ask[a], panel[a])
           /\ Stage(panel[a], a = gui.current.id, a = gui.closing)
           /\ panel[a].at # "none" => panel[a].label \in Labels(a)

(***************************************************************************)
(* The dispatcher: one closing and one CURRENT at a time, whose label is   *)
(* of its request; and after its end neither, no request in the channel    *)
(* and no sender anywhere.                                                 *)
(***************************************************************************)
Dispatching ==
    /\ gui = [at |-> gui.at, closing |-> gui.closing, current |-> gui.current]
    /\ gui.current = [id |-> gui.current.id, label |-> gui.current.label]
    /\ gui.at \in {"running", "ended"}
    /\ gui.closing \in Asks \cup {NoAsk} /\ gui.current.id \in Asks \cup {NoAsk}
    /\ gui.current.id # NoAsk => gui.current.label \in Labels(gui.current.id)
    /\ gui.at = "ended" =>
           /\ gui.closing = NoAsk /\ gui.current.id = NoAsk
           /\ \A a \in Asks : ask[a].at # "queued" /\ ~panel[a].sender

(***************************************************************************)
(* The channel holds each request that waits to be taken once, and nothing *)
(* else.                                                                   *)
(***************************************************************************)
Queued ==
    /\ asked \in Seq(Asks)
    /\ \A i \in DOMAIN asked : ask[asked[i]].at = "queued"
    /\ \A i, j \in DOMAIN asked : asked[i] = asked[j] => i = j
    /\ \A a \in Asks : ask[a].at = "queued" => \E i \in DOMAIN asked : asked[i] = a

(***************************************************************************)
(* The inductive invariant of the windows. WindowsHonest alone is not      *)
(* inductive: it does not say that a handler cannot hear a password or an  *)
(* outcome from a window that it has not answered, that is closing, or     *)
(* that has lost its sender.                                               *)
(***************************************************************************)
WindowsInv == EachAsk /\ Dispatching /\ Queued

(***************************************************************************)
(* One field of a request replaced.                                        *)
(***************************************************************************)
LEMMA AskChanges ==
    ASSUME NEW k, IsAsk(k), NEW x
    PROVE  /\ [k EXCEPT !.at = x] =
                  [at |-> x, display |-> k.display, scope |-> k.scope,
                   listening |-> k.listening, heard |-> k.heard, verdicts |-> k.verdicts]
           /\ [k EXCEPT !.listening = x] =
                  [at |-> k.at, display |-> k.display, scope |-> k.scope,
                   listening |-> x, heard |-> k.heard, verdicts |-> k.verdicts]
           /\ [k EXCEPT !.heard = x] =
                  [at |-> k.at, display |-> k.display, scope |-> k.scope,
                   listening |-> k.listening, heard |-> x, verdicts |-> k.verdicts]
           /\ [k EXCEPT !.verdicts = x] =
                  [at |-> k.at, display |-> k.display, scope |-> k.scope,
                   listening |-> k.listening, heard |-> k.heard, verdicts |-> x]
<1>1. k = [at |-> k.at, display |-> k.display, scope |-> k.scope,
           listening |-> k.listening, heard |-> k.heard, verdicts |-> k.verdicts]
  BY DEF IsAsk
<1>2. [k EXCEPT !.at = x] =
          [at |-> x, display |-> k.display, scope |-> k.scope,
           listening |-> k.listening, heard |-> k.heard, verdicts |-> k.verdicts]
  BY <1>1
<1>3. [k EXCEPT !.listening = x] =
          [at |-> k.at, display |-> k.display, scope |-> k.scope,
           listening |-> x, heard |-> k.heard, verdicts |-> k.verdicts]
  BY <1>1
<1>4. [k EXCEPT !.heard = x] =
          [at |-> k.at, display |-> k.display, scope |-> k.scope,
           listening |-> k.listening, heard |-> x, verdicts |-> k.verdicts]
  BY <1>1
<1>5. [k EXCEPT !.verdicts = x] =
          [at |-> k.at, display |-> k.display, scope |-> k.scope,
           listening |-> k.listening, heard |-> k.heard, verdicts |-> x]
  BY <1>1
<1> QED BY <1>2, <1>3, <1>4, <1>5

(***************************************************************************)
(* One field of a window replaced.                                         *)
(***************************************************************************)
LEMMA PanelChanges ==
    ASSUME NEW k, IsPanel(k), NEW x
    PROVE  /\ [k EXCEPT !.at = x] =
                  [at |-> x, label |-> k.label, text |-> k.text, enabled |-> k.enabled,
                   error |-> k.error, finished |-> k.finished,
                   sender |-> k.sender, feedback |-> k.feedback]
           /\ [k EXCEPT !.label = x] =
                  [at |-> k.at, label |-> x, text |-> k.text, enabled |-> k.enabled,
                   error |-> k.error, finished |-> k.finished,
                   sender |-> k.sender, feedback |-> k.feedback]
           /\ [k EXCEPT !.text = x] =
                  [at |-> k.at, label |-> k.label, text |-> x, enabled |-> k.enabled,
                   error |-> k.error, finished |-> k.finished,
                   sender |-> k.sender, feedback |-> k.feedback]
           /\ [k EXCEPT !.enabled = x] =
                  [at |-> k.at, label |-> k.label, text |-> k.text, enabled |-> x,
                   error |-> k.error, finished |-> k.finished,
                   sender |-> k.sender, feedback |-> k.feedback]
           /\ [k EXCEPT !.error = x] =
                  [at |-> k.at, label |-> k.label, text |-> k.text, enabled |-> k.enabled,
                   error |-> x, finished |-> k.finished,
                   sender |-> k.sender, feedback |-> k.feedback]
           /\ [k EXCEPT !.finished = x] =
                  [at |-> k.at, label |-> k.label, text |-> k.text, enabled |-> k.enabled,
                   error |-> k.error, finished |-> x, sender |-> k.sender, feedback |-> k.feedback]
           /\ [k EXCEPT !.sender = x] =
                  [at |-> k.at, label |-> k.label, text |-> k.text, enabled |-> k.enabled,
                   error |-> k.error, finished |-> k.finished,
                   sender |-> x, feedback |-> k.feedback]
           /\ [k EXCEPT !.feedback = x] =
                  [at |-> k.at, label |-> k.label, text |-> k.text, enabled |-> k.enabled,
                   error |-> k.error, finished |-> k.finished, sender |-> k.sender, feedback |-> x]
<1>1. k = [at |-> k.at, label |-> k.label, text |-> k.text, enabled |-> k.enabled,
           error |-> k.error, finished |-> k.finished, sender |-> k.sender, feedback |-> k.feedback]
  BY DEF IsPanel
<1>2. [k EXCEPT !.at = x] =
          [at |-> x, label |-> k.label, text |-> k.text, enabled |-> k.enabled,
           error |-> k.error, finished |-> k.finished, sender |-> k.sender, feedback |-> k.feedback]
  BY <1>1
<1>3. [k EXCEPT !.label = x] =
          [at |-> k.at, label |-> x, text |-> k.text, enabled |-> k.enabled,
           error |-> k.error, finished |-> k.finished, sender |-> k.sender, feedback |-> k.feedback]
  BY <1>1
<1>4. [k EXCEPT !.text = x] =
          [at |-> k.at, label |-> k.label, text |-> x, enabled |-> k.enabled,
           error |-> k.error, finished |-> k.finished, sender |-> k.sender, feedback |-> k.feedback]
  BY <1>1
<1>5. [k EXCEPT !.enabled = x] =
          [at |-> k.at, label |-> k.label, text |-> k.text, enabled |-> x,
           error |-> k.error, finished |-> k.finished, sender |-> k.sender, feedback |-> k.feedback]
  BY <1>1
<1>6. [k EXCEPT !.error = x] =
          [at |-> k.at, label |-> k.label, text |-> k.text, enabled |-> k.enabled,
           error |-> x, finished |-> k.finished, sender |-> k.sender, feedback |-> k.feedback]
  BY <1>1
<1>7. [k EXCEPT !.finished = x] =
          [at |-> k.at, label |-> k.label, text |-> k.text, enabled |-> k.enabled,
           error |-> k.error, finished |-> x, sender |-> k.sender, feedback |-> k.feedback]
  BY <1>1
<1>8. [k EXCEPT !.sender = x] =
          [at |-> k.at, label |-> k.label, text |-> k.text, enabled |-> k.enabled,
           error |-> k.error, finished |-> k.finished, sender |-> x, feedback |-> k.feedback]
  BY <1>1
<1>9. [k EXCEPT !.feedback = x] =
          [at |-> k.at, label |-> k.label, text |-> k.text, enabled |-> k.enabled,
           error |-> k.error, finished |-> k.finished, sender |-> k.sender, feedback |-> x]
  BY <1>1
<1> QED BY <1>2, <1>3, <1>4, <1>5, <1>6, <1>7, <1>8, <1>9

(***************************************************************************)
(* The window whose field is emptied as its password goes out.             *)
(***************************************************************************)
LEMMA EmptiedIs ==
    ASSUME NEW a, IsPanel(panel[a]), NEW error
    PROVE  Emptied(a, error) =
               [at |-> panel[a].at, label |-> panel[a].label, text |-> "", enabled |-> FALSE,
                error |-> error, finished |-> panel[a].finished,
                sender |-> panel[a].sender, feedback |-> panel[a].feedback]
<1> DEFINE p1 == [panel[a] EXCEPT !.text = ""]
           p2 == [p1 EXCEPT !.enabled = FALSE]
           p3 == [p2 EXCEPT !.error = error]
<1>1. Emptied(a, error) = p3
  BY DEF Emptied
<1>2. /\ IsPanel(p1) /\ p1.at = panel[a].at /\ p1.label = panel[a].label /\ p1.text = ""
      /\ p1.enabled = panel[a].enabled /\ p1.error = panel[a].error
      /\ p1.finished = panel[a].finished
      /\ p1.sender = panel[a].sender /\ p1.feedback = panel[a].feedback
  BY ZenonT(90), PanelChanges DEF IsPanel
<1> HIDE DEF p1
<1>3. /\ IsPanel(p2) /\ p2.at = panel[a].at /\ p2.label = panel[a].label /\ p2.text = ""
      /\ p2.enabled = FALSE /\ p2.error = panel[a].error /\ p2.finished = panel[a].finished
      /\ p2.sender = panel[a].sender /\ p2.feedback = panel[a].feedback
  BY ZenonT(90), <1>2, PanelChanges DEF IsPanel
<1> HIDE DEF p2
<1>4. /\ IsPanel(p3) /\ p3.at = panel[a].at /\ p3.label = panel[a].label /\ p3.text = ""
      /\ p3.enabled = FALSE /\ p3.error = error /\ p3.finished = panel[a].finished
      /\ p3.sender = panel[a].sender /\ p3.feedback = panel[a].feedback
  BY ZenonT(90), <1>3, PanelChanges DEF IsPanel
<1> HIDE DEF p3
<1> QED BY <1>1, <1>4 DEF IsPanel

(***************************************************************************)
(* The window that is told to close.                                       *)
(***************************************************************************)
LEMMA ClosingIs ==
    ASSUME NEW p, IsPanel(p)
    PROVE  Closing(p) =
               [at |-> "closing", label |-> p.label, text |-> p.text, enabled |-> p.enabled,
                error |-> p.error, finished |-> TRUE, sender |-> FALSE, feedback |-> p.feedback]
<1> DEFINE yes == TRUE
           p1 == [p EXCEPT !.at = "closing"]
           p2 == [p1 EXCEPT !.finished = yes]
           p3 == [p2 EXCEPT !.sender = FALSE]
<1>1. Closing(p) = p3
  BY DEF Closing
<1> HIDE DEF yes
<1>2. /\ IsPanel(p1) /\ p1.at = "closing" /\ p1.label = p.label /\ p1.text = p.text
      /\ p1.enabled = p.enabled /\ p1.error = p.error /\ p1.finished = p.finished
      /\ p1.sender = p.sender /\ p1.feedback = p.feedback
  BY ZenonT(90), PanelChanges DEF IsPanel
<1> HIDE DEF p1
<1>3. /\ IsPanel(p2) /\ p2.at = "closing" /\ p2.label = p.label /\ p2.text = p.text
      /\ p2.enabled = p.enabled /\ p2.error = p.error /\ p2.finished = yes
      /\ p2.sender = p.sender /\ p2.feedback = p.feedback
  <2>1. p2 = [at |-> p1.at, label |-> p1.label, text |-> p1.text, enabled |-> p1.enabled,
              error |-> p1.error, finished |-> yes, sender |-> p1.sender, feedback |-> p1.feedback]
    BY <1>2 DEF IsPanel
  <2> HIDE DEF p2
  <2> QED BY <1>2, <2>1 DEF IsPanel
<1> HIDE DEF p2
<1>4. /\ IsPanel(p3) /\ p3.at = "closing" /\ p3.label = p.label /\ p3.text = p.text
      /\ p3.enabled = p.enabled /\ p3.error = p.error /\ p3.finished = yes
      /\ p3.sender = FALSE /\ p3.feedback = p.feedback
  BY ZenonT(90), <1>3, PanelChanges DEF IsPanel
<1> HIDE DEF p3
<1> QED BY <1>1, <1>4 DEF IsPanel, yes

(***************************************************************************)
(* The window that asks for another password.                              *)
(***************************************************************************)
LEMMA AskAgainIs ==
    ASSUME NEW p, IsPanel(p)
    PROVE  AskAgain(p) =
               [at |-> p.at, label |-> p.label, text |-> p.text, enabled |-> TRUE,
                error |-> TRUE, finished |-> p.finished, sender |-> p.sender, feedback |-> "none"]
<1> DEFINE yes == TRUE
           p1 == [p EXCEPT !.enabled = yes]
           p2 == [p1 EXCEPT !.error = yes]
           p3 == [p2 EXCEPT !.feedback = "none"]
<1>1. AskAgain(p) = p3
  BY DEF AskAgain
<1> HIDE DEF yes
<1>2. /\ IsPanel(p1) /\ p1.at = p.at /\ p1.label = p.label /\ p1.text = p.text
      /\ p1.enabled = yes /\ p1.error = p.error /\ p1.finished = p.finished
      /\ p1.sender = p.sender /\ p1.feedback = p.feedback
  BY ZenonT(90), PanelChanges DEF IsPanel
<1> HIDE DEF p1
<1>3. /\ IsPanel(p2) /\ p2.at = p.at /\ p2.label = p.label /\ p2.text = p.text
      /\ p2.enabled = yes /\ p2.error = yes /\ p2.finished = p.finished
      /\ p2.sender = p.sender /\ p2.feedback = p.feedback
  BY ZenonT(90), <1>2, PanelChanges DEF IsPanel
<1> HIDE DEF p2
<1>4. /\ IsPanel(p3) /\ p3.at = p.at /\ p3.label = p.label /\ p3.text = p.text
      /\ p3.enabled = yes /\ p3.error = yes /\ p3.finished = p.finished
      /\ p3.sender = p.sender /\ p3.feedback = "none"
  BY ZenonT(90), <1>3, PanelChanges DEF IsPanel
<1> HIDE DEF p3
<1> QED BY <1>1, <1>4 DEF IsPanel, yes

(***************************************************************************)
(* A new window.                                                           *)
(***************************************************************************)
LEMMA NewPanelIs ==
    ASSUME NEW label
    PROVE  NewPanel(label) =
               [at |-> "shown", label |-> label, text |-> "", enabled |-> TRUE,
                error |-> FALSE, finished |-> FALSE, sender |-> TRUE, feedback |-> "none"]
<1> DEFINE yes == TRUE
           p0 == NoPanel
           p1 == [p0 EXCEPT !.at = "shown"]
           p2 == [p1 EXCEPT !.label = label]
           p3 == [p2 EXCEPT !.enabled = yes]
           p4 == [p3 EXCEPT !.sender = yes]
<1>1. NewPanel(label) = p4
  BY DEF NewPanel
<1> HIDE DEF yes
<1>2. /\ IsPanel(p0) /\ p0.at = "none" /\ p0.label = NoLabel /\ p0.text = "" /\ p0.enabled = FALSE
      /\ p0.error = FALSE /\ p0.finished = FALSE /\ p0.sender = FALSE /\ p0.feedback = "none"
  BY DEF NoPanel, IsPanel
<1>3. /\ IsPanel(p1) /\ p1.at = "shown" /\ p1.label = NoLabel /\ p1.text = ""
      /\ p1.enabled = FALSE /\ p1.error = FALSE /\ p1.finished = FALSE
      /\ p1.sender = FALSE /\ p1.feedback = "none"
  BY ZenonT(90), <1>2, PanelChanges DEF IsPanel
<1> HIDE DEF p1
<1>4. /\ IsPanel(p2) /\ p2.at = "shown" /\ p2.label = label /\ p2.text = ""
      /\ p2.enabled = FALSE /\ p2.error = FALSE /\ p2.finished = FALSE
      /\ p2.sender = FALSE /\ p2.feedback = "none"
  <2>1. p2 = [at |-> p1.at, label |-> label, text |-> p1.text, enabled |-> p1.enabled,
              error |-> p1.error, finished |-> p1.finished,
              sender |-> p1.sender, feedback |-> p1.feedback]
    BY <1>3, PanelChanges
  <2> HIDE DEF p2
  <2> QED BY <1>3, <2>1 DEF IsPanel
<1> HIDE DEF p2
<1>5. /\ IsPanel(p3) /\ p3.at = "shown" /\ p3.label = label /\ p3.text = ""
      /\ p3.enabled = yes /\ p3.error = FALSE /\ p3.finished = FALSE
      /\ p3.sender = FALSE /\ p3.feedback = "none"
  BY ZenonT(90), <1>4, PanelChanges DEF IsPanel
<1> HIDE DEF p3
<1>6. /\ IsPanel(p4) /\ p4.at = "shown" /\ p4.label = label /\ p4.text = ""
      /\ p4.enabled = yes /\ p4.error = FALSE /\ p4.finished = FALSE
      /\ p4.sender = yes /\ p4.feedback = "none"
  BY ZenonT(90), <1>5, PanelChanges DEF IsPanel
<1> HIDE DEF p4
<1> QED BY <1>1, <1>6 DEF IsPanel, yes

(***************************************************************************)
(* The verdict reaches a oneshot that waits for it, and no other.          *)
(***************************************************************************)
LEMMA FedIs ==
    ASSUME NEW p, PanelTypes(p), NEW verdict \in Verdicts
    PROVE  /\ PanelTypes(Fed(p, verdict))
           /\ Fed(p, verdict).at = p.at /\ Fed(p, verdict).label = p.label
           /\ Fed(p, verdict).text = p.text /\ Fed(p, verdict).enabled = p.enabled
           /\ Fed(p, verdict).error = p.error /\ Fed(p, verdict).finished = p.finished
           /\ Fed(p, verdict).sender = p.sender
           /\ Fed(p, verdict).feedback = IF p.feedback = "empty" THEN verdict ELSE p.feedback
<1>1. CASE p.feedback = "empty"
  <2> DEFINE q == [p EXCEPT !.feedback = verdict]
  <2>1. Fed(p, verdict) = q
    BY <1>1 DEF Fed
  <2>2. q = [at |-> p.at, label |-> p.label, text |-> p.text, enabled |-> p.enabled,
             error |-> p.error, finished |-> p.finished, sender |-> p.sender,
             feedback |-> verdict]
    BY PanelChanges DEF PanelTypes
  <2> HIDE DEF q
  <2> QED BY <1>1, <2>1, <2>2 DEF PanelTypes, IsPanel
<1>2. CASE p.feedback # "empty"
  BY <1>2 DEF Fed
<1> QED BY <1>1, <1>2

-----------------------------------------------------------------------------

(***************************************************************************)
(* One more outcome heard is one more password, or none.                   *)
(***************************************************************************)
LEMMA PasswordsCount ==
    ASSUME NEW k, k.heard \in Seq(HeardSet), NEW outcome \in HeardSet,
           NEW j, j.heard = Append(k.heard, outcome)
    PROVE  /\ PasswordsIn(k) \in Nat
           /\ outcome = "password" => PasswordsIn(j) = PasswordsIn(k) + 1
           /\ outcome # "password" => PasswordsIn(j) = PasswordsIn(k)
<1> DEFINE n == Len(k.heard)
           before == {i \in DOMAIN k.heard : k.heard[i] = "password"}
           after == {i \in DOMAIN j.heard : j.heard[i] = "password"}
<1>1. n \in Nat /\ DOMAIN k.heard = 1 .. n
  OBVIOUS
<1>2. /\ DOMAIN j.heard = 1 .. n + 1 /\ j.heard[n + 1] = outcome
      /\ \A i \in 1 .. n : j.heard[i] = k.heard[i]
  BY <1>1
<1>3. IsFiniteSet(before)
  <2>1. before \subseteq 1 .. n /\ IsFiniteSet(1 .. n)
    BY <1>1, FS_Interval
  <2> QED BY <2>1, FS_Subset
<1>4. n + 1 \notin before
  BY <1>1
<1>5. CASE outcome = "password"
  <2>1. after = before \cup {n + 1}
    BY <1>1, <1>2, <1>5
  <2> QED BY ZenonT(90), <1>3, <1>4, <1>5, <2>1, FS_AddElement, FS_CardinalityType DEF PasswordsIn
<1>6. CASE outcome # "password"
  <2>1. after = before
    BY <1>1, <1>2, <1>6
  <2> QED BY <1>3, <1>6, <2>1, FS_CardinalityType DEF PasswordsIn
<1> QED BY <1>5, <1>6

(***************************************************************************)
(* How many passwords were heard is a number.                              *)
(***************************************************************************)
LEMMA PasswordsNumber ==
    ASSUME NEW k, k.heard \in Seq(HeardSet)
    PROVE  PasswordsIn(k) \in Nat
<1>1. DOMAIN k.heard = 1 .. Len(k.heard) /\ Len(k.heard) \in Nat
  OBVIOUS
<1>2. IsFiniteSet(1 .. Len(k.heard))
  BY <1>1, FS_Interval
<1>3. IsFiniteSet({i \in DOMAIN k.heard : k.heard[i] = "password"})
  BY <1>1, <1>2, FS_Subset
<1> QED BY <1>3, FS_CardinalityType DEF PasswordsIn

(***************************************************************************)
(* An outcome is heard by a handler that listens, and by no other: one     *)
(* more password if it is one, and final at the end, if nothing was final  *)
(* before.                                                                 *)
(***************************************************************************)
LEMMA HeardSays ==
    ASSUME NEW a, AskTypes(ask[a]), HeardInOrder(ask[a]), NEW outcome \in HeardSet,
           ask[a].at # "new",
           ~Decided(ask[a])
    PROVE  LET k == Heard(a, outcome)
           IN  /\ AskTypes(k) /\ k.at = ask[a].at
               /\ k.display = ask[a].display /\ k.scope = ask[a].scope
               /\ k.listening = ask[a].listening /\ k.verdicts = ask[a].verdicts
               /\ \A i \in DOMAIN k.heard : Final(k.heard[i]) => i = Len(k.heard)
               /\ PasswordsIn(ask[a]) \in Nat
               /\ ~k.listening => k = ask[a]
               /\ k.listening =>
                      /\ outcome = "password" => PasswordsIn(k) = PasswordsIn(ask[a]) + 1
                      /\ outcome # "password" => PasswordsIn(k) = PasswordsIn(ask[a])
               /\ outcome = "password" => ~Decided(k)
<1> DEFINE k == Heard(a, outcome)
           heard == Append(ask[a].heard, outcome)
<1>1. IsAsk(ask[a]) /\ ask[a].heard \in Seq(HeardSet)
  BY DEF AskTypes
<1>2. CASE ask[a].listening
  <2>1. k = [ask[a] EXCEPT !.heard = heard]
    BY <1>2 DEF Heard
  <2>2. k = [at |-> ask[a].at, display |-> ask[a].display, scope |-> ask[a].scope,
             listening |-> ask[a].listening, heard |-> heard, verdicts |-> ask[a].verdicts]
    BY <1>1, <2>1, AskChanges
  <2> HIDE DEF k
  <2>3. heard \in Seq(HeardSet)
    BY <1>1
  <2>4. AskTypes(k) /\ k.heard = heard
    BY <2>2, <2>3 DEF AskTypes, IsAsk
  <2>5. /\ PasswordsIn(ask[a]) \in Nat
        /\ outcome = "password" => PasswordsIn(k) = PasswordsIn(ask[a]) + 1
        /\ outcome # "password" => PasswordsIn(k) = PasswordsIn(ask[a])
    BY <1>1, <2>4, PasswordsCount
  <2>6. /\ DOMAIN heard = 1 .. Len(ask[a].heard) + 1 /\ Len(heard) = Len(ask[a].heard) + 1
        /\ DOMAIN ask[a].heard = 1 .. Len(ask[a].heard) /\ Len(ask[a].heard) \in Nat
        /\ \A i \in 1 .. Len(ask[a].heard) : heard[i] = ask[a].heard[i]
        /\ heard[Len(ask[a].heard) + 1] = outcome
    BY <1>1
  <2>7. \A i \in DOMAIN k.heard : Final(k.heard[i]) => i = Len(k.heard)
    BY <2>4, <2>6 DEF Decided
  <2>8. outcome = "password" => ~Decided(k)
    BY <2>4, <2>6 DEF Decided, Final
  <2> HIDE DEF heard
  <2>9. /\ k.at = ask[a].at /\ k.display = ask[a].display /\ k.scope = ask[a].scope
        /\ k.listening = ask[a].listening /\ k.verdicts = ask[a].verdicts
    BY <2>2
  <2>10. k.listening
    BY <1>2, <2>9
  <2> QED BY <2>4, <2>5, <2>7, <2>8, <2>9, <2>10 DEF k
<1>3. CASE ~ask[a].listening
  <2>1. k = ask[a]
    BY <1>3 DEF Heard
  <2>2. PasswordsIn(ask[a]) \in Nat
    BY <1>1, PasswordsNumber
  <2> HIDE DEF k
  <2>3. ~k.listening /\ ~Decided(k)
    BY <1>3, <2>1
  <2>4. \A i \in DOMAIN k.heard : Final(k.heard[i]) => i = Len(k.heard)
    BY <2>1 DEF HeardInOrder
  <2>5. AskTypes(k)
    BY <2>1
  <2> QED BY <2>1, <2>2, <2>3, <2>4, <2>5 DEF k
<1> QED BY <1>2, <1>3 DEF AskTypes

-----------------------------------------------------------------------------

(***************************************************************************)
(* What a request may show depends on what it is about, and on the         *)
(* desktop.                                                                *)
(***************************************************************************)
LEMMA LabelsStay ==
    ASSUME UNCHANGED desk, NEW a, ask'[a].display = ask[a].display, ask'[a].scope = ask[a].scope
    PROVE  Labels(a)' = Labels(a)
BY DEF Labels

(***************************************************************************)
(* The function f with x at a.                                             *)
(***************************************************************************)
Puts(g, f, a, x) == DOMAIN g = Asks /\ g[a] = x /\ \A b \in Asks \ {a} : g[b] = f[b]

(***************************************************************************)
(* An assignment at a, and none at all.                                    *)
(***************************************************************************)
LEMMA PutsAt ==
    ASSUME NEW f, DOMAIN f = Asks, NEW a \in Asks, NEW x
    PROVE  Puts([f EXCEPT ![a] = x], f, a, x) /\ Puts(f, f, a, f[a])
BY DEF Puts

(***************************************************************************)
(* An action that changes one request and its window keeps EachAsk, if     *)
(* they are right together and the dispatcher's place of the others is     *)
(* theirs.                                                                 *)
(***************************************************************************)
LEMMA OneMoves ==
    ASSUME EachAsk, UNCHANGED desk, NEW a \in Asks, NEW k, NEW p,
           Puts(ask', ask, a, k), Puts(panel', panel, a, p),
           k.display = ask[a].display, k.scope = ask[a].scope,
           AskTypes(k), PanelTypes(p), HeardInOrder(k), Together(k, p),
           Stage(p, a = gui'.current.id, a = gui'.closing),
           \A b \in Asks \ {a} : /\ b = gui'.current.id <=> b = gui.current.id
                                 /\ b = gui'.closing <=> b = gui.closing,
           p.at # "none" => p.label \in Labels(a)
    PROVE  EachAsk' /\ \A b \in Asks : Labels(b)' = Labels(b)
<1>1. /\ DOMAIN ask' = Asks /\ DOMAIN panel' = Asks /\ ask'[a] = k /\ panel'[a] = p
      /\ \A b \in Asks \ {a} : ask'[b] = ask[b] /\ panel'[b] = panel[b]
  BY DEF Puts
<1>2. \A b \in Asks : Labels(b)' = Labels(b)
  BY <1>1, LabelsStay
<1>3. ASSUME NEW b \in Asks
      PROVE  /\ AskTypes(ask'[b]) /\ PanelTypes(panel'[b])
             /\ HeardInOrder(ask'[b]) /\ Together(ask'[b], panel'[b])
             /\ Stage(panel'[b], b = gui'.current.id, b = gui'.closing)
             /\ panel'[b].at # "none" => panel'[b].label \in Labels(b)'
  <2>1. CASE b = a
    BY <1>1, <1>2, <2>1
  <2>2. CASE b # a
    <3>1. /\ AskTypes(ask[b]) /\ PanelTypes(panel[b])
          /\ HeardInOrder(ask[b]) /\ Together(ask[b], panel[b])
          /\ Stage(panel[b], b = gui.current.id, b = gui.closing)
          /\ panel[b].at # "none" => panel[b].label \in Labels(b)
      BY DEF EachAsk
    <3>2. Stage(panel[b], b = gui'.current.id, b = gui'.closing)
      BY <2>2, <3>1 DEF Stage
    <3> QED BY <1>1, <1>2, <2>2, <3>1, <3>2
  <2> QED BY <2>1, <2>2
<1> QED BY <1>1, <1>2, <1>3 DEF EachAsk

(***************************************************************************)
(* An action that moves no request keeps the channel.                      *)
(***************************************************************************)
LEMMA QueueStays ==
    ASSUME Queued, UNCHANGED asked, \A b \in Asks : ask'[b].at = ask[b].at
    PROVE  Queued'
<1>1. \A i \in DOMAIN asked : asked[i] \in Asks
  BY DEF Queued
<1> QED BY <1>1 DEF Queued

(***************************************************************************)
(* The first request leaves the channel.                                   *)
(***************************************************************************)
LEMMA QueueTakes ==
    ASSUME Queued, asked # <<>>, asked' = Tail(asked), ask'[Head(asked)].at = "taken",
           \A b \in Asks \ {Head(asked)} : ask'[b].at = ask[b].at
    PROVE  Queued'
<1>1. /\ asked \in Seq(Asks) /\ Len(asked) \in Nat /\ Len(asked) > 0
      /\ DOMAIN asked = 1 .. Len(asked) /\ Head(asked) = asked[1]
  BY DEF Queued
<1>2. /\ asked' \in Seq(Asks) /\ DOMAIN asked' = 1 .. Len(asked) - 1
      /\ \A i \in 1 .. Len(asked) - 1 : asked'[i] = asked[i + 1]
  BY <1>1
<1>3. \A i, j \in DOMAIN asked : asked[i] = asked[j] => i = j
  BY DEF Queued
<1>4. \A i \in 1 .. Len(asked) - 1 : asked'[i] \in Asks \ {Head(asked)}
  BY <1>1, <1>2, <1>3
<1>5. \A i \in DOMAIN asked' : ask'[asked'[i]].at = "queued"
  <2> SUFFICES ASSUME NEW i \in DOMAIN asked' PROVE ask'[asked'[i]].at = "queued"
    OBVIOUS
  <2>1. asked'[i] = asked[i + 1] /\ i + 1 \in DOMAIN asked /\ asked'[i] \in Asks \ {Head(asked)}
    BY <1>1, <1>2, <1>4
  <2>2. ask[asked[i + 1]].at = "queued"
    BY <2>1 DEF Queued
  <2> QED BY <2>1, <2>2
<1>6. \A i, j \in DOMAIN asked' : asked'[i] = asked'[j] => i = j
  <2> SUFFICES ASSUME NEW i \in DOMAIN asked', NEW j \in DOMAIN asked', asked'[i] = asked'[j]
               PROVE  i = j
    OBVIOUS
  <2>1. asked[i + 1] = asked[j + 1] /\ i + 1 \in DOMAIN asked /\ j + 1 \in DOMAIN asked
    BY <1>1, <1>2
  <2>2. i + 1 = j + 1
    BY <2>1, <1>3
  <2> QED BY <1>2, <2>2
<1>7. ASSUME NEW b \in Asks, ask'[b].at = "queued" PROVE \E i \in DOMAIN asked' : asked'[i] = b
  <2>1. b # Head(asked)
    BY <1>7
  <2>2. ask[b].at = "queued"
    BY <1>7, <2>1
  <2>3. PICK i \in DOMAIN asked : asked[i] = b
    BY <2>2 DEF Queued
  <2>4. i # 1 /\ i - 1 \in DOMAIN asked'
    BY <1>1, <1>2, <2>1, <2>3
  <2>5. asked'[i - 1] = b
    BY <1>1, <1>2, <2>3, <2>4
  <2> QED BY <2>4, <2>5
<1> QED BY <1>2, <1>5, <1>6, <1>7 DEF Queued

(***************************************************************************)
(* A new request enters the channel.                                       *)
(***************************************************************************)
LEMMA QueueGrows ==
    ASSUME Queued, NEW a \in Asks, ask[a].at = "new", asked' = Append(asked, a),
           ask'[a].at = "queued",
           \A b \in Asks \ {a} : ask'[b].at = ask[b].at
    PROVE  Queued'
<1>1. /\ asked \in Seq(Asks) /\ Len(asked) \in Nat /\ DOMAIN asked = 1 .. Len(asked)
  BY DEF Queued
<1>2. /\ asked' \in Seq(Asks) /\ DOMAIN asked' = 1 .. Len(asked) + 1
      /\ asked'[Len(asked) + 1] = a
      /\ \A i \in 1 .. Len(asked) : asked'[i] = asked[i]
  BY <1>1
<1>3. \A i \in 1 .. Len(asked) : asked[i] \in Asks \ {a} /\ ask[asked[i]].at = "queued"
  BY <1>1 DEF Queued
<1>4. \A i \in DOMAIN asked' : ask'[asked'[i]].at = "queued"
  BY <1>1, <1>2, <1>3
<1>5. \A i, j \in DOMAIN asked' : asked'[i] = asked'[j] => i = j
  <2>1. \A i, j \in 1 .. Len(asked) : asked[i] = asked[j] => i = j
    BY <1>1 DEF Queued
  <2> QED BY <1>1, <1>2, <1>3, <2>1
<1>6. ASSUME NEW b \in Asks, ask'[b].at = "queued" PROVE \E i \in DOMAIN asked' : asked'[i] = b
  <2>1. CASE b = a
    <3>1. Len(asked) + 1 \in DOMAIN asked'
      BY <1>1, <1>2
    <3> QED BY <1>2, <2>1, <3>1
  <2>2. CASE b # a
    <3>1. PICK i \in DOMAIN asked : asked[i] = b
      BY <1>6, <2>2 DEF Queued
    <3>2. i \in DOMAIN asked' /\ asked'[i] = b
      BY <1>1, <1>2, <3>1
    <3> QED BY <3>2
  <2> QED BY <2>1, <2>2
<1> QED BY <1>2, <1>4, <1>5, <1>6 DEF Queued

(***************************************************************************)
(* The actions on one window: within the dispatcher's place, into a        *)
(* closing, out of it, or out of CURRENT.                                  *)
(***************************************************************************)
LEMMA PanelMoves ==
    ASSUME WindowsInv, UNCHANGED <<desk, asked>>, NEW a \in Asks, NEW k, NEW p,
           Puts(ask', ask, a, k), Puts(panel', panel, a, p),
           k.at = ask[a].at, k.display = ask[a].display, k.scope = ask[a].scope,
           AskTypes(k), PanelTypes(p), HeardInOrder(k), Together(k, p),
           p.at # "none" => p.label \in Labels(a),
           \/ /\ UNCHANGED gui /\ (p.sender => panel[a].sender)
              /\ Stage(p, a = gui.current.id, a = gui.closing)
           \/ /\ gui' = [gui EXCEPT !.closing = a]
              /\ gui.at = "running" /\ gui.closing = NoAsk /\ gui.current.id = NoAsk
              /\ Stage(p, FALSE, TRUE)
           \/ /\ gui' = [gui EXCEPT !.closing = NoAsk] /\ gui.closing = a
              /\ Stage(p, a = gui.current.id, FALSE)
           \/ /\ gui' = [gui EXCEPT !.current = NoCurrent] /\ gui.current.id = a
              /\ Stage(p, FALSE, a = gui.closing)
    PROVE  WindowsInv'
<1>1. EachAsk /\ Dispatching /\ Queued
  BY DEF WindowsInv
<1>2. /\ gui = [at |-> gui.at, closing |-> gui.closing, current |-> gui.current]
      /\ gui.current = [id |-> gui.current.id, label |-> gui.current.label]
  BY <1>1 DEF Dispatching
<1>3. gui.closing = a \/ gui.current.id = a => gui.at = "running"
  BY <1>1, WindowsAssumption DEF Dispatching
<1>4. /\ gui'.at = gui.at
      /\ gui' = [at |-> gui'.at, closing |-> gui'.closing, current |-> gui'.current]
      /\ gui'.current = [id |-> gui'.current.id, label |-> gui'.current.label]
      /\ gui'.closing \in Asks \cup {NoAsk} /\ gui'.current.id \in {NoAsk, gui.current.id}
      /\ gui'.current.id # NoAsk => gui'.current = gui.current
      /\ gui.at = "running" \/ (UNCHANGED gui /\ (p.sender => panel[a].sender))
      /\ \A b \in Asks \ {a} : /\ b = gui'.current.id <=> b = gui.current.id
                               /\ b = gui'.closing <=> b = gui.closing
      /\ Stage(p, a = gui'.current.id, a = gui'.closing)
  <2>1. CASE UNCHANGED gui /\ (p.sender => panel[a].sender)
             /\ Stage(p, a = gui.current.id, a = gui.closing)
    BY <1>1, <1>2, <2>1 DEF Dispatching
  <2>2. CASE /\ gui' = [gui EXCEPT !.closing = a]
             /\ gui.at = "running" /\ gui.closing = NoAsk /\ gui.current.id = NoAsk
             /\ Stage(p, FALSE, TRUE)
    <3>1. gui' = [at |-> gui.at, closing |-> a, current |-> gui.current]
      BY <1>2, <2>2
    <3>2. Stage(p, a = gui'.current.id, a = gui'.closing)
      BY ZenonT(90), <2>2, <3>1, WindowsAssumption DEF Stage
    <3> QED BY <1>2, <2>2, <3>1, <3>2, WindowsAssumption
  <2>3. CASE /\ gui' = [gui EXCEPT !.closing = NoAsk] /\ gui.closing = a
             /\ Stage(p, a = gui.current.id, FALSE)
    <3>1. gui' = [at |-> gui.at, closing |-> NoAsk, current |-> gui.current]
      BY <1>2, <2>3
    <3>2. Stage(p, a = gui'.current.id, a = gui'.closing)
      BY <2>3, <3>1, WindowsAssumption DEF Stage
    <3> QED BY <1>2, <1>3, <2>3, <3>1, <3>2, WindowsAssumption
  <2>4. CASE /\ gui' = [gui EXCEPT !.current = NoCurrent] /\ gui.current.id = a
             /\ Stage(p, FALSE, a = gui.closing)
    <3>1. gui' = [at |-> gui.at, closing |-> gui.closing, current |-> NoCurrent]
      BY <1>2, <2>4
    <3>2. NoCurrent = [id |-> NoAsk, label |-> NoCurrent.label]
      BY DEF NoCurrent
    <3>3. Stage(p, a = gui'.current.id, a = gui'.closing)
      <4>1. a # gui'.current.id /\ gui'.closing = gui.closing
        BY <3>1, <3>2, WindowsAssumption
      <4>2. Stage(p, FALSE, a = gui'.closing)
        BY <2>4, <4>1
      <4> QED BY <4>1, <4>2 DEF Stage
    <3>4. gui.closing \in Asks \cup {NoAsk}
      BY <1>1 DEF Dispatching
    <3> QED BY <1>2, <1>3, <2>4, <3>1, <3>2, <3>3, <3>4, WindowsAssumption
  <2> QED BY <2>1, <2>2, <2>3, <2>4
<1>5. EachAsk' /\ \A b \in Asks : Labels(b)' = Labels(b)
  BY <1>1, <1>4, OneMoves
<1>6. /\ \A b \in Asks : ask'[b].at = ask[b].at
      /\ ask'[a] = k /\ panel'[a] = p
      /\ \A b \in Asks \ {a} : panel'[b] = panel[b]
  BY DEF Puts
<1>7. Queued'
  BY <1>1, <1>6, QueueStays
<1>8. Dispatching'
  <2>1. gui'.at \in {"running", "ended"}
    BY <1>1, <1>4 DEF Dispatching
  <2>2. (gui.current.id # NoAsk => gui.current.label \in Labels(gui.current.id))'
    <3> SUFFICES ASSUME gui'.current.id # NoAsk
                 PROVE  (gui.current.label \in Labels(gui.current.id))'
      OBVIOUS
    <3> DEFINE b == gui.current.id
    <3>1. b \in Asks /\ gui'.current = gui.current /\ gui.current.label \in Labels(b)
      BY <1>1, <1>4 DEF Dispatching
    <3>2. ask'[b].display = ask[b].display /\ ask'[b].scope = ask[b].scope
      BY <3>1 DEF Puts
    <3> QED BY <3>1, <3>2 DEF Labels
  <2>3. gui'.at = "ended" =>
            /\ gui'.closing = NoAsk /\ gui'.current.id = NoAsk
            /\ \A b \in Asks : ask'[b].at # "queued" /\ ~panel'[b].sender
    BY <1>1, <1>4, <1>6 DEF Dispatching
  <2>4. gui'.current.id \in Asks \cup {NoAsk}
    BY <1>1, <1>4 DEF Dispatching
  <2> QED BY <1>4, <2>1, <2>2, <2>3, <2>4 DEF Dispatching
<1> QED BY <1>5, <1>7, <1>8 DEF WindowsInv

(***************************************************************************)
(* What a callback finds of its window: shown, with its sender, and        *)
(* nothing decided.                                                        *)
(***************************************************************************)
LEMMA CallbackFinds ==
    ASSUME WindowsInv, NEW a \in Asks
    PROVE  /\ DOMAIN ask = Asks /\ DOMAIN panel = Asks
           /\ AskTypes(ask[a]) /\ PanelTypes(panel[a]) /\ IsPanel(panel[a]) /\ IsAsk(ask[a])
           /\ HeardInOrder(ask[a]) /\ Together(ask[a], panel[a])
           /\ Stage(panel[a], a = gui.current.id, a = gui.closing)
           /\ panel[a].at # "none" => panel[a].label \in Labels(a)
           /\ Callback(a) => /\ gui.at = "running" /\ gui.closing = NoAsk /\ gui.current.id = NoAsk
                             /\ panel[a].at = "shown" /\ panel[a].sender /\ ~panel[a].finished
                             /\ ask[a].at = "taken" /\ ~Decided(ask[a])
                             /\ Stage(panel[a], FALSE, FALSE)
<1>1. /\ DOMAIN ask = Asks /\ DOMAIN panel = Asks
      /\ AskTypes(ask[a]) /\ PanelTypes(panel[a])
      /\ HeardInOrder(ask[a]) /\ Together(ask[a], panel[a])
      /\ Stage(panel[a], a = gui.current.id, a = gui.closing)
      /\ panel[a].at # "none" => panel[a].label \in Labels(a)
  BY DEF WindowsInv, EachAsk
<1>2. IsPanel(panel[a]) /\ IsAsk(ask[a])
  BY <1>1 DEF PanelTypes, AskTypes
<1>3. ASSUME Callback(a)
      PROVE  /\ gui.at = "running" /\ gui.closing = NoAsk /\ gui.current.id = NoAsk
             /\ panel[a].at = "shown" /\ panel[a].sender /\ ~panel[a].finished
             /\ ask[a].at = "taken" /\ ~Decided(ask[a])
             /\ Stage(panel[a], FALSE, FALSE)
  <2>1. /\ gui.at = "running" /\ gui.closing = NoAsk /\ gui.current.id = NoAsk
        /\ panel[a].at = "shown"
    BY <1>3 DEF Callback, GuiThread
  <2>2. panel[a].sender /\ ~panel[a].finished
    BY <1>1, <2>1 DEF Stage
  <2>3. ask[a].at = "taken" /\ ~Decided(ask[a])
    BY <1>1, <2>2 DEF Together
  <2>4. Stage(panel[a], FALSE, FALSE)
    BY <1>1, <2>1, WindowsAssumption DEF Stage
  <2> QED BY <2>1, <2>2, <2>3, <2>4
<1> QED BY <1>1, <1>2, <1>3

(***************************************************************************)
(* The user types.                                                         *)
(***************************************************************************)
LEMMA TypeSound ==
    ASSUME WindowsInv, NEW a \in Asks, Type(a)
    PROVE  WindowsInv'
<1> DEFINE p == [panel[a] EXCEPT !.text = "password"]
<1>1. /\ Callback(a) /\ panel[a].enabled
      /\ panel' = [panel EXCEPT ![a] = p] /\ UNCHANGED <<desk, ask, gui, asked>>
  BY DEF Type
<1>2. /\ DOMAIN ask = Asks /\ DOMAIN panel = Asks
      /\ AskTypes(ask[a]) /\ PanelTypes(panel[a]) /\ IsPanel(panel[a])
      /\ HeardInOrder(ask[a]) /\ Together(ask[a], panel[a])
      /\ panel[a].label \in Labels(a)
      /\ gui.closing = NoAsk /\ gui.current.id = NoAsk
      /\ panel[a].at = "shown" /\ Stage(panel[a], FALSE, FALSE)
  BY <1>1, CallbackFinds
<1>3. p = [at |-> panel[a].at, label |-> panel[a].label, text |-> "password",
           enabled |-> panel[a].enabled, error |-> panel[a].error,
           finished |-> panel[a].finished, sender |-> panel[a].sender,
           feedback |-> panel[a].feedback]
  BY <1>2, PanelChanges
<1>4. Puts(ask', ask, a, ask[a]) /\ Puts(panel', panel, a, p)
  BY <1>1, <1>2, PutsAt
<1> HIDE DEF p
<1>5. PanelTypes(p)
  BY <1>2, <1>3 DEF PanelTypes, IsPanel
<1>6. Together(ask[a], p)
  BY <1>1, <1>2, <1>3 DEF Together
<1>7. Stage(p, a = gui.current.id, a = gui.closing)
  BY <1>2, <1>3, WindowsAssumption DEF Stage
<1> QED BY <1>1, <1>2, <1>3, <1>4, <1>5, <1>6, <1>7, PanelMoves

(***************************************************************************)
(* The window manager closes the window.                                   *)
(***************************************************************************)
LEMMA CloseByManagerSound ==
    ASSUME WindowsInv, NEW a \in Asks, CloseByManager(a)
    PROVE  WindowsInv'
<1> DEFINE p == [panel[a] EXCEPT !.at = "closing"]
<1>1. /\ Callback(a) /\ gui' = [gui EXCEPT !.closing = a]
      /\ panel' = [panel EXCEPT ![a] = p] /\ UNCHANGED <<desk, ask, asked>>
  BY DEF CloseByManager, Close
<1>2. /\ DOMAIN ask = Asks /\ DOMAIN panel = Asks
      /\ AskTypes(ask[a]) /\ PanelTypes(panel[a]) /\ IsPanel(panel[a])
      /\ HeardInOrder(ask[a]) /\ Together(ask[a], panel[a])
      /\ panel[a].label \in Labels(a) /\ ask[a].at = "taken"
      /\ gui.at = "running" /\ gui.closing = NoAsk /\ gui.current.id = NoAsk
      /\ panel[a].at = "shown" /\ Stage(panel[a], FALSE, FALSE)
  BY <1>1, CallbackFinds
<1>3. p = [at |-> "closing", label |-> panel[a].label, text |-> panel[a].text,
           enabled |-> panel[a].enabled, error |-> panel[a].error,
           finished |-> panel[a].finished, sender |-> panel[a].sender,
           feedback |-> panel[a].feedback]
  BY ZenonT(90), <1>2, PanelChanges
<1>4. Puts(ask', ask, a, ask[a]) /\ Puts(panel', panel, a, p)
  BY <1>1, <1>2, PutsAt
<1> HIDE DEF p
<1>5. PanelTypes(p)
  BY <1>2, <1>3 DEF PanelTypes, IsPanel
<1>6. Together(ask[a], p)
  BY <1>1, <1>2, <1>3 DEF Together
<1>7. Stage(p, FALSE, TRUE)
  BY <1>2, <1>3, WindowsAssumption DEF Stage
<1> QED BY <1>1, <1>2, <1>3, <1>4, <1>5, <1>6, <1>7, PanelMoves

(***************************************************************************)
(* Deny, Escape or a dismissal.                                            *)
(***************************************************************************)
LEMMA RefuseSound ==
    ASSUME WindowsInv, NEW a \in Asks, RefuseAccess(a)
    PROVE  WindowsInv'
<1>1. Callback(a) /\ UNCHANGED <<desk, asked>>
  BY DEF RefuseAccess
<1>2. PICK outcome \in {"denied", "dismissed"} :
          /\ ask' = [ask EXCEPT ![a] = Heard(a, outcome)]
          /\ panel' = [panel EXCEPT ![a] = [Closing(panel[a]) EXCEPT !.text = ""]]
          /\ gui' = [gui EXCEPT !.closing = a]
  BY DEF RefuseAccess, FinishWindow, Tell, Close
<1> DEFINE k == Heard(a, outcome)
           q == Closing(panel[a])
           p == [q EXCEPT !.text = ""]
<1>3. /\ DOMAIN ask = Asks /\ DOMAIN panel = Asks
      /\ AskTypes(ask[a]) /\ PanelTypes(panel[a]) /\ IsPanel(panel[a])
      /\ HeardInOrder(ask[a]) /\ Together(ask[a], panel[a])
      /\ panel[a].label \in Labels(a) /\ ask[a].at = "taken" /\ ~Decided(ask[a])
      /\ gui.at = "running" /\ gui.closing = NoAsk /\ gui.current.id = NoAsk
      /\ panel[a].at = "shown" /\ Stage(panel[a], FALSE, FALSE)
  BY <1>1, CallbackFinds
<1>4. /\ AskTypes(k) /\ k.at = ask[a].at
      /\ k.display = ask[a].display /\ k.scope = ask[a].scope
      /\ k.listening = ask[a].listening /\ k.verdicts = ask[a].verdicts
      /\ \A i \in DOMAIN k.heard : Final(k.heard[i]) => i = Len(k.heard)
      /\ PasswordsIn(k) = PasswordsIn(ask[a])
  BY <1>3, HeardSays DEF HeardSet
<1>5. Puts(ask', ask, a, k) /\ Puts(panel', panel, a, p)
  BY <1>2, <1>3, PutsAt
<1>6. /\ IsPanel(q) /\ q.at = "closing" /\ q.label = panel[a].label
      /\ q.enabled = panel[a].enabled /\ q.error = panel[a].error
      /\ q.feedback = panel[a].feedback /\ q.finished = TRUE /\ q.sender = FALSE
  BY <1>3, ClosingIs DEF IsPanel
<1> HIDE DEF k, q
<1>7. p = [at |-> q.at, label |-> q.label, text |-> "", enabled |-> q.enabled,
           error |-> q.error, finished |-> q.finished, sender |-> q.sender,
           feedback |-> q.feedback]
  BY ZenonT(90), <1>6, PanelChanges
<1> HIDE DEF p
<1>8. /\ PanelTypes(p) /\ p.at = "closing" /\ p.label = panel[a].label /\ p.text = ""
      /\ p.enabled = panel[a].enabled /\ p.error = panel[a].error
      /\ p.feedback = panel[a].feedback /\ p.finished /\ ~p.sender
  BY <1>3, <1>6, <1>7 DEF PanelTypes, IsPanel
<1>9. HeardInOrder(k)
  BY <1>3, <1>4 DEF HeardInOrder
<1>10. Together(k, p)
  BY <1>3, <1>4, <1>8 DEF Together
<1>11. Stage(p, FALSE, TRUE)
  BY <1>8 DEF Stage
<1> QED BY <1>1, <1>2, <1>3, <1>4, <1>5, <1>8, <1>9, <1>10, <1>11, PanelMoves


(***************************************************************************)
(* The window after its closing signal.                                    *)
(***************************************************************************)
LEMMA ShutIs ==
    ASSUME NEW p, IsPanel(p), NEW text
    PROVE  [Closing(p) EXCEPT !.at = "closed", !.enabled = FALSE, !.text = text] =
               [at |-> "closed", label |-> p.label, text |-> text, enabled |-> FALSE,
                error |-> p.error, finished |-> TRUE, sender |-> FALSE, feedback |-> p.feedback]
<1> DEFINE yes == TRUE
           q == Closing(p)
           q1 == [q EXCEPT !.at = "closed"]
           q2 == [q1 EXCEPT !.enabled = FALSE]
           q3 == [q2 EXCEPT !.text = text]
<1>1. /\ IsPanel(q) /\ q.at = "closing" /\ q.label = p.label /\ q.text = p.text
      /\ q.enabled = p.enabled /\ q.error = p.error /\ q.finished = yes
      /\ q.sender = FALSE /\ q.feedback = p.feedback
  <2>1. q = [at |-> "closing", label |-> p.label, text |-> p.text, enabled |-> p.enabled,
             error |-> p.error, finished |-> yes, sender |-> FALSE, feedback |-> p.feedback]
    BY ClosingIs
  <2> HIDE DEF q, yes
  <2> QED BY <2>1 DEF IsPanel
<1> HIDE DEF q, yes
<1>2. /\ IsPanel(q1) /\ q1.at = "closed" /\ q1.label = p.label /\ q1.text = p.text
      /\ q1.enabled = p.enabled /\ q1.error = p.error /\ q1.finished = yes
      /\ q1.sender = FALSE /\ q1.feedback = p.feedback
  <2>1. q1 = [at |-> "closed", label |-> q.label, text |-> q.text, enabled |-> q.enabled,
                error |-> q.error, finished |-> q.finished,
                sender |-> q.sender, feedback |-> q.feedback]
    BY <1>1, PanelChanges
  <2> HIDE DEF q1
  <2> QED BY <1>1, <2>1 DEF IsPanel
<1> HIDE DEF q1
<1>3. /\ IsPanel(q2) /\ q2.at = "closed" /\ q2.label = p.label /\ q2.text = p.text
      /\ q2.enabled = FALSE /\ q2.error = p.error /\ q2.finished = yes
      /\ q2.sender = FALSE /\ q2.feedback = p.feedback
  <2>1. q2 = [at |-> q1.at, label |-> q1.label, text |-> q1.text, enabled |-> FALSE,
                error |-> q1.error, finished |-> q1.finished,
                sender |-> q1.sender, feedback |-> q1.feedback]
    BY <1>2, PanelChanges
  <2> HIDE DEF q2
  <2> QED BY <1>2, <2>1 DEF IsPanel
<1> HIDE DEF q2
<1>4. /\ IsPanel(q3) /\ q3.at = "closed" /\ q3.label = p.label /\ q3.text = text
      /\ q3.enabled = FALSE /\ q3.error = p.error /\ q3.finished = yes
      /\ q3.sender = FALSE /\ q3.feedback = p.feedback
  <2>1. q3 = [at |-> q2.at, label |-> q2.label, text |-> text, enabled |-> q2.enabled,
                error |-> q2.error, finished |-> q2.finished,
                sender |-> q2.sender, feedback |-> q2.feedback]
    BY <1>3, PanelChanges
  <2> HIDE DEF q3
  <2> QED BY <1>3, <2>1 DEF IsPanel
<1> HIDE DEF q3
<1> QED BY <1>4 DEF IsPanel, yes, q, q1, q2, q3

(***************************************************************************)
(* The window whose handler has ended.                                     *)
(***************************************************************************)
LEMMA AnsweredIs ==
    ASSUME NEW p, IsPanel(p), NEW text
    PROVE  [Closing(p) EXCEPT !.feedback = "none", !.text = text] =
               [at |-> "closing", label |-> p.label, text |-> text, enabled |-> p.enabled,
                error |-> p.error, finished |-> TRUE, sender |-> FALSE, feedback |-> "none"]
<1> DEFINE yes == TRUE
           q == Closing(p)
           q1 == [q EXCEPT !.feedback = "none"]
           q2 == [q1 EXCEPT !.text = text]
<1>1. /\ IsPanel(q) /\ q.at = "closing" /\ q.label = p.label /\ q.text = p.text
      /\ q.enabled = p.enabled /\ q.error = p.error /\ q.finished = yes
      /\ q.sender = FALSE /\ q.feedback = p.feedback
  <2>1. q = [at |-> "closing", label |-> p.label, text |-> p.text, enabled |-> p.enabled,
             error |-> p.error, finished |-> yes, sender |-> FALSE, feedback |-> p.feedback]
    BY ClosingIs
  <2> HIDE DEF q, yes
  <2> QED BY <2>1 DEF IsPanel
<1> HIDE DEF q, yes
<1>2. /\ IsPanel(q1) /\ q1.at = "closing" /\ q1.label = p.label /\ q1.text = p.text
      /\ q1.enabled = p.enabled /\ q1.error = p.error /\ q1.finished = yes
      /\ q1.sender = FALSE /\ q1.feedback = "none"
  <2>1. q1 = [at |-> q.at, label |-> q.label, text |-> q.text, enabled |-> q.enabled,
                error |-> q.error, finished |-> q.finished,
                sender |-> q.sender, feedback |-> "none"]
    BY <1>1, PanelChanges
  <2> HIDE DEF q1
  <2> QED BY <1>1, <2>1 DEF IsPanel
<1> HIDE DEF q1
<1>3. /\ IsPanel(q2) /\ q2.at = "closing" /\ q2.label = p.label /\ q2.text = text
      /\ q2.enabled = p.enabled /\ q2.error = p.error /\ q2.finished = yes
      /\ q2.sender = FALSE /\ q2.feedback = "none"
  <2>1. q2 = [at |-> q1.at, label |-> q1.label, text |-> text, enabled |-> q1.enabled,
                error |-> q1.error, finished |-> q1.finished,
                sender |-> q1.sender, feedback |-> q1.feedback]
    BY <1>2, PanelChanges
  <2> HIDE DEF q2
  <2> QED BY <1>2, <2>1 DEF IsPanel
<1> HIDE DEF q2
<1> QED BY <1>3 DEF IsPanel, yes, q, q1, q2

(***************************************************************************)
(* The closing signal.                                                     *)
(***************************************************************************)
LEMMA OnClosingSound ==
    ASSUME WindowsInv, NEW a \in Asks, OnClosing(a)
    PROVE  WindowsInv'
<1> DEFINE text == IF desk.kind = "appkit" /\ panel[a].finished THEN panel[a].text ELSE ""
           k == IF panel[a].finished THEN ask[a] ELSE Heard(a, "dismissed")
           p == [Closing(panel[a]) EXCEPT !.at = "closed", !.enabled = FALSE, !.text = text]
<1>1. /\ gui.closing = a /\ gui' = [gui EXCEPT !.closing = NoAsk] /\ UNCHANGED <<desk, asked>>
      /\ panel' = [panel EXCEPT ![a] = p]
      /\ IF panel[a].finished THEN ask' = ask ELSE ask' = [ask EXCEPT ![a] = Heard(a, "dismissed")]
  BY DEF OnClosing, Tell
<1>2. /\ DOMAIN ask = Asks /\ DOMAIN panel = Asks
      /\ AskTypes(ask[a]) /\ PanelTypes(panel[a]) /\ IsPanel(panel[a])
      /\ HeardInOrder(ask[a]) /\ Together(ask[a], panel[a])
      /\ Stage(panel[a], a = gui.current.id, TRUE)
  BY <1>1, CallbackFinds
<1>3. /\ panel[a].at = "closing" /\ a # gui.current.id
      /\ panel[a].finished <=> ~panel[a].sender
      /\ panel[a].finished => panel[a].text = ""
  BY <1>2 DEF Stage
<1>4. text = "" /\ ask[a].at = "taken" /\ panel[a].label \in Labels(a)
  BY <1>2, <1>3, CallbackFinds DEF Together
<1>5. Puts(ask', ask, a, k)
  <2>1. CASE panel[a].finished
    BY <1>1, <1>2, <2>1, PutsAt
  <2>2. CASE ~panel[a].finished
    <3>1. k = Heard(a, "dismissed") /\ ask' = [ask EXCEPT ![a] = k]
      BY <1>1, <2>2
    <3> HIDE DEF k
    <3> QED BY <1>2, <3>1, PutsAt
  <2> QED BY <2>1, <2>2
<1>6. /\ AskTypes(k) /\ k.at = ask[a].at
      /\ k.display = ask[a].display /\ k.scope = ask[a].scope
      /\ k.listening = ask[a].listening /\ k.verdicts = ask[a].verdicts
      /\ \A i \in DOMAIN k.heard : Final(k.heard[i]) => i = Len(k.heard)
      /\ PasswordsIn(k) = PasswordsIn(ask[a])
  <2>1. CASE panel[a].finished
    BY <1>2, <2>1 DEF HeardInOrder
  <2>2. CASE ~panel[a].finished
    <3> DEFINE j == Heard(a, "dismissed")
    <3>1. ~Decided(ask[a])
      BY <1>2, <1>3, <2>2 DEF Together
    <3>2. ask[a].at # "new" /\ "dismissed" \in HeardSet /\ "dismissed" # "password"
      BY <1>4 DEF HeardSet
    <3>3. /\ AskTypes(j) /\ j.at = ask[a].at
          /\ j.display = ask[a].display /\ j.scope = ask[a].scope
          /\ j.listening = ask[a].listening /\ j.verdicts = ask[a].verdicts
          /\ \A i \in DOMAIN j.heard : Final(j.heard[i]) => i = Len(j.heard)
          /\ PasswordsIn(j) = PasswordsIn(ask[a])
      BY <1>2, <3>1, <3>2, HeardSays
    <3>4. k = j
      BY <2>2
    <3> HIDE DEF k, j
    <3> QED BY <3>3, <3>4
  <2> QED BY <2>1, <2>2
<1>7. p = [at |-> "closed", label |-> panel[a].label, text |-> text, enabled |-> FALSE,
           error |-> panel[a].error, finished |-> TRUE, sender |-> FALSE,
           feedback |-> panel[a].feedback]
  BY <1>2, ShutIs
<1>8. Puts(panel', panel, a, p)
  BY <1>1, <1>2, PutsAt
<1> HIDE DEF k, p, text
<1>9. /\ PanelTypes(p) /\ p.at = "closed" /\ p.label = panel[a].label /\ p.text = ""
      /\ ~p.enabled /\ p.error = panel[a].error
      /\ p.feedback = panel[a].feedback /\ p.finished /\ ~p.sender
  BY <1>2, <1>4, <1>7 DEF PanelTypes, IsPanel
<1>10. HeardInOrder(k)
  BY <1>2, <1>4, <1>6 DEF HeardInOrder
<1>11. Together(k, p)
  BY <1>2, <1>4, <1>6, <1>9 DEF Together
<1>12. Stage(p, a = gui.current.id, FALSE)
  BY <1>3, <1>9 DEF Stage
<1> QED BY <1>1, <1>4, <1>5, <1>6, <1>8, <1>9, <1>10, <1>11, <1>12, PanelMoves

(***************************************************************************)
(* A number and its bound, each with one more.                             *)
(***************************************************************************)
LEMMA OneMore ==
    ASSUME NEW m \in Nat, NEW n \in Nat, m <= n, NEW x, x = m + 1, NEW y, y = n
    PROVE  x <= y + 1
OBVIOUS

(***************************************************************************)
(* The password leaves the window, in whichever toolkit.                   *)
(***************************************************************************)
LEMMA PasswordGoesOut ==
    ASSUME WindowsInv, NEW a \in Asks, Callback(a), panel[a].feedback = "none",
           Tell(a, "password"), UNCHANGED <<desk, asked>>,
           NEW p, Puts(panel', panel, a, p), PanelTypes(p),
           p.label = panel[a].label, p.text = "", ~p.enabled, p.error => panel[a].error,
           \/ /\ UNCHANGED gui
              /\ p.at = "shown" /\ p.sender /\ ~p.finished
              /\ p.feedback = IF ask[a].listening THEN "empty" ELSE "none"
           \/ /\ ~ask[a].listening /\ gui' = [gui EXCEPT !.closing = a]
              /\ p.at = "closing" /\ ~p.sender /\ p.finished /\ p.feedback \in {"none", "closed"}
    PROVE  WindowsInv'
<1> DEFINE k == Heard(a, "password")
<1>1. /\ DOMAIN ask = Asks /\ DOMAIN panel = Asks
      /\ AskTypes(ask[a]) /\ HeardInOrder(ask[a]) /\ Together(ask[a], panel[a])
      /\ panel[a].label \in Labels(a) /\ panel[a].sender
      /\ ask[a].at = "taken" /\ ~Decided(ask[a])
      /\ gui.at = "running" /\ gui.closing = NoAsk /\ gui.current.id = NoAsk
  BY CallbackFinds
<1>2. /\ AskTypes(k) /\ k.at = ask[a].at
      /\ k.display = ask[a].display /\ k.scope = ask[a].scope
      /\ k.listening = ask[a].listening /\ k.verdicts = ask[a].verdicts
      /\ \A i \in DOMAIN k.heard : Final(k.heard[i]) => i = Len(k.heard)
      /\ PasswordsIn(ask[a]) \in Nat
      /\ ~k.listening => k = ask[a]
      /\ k.listening => PasswordsIn(k) = PasswordsIn(ask[a]) + 1
      /\ ~Decided(k)
  BY ZenonT(90), <1>1, HeardSays DEF HeardSet
<1>3. Puts(ask', ask, a, k)
  BY <1>1, PutsAt DEF Tell
<1> HIDE DEF k
<1>4. ask[a].listening => PasswordsIn(ask[a]) <= ask[a].verdicts
  BY <1>1 DEF Together
<1>5. ask[a].verdicts \in Nat /\ ask[a].listening \in BOOLEAN
  BY <1>1 DEF AskTypes
<1>6. PasswordsIn(k) <= k.verdicts + 1
  <2>1. CASE ask[a].listening
    <3>1. PasswordsIn(k) = PasswordsIn(ask[a]) + 1 /\ k.verdicts = ask[a].verdicts
      BY <1>2, <2>1
    <3>2. PasswordsIn(ask[a]) \in Nat /\ PasswordsIn(ask[a]) <= ask[a].verdicts
      BY <1>2, <1>4, <2>1
    <3> QED BY <1>5, <3>1, <3>2, OneMore
  <2>2. CASE ~ask[a].listening
    BY <1>1, <1>2, <2>2 DEF HeardInOrder
  <2> QED BY <2>1, <2>2
<1>7. HeardInOrder(k)
  BY <1>1, <1>2, <1>6 DEF HeardInOrder
<1>8. Together(k, p)
  BY <1>1, <1>2 DEF Together
<1>9. p.label \in Labels(a)
  BY <1>1
<1>10. CASE UNCHANGED gui /\ p.at = "shown" /\ p.sender /\ ~p.finished
  <2>1. Stage(p, a = gui.current.id, a = gui.closing)
    BY <1>1, <1>10, WindowsAssumption DEF Stage
  <2> QED BY <1>1, <1>2, <1>3, <1>7, <1>8, <1>9, <1>10, <2>1, PanelMoves
<1>11. CASE gui' = [gui EXCEPT !.closing = a] /\ p.at = "closing" /\ ~p.sender /\ p.finished
  <2>1. Stage(p, FALSE, TRUE)
    BY <1>11 DEF Stage
  <2> QED BY <1>1, <1>2, <1>3, <1>7, <1>8, <1>9, <1>11, <2>1, PanelMoves
<1> QED BY <1>10, <1>11

(***************************************************************************)
(* The fields of the emptied window.                                       *)
(***************************************************************************)
LEMMA EmptiedTypes ==
    ASSUME NEW a, PanelTypes(panel[a]), NEW error \in BOOLEAN
    PROVE  LET e == Emptied(a, error)
           IN  /\ PanelTypes(e) /\ e.at = panel[a].at /\ e.label = panel[a].label /\ e.text = ""
               /\ ~e.enabled /\ e.error = error /\ e.finished = panel[a].finished
               /\ e.sender = panel[a].sender /\ e.feedback = panel[a].feedback
<1> DEFINE e == Emptied(a, error)
<1>1. IsPanel(panel[a])
  BY DEF PanelTypes
<1>2. e = [at |-> panel[a].at, label |-> panel[a].label, text |-> "", enabled |-> FALSE,
           error |-> error, finished |-> panel[a].finished, sender |-> panel[a].sender,
           feedback |-> panel[a].feedback]
  BY <1>1, EmptiedIs
<1> HIDE DEF e
<1>3. /\ PanelTypes(e) /\ e.at = panel[a].at /\ e.label = panel[a].label /\ e.text = ""
      /\ ~e.enabled /\ e.error = error /\ e.finished = panel[a].finished
      /\ e.sender = panel[a].sender /\ e.feedback = panel[a].feedback
  BY <1>2 DEF PanelTypes, IsPanel
<1> QED BY <1>3 DEF e

(***************************************************************************)
(* A window with a oneshot in this state.                                  *)
(***************************************************************************)
Hearing(e, verdict) == [e EXCEPT !.feedback = verdict]

(***************************************************************************)
(* Its fields.                                                             *)
(***************************************************************************)
LEMMA FeedbackTypes ==
    ASSUME NEW e, PanelTypes(e), NEW verdict, verdict \in {"none", "empty"} \cup Verdicts
    PROVE  /\ PanelTypes(Hearing(e, verdict)) /\ Hearing(e, verdict).at = e.at
           /\ Hearing(e, verdict).label = e.label /\ Hearing(e, verdict).text = e.text
           /\ (Hearing(e, verdict).enabled <=> e.enabled)
           /\ Hearing(e, verdict).error = e.error
           /\ (Hearing(e, verdict).finished <=> e.finished)
           /\ (Hearing(e, verdict).sender <=> e.sender)
           /\ Hearing(e, verdict).feedback = verdict
<1> DEFINE f == Hearing(e, verdict)
<1>1. f = [at |-> e.at, label |-> e.label, text |-> e.text, enabled |-> e.enabled,
           error |-> e.error, finished |-> e.finished, sender |-> e.sender,
           feedback |-> verdict]
  BY PanelChanges DEF PanelTypes, Hearing
<1> HIDE DEF f
<1>2. /\ PanelTypes(f) /\ f.at = e.at /\ f.label = e.label /\ f.text = e.text
      /\ f.enabled = e.enabled /\ f.error = e.error /\ f.finished = e.finished
      /\ f.sender = e.sender /\ f.feedback = verdict
  BY <1>1 DEF PanelTypes, IsPanel
<1> QED BY <1>2 DEF f

(***************************************************************************)
(* The fields of the window that is told to close.                         *)
(***************************************************************************)
LEMMA ClosingTypes ==
    ASSUME NEW p, PanelTypes(p)
    PROVE  LET c == Closing(p)
           IN  /\ PanelTypes(c) /\ c.at = "closing" /\ c.label = p.label /\ c.text = p.text
               /\ c.enabled = p.enabled /\ c.error = p.error /\ c.finished /\ ~c.sender
               /\ c.feedback = p.feedback
<1> DEFINE c == Closing(p)
<1>1. c = [at |-> "closing", label |-> p.label, text |-> p.text, enabled |-> p.enabled,
           error |-> p.error, finished |-> TRUE, sender |-> FALSE, feedback |-> p.feedback]
  BY ClosingIs DEF PanelTypes
<1> HIDE DEF c
<1>2. /\ PanelTypes(c) /\ c.at = "closing" /\ c.label = p.label /\ c.text = p.text
      /\ c.enabled = p.enabled /\ c.error = p.error /\ c.finished /\ ~c.sender
      /\ c.feedback = p.feedback
  BY <1>1 DEF PanelTypes, IsPanel
<1> QED BY <1>2 DEF c

(***************************************************************************)
(* submit_password of GTK.                                                 *)
(***************************************************************************)
LEMMA SubmitGtkSound ==
    ASSUME WindowsInv, NEW a \in Asks, SubmitGtkPassword(a)
    PROVE  WindowsInv'
<1> DEFINE e == Emptied(a, panel[a].error)
           f == Hearing(e, "empty")
           c == Closing(e)
<1>1. /\ Callback(a) /\ panel[a].feedback = "none" /\ Tell(a, "password")
      /\ UNCHANGED <<desk, asked>>
      /\ IF ask[a].listening
         THEN panel' = [panel EXCEPT ![a] = f] /\ UNCHANGED gui
         ELSE panel' = [panel EXCEPT ![a] = c] /\ gui' = [gui EXCEPT !.closing = a]
  BY DEF SubmitGtkPassword, Close, Hearing
<1>2. /\ DOMAIN panel = Asks /\ PanelTypes(panel[a])
      /\ panel[a].at = "shown" /\ panel[a].sender /\ ~panel[a].finished
  BY <1>1, CallbackFinds
<1>3. panel[a].error \in BOOLEAN
  BY <1>2 DEF PanelTypes
<1>4. /\ PanelTypes(e) /\ e.at = "shown" /\ e.label = panel[a].label /\ e.text = ""
      /\ ~e.enabled /\ e.error = panel[a].error /\ ~e.finished /\ e.sender
      /\ e.feedback = "none"
  BY <1>1, <1>2, <1>3, EmptiedTypes
<1> HIDE DEF e
<1>8. /\ PanelTypes(f) /\ f.at = "shown" /\ f.label = panel[a].label /\ f.text = ""
      /\ ~f.enabled /\ f.error = panel[a].error /\ ~f.finished /\ f.sender
      /\ f.feedback = "empty"
  BY ZenonT(90), <1>4, FeedbackTypes DEF f
<1> HIDE DEF f
<1>5. /\ PanelTypes(c) /\ c.at = "closing" /\ c.label = panel[a].label /\ c.text = ""
      /\ ~c.enabled /\ c.error = panel[a].error /\ c.finished /\ ~c.sender
      /\ c.feedback = "none"
  BY <1>4, ClosingTypes
<1> HIDE DEF c
<1>6. CASE ask[a].listening
  <2>1. Puts(panel', panel, a, f) /\ UNCHANGED gui
    BY <1>1, <1>2, <1>6, PutsAt
  <2> QED BY <1>1, <1>6, <1>8, <2>1, PasswordGoesOut
<1>7. CASE ~ask[a].listening
  <2>1. panel' = [panel EXCEPT ![a] = c] /\ gui' = [gui EXCEPT !.closing = a]
    BY <1>1, <1>7
  <2>2. Puts(panel', panel, a, c)
    BY <1>2, <2>1, PutsAt
  <2> QED BY <1>1, <1>5, <1>7, <2>1, <2>2, PasswordGoesOut
<1> QED BY <1>6, <1>7

(***************************************************************************)
(* allowPrompt of Qt.                                                      *)
(***************************************************************************)
LEMMA SubmitQtSound ==
    ASSUME WindowsInv, NEW a \in Asks, SubmitQtPassword(a)
    PROVE  WindowsInv'
<1> DEFINE e == Emptied(a, FALSE)
           f == Hearing(e, "empty")
           p == IF ask[a].listening THEN f ELSE e
<1>1. /\ Callback(a) /\ panel[a].feedback = "none" /\ Tell(a, "password")
      /\ UNCHANGED <<desk, gui, asked>>
      /\ panel' = [panel EXCEPT ![a] = p]
  BY DEF SubmitQtPassword, Hearing
<1>2. /\ DOMAIN panel = Asks /\ PanelTypes(panel[a])
      /\ panel[a].at = "shown" /\ panel[a].sender /\ ~panel[a].finished
  BY <1>1, CallbackFinds
<1>3. /\ PanelTypes(e) /\ e.at = "shown" /\ e.label = panel[a].label /\ e.text = ""
      /\ ~e.enabled /\ e.error = FALSE /\ ~e.finished /\ e.sender /\ e.feedback = "none"
  BY <1>1, <1>2, EmptiedTypes
<1>4. Puts(panel', panel, a, p)
  BY <1>1, <1>2, PutsAt
<1> HIDE DEF e, p
<1>6. /\ PanelTypes(f) /\ f.at = "shown" /\ f.label = panel[a].label /\ f.text = ""
      /\ ~f.enabled /\ f.error = FALSE /\ ~f.finished /\ f.sender
      /\ f.feedback = "empty"
  <2>1. "empty" \in {"none", "empty"} \cup Verdicts
    OBVIOUS
  <2>2. /\ PanelTypes(f) /\ f.at = e.at /\ f.label = e.label /\ f.text = e.text
        /\ (f.enabled <=> e.enabled) /\ f.error = e.error
        /\ (f.finished <=> e.finished) /\ (f.sender <=> e.sender)
        /\ f.feedback = "empty"
    BY ZenonT(90), <1>3, <2>1, FeedbackTypes DEF f
  <2> HIDE DEF f
  <2> QED BY <1>3, <2>2
<1> HIDE DEF f
<1>5. /\ PanelTypes(p) /\ p.at = "shown" /\ p.label = panel[a].label /\ p.text = ""
      /\ ~p.enabled /\ ~p.error /\ ~p.finished /\ p.sender
      /\ p.feedback = IF ask[a].listening THEN "empty" ELSE "none"
  BY <1>3, <1>6 DEF p
<1> QED BY <1>1, <1>4, <1>5, PasswordGoesOut

(***************************************************************************)
(* submit_password of AppKit.                                              *)
(***************************************************************************)
LEMMA SubmitAppKitSound ==
    ASSUME WindowsInv, NEW a \in Asks, SubmitAppKitPassword(a)
    PROVE  WindowsInv'
<1> DEFINE e == Emptied(a, FALSE)
           f == Hearing(e, "empty")
           g == Hearing(e, "closed")
           c == Closing(g)
<1>1. /\ Callback(a) /\ panel[a].feedback = "none" /\ Tell(a, "password")
      /\ UNCHANGED <<desk, asked>>
      /\ IF ask[a].listening
         THEN panel' = [panel EXCEPT ![a] = f] /\ UNCHANGED gui
         ELSE panel' = [panel EXCEPT ![a] = c] /\ gui' = [gui EXCEPT !.closing = a]
  BY DEF SubmitAppKitPassword, Close, Hearing
<1>2. /\ DOMAIN panel = Asks /\ PanelTypes(panel[a])
      /\ panel[a].at = "shown" /\ panel[a].sender /\ ~panel[a].finished
  BY <1>1, CallbackFinds
<1>8. /\ PanelTypes(e) /\ e.at = "shown" /\ e.label = panel[a].label /\ e.text = ""
      /\ ~e.enabled /\ e.error = FALSE /\ ~e.finished /\ e.sender
  BY <1>2, EmptiedTypes
<1> HIDE DEF e
<1>3. /\ PanelTypes(f) /\ f.at = "shown" /\ f.label = panel[a].label /\ f.text = ""
      /\ ~f.enabled /\ f.error = FALSE /\ ~f.finished /\ f.sender
      /\ f.feedback = "empty"
  BY ZenonT(90), <1>8, FeedbackTypes DEF f
<1>4. /\ PanelTypes(g) /\ g.label = panel[a].label /\ g.text = ""
      /\ ~g.enabled /\ g.error = FALSE /\ g.feedback = "closed"
  BY ZenonT(90), <1>8, FeedbackTypes DEF Verdicts
<1> HIDE DEF f, g
<1>5. /\ PanelTypes(c) /\ c.at = "closing" /\ c.label = panel[a].label /\ c.text = ""
      /\ ~c.enabled /\ c.error = FALSE /\ c.finished /\ ~c.sender
      /\ c.feedback = "closed"
  BY <1>4, ClosingTypes
<1> HIDE DEF c
<1>6. CASE ask[a].listening
  <2>1. Puts(panel', panel, a, f) /\ UNCHANGED gui
    BY <1>1, <1>2, <1>6, PutsAt
  <2> QED BY <1>1, <1>3, <1>6, <2>1, PasswordGoesOut
<1>7. CASE ~ask[a].listening
  <2>1. panel' = [panel EXCEPT ![a] = c] /\ gui' = [gui EXCEPT !.closing = a]
    BY <1>1, <1>7
  <2>2. Puts(panel', panel, a, c)
    BY <1>2, <2>1, PutsAt
  <2> QED BY <1>1, <1>5, <1>7, <2>1, <2>2, PasswordGoesOut
<1> QED BY <1>6, <1>7

(***************************************************************************)
(* The request that enters the channel.                                    *)
(***************************************************************************)
LEMMA AskQueued ==
    ASSUME NEW k, IsAsk(k), NEW x, NEW y
    PROVE  [k EXCEPT !.at = x, !.listening = y] =
               [at |-> x, display |-> k.display, scope |-> k.scope,
                listening |-> y, heard |-> k.heard, verdicts |-> k.verdicts]
<1> DEFINE k1 == [k EXCEPT !.at = x]
           k2 == [k1 EXCEPT !.listening = y]
<1>1. /\ IsAsk(k1) /\ k1.at = x /\ k1.display = k.display /\ k1.scope = k.scope
      /\ k1.listening = k.listening /\ k1.heard = k.heard /\ k1.verdicts = k.verdicts
  BY AskChanges DEF IsAsk
<1> HIDE DEF k1
<1>2. /\ IsAsk(k2) /\ k2.at = x /\ k2.display = k.display /\ k2.scope = k.scope
      /\ k2.listening = y /\ k2.heard = k.heard /\ k2.verdicts = k.verdicts
  BY <1>1, AskChanges DEF IsAsk
<1> HIDE DEF k2
<1>3. k2 = [at |-> x, display |-> k.display, scope |-> k.scope,
            listening |-> y, heard |-> k.heard, verdicts |-> k.verdicts]
  BY <1>2 DEF IsAsk
<1> QED BY <1>3 DEF k1, k2

(***************************************************************************)
(* The request that the ended dispatcher dismisses.                        *)
(***************************************************************************)
LEMMA AskRefused ==
    ASSUME NEW k, IsAsk(k), NEW x, NEW y, NEW z
    PROVE  [k EXCEPT !.at = x, !.listening = y, !.heard = z] =
               [at |-> x, display |-> k.display, scope |-> k.scope,
                listening |-> y, heard |-> z, verdicts |-> k.verdicts]
<1> DEFINE k1 == [k EXCEPT !.at = x]
           k2 == [k1 EXCEPT !.listening = y]
           k3 == [k2 EXCEPT !.heard = z]
<1>1. /\ IsAsk(k1) /\ k1.at = x /\ k1.display = k.display /\ k1.scope = k.scope
      /\ k1.listening = k.listening /\ k1.heard = k.heard /\ k1.verdicts = k.verdicts
  BY AskChanges DEF IsAsk
<1> HIDE DEF k1
<1>2. /\ IsAsk(k2) /\ k2.at = x /\ k2.display = k.display /\ k2.scope = k.scope
      /\ k2.listening = y /\ k2.heard = k.heard /\ k2.verdicts = k.verdicts
  BY <1>1, AskChanges DEF IsAsk
<1> HIDE DEF k2
<1>3. /\ IsAsk(k3) /\ k3.at = x /\ k3.display = k.display /\ k3.scope = k.scope
      /\ k3.listening = y /\ k3.heard = z /\ k3.verdicts = k.verdicts
  BY SMTT(60), <1>2, AskChanges DEF IsAsk
<1> HIDE DEF k3
<1>4. k3 = [at |-> x, display |-> k.display, scope |-> k.scope,
            listening |-> y, heard |-> z, verdicts |-> k.verdicts]
  BY <1>3 DEF IsAsk
<1> QED BY <1>4 DEF k1, k2, k3

(***************************************************************************)
(* The request whose handler has judged and ends.                          *)
(***************************************************************************)
LEMMA AskDecided ==
    ASSUME NEW k, IsAsk(k), NEW x, NEW y
    PROVE  [k EXCEPT !.verdicts = x, !.listening = y] =
               [at |-> k.at, display |-> k.display, scope |-> k.scope,
                listening |-> y, heard |-> k.heard, verdicts |-> x]
<1> DEFINE k1 == [k EXCEPT !.verdicts = x]
           k2 == [k1 EXCEPT !.listening = y]
<1>1. /\ IsAsk(k1) /\ k1.at = k.at /\ k1.display = k.display /\ k1.scope = k.scope
      /\ k1.listening = k.listening /\ k1.heard = k.heard /\ k1.verdicts = x
  BY AskChanges DEF IsAsk
<1> HIDE DEF k1
<1>2. /\ IsAsk(k2) /\ k2.at = k.at /\ k2.display = k.display /\ k2.scope = k.scope
      /\ k2.listening = y /\ k2.heard = k.heard /\ k2.verdicts = x
  BY <1>1, AskChanges DEF IsAsk
<1> HIDE DEF k2
<1>3. k2 = [at |-> k.at, display |-> k.display, scope |-> k.scope,
            listening |-> y, heard |-> k.heard, verdicts |-> x]
  BY <1>2 DEF IsAsk
<1> QED BY <1>3 DEF k1, k2

(***************************************************************************)
(* Who has heard nothing has heard no password and no final outcome.       *)
(***************************************************************************)
LEMMA NothingHeard ==
    ASSUME NEW k, k.heard = <<>>
    PROVE  PasswordsIn(k) = 0 /\ ~Decided(k)
<1>1. DOMAIN k.heard = {}
  OBVIOUS
<1>2. {i \in DOMAIN k.heard : k.heard[i] = "password"} = {}
  BY <1>1
<1> QED BY <1>1, <1>2, FS_EmptySet DEF PasswordsIn, Decided

(***************************************************************************)
(* poll_feedback of the three toolkits.                                    *)
(***************************************************************************)
LEMMA PollVerdictSound ==
    ASSUME WindowsInv, NEW a \in Asks, NEW left \in {panel[a].text, ""}, PollVerdict(a, left)
    PROVE  WindowsInv'
<1> DEFINE p == AskAgain(panel[a])
           c == [Closing(panel[a]) EXCEPT !.feedback = "none", !.text = left]
<1>1. /\ Callback(a) /\ panel[a].feedback \in Verdicts /\ UNCHANGED <<desk, ask, asked>>
      /\ IF panel[a].feedback = "incorrect"
         THEN panel' = [panel EXCEPT ![a] = p] /\ UNCHANGED gui
         ELSE panel' = [panel EXCEPT ![a] = c] /\ gui' = [gui EXCEPT !.closing = a]
  BY DEF PollVerdict, Close
<1>2. /\ DOMAIN ask = Asks /\ DOMAIN panel = Asks
      /\ AskTypes(ask[a]) /\ PanelTypes(panel[a]) /\ IsPanel(panel[a])
      /\ HeardInOrder(ask[a]) /\ Together(ask[a], panel[a])
      /\ panel[a].label \in Labels(a) /\ ask[a].at = "taken" /\ ~Decided(ask[a])
      /\ gui.at = "running" /\ gui.closing = NoAsk /\ gui.current.id = NoAsk
      /\ panel[a].at = "shown" /\ panel[a].sender /\ ~panel[a].finished
  BY <1>1, CallbackFinds
<1>3. Puts(ask', ask, a, ask[a])
  BY <1>1, <1>2, PutsAt
<1>4. panel[a].feedback \notin {"none", "empty"} /\ panel[a].text = "" /\ left = ""
  BY <1>1, <1>2 DEF Together, Verdicts
<1>5. p = [at |-> "shown", label |-> panel[a].label, text |-> "", enabled |-> TRUE,
           error |-> TRUE, finished |-> panel[a].finished, sender |-> panel[a].sender,
           feedback |-> "none"]
  BY <1>2, <1>4, AskAgainIs
<1>6. c = [at |-> "closing", label |-> panel[a].label, text |-> "",
           enabled |-> panel[a].enabled, error |-> panel[a].error, finished |-> TRUE,
           sender |-> FALSE, feedback |-> "none"]
  <2>1. c = [at |-> "closing", label |-> panel[a].label, text |-> left,
             enabled |-> panel[a].enabled, error |-> panel[a].error, finished |-> TRUE,
             sender |-> FALSE, feedback |-> "none"]
    BY ZenonT(90), <1>2, AnsweredIs
  <2> QED BY <1>4, <2>1
<1> HIDE DEF p, c
<1>7. CASE panel[a].feedback = "incorrect"
  <2>0. panel' = [panel EXCEPT ![a] = p] /\ UNCHANGED gui
    BY <1>1, <1>7
  <2>1. Puts(panel', panel, a, p)
    BY <1>2, <2>0, PutsAt
  <2>2. /\ PanelTypes(p) /\ p.at = "shown" /\ p.label = panel[a].label /\ p.text = ""
        /\ ~p.finished /\ p.sender /\ p.feedback = "none"
    BY <1>2, <1>5 DEF PanelTypes, IsPanel
  <2>3. Together(ask[a], p)
    BY <1>2, <1>4, <1>7, <2>2 DEF Together
  <2>4. Stage(p, a = gui.current.id, a = gui.closing)
    BY <1>2, <2>2, WindowsAssumption DEF Stage
  <2> QED BY <1>1, <1>2, <1>3, <2>0, <2>1, <2>2, <2>3, <2>4, PanelMoves
<1>8. CASE panel[a].feedback # "incorrect"
  <2>0. panel' = [panel EXCEPT ![a] = c] /\ gui' = [gui EXCEPT !.closing = a]
    BY <1>1, <1>8
  <2>1. Puts(panel', panel, a, c)
    BY <1>2, <2>0, PutsAt
  <2>2. /\ PanelTypes(c) /\ c.at = "closing" /\ c.label = panel[a].label /\ c.text = ""
        /\ c.error = panel[a].error /\ c.finished /\ ~c.sender /\ c.feedback = "none"
    BY <1>2, <1>6 DEF PanelTypes, IsPanel
  <2>3. Together(ask[a], c)
    BY <1>2, <1>4, <2>2 DEF Together
  <2>4. Stage(c, FALSE, TRUE)
    BY <2>2 DEF Stage
  <2> QED BY <1>1, <1>2, <1>3, <2>0, <2>1, <2>2, <2>3, <2>4, PanelMoves
<1> QED BY <1>7, <1>8

(***************************************************************************)
(* The handler judges a password.                                          *)
(***************************************************************************)
LEMMA VerdictSound ==
    ASSUME WindowsInv, NEW a \in Asks, Verdict(a)
    PROVE  WindowsInv'
<1> DEFINE n == ask[a].verdicts + 1
           k == [ask[a] EXCEPT !.verdicts = n]
           l == [ask[a] EXCEPT !.verdicts = n, !.listening = FALSE]
           p == Fed(panel[a], "incorrect")
           c == Fed(panel[a], "complete")
<1>1. /\ ask[a].listening /\ ask[a].verdicts < PasswordsIn(ask[a])
      /\ UNCHANGED <<desk, gui, asked>>
      /\ \/ ask' = [ask EXCEPT ![a] = k] /\ panel' = [panel EXCEPT ![a] = p]
         \/ ask' = [ask EXCEPT ![a] = l] /\ panel' = [panel EXCEPT ![a] = c]
  BY DEF Verdict, PasswordsSent, PasswordsIn
<1>2. /\ DOMAIN ask = Asks /\ DOMAIN panel = Asks
      /\ AskTypes(ask[a]) /\ PanelTypes(panel[a]) /\ IsAsk(ask[a])
      /\ HeardInOrder(ask[a]) /\ Together(ask[a], panel[a])
      /\ Stage(panel[a], a = gui.current.id, a = gui.closing)
      /\ panel[a].at # "none" => panel[a].label \in Labels(a)
  BY CallbackFinds
<1>3. /\ ask[a].verdicts \in Nat /\ n \in Nat /\ n > 0 /\ PasswordsIn(ask[a]) \in Nat
      /\ PasswordsIn(ask[a]) <= n
  <2>1. ask[a].verdicts \in Nat /\ ask[a].heard \in Seq(HeardSet)
    BY <1>2 DEF AskTypes
  <2>2. PasswordsIn(ask[a]) \in Nat
    BY <2>1, PasswordsNumber
  <2>3. PasswordsIn(ask[a]) <= ask[a].verdicts + 1
    BY <1>2 DEF HeardInOrder
  <2> QED BY <2>1, <2>2, <2>3
<1>4. ask[a].at = "taken"
  <2> SUFFICES ASSUME ask[a].at # "taken" PROVE FALSE
    OBVIOUS
  <2>1. ask[a].heard = <<>>
    BY <1>2 DEF HeardInOrder
  <2>2. PasswordsIn(ask[a]) = 0
    BY <2>1, NothingHeard
  <2> QED BY <1>1, <1>3, <2>2
<1>5. PasswordsIn(ask[a]) <= n + 1
  BY <1>3
<1>6. k = [at |-> ask[a].at, display |-> ask[a].display, scope |-> ask[a].scope,
           listening |-> ask[a].listening, heard |-> ask[a].heard, verdicts |-> n]
  BY <1>2, AskChanges
<1>7. l = [at |-> ask[a].at, display |-> ask[a].display, scope |-> ask[a].scope,
           listening |-> FALSE, heard |-> ask[a].heard, verdicts |-> n]
  <2> DEFINE no == FALSE
  <2>1. l = [ask[a] EXCEPT !.verdicts = n, !.listening = no]
    OBVIOUS
  <2> HIDE DEF no, n, l
  <2>2. l = [at |-> ask[a].at, display |-> ask[a].display, scope |-> ask[a].scope,
             listening |-> no, heard |-> ask[a].heard, verdicts |-> n]
    BY ZenonT(90), <1>2, <2>1, AskDecided
  <2> QED BY <2>2 DEF no
<1> HIDE DEF k, l, n
<1>8. ASSUME NEW j \in {k, l}, NEW q \in {p, c},
             Puts(ask', ask, a, j), Puts(panel', panel, a, q)
      PROVE  WindowsInv'
  <2>1. /\ AskTypes(j) /\ j.at = "taken" /\ j.display = ask[a].display /\ j.scope = ask[a].scope
        /\ j.heard = ask[a].heard /\ j.verdicts = n
    <3>1. CASE j = k
      BY <1>2, <1>3, <1>4, <1>6, <3>1 DEF AskTypes, IsAsk
    <3>2. CASE j = l
      BY <1>2, <1>3, <1>4, <1>7, <3>2 DEF AskTypes, IsAsk
    <3> QED BY <1>8, <3>1, <3>2
  <2>2. PasswordsIn(j) = PasswordsIn(ask[a]) /\ (Decided(j) <=> Decided(ask[a]))
    BY <2>1 DEF PasswordsIn, Decided
  <2>3. HeardInOrder(j)
    BY <1>2, <1>5, <2>1, <2>2 DEF HeardInOrder
  <2>4. /\ PanelTypes(q) /\ q.at = panel[a].at /\ q.label = panel[a].label
        /\ q.text = panel[a].text /\ q.enabled = panel[a].enabled /\ q.error = panel[a].error
        /\ q.finished = panel[a].finished /\ q.sender = panel[a].sender
        /\ \/ panel[a].feedback = "empty"
           \/ q.feedback = panel[a].feedback
    BY <1>2, FedIs DEF Verdicts
  <2>5. Together(j, q)
    BY <1>2, <1>3, <2>1, <2>2, <2>4 DEF Together
  <2>6. Stage(q, a = gui.current.id, a = gui.closing)
    BY <1>2, <2>4 DEF Stage
  <2> QED BY <1>1, <1>2, <1>4, <1>8, <2>1, <2>3, <2>4, <2>5, <2>6, PanelMoves
<1> HIDE DEF p, c
<1>9. CASE ask' = [ask EXCEPT ![a] = k] /\ panel' = [panel EXCEPT ![a] = p]
  <2>1. Puts(ask', ask, a, k) /\ Puts(panel', panel, a, p)
    BY <1>2, <1>9, PutsAt
  <2> QED BY <1>8, <2>1
<1>10. CASE ask' = [ask EXCEPT ![a] = l] /\ panel' = [panel EXCEPT ![a] = c]
  <2>1. Puts(ask', ask, a, l) /\ Puts(panel', panel, a, c)
    BY <1>2, <1>10, PutsAt
  <2> QED BY <1>8, <2>1
<1> QED BY <1>1, <1>9, <1>10

(***************************************************************************)
(* A handler that ends leaves its request and its window right together.   *)
(***************************************************************************)
LEMMA Ended ==
    ASSUME NEW k, AskTypes(k), HeardInOrder(k), NEW p, PanelTypes(p), Together(k, p),
           NEW isCurrent, NEW isClosing, Stage(p, isCurrent, isClosing)
    PROVE  LET j == [k EXCEPT !.listening = FALSE]
               q == Fed(p, "closed")
           IN  /\ AskTypes(j) /\ j.at = k.at /\ j.display = k.display /\ j.scope = k.scope
               /\ HeardInOrder(j) /\ PanelTypes(q) /\ q.at = p.at /\ q.label = p.label
               /\ (q.sender <=> p.sender)
               /\ Together(j, q) /\ Stage(q, isCurrent, isClosing)
<1> DEFINE j == [k EXCEPT !.listening = FALSE]
           q == Fed(p, "closed")
<1>1. j = [at |-> k.at, display |-> k.display, scope |-> k.scope,
           listening |-> FALSE, heard |-> k.heard, verdicts |-> k.verdicts]
  BY AskChanges DEF AskTypes
<1>2. /\ PanelTypes(q) /\ q.at = p.at /\ q.label = p.label
      /\ q.text = p.text /\ q.enabled = p.enabled /\ q.error = p.error
      /\ q.finished = p.finished /\ q.sender = p.sender
      /\ \/ p.feedback = "empty" /\ q.feedback = "closed"
         \/ q.feedback = p.feedback
  BY FedIs DEF Verdicts
<1> HIDE DEF j, q
<1>3. /\ AskTypes(j) /\ j.at = k.at /\ j.display = k.display /\ j.scope = k.scope
      /\ ~j.listening /\ j.heard = k.heard /\ j.verdicts = k.verdicts
  BY <1>1 DEF AskTypes, IsAsk
<1>4. PasswordsIn(j) = PasswordsIn(k) /\ (Decided(j) <=> Decided(k))
  BY <1>3 DEF PasswordsIn, Decided
<1>5. HeardInOrder(j)
  BY <1>3, <1>4 DEF HeardInOrder
<1>6. Together(j, q)
  BY <1>2, <1>3, <1>4 DEF Together
<1>7. Stage(q, isCurrent, isClosing)
  BY <1>2 DEF Stage
<1> QED BY <1>2, <1>3, <1>5, <1>6, <1>7 DEF j, q

(***************************************************************************)
(* A handler ends.                                                         *)
(***************************************************************************)
LEMMA HandlerEndsSound ==
    ASSUME WindowsInv, NEW a \in Asks, HandlerEnds(a)
    PROVE  WindowsInv'
<1> DEFINE k == [ask[a] EXCEPT !.listening = FALSE]
           p == Fed(panel[a], "closed")
<1>1. /\ ask' = [ask EXCEPT ![a] = k] /\ panel' = [panel EXCEPT ![a] = p]
      /\ UNCHANGED <<desk, gui, asked>>
  BY DEF HandlerEnds
<1>2. /\ DOMAIN ask = Asks /\ DOMAIN panel = Asks
      /\ AskTypes(ask[a]) /\ PanelTypes(panel[a])
      /\ HeardInOrder(ask[a]) /\ Together(ask[a], panel[a])
      /\ Stage(panel[a], a = gui.current.id, a = gui.closing)
      /\ panel[a].at # "none" => panel[a].label \in Labels(a)
  BY CallbackFinds
<1>3. /\ AskTypes(k) /\ k.at = ask[a].at /\ k.display = ask[a].display /\ k.scope = ask[a].scope
      /\ HeardInOrder(k) /\ PanelTypes(p) /\ p.at = panel[a].at /\ p.label = panel[a].label
      /\ (p.sender <=> panel[a].sender)
      /\ Together(k, p) /\ Stage(p, a = gui.current.id, a = gui.closing)
  BY <1>2, Ended
<1>4. Puts(ask', ask, a, k) /\ Puts(panel', panel, a, p)
  BY <1>1, <1>2, PutsAt
<1> HIDE DEF k, p
<1> QED BY <1>1, <1>2, <1>3, <1>4, PanelMoves

(***************************************************************************)
(* QML creates the window of CURRENT.                                      *)
(***************************************************************************)
LEMMA CreateSound ==
    ASSUME WindowsInv, CreateWindow
    PROVE  WindowsInv'
<1> DEFINE a == gui.current.id
           label == gui.current.label
           p == NewPanel(label)
<1>1. /\ a # NoAsk /\ panel' = [panel EXCEPT ![a] = p] /\ gui' = [gui EXCEPT !.current = NoCurrent]
      /\ UNCHANGED <<desk, ask, asked>>
  BY DEF CreateWindow
<1>2. a \in Asks /\ label \in Labels(a)
  BY <1>1 DEF WindowsInv, Dispatching
<1>3. /\ DOMAIN ask = Asks /\ DOMAIN panel = Asks
      /\ AskTypes(ask[a]) /\ PanelTypes(panel[a])
      /\ HeardInOrder(ask[a]) /\ Together(ask[a], panel[a])
      /\ Stage(panel[a], TRUE, a = gui.closing)
  BY <1>2, CallbackFinds
<1>4. /\ panel[a].sender /\ panel[a].feedback = "none" /\ ask[a].at = "taken" /\ ~Decided(ask[a])
      /\ a # gui.closing
  BY <1>3 DEF Stage, Together
<1>5. p = [at |-> "shown", label |-> label, text |-> "", enabled |-> TRUE,
           error |-> FALSE, finished |-> FALSE, sender |-> TRUE, feedback |-> "none"]
  BY NewPanelIs
<1>6. Puts(ask', ask, a, ask[a]) /\ Puts(panel', panel, a, p)
  BY <1>1, <1>2, <1>3, PutsAt
<1> HIDE DEF p, a, label
<1>7. /\ PanelTypes(p) /\ p.at = "shown" /\ p.label = label /\ p.text = "" /\ ~p.error
      /\ ~p.finished /\ p.sender /\ p.feedback = "none"
  BY <1>5 DEF PanelTypes, IsPanel
<1>8. Together(ask[a], p)
  BY <1>3, <1>4, <1>7 DEF Together
<1>9. Stage(p, FALSE, a = gui.closing)
  BY <1>4, <1>7 DEF Stage
<1>10. gui.current.id = a
  BY DEF a
<1> QED BY <1>1, <1>2, <1>3, <1>6, <1>7, <1>8, <1>9, <1>10, PanelMoves

(***************************************************************************)
(* An action that leaves the dispatcher keeps Dispatching.                 *)
(***************************************************************************)
LEMMA DispatcherStays ==
    ASSUME Dispatching, UNCHANGED <<desk, gui>>,
           \A b \in Asks : ask'[b].display = ask[b].display /\ ask'[b].scope = ask[b].scope,
           gui.at = "ended" => \A b \in Asks : ask'[b].at # "queued" /\ ~panel'[b].sender
    PROVE  Dispatching'
<1>1. (gui.current.id # NoAsk => gui.current.label \in Labels(gui.current.id))'
  <2> SUFFICES ASSUME gui'.current.id # NoAsk
               PROVE  (gui.current.label \in Labels(gui.current.id))'
    OBVIOUS
  <2> DEFINE b == gui.current.id
             label == gui.current.label
  <2>1. b \in Asks /\ label \in Labels(b) /\ b' = b /\ label' = label
    BY DEF Dispatching
  <2>2. ask'[b].display = ask[b].display /\ ask'[b].scope = ask[b].scope
    BY <2>1
  <2> QED BY <2>1, <2>2 DEF Labels
<1>2. /\ gui' = [at |-> gui'.at, closing |-> gui'.closing, current |-> gui'.current]
      /\ gui'.current = [id |-> gui'.current.id, label |-> gui'.current.label]
      /\ gui'.at \in {"running", "ended"}
      /\ gui'.closing \in Asks \cup {NoAsk} /\ gui'.current.id \in Asks \cup {NoAsk}
      /\ gui'.at = "ended" =>
             /\ gui'.closing = NoAsk /\ gui'.current.id = NoAsk
             /\ \A a \in Asks : ask'[a].at # "queued" /\ ~panel'[a].sender
  BY DEF Dispatching
<1> QED BY <1>1, <1>2 DEF Dispatching

(***************************************************************************)
(* A request that is refused does not enter the channel.                   *)
(***************************************************************************)
LEMMA QueueKeeps ==
    ASSUME Queued, UNCHANGED asked, NEW a \in Asks, ask[a].at # "queued", ask'[a].at # "queued",
           \A b \in Asks \ {a} : ask'[b].at = ask[b].at
    PROVE  Queued'
<1>1. \A i \in DOMAIN asked : asked[i] \in Asks \ {a}
  BY DEF Queued
<1> QED BY <1>1 DEF Queued

(***************************************************************************)
(* The first of the channel waits.                                         *)
(***************************************************************************)
LEMMA QueueHead ==
    ASSUME WindowsInv, asked # <<>>
    PROVE  Head(asked) \in Asks /\ ask[Head(asked)].at = "queued"
<1>1. asked \in Seq(Asks) /\ 1 \in DOMAIN asked /\ Head(asked) = asked[1]
  BY DEF WindowsInv, Queued
<1> QED BY <1>1 DEF WindowsInv, Queued

(***************************************************************************)
(* A request that is not taken has heard nothing, and has no window and no *)
(* sender.                                                                 *)
(***************************************************************************)
LEMMA WaitingFinds ==
    ASSUME WindowsInv, NEW a \in Asks, ask[a].at # "taken"
    PROVE  /\ DOMAIN ask = Asks /\ DOMAIN panel = Asks
           /\ AskTypes(ask[a]) /\ IsAsk(ask[a]) /\ PanelTypes(panel[a]) /\ IsPanel(panel[a])
           /\ HeardInOrder(ask[a]) /\ Together(ask[a], panel[a])
           /\ ask[a].heard = <<>> /\ ask[a].verdicts = 0
           /\ panel[a].at = "none" /\ ~panel[a].sender /\ panel[a].feedback = "none"
           /\ ~panel[a].error
           /\ a # gui.current.id /\ a # gui.closing
           /\ Stage(panel[a], FALSE, FALSE)
<1>1. /\ DOMAIN ask = Asks /\ DOMAIN panel = Asks
      /\ AskTypes(ask[a]) /\ PanelTypes(panel[a]) /\ IsPanel(panel[a]) /\ IsAsk(ask[a])
      /\ HeardInOrder(ask[a]) /\ Together(ask[a], panel[a])
      /\ Stage(panel[a], a = gui.current.id, a = gui.closing)
  BY CallbackFinds
<1>2. ask[a].heard = <<>> /\ ask[a].verdicts = 0
  BY <1>1 DEF HeardInOrder
<1>3. panel[a].at = "none" /\ ~panel[a].sender
  BY <1>1 DEF Together
<1>4. /\ a # gui.current.id /\ a # gui.closing /\ panel[a].feedback = "none"
      /\ ~panel[a].error /\ Stage(panel[a], FALSE, FALSE)
  BY <1>1, <1>3 DEF Stage
<1> QED BY <1>1, <1>2, <1>3, <1>4

(***************************************************************************)
(* A request whose handler has heard nothing.                              *)
(***************************************************************************)
LEMMA Unheard ==
    ASSUME NEW k, k.heard = <<>>, k.verdicts = 0, k.at # "new"
    PROVE  HeardInOrder(k) /\ PasswordsIn(k) = 0 /\ ~Decided(k)
BY NothingHeard DEF HeardInOrder

(***************************************************************************)
(* dispatch_prompt, before and after the dispatcher's end.                 *)
(***************************************************************************)
LEMMA DispatchSound ==
    ASSUME WindowsInv, NEW a \in Asks, DispatchPrompt(a)
    PROVE  WindowsInv'
<1> DEFINE yes == TRUE
           k == [ask[a] EXCEPT !.at = "queued", !.listening = yes]
           r == [ask[a] EXCEPT !.at = "taken", !.listening = yes, !.heard = <<"dismissed">>]
<1>1. /\ ask[a].at = "new" /\ UNCHANGED <<desk, panel, gui>>
      /\ IF gui.at = "ended" THEN ask' = [ask EXCEPT ![a] = r] /\ UNCHANGED asked
         ELSE ask' = [ask EXCEPT ![a] = k] /\ asked' = Append(asked, a)
  BY DEF DispatchPrompt
<1> HIDE DEF yes
<1>2. /\ DOMAIN ask = Asks /\ DOMAIN panel = Asks
      /\ AskTypes(ask[a]) /\ IsAsk(ask[a]) /\ PanelTypes(panel[a])
      /\ ask[a].heard = <<>> /\ ask[a].verdicts = 0
      /\ panel[a].at = "none" /\ ~panel[a].sender /\ panel[a].feedback = "none"
      /\ ~panel[a].error
      /\ a # gui.current.id /\ a # gui.closing
      /\ Stage(panel[a], FALSE, FALSE)
  BY <1>1, WaitingFinds
<1>3. Stage(panel[a], a = gui'.current.id, a = gui'.closing)
  BY <1>1, <1>2 DEF Stage
<1>4. Puts(panel', panel, a, panel[a])
  BY <1>1, <1>2, PutsAt
<1>5. k = [at |-> "queued", display |-> ask[a].display, scope |-> ask[a].scope,
           listening |-> yes, heard |-> ask[a].heard, verdicts |-> ask[a].verdicts]
  <2>1. k = [ask[a] EXCEPT !.at = "queued", !.listening = yes]
    OBVIOUS
  <2> HIDE DEF k
  <2> QED BY ZenonT(90), <1>2, <2>1, AskQueued
<1>6. r = [at |-> "taken", display |-> ask[a].display, scope |-> ask[a].scope,
           listening |-> yes, heard |-> <<"dismissed">>, verdicts |-> ask[a].verdicts]
  <2>1. r = [ask[a] EXCEPT !.at = "taken", !.listening = yes, !.heard = <<"dismissed">>]
    OBVIOUS
  <2> HIDE DEF r
  <2> QED BY ZenonT(90), <1>2, <2>1, AskRefused
<1>7. yes \in BOOLEAN
  BY DEF yes
<1>8. EachAsk /\ Dispatching /\ Queued
  BY DEF WindowsInv
<1> HIDE DEF k, r
<1>9. CASE gui.at = "ended"
  <2>1. ask' = [ask EXCEPT ![a] = r] /\ UNCHANGED asked
    BY <1>1, <1>9
  <2>2. Puts(ask', ask, a, r)
    BY <1>2, <2>1, PutsAt
  <2>3. <<"dismissed">> \in Seq(HeardSet) /\ <<"dismissed">> = Append(ask[a].heard, "dismissed")
    BY <1>2 DEF HeardSet
  <2>4. /\ AskTypes(r) /\ r.at = "taken" /\ r.display = ask[a].display
        /\ r.scope = ask[a].scope /\ r.heard = <<"dismissed">> /\ r.verdicts = 0
    BY <1>2, <1>6, <1>7, <2>3 DEF AskTypes, IsAsk
  <2>5. PasswordsIn(r) = 0
    <3>1. PasswordsIn(ask[a]) = 0
      BY <1>2, NothingHeard
    <3>2. ask[a].heard \in Seq(HeardSet) /\ "dismissed" \in HeardSet
      BY <1>2 DEF AskTypes, HeardSet
    <3>3. r.heard = Append(ask[a].heard, "dismissed")
      BY <2>3, <2>4
    <3> QED BY <3>1, <3>2, <3>3, PasswordsCount
  <2>6. HeardInOrder(r)
    <3>1. DOMAIN r.heard = {1} /\ Len(r.heard) = 1
      BY <2>4
    <3> QED BY <2>4, <2>5, <3>1 DEF HeardInOrder
  <2>7. Together(r, panel[a])
    BY <1>2, <2>4, <2>5 DEF Together
  <2>8. EachAsk'
    BY <1>1, <1>2, <1>3, <1>4, <1>8, <2>2, <2>4, <2>6, <2>7, OneMoves
  <2>9. /\ \A b \in Asks : ask'[b].display = ask[b].display /\ ask'[b].scope = ask[b].scope
        /\ \A b \in Asks \ {a} : ask'[b] = ask[b]
        /\ ask'[a].at = "taken"
    BY <2>2, <2>4 DEF Puts
  <2>10. Queued'
    BY <1>1, <1>8, <2>1, <2>9, QueueKeeps
  <2>11. gui.at = "ended" => \A b \in Asks : ask'[b].at # "queued" /\ ~panel'[b].sender
    BY <1>1, <1>8, <2>9 DEF Dispatching
  <2>12. Dispatching'
    BY <1>1, <1>8, <2>9, <2>11, DispatcherStays
  <2> QED BY <2>8, <2>10, <2>12 DEF WindowsInv
<1>10. CASE gui.at # "ended"
  <2>1. ask' = [ask EXCEPT ![a] = k] /\ asked' = Append(asked, a)
    BY <1>1, <1>10
  <2>2. Puts(ask', ask, a, k)
    BY <1>2, <2>1, PutsAt
  <2>3. /\ AskTypes(k) /\ k.at = "queued" /\ k.display = ask[a].display
        /\ k.scope = ask[a].scope /\ k.heard = <<>> /\ k.verdicts = 0
    BY <1>2, <1>5, <1>7 DEF AskTypes, IsAsk
  <2>4. HeardInOrder(k) /\ PasswordsIn(k) = 0
    BY <2>3, Unheard
  <2>5. Together(k, panel[a])
    BY <1>2, <2>3, <2>4 DEF Together
  <2>6. EachAsk'
    BY <1>1, <1>2, <1>3, <1>4, <1>8, <2>2, <2>3, <2>4, <2>5, OneMoves
  <2>7. /\ \A b \in Asks : ask'[b].display = ask[b].display /\ ask'[b].scope = ask[b].scope
        /\ \A b \in Asks \ {a} : ask'[b] = ask[b]
        /\ ask'[a].at = "queued"
    BY <2>2, <2>3 DEF Puts
  <2>8. Queued'
    BY <1>1, <1>8, <2>1, <2>7, QueueGrows
  <2>9. Dispatching'
    BY <1>1, <1>8, <1>10, <2>7, DispatcherStays
  <2> QED BY <2>6, <2>8, <2>9 DEF WindowsInv
<1> QED BY <1>9, <1>10

(***************************************************************************)
(* The request that is taken from the channel.                             *)
(***************************************************************************)
LEMMA TakenFinds ==
    ASSUME WindowsInv, asked # <<>>, Taken, NEW a, a = Head(asked)
    PROVE  LET k == [ask[a] EXCEPT !.at = "taken"]
           IN  /\ a \in Asks /\ ask[a].at = "queued" /\ asked' = Tail(asked)
               /\ Puts(ask', ask, a, k)
               /\ AskTypes(k) /\ k.at = "taken" /\ k.display = ask[a].display
               /\ k.scope = ask[a].scope /\ HeardInOrder(k)
               /\ PasswordsIn(k) = 0 /\ ~Decided(k) /\ k.verdicts = 0
               /\ Queued'
<1> DEFINE k == [ask[a] EXCEPT !.at = "taken"]
<1>1. a \in Asks /\ ask[a].at = "queued"
  BY QueueHead
<1>2. /\ DOMAIN ask = Asks /\ AskTypes(ask[a]) /\ IsAsk(ask[a])
      /\ ask[a].heard = <<>> /\ ask[a].verdicts = 0
  BY <1>1, WaitingFinds
<1>3. ask' = [ask EXCEPT ![a] = k] /\ asked' = Tail(asked)
  BY DEF Taken
<1>4. Puts(ask', ask, a, k)
  BY <1>1, <1>2, <1>3, PutsAt
<1>5. k = [at |-> "taken", display |-> ask[a].display, scope |-> ask[a].scope,
           listening |-> ask[a].listening, heard |-> ask[a].heard, verdicts |-> ask[a].verdicts]
  BY <1>2, AskChanges
<1> HIDE DEF k
<1>6. /\ AskTypes(k) /\ k.at = "taken" /\ k.display = ask[a].display
      /\ k.scope = ask[a].scope /\ k.heard = <<>> /\ k.verdicts = 0
  BY <1>2, <1>5 DEF AskTypes, IsAsk
<1>7. HeardInOrder(k) /\ PasswordsIn(k) = 0 /\ ~Decided(k)
  BY <1>6, Unheard
<1>8. ask'[a].at = "taken" /\ \A b \in Asks \ {a} : ask'[b].at = ask[b].at
  BY <1>4, <1>6 DEF Puts
<1>9. Queued'
  BY <1>3, <1>8, QueueTakes DEF WindowsInv
<1> QED BY <1>1, <1>3, <1>4, <1>6, <1>7, <1>9 DEF k

(***************************************************************************)
(* GTK and AppKit take a request and show its window.                      *)
(***************************************************************************)
LEMMA PresentWindowSound ==
    ASSUME WindowsInv, gui.at = "running", GuiThread, asked # <<>>, Taken,
           \E label \in Labels(Head(asked)) :
               panel' = [panel EXCEPT ![Head(asked)] = NewPanel(label)],
           UNCHANGED <<desk, gui>>
    PROVE  WindowsInv'
<1> DEFINE a == Head(asked)
           k == [ask[a] EXCEPT !.at = "taken"]
<1>1. PICK label \in Labels(a) : panel' = [panel EXCEPT ![a] = NewPanel(label)]
  OBVIOUS
<1> DEFINE p == NewPanel(label)
<1>2. /\ a \in Asks /\ ask[a].at = "queued" /\ asked' = Tail(asked)
      /\ Puts(ask', ask, a, k)
      /\ AskTypes(k) /\ k.at = "taken" /\ k.display = ask[a].display
      /\ k.scope = ask[a].scope /\ HeardInOrder(k)
      /\ PasswordsIn(k) = 0 /\ ~Decided(k) /\ k.verdicts = 0
      /\ Queued'
  BY TakenFinds
<1>3. DOMAIN panel = Asks /\ a # gui.current.id /\ a # gui.closing
  BY <1>2, WaitingFinds
<1>4. Puts(panel', panel, a, p)
  BY <1>1, <1>2, <1>3, PutsAt
<1>5. p = [at |-> "shown", label |-> label, text |-> "", enabled |-> TRUE,
           error |-> FALSE, finished |-> FALSE, sender |-> TRUE, feedback |-> "none"]
  BY NewPanelIs
<1>6. EachAsk /\ Dispatching
  BY DEF WindowsInv
<1> HIDE DEF p, k, a
<1>7. /\ PanelTypes(p) /\ p.at = "shown" /\ p.label = label /\ p.text = "" /\ ~p.error
      /\ ~p.finished /\ p.sender /\ p.feedback = "none"
  BY <1>5 DEF PanelTypes, IsPanel
<1>8. k.verdicts \in Nat
  BY <1>2
<1>9. Together(k, p)
  <2>1. PasswordsIn(k) <= k.verdicts
    BY <1>2
  <2>2. k.at = "taken" /\ ~Decided(k)
    BY <1>2
  <2> QED BY <1>7, <2>1, <2>2 DEF Together
<1>10. Stage(p, a = gui'.current.id, a = gui'.closing)
  BY <1>3, <1>7 DEF Stage
<1>11. EachAsk'
  BY <1>1, <1>2, <1>4, <1>6, <1>7, <1>9, <1>10, OneMoves
<1>12. \A b \in Asks : ask'[b].display = ask[b].display /\ ask'[b].scope = ask[b].scope
  BY <1>2 DEF Puts
<1>13. Dispatching'
  BY <1>6, <1>12, DispatcherStays
<1> QED BY <1>2, <1>11, <1>13 DEF WindowsInv

(***************************************************************************)
(* Qt takes a request into CURRENT.                                        *)
(***************************************************************************)
LEMMA PollPromptSound ==
    ASSUME WindowsInv, PollPrompt
    PROVE  WindowsInv'
<1> DEFINE a == Head(asked)
           k == [ask[a] EXCEPT !.at = "taken"]
           yes == TRUE
           p == [panel[a] EXCEPT !.sender = yes]
<1>1. /\ gui.at = "running" /\ asked # <<>> /\ gui.current.id = NoAsk /\ Taken
      /\ UNCHANGED desk /\ panel' = [panel EXCEPT ![a] = p]
  BY DEF PollPrompt
<1>2. PICK label \in Labels(a) : gui' = [gui EXCEPT !.current = [id |-> a, label |-> label]]
  BY DEF PollPrompt
<1> HIDE DEF yes
<1>3. /\ a \in Asks /\ ask[a].at = "queued" /\ asked' = Tail(asked)
      /\ Puts(ask', ask, a, k)
      /\ AskTypes(k) /\ k.at = "taken" /\ k.display = ask[a].display
      /\ k.scope = ask[a].scope /\ HeardInOrder(k)
      /\ PasswordsIn(k) = 0 /\ ~Decided(k) /\ k.verdicts = 0
      /\ Queued'
  BY <1>1, TakenFinds
<1>4. /\ DOMAIN panel = Asks /\ a # gui.closing /\ PanelTypes(panel[a]) /\ IsPanel(panel[a])
      /\ Together(ask[a], panel[a]) /\ Stage(panel[a], FALSE, FALSE)
      /\ panel[a].at = "none" /\ panel[a].feedback = "none" /\ ~panel[a].error
  BY <1>3, WaitingFinds
<1>5. Puts(panel', panel, a, p)
  BY <1>1, <1>3, <1>4, PutsAt
<1>6. p = [at |-> panel[a].at, label |-> panel[a].label, text |-> panel[a].text,
           enabled |-> panel[a].enabled, error |-> panel[a].error,
           finished |-> panel[a].finished, sender |-> yes, feedback |-> panel[a].feedback]
  BY <1>4, PanelChanges
<1>7. EachAsk /\ Dispatching
  BY DEF WindowsInv
<1>8. gui' = [at |-> gui.at, closing |-> gui.closing, current |-> [id |-> a, label |-> label]]
  BY <1>2, <1>7 DEF Dispatching
<1>9. yes \in BOOLEAN /\ yes
  BY DEF yes
<1> HIDE DEF p, k, a
<1>10. /\ PanelTypes(p) /\ p.at = "none" /\ p.text = panel[a].text
       /\ (p.enabled <=> panel[a].enabled) /\ ~p.error
       /\ (p.finished <=> panel[a].finished) /\ p.sender /\ p.feedback = "none"
  BY <1>4, <1>6, <1>9 DEF PanelTypes, IsPanel
<1>11. Together(k, p)
  BY <1>3, <1>10 DEF Together
<1>12. gui'.current.id = a /\ gui'.closing = gui.closing
  BY <1>8
<1>13. Stage(p, a = gui'.current.id, a = gui'.closing)
  BY <1>4, <1>10, <1>12 DEF Stage
<1>14. \A b \in Asks \ {a} :
           /\ b = gui'.current.id <=> b = gui.current.id
           /\ b = gui'.closing <=> b = gui.closing
  <2> SUFFICES ASSUME NEW b \in Asks \ {a}
               PROVE  (b = gui'.current.id <=> b = gui.current.id)
                      /\ (b = gui'.closing <=> b = gui.closing)
    OBVIOUS
  <2>1. b # gui'.current.id
    BY <1>12
  <2>2. b # gui.current.id
    BY <1>1, WindowsAssumption
  <2> QED BY <1>12, <2>1, <2>2
<1>15. EachAsk' /\ \A b \in Asks : Labels(b)' = Labels(b)
  BY <1>1, <1>3, <1>5, <1>7, <1>10, <1>11, <1>13, <1>14, OneMoves
<1>16. (gui.current.label \in Labels(gui.current.id))'
  <2>1. ask'[a].display = ask[a].display /\ ask'[a].scope = ask[a].scope
    BY <1>3 DEF Puts
  <2>2. label \in
      {Label(ask[a].display, ask[a].scope, icon) : icon \in IconsOf(desk, ask[a].display)}
    BY <1>2 DEF Labels
  <2>3. gui'.current.label = label
    BY <1>8
  <2> QED BY <1>1, <1>12, <2>1, <2>2, <2>3 DEF Labels
<1>17. Dispatching'
  <2>1. gui.closing \in Asks \cup {NoAsk}
    BY <1>7 DEF Dispatching
  <2> QED BY <1>1, <1>3, <1>8, <1>16, <2>1 DEF Dispatching
<1> QED BY <1>3, <1>15, <1>17 DEF WindowsInv

(***************************************************************************)
(* The request that is dismissed.                                          *)
(***************************************************************************)
LEMMA DismissedIs ==
    ASSUME NEW a, AskTypes(ask[a]), HeardInOrder(ask[a]), ask[a].at # "new", ~Decided(ask[a])
    PROVE  LET k == Dismissed(a)
           IN  /\ AskTypes(k) /\ k.at = "taken" /\ k.display = ask[a].display
               /\ k.scope = ask[a].scope /\ k.verdicts = ask[a].verdicts
               /\ (k.listening <=> ask[a].listening)
               /\ PasswordsIn(k) = PasswordsIn(ask[a]) /\ HeardInOrder(k)
<1> DEFINE h == Heard(a, "dismissed")
           k == [h EXCEPT !.at = "taken"]
<1>1. "dismissed" \in HeardSet /\ "dismissed" # "password"
  BY DEF HeardSet
<1>2. /\ AskTypes(h) /\ h.display = ask[a].display /\ h.scope = ask[a].scope
      /\ h.listening = ask[a].listening /\ h.verdicts = ask[a].verdicts
      /\ \A i \in DOMAIN h.heard : Final(h.heard[i]) => i = Len(h.heard)
      /\ PasswordsIn(h) = PasswordsIn(ask[a])
  BY <1>1, HeardSays
<1>3. Dismissed(a) = k
  BY DEF Dismissed
<1> HIDE DEF h
<1>4. k = [at |-> "taken", display |-> h.display, scope |-> h.scope,
           listening |-> h.listening, heard |-> h.heard, verdicts |-> h.verdicts]
  BY <1>2, AskChanges DEF AskTypes
<1> HIDE DEF k
<1>5. /\ AskTypes(k) /\ k.at = "taken" /\ k.display = ask[a].display
      /\ k.scope = ask[a].scope /\ k.verdicts = ask[a].verdicts
      /\ (k.listening <=> ask[a].listening) /\ k.heard = h.heard
  BY <1>2, <1>4 DEF AskTypes, IsAsk
<1>6. PasswordsIn(k) = PasswordsIn(ask[a])
  BY <1>2, <1>5 DEF PasswordsIn
<1>7. HeardInOrder(k)
  BY <1>2, <1>5, <1>6 DEF HeardInOrder
<1> QED BY <1>3, <1>5, <1>6, <1>7

(***************************************************************************)
(* Without a toolkit the request is dismissed.                             *)
(***************************************************************************)
LEMMA DenyAllSound ==
    ASSUME WindowsInv, DenyAll
    PROVE  WindowsInv'
<1> DEFINE a == Head(asked)
           k == Dismissed(a)
<1>1. /\ gui.at = "running" /\ asked # <<>> /\ ask' = [ask EXCEPT ![a] = k]
      /\ asked' = Tail(asked) /\ UNCHANGED <<desk, panel, gui>>
  BY DEF DenyAll
<1>2. a \in Asks /\ ask[a].at = "queued"
  BY <1>1, QueueHead
<1>3. /\ DOMAIN ask = Asks /\ DOMAIN panel = Asks
      /\ AskTypes(ask[a]) /\ PanelTypes(panel[a]) /\ HeardInOrder(ask[a])
      /\ ask[a].heard = <<>> /\ ask[a].verdicts = 0
      /\ panel[a].at = "none" /\ ~panel[a].sender /\ panel[a].feedback = "none"
      /\ ~panel[a].error
      /\ a # gui.current.id /\ a # gui.closing
      /\ Stage(panel[a], FALSE, FALSE)
  BY <1>2, WaitingFinds
<1>4. PasswordsIn(ask[a]) = 0 /\ ~Decided(ask[a])
  BY <1>3, NothingHeard
<1>5. /\ AskTypes(k) /\ k.at = "taken" /\ k.display = ask[a].display
      /\ k.scope = ask[a].scope /\ k.verdicts = 0
      /\ PasswordsIn(k) = 0 /\ HeardInOrder(k)
  BY <1>2, <1>3, <1>4, DismissedIs
<1>6. Puts(ask', ask, a, k) /\ Puts(panel', panel, a, panel[a])
  BY <1>1, <1>2, <1>3, PutsAt
<1>7. EachAsk /\ Dispatching /\ Queued
  BY DEF WindowsInv
<1> HIDE DEF k, a
<1>8. Together(k, panel[a])
  BY <1>3, <1>5 DEF Together
<1>9. Stage(panel[a], a = gui'.current.id, a = gui'.closing)
  BY <1>1, <1>3 DEF Stage
<1>10. EachAsk'
  BY <1>1, <1>2, <1>3, <1>5, <1>6, <1>7, <1>8, <1>9, OneMoves
<1>11. /\ \A b \in Asks : ask'[b].display = ask[b].display /\ ask'[b].scope = ask[b].scope
       /\ \A b \in Asks \ {a} : ask'[b].at = ask[b].at
       /\ ask'[a].at = "taken" /\ a = Head(asked)
  BY <1>5, <1>6 DEF Puts, a
<1>12. Dispatching'
  BY <1>1, <1>7, <1>11, DispatcherStays
<1>13. Queued'
  BY <1>1, <1>7, <1>11, QueueTakes
<1> QED BY <1>10, <1>12, <1>13 DEF WindowsInv

(***************************************************************************)
(* The server ends, with all handlers.                                     *)
(***************************************************************************)
LEMMA ServerEndsSound ==
    ASSUME WindowsInv, ServerEnds
    PROVE  WindowsInv'
<1>1. /\ ask' = [a \in Asks |-> [ask[a] EXCEPT !.listening = FALSE]]
      /\ panel' = [a \in Asks |-> Fed(panel[a], "closed")]
      /\ UNCHANGED <<desk, gui, asked>>
  BY DEF ServerEnds
<1>2. EachAsk /\ Dispatching /\ Queued
  BY DEF WindowsInv
<1>3. ASSUME NEW a \in Asks
      PROVE  /\ AskTypes(ask'[a]) /\ ask'[a].at = ask[a].at
             /\ ask'[a].display = ask[a].display /\ ask'[a].scope = ask[a].scope
             /\ HeardInOrder(ask'[a]) /\ PanelTypes(panel'[a])
             /\ (panel'[a].sender <=> panel[a].sender)
             /\ Together(ask'[a], panel'[a])
             /\ Stage(panel'[a], a = gui'.current.id, a = gui'.closing)
             /\ panel'[a].at # "none" => panel'[a].label \in Labels(a)
  <2> DEFINE k == [ask[a] EXCEPT !.listening = FALSE]
             p == Fed(panel[a], "closed")
  <2>1. /\ AskTypes(ask[a]) /\ PanelTypes(panel[a])
        /\ HeardInOrder(ask[a]) /\ Together(ask[a], panel[a])
        /\ Stage(panel[a], a = gui.current.id, a = gui.closing)
        /\ panel[a].at # "none" => panel[a].label \in Labels(a)
    BY <1>3, CallbackFinds
  <2>2. /\ AskTypes(k) /\ k.at = ask[a].at /\ k.display = ask[a].display
        /\ k.scope = ask[a].scope /\ HeardInOrder(k) /\ PanelTypes(p)
        /\ p.at = panel[a].at /\ p.label = panel[a].label
        /\ (p.sender <=> panel[a].sender)
        /\ Together(k, p) /\ Stage(p, a = gui.current.id, a = gui.closing)
    BY <2>1, Ended
  <2>3. ask'[a] = k /\ panel'[a] = p
    BY <1>1, <1>3
  <2> HIDE DEF k, p
  <2> QED BY <1>1, <2>1, <2>2, <2>3
<1>4. \A a \in Asks : Labels(a)' = Labels(a)
  BY <1>1, <1>3, LabelsStay
<1>5. DOMAIN ask' = Asks /\ DOMAIN panel' = Asks
  BY <1>1
<1>6. EachAsk'
  BY <1>3, <1>4, <1>5 DEF EachAsk
<1>7. Queued'
  BY <1>1, <1>2, <1>3, QueueStays
<1>8. gui.at = "ended" => \A b \in Asks : ask'[b].at # "queued" /\ ~panel'[b].sender
  BY <1>2, <1>3 DEF Dispatching
<1>9. Dispatching'
  BY <1>1, <1>2, <1>3, <1>8, DispatcherStays
<1> QED BY <1>6, <1>7, <1>9 DEF WindowsInv

(***************************************************************************)
(* The dispatcher ends after the last window.                              *)
(***************************************************************************)
LEMMA DispatcherEndsSound ==
    ASSUME WindowsInv, DispatcherEnds
    PROVE  WindowsInv'
<1>1. /\ gui.closing = NoAsk /\ gui.current.id = NoAsk /\ asked = <<>> /\ AllClosed
      /\ gui' = [gui EXCEPT !.at = "ended"] /\ UNCHANGED <<desk, ask, panel, asked>>
  BY DEF DispatcherEnds, GuiThread
<1>2. EachAsk /\ Dispatching /\ Queued
  BY DEF WindowsInv
<1>3. gui' = [at |-> "ended", closing |-> gui.closing, current |-> gui.current]
  BY <1>1, <1>2 DEF Dispatching
<1>4. gui'.closing = gui.closing /\ gui'.current = gui.current /\ gui'.at = "ended"
  BY <1>3
<1>5. \A a \in Asks : Labels(a)' = Labels(a)
  BY <1>1, LabelsStay
<1>6. EachAsk'
  BY <1>1, <1>2, <1>4, <1>5 DEF EachAsk
<1>7. Queued'
  BY <1>1, <1>2, QueueStays
<1>8. \A a \in Asks : ask[a].at # "queued"
  BY <1>1, <1>2 DEF Queued
<1>9. \A a \in Asks : ~panel[a].sender
  BY <1>1 DEF AllClosed
<1>10. Dispatching'
  BY <1>1, <1>2, <1>3, <1>4, <1>8, <1>9 DEF Dispatching
<1> QED BY <1>6, <1>7, <1>10 DEF WindowsInv

(***************************************************************************)
(* Qt's loop is ended by the session: everything there is dismissed.       *)
(***************************************************************************)
LEMMA QuitSound ==
    ASSUME WindowsInv, QuitQt
    PROVE  WindowsInv'
<1> DEFINE k(a) == IF panel[a].sender \/ ask[a].at = "queued" THEN Dismissed(a) ELSE ask[a]
           s(a) == [Closing(panel[a]) EXCEPT !.at = "closed", !.enabled = FALSE, !.text = ""]
           p(a) == IF panel[a].at = "shown" THEN s(a) ELSE panel[a]
<1>1. /\ gui.closing = NoAsk /\ gui.current.id = NoAsk
      /\ gui' = [gui EXCEPT !.at = "ended"]
      /\ ask' = [a \in Asks |-> k(a)] /\ panel' = [a \in Asks |-> p(a)]
      /\ asked' = <<>> /\ UNCHANGED desk
  BY DEF QuitQt, GuiThread
<1>2. EachAsk /\ Dispatching /\ Queued
  BY DEF WindowsInv
<1>3. gui' = [at |-> "ended", closing |-> gui.closing, current |-> gui.current]
  BY <1>1, <1>2 DEF Dispatching
<1>4. gui'.closing = NoAsk /\ gui'.current = gui.current /\ gui'.at = "ended"
  BY <1>1, <1>3
<1>5. ASSUME NEW a \in Asks
      PROVE  /\ AskTypes(ask'[a]) /\ ask'[a].at # "queued"
             /\ ask'[a].display = ask[a].display /\ ask'[a].scope = ask[a].scope
             /\ HeardInOrder(ask'[a]) /\ PanelTypes(panel'[a]) /\ ~panel'[a].sender
             /\ Together(ask'[a], panel'[a])
             /\ Stage(panel'[a], a = gui'.current.id, a = gui'.closing)
             /\ panel'[a].at # "none" => panel'[a].label \in Labels(a)
  <2> DEFINE ka == k(a)
             pa == p(a)
             sa == s(a)
  <2>1. /\ AskTypes(ask[a]) /\ PanelTypes(panel[a]) /\ IsPanel(panel[a])
        /\ HeardInOrder(ask[a]) /\ Together(ask[a], panel[a])
        /\ Stage(panel[a], a = gui.current.id, a = gui.closing)
        /\ panel[a].at # "none" => panel[a].label \in Labels(a)
    BY <1>5, CallbackFinds
  <2>2. ask'[a] = ka /\ panel'[a] = pa
    BY <1>1, <1>5
  <2>3. a # gui.closing /\ a # gui.current.id
    BY <1>1, WindowsAssumption
  <2>4. panel[a].at # "closing" /\ (panel[a].at # "shown" => ~panel[a].sender)
    BY <2>1, <2>3 DEF Stage, PanelTypes
  <2>5. panel[a].sender \/ ask[a].at = "queued" => ~Decided(ask[a]) /\ ask[a].at # "new"
    <3>1. CASE panel[a].sender
      BY <2>1, <3>1 DEF Together
    <3>2. CASE ask[a].at = "queued"
      BY <2>1, <3>2, NothingHeard DEF HeardInOrder
    <3> QED BY <3>1, <3>2
  <2>6. /\ AskTypes(ka) /\ ka.at # "queued" /\ ka.display = ask[a].display
        /\ ka.scope = ask[a].scope /\ ka.verdicts = ask[a].verdicts
        /\ (ka.listening <=> ask[a].listening)
        /\ PasswordsIn(ka) = PasswordsIn(ask[a]) /\ HeardInOrder(ka)
        /\ ask[a].at = "taken" => ka.at = "taken"
    <3>1. CASE panel[a].sender \/ ask[a].at = "queued"
      <4>1. ka = Dismissed(a)
        BY <3>1
      <4> HIDE DEF ka
      <4>2. /\ AskTypes(Dismissed(a)) /\ Dismissed(a).at = "taken"
            /\ Dismissed(a).display = ask[a].display
            /\ Dismissed(a).scope = ask[a].scope /\ Dismissed(a).verdicts = ask[a].verdicts
            /\ (Dismissed(a).listening <=> ask[a].listening)
            /\ PasswordsIn(Dismissed(a)) = PasswordsIn(ask[a]) /\ HeardInOrder(Dismissed(a))
        BY <2>1, <2>5, <3>1, DismissedIs
      <4> QED BY <4>1, <4>2
    <3>2. CASE ~(panel[a].sender \/ ask[a].at = "queued")
      <4>1. ka = ask[a]
        BY <3>2
      <4> HIDE DEF ka
      <4> QED BY <2>1, <3>2, <4>1
    <3> QED BY <3>1, <3>2
  <2>7. sa = [at |-> "closed", label |-> panel[a].label, text |-> "", enabled |-> FALSE,
              error |-> panel[a].error, finished |-> TRUE, sender |-> FALSE,
              feedback |-> panel[a].feedback]
    BY <2>1, ShutIs
  <2>8. panel[a].at = "shown" => pa = sa
    OBVIOUS
  <2>9. panel[a].at # "shown" => pa = panel[a]
    OBVIOUS
  <2> HIDE DEF ka, pa, sa
  <2>10. /\ PanelTypes(pa) /\ pa.label = panel[a].label /\ ~pa.sender
         /\ Together(ka, pa) /\ Stage(pa, a = gui'.current.id, a = gui'.closing)
         /\ pa.at # "none" => panel[a].at # "none"
    <3>1. CASE panel[a].at = "shown"
      <4>1. /\ PanelTypes(sa) /\ sa.at = "closed" /\ sa.label = panel[a].label /\ sa.text = ""
            /\ ~sa.enabled /\ sa.error = panel[a].error /\ sa.finished /\ ~sa.sender
            /\ sa.feedback = panel[a].feedback
        BY <2>1, <2>7 DEF PanelTypes, IsPanel
      <4>2. Together(ka, sa)
        BY <2>1, <2>6, <3>1, <4>1 DEF Together
      <4>3. Stage(sa, a = gui'.current.id, a = gui'.closing)
        BY <1>1, <1>4, <2>3, <4>1 DEF Stage
      <4> QED BY <2>8, <3>1, <4>1, <4>2, <4>3
    <3>2. CASE panel[a].at # "shown"
      <4>1. Together(ka, panel[a])
        BY <2>1, <2>4, <2>6, <3>2 DEF Together
      <4>2. Stage(panel[a], a = gui'.current.id, a = gui'.closing)
        BY ZenonT(90), <1>1, <1>4, <2>1 DEF Stage
      <4> QED BY <2>1, <2>4, <2>9, <3>2, <4>1, <4>2
    <3> QED BY <3>1, <3>2
  <2> QED BY <2>1, <2>2, <2>6, <2>10
<1>6. \A a \in Asks : Labels(a)' = Labels(a)
  BY <1>1, <1>5, LabelsStay
<1>7. DOMAIN ask' = Asks /\ DOMAIN panel' = Asks
  BY <1>1
<1>8. EachAsk'
  BY <1>5, <1>6, <1>7 DEF EachAsk
<1>9. Queued'
  <2>1. asked' = <<>>
    BY <1>1
  <2>3. <<>> \in Seq(Asks) /\ DOMAIN <<>> = {}
    OBVIOUS
  <2>2. \A a \in Asks : ask'[a].at # "queued"
    BY SMTT(60), <1>5
  <2> QED BY <2>1, <2>2, <2>3 DEF Queued
<1>10. Dispatching'
  BY <1>1, <1>2, <1>3, <1>4, <1>5 DEF Dispatching
<1> QED BY <1>8, <1>9, <1>10 DEF WindowsInv

-----------------------------------------------------------------------------

(***************************************************************************)
(* The invariant holds before the first request.                           *)
(***************************************************************************)
LEMMA WindowsStart == InitWindows => WindowsInv
<1> SUFFICES ASSUME InitWindows PROVE WindowsInv
  OBVIOUS
<1>1. PICK wanted \in Wanted :
          ask = [a \in Asks |-> [at |-> "new", display |-> wanted[a].display,
                                 scope |-> wanted[a].scope, listening |-> FALSE,
                                 heard |-> <<>>, verdicts |-> 0]]
  BY DEF InitWindows
<1>2. /\ panel = [a \in Asks |-> NoPanel]
      /\ gui = [at |-> "running", closing |-> NoAsk, current |-> NoCurrent]
      /\ asked = <<>>
  BY DEF InitWindows
<1>3. ASSUME NEW a \in Asks
      PROVE  /\ AskTypes(ask[a]) /\ HeardInOrder(ask[a]) /\ ask[a].at = "new"
             /\ ~ask[a].listening
  <2>1. ask[a] = [at |-> "new", display |-> wanted[a].display,
                  scope |-> wanted[a].scope, listening |-> FALSE,
                  heard |-> <<>>, verdicts |-> 0]
    BY <1>1, <1>3
  <2>2. /\ AskTypes(ask[a]) /\ ask[a].at = "new" /\ ~ask[a].listening
        /\ ask[a].heard = <<>> /\ ask[a].verdicts = 0
    BY <2>1 DEF AskTypes, IsAsk
  <2>3. PasswordsIn(ask[a]) = 0
    BY <2>2, NothingHeard
  <2> QED BY <2>2, <2>3 DEF HeardInOrder
<1>4. /\ PanelTypes(NoPanel) /\ NoPanel.at = "none" /\ NoPanel.text = "" /\ ~NoPanel.enabled
      /\ ~NoPanel.error /\ ~NoPanel.finished /\ ~NoPanel.sender /\ NoPanel.feedback = "none"
  BY DEF NoPanel, PanelTypes, IsPanel
<1>5. \A a \in Asks : panel[a] = NoPanel /\ a # NoAsk
  BY <1>2, WindowsAssumption
<1>6. gui.current.id = NoAsk /\ gui.closing = NoAsk
  BY <1>2 DEF NoCurrent
<1>7. ASSUME NEW a \in Asks
      PROVE  Together(ask[a], panel[a]) /\ Stage(panel[a], a = gui.current.id, a = gui.closing)
  BY <1>3, <1>4, <1>5, <1>6, <1>7 DEF Together, Stage
<1>8. EachAsk
  BY <1>1, <1>2, <1>3, <1>4, <1>5, <1>7 DEF EachAsk
<1>9. Dispatching
  BY <1>2, <1>6 DEF Dispatching, NoCurrent
<1>10. Queued
  BY <1>2, <1>3 DEF Queued
<1> QED BY <1>8, <1>9, <1>10 DEF WindowsInv

(***************************************************************************)
(* Every step keeps the invariant.                                         *)
(***************************************************************************)
LEMMA WindowsStep == WindowsInv /\ [NextWindows]_windowVars => WindowsInv'
<1> SUFFICES ASSUME WindowsInv, [NextWindows]_windowVars PROVE WindowsInv'
  OBVIOUS
<1>1. CASE UNCHANGED windowVars
  <2>1. UNCHANGED <<desk, ask, panel, gui, asked>>
    BY <1>1 DEF windowVars
  <2>2. EachAsk'
    BY <2>1 DEF WindowsInv, EachAsk, Labels
  <2>3. Dispatching'
    BY <2>1 DEF WindowsInv, Dispatching, Labels
  <2>4. Queued'
    BY <2>1 DEF WindowsInv, Queued
  <2> QED BY <2>2, <2>3, <2>4 DEF WindowsInv
<1>2. CASE \E a \in Asks :
              \/ DispatchPrompt(a) \/ UserActs(a) \/ OnClosing(a)
              \/ PollGtk(a) \/ PollQt(a) \/ PollAppKit(a)
              \/ Verdict(a) \/ HandlerEnds(a)
  <2>1. PICK a \in Asks : \/ DispatchPrompt(a) \/ UserActs(a) \/ OnClosing(a)
                          \/ PollGtk(a) \/ PollQt(a) \/ PollAppKit(a)
                          \/ Verdict(a) \/ HandlerEnds(a)
    BY <1>2
  <2>2. CASE DispatchPrompt(a)
    BY <2>2, DispatchSound
  <2>3. CASE UserActs(a)
    <3>1. CASE Type(a)
      BY <3>1, TypeSound
    <3>2. CASE RefuseAccess(a)
      BY <3>2, RefuseSound
    <3>3. CASE CloseByManager(a)
      BY <3>3, CloseByManagerSound
    <3>4. CASE SubmitGtkPassword(a)
      BY <3>4, SubmitGtkSound
    <3>5. CASE SubmitQtPassword(a)
      BY <3>5, SubmitQtSound
    <3>6. CASE SubmitAppKitPassword(a)
      BY <3>6, SubmitAppKitSound
    <3> QED BY <2>3, <3>1, <3>2, <3>3, <3>4, <3>5, <3>6 DEF UserActs
  <2>4. CASE OnClosing(a)
    BY <2>4, OnClosingSound
  <2>5. CASE PollGtk(a) \/ PollQt(a) \/ PollAppKit(a)
    <3>1. \E left \in {panel[a].text, ""} : PollVerdict(a, left)
      BY <2>5 DEF PollGtk, PollQt, PollAppKit
    <3> QED BY <3>1, PollVerdictSound
  <2>6. CASE Verdict(a)
    BY <2>6, VerdictSound
  <2>7. CASE HandlerEnds(a)
    BY <2>7, HandlerEndsSound
  <2> QED BY <2>1, <2>2, <2>3, <2>4, <2>5, <2>6, <2>7
<1>3. CASE PresentGtk
  BY <1>3, PresentWindowSound DEF PresentGtk
<1>4. CASE PresentAppKit
  BY <1>4, PresentWindowSound DEF PresentAppKit
<1>5. CASE PollPrompt
  BY <1>5, PollPromptSound
<1>6. CASE CreateWindow
  BY <1>6, CreateSound
<1>7. CASE DenyAll
  BY <1>7, DenyAllSound
<1>8. CASE ServerEnds
  BY <1>8, ServerEndsSound
<1>9. CASE DispatcherEnds
  BY <1>9, DispatcherEndsSound
<1>10. CASE QuitQt
  BY <1>10, QuitSound
<1> QED BY <1>1, <1>2, <1>3, <1>4, <1>5, <1>6, <1>7, <1>8, <1>9, <1>10 DEF NextWindows

(***************************************************************************)
(* The invariant implies the property.                                     *)
(***************************************************************************)
LEMMA WindowsMean == WindowsInv => WindowsHonest
<1> SUFFICES ASSUME WindowsInv PROVE WindowsHonest
  OBVIOUS
<1>1. ASSUME NEW a \in Asks
      PROVE  /\ AskTypes(ask[a]) /\ PanelTypes(panel[a])
             /\ HeardInOrder(ask[a]) /\ Together(ask[a], panel[a])
             /\ Stage(panel[a], a = gui.current.id, a = gui.closing)
             /\ panel[a].at # "none" => panel[a].label \in Labels(a)
  BY <1>1, CallbackFinds
<1>2. ShowsRequest
  BY <1>1 DEF ShowsRequest
<1>3. OutcomesInOrder
  BY <1>1 DEF OutcomesInOrder, HeardInOrder, PasswordsSent, PasswordsIn
<1>4. WaitersCanBeAnswered
  <2> SUFFICES ASSUME NEW a \in Asks
               PROVE  /\ ask[a].at = "queued" => gui.at = "running"
                      /\ panel[a].sender =>
                             /\ gui.at = "running"
                             /\ panel[a].at = "shown" \/ a \in {gui.current.id, gui.closing}
    BY DEF WaitersCanBeAnswered
  <2>1. /\ gui.at \in {"running", "ended"}
        /\ gui.at = "ended" => ask[a].at # "queued" /\ ~panel[a].sender
    BY DEF WindowsInv, Dispatching
  <2>2. panel[a].sender => panel[a].at = "shown" \/ a \in {gui.current.id, gui.closing}
    BY <1>1 DEF Stage, PanelTypes
  <2> QED BY <2>1, <2>2
<1>5. NothingLingers
  BY <1>1 DEF NothingLingers, Together, Stage
<1> QED BY <1>2, <1>3, <1>4, <1>5 DEF WindowsHonest

(***************************************************************************)
(* Whatever the desktop, the icons, the order of the callbacks and the     *)
(* ends of handlers, server and loop: a window shows its own request, its  *)
(* handler hears passwords one by one and one final outcome, whoever has a *)
(* sender can be answered, and no password stays in a window that is over  *)
(* (gui_auth.rs).                                                          *)
(***************************************************************************)
THEOREM WindowsStayHonest == WindowsSpec => []WindowsHonest
<1>1. WindowsSpec => []WindowsInv
  BY WindowsStart, WindowsStep, PTL DEF WindowsSpec
<1> QED BY <1>1, WindowsMean, PTL

-----------------------------------------------------------------------------

(***************************************************************************)
(* The agent under a service manager. A run, a manager and a chore have    *)
(* their fields.                                                           *)
(***************************************************************************)
IsRun(k) == k = [at |-> k.at, by |-> k.by, env |-> k.env]

IsManager(m) ==
    m = [loaded |-> m.loaded, listening |-> m.listening, path |-> m.path,
         starts |-> m.starts, again |-> m.again, limited |-> m.limited]

IsChore(c) ==
    c = [at |-> c.at, stopped |-> c.stopped, polls |-> c.polls, was |-> c.was,
         failed |-> c.failed]

(***************************************************************************)
(* The steps of init on each system, and those after a command that needed *)
(* the lock.                                                               *)
(***************************************************************************)
OnLinux == {"write", "reload", "disable", "enable"}
OnMacos == {"plist", "bootout", "unload", "bootstrap"}
Stopping == {"told", "stopped", "working", "restart"}

(***************************************************************************)
(* The types of the state: a run that has begun was begun by somebody, and *)
(* the steps of init are those of the system.                              *)
(***************************************************************************)
DaemonTypes ==
    /\ system \in {"linux", "macos"}
    /\ DOMAIN runs = Runs
    /\ \A r \in Runs : /\ IsRun(runs[r])
                       /\ runs[r].by \in {"manager", "hand"} <=> runs[r].at # "unused"
                       /\ ByManager(r) => runs[r].env \in {"own", "none"}
    /\ IsManager(manager) /\ IsChore(chore)
    /\ unit = [kind |-> unit.kind, path |-> unit.path]
    /\ chore.at \in {"none"} \cup OnLinux \cup OnMacos \cup Stopping
    /\ chore.at \in OnLinux => system = "linux"
    /\ chore.at \in OnMacos => system = "macos"

(***************************************************************************)
(* Whoever has come past the lock holds it, and so does a command at work. *)
(***************************************************************************)
LockKept ==
    /\ \A r \in Runs : runs[r].at \in {"listen", "serving"} => vaultLock = r
    /\ chore.at = "working" => vaultLock = Command

(***************************************************************************)
(* No run of the manager's is alive.                                       *)
(***************************************************************************)
NoneByManager == \A r \in Runs : ByManager(r) => ~Alive(r)

(***************************************************************************)
(* A client waits only where the manager listens, which it does with the   *)
(* socket's unit loaded and no other; and on macOS a job is loaded, being  *)
(* unloaded, or not there and without a run.                               *)
(***************************************************************************)
ManagerSound ==
    /\ visitor = "waiting" => manager.listening
    /\ manager.listening => manager.loaded = "socket"
    /\ manager.loaded = "socket" => unit.kind = "socket"
    /\ system = "linux" => manager.loaded # "unloading"
    /\ system = "macos" => /\ ~manager.again
                           /\ manager.loaded \in {"nothing", "socket", "unloading"}
                           /\ manager.loaded = "socket" => manager.listening
                           /\ manager.loaded = "nothing" => NoneByManager

(***************************************************************************)
(* While the agent is stopped nothing is left that could start it again.   *)
(***************************************************************************)
StopSound ==
    chore.stopped =>
        /\ chore.at \in Stopping
        /\ ~manager.again /\ ~manager.listening
        /\ manager.loaded # "unloading" => NoneByManager

(***************************************************************************)
(* A user who has not stopped the agent still has what there was.          *)
(***************************************************************************)
Untouched == chore.was /\ ~chore.stopped => manager.listening \/ manager.limited

(***************************************************************************)
(* What the restart must give back is known to have been there.            *)
(***************************************************************************)
BackSound ==
    /\ chore.was => unit.kind = "socket" /\ chore.at \notin OnLinux \cup OnMacos
    /\ Untouched

(***************************************************************************)
(* A run of the service of an older release, which binds the path itself.  *)
(***************************************************************************)
OldService(r) == Alive(r) /\ ByManager(r) /\ runs[r].env = "none"

(***************************************************************************)
(* Such a run is there only until init has disabled the service, or if     *)
(* init has failed; otherwise the path of a manager that listens leads to  *)
(* it.                                                                     *)
(***************************************************************************)
PathSound ==
    /\ NoTakeover
    /\ \A r \in Runs : OldService(r) =>
           /\ system = "linux"
           /\ chore.failed \/ (/\ ~manager.listening
                               /\ manager.loaded # "socket" \/ chore.at = "disable")
    /\ system = "linux" /\ unit.kind = "socket" /\ ~chore.failed =>
           manager.loaded = "socket" \/ chore.at = "reload"
    /\ chore.at \in {"reload", "disable", "enable"} => unit.kind = "socket"

(***************************************************************************)
(* The inductive invariant of the agent under its manager. Each of the     *)
(* four properties is about the end of a long order of steps by the user,  *)
(* the manager and the agents; what is loaded, what is alive and where     *)
(* init stands must be tied to one another to reach it.                    *)
(***************************************************************************)
DaemonInv ==
    /\ DaemonTypes /\ LockKept /\ ManagerSound /\ StopSound /\ BackSound /\ PathSound

-----------------------------------------------------------------------------

(***************************************************************************)
(* The invariant gives the four properties.                                *)
(***************************************************************************)
LEMMA DaemonMeans == DaemonInv => DaemonSound
<1> SUFFICES ASSUME DaemonInv PROVE DaemonSound
  OBVIOUS
<1>1. StopHolds /\ GivenBack
  BY DEF DaemonInv, StopSound, StopHolds, ManagerSound, NoneByManager, ManagersRun,
     BackSound, Untouched, GivenBack, Stopping
<1>2. ServesLocked
  BY DEF DaemonInv, LockKept, ServesLocked
<1> QED BY <1>1, <1>2 DEF DaemonInv, BackSound, PathSound, DaemonSound

(***************************************************************************)
(* It holds with no auto-start, or with that of an older release.          *)
(***************************************************************************)
LEMMA DaemonInitially == InitDaemon => DaemonInv
<1> SUFFICES ASSUME InitDaemon PROVE DaemonInv
  OBVIOUS
<1>1. /\ system \in {"linux", "macos"} /\ vaultLock = NoRun /\ visitor = "idle"
      /\ unit.kind \in {"nothing", "service"} /\ (system = "macos" => unit.kind = "nothing")
      /\ unit = [kind |-> unit.kind, path |-> unit.path]
  BY DEF InitDaemon
<1>2. /\ IsManager(manager) /\ manager.loaded = unit.kind /\ ~manager.listening
      /\ (manager.again <=> unit.kind = "service")
  <2> DEFINE old == unit.kind = "service"
  <2>1. manager = [loaded |-> unit.kind, listening |-> FALSE, path |-> SystemdSocketUnit,
                   starts |-> 0, again |-> old, limited |-> FALSE]
    BY DEF InitDaemon
  <2> HIDE DEF old
  <2>2. IsManager(manager) /\ manager.loaded = unit.kind /\ ~manager.listening
        /\ manager.again = old
    BY <2>1 DEF IsManager
  <2> QED BY <2>2 DEF old
<1>3. /\ IsChore(chore) /\ chore.at = "none" /\ ~chore.stopped /\ ~chore.was /\ ~chore.failed
  BY DEF InitDaemon, IsChore
<1>4. /\ DOMAIN runs = Runs
      /\ \A r \in Runs : /\ IsRun(runs[r]) /\ runs[r].at = "unused" /\ runs[r].by = "nobody"
  BY DEF InitDaemon, IsRun
<1>5. DaemonTypes
  BY <1>1, <1>2, <1>3, <1>4 DEF DaemonTypes, OnLinux, OnMacos, ByManager
<1>6. LockKept /\ ManagerSound
  BY <1>1, <1>2, <1>3, <1>4 DEF LockKept, ManagerSound, NoneByManager, ByManager
<1>7. StopSound /\ BackSound /\ PathSound
  BY <1>1, <1>2, <1>3, <1>4 DEF StopSound, BackSound, PathSound, Untouched, NoTakeover,
     OldService, ByManager
<1> QED BY <1>5, <1>6, <1>7 DEF DaemonInv

-----------------------------------------------------------------------------

(***************************************************************************)
(* A run that steps moves itself only.                                     *)
(***************************************************************************)
LEMMA RunSteps ==
    ASSUME DaemonTypes, NEW r \in Runs, NEW at, Step(r, at)
    PROVE  /\ DOMAIN runs' = Runs /\ IsRun(runs'[r]) /\ runs'[r].at = at
           /\ runs'[r].by = runs[r].by /\ runs'[r].env = runs[r].env
           /\ \A q \in Runs \ {r} : runs'[q] = runs[q]
<1>1. IsRun(runs[r]) /\ DOMAIN runs = Runs /\ runs' = [runs EXCEPT ![r].at = at]
  BY DEF DaemonTypes, Step
<1>2. DOMAIN runs' = Runs /\ \A q \in Runs \ {r} : runs'[q] = runs[q]
  BY <1>1
<1> DEFINE k == runs[r]
<1>3. runs'[r] = [k EXCEPT !.at = at]
  BY <1>1
<1>4. k = [at |-> k.at, by |-> k.by, env |-> k.env]
  BY <1>1 DEF IsRun
<1>5. runs'[r] = [at |-> at, by |-> k.by, env |-> k.env]
  <2> HIDE DEF k
  <2> QED BY <1>3, <1>4
<1> QED BY <1>2, <1>5 DEF IsRun

(***************************************************************************)
(* The runs that are stopped are gone, and the others as they were.        *)
(***************************************************************************)
LEMMA RunsStopped ==
    ASSUME DaemonTypes, NEW stopped, runs' = RunsWithout(stopped)
    PROVE  /\ DOMAIN runs' = Runs
           /\ \A r \in Runs \ stopped : runs'[r] = runs[r]
           /\ \A r \in Runs : /\ IsRun(runs'[r])
                              /\ runs'[r].by = runs[r].by /\ runs'[r].env = runs[r].env
                              /\ r \in stopped => runs'[r].at = "gone"
<1>1. DOMAIN runs' = Runs /\ \A r \in Runs \ stopped : runs'[r] = runs[r]
  BY DEF RunsWithout
<1>2. ASSUME NEW r \in Runs, r \in stopped
      PROVE  /\ IsRun(runs'[r]) /\ runs'[r].at = "gone"
             /\ runs'[r].by = runs[r].by /\ runs'[r].env = runs[r].env
  <2> DEFINE k == runs[r]
  <2>1. runs'[r] = [k EXCEPT !.at = "gone"]
    BY <1>2 DEF RunsWithout
  <2>2. k = [at |-> k.at, by |-> k.by, env |-> k.env]
    BY DEF DaemonTypes, IsRun
  <2> HIDE DEF k
  <2>3. runs'[r] = [at |-> "gone", by |-> k.by, env |-> k.env]
    BY <2>1, <2>2
  <2> QED BY <2>3 DEF IsRun, k
<1>3. \A r \in Runs : IsRun(runs[r])
  BY DEF DaemonTypes
<1> QED BY <1>1, <1>2, <1>3

(***************************************************************************)
(* What one changed field makes of the manager.                            *)
(***************************************************************************)
LEMMA ManagerChanges ==
    ASSUME NEW m, IsManager(m), NEW x
    PROVE  /\ [m EXCEPT !.loaded = x] = [loaded |-> x, listening |-> m.listening,
                  path |-> m.path, starts |-> m.starts, again |-> m.again,
                  limited |-> m.limited]
           /\ [m EXCEPT !.listening = x] = [loaded |-> m.loaded, listening |-> x,
                  path |-> m.path, starts |-> m.starts, again |-> m.again,
                  limited |-> m.limited]
           /\ [m EXCEPT !.path = x] = [loaded |-> m.loaded, listening |-> m.listening,
                  path |-> x, starts |-> m.starts, again |-> m.again, limited |-> m.limited]
           /\ [m EXCEPT !.starts = x] = [loaded |-> m.loaded, listening |-> m.listening,
                  path |-> m.path, starts |-> x, again |-> m.again, limited |-> m.limited]
           /\ [m EXCEPT !.again = x] = [loaded |-> m.loaded, listening |-> m.listening,
                  path |-> m.path, starts |-> m.starts, again |-> x, limited |-> m.limited]
           /\ [m EXCEPT !.limited = x] = [loaded |-> m.loaded, listening |-> m.listening,
                  path |-> m.path, starts |-> m.starts, again |-> m.again, limited |-> x]
<1>1. m = [loaded |-> m.loaded, listening |-> m.listening, path |-> m.path,
           starts |-> m.starts, again |-> m.again, limited |-> m.limited]
  BY DEF IsManager
<1>2. [m EXCEPT !.loaded = x] = [loaded |-> x, listening |-> m.listening,
                  path |-> m.path, starts |-> m.starts, again |-> m.again,
                  limited |-> m.limited]
  BY <1>1
<1>3. [m EXCEPT !.listening = x] = [loaded |-> m.loaded, listening |-> x,
                  path |-> m.path, starts |-> m.starts, again |-> m.again,
                  limited |-> m.limited]
  BY <1>1
<1>4. [m EXCEPT !.path = x] = [loaded |-> m.loaded, listening |-> m.listening,
                  path |-> x, starts |-> m.starts, again |-> m.again, limited |-> m.limited]
  BY <1>1
<1>5. [m EXCEPT !.starts = x] = [loaded |-> m.loaded, listening |-> m.listening,
                  path |-> m.path, starts |-> x, again |-> m.again, limited |-> m.limited]
  BY <1>1
<1>6. [m EXCEPT !.again = x] = [loaded |-> m.loaded, listening |-> m.listening,
                  path |-> m.path, starts |-> m.starts, again |-> x, limited |-> m.limited]
  BY <1>1
<1>7. [m EXCEPT !.limited = x] = [loaded |-> m.loaded, listening |-> m.listening,
                  path |-> m.path, starts |-> m.starts, again |-> m.again, limited |-> x]
  BY <1>1
<1> QED BY <1>2, <1>3, <1>4, <1>5, <1>6, <1>7

(***************************************************************************)
(* What one changed field makes of the chore.                              *)
(***************************************************************************)
LEMMA ChoreChanges ==
    ASSUME NEW c, IsChore(c), NEW x
    PROVE  /\ [c EXCEPT !.at = x] = [at |-> x, stopped |-> c.stopped, polls |-> c.polls,
                  was |-> c.was, failed |-> c.failed]
           /\ [c EXCEPT !.stopped = x] = [at |-> c.at, stopped |-> x, polls |-> c.polls,
                  was |-> c.was, failed |-> c.failed]
           /\ [c EXCEPT !.polls = x] = [at |-> c.at, stopped |-> c.stopped, polls |-> x,
                  was |-> c.was, failed |-> c.failed]
           /\ [c EXCEPT !.was = x] = [at |-> c.at, stopped |-> c.stopped, polls |-> c.polls,
                  was |-> x, failed |-> c.failed]
           /\ [c EXCEPT !.failed = x] = [at |-> c.at, stopped |-> c.stopped,
                  polls |-> c.polls, was |-> c.was, failed |-> x]
<1>1. c = [at |-> c.at, stopped |-> c.stopped, polls |-> c.polls, was |-> c.was,
           failed |-> c.failed]
  BY DEF IsChore
<1>2. [c EXCEPT !.at = x] = [at |-> x, stopped |-> c.stopped, polls |-> c.polls,
                  was |-> c.was, failed |-> c.failed]
  BY <1>1
<1>3. [c EXCEPT !.stopped = x] = [at |-> c.at, stopped |-> x, polls |-> c.polls,
                  was |-> c.was, failed |-> c.failed]
  BY <1>1
<1>4. [c EXCEPT !.polls = x] = [at |-> c.at, stopped |-> c.stopped, polls |-> x,
                  was |-> c.was, failed |-> c.failed]
  BY <1>1
<1>5. [c EXCEPT !.was = x] = [at |-> c.at, stopped |-> c.stopped, polls |-> c.polls,
                  was |-> x, failed |-> c.failed]
  BY <1>1
<1>6. [c EXCEPT !.failed = x] = [at |-> c.at, stopped |-> c.stopped,
                  polls |-> c.polls, was |-> c.was, failed |-> x]
  BY <1>1
<1> QED BY <1>2, <1>3, <1>4, <1>5, <1>6

-----------------------------------------------------------------------------

(***************************************************************************)
(* A step of a run that is alive keeps the invariant if it keeps the lock  *)
(* and the path, and asks for another start only where systemd sees its    *)
(* own run fail.                                                           *)
(***************************************************************************)
LEMMA AliveMoves ==
    ASSUME DaemonInv, NEW r \in Runs, Alive(r), NEW at, Step(r, at), at # "unused",
           UNCHANGED <<system, unit, chore, visitor>>,
           IsManager(manager'), manager'.loaded = manager.loaded,
           manager'.listening = manager.listening, manager'.limited = manager.limited,
           manager'.again => manager.again \/ (ByManager(r) /\ system = "linux"),
           LockKept', NoTakeover'
    PROVE  DaemonInv'
<1>1. /\ DOMAIN runs' = Runs /\ IsRun(runs'[r]) /\ runs'[r].at = at
      /\ runs'[r].by = runs[r].by /\ runs'[r].env = runs[r].env
      /\ \A q \in Runs \ {r} : runs'[q] = runs[q]
  BY RunSteps DEF DaemonInv
<1>2. DaemonTypes'
  BY <1>1 DEF DaemonInv, DaemonTypes, ByManager, Alive
<1>3. NoneByManager => NoneByManager'
  BY <1>1 DEF NoneByManager, ByManager, Alive
<1>4. ManagerSound'
  BY <1>3 DEF DaemonInv, ManagerSound
<1>5. StopSound'
  <2> SUFFICES ASSUME chore.stopped
               PROVE  /\ chore.at \in Stopping /\ ~manager'.again /\ ~manager'.listening
                      /\ manager'.loaded # "unloading" => NoneByManager'
    BY DEF StopSound
  <2>1. /\ chore.at \in Stopping /\ ~manager.again /\ ~manager.listening
        /\ manager.loaded # "unloading" => NoneByManager
    BY DEF DaemonInv, StopSound
  <2>2. system = "linux" => NoneByManager
    BY <2>1 DEF DaemonInv, ManagerSound
  <2> QED BY <1>3, <2>1, <2>2 DEF NoneByManager
<1>6. BackSound'
  BY DEF DaemonInv, BackSound, Untouched
<1>7. \A q \in Runs : OldService(q)' => OldService(q)
  BY <1>1 DEF OldService, Alive, ByManager
<1>8. PathSound'
  BY <1>7 DEF DaemonInv, PathSound
<1> QED BY <1>2, <1>4, <1>5, <1>6, <1>8 DEF DaemonInv

(***************************************************************************)
(* A run that fails or dies gives its lock back.                           *)
(***************************************************************************)
LEMMA RunEnds ==
    ASSUME DaemonInv, NEW r \in Runs, Alive(r), Gone(r),
           RunFails(r) \/ UNCHANGED manager,
           UNCHANGED <<system, unit, route, chore, visitor>>
    PROVE  DaemonInv'
<1>1. Step(r, "gone") /\ vaultLock' = FreedBy(r)
  BY DEF Gone
<1>2. /\ DOMAIN runs' = Runs /\ runs'[r].at = "gone" /\ runs'[r].by = runs[r].by
      /\ runs'[r].env = runs[r].env /\ \A q \in Runs \ {r} : runs'[q] = runs[q]
  BY <1>1, RunSteps DEF DaemonInv
<1>3. LockKept'
  BY <1>1, <1>2, DaemonAssumption DEF DaemonInv, LockKept, FreedBy, Command
<1>4. /\ IsManager(manager') /\ manager'.loaded = manager.loaded
      /\ manager'.listening = manager.listening /\ manager'.limited = manager.limited
      /\ manager'.again => manager.again \/ (ByManager(r) /\ system = "linux")
  <2>1. IsManager(manager)
    BY DEF DaemonInv, DaemonTypes
  <2>2. CASE UNCHANGED manager
    BY <2>1, <2>2
  <2>3. CASE ByManager(r) /\ system = "linux" /\ manager' = [manager EXCEPT !.again = TRUE]
    <3>1. manager' = [loaded |-> manager.loaded, listening |-> manager.listening,
                      path |-> manager.path, starts |-> manager.starts, again |-> TRUE,
                      limited |-> manager.limited]
      BY <2>1, <2>3, ManagerChanges
    <3> QED BY <2>3, <3>1 DEF IsManager
  <2> QED BY <2>2, <2>3 DEF RunFails
<1>5. NoTakeover'
  BY <1>2, <1>4 DEF DaemonInv, PathSound, NoTakeover, TakenByHand
<1> QED BY <1>1, <1>3, <1>4, <1>5, AliveMoves

(***************************************************************************)
(* Hardening, and taking over the listener of the manager.                 *)
(***************************************************************************)
LEMMA AgentGoesOn ==
    ASSUME DaemonInv, NEW r \in Runs, Harden(r) \/ ActivatedListener(r)
    PROVE  DaemonInv'
<1>1. PICK at \in {"lock", "serving"} :
          /\ Step(r, at) /\ Alive(r) /\ (at = "serving" => runs[r].at = "listen")
          /\ UNCHANGED <<system, unit, manager, route, vaultLock, chore, visitor>>
  BY DEF Harden, ActivatedListener, Alive
<1>2. /\ DOMAIN runs' = Runs /\ runs'[r].at = at /\ runs'[r].by = runs[r].by
      /\ runs'[r].env = runs[r].env /\ \A q \in Runs \ {r} : runs'[q] = runs[q]
  BY <1>1, RunSteps DEF DaemonInv
<1>3. LockKept'
  BY <1>1, <1>2 DEF DaemonInv, LockKept
<1>4. NoTakeover'
  BY <1>1, <1>2 DEF DaemonInv, PathSound, NoTakeover, TakenByHand
<1>5. IsManager(manager)
  BY DEF DaemonInv, DaemonTypes
<1> QED BY <1>1, <1>3, <1>4, <1>5, AliveMoves

(***************************************************************************)
(* The lock is taken or the run fails.                                     *)
(***************************************************************************)
LEMMA ServeSound ==
    ASSUME DaemonInv, NEW r \in Runs, Serve(r)
    PROVE  DaemonInv'
<1>1. Alive(r) /\ runs[r].at = "lock" /\ UNCHANGED <<system, unit, route, chore, visitor>>
  BY DEF Serve, Alive
<1>2. CASE vaultLock = NoRun
  <2>1. vaultLock' = r /\ Step(r, "listen") /\ UNCHANGED manager
    BY <1>2 DEF Serve
  <2>2. /\ DOMAIN runs' = Runs /\ runs'[r].at = "listen" /\ runs'[r].by = runs[r].by
        /\ runs'[r].env = runs[r].env /\ \A q \in Runs \ {r} : runs'[q] = runs[q]
    BY <2>1, RunSteps DEF DaemonInv
  <2>3. LockKept'
    BY <1>1, <1>2, <2>1, <2>2, DaemonAssumption DEF DaemonInv, LockKept, Command
  <2>4. NoTakeover'
    BY <1>1, <2>1, <2>2 DEF DaemonInv, PathSound, NoTakeover, TakenByHand
  <2>5. IsManager(manager)
    BY DEF DaemonInv, DaemonTypes
  <2> QED BY <1>1, <2>1, <2>3, <2>4, <2>5, AliveMoves
<1>3. CASE vaultLock # NoRun
  <2>1. RunFails(r) /\ Gone(r)
    BY <1>3 DEF Serve, RunFails
  <2> QED BY <1>1, <2>1, RunEnds
<1> QED BY <1>2, <1>3

(***************************************************************************)
(* An own listener: the run has no activation, so it is one by hand or of  *)
(* an older release's service, and no other takes the path.                *)
(***************************************************************************)
LEMMA CreateListenerSound ==
    ASSUME DaemonInv, NEW r \in Runs, CreateListener(r)
    PROVE  DaemonInv'
<1>1. /\ Alive(r) /\ runs[r].at = "listen" /\ SocketActivationFd(r) = "none"
      /\ UNCHANGED <<system, unit, chore, visitor>>
  BY DEF CreateListener, Alive
<1>2. CASE route = "file"
  <2>1. RunFails(r) /\ Gone(r) /\ UNCHANGED route
    BY <1>2 DEF CreateListener, RunFails
  <2> QED BY <1>1, <2>1, RunEnds
<1>3. CASE route # "file"
  <2>1. route' = r /\ Step(r, "serving") /\ UNCHANGED <<vaultLock, manager>>
    BY <1>3 DEF CreateListener
  <2>2. /\ DOMAIN runs' = Runs /\ runs'[r].at = "serving" /\ runs'[r].by = runs[r].by
        /\ runs'[r].env = runs[r].env /\ \A q \in Runs \ {r} : runs'[q] = runs[q]
    BY <2>1, RunSteps DEF DaemonInv
  <2>3. LockKept'
    BY <1>1, <2>1, <2>2 DEF DaemonInv, LockKept
  <2>4. runs[r].env # "own" /\ (system = "macos" \/ runs[r].env = "none")
    <3>1. ASSUME runs[r].env = "own" PROVE FALSE
      BY <1>1, <3>1 DEF SocketActivationFd
    <3>2. ASSUME runs[r].env # "own", ~(system = "macos" \/ runs[r].env = "none") PROVE FALSE
      BY <1>1, <3>2 DEF SocketActivationFd
    <3> QED BY <3>1, <3>2
  <2>5. NoTakeover'
    <3> SUFFICES ASSUME manager.listening, ~TakenByHand', ~chore.failed PROVE FALSE
      BY <1>1, <2>1 DEF NoTakeover
    <3>1. runs[r].by # "hand"
      BY <1>1, <2>2, <2>4 DEF TakenByHand
    <3>2. runs[r].by \in {"manager", "hand"} => FALSE
      BY <1>1, <2>4, <3>1 DEF DaemonInv, DaemonTypes, ManagerSound, PathSound, OldService,
         ByManager, Alive
    <3> QED BY <1>1, <3>1, <3>2 DEF DaemonInv, DaemonTypes
  <2>6. IsManager(manager)
    BY DEF DaemonInv, DaemonTypes
  <2> QED BY <1>1, <2>1, <2>3, <2>5, <2>6, AliveMoves
<1> QED BY <1>2, <1>3

(***************************************************************************)
(* A traced run, a refused activation and a death.                         *)
(***************************************************************************)
LEMMA FailingSound ==
    ASSUME DaemonInv, NEW r \in Runs, EnsureNotTraced(r) \/ RefuseActivation(r) \/ RunDies(r)
    PROVE  DaemonInv'
<1>1. /\ Alive(r) /\ Gone(r) /\ (RunFails(r) \/ UNCHANGED manager)
      /\ UNCHANGED <<system, unit, route, chore, visitor>>
  BY DEF EnsureNotTraced, RefuseActivation, RunDies, RunFails, Alive
<1> QED BY <1>1, RunEnds

(***************************************************************************)
(* An agent is started by hand.                                            *)
(***************************************************************************)
LEMMA StartByHandSound ==
    ASSUME DaemonInv, NEW r \in Runs, StartByHand(r)
    PROVE  DaemonInv'
<1>1. PICK env \in {"none", "foreign"} : runs' = [runs EXCEPT ![r] = Starting("hand", env)]
  BY DEF StartByHand
<1>2. /\ DOMAIN runs' = Runs /\ IsRun(runs'[r]) /\ runs'[r].at = "harden"
      /\ runs'[r].by = "hand" /\ \A q \in Runs \ {r} : runs'[q] = runs[q]
  BY <1>1 DEF DaemonInv, DaemonTypes, Starting, IsRun
<1>3. /\ runs[r].at = "unused" /\ runs[r].by \notin {"manager", "hand"}
      /\ UNCHANGED <<system, unit, manager, route, vaultLock, chore, visitor>>
  BY DEF StartByHand, Fresh, DaemonInv, DaemonTypes
<1>4. DaemonTypes'
  BY <1>2, <1>3 DEF DaemonInv, DaemonTypes, ByManager
<1>5. NoneByManager => NoneByManager'
  BY <1>2 DEF NoneByManager, ByManager, Alive
<1>6. LockKept' /\ ManagerSound' /\ StopSound' /\ BackSound'
  BY <1>2, <1>3, <1>5 DEF DaemonInv, LockKept, ManagerSound, StopSound, BackSound, Untouched
<1>7. TakenByHand => TakenByHand'
  BY <1>2, <1>3 DEF TakenByHand
<1>8. \A q \in Runs : OldService(q)' => OldService(q)
  BY <1>2 DEF OldService, Alive, ByManager
<1>9. PathSound'
  BY <1>3, <1>7, <1>8 DEF DaemonInv, PathSound, NoTakeover
<1> QED BY <1>4, <1>6, <1>9 DEF DaemonInv

(***************************************************************************)
(* A client waits, is served or leaves.                                    *)
(***************************************************************************)
LEMMA VisitorSound ==
    ASSUME DaemonInv, ClientLeaves \/ (\E r \in Runs : Accept(r))
                      \/ (\E runtime \in RuntimeDirs : Connect(runtime))
    PROVE  DaemonInv'
<1>1. /\ visitor' = "waiting" => manager.listening
      /\ UNCHANGED <<system, unit, manager, route, runs, vaultLock, chore>>
  BY DEF ClientLeaves, Accept, Connect
<1> QED BY <1>1 DEF DaemonInv, DaemonTypes, LockKept, ManagerSound, StopSound, BackSound,
           PathSound, Untouched, NoTakeover, TakenByHand, OldService, NoneByManager, Alive,
           ByManager

-----------------------------------------------------------------------------

(***************************************************************************)
(* A step of the user's that changes nothing but where the user is.        *)
(***************************************************************************)
LEMMA ChoreMoves ==
    ASSUME DaemonInv, UNCHANGED <<system, unit, manager, route, runs, visitor>>,
           IsChore(chore'), chore'.at \in {"none"} \cup OnLinux \cup OnMacos \cup Stopping,
           chore'.at \in OnLinux => system = "linux",
           chore'.at \in OnMacos => system = "macos",
           chore'.at \in {"reload", "disable", "enable"} => chore'.at = chore.at,
           chore.failed => chore'.failed,
           chore.at \in {"reload", "disable"} => chore'.at = chore.at \/ chore'.failed,
           chore'.stopped => chore.stopped /\ chore'.at \in Stopping,
           chore'.was => chore'.at \notin OnLinux \cup OnMacos /\ unit.kind = "socket",
           chore'.was /\ ~chore'.stopped => manager.listening \/ manager.limited,
           LockKept'
    PROVE  DaemonInv'
<1>1. DaemonTypes'
  BY DEF DaemonInv, DaemonTypes, ByManager
<1>2. ManagerSound' /\ StopSound'
  BY DEF DaemonInv, ManagerSound, StopSound, NoneByManager, ByManager, Alive
<1>3. BackSound'
  BY DEF BackSound, Untouched
<1>4. PathSound'
  BY DEF DaemonInv, PathSound, NoTakeover, TakenByHand, OldService, Alive, ByManager
<1> QED BY <1>1, <1>2, <1>3, <1>4 DEF DaemonInv

(***************************************************************************)
(* init begins, fails, and waits for launchd.                              *)
(***************************************************************************)
LEMMA EnablingMoves ==
    ASSUME DaemonInv, InitAutoStart \/ EnableFails \/ WaitForUnload
    PROVE  DaemonInv'
<1>1. UNCHANGED <<system, unit, manager, route, runs, vaultLock, visitor>>
  BY DEF InitAutoStart, EnableFails, WaitForUnload
<1>2. IsChore(chore)
  BY DEF DaemonInv, DaemonTypes
<1>3. CASE InitAutoStart
  <2> DEFINE at == IF system = "linux" THEN "write" ELSE "plist"
             begun == [chore EXCEPT !.at = at]
  <2>1. chore' = [begun EXCEPT !.was = FALSE] /\ chore.at = "none"
    BY <1>3 DEF InitAutoStart
  <2>2. at \in {"write", "plist"} /\ (at = "write" <=> system = "linux")
    OBVIOUS
  <2> HIDE DEF at
  <2>3. begun = [at |-> at, stopped |-> chore.stopped, polls |-> chore.polls,
                 was |-> chore.was, failed |-> chore.failed]
    BY <1>2, ChoreChanges
  <2> HIDE DEF begun
  <2>4. chore' = [at |-> at, stopped |-> chore.stopped, polls |-> chore.polls,
                  was |-> FALSE, failed |-> chore.failed]
    BY <2>1, <2>3
  <2>5. /\ IsChore(chore') /\ chore'.at = at /\ chore'.stopped = chore.stopped /\ ~chore'.was
        /\ chore'.failed = chore.failed
    BY <2>4 DEF IsChore
  <2>6. LockKept'
    BY <1>1, <2>2, <2>5 DEF DaemonInv, LockKept
  <2>7. ~chore.stopped /\ system \in {"linux", "macos"}
    BY <2>1 DEF DaemonInv, DaemonTypes, StopSound, Stopping
  <2> QED BY <1>1, <2>1, <2>2, <2>5, <2>6, <2>7, ChoreMoves DEF OnLinux, OnMacos
<1>4. CASE EnableFails
  <2> DEFINE ended == [chore EXCEPT !.at = "none"]
  <2>1. chore' = [ended EXCEPT !.failed = TRUE] /\ chore.at \in OnLinux \cup OnMacos
    BY <1>4 DEF EnableFails, OnLinux, OnMacos
  <2>2. ended = [at |-> "none", stopped |-> chore.stopped, polls |-> chore.polls,
                 was |-> chore.was, failed |-> chore.failed]
    BY <1>2, ChoreChanges
  <2> HIDE DEF ended
  <2>3. chore' = [at |-> "none", stopped |-> chore.stopped, polls |-> chore.polls,
                  was |-> chore.was, failed |-> TRUE]
    BY <2>1, <2>2
  <2>4. /\ IsChore(chore') /\ chore'.at = "none" /\ chore'.stopped = chore.stopped
        /\ chore'.was = chore.was /\ chore'.failed
    BY <2>3 DEF IsChore
  <2>5. LockKept'
    BY <1>1, <2>4 DEF DaemonInv, LockKept
  <2>6. ~chore.stopped /\ ~chore.was
    BY <2>1 DEF DaemonInv, StopSound, BackSound, Stopping, OnLinux, OnMacos
  <2> QED BY <1>1, <2>1, <2>4, <2>5, <2>6, ChoreMoves DEF OnLinux, OnMacos
<1>5. CASE WaitForUnload
  <2> DEFINE at == IF manager.loaded = "nothing" THEN "bootstrap"
                   ELSE IF chore.polls + 1 >= MaxPolls THEN "none" ELSE chore.at
             polled == [chore EXCEPT !.polls = chore.polls + 1]
             polls == chore.polls + 1
  <2>1. chore' = [polled EXCEPT !.at = at] /\ chore.at = "unload"
    BY <1>5 DEF WaitForUnload
  <2>2. at \in {"bootstrap", "none", "unload"}
    BY <2>1
  <2> HIDE DEF at
  <2>3. polled = [at |-> chore.at, stopped |-> chore.stopped, polls |-> polls,
                 was |-> chore.was, failed |-> chore.failed]
    BY <1>2, ChoreChanges
  <2> HIDE DEF polled, polls
  <2>4. chore' = [at |-> at, stopped |-> chore.stopped, polls |-> polls,
                  was |-> chore.was, failed |-> chore.failed]
    BY <2>1, <2>3
  <2>5. /\ IsChore(chore') /\ chore'.at = at /\ chore'.stopped = chore.stopped
        /\ chore'.was = chore.was /\ chore'.failed = chore.failed
    BY <2>4 DEF IsChore
  <2>6. LockKept'
    BY <1>1, <2>2, <2>5 DEF DaemonInv, LockKept
  <2>7. ~chore.stopped /\ ~chore.was /\ system = "macos"
    BY <2>1 DEF DaemonInv, DaemonTypes, StopSound, BackSound, Stopping, OnLinux, OnMacos
  <2> QED BY <1>1, <2>1, <2>2, <2>5, <2>6, <2>7, ChoreMoves DEF OnLinux, OnMacos
<1> QED BY <1>3, <1>4, <1>5

(***************************************************************************)
(* A command takes the lock or tells how to stop the agent; it ends or     *)
(* fails and is given up, and there may be nothing to restart.             *)
(***************************************************************************)
LEMMA CommandSound ==
    ASSUME DaemonInv,
           TryCommand \/ CommandEnds \/ CommandFails \/ LeaveStopped \/ RestartNothing
    PROVE  DaemonInv'
<1>1. UNCHANGED <<system, unit, manager, route, runs, visitor>>
  BY DEF TryCommand, CommandEnds, CommandFails, LeaveStopped, RestartNothing
<1>2. IsChore(chore) /\ system \in {"linux", "macos"}
  BY DEF DaemonInv, DaemonTypes
<1>3. CASE TryCommand
  <2> DEFINE was == IF chore.at = "none" THEN manager.listening ELSE chore.was
  <2>1. Asked = [at |-> chore.at, stopped |-> chore.stopped, polls |-> chore.polls,
                 was |-> was, failed |-> chore.failed]
    <3>1. Asked = [chore EXCEPT !.was = was]
      BY DEF Asked
    <3> HIDE DEF was
    <3> QED BY <1>2, <3>1, ChoreChanges
  <2>2. /\ was => unit.kind = "socket"
        /\ was /\ ~chore.stopped => manager.listening \/ manager.limited
    BY DEF DaemonInv, ManagerSound, BackSound, Untouched
  <2> HIDE DEF was
  <2>3. PICK at \in {"working", "told"} :
            /\ chore' = [Asked EXCEPT !.at = at]
            /\ IF at = "working" THEN vaultLock = NoRun /\ vaultLock' = Command
               ELSE vaultLock' = vaultLock
    BY <1>3 DEF TryCommand
  <2>4. chore' = [at |-> at, stopped |-> chore.stopped, polls |-> chore.polls,
                  was |-> was, failed |-> chore.failed]
    BY <2>1, <2>3
  <2>5. /\ IsChore(chore') /\ chore'.at = at /\ chore'.stopped = chore.stopped
        /\ chore'.was = was /\ chore'.failed = chore.failed
    BY <2>4 DEF IsChore
  <2>6. LockKept'
    BY <1>1, <2>3, <2>5, DaemonAssumption DEF DaemonInv, LockKept, Command
  <2>7. chore.at \in {"none", "stopped"}
    BY <1>3 DEF TryCommand
  <2> QED BY <1>1, <2>2, <2>3, <2>5, <2>6, <2>7, ChoreMoves DEF OnLinux, OnMacos, Stopping
<1>4. CASE CommandEnds
  <2>1. /\ chore.at = "working" /\ vaultLock' = NoRun
        /\ chore' = [chore EXCEPT !.at = "restart"]
    BY <1>4 DEF CommandEnds, Doing
  <2>2. chore' = [at |-> "restart", stopped |-> chore.stopped, polls |-> chore.polls,
                  was |-> chore.was, failed |-> chore.failed]
    BY <1>2, <2>1, ChoreChanges
  <2>3. /\ IsChore(chore') /\ chore'.at = "restart" /\ chore'.stopped = chore.stopped
        /\ chore'.was = chore.was /\ chore'.failed = chore.failed
    BY <2>2 DEF IsChore
  <2>4. LockKept'
    BY <1>1, <2>1, <2>3, DaemonAssumption DEF DaemonInv, LockKept, Command
  <2>5. /\ chore.was => unit.kind = "socket"
        /\ chore.was /\ ~chore.stopped => manager.listening \/ manager.limited
    BY DEF DaemonInv, BackSound, Untouched
  <2> QED BY <1>1, <2>1, <2>3, <2>4, <2>5, ChoreMoves DEF OnLinux, OnMacos, Stopping
<1>5. CASE CommandFails
  <2> DEFINE at == IF chore.stopped THEN "stopped" ELSE "none"
  <2>1. /\ chore.at = "working" /\ vaultLock' = NoRun
        /\ chore' = [chore EXCEPT !.at = at] /\ at \in {"none", "stopped"}
        /\ chore.stopped => at = "stopped"
    BY <1>5 DEF CommandFails, Doing
  <2> HIDE DEF at
  <2>2. chore' = [at |-> at, stopped |-> chore.stopped, polls |-> chore.polls,
                  was |-> chore.was, failed |-> chore.failed]
    BY <1>2, <2>1, ChoreChanges
  <2>3. /\ IsChore(chore') /\ chore'.at = at /\ chore'.stopped = chore.stopped
        /\ chore'.was = chore.was /\ chore'.failed = chore.failed
    BY <1>2, <2>2 DEF IsChore
  <2>4. LockKept'
    BY <1>1, <2>1, <2>3, DaemonAssumption DEF DaemonInv, LockKept, Command
  <2>5. /\ chore.was => unit.kind = "socket"
        /\ chore.was /\ ~chore.stopped => manager.listening \/ manager.limited
    BY DEF DaemonInv, BackSound, Untouched
  <2> QED BY <1>1, <2>1, <2>3, <2>4, <2>5, ChoreMoves DEF OnLinux, OnMacos, Stopping
<1>6. CASE LeaveStopped
  <2> DEFINE ended == [chore EXCEPT !.at = "none"]
             left == [ended EXCEPT !.stopped = FALSE]
  <2>1. /\ chore.at = "stopped" /\ chore' = [left EXCEPT !.was = FALSE]
        /\ vaultLock' = vaultLock
    BY <1>6 DEF LeaveStopped
  <2>2. ended = [at |-> "none", stopped |-> chore.stopped, polls |-> chore.polls,
                 was |-> chore.was, failed |-> chore.failed]
    BY <1>2, ChoreChanges
  <2>3. left = [ended EXCEPT !.stopped = FALSE]
    OBVIOUS
  <2> HIDE DEF ended, left
  <2>4. left = [at |-> "none", stopped |-> FALSE, polls |-> chore.polls,
                was |-> chore.was, failed |-> chore.failed]
    BY <2>2, <2>3
  <2>5. chore' = [at |-> "none", stopped |-> FALSE, polls |-> chore.polls,
                  was |-> FALSE, failed |-> chore.failed]
    BY <2>1, <2>4
  <2>6. /\ IsChore(chore') /\ chore'.at = "none" /\ ~chore'.stopped /\ ~chore'.was
        /\ chore'.failed = chore.failed
    BY <2>5 DEF IsChore
  <2>7. LockKept'
    BY <1>1, <2>1, <2>6 DEF DaemonInv, LockKept
  <2> QED BY <1>1, <2>1, <2>6, <2>7, ChoreMoves DEF OnLinux, OnMacos
<1>7. CASE RestartNothing
  <2> DEFINE ended == [chore EXCEPT !.at = "none"]
  <2>1. /\ chore.at = "restart" /\ chore' = [ended EXCEPT !.stopped = FALSE]
        /\ unit.kind # "socket" \/ manager.listening
        /\ vaultLock' = vaultLock
    BY <1>7 DEF RestartNothing
  <2>2. ended = [at |-> "none", stopped |-> chore.stopped, polls |-> chore.polls,
                 was |-> chore.was, failed |-> chore.failed]
    BY <1>2, ChoreChanges
  <2> HIDE DEF ended
  <2>3. chore' = [at |-> "none", stopped |-> FALSE, polls |-> chore.polls,
                  was |-> chore.was, failed |-> chore.failed]
    BY <2>1, <2>2
  <2>4. /\ IsChore(chore') /\ chore'.at = "none" /\ ~chore'.stopped
        /\ chore'.was = chore.was /\ chore'.failed = chore.failed
    BY <2>3 DEF IsChore
  <2>5. LockKept'
    BY <1>1, <2>1, <2>4 DEF DaemonInv, LockKept
  <2>6. chore.was => unit.kind = "socket"
    BY DEF DaemonInv, BackSound
  <2> QED BY <1>1, <2>1, <2>4, <2>5, <2>6, ChoreMoves DEF OnLinux, OnMacos, Stopping
<1> QED BY <1>3, <1>4, <1>5, <1>6, <1>7

(***************************************************************************)
(* The user goes on.                                                       *)
(***************************************************************************)
LEMMA DoingChore ==
    ASSUME IsChore(chore), NEW at, Doing(at)
    PROVE  /\ IsChore(chore') /\ chore'.at = at /\ chore'.stopped = chore.stopped
           /\ chore'.was = chore.was /\ chore'.failed = chore.failed
<1>1. chore' = [chore EXCEPT !.at = at]
  BY DEF Doing
<1>2. chore' = [at |-> at, stopped |-> chore.stopped, polls |-> chore.polls,
                was |-> chore.was, failed |-> chore.failed]
  BY <1>1, ChoreChanges
<1> QED BY <1>2 DEF IsChore

(***************************************************************************)
(* The unit files or the plist are written.                                *)
(***************************************************************************)
LEMMA UnitSound ==
    ASSUME DaemonInv, WriteUnits \/ (\E runtime \in RuntimeDirs : WritePlist(runtime))
    PROVE  DaemonInv'
<1>1. PICK at \in {"reload", "bootout"} :
          /\ Doing(at) /\ (at = "reload" => chore.at = "write")
          /\ (at = "bootout" => chore.at = "plist")
          /\ unit' = [kind |-> "socket", path |-> unit'.path]
          /\ UNCHANGED <<system, manager, route, runs, vaultLock, visitor>>
  BY DEF WriteUnits, WritePlist
<1>2. unit'.kind = "socket"
  BY <1>1
<1>3. /\ IsChore(chore') /\ chore'.at = at /\ chore'.stopped = chore.stopped
      /\ chore'.was = chore.was /\ chore'.failed = chore.failed
  BY <1>1, DoingChore DEF DaemonInv, DaemonTypes
<1>4. /\ ~chore.stopped /\ ~chore.was /\ chore.at \in {"write", "plist"}
      /\ (at = "reload" => system = "linux") /\ (at = "bootout" => system = "macos")
  BY <1>1 DEF DaemonInv, DaemonTypes, StopSound, BackSound, Stopping, OnLinux, OnMacos
<1>5. DaemonTypes'
  BY <1>1, <1>2, <1>3, <1>4 DEF DaemonInv, DaemonTypes, ByManager, OnLinux, OnMacos
<1>6. LockKept' /\ ManagerSound' /\ StopSound' /\ BackSound'
  BY <1>1, <1>2, <1>3, <1>4 DEF DaemonInv, LockKept, ManagerSound, StopSound, BackSound,
     NoneByManager, ByManager, Alive, Untouched
<1>7. PathSound'
  BY <1>1, <1>2, <1>3, <1>4 DEF DaemonInv, PathSound, NoTakeover, TakenByHand, OldService,
     ByManager, Alive
<1> QED BY <1>5, <1>6, <1>7 DEF DaemonInv

(***************************************************************************)
(* systemd reads the new units: from here on the service has its socket.   *)
(***************************************************************************)
LEMMA DaemonReloadSound ==
    ASSUME DaemonInv, DaemonReload
    PROVE  DaemonInv'
<1>1. /\ chore.at = "reload" /\ Doing("disable") /\ manager' = [manager EXCEPT !.loaded = unit.kind]
      /\ UNCHANGED <<system, unit, route, runs, vaultLock, visitor>>
  BY DEF DaemonReload
<1>2. /\ IsManager(manager) /\ unit.kind = "socket" /\ system = "linux"
      /\ ~chore.stopped /\ ~chore.was
  BY <1>1 DEF DaemonInv, DaemonTypes, PathSound, StopSound, BackSound, OnLinux, OnMacos, Stopping
<1>3. manager' = [loaded |-> "socket", listening |-> manager.listening, path |-> manager.path,
                  starts |-> manager.starts, again |-> manager.again, limited |-> manager.limited]
  BY ZenonT(90), <1>1, <1>2, ManagerChanges
<1>4. /\ IsManager(manager') /\ manager'.loaded = "socket" /\ manager'.again = manager.again
      /\ manager'.listening = manager.listening /\ manager'.limited = manager.limited
  BY <1>3 DEF IsManager
<1>5. /\ IsChore(chore') /\ chore'.at = "disable" /\ chore'.stopped = chore.stopped
      /\ chore'.was = chore.was /\ chore'.failed = chore.failed
  BY <1>1, DoingChore DEF DaemonInv, DaemonTypes
<1>6. DaemonTypes'
  BY <1>1, <1>2, <1>4, <1>5 DEF DaemonInv, DaemonTypes, ByManager, OnLinux, OnMacos
<1>7. LockKept' /\ ManagerSound' /\ StopSound' /\ BackSound'
  BY <1>1, <1>2, <1>4, <1>5 DEF DaemonInv, LockKept, ManagerSound, StopSound, BackSound, Untouched
<1>8. PathSound'
  BY <1>1, <1>2, <1>4, <1>5 DEF DaemonInv, PathSound, NoTakeover, TakenByHand, OldService,
     ByManager, Alive
<1> QED BY <1>6, <1>7, <1>8 DEF DaemonInv

(***************************************************************************)
(* The manager's runs are stopped, and their lock is free.                 *)
(***************************************************************************)
LEMMA RunsStop ==
    ASSUME DaemonInv, runs' = RunsWithout(ManagersRun),
           vaultLock' = LockWithout(ManagersRun), UNCHANGED system
    PROVE  /\ DOMAIN runs' = Runs
           /\ \A r \in Runs : /\ IsRun(runs'[r])
                              /\ runs'[r].by = runs[r].by /\ runs'[r].env = runs[r].env
                              /\ runs'[r].by \in {"manager", "hand"} <=> runs'[r].at # "unused"
           /\ NoneByManager' /\ (TakenByHand <=> TakenByHand')
           /\ \A r \in Runs : runs'[r].at \in {"listen", "serving"} => vaultLock' = r
           /\ vaultLock = Command => vaultLock' = Command
<1>1. /\ DOMAIN runs' = Runs /\ \A r \in Runs \ ManagersRun : runs'[r] = runs[r]
      /\ \A r \in Runs : /\ IsRun(runs'[r])
                         /\ runs'[r].by = runs[r].by /\ runs'[r].env = runs[r].env
                         /\ r \in ManagersRun => runs'[r].at = "gone"
  BY RunsStopped DEF DaemonInv
<1>2. NoneByManager'
  BY <1>1 DEF NoneByManager, ManagersRun, ByManager, Alive
<1>3. TakenByHand <=> TakenByHand'
  BY <1>1 DEF TakenByHand
<1>4. ASSUME NEW r \in Runs, runs'[r].at \in {"listen", "serving"} PROVE vaultLock' = r
  BY <1>1, <1>4 DEF DaemonInv, LockKept, LockWithout
<1>5. vaultLock = Command => vaultLock' = Command
  BY DaemonAssumption DEF LockWithout, Command, ManagersRun
<1>6. ASSUME NEW r \in Runs
      PROVE  runs'[r].by \in {"manager", "hand"} <=> runs'[r].at # "unused"
  BY <1>1 DEF DaemonInv, DaemonTypes, ManagersRun, ByManager
<1> QED BY <1>1, <1>2, <1>3, <1>4, <1>5, <1>6


(***************************************************************************)
(* The service is disabled and stopped.                                    *)
(***************************************************************************)
LEMMA DisableServiceSound ==
    ASSUME DaemonInv, DisableService
    PROVE  DaemonInv'
<1>1. /\ chore.at = "disable" /\ Doing("enable") /\ manager' = [manager EXCEPT !.again = FALSE]
      /\ runs' = RunsWithout(ManagersRun) /\ vaultLock' = LockWithout(ManagersRun)
      /\ UNCHANGED <<system, unit, route, visitor>>
  BY DEF DisableService
<1>2. /\ IsManager(manager) /\ unit.kind = "socket" /\ system = "linux"
      /\ ~chore.stopped /\ ~chore.was
  BY <1>1 DEF DaemonInv, DaemonTypes, PathSound, StopSound, BackSound, OnLinux, OnMacos, Stopping
<1>3. manager' = [loaded |-> manager.loaded, listening |-> manager.listening,
                  path |-> manager.path, starts |-> manager.starts, again |-> FALSE,
                  limited |-> manager.limited]
  BY <1>1, <1>2, ManagerChanges
<1>4. /\ IsManager(manager') /\ manager'.loaded = manager.loaded /\ ~manager'.again
      /\ manager'.listening = manager.listening /\ manager'.limited = manager.limited
  BY <1>3 DEF IsManager
<1>5. /\ IsChore(chore') /\ chore'.at = "enable" /\ chore'.stopped = chore.stopped
      /\ chore'.was = chore.was /\ chore'.failed = chore.failed
  BY <1>1, DoingChore DEF DaemonInv, DaemonTypes
<1>6. /\ DOMAIN runs' = Runs
      /\ \A r \in Runs : /\ IsRun(runs'[r])
                         /\ runs'[r].by = runs[r].by /\ runs'[r].env = runs[r].env
                         /\ runs'[r].by \in {"manager", "hand"} <=> runs'[r].at # "unused"
      /\ NoneByManager' /\ (TakenByHand <=> TakenByHand')
      /\ \A r \in Runs : runs'[r].at \in {"listen", "serving"} => vaultLock' = r
  BY <1>1, RunsStop
<1>7. DaemonTypes'
  BY <1>1, <1>2, <1>4, <1>5, <1>6 DEF DaemonInv, DaemonTypes, ByManager, OnLinux, OnMacos
<1>8. LockKept' /\ ManagerSound' /\ StopSound' /\ BackSound'
  BY <1>1, <1>2, <1>4, <1>5, <1>6 DEF DaemonInv, LockKept, ManagerSound, StopSound, BackSound,
     Untouched
<1>9. \A r \in Runs : ~OldService(r)'
  BY <1>6 DEF NoneByManager, OldService, Alive, ByManager
<1>10. PathSound'
  BY <1>1, <1>2, <1>4, <1>5, <1>6, <1>9 DEF DaemonInv, PathSound, NoTakeover
<1> QED BY <1>7, <1>8, <1>10 DEF DaemonInv

(***************************************************************************)
(* What a manager that begins to listen is.                                *)
(***************************************************************************)
LEMMA ListeningListens ==
    ASSUME IsManager(manager), NEW path
    PROVE  /\ IsManager(ListeningOn(path)) /\ ListeningOn(path).loaded = "socket"
           /\ ListeningOn(path).listening /\ ListeningOn(path).again = manager.again
           /\ ~ListeningOn(path).limited
<1> DEFINE m1 == [manager EXCEPT !.loaded = "socket"]
           m2 == [m1 EXCEPT !.listening = TRUE]
           m3 == [m2 EXCEPT !.path = path]
           m4 == [m3 EXCEPT !.starts = 0]
           m5 == [m4 EXCEPT !.limited = FALSE]
<1>1. ListeningOn(path) = m5
  BY DEF ListeningOn
<1>2. /\ IsManager(m1) /\ m1.loaded = "socket" /\ m1.again = manager.again
  <2>1. m1 = [loaded |-> "socket", listening |-> manager.listening, path |-> manager.path,
              starts |-> manager.starts, again |-> manager.again, limited |-> manager.limited]
    BY ManagerChanges
  <2> QED BY <2>1 DEF IsManager
<1> HIDE DEF m1
<1>3. IsManager(m2) /\ m2.loaded = "socket" /\ m2.again = manager.again /\ m2.listening
  <2>1. m2 = [loaded |-> m1.loaded, listening |-> TRUE, path |-> m1.path,
              starts |-> m1.starts, again |-> m1.again, limited |-> m1.limited]
    BY <1>2, ManagerChanges
  <2> QED BY <1>2, <2>1 DEF IsManager
<1> HIDE DEF m2
<1>4. /\ IsManager(m3) /\ m3.loaded = "socket" /\ m3.again = manager.again
      /\ m3.listening = m2.listening
  <2>1. m3 = [loaded |-> m2.loaded, listening |-> m2.listening, path |-> path,
              starts |-> m2.starts, again |-> m2.again, limited |-> m2.limited]
    BY <1>3, ManagerChanges
  <2> QED BY <1>3, <2>1 DEF IsManager
<1> HIDE DEF m3
<1>5. /\ IsManager(m4) /\ m4.loaded = "socket" /\ m4.again = manager.again
      /\ m4.listening = m2.listening
  <2>1. m4 = [loaded |-> m3.loaded, listening |-> m3.listening, path |-> m3.path,
              starts |-> 0, again |-> m3.again, limited |-> m3.limited]
    BY ZenonT(90), <1>4, ManagerChanges
  <2> QED BY <1>4, <2>1 DEF IsManager
<1> HIDE DEF m4
<1>6. /\ IsManager(m5) /\ m5.loaded = "socket" /\ m5.again = manager.again
      /\ m5.listening = m2.listening /\ ~m5.limited
  <2>1. m5 = [loaded |-> m4.loaded, listening |-> m4.listening, path |-> m4.path,
              starts |-> m4.starts, again |-> m4.again, limited |-> FALSE]
    BY <1>5, ManagerChanges
  <2> QED BY <1>5, <2>1 DEF IsManager
<1> HIDE DEF m5
<1> QED BY <1>1, <1>3, <1>6

(***************************************************************************)
(* The same of the manager after a step.                                   *)
(***************************************************************************)
LEMMA Listens ==
    ASSUME IsManager(manager), NEW path, manager' = ListeningOn(path)
    PROVE  /\ IsManager(manager') /\ manager'.loaded = "socket" /\ manager'.listening
           /\ manager'.again = manager.again /\ ~manager'.limited
<1> DEFINE l == ListeningOn(path)
<1>1. /\ IsManager(l) /\ l.loaded = "socket" /\ l.listening /\ l.again = manager.again
      /\ ~l.limited
  BY ListeningListens
<1>2. manager' = l
  OBVIOUS
<1> HIDE DEF l
<1> QED BY <1>1, <1>2

(***************************************************************************)
(* The socket is enabled: no run of the older service is left to take it.  *)
(***************************************************************************)
LEMMA EnableSocketSound ==
    ASSUME DaemonInv, EnableSocket
    PROVE  DaemonInv'
<1>1. /\ chore.at = "enable" /\ Doing("none")
      /\ UNCHANGED <<system, unit, runs, vaultLock, visitor>>
  BY DEF EnableSocket
<1>2. /\ IsManager(manager) /\ unit.kind = "socket" /\ system = "linux"
      /\ ~chore.stopped /\ ~chore.was
  BY <1>1 DEF DaemonInv, DaemonTypes, PathSound, StopSound, BackSound, OnLinux, OnMacos, Stopping
<1>3. /\ IsManager(manager') /\ manager'.loaded = "socket" /\ manager'.listening
      /\ manager'.again = manager.again
      /\ (route' = "manager" \/ (route' = route /\ manager.listening))
  <2>1. CASE manager.listening
    <3>1. manager' = manager /\ route' = route
      BY <2>1 DEF EnableSocket
    <3> QED BY <1>2, <2>1, <3>1 DEF DaemonInv, ManagerSound
  <2>2. CASE ~manager.listening
    <3>1. manager' = ListeningOn(unit.path) /\ route' = "manager"
      BY <2>2 DEF EnableSocket
    <3> QED BY <1>2, <3>1, Listens
  <2> QED BY <2>1, <2>2
<1>4. /\ IsChore(chore') /\ chore'.at = "none" /\ chore'.stopped = chore.stopped
      /\ chore'.was = chore.was /\ chore'.failed = chore.failed
  BY <1>1, DoingChore DEF DaemonInv, DaemonTypes
<1>5. DaemonTypes'
  BY <1>1, <1>3, <1>4 DEF DaemonInv, DaemonTypes, ByManager, OnLinux, OnMacos
<1>6. LockKept' /\ ManagerSound' /\ StopSound' /\ BackSound'
  BY <1>1, <1>2, <1>3, <1>4 DEF DaemonInv, LockKept, ManagerSound, StopSound, BackSound, Untouched
<1>7. ASSUME NEW r \in Runs, OldService(r)' PROVE system = "linux" /\ chore.failed
  <2>1. OldService(r)
    BY <1>1, <1>7 DEF OldService, Alive, ByManager
  <2> QED BY <1>1, <1>2, <2>1 DEF DaemonInv, PathSound
<1>8. PathSound'
  BY <1>1, <1>2, <1>3, <1>4, <1>7 DEF DaemonInv, PathSound, NoTakeover, TakenByHand
<1> QED BY <1>5, <1>6, <1>8 DEF DaemonInv

(***************************************************************************)
(* What bootout makes of launchd.                                          *)
(***************************************************************************)
LEMMA BootedOut ==
    ASSUME DaemonInv, BootoutJob
    PROVE  /\ IsManager(manager') /\ ~manager'.listening /\ manager'.again = manager.again
           /\ manager'.limited = manager.limited
           /\ manager'.loaded = IF manager.loaded = "nothing" THEN "nothing" ELSE "unloading"
<1> DEFINE to == IF manager.loaded = "nothing" THEN "nothing" ELSE "unloading"
           m == [manager EXCEPT !.loaded = to]
<1>1. IsManager(manager)
  BY DEF DaemonInv, DaemonTypes
<1>2. manager' = [m EXCEPT !.listening = FALSE]
  BY DEF BootoutJob
<1> HIDE DEF to
<1>3. /\ IsManager(m) /\ m.loaded = to /\ m.again = manager.again
      /\ m.limited = manager.limited
  <2>1. m = [loaded |-> to, listening |-> manager.listening, path |-> manager.path,
             starts |-> manager.starts, again |-> manager.again, limited |-> manager.limited]
    BY <1>1, ManagerChanges
  <2> QED BY <2>1 DEF IsManager
<1> HIDE DEF m
<1>4. manager' = [loaded |-> m.loaded, listening |-> FALSE, path |-> m.path,
                  starts |-> m.starts, again |-> m.again, limited |-> m.limited]
  BY <1>2, <1>3, ManagerChanges
<1>5. IsManager(manager') /\ manager'.loaded = to /\ ~manager'.listening
      /\ manager'.again = manager.again /\ manager'.limited = manager.limited
  BY <1>3, <1>4 DEF IsManager
<1> QED BY <1>5 DEF to

(***************************************************************************)
(* A job is booted out, by init or as the instruction says.                *)
(***************************************************************************)
LEMMA BootoutSound ==
    ASSUME DaemonInv, Bootout \/ StopLaunchd
    PROVE  DaemonInv'
<1>1. /\ BootoutJob /\ visitor' = "idle" /\ UNCHANGED <<system, unit, runs, vaultLock>>
  BY DEF Bootout, StopLaunchd
<1>2. IsChore(chore)
  BY DEF DaemonInv, DaemonTypes
<1>3. /\ IsChore(chore') /\ chore'.was = chore.was /\ chore'.failed = chore.failed
      /\ \/ /\ Bootout /\ chore.at = "bootout" /\ chore'.at \in {"bootstrap", "unload"}
            /\ chore'.stopped = chore.stopped
         \/ /\ StopLaunchd /\ system = "macos" /\ chore'.at = "stopped" /\ chore'.stopped
  <2>1. CASE Bootout
    <3>1. PICK at \in {"bootstrap", "unload"} :
              chore' = [[chore EXCEPT !.at = at] EXCEPT !.polls = 0]
      BY <2>1 DEF Bootout
    <3> DEFINE c == [chore EXCEPT !.at = at]
    <3>2. c = [at |-> at, stopped |-> chore.stopped, polls |-> chore.polls,
               was |-> chore.was, failed |-> chore.failed]
      BY <1>2, ChoreChanges
    <3>3. chore' = [c EXCEPT !.polls = 0]
      BY <3>1
    <3> HIDE DEF c
    <3>4. chore' = [at |-> at, stopped |-> chore.stopped, polls |-> 0,
                    was |-> chore.was, failed |-> chore.failed]
      BY <3>2, <3>3
    <3> QED BY <2>1, <3>4 DEF IsChore, Bootout
  <2>2. CASE StopLaunchd
    <3> DEFINE c == [chore EXCEPT !.at = "stopped"]
    <3>1. chore' = [c EXCEPT !.stopped = TRUE]
      BY <2>2 DEF StopLaunchd
    <3>2. IsChore(c) /\ c.at = "stopped" /\ c.was = chore.was /\ c.failed = chore.failed
      <4>1. c = [at |-> "stopped", stopped |-> chore.stopped, polls |-> chore.polls,
                 was |-> chore.was, failed |-> chore.failed]
        BY <1>2, ChoreChanges
      <4> QED BY <4>1 DEF IsChore
    <3> HIDE DEF c
    <3>3. chore' = [at |-> c.at, stopped |-> TRUE, polls |-> c.polls, was |-> c.was,
                    failed |-> c.failed]
      BY <3>1, <3>2, ChoreChanges
    <3> QED BY <2>2, <3>2, <3>3 DEF IsChore, StopLaunchd
  <2> QED BY <2>1, <2>2 DEF Bootout, StopLaunchd
<1>4. /\ IsManager(manager') /\ ~manager'.listening /\ manager'.again = manager.again
      /\ manager'.limited = manager.limited
      /\ manager'.loaded = IF manager.loaded = "nothing" THEN "nothing" ELSE "unloading"
  BY <1>1, BootedOut
<1>5. system = "macos" /\ ~manager.again
  BY <1>3 DEF DaemonInv, DaemonTypes, ManagerSound, OnMacos
<1>6. DaemonTypes'
  BY <1>1, <1>3, <1>4, <1>5 DEF DaemonInv, DaemonTypes, ByManager, OnLinux, OnMacos, Stopping
<1>7. manager'.loaded # "unloading" => NoneByManager'
  BY <1>1, <1>4, <1>5 DEF DaemonInv, ManagerSound, NoneByManager, ByManager, Alive
<1>8. LockKept' /\ ManagerSound'
  BY <1>1, <1>3, <1>4, <1>5, <1>7 DEF DaemonInv, LockKept, ManagerSound
<1>9. StopSound'
  BY <1>3, <1>4, <1>5, <1>7 DEF DaemonInv, StopSound, Stopping
<1>10. BackSound'
  BY <1>1, <1>3, <1>4 DEF DaemonInv, BackSound, Untouched, OnLinux, OnMacos
<1>11. \A r \in Runs : ~OldService(r)'
  BY <1>1, <1>5 DEF DaemonInv, PathSound, OldService, ByManager, Alive
<1>12. PathSound'
  BY <1>1, <1>3, <1>4, <1>5, <1>11 DEF DaemonInv, PathSound, NoTakeover
<1> QED BY <1>6, <1>8, <1>9, <1>10, <1>12 DEF DaemonInv

(***************************************************************************)
(* launchd has unloaded the job and ended its run.                         *)
(***************************************************************************)
LEMMA JobUnloadedSound ==
    ASSUME DaemonInv, JobUnloaded
    PROVE  DaemonInv'
<1>1. /\ manager.loaded = "unloading" /\ manager' = [manager EXCEPT !.loaded = "nothing"]
      /\ runs' = RunsWithout(ManagersRun) /\ vaultLock' = LockWithout(ManagersRun)
      /\ UNCHANGED <<system, unit, route, chore, visitor>>
  BY DEF JobUnloaded
<1>2. /\ IsManager(manager) /\ system = "macos" /\ ~manager.listening /\ ~manager.again
      /\ visitor # "waiting"
  BY <1>1 DEF DaemonInv, DaemonTypes, ManagerSound
<1>3. manager' = [loaded |-> "nothing", listening |-> manager.listening,
                  path |-> manager.path, starts |-> manager.starts, again |-> manager.again,
                  limited |-> manager.limited]
  BY <1>1, <1>2, ManagerChanges
<1>4. /\ IsManager(manager') /\ manager'.loaded = "nothing" /\ manager'.again = manager.again
      /\ manager'.listening = manager.listening /\ manager'.limited = manager.limited
  BY <1>3 DEF IsManager
<1>5. /\ DOMAIN runs' = Runs
      /\ \A r \in Runs : /\ IsRun(runs'[r])
                         /\ runs'[r].by = runs[r].by /\ runs'[r].env = runs[r].env
                         /\ runs'[r].by \in {"manager", "hand"} <=> runs'[r].at # "unused"
      /\ NoneByManager' /\ (TakenByHand <=> TakenByHand')
      /\ \A r \in Runs : runs'[r].at \in {"listen", "serving"} => vaultLock' = r
      /\ vaultLock = Command => vaultLock' = Command
  BY <1>1, RunsStop
<1>6. DaemonTypes'
  BY <1>1, <1>2, <1>4, <1>5 DEF DaemonInv, DaemonTypes, ByManager
<1>7. LockKept' /\ ManagerSound' /\ StopSound' /\ BackSound'
  BY <1>1, <1>2, <1>4, <1>5 DEF DaemonInv, LockKept, ManagerSound, StopSound, BackSound,
     Untouched
<1>8. \A r \in Runs : ~OldService(r)'
  BY <1>5 DEF NoneByManager, OldService, Alive, ByManager
<1>9. PathSound'
  BY <1>1, <1>2, <1>4, <1>5, <1>8 DEF DaemonInv, PathSound, NoTakeover
<1> QED BY <1>6, <1>7, <1>9 DEF DaemonInv

(***************************************************************************)
(* What bootstrap makes of launchd.                                        *)
(***************************************************************************)
LEMMA Bootstrapped ==
    ASSUME DaemonInv, BootstrapJob, system = "macos"
    PROVE  /\ IsManager(manager') /\ manager'.again = manager.again
           /\ manager'.listening => manager'.loaded = "socket"
           /\ manager'.listening => unit.kind = "socket"
           /\ manager'.loaded = "socket" => manager'.listening
           /\ manager.listening => manager'.listening
           /\ manager'.loaded = "unloading" <=> manager.loaded = "unloading"
           /\ manager'.loaded = manager.loaded \/ manager'.loaded = "socket"
           /\ unit.kind = "socket" => manager'.loaded # "nothing"
           /\ manager.loaded = "unloading" => ~manager'.listening
           /\ manager'.listening /\ ~manager.listening => route' = "manager"
           /\ manager.listening => route' = route
<1>1. IsManager(manager)
  BY DEF DaemonInv, DaemonTypes
<1>2. /\ manager.listening => manager.loaded = "socket" /\ unit.kind = "socket"
      /\ manager.loaded = "socket" => manager.listening
  BY DEF DaemonInv, ManagerSound
<1>3. CASE Bootstraps
  <2>1. manager' = ListeningOn(unit.path) /\ route' = "manager"
    BY <1>3 DEF BootstrapJob
  <2>2. /\ IsManager(manager') /\ manager'.loaded = "socket" /\ manager'.listening
        /\ manager'.again = manager.again
    BY <1>1, <2>1, Listens
  <2> QED BY <1>2, <1>3, <2>1, <2>2 DEF Bootstraps
<1>4. CASE ~Bootstraps
  <2>1. manager' = manager /\ route' = route
    BY <1>4 DEF BootstrapJob
  <2> QED BY <1>1, <1>2, <1>4, <2>1 DEF Bootstraps
<1> QED BY <1>3, <1>4

(***************************************************************************)
(* A job is bootstrapped, by init or as the instruction says.              *)
(***************************************************************************)
LEMMA BootstrapSound ==
    ASSUME DaemonInv, Bootstrap \/ RestartLaunchd
    PROVE  DaemonInv'
<1>1. /\ BootstrapJob /\ chore.at \in {"bootstrap", "restart"}
      /\ UNCHANGED <<system, unit, runs, vaultLock, visitor>>
  BY DEF Bootstrap, RestartLaunchd
<1>2. IsChore(chore) /\ system = "macos" /\ chore.failed = chore.failed
  BY DEF Bootstrap, RestartLaunchd, DaemonInv, DaemonTypes, OnMacos
<1>3. /\ IsChore(chore') /\ chore'.was = chore.was /\ chore'.failed = chore.failed
      /\ \/ /\ Bootstrap /\ chore.at = "bootstrap" /\ chore'.at = "none"
            /\ chore'.stopped = chore.stopped
         \/ /\ RestartLaunchd /\ chore.at = "restart"
            /\ IF manager.loaded = "unloading" THEN chore'.at = "restart" /\ chore'.stopped
               ELSE chore'.at = "none" /\ ~chore'.stopped
  <2>1. CASE Bootstrap
    <3>1. chore.at = "bootstrap" /\ Doing("none")
      BY <2>1 DEF Bootstrap
    <3> QED BY <1>2, <2>1, <3>1, DoingChore
  <2>2. CASE RestartLaunchd
    <3> DEFINE at == IF manager.loaded = "unloading" THEN chore.at ELSE "none"
               stopped == manager.loaded = "unloading"
               c == [chore EXCEPT !.at = at]
    <3>1. chore.at = "restart" /\ chore' = [c EXCEPT !.stopped = stopped]
      BY <2>2 DEF RestartLaunchd
    <3>2. IF manager.loaded = "unloading" THEN at = "restart" /\ stopped ELSE at = "none" /\ ~stopped
      BY <3>1
    <3> HIDE DEF at, stopped
    <3>3. IsChore(c) /\ c.at = at /\ c.was = chore.was /\ c.failed = chore.failed
      <4>1. c = [at |-> at, stopped |-> chore.stopped, polls |-> chore.polls,
                 was |-> chore.was, failed |-> chore.failed]
        BY <1>2, ChoreChanges
      <4> QED BY <4>1 DEF IsChore
    <3> HIDE DEF c
    <3>4. chore' = [at |-> c.at, stopped |-> stopped, polls |-> c.polls, was |-> c.was,
                    failed |-> c.failed]
      BY <3>1, <3>3, ChoreChanges
    <3>5. IsChore(chore') /\ chore'.at = at /\ chore'.was = chore.was
          /\ chore'.failed = chore.failed /\ chore'.stopped = stopped
      BY <3>3, <3>4 DEF IsChore
    <3> QED BY <2>2, <3>1, <3>2, <3>5
  <2> QED BY <2>1, <2>2 DEF Bootstrap, RestartLaunchd
<1>4. /\ IsManager(manager') /\ manager'.again = manager.again
      /\ manager'.listening => manager'.loaded = "socket"
      /\ manager'.listening => unit.kind = "socket"
      /\ manager'.loaded = "socket" => manager'.listening
      /\ manager.listening => manager'.listening
      /\ manager'.loaded = "unloading" <=> manager.loaded = "unloading"
      /\ manager'.loaded = manager.loaded \/ manager'.loaded = "socket"
      /\ unit.kind = "socket" => manager'.loaded # "nothing"
      /\ manager.loaded = "unloading" => ~manager'.listening
      /\ manager'.listening /\ ~manager.listening => route' = "manager"
      /\ manager.listening => route' = route
  BY <1>1, <1>2, Bootstrapped
<1>5. manager.loaded \in {"nothing", "socket", "unloading"} /\ ~manager.again
  BY <1>2 DEF DaemonInv, ManagerSound
<1>6. DaemonTypes'
  BY <1>1, <1>2, <1>3, <1>4 DEF DaemonInv, DaemonTypes, ByManager, OnLinux, OnMacos, Stopping
<1>7. LockKept' /\ ManagerSound'
  BY <1>1, <1>2, <1>3, <1>4, <1>5 DEF DaemonInv, LockKept, ManagerSound, NoneByManager,
     ByManager, Alive
<1>8. StopSound'
  BY <1>3, <1>4, <1>5 DEF DaemonInv, StopSound, Stopping
<1>9. BackSound'
  BY <1>1, <1>3, <1>4, <1>5 DEF DaemonInv, BackSound, Untouched, OnLinux, OnMacos
<1>10. \A r \in Runs : ~OldService(r)'
  BY <1>1, <1>2 DEF DaemonInv, PathSound, OldService, ByManager, Alive
<1>11. PathSound'
  BY <1>1, <1>2, <1>3, <1>4, <1>10 DEF DaemonInv, PathSound, NoTakeover, TakenByHand
<1> QED BY <1>6, <1>7, <1>8, <1>9, <1>11 DEF DaemonInv

(***************************************************************************)
(* The socket is started again after a command.                            *)
(***************************************************************************)
LEMMA RestartSystemdSound ==
    ASSUME DaemonInv, RestartSystemd
    PROVE  DaemonInv'
<1>1. /\ chore.at = "restart" /\ system = "linux" /\ unit.kind = "socket" /\ ~manager.listening
      /\ manager' = ListeningOn(unit.path) /\ route' = "manager"
      /\ UNCHANGED <<system, unit, runs, vaultLock, visitor>>
  BY DEF RestartSystemd
<1>2. IsChore(chore) /\ IsManager(manager)
  BY DEF DaemonInv, DaemonTypes
<1>3. /\ IsManager(manager') /\ manager'.loaded = "socket" /\ manager'.listening
      /\ manager'.again = manager.again
  BY <1>1, <1>2, Listens
<1>4. /\ IsChore(chore') /\ chore'.was = chore.was /\ chore'.failed = chore.failed
      /\ chore'.at = "none" /\ ~chore'.stopped
  <2> DEFINE c == [chore EXCEPT !.at = "none"]
  <2>1. chore' = [c EXCEPT !.stopped = FALSE]
    BY DEF RestartSystemd
  <2>2. IsChore(c) /\ c.at = "none" /\ c.was = chore.was /\ c.failed = chore.failed
    <3>1. c = [at |-> "none", stopped |-> chore.stopped, polls |-> chore.polls,
               was |-> chore.was, failed |-> chore.failed]
      BY <1>2, ChoreChanges
    <3> QED BY <3>1 DEF IsChore
  <2> HIDE DEF c
  <2>3. chore' = [at |-> c.at, stopped |-> FALSE, polls |-> c.polls, was |-> c.was,
                  failed |-> c.failed]
    BY <2>1, <2>2, ChoreChanges
  <2> QED BY <2>2, <2>3 DEF IsChore
<1>5. DaemonTypes'
  BY <1>1, <1>3, <1>4 DEF DaemonInv, DaemonTypes, ByManager, OnLinux, OnMacos, Stopping
<1>6. LockKept' /\ ManagerSound' /\ StopSound' /\ BackSound'
  BY <1>1, <1>3, <1>4 DEF DaemonInv, LockKept, ManagerSound, StopSound, BackSound, Untouched,
     OnLinux, OnMacos
<1>7. ASSUME NEW r \in Runs, OldService(r)' PROVE chore.failed
  <2>1. OldService(r)
    BY <1>1, <1>7 DEF OldService, Alive, ByManager
  <2> QED BY <1>1, <2>1 DEF DaemonInv, PathSound
<1>8. PathSound'
  BY <1>1, <1>3, <1>4, <1>7 DEF DaemonInv, PathSound, NoTakeover
<1> QED BY <1>5, <1>6, <1>8 DEF DaemonInv

(***************************************************************************)
(* Socket and service are stopped: nothing is left that starts them.       *)
(***************************************************************************)
LEMMA StopSystemdSound ==
    ASSUME DaemonInv, StopSystemd
    PROVE  DaemonInv'
<1>1. /\ chore.at = "told" /\ system = "linux" /\ visitor' = "idle"
      /\ manager' = [manager EXCEPT !.again = FALSE, !.listening = FALSE]
      /\ runs' = RunsWithout(ManagersRun) /\ vaultLock' = LockWithout(ManagersRun)
      /\ UNCHANGED <<system, unit>>
  BY DEF StopSystemd
<1>2. IsChore(chore) /\ IsManager(manager)
  BY DEF DaemonInv, DaemonTypes
<1>3. /\ IsManager(manager') /\ manager'.loaded = manager.loaded /\ ~manager'.listening
      /\ ~manager'.again /\ manager'.limited = manager.limited
  <2> DEFINE m == [manager EXCEPT !.again = FALSE]
  <2>1. manager' = [m EXCEPT !.listening = FALSE]
    BY <1>1
  <2>2. /\ IsManager(m) /\ m.loaded = manager.loaded /\ ~m.again
        /\ m.limited = manager.limited
    <3>1. m = [loaded |-> manager.loaded, listening |-> manager.listening,
               path |-> manager.path, starts |-> manager.starts, again |-> FALSE,
               limited |-> manager.limited]
      BY <1>2, ManagerChanges
    <3> QED BY <3>1 DEF IsManager
  <2> HIDE DEF m
  <2>3. manager' = [loaded |-> m.loaded, listening |-> FALSE, path |-> m.path,
                    starts |-> m.starts, again |-> m.again, limited |-> m.limited]
    BY <2>1, <2>2, ManagerChanges
  <2> QED BY <2>2, <2>3 DEF IsManager
<1>4. /\ IsChore(chore') /\ chore'.was = chore.was /\ chore'.failed = chore.failed
      /\ chore'.at = "stopped" /\ chore'.stopped
  <2> DEFINE c == [chore EXCEPT !.at = "stopped"]
  <2>1. chore' = [c EXCEPT !.stopped = TRUE]
    BY DEF StopSystemd
  <2>2. IsChore(c) /\ c.at = "stopped" /\ c.was = chore.was /\ c.failed = chore.failed
    <3>1. c = [at |-> "stopped", stopped |-> chore.stopped, polls |-> chore.polls,
               was |-> chore.was, failed |-> chore.failed]
      BY <1>2, ChoreChanges
    <3> QED BY <3>1 DEF IsChore
  <2> HIDE DEF c
  <2>3. chore' = [at |-> c.at, stopped |-> TRUE, polls |-> c.polls, was |-> c.was,
                  failed |-> c.failed]
    BY <2>1, <2>2, ChoreChanges
  <2> QED BY <2>2, <2>3 DEF IsChore
<1>5. /\ DOMAIN runs' = Runs
      /\ \A r \in Runs : /\ IsRun(runs'[r])
                         /\ runs'[r].by = runs[r].by /\ runs'[r].env = runs[r].env
                         /\ runs'[r].by \in {"manager", "hand"} <=> runs'[r].at # "unused"
      /\ NoneByManager'
      /\ \A r \in Runs : runs'[r].at \in {"listen", "serving"} => vaultLock' = r
  BY <1>1, RunsStop
<1>6. DaemonTypes'
  BY <1>1, <1>3, <1>4, <1>5 DEF DaemonInv, DaemonTypes, ByManager, OnLinux, OnMacos, Stopping
<1>7. LockKept' /\ ManagerSound' /\ StopSound' /\ BackSound'
  BY <1>1, <1>3, <1>4, <1>5 DEF DaemonInv, LockKept, ManagerSound, StopSound, BackSound,
     Untouched, OnLinux, OnMacos, Stopping
<1>8. \A r \in Runs : ~OldService(r)'
  BY <1>5 DEF NoneByManager, OldService, Alive, ByManager
<1>9. PathSound'
  BY <1>1, <1>3, <1>4, <1>8 DEF DaemonInv, PathSound, NoTakeover
<1> QED BY <1>6, <1>7, <1>9 DEF DaemonInv

-----------------------------------------------------------------------------

(***************************************************************************)
(* systemd's start limit is reached, or its starts are forgotten.          *)
(***************************************************************************)
LEMMA StartsSound ==
    ASSUME DaemonInv, HitStartLimit \/ StartsForgotten
    PROVE  DaemonInv'
<1>1. UNCHANGED <<system, unit, runs, vaultLock, chore>>
  BY DEF HitStartLimit, StartsForgotten
<1>2. IsManager(manager)
  BY DEF DaemonInv, DaemonTypes
<1>3. CASE StartsForgotten
  <2>1. manager' = [manager EXCEPT !.starts = 0] /\ UNCHANGED <<route, visitor>>
    BY <1>3 DEF StartsForgotten
  <2>2. manager' = [loaded |-> manager.loaded, listening |-> manager.listening,
                    path |-> manager.path, starts |-> 0, again |-> manager.again,
                    limited |-> manager.limited]
    BY <1>2, <2>1, ManagerChanges
  <2>3. /\ IsManager(manager') /\ manager'.loaded = manager.loaded
        /\ manager'.listening = manager.listening /\ manager'.again = manager.again
        /\ manager'.limited = manager.limited
    BY <2>2 DEF IsManager
  <2> QED BY <1>1, <2>1, <2>3 DEF DaemonInv, DaemonTypes, LockKept, ManagerSound, StopSound,
             BackSound, PathSound, Untouched, NoTakeover, TakenByHand, OldService,
             NoneByManager, Alive, ByManager
<1>4. CASE HitStartLimit
  <2>1. /\ system = "linux" /\ visitor' = "idle" /\ ManagersRun = {}
        /\ manager' = [manager EXCEPT !.again = FALSE, !.listening = FALSE, !.limited = TRUE]
    BY <1>4 DEF HitStartLimit
  <2>2. /\ IsManager(manager') /\ manager'.loaded = manager.loaded /\ ~manager'.listening
        /\ ~manager'.again /\ manager'.limited
    <3> DEFINE m == [manager EXCEPT !.again = FALSE]
               n == [m EXCEPT !.listening = FALSE]
    <3>1. manager' = [n EXCEPT !.limited = TRUE]
      BY <2>1
    <3>2. IsManager(m) /\ m.loaded = manager.loaded /\ ~m.again
      <4>1. m = [loaded |-> manager.loaded, listening |-> manager.listening,
                 path |-> manager.path, starts |-> manager.starts, again |-> FALSE,
                 limited |-> manager.limited]
        BY <1>2, ManagerChanges
      <4> QED BY <4>1 DEF IsManager
    <3> HIDE DEF m
    <3>3. IsManager(n) /\ n.loaded = manager.loaded /\ n.again = m.again /\ ~n.listening
      <4>1. n = [loaded |-> m.loaded, listening |-> FALSE, path |-> m.path,
                 starts |-> m.starts, again |-> m.again, limited |-> m.limited]
        BY <3>2, ManagerChanges
      <4> QED BY <3>2, <4>1 DEF IsManager
    <3> HIDE DEF n
    <3>4. manager' = [loaded |-> n.loaded, listening |-> n.listening, path |-> n.path,
                      starts |-> n.starts, again |-> n.again, limited |-> TRUE]
      BY <3>1, <3>3, ManagerChanges
    <3> QED BY <3>2, <3>3, <3>4 DEF IsManager
  <2>3. NoneByManager' /\ \A r \in Runs : ~OldService(r)'
    BY <1>1, <2>1 DEF NoneByManager, OldService, ManagersRun, Alive, ByManager
  <2>4. DaemonTypes' /\ LockKept'
    BY <1>1, <2>2 DEF DaemonInv, DaemonTypes, LockKept, ByManager
  <2>5. ManagerSound' /\ StopSound' /\ BackSound'
    BY <1>1, <2>1, <2>2, <2>3 DEF DaemonInv, ManagerSound, StopSound, BackSound, Untouched
  <2>6. PathSound'
    BY <1>1, <2>1, <2>2, <2>3 DEF DaemonInv, PathSound, NoTakeover
  <2> QED BY <2>4, <2>5, <2>6 DEF DaemonInv
<1> QED BY <1>3, <1>4

(***************************************************************************)
(* The manager starts the agent, with its listener if the socket is        *)
(* loaded.                                                                 *)
(***************************************************************************)
LEMMA ActivateSound ==
    ASSUME DaemonInv, NEW r \in Runs, Activate(r)
    PROVE  DaemonInv'
<1> DEFINE env == IF manager.loaded = "socket" THEN "own" ELSE "none"
           starts == IF system = "linux" THEN manager.starts + 1 ELSE 0
           m == IF manager.loaded = "socket" THEN ListeningOn(unit.path) ELSE manager
           n == [m EXCEPT !.again = FALSE]
<1>1. /\ StartWanted /\ ManagersRun = {} /\ r \in Fresh
      /\ runs' = [runs EXCEPT ![r] = Starting("manager", env)]
      /\ manager' = [n EXCEPT !.starts = starts]
      /\ route' = IF manager.loaded = "socket" /\ ~manager.listening THEN "manager" ELSE route
      /\ UNCHANGED <<system, unit, vaultLock, chore, visitor>>
  BY DEF Activate
<1>2. /\ IsManager(m) /\ m.loaded = manager.loaded
      /\ IF manager.loaded = "socket" THEN m.listening
         ELSE ~m.listening /\ m.limited = manager.limited
  <2>1. IsManager(manager) /\ (manager.listening => manager.loaded = "socket")
    BY DEF DaemonInv, DaemonTypes, ManagerSound
  <2>2. CASE manager.loaded = "socket"
    <3> DEFINE l == ListeningOn(unit.path)
    <3>1. m = l
      BY <2>2
    <3>2. IsManager(l) /\ l.loaded = "socket" /\ l.listening
      BY <2>1, ListeningListens
    <3> HIDE DEF l, m
    <3> QED BY <2>2, <3>1, <3>2
  <2>3. CASE manager.loaded # "socket"
    <3>1. m = manager
      BY <2>3
    <3> HIDE DEF m
    <3> QED BY <2>1, <2>3, <3>1
  <2> QED BY <2>2, <2>3
<1> HIDE DEF m, starts
<1>3. /\ IsManager(n) /\ n.loaded = m.loaded /\ n.listening = m.listening
      /\ n.limited = m.limited /\ ~n.again
  <2>1. n = [loaded |-> m.loaded, listening |-> m.listening, path |-> m.path,
             starts |-> m.starts, again |-> FALSE, limited |-> m.limited]
    BY <1>2, ManagerChanges
  <2> QED BY <2>1 DEF IsManager
<1> HIDE DEF n
<1>4. manager' = [loaded |-> n.loaded, listening |-> n.listening, path |-> n.path,
                  starts |-> starts, again |-> n.again, limited |-> n.limited]
  BY <1>1, <1>3, ManagerChanges
<1>5. /\ IsManager(manager') /\ manager'.loaded = manager.loaded /\ ~manager'.again
      /\ IF manager.loaded = "socket" THEN manager'.listening
         ELSE ~manager'.listening /\ manager'.limited = manager.limited
  BY <1>2, <1>3, <1>4 DEF IsManager
<1>6. env \in {"own", "none"} /\ (env = "none" <=> manager.loaded # "socket")
  OBVIOUS
<1> HIDE DEF env
<1>7. /\ DOMAIN runs' = Runs /\ IsRun(runs'[r]) /\ runs'[r].at = "harden"
      /\ runs'[r].by = "manager" /\ runs'[r].env = env
      /\ \A q \in Runs \ {r} : runs'[q] = runs[q]
  BY <1>1 DEF DaemonInv, DaemonTypes, Starting, IsRun
<1>8. runs[r].at = "unused" /\ runs[r].by # "hand"
  BY <1>1 DEF Fresh, DaemonInv, DaemonTypes
<1>9. \A q \in Runs \ {r} : ByManager(q)' => ~Alive(q)'
  BY <1>1, <1>7 DEF ManagersRun, ByManager, Alive
<1>10. system = "macos" => manager.loaded = "socket" /\ unit.kind = "socket"
  BY <1>1 DEF StartWanted, DaemonInv, ManagerSound
<1>11. ~chore.stopped
  BY <1>1 DEF StartWanted, DaemonInv, StopSound, ManagerSound
<1>12. DaemonTypes'
  BY <1>1, <1>5, <1>6, <1>7, <1>8 DEF DaemonInv, DaemonTypes, ByManager
<1>13. LockKept'
  BY <1>1, <1>7 DEF DaemonInv, LockKept
<1>14. ManagerSound'
  BY <1>1, <1>5, <1>10 DEF DaemonInv, DaemonTypes, ManagerSound
<1>15. StopSound' /\ BackSound'
  BY <1>1, <1>5, <1>11 DEF DaemonInv, StopSound, BackSound, Untouched, ManagerSound
<1>16. TakenByHand => TakenByHand'
  BY <1>1, <1>7, <1>8 DEF TakenByHand
<1>17. NoTakeover'
  BY <1>1, <1>5, <1>16 DEF DaemonInv, PathSound, NoTakeover
<1>18. ASSUME NEW q \in Runs, OldService(q)'
       PROVE  system = "linux" /\ ~manager'.listening /\ manager'.loaded # "socket"
  <2>1. q = r
    BY <1>9, <1>18 DEF OldService
  <2>2. env = "none"
    BY <1>7, <1>18, <2>1 DEF OldService
  <2> QED BY <1>5, <1>6, <1>10, <2>2 DEF DaemonInv, DaemonTypes
<1>19. PathSound'
  BY <1>1, <1>5, <1>17, <1>18 DEF DaemonInv, PathSound
<1> QED BY <1>12, <1>13, <1>14, <1>15, <1>19 DEF DaemonInv

(***************************************************************************)
(* Every step keeps the invariant.                                         *)
(***************************************************************************)
LEMMA DaemonStepKeeps ==
    ASSUME DaemonInv, [NextDaemon]_daemonVars
    PROVE  DaemonInv'
<1>1. CASE UNCHANGED daemonVars
  BY <1>1 DEF daemonVars, DaemonInv, DaemonTypes, LockKept, ManagerSound, StopSound,
     BackSound, PathSound, Untouched, NoTakeover, TakenByHand, OldService, NoneByManager,
     Alive, ByManager
<1>2. ASSUME NEW r \in Runs, AgentActs(r) PROVE DaemonInv'
  BY <1>2, StartByHandSound, AgentGoesOn, FailingSound, ServeSound, CreateListenerSound,
     VisitorSound, ActivateSound DEF AgentActs
<1>3. CASE UserDoes
  BY <1>3, EnablingMoves, UnitSound, DaemonReloadSound, DisableServiceSound,
     EnableSocketSound, BootoutSound, BootstrapSound, CommandSound, StopSystemdSound,
     RestartSystemdSound DEF UserDoes
<1>4. CASE \E runtime \in RuntimeDirs : Connect(runtime) \/ WritePlist(runtime)
  BY <1>4, VisitorSound, UnitSound
<1>5. CASE ClientLeaves \/ HitStartLimit \/ StartsForgotten \/ JobUnloaded
  BY <1>5, VisitorSound, StartsSound, JobUnloadedSound
<1> QED BY <1>1, <1>2, <1>3, <1>4, <1>5 DEF NextDaemon

(***************************************************************************)
(* After the stop instruction nothing starts the agent again, the restart  *)
(* gives back what the stop took, a listening manager keeps its path, and  *)
(* whoever serves holds the lock, for any number of agents, any start      *)
(* limit and both systems (agent.rs, autostart.rs, passwd.rs, migrate.rs). *)
(***************************************************************************)
THEOREM DaemonStaysSound == DaemonSpec => []DaemonSound
BY DaemonInitially, DaemonMeans, DaemonStepKeeps, PTL DEF DaemonSpec
===============================================================================
