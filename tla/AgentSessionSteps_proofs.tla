----------------------- MODULE AgentSessionSteps_proofs -----------------------
(***************************************************************************)
(* What a step of the agent's session may never do: renew an authorization *)
(* nobody entered the password for, take the vault away from the work that *)
(* is on it, or forget a denial that still stands.                         *)
(***************************************************************************)
EXTENDS AgentSessionSafety_proofs

(***************************************************************************)
(* The scope caches are Vecs within their capacity.                        *)
(***************************************************************************)
CachesInOrder ==
    \A a \in AccessScopes : InOrder(inner.authorized[a]) /\ InOrder(inner.denied[a])

(***************************************************************************)
(* A request remembers no instant the clock has not shown yet.             *)
(***************************************************************************)
ClocksRead == \A c \in Clients : client[c].now <= clock

(***************************************************************************)
(* A job's id is its own: no request to come, request under way or task    *)
(* has it too, and while it runs it is among the active jobs.              *)
(***************************************************************************)
JobsNumbered ==
    /\ \A c \in Clients : client[c].kind = "job" => client[c].id > requests
    /\ \A c, d \in Clients :
           /\ client[c].kind = "job" /\ client[d].kind = "job"
           /\ client[c].id = client[d].id
           => c = d
    /\ \A task \in tasks : task.id > requests /\ task.id \in inner.activeJobs
    /\ \A task \in tasks, other \in tasks : task.id = other.id => task = other
    /\ \A c \in Clients, task \in tasks :
           client[c].kind = "job" /\ client[c].pc # "respond" => client[c].id # task.id
    /\ \A c \in Clients : At(c, "createJob") => client[c].id \in inner.activeJobs

(***************************************************************************)
(* Whoever works on a vault was authorized in its session, so the vault    *)
(* that is open has a verifier if anybody works on it, and the one that is *)
(* being opened is new to everybody.                                       *)
(***************************************************************************)
WorkHasVerifier ==
    /\ \A c \in Clients : Serving(c) /\ client[c].db = inner.database => inner.verifier
    /\ \A task \in tasks : task.db = inner.database => inner.verifier

OpenedIsNew ==
    \A c \in Clients : client[c].pc \in {"load", "install"} =>
        /\ inner.database < client[c].db
        /\ \A d \in Clients : Serving(d) => client[d].db < client[c].db
        /\ \A task \in tasks : task.db < client[c].db


-----------------------------------------------------------------------------
(* What a step does to the scope caches *)

(***************************************************************************)
(* Every step does one of these to the caches of authorizations and        *)
(* denials: the operations AuthCache has, and clearing them.               *)
(***************************************************************************)
KeepsAuthorizations == inner'.authorized = inner.authorized

KeepsDenials == inner'.denied = inner.denied

KeepsBoth == KeepsAuthorizations /\ KeepsDenials

DropsAuthorizations == inner'.authorized = NoEntries /\ KeepsDenials

DropsBoth ==
    /\ inner'.authorized = NoEntries /\ inner'.denied = NoEntries
    /\ inner'.identType # inner.identType

Expires ==
    /\ KeepsDenials
    /\ inner'.authorized = [a \in AccessScopes |->
           RetainUnexpired(inner.authorized[a], sweep.now, sweep.ttl[a])]

LooksUpDenial(c) ==
    /\ At(c, "denials") /\ Access(c) \in AccessScopes
    /\ KeepsAuthorizations
    /\ inner'.denied = [inner.denied EXCEPT ![Access(c)] =
           AfterContains(@, client[c].scope, client[c].now, inner.denialTtl)]

LooksUpAuthorization(c) ==
    /\ At(c, "check") /\ Access(c) \in AccessScopes
    /\ KeepsDenials
    /\ inner'.authorized = [inner.authorized EXCEPT ![Access(c)] =
           AfterContains(@, client[c].scope, client[c].now, client[c].ttl)]

Denies(c) ==
    /\ At(c, "deny") /\ client'[c].pc = "idle" /\ Access(c) \in AccessScopes
    /\ client[c].scope \in Scopes
    /\ KeepsAuthorizations
    /\ inner'.denied = [inner.denied EXCEPT ![Access(c)] =
           Insert(@, client[c].scope, client[c].now)]

GrantsOver(authorized, denied) ==
    \E a \in AccessScopes, s \in Scopes :
        /\ inner'.authorized = [authorized EXCEPT ![a] = Insert(@, s, clock)]
        /\ inner'.denied = [denied EXCEPT ![a] = Remove(@, s)]

Grants(c) ==
    /\ client[c].pc \in {"commit", "install"} /\ client'[c].pc = "idle"
    /\ \/ GrantsOver(inner.authorized, inner.denied)
       \/ GrantsOver(NoEntries, NoEntries) /\ inner'.identType # inner.identType

CachesChange ==
    \/ KeepsBoth \/ DropsAuthorizations \/ DropsBoth \/ Expires
    \/ \E c \in Clients :
           LooksUpDenial(c) \/ LooksUpAuthorization(c) \/ Denies(c) \/ Grants(c)

(***************************************************************************)
(* Authorize grants over the caches it finds.                              *)
(***************************************************************************)
LEMMA AuthorizeGrants ==
    ASSUME NEW i \in InnerRecords, NEW a \in AccessScopes, NEW s \in Scopes,
           inner' = Authorize(i, a, s, clock)
    PROVE  GrantsOver(i.authorized, i.denied) /\ inner'.identType = i.identType
<1> DEFINE grown == Insert(i.authorized[a], s, clock)
           rest == Remove(i.denied[a], s)
<1>1. inner' = [i EXCEPT !.denied[a] = rest, !.authorized[a] = grown, !.expiryRecorded = TRUE]
  BY DEF Authorize, InnerRecords
<1> HIDE DEF grown, rest
<1>2. /\ inner'.authorized = [i.authorized EXCEPT ![a] = grown]
      /\ inner'.denied = [i.denied EXCEPT ![a] = rest]
      /\ inner'.identType = i.identType
  BY <1>1 DEF InnerRecords
<1> QED
  BY <1>2 DEF GrantsOver, grown, rest

(***************************************************************************)
(* A change of the identification type clears both caches, its repetition  *)
(* neither.                                                                *)
(***************************************************************************)
LEMMA SetTypeCaches ==
    ASSUME NEW i \in InnerRecords, NEW t \in IdentTypes
    PROVE  LET j == SetProcessIdentificationType(i, t)
           IN  \/ j.authorized = i.authorized /\ j.denied = i.denied
               \/ /\ j.authorized = NoEntries /\ j.denied = NoEntries
                  /\ j.identType # i.identType
BY DEF SetProcessIdentificationType, InvalidateAuthEpoch, InnerRecords

(***************************************************************************)
(* The opening of a vault is such a change.                                *)
(***************************************************************************)
LEMMA OpenInstalledCaches ==
    ASSUME NEW i \in InnerRecords, NEW c \in Clients, client[c].type \in IdentTypes
    PROVE  LET j == OpenInstalled(i, c)
           IN  \/ j.authorized = i.authorized /\ j.denied = i.denied
               \/ /\ j.authorized = NoEntries /\ j.denied = NoEntries
                  /\ j.identType # i.identType
<1> DEFINE e == InvalidateAuthEpoch(i)
           k == SetProcessIdentificationType(e, client[c].type)
           j == OpenInstalled(i, c)
<1>1. e \in InnerRecords /\ e.authorized = i.authorized /\ e.identType = i.identType
  BY InvalidateAuthEpochType, InvalidateAuthEpochFields
<1>2. e.denied = i.denied
  BY DEF InvalidateAuthEpoch, InnerRecords
<1> HIDE DEF e
<1>3. \/ k.authorized = e.authorized /\ k.denied = e.denied
      \/ k.authorized = NoEntries /\ k.denied = NoEntries /\ k.identType # e.identType
  BY <1>1, SetTypeCaches
<1>4. k \in InnerRecords
  BY <1>1, SetProcessIdentificationTypeType
<1>5. j = [k EXCEPT !.database = client[c].db]
  BY DEF OpenInstalled, e
<1> HIDE DEF k, j
<1>6. j.authorized = k.authorized /\ j.denied = k.denied /\ j.identType = k.identType
  BY <1>4, <1>5 DEF InnerRecords
<1> QED
  BY <1>1, <1>2, <1>3, <1>6 DEF j

(***************************************************************************)
(* No step does anything else to the caches.                               *)
(***************************************************************************)
LEMMA CachesChangeStep ==
    ASSUME TypeOK, [Next]_vars
    PROVE  CachesChange
<1> USE DEF CachesChange
<1>i. inner \in InnerRecords /\ inner.authorized \in AuthCaches /\ inner.denied \in AuthCaches
  BY DEF TypeOK, InnerRecords
<1>0. CASE KeepsBoth
  BY <1>0
<1>1. CASE inner' = inner
  BY <1>1 DEF KeepsBoth, KeepsAuthorizations, KeepsDenials
<1>2. ASSUME NEW c \in Clients, Request(c)
      PROVE  CachesChange
  <2>r. /\ client[c].type \in IdentTypes /\ client[c].db \in Nat /\ client[c].ttl \in Nat
        /\ client[c].pc \notin {"idle", "lock"} => Access(c) \in AccessScopes
        /\ ~At(c, "idle") => client[c].scope \in Scopes
    BY SessionAssumption DEF TypeOK, ClientRecords, RequestFits, Access
  <2>s. ScopeOf[c][client[c].type] \in Scopes
    BY <2>r, SessionAssumption
  <2>t. Reply(c) => client'[c].pc = "idle"
    BY DEF Reply, Idle, TypeOK
  <2>1. CASE GuiCheckDenials(c)
    BY <1>i, <2>1, <2>r DEF GuiCheckDenials, At, LooksUpDenial, KeepsAuthorizations, InnerRecords
  <2>2. CASE RecordDenial(c)
    BY <1>i, <2>2, <2>r, <2>t DEF RecordDenial, At, Denies, KeepsAuthorizations, InnerRecords
  <2>3. CASE OpenFailed(c) \/ RegisterJob(c) \/ UndoJob(c)
    BY <1>i, <2>3 DEF OpenFailed, RegisterJob, UndoJob, KeepsBoth, KeepsAuthorizations,
                      KeepsDenials, InnerRecords
  <2>4. CASE AuthorizeCheck(c)
    <3>1. CASE inner' = inner
      BY <1>1, <3>1
    <3>2. CASE inner' # inner
      BY <1>i, <2>4, <2>r, <3>2 DEF AuthorizeCheck, At, LooksUpAuthorization, KeepsDenials,
                                    InnerRecords
    <3> QED
      BY <3>1, <3>2
  <2>5. CASE UnlockCommit(c)
    <3> DEFINE i == [inner EXCEPT !.denialTtl = client[c].ttl]
               s == ScopeOf[c][client[c].type]
    <3>1. i \in InnerRecords /\ i.authorized = inner.authorized /\ i.denied = inner.denied
      BY <1>i, <2>r DEF InnerRecords
    <3>2. \/ inner' = inner
          \/ inner' = Authorize(i, Access(c), s, clock) /\ client'[c].pc = "idle"
      BY <2>5, <2>t DEF UnlockCommit
    <3>3. client[c].pc = "commit" /\ Access(c) \in AccessScopes
      BY <2>5, <2>r DEF UnlockCommit, At
    <3> HIDE DEF i, s
    <3>4. CASE inner' = Authorize(i, Access(c), s, clock) /\ client'[c].pc = "idle"
      <4>1. GrantsOver(i.authorized, i.denied)
        BY <2>s, <3>1, <3>3, <3>4, AuthorizeGrants DEF s
      <4>2. GrantsOver(inner.authorized, inner.denied)
        BY <3>1, <4>1
      <4> QED
        BY <3>3, <3>4, <4>2 DEF Grants
    <3> QED
      BY <1>1, <3>2, <3>4
  <2>6. CASE OpenCommit(c)
    <3> DEFINE o == OpenInstalled(inner, c)
               i == [o EXCEPT !.verifier = TRUE, !.denialTtl = client[c].ttl]
               s == ScopeOf[c][client[c].type]
               j == Authorize(i, Access(c), s, clock)
    <3>1. o \in InnerRecords
      BY <1>i, <2>r, OpenInstalledType
    <3>2. \/ o.authorized = inner.authorized /\ o.denied = inner.denied
          \/ o.authorized = NoEntries /\ o.denied = NoEntries /\ o.identType # inner.identType
      BY <1>i, <2>r, OpenInstalledCaches
    <3>3. inner' \in {inner, o} \/ (inner' = j /\ client'[c].pc = "idle")
      BY <2>6, <2>t DEF OpenCommit
    <3>4. client[c].pc = "install" /\ Access(c) \in AccessScopes
      BY <2>6, <2>r DEF OpenCommit, At
    <3> HIDE DEF o
    <3>5. i \in InnerRecords
      BY <3>1, <2>r, Zenon DEF InnerRecords
    <3>6. i.authorized = o.authorized /\ i.denied = o.denied /\ i.identType = o.identType
      BY <3>1 DEF InnerRecords
    <3> HIDE DEF i
    <3>7. CASE inner' = o
      BY <3>2, <3>7 DEF KeepsBoth, KeepsAuthorizations, KeepsDenials, DropsBoth
    <3>8. CASE inner' = j /\ client'[c].pc = "idle"
      <4>1. inner' = Authorize(i, Access(c), s, clock)
        BY <3>8
      <4>2. GrantsOver(i.authorized, i.denied) /\ inner'.identType = i.identType
        BY <2>s, <3>4, <3>5, <4>1, AuthorizeGrants
      <4> HIDE DEF j
      <4>3. Grants(c)
        BY <3>2, <3>4, <3>6, <3>8, <4>2 DEF Grants
      <4> QED
        BY <4>3
    <3> QED
      BY <1>1, <3>3, <3>7, <3>8
  <2>7. CASE Lock(c)
    BY <1>i, <2>7 DEF Lock, InvalidateAuthEpoch, DropsAuthorizations, KeepsDenials, InnerRecords
  <2>8. CASE PublishSetting(c)
    <3>1. client[c].write \in SettingWrites /\ client[c].write.name \in {"denialTtl", "identType"}
      BY <2>8, SessionAssumption DEF TypeOK, RequestFits, PublishSetting, At
    <3>2. CASE client[c].write.name = "denialTtl"
      BY <1>i, <2>8, <3>2 DEF PublishSetting, KeepsBoth, KeepsAuthorizations, KeepsDenials,
                              InnerRecords
    <3>3. CASE client[c].write.name = "identType"
      <4> DEFINE t == client[c].write.value
                 j == SetProcessIdentificationType(inner, t)
      <4>1. t \in IdentTypes
        BY <3>1, <3>3 DEF SettingWrites, AccessScopes
      <4>2. inner' = j
        BY <2>8, <3>3 DEF PublishSetting
      <4> HIDE DEF t
      <4>3. \/ j.authorized = inner.authorized /\ j.denied = inner.denied
            \/ j.authorized = NoEntries /\ j.denied = NoEntries /\ j.identType # inner.identType
        BY <1>i, <4>1, SetTypeCaches
      <4> QED
        BY <4>2, <4>3 DEF KeepsBoth, KeepsAuthorizations, KeepsDenials, DropsBoth
    <3> QED
      BY <3>1, <3>2, <3>3
  <2> QED
    BY <1>1, <1>2, <2>1, <2>2, <2>3, <2>4, <2>5, <2>6, <2>7, <2>8, RequestFrame
<1>3. CASE Sweep
  <2>1. CASE SweepClockFailure
    <3> DEFINE i == InvalidateAuthEpoch(inner)
               cleared == [i EXCEPT !.authorized = NoEntries, !.expiryRecorded = FALSE]
    <3>1. cleared \in InnerRecords /\ cleared.authorized = NoEntries
          /\ cleared.denied = inner.denied
      BY <1>i, InvalidateAuthEpochType, NoEntriesType, AuthorizationsType
         DEF InvalidateAuthEpoch, InnerRecords
    <3>2. inner' \in {cleared, UnloadLocked(cleared)}
      BY <2>1 DEF SweepClockFailure
    <3> HIDE DEF cleared
    <3>3. UnloadLocked(cleared).authorized = NoEntries
          /\ UnloadLocked(cleared).denied = cleared.denied
      BY <3>1 DEF UnloadLocked, InvalidateAuthEpoch, InnerRecords
    <3> QED
      BY <3>1, <3>2, <3>3 DEF DropsAuthorizations, KeepsDenials
  <2>2. CASE SweepExpire
    <3>1. CASE inner' = inner
      BY <1>1, <3>1
    <3>2. CASE inner' # inner
      <4> DEFINE kept == [a \in AccessScopes |->
                             RetainUnexpired(inner.authorized[a], sweep.now, sweep.ttl[a])]
                 alive == \E a \in AccessScopes : DOMAIN kept[a] # {}
      <4>1. inner' = [inner EXCEPT !.authorized = kept, !.expiryRecorded = alive]
        BY <2>2, <3>2 DEF SweepExpire
      <4> HIDE DEF alive, kept
      <4>2. inner'.authorized = kept /\ inner'.denied = inner.denied
        BY <1>i, <4>1 DEF InnerRecords
      <4> QED
        BY <4>2 DEF Expires, KeepsDenials, kept
    <3> QED
      BY <3>1, <3>2
  <2>3. CASE SweepUnload
    <3> DEFINE cleaned == IF sweep.due THEN [inner EXCEPT !.lastCleanup = sweep.now] ELSE inner
    <3>1. cleaned \in InnerRecords
      BY <1>i DEF TypeOK, SweepRecords, InnerRecords
    <3>2. cleaned.authorized = inner.authorized /\ cleaned.denied = inner.denied
      BY <1>i DEF InnerRecords
    <3>3. inner' \in {cleaned, UnloadLocked(cleaned)}
      BY <2>3 DEF SweepUnload
    <3> HIDE DEF cleaned
    <3>4. UnloadLocked(cleaned).authorized = NoEntries
          /\ UnloadLocked(cleaned).denied = cleaned.denied
      BY <3>1 DEF UnloadLocked, InvalidateAuthEpoch, InnerRecords
    <3> QED
      BY <3>2, <3>3, <3>4
         DEF KeepsBoth, KeepsAuthorizations, DropsAuthorizations, KeepsDenials
  <2> QED
    BY <1>1, <1>3, <2>1, <2>2, <2>3, SweepFrame
<1>4. ASSUME NEW task \in tasks, JobEnds(task)
      PROVE  CachesChange
  BY <1>i, <1>4 DEF JobEnds, KeepsBoth, KeepsAuthorizations, KeepsDenials, InnerRecords
<1>5. CASE Tick \/ UNCHANGED vars
  BY <1>1, <1>5 DEF Tick, vars
<1> QED
  BY <1>2, <1>3, <1>4, <1>5 DEF Next

-----------------------------------------------------------------------------
(* Only unlocks renew *)

(***************************************************************************)
(* An entry that is there after the step was there before, with the same   *)
(* instant, or is what an unlock commits.                                  *)
(***************************************************************************)
Renewed(a, s) ==
    \/ /\ s \in DOMAIN inner.authorized[a]
       /\ inner'.authorized[a][s].at = inner.authorized[a][s].at
    \/ \E c \in Clients :
           /\ client[c].pc \in {"commit", "install"}
           /\ client'[c].pc = "idle"
           /\ inner'.authorized[a][s].at = clock

(***************************************************************************)
(* Whatever the shape of a change of the caches, an authorization that is   *)
(* new afterwards is one Renewed allows.                                    *)
(***************************************************************************)
LEMMA RenewalStep ==
    ASSUME TypeOK, CachesChange
    PROVE  \A a \in AccessScopes : \A s \in DOMAIN inner'.authorized[a] : Renewed(a, s)
<1> SUFFICES ASSUME NEW a \in AccessScopes, NEW s \in DOMAIN inner'.authorized[a]
             PROVE  Renewed(a, s)
  OBVIOUS
<1> DEFINE old == inner.authorized[a]
           new == inner'.authorized[a]
<1>i. inner.authorized \in AuthCaches
  BY DEF TypeOK, InnerRecords
<1>0. ASSUME s \in DOMAIN old, new[s].at = old[s].at
      PROVE  Renewed(a, s)
  BY <1>0 DEF Renewed
<1>1. CASE KeepsAuthorizations
  BY <1>0, <1>1 DEF KeepsAuthorizations
<1>2. CASE inner'.authorized = NoEntries
  BY <1>2, NoEntriesEmpty
<1>3. CASE Expires
  <2>1. new = RetainUnexpired(old, sweep.now, sweep.ttl[a])
    BY <1>3 DEF Expires
  <2>2. /\ DOMAIN new = Live(old, sweep.now, sweep.ttl[a])
        /\ \A t \in DOMAIN new : new[t].at = old[t].at
    BY <2>1, RetainUnexpiredDomain, RetainUnexpiredAt
  <2> QED
    BY <1>0, <2>2 DEF Live
<1>4. ASSUME NEW c \in Clients, LooksUpAuthorization(c)
      PROVE  Renewed(a, s)
  <2>1. CASE a = Access(c)
    <3>1. new = AfterContains(old, client[c].scope, client[c].now, client[c].ttl)
      BY <1>i, <1>4, <2>1 DEF LooksUpAuthorization, AuthCaches
    <3>2. \A t \in DOMAIN new : t \in DOMAIN old /\ new[t].at = old[t].at
      BY <3>1, AfterContainsAt
    <3> QED
      BY <1>0, <3>2
  <2>2. CASE a # Access(c)
    <3>1. new = old
      BY <1>i, <1>4, <2>2 DEF LooksUpAuthorization, AuthCaches
    <3> QED
      BY <1>0, <3>1
  <2> QED
    BY <2>1, <2>2
<1>5. ASSUME NEW c \in Clients, Grants(c)
      PROVE  Renewed(a, s)
  <2>1. ASSUME NEW cache, NEW t, new = Insert(cache, t, clock), cache \in {old, NoEntries[a]}
        PROVE  Renewed(a, s)
    <3>1. IF s = t THEN new[s].at = clock ELSE s \in DOMAIN cache /\ new[s].at = cache[s].at
      BY <2>1, InsertAt
    <3>2. s # t => cache = old
      BY <2>1, <3>1, NoEntriesEmpty
    <3>3. CASE s = t
      BY <1>5, <3>1, <3>3 DEF Grants, Renewed
    <3> QED
      BY <1>0, <3>1, <3>2, <3>3
  <2>2. ASSUME NEW authorized \in AuthCaches, NEW denied, GrantsOver(authorized, denied),
               authorized \in {inner.authorized, NoEntries}
        PROVE  Renewed(a, s)
    <3>1. PICK b \in AccessScopes, t \in Scopes :
              inner'.authorized = [authorized EXCEPT ![b] = Insert(@, t, clock)]
      BY <2>2 DEF GrantsOver
    <3>2. CASE a = b
      <4>1. new = Insert(authorized[a], t, clock)
        BY <3>1, <3>2, <2>2 DEF AuthCaches
      <4>2. authorized[a] \in {old, NoEntries[a]}
        BY <2>2
      <4> QED
        BY <2>1, <4>1, <4>2
    <3>3. CASE a # b
      <4>1. new = authorized[a]
        BY <3>1, <3>3, <2>2 DEF AuthCaches
      <4>2. new = old
        BY <2>2, <4>1, NoEntriesEmpty
      <4> QED
        BY <1>0, <4>2
    <3> QED
      BY <3>2, <3>3
  <2> QED
    BY <1>i, <1>5, <2>2, NoEntriesType DEF Grants
<1> QED
  BY <1>1, <1>2, <1>3, <1>4, <1>5
     DEF CachesChange, KeepsBoth, DropsAuthorizations, DropsBoth, LooksUpDenial, Denies

(***************************************************************************)
(* Only entering the password renews an authorization.                     *)
(***************************************************************************)
THEOREM UnlocksRenew == Spec => OnlyUnlocksRenew
<1>1. ASSUME TypeOK, [Next]_vars
      PROVE  [\A a \in AccessScopes : \A s \in DOMAIN inner'.authorized[a] :
                 \/ /\ s \in DOMAIN inner.authorized[a]
                    /\ inner'.authorized[a][s].at = inner.authorized[a][s].at
                 \/ \E c \in Clients :
                        /\ client[c].pc \in {"commit", "install"}
                        /\ client'[c].pc = "idle"
                        /\ inner'.authorized[a][s].at = clock]_vars
  <2>1. CachesChange
    BY <1>1, CachesChangeStep
  <2> QED
    BY <1>1, <2>1, RenewalStep DEF Renewed
<1> QED
  BY <1>1, TypeCorrect, PTL DEF Spec, OnlyUnlocksRenew

-----------------------------------------------------------------------------
(* The caches stay in order *)

LEMMA NoEntriesInOrder == \A a \in AccessScopes : InOrder(NoEntries[a])
BY EmptyInOrder DEF NoEntries

(***************************************************************************)
(* Every shape in which the caches change keeps them in order: a scope      *)
(* used later stands behind.                                                *)
(***************************************************************************)
LEMMA CachesInOrderStep ==
    ASSUME TypeOK, CachesInOrder, CachesChange
    PROVE  CachesInOrder'
<1>i. /\ inner.authorized \in AuthCaches /\ inner.denied \in AuthCaches
      /\ clock \in Instants /\ \A c \in Clients : client[c].now \in Instants
      /\ IsFiniteSet(Scopes)
  BY ScopesFinite DEF TypeOK, InnerRecords, ClientRecords
<1> DEFINE Ordered(f) == \A a \in AccessScopes : InOrder(f[a])
<1>o. Ordered(inner.authorized) /\ Ordered(inner.denied) /\ Ordered(NoEntries)
  BY NoEntriesInOrder DEF CachesInOrder
<1>s. SUFFICES Ordered(inner'.authorized) /\ Ordered(inner'.denied)
  BY DEF CachesInOrder
<1>k. /\ KeepsAuthorizations => Ordered(inner'.authorized)
      /\ KeepsDenials => Ordered(inner'.denied)
      /\ inner'.authorized = NoEntries => Ordered(inner'.authorized)
      /\ inner'.denied = NoEntries => Ordered(inner'.denied)
  BY <1>o, Zenon DEF KeepsAuthorizations, KeepsDenials
<1>w. ASSUME NEW f \in AuthCaches, NEW b \in AccessScopes, NEW cache, InOrder(cache), Ordered(f),
             NEW g, g = [f EXCEPT ![b] = cache]
      PROVE  Ordered(g)
  BY <1>w DEF AuthCaches
<1>1. CASE Expires
  <2>1. ASSUME NEW a \in AccessScopes
        PROVE  InOrder(RetainUnexpired(inner.authorized[a], sweep.now, sweep.ttl[a]))
    BY <1>i, <1>o, PartInOrder DEF RetainUnexpired, AuthCaches
  <2>2. Ordered(inner'.authorized)
    BY <1>1, <2>1 DEF Expires
  <2> QED
    BY <1>1, <1>k, <2>2 DEF Expires
<1>2. ASSUME NEW c \in Clients, LooksUpDenial(c)
      PROVE  Ordered(inner'.authorized) /\ Ordered(inner'.denied)
  <2> DEFINE old == inner.denied[Access(c)]
             new == AfterContains(old, client[c].scope, client[c].now, inner.denialTtl)
  <2>1. InOrder(old) /\ old \in Caches(Scopes, Instants)
    BY <1>i, <1>o, <1>2 DEF LooksUpDenial, AuthCaches
  <2> HIDE DEF old
  <2>2. InOrder(new)
    BY <1>i, <2>1, AfterContainsInOrder
  <2>3. inner'.denied = [inner.denied EXCEPT ![Access(c)] = new]
    BY <1>2 DEF LooksUpDenial, old
  <2> HIDE DEF new
  <2>4. Ordered(inner'.denied)
    BY <1>i, <1>o, <1>w, <1>2, <2>2, <2>3 DEF LooksUpDenial
  <2> QED
    BY <1>2, <1>k, <2>4 DEF LooksUpDenial
<1>3. ASSUME NEW c \in Clients, LooksUpAuthorization(c)
      PROVE  Ordered(inner'.authorized) /\ Ordered(inner'.denied)
  <2> DEFINE old == inner.authorized[Access(c)]
             new == AfterContains(old, client[c].scope, client[c].now, client[c].ttl)
  <2>1. InOrder(old) /\ old \in Caches(Scopes, Instants)
    BY <1>i, <1>o, <1>3 DEF LooksUpAuthorization, AuthCaches
  <2> HIDE DEF old
  <2>2. InOrder(new)
    BY <1>i, <2>1, AfterContainsInOrder
  <2>3. inner'.authorized = [inner.authorized EXCEPT ![Access(c)] = new]
    BY <1>3 DEF LooksUpAuthorization, old
  <2> HIDE DEF new
  <2>4. Ordered(inner'.authorized)
    BY <1>i, <1>o, <1>w, <1>3, <2>2, <2>3 DEF LooksUpAuthorization
  <2> QED
    BY <1>3, <1>k, <2>4 DEF LooksUpAuthorization
<1>4. ASSUME NEW c \in Clients, Denies(c)
      PROVE  Ordered(inner'.authorized) /\ Ordered(inner'.denied)
  <2> DEFINE old == inner.denied[Access(c)]
             new == Insert(old, client[c].scope, client[c].now)
  <2>1. InOrder(old) /\ old \in Caches(Scopes, Instants)
    BY <1>i, <1>o, <1>4 DEF Denies, AuthCaches
  <2> HIDE DEF old
  <2>2. InOrder(new)
    BY <1>i, <1>4, <2>1, InsertInOrder DEF Denies
  <2>3. inner'.denied = [inner.denied EXCEPT ![Access(c)] = new]
    BY <1>4 DEF Denies, old
  <2> HIDE DEF new
  <2>4. Ordered(inner'.denied)
    BY <1>i, <1>o, <1>w, <1>4, <2>2, <2>3 DEF Denies
  <2> QED
    BY <1>4, <1>k, <2>4 DEF Denies
<1>5. ASSUME NEW authorized \in AuthCaches, NEW denied \in AuthCaches,
             Ordered(authorized), Ordered(denied), GrantsOver(authorized, denied)
      PROVE  Ordered(inner'.authorized) /\ Ordered(inner'.denied)
  <2>1. PICK a \in AccessScopes, s \in Scopes :
            /\ inner'.authorized = [authorized EXCEPT ![a] = Insert(@, s, clock)]
            /\ inner'.denied = [denied EXCEPT ![a] = Remove(@, s)]
    BY <1>5 DEF GrantsOver
  <2> DEFINE grown == Insert(authorized[a], s, clock)
             rest == Remove(denied[a], s)
  <2>2. /\ authorized[a] \in Caches(Scopes, Instants) /\ InOrder(authorized[a])
        /\ denied[a] \in Caches(Scopes, Instants) /\ InOrder(denied[a])
    BY <1>5 DEF AuthCaches
  <2>3. InOrder(grown)
    BY <1>i, <2>2, InsertInOrder
  <2>4. InOrder(rest)
    BY <1>i, <2>2, PartInOrder DEF Remove
  <2>5. /\ inner'.authorized = [authorized EXCEPT ![a] = grown]
        /\ inner'.denied = [denied EXCEPT ![a] = rest]
    BY <2>1
  <2> HIDE DEF grown, rest
  <2> QED
    BY <1>5, <1>w, <2>3, <2>4, <2>5
<1>6. ASSUME NEW c \in Clients, Grants(c)
      PROVE  Ordered(inner'.authorized) /\ Ordered(inner'.denied)
  <2> HIDE DEF Ordered
  <2> QED
    BY <1>i, <1>o, <1>5, <1>6, NoEntriesType DEF Grants
<1> HIDE DEF Ordered
<1> QED
  BY <1>k, <1>1, <1>2, <1>3, <1>4, <1>6
     DEF CachesChange, KeepsBoth, DropsAuthorizations, DropsBoth

-----------------------------------------------------------------------------
(* Denials stand *)

(***************************************************************************)
(* A request takes what the clock shows, or nothing.                       *)
(***************************************************************************)
LEMMA RequestNow ==
    ASSUME TypeOK, NEW c \in Clients, Request(c)
    PROVE  client'[c].now \in {0, client[c].now, clock}
<1>t. client \in [Clients -> ClientRecords] /\ RequestFits(c)
  BY DEF TypeOK
<1> DEFINE Fine == client'[c].now \in {0, client[c].now, clock}
<1>1. Reply(c) => Fine
  BY <1>t DEF Reply, Idle
<1>2. RefuseUnlock(c) => Fine
  BY <1>t, <1>1 DEF RefuseUnlock, Idle
<1>3. DenyAccess(c) => Fine
  BY <1>t, <1>1 DEF DenyAccess, Idle
<1>4. ASSUME NEW pc, Goto(c, pc)
      PROVE  Fine
  BY <1>t, <1>4 DEF Goto, ClientRecords
<1>5. CASE \E route \in Routes : Start(c, route)
  BY <1>t, <1>5 DEF Start, Idle
<1>6. CASE \/ GuiCheckDenials(c) \/ AuthorizeCheck(c)
  BY <1>t, <1>1, <1>3, <1>6 DEF GuiCheckDenials, AuthorizeCheck, ClientRecords
<1>7. CASE \/ GuiReadClock(c) \/ PromptDenied(c) \/ AuthorizeReadClock(c)
  BY <1>t, <1>1, <1>3, <1>4, <1>7 DEF GuiReadClock, PromptDenied, AuthorizeReadClock,
                                     ClientRecords
<1>8. CASE \/ UnlockVerified(c) \/ UnlockReadSettings(c) \/ OpenSucceeded(c) \/ OpenLoad(c)
  BY <1>t, <1>2, <1>8 DEF UnlockVerified, UnlockReadSettings, OpenSucceeded, OpenLoad,
                          ClientRecords
<1>9. CASE \/ AuthorizeStart(c) \/ AuthorizeReadTtl(c)
  BY <1>t, <1>1, <1>3, <1>4, <1>9 DEF AuthorizeStart, AuthorizeReadTtl, ClientRecords
<1>10. CASE WriteSetting(c)
  BY ZenonT(90), <1>t, <1>4, <1>10 DEF WriteSetting, ClientRecords
<1>11. ASSUME \/ RecordDenial(c) \/ UnlockWrongPassword(c) \/ UnlockCommit(c)
              \/ UnlockSuperseded(c) \/ OpenFailed(c) \/ OpenCommit(c) \/ Lock(c)
              \/ Respond(c) \/ Cancel(c) \/ PromptDismissed(c)
       PROVE  Fine
  <2> HIDE DEF Fine
  <2> QED
    BY <1>1, <1>2, <1>11 DEF RecordDenial, UnlockWrongPassword, UnlockCommit, UnlockSuperseded,
                             OpenFailed, OpenCommit, Lock, Respond, Cancel, PromptDismissed
<1>12. ASSUME \/ PromptAllowed(c) \/ OpenBegin(c) \/ BeginActiveRequest(c) \/ HandleRead(c)
              \/ PublishSetting(c) \/ RegisterJob(c) \/ CreateJob(c) \/ UndoJob(c)
       PROVE  Fine
  <2> HIDE DEF Fine
  <2> QED
    BY <1>4, <1>12 DEF PromptAllowed, OpenBegin, BeginActiveRequest, HandleRead, PublishSetting,
                       RegisterJob, CreateJob, UndoJob
<1> QED
  BY <1>5, <1>6, <1>7, <1>8, <1>9, <1>10, <1>11, <1>12 DEF Request, Advance

(***************************************************************************)
(* No step makes a request remember an instant the clock has not shown.     *)
(***************************************************************************)
LEMMA ClocksReadStep ==
    ASSUME TypeOK, ClocksRead, [Next]_vars
    PROVE  ClocksRead'
<1>t. /\ client \in [Clients -> ClientRecords] /\ clock \in Instants
      /\ clock \in Nat /\ \A d \in Clients : client[d].now \in Nat
  BY SessionAssumption DEF TypeOK, ClientRecords, Instants
<1>1. ASSUME NEW c \in Clients, Request(c)
      PROVE  ClocksRead'
  <2>1. clock' = clock /\ \A d \in Clients \ {c} : client'[d] = client[d]
    BY <1>t, <1>1, OthersUntouched, ForegroundFrame
  <2>2. client'[c].now \in {0, client[c].now, clock}
    BY <1>1, RequestNow
  <2> SUFFICES ASSUME NEW d \in Clients
               PROVE  client'[d].now <= clock'
    BY DEF ClocksRead
  <2>3. client[d].now <= clock /\ client[c].now <= clock /\ 0 <= clock
    BY <1>t DEF ClocksRead
  <2>4. client'[d].now \in {0, client[c].now, client[d].now, clock}
    BY <2>1, <2>2
  <2> QED
    BY <1>t, <2>1, <2>3, <2>4
<1>2. CASE Sweep \/ (\E task \in tasks : JobEnds(task)) \/ Tick \/ UNCHANGED vars
  <2>1. client' = client
    BY <1>2, BackgroundFrame
  <2>2. clock' = clock \/ Tick
    BY <1>2 DEF Sweep, SweepTick, SweepClockFailure, SweepStart, SweepReadSettings, SweepExpire,
                SweepCleanup, SweepUnload, JobEnds, vars
  <2> SUFFICES ASSUME NEW d \in Clients
               PROVE  client[d].now <= clock'
    BY <2>1 DEF ClocksRead
  <2>3. client[d].now <= clock
    BY DEF ClocksRead
  <2> QED
    BY <1>t, <2>2, <2>3 DEF Tick
<1> QED
  BY <1>1, <1>2 DEF Next

(***************************************************************************)
(* Why a denial may be gone.                                               *)
(***************************************************************************)
MayGo(a, s) ==
    \/ ~IsLive(inner.denied[a][s], clock, inner.denialTtl)
    \/ s \in DOMAIN inner'.authorized[a]
    \/ inner'.identType # inner.identType
    \/ /\ inner.denied[a][s].pos = 1
       /\ \E c \in Clients : At(c, "deny") /\ client'[c].pc = "idle"
    \/ \E c \in Clients :
           At(c, "denials") /\ client[c].now < inner.denied[a][s].at

(***************************************************************************)
(* Whatever the shape of a change of the caches, a denial goes only as      *)
(* MayGo says.                                                              *)
(***************************************************************************)
LEMMA DenialStep ==
    ASSUME TypeOK, CachesInOrder, ClocksRead, CachesChange
    PROVE  \A a \in AccessScopes :
               \A s \in DOMAIN inner.denied[a] \ DOMAIN inner'.denied[a] : MayGo(a, s)
<1> SUFFICES ASSUME NEW a \in AccessScopes,
                    NEW s \in DOMAIN inner.denied[a] \ DOMAIN inner'.denied[a]
             PROVE  MayGo(a, s)
  OBVIOUS
<1> DEFINE old == inner.denied[a]
           new == inner'.denied[a]
<1>i. /\ inner.denied \in AuthCaches /\ inner.authorized \in AuthCaches
      /\ clock \in Instants /\ inner.denialTtl \in Nat
      /\ \A c \in Clients : client[c].now \in Instants /\ client[c].now <= clock
      /\ IsFiniteSet(Scopes) /\ Instants \subseteq Nat
  BY ScopesFinite, SessionAssumption DEF TypeOK, InnerRecords, ClientRecords, Instants, ClocksRead
<1>o. /\ old \in Caches(Scopes, Instants) /\ InOrder(old)
      /\ \A t \in DOMAIN old : old[t].at \in Instants
  <2>1. old \in Caches(Scopes, Instants) /\ InOrder(old)
    BY <1>i DEF AuthCaches, CachesInOrder
  <2>2. old \in [DOMAIN old -> Entries(Scopes, Instants)]
    BY <1>i, <2>1, CacheIsFunction
  <2> QED
    BY <2>1, <2>2 DEF Entries
<1>1. CASE KeepsDenials
  BY <1>1 DEF KeepsDenials
<1>2. CASE DropsBoth
  BY <1>2 DEF DropsBoth, MayGo
<1>3. ASSUME NEW c \in Clients, LooksUpDenial(c)
      PROVE  MayGo(a, s)
  <2>1. a = Access(c)
    BY <1>i, <1>3 DEF LooksUpDenial, AuthCaches
  <2>2. new = AfterContains(old, client[c].scope, client[c].now, inner.denialTtl)
    BY <1>i, <1>3, <2>1 DEF LooksUpDenial, AuthCaches
  <2>3. DOMAIN new = Live(old, client[c].now, inner.denialTtl)
    BY <2>2, AfterContainsDomain
  <2>4. ~IsLive(old[s], client[c].now, inner.denialTtl)
    BY <2>3 DEF Live
  <2>5. CASE client[c].now < old[s].at
    BY <1>3, <2>5 DEF LooksUpDenial, MayGo
  <2>6. CASE ~(client[c].now < old[s].at)
    <3>1. ~IsLive(old[s], clock, inner.denialTtl)
      BY <1>i, <1>o, <2>4, <2>6 DEF IsLive
    <3> QED
      BY <3>1 DEF MayGo
  <2> QED
    BY <2>5, <2>6
<1>4. ASSUME NEW c \in Clients, Denies(c)
      PROVE  MayGo(a, s)
  <2>1. a = Access(c)
    BY <1>i, <1>4 DEF Denies, AuthCaches
  <2>2. new = Insert(old, client[c].scope, client[c].now)
    BY <1>i, <1>4, <2>1 DEF Denies, AuthCaches
  <2>3. \A t \in DOMAIN old \ DOMAIN new : old[t].pos = 1
    BY <1>i, <1>o, <1>4, <2>2, InsertInOrder DEF Denies
  <2> QED
    BY <1>4, <2>3 DEF Denies, MayGo
<1>5. ASSUME NEW c \in Clients, Grants(c), inner'.identType = inner.identType
      PROVE  MayGo(a, s)
  <2>1. PICK b \in AccessScopes, t \in Scopes :
            /\ inner'.authorized = [inner.authorized EXCEPT ![b] = Insert(@, t, clock)]
            /\ inner'.denied = [inner.denied EXCEPT ![b] = Remove(@, t)]
    BY <1>5 DEF Grants, GrantsOver
  <2>2. a = b
    BY <1>i, <2>1 DEF AuthCaches
  <2>3. new = Remove(old, t) /\ inner'.authorized[a] = Insert(inner.authorized[a], t, clock)
    BY <1>i, <2>1, <2>2 DEF AuthCaches
  <2>4. s = t
    BY ZenonT(90), <2>3, RemoveDomain
  <2>5. t \in DOMAIN Insert(inner.authorized[a], t, clock)
    <3>1. inner.authorized[a] \in Caches(Scopes, Instants) /\ InOrder(inner.authorized[a])
      BY <1>i DEF AuthCaches, CachesInOrder
    <3> QED
      BY <1>i, <3>1, InsertInOrder
  <2> QED
    BY <2>3, <2>4, <2>5 DEF MayGo
<1>6. CASE inner'.identType # inner.identType
  BY <1>6 DEF MayGo
<1> QED
  BY <1>1, <1>2, <1>3, <1>4, <1>5, <1>6
     DEF CachesChange, KeepsBoth, DropsAuthorizations, Expires, LooksUpAuthorization

(***************************************************************************)
(* The invariant behind it: caches in order, no instant from the future.   *)
(***************************************************************************)
CacheInv == TypeOK /\ CachesInOrder /\ ClocksRead

(***************************************************************************)
(* In every reachable state the scope caches are in order and no request    *)
(* remembers an instant the clock has not shown yet (state.rs 1046-1127):   *)
(* what DenialStands rests on.                                              *)
(***************************************************************************)
THEOREM CacheInvariant == Spec => []CacheInv
<1>1. Init => CachesInOrder /\ ClocksRead
  BY NoEntriesInOrder DEF Init, CachesInOrder, ClocksRead, Idle
<1>2. TypeOK /\ CachesInOrder /\ ClocksRead /\ [Next]_vars => CachesInOrder' /\ ClocksRead'
  BY CachesChangeStep, CachesInOrderStep, ClocksReadStep
<1>3. (CachesInOrder /\ ClocksRead) /\ TypeOK /\ [Next]_vars => (CachesInOrder /\ ClocksRead)'
  BY <1>2
<1> QED
  BY <1>1, <1>3, TypeCorrect, PTL DEF Spec, CacheInv

(***************************************************************************)
(* A denial stands until it expires, is lifted or is evicted.              *)
(***************************************************************************)
THEOREM DenialStands == Spec => DenialsStand
<1>1. ASSUME CacheInv, [Next]_vars
      PROVE  [\A a \in AccessScopes :
                 \A s \in DOMAIN inner.denied[a] \ DOMAIN inner'.denied[a] :
                    \/ ~IsLive(inner.denied[a][s], clock, inner.denialTtl)
                    \/ s \in DOMAIN inner'.authorized[a]
                    \/ inner'.identType # inner.identType
                    \/ /\ inner.denied[a][s].pos = 1
                       /\ \E c \in Clients : At(c, "deny") /\ client'[c].pc = "idle"
                    \/ \E c \in Clients :
                           At(c, "denials") /\ client[c].now < inner.denied[a][s].at]_vars
  <2>1. CachesChange
    BY <1>1, CachesChangeStep DEF CacheInv
  <2> QED
    BY <1>1, <2>1, DenialStep DEF MayGo, CacheInv
<1> QED
  BY <1>1, CacheInvariant, PTL DEF Spec, DenialsStand
-----------------------------------------------------------------------------
(* Work pins the vault *)

(***************************************************************************)
(* A step of a request that the session does not wait for: what it may do  *)
(* to the number of a job.                                                 *)
(***************************************************************************)
Numbers(c) ==
    /\ client'[c].kind = "job" =>
           \/ client'[c].id = requests /\ requests' = requests - 1 /\ ~CreateJob(c)
           \/ client[c].kind = "job" /\ client'[c].id = client[c].id /\ ~At(c, "respond")
    /\ client'[c].pc = "createJob" => RegisterJob(c)

(***************************************************************************)
(* A request gets its number when it arrives and keeps it to its response. *)
(***************************************************************************)
LEMMA RequestNumbers ==
    ASSUME TypeOK, NEW c \in Clients, Request(c)
    PROVE  Numbers(c)
<1>t. client \in [Clients -> ClientRecords] /\ RequestFits(c)
  BY DEF TypeOK
<1> DEFINE kept == client[c].kind = "job" /\ client'[c].id = client[c].id /\ ~At(c, "respond")
           Fine == /\ client'[c].kind = "job" => kept
                   /\ client'[c].pc # "createJob"
<1>0. Fine => Numbers(c)
  BY DEF Numbers
<1>1. Reply(c) => Fine
  BY <1>t DEF Reply, Idle
<1>2. RefuseUnlock(c) => Fine
  BY ZenonT(90), <1>t, <1>1 DEF RefuseUnlock, Idle
<1>3. DenyAccess(c) /\ ~At(c, "respond") => Fine
  BY ZenonT(90), <1>t, <1>1 DEF DenyAccess, Idle
<1>4. ASSUME NEW pc \in {"prompt", "unlock", "open", "readTtl", "handler", "undoJob", "respond"},
             Goto(c, pc), ~At(c, "respond")
      PROVE  Fine
  BY <1>t, <1>4 DEF Goto, ClientRecords
<1>5. CASE \E route \in Routes : Start(c, route)
  <2>1. PICK route \in Routes : Start(c, route)
    BY <1>5
  <2>2. client'[c].kind = "job" => client'[c].id = requests
    BY <1>t, <2>1 DEF Start, Idle
  <2>3. client'[c].pc # "createJob"
    BY <1>t, <2>1 DEF Start, Idle
  <2>4. requests' = requests - 1 /\ ~CreateJob(c)
    BY <2>1 DEF Start, CreateJob, At
  <2> QED
    BY <2>2, <2>3, <2>4 DEF Numbers
<1>6. ASSUME GuiCheckDenials(c) \/ AuthorizeCheck(c)
      PROVE  Fine
  BY <1>t, <1>1, <1>3, <1>6 DEF GuiCheckDenials, AuthorizeCheck, ClientRecords, At
<1>7. ASSUME \/ GuiReadClock(c) \/ PromptDenied(c) \/ AuthorizeReadClock(c)
      PROVE  Fine
  BY <1>t, <1>1, <1>3, <1>4, <1>7 DEF GuiReadClock, PromptDenied, AuthorizeReadClock,
                                     ClientRecords, At
<1>8. ASSUME \/ UnlockVerified(c) \/ UnlockReadSettings(c) \/ OpenSucceeded(c) \/ OpenLoad(c)
      PROVE  Fine
  BY <1>t, <1>2, <1>8 DEF UnlockVerified, UnlockReadSettings, OpenSucceeded, OpenLoad,
                          ClientRecords, At
<1>9. ASSUME \/ AuthorizeStart(c) \/ AuthorizeReadTtl(c)
      PROVE  Fine
  BY <1>t, <1>1, <1>3, <1>4, <1>9 DEF AuthorizeStart, AuthorizeReadTtl, ClientRecords, At
<1>10. ASSUME WriteSetting(c)
       PROVE  Fine
  <2>1. At(c, "handler")
    BY <1>10 DEF WriteSetting
  <2>2. CASE Goto(c, "respond")
    BY <1>4, <2>1, <2>2 DEF At
  <2>3. ASSUME NEW w, NEW pc \in {"publish", "respond"},
               client' = [client EXCEPT ![c].write = w, ![c].pc = pc]
        PROVE  Fine
    BY <1>t, <2>1, <2>3 DEF ClientRecords, At
  <2> HIDE DEF Fine
  <2> QED
    BY <1>10, <2>2, <2>3 DEF WriteSetting
<1>11. ASSUME \/ RecordDenial(c) \/ UnlockWrongPassword(c) \/ UnlockCommit(c)
              \/ UnlockSuperseded(c) \/ OpenFailed(c) \/ OpenCommit(c) \/ Lock(c)
              \/ Respond(c) \/ Cancel(c) \/ PromptDismissed(c)
       PROVE  Fine
  <2> HIDE DEF Fine
  <2> QED
    BY <1>1, <1>2, <1>11 DEF RecordDenial, UnlockWrongPassword, UnlockCommit, UnlockSuperseded,
                             OpenFailed, OpenCommit, Lock, Respond, Cancel, PromptDismissed
<1>12. ASSUME \/ PromptAllowed(c) \/ OpenBegin(c) \/ BeginActiveRequest(c) \/ HandleRead(c)
              \/ PublishSetting(c) \/ CreateJob(c) \/ UndoJob(c)
       PROVE  Fine
  <2> HIDE DEF Fine
  <2> QED
    BY <1>4, <1>12 DEF PromptAllowed, OpenBegin, BeginActiveRequest, HandleRead,
                       PublishSetting, CreateJob, UndoJob, At
<1>13. CASE RegisterJob(c)
  <2>1. Goto(c, "createJob") /\ At(c, "handler")
    BY <1>13 DEF RegisterJob
  <2>2. client'[c].kind = client[c].kind /\ client'[c].id = client[c].id
    BY <1>t, <2>1 DEF Goto, ClientRecords
  <2> QED
    BY <1>13, <2>1, <2>2 DEF Numbers, At
<1> HIDE DEF Fine
<1> QED
  BY <1>0, <1>5, <1>6, <1>7, <1>8, <1>9, <1>10, <1>11, <1>12, <1>13 DEF Request, Advance

(***************************************************************************)
(* Only the registration of a job and its end touch the active jobs.       *)
(***************************************************************************)
LEMMA RequestJobs ==
    ASSUME TypeOK, NEW c \in Clients, Request(c)
    PROVE  inner'.activeJobs = inner.activeJobs \/ RegisterJob(c) \/ UndoJob(c)
<1>i. inner \in InnerRecords
  BY DEF TypeOK
<1>1. CASE \/ GuiCheckDenials(c) \/ RecordDenial(c) \/ OpenFailed(c) \/ Lock(c)
           \/ AuthorizeCheck(c)
  BY <1>i, <1>1 DEF GuiCheckDenials, RecordDenial, OpenFailed, Lock, AuthorizeCheck,
                    InvalidateAuthEpoch, InnerRecords
<1>2. CASE UnlockCommit(c)
  BY <1>i, <1>2 DEF UnlockCommit, Authorize, InnerRecords
<1>3. CASE PublishSetting(c)
  BY <1>i, <1>3 DEF PublishSetting, SetProcessIdentificationType, InvalidateAuthEpoch,
                    InnerRecords
<1>4. CASE OpenCommit(c)
  BY <1>i, <1>4 DEF OpenCommit, Authorize, OpenInstalled, SetProcessIdentificationType,
                    InvalidateAuthEpoch, InnerRecords
<1>5. CASE inner' = inner
  BY <1>5
<1> QED
  BY <1>1, <1>2, <1>3, <1>4, <1>5, RequestFrame

(***************************************************************************)
(* The sweep unloads the vault and clears caches, but ends no job.         *)
(***************************************************************************)
LEMMA SweepJobs ==
    ASSUME TypeOK, Sweep
    PROVE  inner'.activeJobs = inner.activeJobs /\ tasks' = tasks
<1>i. inner \in InnerRecords
  BY DEF TypeOK
<1>t. tasks' = tasks
  BY DEF Sweep, SweepTick, SweepClockFailure, SweepStart, SweepReadSettings, SweepExpire,
         SweepCleanup, SweepUnload
<1>1. CASE SweepClockFailure
  BY <1>i, <1>1 DEF SweepClockFailure, UnloadLocked, InvalidateAuthEpoch, InnerRecords
<1>2. CASE SweepExpire
  BY <1>i, <1>2 DEF SweepExpire, InnerRecords
<1>3. CASE SweepUnload
  BY <1>i, <1>3 DEF SweepUnload, UnloadLocked, InvalidateAuthEpoch, InnerRecords
<1> QED
  BY <1>t, <1>1, <1>2, <1>3, SweepFrame

(***************************************************************************)
(* The verifier goes only with the vault.                                  *)
(***************************************************************************)
LEMMA VerifierStep ==
    ASSUME SafetyInv, [Next]_vars, inner.verifier, inner'.database # NoHandle
    PROVE  inner'.verifier
<1>i. inner \in InnerRecords
  BY DEF SafetyInv, TypeOK
<1>1. ASSUME NEW c \in Clients, Request(c)
      PROVE  inner'.verifier
  <2>1. CASE \/ GuiCheckDenials(c) \/ RecordDenial(c) \/ OpenFailed(c) \/ Lock(c)
             \/ AuthorizeCheck(c) \/ RegisterJob(c) \/ UndoJob(c)
    BY <1>i, <2>1 DEF GuiCheckDenials, RecordDenial, OpenFailed, Lock, AuthorizeCheck,
                      RegisterJob, UndoJob, InvalidateAuthEpoch, InnerRecords
  <2>2. CASE UnlockCommit(c)
    BY <1>i, <2>2 DEF UnlockCommit, Authorize, InnerRecords
  <2>3. CASE PublishSetting(c)
    BY <1>i, <2>3 DEF PublishSetting, SetProcessIdentificationType, InvalidateAuthEpoch,
                      InnerRecords
  <2>4. CASE OpenCommit(c)
    BY <2>4 DEF OpenCommit, SafetyInv, UnlocksUnderWay, Opening, At
  <2>5. CASE inner' = inner
    BY <2>5
  <2> QED
    BY <1>1, <2>1, <2>2, <2>3, <2>4, <2>5, RequestFrame
<1>2. CASE Sweep
  <2>1. CASE SweepClockFailure
    BY <1>i, <2>1 DEF SweepClockFailure, UnloadLocked, InvalidateAuthEpoch, InnerRecords
  <2>2. CASE SweepExpire
    BY <1>i, <2>2 DEF SweepExpire, InnerRecords
  <2>3. CASE SweepUnload
    BY <1>i, <2>3 DEF SweepUnload, UnloadLocked, InvalidateAuthEpoch, InnerRecords
  <2> QED
    BY <1>2, <2>1, <2>2, <2>3, SweepFrame
<1>3. CASE \E task \in tasks : JobEnds(task)
  BY <1>i, <1>3 DEF JobEnds, InnerRecords
<1>4. CASE Tick \/ UNCHANGED vars
  BY <1>4 DEF Tick, vars
<1> QED
  BY <1>1, <1>2, <1>3, <1>4 DEF Next

(***************************************************************************)
(* The numbers of the jobs stay distinct and their tasks active.           *)
(***************************************************************************)
LEMMA JobsNumberedStep ==
    ASSUME TypeOK, JobsNumbered, [Next]_vars
    PROVE  JobsNumbered'
<1>t. /\ client \in [Clients -> ClientRecords] /\ requests \in Nat
      /\ \A d \in Clients : client[d].id \in Nat
      /\ \A task \in tasks : task.id \in Nat
      /\ inner \in InnerRecords
  BY SessionAssumption DEF TypeOK, ClientRecords
<1>1. ASSUME NEW c \in Clients, Request(c)
      PROVE  JobsNumbered'
  <2>1. /\ \A d \in Clients \ {c} : client'[d] = client[d]
        /\ Numbers(c)
    BY <1>t, <1>1, OthersUntouched, RequestNumbers
  <2>2. /\ requests' \in Nat /\ requests' <= requests
        /\ tasks' = tasks \/ CreateJob(c)
        /\ inner'.activeJobs = inner.activeJobs \/ RegisterJob(c) \/ UndoJob(c)
    <3>1. /\ requests' \in {requests, requests - 1} /\ (requests' # requests => requests > 0)
          /\ tasks' = tasks \/ CreateJob(c)
      BY <1>1, ForegroundFrame
    <3>2. inner'.activeJobs = inner.activeJobs \/ RegisterJob(c) \/ UndoJob(c)
      BY <1>1, RequestJobs
    <3> QED
      BY <1>t, <3>1, <3>2
  <2>3. CASE CreateJob(c) /\ tasks' # tasks
    <3>1. /\ tasks' = tasks \cup {[id |-> client[c].id, db |-> client[c].db]}
          /\ inner' = inner /\ requests' = requests /\ At(c, "createJob") /\ Goto(c, "respond")
      BY <2>3 DEF CreateJob
    <3>2. client'[c].pc = "respond"
      BY <1>t, <3>1 DEF Goto, ClientRecords
    <3>3. client[c].kind = "job"
      BY <3>1 DEF TypeOK, RequestFits, At
    <3> DEFINE new == [id |-> client[c].id, db |-> client[c].db]
    <3>4. /\ new.id = client[c].id /\ tasks' = tasks \cup {new}
          /\ client[c].id > requests /\ client[c].id \in inner.activeJobs
          /\ \A task \in tasks : task.id # new.id
      BY <3>1, <3>3 DEF JobsNumbered, At
    <3> HIDE DEF new
    <3>5. \A d \in Clients : client'[d].kind = "job" =>
              client[d].kind = "job" /\ client'[d].id = client[d].id
      BY <1>t, <2>1, <2>3 DEF Numbers
    <3>6. \A d \in Clients : At(d, "createJob")' => d # c /\ At(d, "createJob")
      BY <2>1, <3>2 DEF At
    <3>7. \A task \in tasks' : task.id > requests' /\ task.id \in inner'.activeJobs
      BY <3>1, <3>4 DEF JobsNumbered
    <3>8. \A task \in tasks', other \in tasks' : task.id = other.id => task = other
      BY <3>4 DEF JobsNumbered
    <3>9. \A d \in Clients, task \in tasks' :
              client'[d].kind = "job" /\ client'[d].pc # "respond" => client'[d].id # task.id
      BY <2>1, <3>2, <3>3, <3>4, <3>5 DEF JobsNumbered
    <3> QED
      BY <2>1, <3>1, <3>5, <3>6, <3>7, <3>8, <3>9 DEF JobsNumbered, At
  <2>4. CASE RegisterJob(c)
    <3>1. /\ inner'.activeJobs = inner.activeJobs \cup {client[c].id}
          /\ tasks' = tasks /\ requests' = requests /\ client'[c].id = client[c].id
          /\ ~At(c, "respond") /\ client[c].kind = "job" /\ client'[c].pc = "createJob"
      BY <1>t, <2>4 DEF RegisterJob, Goto, ClientRecords, InnerRecords, At
    <3> QED
      BY <1>t, <2>1, <3>1 DEF JobsNumbered, Numbers, At
  <2>5. CASE UndoJob(c)
    <3>1. /\ inner'.activeJobs = inner.activeJobs \ {client[c].id}
          /\ tasks' = tasks /\ requests' = requests /\ client[c].kind = "job"
          /\ ~At(c, "respond") /\ client'[c].pc = "respond"
      BY <1>t, <2>5 DEF UndoJob, Goto, ClientRecords, InnerRecords, At, TypeOK, RequestFits
    <3>2. \A d \in Clients : client'[d].kind = "job" =>
              client[d].kind = "job" /\ client'[d].id = client[d].id
      BY <1>t, <2>1, <3>1 DEF Numbers
    <3>3. \A d \in Clients : At(d, "createJob")' =>
              d # c /\ At(d, "createJob") /\ client[d].kind = "job"
      BY <2>1, <3>1 DEF At, TypeOK, RequestFits
    <3>4. \A task \in tasks : task.id # client[c].id
      BY <3>1 DEF JobsNumbered, At
    <3>5. \A d \in Clients, task \in tasks' :
              client'[d].kind = "job" /\ client'[d].pc # "respond" => client'[d].id # task.id
      BY <2>1, <3>1, <3>2, <3>4 DEF JobsNumbered
    <3>6. \A d \in Clients : At(d, "createJob")' => client'[d].id \in inner'.activeJobs
      BY <2>1, <3>1, <3>3 DEF JobsNumbered, At
    <3> QED
      BY <3>1, <3>2, <3>4, <3>5, <3>6 DEF JobsNumbered
  <2>6. CASE tasks' = tasks /\ inner'.activeJobs = inner.activeJobs /\ ~RegisterJob(c)
    BY <1>t, <2>1, <2>2, <2>6 DEF JobsNumbered, Numbers, At
  <2> QED
    BY <2>2, <2>3, <2>4, <2>5, <2>6 DEF CreateJob, UndoJob, RegisterJob, At
<1>2. ASSUME NEW task \in tasks, JobEnds(task)
      PROVE  JobsNumbered'
  <2>1. /\ client' = client /\ requests' = requests /\ tasks' = tasks \ {task}
        /\ inner'.activeJobs = inner.activeJobs \ {task.id}
    BY <1>t, <1>2 DEF JobEnds, InnerRecords
  <2>2. \A c \in Clients : At(c, "createJob") => client[c].kind = "job"
    BY DEF TypeOK, RequestFits, At
  <2> QED
    BY <1>t, <2>1, <2>2 DEF JobsNumbered, At
<1>3. CASE Sweep \/ Tick \/ UNCHANGED vars
  <2>1. client' = client /\ requests' = requests
    BY <1>3, BackgroundFrame
  <2>2. tasks' = tasks /\ inner'.activeJobs = inner.activeJobs
    BY <1>3, SweepJobs DEF Tick, vars
  <2> QED
    BY <2>1, <2>2 DEF JobsNumbered, At
<1> QED
  BY <1>1, <1>2, <1>3 DEF Next

(***************************************************************************)
(* Somebody is authorized only while there is a verifier.                  *)
(***************************************************************************)
LEMMA AuthorizedVerifier ==
    ASSUME SafetyInv, NEW c \in Clients, At(c, "check"), Authorized(c)
    PROVE  inner.verifier
<1>1. Access(c) \in AccessScopes
  <2>1. client[c].tries \in Seq(AccessScopes) /\ client[c].tries # <<>>
    BY DEF SafetyInv, TypeOK, RequestFits, ClientRecords, At
  <2> QED
    BY <2>1 DEF Access
<1>2. DOMAIN inner.authorized[Access(c)] # {}
  BY DEF Authorized, Contains, Live
<1> QED
  BY <1>1, <1>2 DEF SafetyInv, Sound, NoneAuthorized

(***************************************************************************)
(* A client that is served keeps its handle, and one that becomes served   *)
(* was authorized for the vault that is open.                              *)
(***************************************************************************)
LEMMA ServedBy ==
    ASSUME SafetyInv, InnerGoesOn, NEW c \in Clients, Request(c), Serving(c)'
    PROVE  \/ Serving(c) /\ client'[c].db = client[c].db
           \/ MutexFree /\ inner.verifier /\ client'[c].db = inner.database
<1>t. client \in [Clients -> ClientRecords] /\ RequestFits(c) /\ TypeOK
  BY DEF SafetyInv, TypeOK
<1>1. CASE AuthorizeCheck(c)
  <2>1. ~DenyAccess(c)
    <3>1. DenyAccess(c) => Ended(c)
      BY <1>t, <1>1, DenyAccessEnds DEF AuthorizeCheck, At
    <3> QED
      BY <3>1 DEF Ended, Serving, HoldsGuard, At
  <2>2. MutexFree /\ inner.verifier
    BY <1>1, <2>1, AuthorizedVerifier DEF AuthorizeCheck
  <2>3. client'[c].db = inner.database
    BY SMTT(60), <1>t, <1>1, <2>1 DEF AuthorizeCheck, ClientRecords
  <2> QED
    BY <2>2, <2>3
<1>2. CASE ~AuthorizeCheck(c)
  <2>1. Serving(c)
    BY <1>t, <1>2, ServingFrame
  <2>2. ~Ended(c)
    BY DEF Ended, Serving, HoldsGuard, At
  <2>3. CASE \/ RecordDenial(c) \/ UnlockWrongPassword(c) \/ UnlockCommit(c)
             \/ UnlockSuperseded(c) \/ OpenFailed(c) \/ OpenCommit(c) \/ Lock(c)
             \/ Respond(c) \/ Cancel(c) \/ PromptDismissed(c)
    BY <1>t, <2>2, <2>3, EndingSteps
  <2>4. CASE \/ PromptAllowed(c) \/ OpenBegin(c) \/ BeginActiveRequest(c) \/ HandleRead(c)
             \/ PublishSetting(c) \/ RegisterJob(c) \/ CreateJob(c) \/ UndoJob(c)
    <3>1. \E pc : Goto(c, pc)
      BY <1>t, <2>4, GotoSteps
    <3> QED
      BY <1>t, <2>1, <3>1 DEF Goto, ClientRecords
  <2>5. CASE WriteSetting(c)
    BY ZenonT(90), <1>t, <2>1, <2>5 DEF WriteSetting, Goto, ClientRecords
  <2> QED
    BY <1>2, <2>1, <2>3, <2>4, <2>5
       DEF Request, Advance, Start, GuiReadClock, GuiCheckDenials, PromptDenied,
           UnlockVerified, UnlockReadSettings, OpenSucceeded, OpenLoad, AuthorizeStart,
           AuthorizeReadTtl, AuthorizeReadClock, Serving, HoldsGuard, At
<1> QED
  BY <1>1, <1>2

(***************************************************************************)
(* Every task was created by a client that was served.                     *)
(***************************************************************************)
LEMMA TaskOf ==
    ASSUME [Next]_vars
    PROVE  \A task \in tasks' \ tasks :
               \E c \in Clients : Serving(c) /\ task.db = client[c].db
<1>1. ASSUME NEW c \in Clients, Request(c)
      PROVE  \A task \in tasks' \ tasks : Serving(c) /\ task.db = client[c].db
  <2>1. CASE tasks' = tasks
    BY <2>1
  <2>2. CASE CreateJob(c)
    BY <2>2 DEF CreateJob, Serving, HoldsGuard, At
  <2> QED
    BY <1>1, <2>1, <2>2, ForegroundFrame
<1>2. CASE Sweep \/ (\E task \in tasks : JobEnds(task)) \/ Tick \/ UNCHANGED vars
  BY <1>2 DEF Sweep, SweepTick, SweepClockFailure, SweepStart, SweepReadSettings,
              SweepExpire, SweepCleanup, SweepUnload, JobEnds, Tick, vars
<1> QED
  BY <1>1, <1>2 DEF Next

(***************************************************************************)
(* The step of a client leaves the others served as they were.             *)
(***************************************************************************)
LEMMA ServedStep ==
    ASSUME SafetyInv, InnerGoesOn, [Next]_vars, NEW d \in Clients, Serving(d)'
    PROVE  \/ Serving(d) /\ client'[d].db = client[d].db
           \/ MutexFree /\ inner.verifier /\ client'[d].db = inner.database
<1>t. client \in [Clients -> ClientRecords]
  BY DEF SafetyInv, TypeOK
<1>1. CASE Request(d)
  BY <1>1, ServedBy
<1>2. CASE client'[d] = client[d]
  BY <1>2 DEF Serving, HoldsGuard, At
<1>3. client' = client \/ \E c \in Clients : Request(c)
  BY BackgroundFrame DEF Next
<1> QED
  BY <1>t, <1>1, <1>2, <1>3, OthersUntouched

(***************************************************************************)
(* Whoever works on the open vault has its verifier.                       *)
(***************************************************************************)
LEMMA WorkHasVerifierStep ==
    ASSUME SafetyInv, SafetyInv', WorkHasVerifier, OpenedIsNew, [Next]_vars
    PROVE  WorkHasVerifier'
<1>t. /\ TypeOK /\ InnerGoesOn
      /\ inner.database \in Nat /\ \A c \in Clients : client[c].db \in Nat
  BY InnerStep DEF SafetyInv, TypeOK, InnerRecords, ClientRecords
<1>n. /\ \A c \in Clients : Serving(c)' => client'[c].db # NoHandle
      /\ \A task \in tasks' : task.db # NoHandle
  BY DEF SafetyInv, TypeOK, RequestFits, NothingFromTheFuture, NoHandle
<1>1. CASE inner'.database = inner.database
  <2>1. ASSUME NEW c \in Clients, Serving(c)', client'[c].db = inner'.database
        PROVE  inner'.verifier
    <3>1. inner.verifier
      BY <1>1, <1>t, <2>1, ServedStep DEF WorkHasVerifier
    <3> QED
      BY <1>n, <2>1, <3>1, VerifierStep
  <2>2. ASSUME NEW task \in tasks', task.db = inner'.database
        PROVE  inner'.verifier
    <3>1. inner.verifier
      BY <1>1, <2>2, TaskOf DEF WorkHasVerifier
    <3> QED
      BY <1>n, <2>2, <3>1, VerifierStep
  <2> QED
    BY <2>1, <2>2 DEF WorkHasVerifier
<1>2. CASE inner'.database = NoHandle
  BY <1>n, <1>2 DEF WorkHasVerifier
<1>3. ASSUME NEW o \in Clients, OpenCommit(o), inner'.database = client[o].db
      PROVE  WorkHasVerifier'
  <2>1. At(o, "install") /\ ~MutexFree
    BY <1>3, <1>t, SessionAssumption DEF OpenCommit, TypeOK, OpenerHoldsMutex, Opening, MutexFree, At
  <2>2. \A c \in Clients : Serving(c)' => client'[c].db # inner'.database
    BY <1>t, <1>3, <2>1, ServedStep DEF OpenedIsNew, At
  <2>3. tasks' = tasks
    BY <1>3 DEF OpenCommit
  <2>4. \A task \in tasks' : task.db # inner'.database
    <3>1. \A task \in tasks : task.db \in Nat
      BY <1>t DEF TypeOK
    <3> QED
      BY <1>t, <1>3, <2>1, <2>3, <3>1 DEF OpenedIsNew, At
  <2> QED
    BY <2>2, <2>4 DEF WorkHasVerifier
<1> QED
  BY <1>t, <1>1, <1>2, <1>3, DatabaseStep

(***************************************************************************)
(* How a request comes to hold a vault it has opened.                      *)
(***************************************************************************)
LEMMA OpenedBy ==
    ASSUME TypeOK, InnerGoesOn, NEW c \in Clients, Request(c),
           client'[c].pc \in {"load", "install"}
    PROVE  \/ OpenSucceeded(c) /\ client'[c].db = handles + 1
           \/ OpenLoad(c) /\ At(c, "load") /\ client'[c].db = client[c].db
<1>t. client \in [Clients -> ClientRecords] /\ RequestFits(c)
  BY DEF TypeOK
<1>0. ~Ended(c)
  BY DEF Ended
<1>1. ~\E route \in Routes : Start(c, route)
  BY StartReaches DEF Reaches
<1>2. /\ ~RecordDenial(c) /\ ~UnlockWrongPassword(c) /\ ~UnlockCommit(c)
      /\ ~UnlockSuperseded(c) /\ ~OpenFailed(c) /\ ~OpenCommit(c) /\ ~Lock(c)
      /\ ~Respond(c) /\ ~Cancel(c) /\ ~PromptDismissed(c)
  BY <1>0, <1>t, EndingSteps
<1>3. /\ ~PromptAllowed(c) /\ ~OpenBegin(c) /\ ~BeginActiveRequest(c) /\ ~HandleRead(c)
      /\ ~PublishSetting(c) /\ ~RegisterJob(c) /\ ~CreateJob(c) /\ ~UndoJob(c)
  <2>1. ASSUME NEW pc \in {"unlock", "open", "handler", "respond", "createJob", "undoJob"},
               Goto(c, pc)
        PROVE  FALSE
    BY <1>t, <2>1 DEF Goto, ClientRecords
  <2> QED
    BY <1>t, <2>1, GotoSteps
<1>4. /\ ~GuiReadClock(c) /\ ~GuiCheckDenials(c) /\ ~PromptDenied(c)
      /\ ~UnlockVerified(c) /\ ~UnlockReadSettings(c)
      /\ ~AuthorizeStart(c) /\ ~AuthorizeReadTtl(c) /\ ~AuthorizeReadClock(c)
      /\ ~AuthorizeCheck(c) /\ ~WriteSetting(c)
  BY <1>0, GuiReadClockReaches, GuiCheckDenialsReaches, PromptDeniedReaches,
     UnlockVerifiedReaches, UnlockReadSettingsReaches, AuthorizeStartReaches,
     AuthorizeReadTtlReaches, AuthorizeReadClockReaches, AuthorizeCheckReaches,
     WriteSettingReaches DEF Reaches
<1>5. OpenSucceeded(c) \/ OpenLoad(c)
  BY <1>1, <1>2, <1>3, <1>4 DEF Request, Advance
<1>6. ASSUME OpenSucceeded(c)
      PROVE  client'[c].db = handles + 1
  BY <1>t, <1>6 DEF OpenSucceeded, ClientRecords
<1>7. ASSUME OpenLoad(c)
      PROVE  At(c, "load") /\ client'[c].db = client[c].db
  <2>1. At(c, "load")
    BY <1>7 DEF OpenLoad
  <2>2. ~RefuseUnlock(c)
    BY <1>0, <1>t, <2>1, RefuseUnlockEnds DEF At
  <2> QED
    BY <1>t, <1>7, <2>1, <2>2 DEF OpenLoad, ClientRecords
<1> QED
  BY <1>5, <1>6, <1>7

(***************************************************************************)
(* A vault that is being opened stays new: meanwhile the opener holds the  *)
(* mutex, so nobody is authorized and no other vault is installed.         *)
(***************************************************************************)
LEMMA OpenedIsNewStep ==
    ASSUME SafetyInv, OpenedIsNew, [Next]_vars
    PROVE  OpenedIsNew'
<1>t. /\ TypeOK /\ InnerGoesOn
      /\ client \in [Clients -> ClientRecords]
      /\ inner.database \in Nat /\ handles \in Nat /\ NoHandle = 0
      /\ \A d \in Clients : client[d].db \in Nat /\ client[d].db <= handles
      /\ inner.database <= handles
      /\ \A task \in tasks : task.db \in Nat /\ task.db <= handles
  <2>1. TypeOK /\ InnerGoesOn
    BY InnerStep DEF SafetyInv
  <2>2. /\ client \in [Clients -> ClientRecords] /\ NoHandle = 0
        /\ inner.database \in Nat /\ handles \in Nat /\ inner.database <= handles
    BY <2>1 DEF TypeOK, InnerRecords, NothingFromTheFuture, NoHandle
  <2>3. \A d \in Clients : client[d].db \in Nat /\ client[d].db <= handles
    BY <2>1 DEF TypeOK, ClientRecords, KnowsNoFuture
  <2>4. \A task \in tasks : task.db \in Nat /\ task.db <= handles
    BY <2>1, <2>2 DEF TypeOK, NothingFromTheFuture
  <2> QED
    BY <2>1, <2>2, <2>3, <2>4
<1> SUFFICES ASSUME NEW c \in Clients, client'[c].pc \in {"load", "install"}
             PROVE  /\ inner'.database < client'[c].db
                    /\ \A d \in Clients : Serving(d)' => client'[d].db < client'[c].db
                    /\ \A task \in tasks' : task.db < client'[c].db
  BY DEF OpenedIsNew
<1>1. ASSUME client[c].pc \in {"load", "install"}, client'[c].db = client[c].db,
             ~OpenCommit(c)
      PROVE  /\ inner'.database < client'[c].db
             /\ \A d \in Clients : Serving(d)' => client'[d].db < client'[c].db
             /\ \A task \in tasks' : task.db < client'[c].db
  <2>1. holder = c /\ ~MutexFree /\ client[c].db # NoHandle
    BY <1>1, <1>t, SessionAssumption
       DEF TypeOK, OpenerHoldsMutex, Opening, MutexFree, RequestFits
  <2>2. ~\E d \in Clients : OpenCommit(d)
    BY <1>1, <1>t, <2>1 DEF OpenCommit, TypeOK, OpenerHoldsMutex, Opening, At
  <2>3. inner'.database \in {inner.database, NoHandle}
    BY <1>t, <2>2, DatabaseStep
  <2>4. inner'.database < client'[c].db
    BY <1>1, <1>t, <2>1, <2>3 DEF OpenedIsNew
  <2>5. \A d \in Clients : Serving(d)' => client'[d].db < client'[c].db
    BY <1>1, <1>t, <2>1, ServedStep DEF OpenedIsNew
  <2>6. \A task \in tasks' : task.db < client'[c].db
    BY <1>1, <1>t, TaskOf DEF OpenedIsNew
  <2> QED
    BY <2>4, <2>5, <2>6
<1>2. ASSUME OpenSucceeded(c), client'[c].db = handles + 1
      PROVE  /\ inner'.database < client'[c].db
             /\ \A d \in Clients : Serving(d)' => client'[d].db < client'[c].db
             /\ \A task \in tasks' : task.db < client'[c].db
  <2>1. inner' = inner /\ tasks' = tasks /\ Request(c)
    BY <1>2 DEF OpenSucceeded, Request, Advance
  <2>2. ~Serving(c)'
    BY DEF Serving, HoldsGuard, At
  <2>3. \A d \in Clients \ {c} : client'[d] = client[d]
    BY <1>t, <2>1, OthersUntouched
  <2> QED
    BY <1>t, <1>2, <2>1, <2>2, <2>3
<1>3. CASE Request(c)
  <2>1. CASE OpenSucceeded(c) /\ client'[c].db = handles + 1
    BY <1>2, <2>1
  <2>2. CASE OpenLoad(c) /\ At(c, "load") /\ client'[c].db = client[c].db
    BY <1>1, <2>2 DEF OpenCommit, At
  <2> QED
    BY <1>t, <1>3, <2>1, <2>2, OpenedBy
<1>4. CASE client'[c] = client[c] /\ ~Request(c)
  BY <1>1, <1>4 DEF Request, Advance
<1>5. client' = client \/ \E d \in Clients : Request(d)
  BY BackgroundFrame DEF Next
<1> QED
  BY <1>t, <1>3, <1>4, <1>5, OthersUntouched

(***************************************************************************)
(* The invariant behind it.  OpenedIsNew is what makes WorkHasVerifier     *)
(* inductive: an opening without a verifier must not install the vault of  *)
(* work under way.                                                         *)
(***************************************************************************)
WorkInv == SafetyInv /\ JobsNumbered /\ WorkHasVerifier /\ OpenedIsNew

(***************************************************************************)
(* In every reachable state a job's id is its own, whoever works on the     *)
(* open vault was let in under its verifier, and a vault being opened is    *)
(* new to everybody: what VaultPinned rests on.                             *)
(***************************************************************************)
THEOREM WorkInvariant == Spec => []WorkInv
<1>1. Init => JobsNumbered /\ WorkHasVerifier /\ OpenedIsNew
  BY DEF Init, Idle, JobsNumbered, WorkHasVerifier, OpenedIsNew, Serving, HoldsGuard, At
<1>2. SafetyInv /\ JobsNumbered /\ [Next]_vars => JobsNumbered'
  BY JobsNumberedStep DEF SafetyInv
<1>3. SafetyInv /\ SafetyInv' /\ WorkHasVerifier /\ OpenedIsNew /\ [Next]_vars
          => WorkHasVerifier' /\ OpenedIsNew'
  BY WorkHasVerifierStep, OpenedIsNewStep
<1> QED
  BY <1>1, <1>2, <1>3, Safety, PTL DEF Spec, WorkInv

(***************************************************************************)
(* An unload happens only while nobody works.                              *)
(***************************************************************************)
LEMMA UnloadStep ==
    ASSUME SafetyInv, [Next]_vars, inner'.database # inner.database
    PROVE  \/ ~HasActiveWork
           \/ \E c \in Clients : OpenCommit(c)
<1>i. TypeOK /\ inner \in InnerRecords
  BY DEF SafetyInv, TypeOK
<1>1. ASSUME NEW c \in Clients, Request(c)
      PROVE  OpenCommit(c)
  <2>1. CASE \/ GuiCheckDenials(c) \/ RecordDenial(c) \/ OpenFailed(c) \/ Lock(c)
             \/ AuthorizeCheck(c) \/ RegisterJob(c) \/ UndoJob(c)
    BY <1>i, <2>1 DEF GuiCheckDenials, RecordDenial, OpenFailed, Lock, AuthorizeCheck,
                      RegisterJob, UndoJob, InvalidateAuthEpoch, InnerRecords
  <2>2. CASE UnlockCommit(c)
    BY <1>i, <2>2 DEF UnlockCommit, Authorize, InnerRecords
  <2>3. CASE PublishSetting(c)
    BY <1>i, <2>3 DEF PublishSetting, SetProcessIdentificationType, InvalidateAuthEpoch,
                      InnerRecords
  <2> QED
    BY <1>1, <2>1, <2>2, <2>3, RequestFrame
<1>2. CASE Sweep
  <2>1. CASE SweepClockFailure
    BY <1>i, <2>1 DEF SweepClockFailure, InvalidateAuthEpoch, InnerRecords
  <2>2. CASE SweepExpire
    BY <1>i, <2>2 DEF SweepExpire, InnerRecords
  <2>3. CASE SweepUnload
    BY <1>i, <2>3 DEF SweepUnload, InnerRecords
  <2> QED
    BY <1>2, <2>1, <2>2, <2>3, SweepFrame
<1>3. CASE \E task \in tasks : JobEnds(task)
  BY <1>i, <1>3 DEF JobEnds, InnerRecords
<1>4. CASE Tick \/ UNCHANGED vars
  BY <1>4 DEF Tick, vars
<1> QED
  BY <1>1, <1>2, <1>3, <1>4 DEF Next

(***************************************************************************)
(* Work in progress pins the vault: it is neither unloaded nor replaced    *)
(* under a request that holds its guard or a job that runs on it, for any  *)
(* number of clients and jobs and any interleaving.                        *)
(***************************************************************************)
THEOREM VaultPinned == Spec => WorkPinsVault
<1>1. ASSUME WorkInv, [Next]_vars
      PROVE  [inner'.database # inner.database =>
                 /\ \A c \in Clients : HoldsGuard(c) => client[c].db # inner.database
                 /\ \A task \in tasks : task.db # inner.database]_vars
  <2> SUFFICES ASSUME inner'.database # inner.database
               PROVE  /\ \A c \in Clients : HoldsGuard(c) => client[c].db # inner.database
                      /\ \A task \in tasks : task.db # inner.database
    OBVIOUS
  <2>t. SafetyInv /\ TypeOK
    BY <1>1 DEF WorkInv, SafetyInv
  <2>1. CASE ~HasActiveWork
    <3>1. inner.activeJobs = {} /\ ~(activeRequests > 0)
      BY <2>1 DEF HasActiveWork
    <3>2. tasks = {}
      BY <1>1, <3>1 DEF WorkInv, JobsNumbered
    <3>3. {c \in Clients : HoldsGuard(c)} = {}
      <4> DEFINE held == {c \in Clients : HoldsGuard(c)}
      <4>1. IsFiniteSet(held) /\ activeRequests = Cardinality(held)
        BY <2>t, SessionAssumption, FS_Subset DEF TypeOK, GuardsCounted
      <4> HIDE DEF held
      <4>2. Cardinality(held) \in Nat
        BY <4>1, FS_CardinalityType
      <4>3. Cardinality(held) = 0
        BY <3>1, <4>1, <4>2
      <4>4. held = {}
        BY <4>1, <4>3, FS_EmptySet
      <4> QED
        BY <4>4 DEF held
    <3> QED
      BY <3>2, <3>3
  <2>2. ASSUME NEW o \in Clients, OpenCommit(o)
        PROVE  /\ \A c \in Clients : HoldsGuard(c) => client[c].db # inner.database
               /\ \A task \in tasks : task.db # inner.database
    <3>1. ~inner.verifier
      BY <2>t, <2>2 DEF SafetyInv, UnlocksUnderWay, OpenCommit, Opening, At
    <3> QED
      BY <1>1, <3>1 DEF WorkInv, WorkHasVerifier, Serving
  <2> QED
    BY <1>1, <2>t, <2>1, <2>2, UnloadStep
<1> QED
  BY <1>1, WorkInvariant, PTL DEF Spec, WorkPinsVault
=============================================================================
