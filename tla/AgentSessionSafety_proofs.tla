---------------------- MODULE AgentSessionSafety_proofs ----------------------
(***************************************************************************)
(* The safety invariants of AgentSession: every authorization belongs to   *)
(* an open vault and to the process identification type in force, because  *)
(* the epoch an unlock remembers tells it of every renewal of the session. *)
(* And what AgentSession is to SessionPromise, under the refinement        *)
(* mapping that it states as its instance Promise.                         *)
(***************************************************************************)
EXTENDS AgentSession_proofs

-----------------------------------------------------------------------------
(* The invariants of an inner state *)

(***************************************************************************)
(* The scope hashes of the clients under type t.                           *)
(***************************************************************************)
Hashes(t) == {ScopeOf[c][t] : c \in Clients}

(***************************************************************************)
(* No scope is authorized in i.                                            *)
(***************************************************************************)
NoneAuthorized(i) == \A a \in AccessScopes : DOMAIN i.authorized[a] = {}

(***************************************************************************)
(* What AuthorizedVaultIsOpen and AuthorizedUnderCurrentType say, of any   *)
(* inner state: the code passes through inner states that nobody else      *)
(* sees.                                                                   *)
(***************************************************************************)
Sound(i) ==
    /\ NoneAuthorized(i) \/ (i.verifier /\ i.expiryRecorded)
    /\ i.verifier => i.database # NoHandle
    /\ \A a \in AccessScopes : DOMAIN i.authorized[a] \subseteq Hashes(i.identType)

(***************************************************************************)
(* From i to j the session is not renewed.                                 *)
(***************************************************************************)
SameSession(i, j) ==
    /\ j.epoch = i.epoch /\ j.database = i.database
    /\ j.verifier = i.verifier /\ j.identType = i.identType

(***************************************************************************)
(* What an unlock relies on: a change of the session shows in its epoch.   *)
(***************************************************************************)
Succeeds(i, j) == j.epoch > i.epoch \/ SameSession(i, j)

(***************************************************************************)
(* Sound is the two invariants together.                                   *)
(***************************************************************************)
LEMMA SoundIff == Sound(inner) <=> AuthorizedVaultIsOpen /\ AuthorizedUnderCurrentType
BY DEF Sound, NoneAuthorized, Hashes, AuthorizedVaultIsOpen, AuthorizedUnderCurrentType, CachesEmpty

(***************************************************************************)
(* A lookup adds no scope.                                                 *)
(***************************************************************************)
LEMMA AfterContainsShrinks ==
    ASSUME NEW cache, NEW scope, NEW now, NEW ttl
    PROVE  DOMAIN AfterContains(cache, scope, now, ttl) \subseteq DOMAIN cache
<1>1. DOMAIN AfterContains(cache, scope, now, ttl) = Live(cache, now, ttl)
  BY AfterContainsDomain
<1> QED
  BY <1>1 DEF Live

(***************************************************************************)
(* Nor does retain_unexpired.                                              *)
(***************************************************************************)
LEMMA RetainShrinks ==
    ASSUME NEW cache, NEW now, NEW ttl
    PROVE  DOMAIN RetainUnexpired(cache, now, ttl) \subseteq DOMAIN cache
<1>1. DOMAIN RetainUnexpired(cache, now, ttl) = Live(cache, now, ttl)
  BY RetainUnexpiredDomain
<1> QED
  BY <1>1 DEF Live

(***************************************************************************)
(* An inner state whose caches were replaced by empty ones authorizes      *)
(* nobody.                                                                 *)
(***************************************************************************)
LEMMA NoEntriesNone == \A i : i.authorized = NoEntries => NoneAuthorized(i)
BY NoEntriesEmpty DEF NoneAuthorized

-----------------------------------------------------------------------------
(* What the operations on the inner state owe *)

(***************************************************************************)
(* invalidate_auth_epoch disturbs neither invariant.                       *)
(***************************************************************************)
LEMMA InvalidateAuthEpochSound ==
    ASSUME NEW i \in InnerRecords, Sound(i)
    PROVE  Sound(InvalidateAuthEpoch(i))
BY DEF Sound, NoneAuthorized, InvalidateAuthEpoch, InnerRecords

(***************************************************************************)
(* It touches nothing but the epoch.                                       *)
(***************************************************************************)
LEMMA InvalidateAuthEpochFields ==
    ASSUME NEW i \in InnerRecords
    PROVE  /\ InvalidateAuthEpoch(i).verifier = i.verifier
           /\ InvalidateAuthEpoch(i).identType = i.identType
           /\ InvalidateAuthEpoch(i).authorized = i.authorized
BY DEF InvalidateAuthEpoch, InnerRecords

(***************************************************************************)
(* set_process_identification_type installs the type and keeps the         *)
(* verifier.                                                               *)
(***************************************************************************)
LEMMA SetTypeFields ==
    ASSUME NEW i \in InnerRecords, NEW t \in IdentTypes
    PROVE  /\ SetProcessIdentificationType(i, t).verifier = i.verifier
           /\ SetProcessIdentificationType(i, t).identType = t
BY DEF SetProcessIdentificationType, InvalidateAuthEpoch, InnerRecords

(***************************************************************************)
(* It does nothing, or clears the caches under a new epoch.                *)
(***************************************************************************)
LEMMA SetTypeCases ==
    ASSUME NEW i \in InnerRecords, NEW t \in IdentTypes
    PROVE  \/ SetProcessIdentificationType(i, t) = i
           \/ /\ SetProcessIdentificationType(i, t).authorized = NoEntries
              /\ SetProcessIdentificationType(i, t).epoch > i.epoch
BY DEF SetProcessIdentificationType, InvalidateAuthEpoch, InnerRecords

(***************************************************************************)
(* So no authorization of the former type is left behind.                  *)
(***************************************************************************)
LEMMA SetTypeSound ==
    ASSUME NEW i \in InnerRecords, NEW t \in IdentTypes, Sound(i)
    PROVE  Sound(SetProcessIdentificationType(i, t))
<1> DEFINE j == SetProcessIdentificationType(i, t)
<1>1. j.verifier = i.verifier /\ j.database = i.database
  BY SetTypeFields, SetProcessIdentificationTypeType
<1>2. j = i \/ j.authorized = NoEntries
  BY SetTypeCases
<1> HIDE DEF j
<1>3. ASSUME j.authorized = NoEntries
      PROVE  Sound(j)
  BY <1>1, <1>3, NoEntriesEmpty DEF Sound, NoneAuthorized
<1> QED
  BY <1>2, <1>3 DEF j

(***************************************************************************)
(* The session an opening installs is sound before its verifier and its    *)
(* first authorization are there, and is without a verifier when nothing   *)
(* was before it: a database that stays installed without one authorizes   *)
(* nobody.                                                                 *)
(***************************************************************************)
LEMMA OpenInstalledSound ==
    ASSUME NEW i \in InnerRecords, NEW c \in Clients, Sound(i), ~i.verifier,
           client[c].type \in IdentTypes, client[c].db \in Nat
    PROVE  /\ Sound(OpenInstalled(i, c)) 
           /\ NoneAuthorized(OpenInstalled(i, c))
           /\ OpenInstalled(i, c).verifier = FALSE
           /\ OpenInstalled(i, c).identType = client[c].type
<1> DEFINE j == InvalidateAuthEpoch(i)
           k == SetProcessIdentificationType(j, client[c].type)
<1>1. j \in InnerRecords /\ Sound(j) /\ j.verifier = i.verifier
  BY InvalidateAuthEpochType, InvalidateAuthEpochSound, InvalidateAuthEpochFields
<1> HIDE DEF j
<1>2. k \in InnerRecords /\ Sound(k) /\ k.verifier = i.verifier /\ k.identType = client[c].type
  BY <1>1, SetProcessIdentificationTypeType, SetTypeSound, SetTypeFields
<1>3. OpenInstalled(i, c) = [k EXCEPT !.database = client[c].db]
  BY DEF OpenInstalled, j, k
<1> HIDE DEF k
<1>4. i.verifier = FALSE
  BY DEF InnerRecords
<1>5. NoneAuthorized(k)
  BY <1>2, <1>4 DEF Sound
<1> DEFINE l == OpenInstalled(i, c)
<1>6. l.authorized = k.authorized /\ l.verifier = FALSE /\ l.identType = client[c].type
  BY <1>2, <1>3, <1>4 DEF InnerRecords
<1> HIDE DEF l
<1> QED
  BY <1>5, <1>6, <1>2 DEF Sound, NoneAuthorized, l

(***************************************************************************)
(* Authorize keeps the invariants when the vault is open and the scope     *)
(* hash was taken under the type in force: what a commit must establish.   *)
(***************************************************************************)
LEMMA AuthorizeSound ==
    ASSUME NEW i \in InnerRecords, NEW a \in AccessScopes, NEW c \in Clients,
           NEW now \in Instants, Sound(i), i.verifier
    PROVE  Sound(Authorize(i, a, ScopeOf[c][i.identType], now))
<1> DEFINE s == ScopeOf[c][i.identType]
           j == Authorize(i, a, s, now)
           cache == Insert(i.authorized[a], s, now)
<1>1. s \in Hashes(i.identType) /\ s \in Scopes
  BY SessionAssumption DEF Hashes, InnerRecords
<1>2. i.authorized[a] \in Caches(Scopes, Instants)
  BY DEF InnerRecords, AuthCaches
<1> HIDE DEF s
<1>3. DOMAIN cache \subseteq DOMAIN i.authorized[a] \cup {s}
  BY <1>1, <1>2, ScopesFinite, InsertDomain
<1> HIDE DEF cache
<1>4. /\ j.authorized = [i.authorized EXCEPT ![a] = cache] /\ j.expiryRecorded = TRUE
      /\ j.verifier = i.verifier /\ j.database = i.database /\ j.identType = i.identType
  BY DEF Authorize, cache, InnerRecords
<1> HIDE DEF j
<1>5. i.authorized \in AuthCaches
  BY DEF InnerRecords
<1>6. \A b \in AccessScopes : DOMAIN j.authorized[b] \subseteq DOMAIN i.authorized[b] \cup {s}
  BY <1>3, <1>4, <1>5 DEF AuthCaches
<1> QED
  BY <1>1, <1>4, <1>6 DEF Sound, j, s

(***************************************************************************)
(* It does not renew the session.                                          *)
(***************************************************************************)
LEMMA AuthorizeSession ==
    ASSUME NEW i \in InnerRecords, NEW a, NEW s, NEW now
    PROVE  SameSession(i, Authorize(i, a, s, now))
BY DEF SameSession, Authorize, InnerRecords

(***************************************************************************)
(* unload_locked leaves nothing authorized, no verifier and a new epoch.   *)
(***************************************************************************)
LEMMA UnloadLockedSound ==
    ASSUME NEW i \in InnerRecords
    PROVE  Sound(UnloadLocked(i)) /\ UnloadLocked(i).epoch > i.epoch /\ ~UnloadLocked(i).verifier
<1> DEFINE j == UnloadLocked(i)
<1>1. j.verifier = FALSE /\ j.authorized = NoEntries /\ j.epoch = i.epoch + 1
  BY DEF UnloadLocked, InvalidateAuthEpoch, InnerRecords
<1> HIDE DEF j
<1>2. Sound(j)
  BY <1>1, NoEntriesEmpty DEF Sound, NoneAuthorized
<1> QED
  BY <1>1, <1>2 DEF j, InnerRecords

-----------------------------------------------------------------------------
(* What a step owes *)

(***************************************************************************)
(* What a step owes the inner state: it stays sound, a change of the       *)
(* session shows in the epoch, and a verifier appears only with the mutex  *)
(* given up, in a new session.                                             *)
(***************************************************************************)
InnerSucceeds ==
    /\ Sound(inner')
    /\ Succeeds(inner, inner')
    /\ inner'.verifier => inner.verifier \/ (holder' = Nobody /\ inner'.epoch > inner.epoch)

(***************************************************************************)
(* A step that leaves the inner state alone owes nothing.                  *)
(***************************************************************************)
LEMMA SameInner ==
    ASSUME inner' = inner, Sound(inner)
    PROVE  InnerSucceeds
BY DEF InnerSucceeds, Succeeds, SameSession

(***************************************************************************)
(* Nor does one that only drops authorizations.                            *)
(***************************************************************************)
LEMMA OnlyCaches ==
    ASSUME NEW i \in InnerRecords, NEW j, Sound(i), SameSession(i, j),
           j.expiryRecorded = i.expiryRecorded,
           \A a \in AccessScopes : DOMAIN j.authorized[a] \subseteq DOMAIN i.authorized[a]
    PROVE  Sound(j)
BY DEF Sound, NoneAuthorized, SameSession

(***************************************************************************)
(* Every step pays.  The commit of an unlock is the step that needs        *)
(* UnlocksUnderWay: it authorizes under the type it remembered, in a       *)
(* session it knows only by epoch and handle.                              *)
(***************************************************************************)
LEMMA InnerSucceedsStep ==
    ASSUME TypeOK, [Next]_vars, Sound(inner), UnlocksUnderWay
    PROVE  InnerSucceeds
<1> USE DEF InnerSucceeds, Succeeds
<1>i. inner \in InnerRecords /\ inner.authorized \in AuthCaches /\ inner.epoch \in Nat
      /\ clock \in Instants
  BY DEF TypeOK, InnerRecords
<1>0. CASE inner' = inner
  BY <1>0, SameInner
<1>1. ASSUME SameSession(inner, inner'), inner'.expiryRecorded = inner.expiryRecorded,
             inner'.authorized = inner.authorized
      PROVE  InnerSucceeds
  BY <1>i, <1>1, OnlyCaches DEF SameSession
<1>2. ASSUME NEW c \in Clients, Request(c)
      PROVE  InnerSucceeds
  <2>r. /\ client[c].type \in IdentTypes /\ client[c].db \in Nat
        /\ client[c].pc \notin {"idle", "lock"} => Access(c) \in AccessScopes
    BY SMTT(60) DEF TypeOK, ClientRecords, RequestFits, Access
  <2>1. CASE \/ GuiCheckDenials(c) \/ RecordDenial(c) \/ RegisterJob(c) \/ UndoJob(c)
    BY <1>i, <1>1, <2>1 DEF GuiCheckDenials, RecordDenial, RegisterJob, UndoJob,
                            SameSession, InnerRecords
  <2>2. CASE OpenFailed(c)
    BY <1>i, <1>1, <2>2 DEF OpenFailed, SameSession, InnerRecords
  <2>3. CASE AuthorizeCheck(c)
    <3> DEFINE cache == AfterContains(inner.authorized[Access(c)], client[c].scope,
                                      client[c].now, client[c].ttl)
    <3>1. Access(c) \in AccessScopes
      BY <2>3, <2>r DEF AuthorizeCheck, At
    <3>2. DOMAIN cache \subseteq DOMAIN inner.authorized[Access(c)]
      BY AfterContainsShrinks
    <3> HIDE DEF cache
    <3>3. ASSUME inner' = [inner EXCEPT !.authorized[Access(c)] = cache]
          PROVE  InnerSucceeds
      <4>1. /\ SameSession(inner, inner') /\ inner'.expiryRecorded = inner.expiryRecorded
            /\ inner'.authorized = [inner.authorized EXCEPT ![Access(c)] = cache]
        BY <1>i, <3>3 DEF SameSession, InnerRecords
      <4>2. \A a \in AccessScopes : DOMAIN inner'.authorized[a] \subseteq DOMAIN inner.authorized[a]
        BY <1>i, <3>1, <3>2, <4>1 DEF AuthCaches
      <4> QED
        BY <1>i, <4>1, <4>2, OnlyCaches DEF SameSession
    <3> QED
      BY <1>0, <2>3, <3>3 DEF AuthorizeCheck, cache
  <2>4. CASE UnlockCommit(c)
    <3> DEFINE i == [inner EXCEPT !.denialTtl = client[c].ttl]
    <3>1. i \in InnerRecords
      BY <1>i DEF TypeOK, ClientRecords, InnerRecords
    <3>2. /\ SameSession(inner, i) /\ i.authorized = inner.authorized
          /\ i.expiryRecorded = inner.expiryRecorded
      BY <1>i DEF SameSession, InnerRecords
    <3>3. inner.verifier /\ client[c].type = inner.identType /\ Access(c) \in AccessScopes
      BY <2>4, <2>r DEF UnlocksUnderWay, UnlockCommit, At
    <3>4. \/ inner' = inner
          \/ inner' = Authorize(i, Access(c), ScopeOf[c][client[c].type], clock)
      BY <2>4 DEF UnlockCommit
    <3> HIDE DEF i
    <3>5. Sound(i)
      BY <1>i, <3>2, OnlyCaches
    <3>6. i.verifier /\ i.identType = client[c].type
      BY <3>2, <3>3 DEF SameSession
    <3> DEFINE j == Authorize(i, Access(c), ScopeOf[c][client[c].type], clock)
    <3>7. Sound(j)
      BY <1>i, <3>1, <3>3, <3>5, <3>6, AuthorizeSound
    <3>8. SameSession(i, j)
      BY <3>1, AuthorizeSession
    <3> HIDE DEF j
    <3>9. SameSession(inner, j) /\ j.verifier = inner.verifier
      BY <3>2, <3>8 DEF SameSession
    <3> QED
      BY <1>0, <3>4, <3>7, <3>9 DEF j
  <2>5. CASE OpenCommit(c)
    <3> DEFINE i == OpenInstalled(inner, c)
               j == [i EXCEPT !.verifier = TRUE, !.denialTtl = client[c].ttl]
               k == Authorize(j, Access(c), ScopeOf[c][client[c].type], clock)
    <3>1. Opening(c) /\ client[c].pc = "install" /\ Access(c) \in AccessScopes
      BY <2>5, <2>r DEF OpenCommit, At, Opening
    <3>2. ~inner.verifier /\ client[c].db # NoHandle
      BY <3>1 DEF UnlocksUnderWay, TypeOK, RequestFits
    <3>3. /\ i \in InnerRecords /\ i.epoch > inner.epoch /\ i.database = client[c].db
      BY <1>i, <2>r, OpenInstalledType
    <3>4. /\ Sound(i) /\ NoneAuthorized(i) /\ i.verifier = FALSE
          /\ i.identType = client[c].type
      BY <1>i, <2>r, <3>2, OpenInstalledSound
    <3>5. inner' \in {inner, i, k} /\ holder' = Nobody
      BY <2>5 DEF OpenCommit
    <3> HIDE DEF i
    <3>6. client[c].ttl \in Nat
      BY DEF TypeOK, ClientRecords
    <3>7. /\ j.epoch = i.epoch /\ j.verifier = TRUE /\ j.database = i.database
          /\ j.authorized = i.authorized /\ j.identType = i.identType
      BY <3>3 DEF InnerRecords
    <3>8. j \in InnerRecords
      BY <3>3, <3>6, Zenon DEF InnerRecords
    <3> HIDE DEF j
    <3>9. Sound(j)
      BY <3>2, <3>3, <3>4, <3>7 DEF Sound, NoneAuthorized
    <3>10. Sound(k)
      BY <1>i, <3>1, <3>4, <3>7, <3>8, <3>9, AuthorizeSound
    <3>11. SameSession(j, k)
      BY <3>8, AuthorizeSession
    <3> HIDE DEF k
    <3>12. k.epoch > inner.epoch
      BY <3>3, <3>7, <3>11 DEF SameSession
    <3>13. CASE inner' = i
      BY <3>3, <3>4, <3>13
    <3>14. CASE inner' = k
      BY <3>5, <3>10, <3>12, <3>14
    <3> QED
      BY <1>0, <3>5, <3>13, <3>14
  <2>6. CASE Lock(c)
    <3> DEFINE i == InvalidateAuthEpoch(inner)
    <3>1. i \in InnerRecords /\ i.epoch > inner.epoch /\ i.verifier = inner.verifier /\ Sound(i)
      BY <1>i, InvalidateAuthEpochType, InvalidateAuthEpochFields, InvalidateAuthEpochSound
    <3>2. \E b \in BOOLEAN :
              inner' = [i EXCEPT !.authorized = NoEntries, !.expiryRecorded = b]
      BY <2>6 DEF Lock
    <3> HIDE DEF i
    <3>3. /\ inner'.authorized = NoEntries /\ inner'.epoch = i.epoch
          /\ inner'.verifier = i.verifier /\ inner'.database = i.database
      BY <3>1, <3>2 DEF InnerRecords
    <3>4. Sound(inner')
      BY <3>1, <3>3, NoEntriesEmpty DEF Sound, NoneAuthorized
    <3> QED
      BY <3>1, <3>3, <3>4
  <2>7. CASE PublishSetting(c)
    <3>1. client[c].write \in SettingWrites /\ client[c].write.name \in {"denialTtl", "identType"}
      BY <2>7, SessionAssumption DEF TypeOK, RequestFits, PublishSetting, At
    <3>2. CASE client[c].write.name = "denialTtl"
      <4>1. inner' = [inner EXCEPT !.denialTtl = client[c].write.value]
        BY <2>7, <3>2 DEF PublishSetting
      <4> QED
        BY <1>i, <1>1, <4>1 DEF SameSession, InnerRecords
    <3>3. CASE client[c].write.name = "identType"
      <4> DEFINE t == client[c].write.value
                 j == SetProcessIdentificationType(inner, t)
      <4>1. t \in IdentTypes
        BY <3>1, <3>3 DEF SettingWrites, AccessScopes
      <4>2. inner' = j
        BY <2>7, <3>3 DEF PublishSetting
      <4> HIDE DEF t
      <4>3. Sound(j) /\ j.verifier = inner.verifier
        BY <1>i, <4>1, SetTypeSound, SetTypeFields
      <4>4. j = inner \/ j.epoch > inner.epoch
        BY <1>i, <4>1, SetTypeCases
      <4> HIDE DEF j
      <4> QED
        BY <1>0, <4>2, <4>3, <4>4
    <3> QED
      BY <3>1, <3>2, <3>3
  <2> HIDE DEF InnerSucceeds, Succeeds
  <2>8. \/ inner' = inner
        \/ GuiCheckDenials(c) \/ RecordDenial(c) \/ UnlockCommit(c) \/ OpenFailed(c)
        \/ OpenCommit(c) \/ Lock(c) \/ AuthorizeCheck(c) \/ PublishSetting(c)
        \/ RegisterJob(c) \/ UndoJob(c)
    BY <1>2, RequestFrame
  <2> QED
    BY <1>0, <2>1, <2>2, <2>3, <2>4, <2>5, <2>6, <2>7, <2>8
<1>3. ASSUME SweepClockFailure
      PROVE  InnerSucceeds
  <2> DEFINE i == InvalidateAuthEpoch(inner)
             cleared == [i EXCEPT !.authorized = NoEntries, !.expiryRecorded = FALSE]
  <2>1. i \in InnerRecords /\ i.epoch > inner.epoch /\ i.verifier = inner.verifier /\ Sound(i)
    BY <1>i, InvalidateAuthEpochType, InvalidateAuthEpochFields, InvalidateAuthEpochSound
  <2>2. inner' \in {cleared, UnloadLocked(cleared)}
    BY <1>3 DEF SweepClockFailure
  <2> HIDE DEF i
  <2>3. /\ cleared.authorized = NoEntries /\ cleared.epoch = i.epoch
        /\ cleared.verifier = i.verifier /\ cleared.database = i.database
    BY <2>1 DEF InnerRecords
  <2>4. cleared \in InnerRecords
    BY <2>1, NoEntriesType, AuthorizationsType
  <2> HIDE DEF cleared
  <2>5. Sound(cleared)
    BY <2>1, <2>3, NoEntriesEmpty DEF Sound, NoneAuthorized
  <2> DEFINE u == UnloadLocked(cleared)
  <2>6. Sound(u) /\ u.epoch > cleared.epoch /\ ~u.verifier /\ u \in InnerRecords
    BY <2>4, UnloadLockedSound, UnloadLockedType
  <2> HIDE DEF u
  <2>7. i.epoch \in Nat /\ cleared.epoch \in Nat /\ u.epoch \in Nat
    BY <2>1, <2>4, <2>6 DEF InnerRecords
  <2>8. CASE inner' = u
    BY <1>i, <2>1, <2>3, <2>6, <2>7, <2>8
  <2>9. CASE inner' = cleared
    BY <2>1, <2>3, <2>5, <2>9
  <2> QED
    BY <2>2, <2>8, <2>9 DEF u
<1>4. ASSUME SweepExpire
      PROVE  InnerSucceeds
  <2> DEFINE kept == [a \in AccessScopes |->
                         RetainUnexpired(inner.authorized[a], sweep.now, sweep.ttl[a])]
             alive == \E a \in AccessScopes : DOMAIN kept[a] # {}
  <2>1. \A a \in AccessScopes : DOMAIN kept[a] \subseteq DOMAIN inner.authorized[a]
    <3> TAKE a \in AccessScopes
    <3>1. DOMAIN RetainUnexpired(inner.authorized[a], sweep.now, sweep.ttl[a])
            \subseteq DOMAIN inner.authorized[a]
      BY RetainShrinks
    <3> QED
      BY <3>1
  <2>2. \/ inner' = inner
        \/ inner' = [inner EXCEPT !.authorized = kept, !.expiryRecorded = alive]
    BY <1>4 DEF SweepExpire
  <2>3. alive <=> \E a \in AccessScopes : DOMAIN kept[a] # {}
    OBVIOUS
  <2> HIDE DEF kept, alive
  <2>4. CASE inner' = [inner EXCEPT !.authorized = kept, !.expiryRecorded = alive]
    <3>1. inner'.authorized = kept /\ SameSession(inner, inner')
      BY <1>i, <2>4 DEF SameSession, InnerRecords
    <3>2. inner'.expiryRecorded = alive
      BY <1>i, <2>4, Zenon DEF InnerRecords
    <3>3. Sound(inner')
      BY <2>1, <2>3, <3>1, <3>2 DEF Sound, NoneAuthorized, SameSession
    <3> QED
      BY <3>1, <3>3 DEF SameSession
  <2> QED
    BY <1>0, <2>2, <2>4
<1>5. ASSUME SweepUnload
      PROVE  InnerSucceeds
  <2> DEFINE cleaned == IF sweep.due THEN [inner EXCEPT !.lastCleanup = sweep.now] ELSE inner
             u == UnloadLocked(cleaned)
  <2>1. cleaned \in InnerRecords
    BY <1>i DEF TypeOK, SweepRecords, InnerRecords
  <2>2. /\ SameSession(inner, cleaned) /\ cleaned.expiryRecorded = inner.expiryRecorded
        /\ cleaned.authorized = inner.authorized
    BY <1>i DEF SameSession, InnerRecords
  <2>3. inner' \in {cleaned, u}
    BY <1>5 DEF SweepUnload
  <2> HIDE DEF cleaned
  <2>4. Sound(u) /\ u.epoch > cleaned.epoch /\ ~u.verifier
    BY <2>1, UnloadLockedSound
  <2> HIDE DEF u
  <2>5. CASE inner' = cleaned
    BY <1>1, <2>2, <2>5
  <2>6. CASE inner' = u
    BY <2>2, <2>4, <2>6 DEF SameSession
  <2> QED
    BY <2>3, <2>5, <2>6
<1>6. ASSUME NEW task \in tasks, JobEnds(task)
      PROVE  InnerSucceeds
  BY <1>i, <1>1, <1>6 DEF JobEnds, SameSession, InnerRecords
<1> HIDE DEF InnerSucceeds, Succeeds
<1>7. CASE Tick \/ UNCHANGED vars
  BY <1>0, <1>7 DEF Tick, vars
<1>8. CASE Sweep
  <2>1. inner' = inner \/ SweepClockFailure \/ SweepExpire \/ SweepUnload
    BY <1>8, SweepFrame
  <2> QED
    BY <1>0, <1>3, <1>4, <1>5, <2>1
<1> QED
  BY <1>2, <1>6, <1>7, <1>8 DEF Next

-----------------------------------------------------------------------------
(* The unlocks under way *)

(***************************************************************************)
(* The only way to the commit of an unlock is by a password the verifier   *)
(* accepted.                                                               *)
(***************************************************************************)
LEMMA ProvesByPassword ==
    ASSUME TypeOK, InnerGoesOn, NEW c \in Clients, Request(c),
           client'[c].pc \in {"readSettings", "commit"}
    PROVE  \/ UnlockVerified(c)
           \/ /\ client[c].pc = "readSettings"
              /\ \E ttl : client' = [client EXCEPT ![c].pc = "commit", ![c].ttl = ttl]
<1>t. client \in [Clients -> ClientRecords] /\ RequestFits(c)
  BY DEF TypeOK
<1>0. ~Ended(c)
  BY DEF Ended
<1>1. ~\E route \in Routes : Start(c, route)
  BY StartReaches DEF Reaches
<1>2. /\ ~RecordDenial(c) /\ ~UnlockWrongPassword(c) /\ ~UnlockCommit(c)
      /\ ~UnlockSuperseded(c) /\ ~OpenFailed(c) /\ ~OpenCommit(c) /\ ~Lock(c)
      /\ ~Respond(c) /\ ~Cancel(c) /\ ~PromptDismissed(c)
  BY <1>0, <1>t, EndingSteps
<1>3. /\ ~PromptAllowed(c) /\ ~OpenBegin(c) /\ ~BeginActiveRequest(c) /\ ~HandleRead(c)
      /\ ~PublishSetting(c) /\ ~RegisterJob(c) /\ ~CreateJob(c) /\ ~UndoJob(c)
  <2>1. ASSUME NEW pc \in {"unlock", "open", "handler", "respond", "createJob", "undoJob"},
               Goto(c, pc)
        PROVE  FALSE
    BY <1>t, <2>1 DEF Goto, ClientRecords
  <2> QED
    BY <1>t, <2>1, GotoSteps
<1>4. /\ ~GuiReadClock(c) /\ ~GuiCheckDenials(c) /\ ~PromptDenied(c)
      /\ ~OpenSucceeded(c) /\ ~OpenLoad(c)
      /\ ~AuthorizeStart(c) /\ ~AuthorizeReadTtl(c) /\ ~AuthorizeReadClock(c)
      /\ ~AuthorizeCheck(c) /\ ~WriteSetting(c)
  BY <1>0, GuiReadClockReaches, GuiCheckDenialsReaches, PromptDeniedReaches,
     OpenSucceededReaches, OpenLoadReaches, AuthorizeStartReaches, AuthorizeReadTtlReaches,
     AuthorizeReadClockReaches, AuthorizeCheckReaches, WriteSettingReaches DEF Reaches
<1>5. UnlockVerified(c) \/ UnlockReadSettings(c)
  BY <1>1, <1>2, <1>3, <1>4 DEF Request, Advance
<1>6. ASSUME UnlockReadSettings(c)
      PROVE  /\ client[c].pc = "readSettings"
             /\ \E ttl : client' = [client EXCEPT ![c].pc = "commit", ![c].ttl = ttl]
  <2>1. At(c, "readSettings")
    BY <1>6 DEF UnlockReadSettings
  <2>2. ~RefuseUnlock(c)
    BY SMTT(60), <1>0, <1>t, <2>1, RefuseUnlockEnds DEF At
  <2> QED
    BY <1>6, <2>1, <2>2 DEF UnlockReadSettings, At
<1> QED
  BY <1>5, <1>6

(***************************************************************************)
(* The mutex is kept across a step only by OpenBegin.                      *)
(***************************************************************************)
LEMMA TakesMutex ==
    ASSUME NEW c \in Clients, NEW d \in Clients, Request(c), holder' = d, holder # d
    PROVE  d = c /\ OpenBegin(c)
<1>1. holder' \in {holder, Nobody, c} /\ Nobody \notin Clients
  BY SessionAssumption, ForegroundFrame
<1>2. d = c
  BY <1>1
<1> QED
  BY <1>1, <1>2 DEF Request, Advance, Start, RecordDenial, UnlockWrongPassword,
       UnlockCommit, UnlockSuperseded, OpenFailed, OpenCommit, Lock, Respond,
       Cancel, PromptDismissed, PromptAllowed, BeginActiveRequest,
       HandleRead, PublishSetting, RegisterJob, UndoJob, CreateJob,
       GuiReadClock, GuiCheckDenials, PromptDenied, UnlockVerified,
       UnlockReadSettings, OpenSucceeded, AuthorizeStart, AuthorizeReadTtl,
       AuthorizeReadClock, AuthorizeCheck, WriteSetting, OpenLoad

(***************************************************************************)
(* A request that keeps its snapshot is still right about it: a change of  *)
(* the session would show in the epoch, and no epoch comes back.           *)
(***************************************************************************)
LEMMA KeepsSnapshot ==
    ASSUME TypeOK, InnerGoesOn, UnlocksUnderWay, Succeeds(inner, inner'),
           NEW c \in Clients, client[c].pc \in {"readSettings", "commit"},
           client'[c].epoch = client[c].epoch, client'[c].db = client[c].db,
           client'[c].type = client[c].type, SessionUnchanged(c)'
    PROVE  inner'.verifier /\ client'[c].type = inner'.identType
<1>1. /\ client[c].epoch <= inner.epoch /\ client[c].epoch \in Nat
      /\ inner.epoch \in Nat /\ inner'.epoch \in Nat /\ inner'.epoch >= inner.epoch
  BY DEF TypeOK, KnowsNoFuture, InnerGoesOn, InnerRecords, ClientRecords
<1>2. inner'.epoch = client[c].epoch /\ inner'.database = client[c].db
  BY DEF SessionUnchanged
<1>3. SameSession(inner, inner')
  BY <1>1, <1>2 DEF Succeeds
<1>4. SessionUnchanged(c)
  BY <1>2, <1>3 DEF SameSession, SessionUnchanged
<1> QED
  BY <1>3, <1>4, Zenon DEF SameSession, UnlocksUnderWay

(***************************************************************************)
(* The snapshots of all unlocks under way stay right.                      *)
(***************************************************************************)
LEMMA UnlocksStep ==
    ASSUME TypeOK, [Next]_vars, TypeOK', InnerGoesOn, InnerSucceeds, UnlocksUnderWay
    PROVE  UnlocksUnderWay'
<1>t. client \in [Clients -> ClientRecords]
  BY DEF TypeOK
<1>s. Succeeds(inner, inner')
  BY DEF InnerSucceeds
<1>b. \/ UNCHANGED <<client, holder>>
      \/ \E c \in Clients : Request(c)
  BY BackgroundFrame DEF Next
<1>1. ASSUME NEW d \in Clients, client'[d].pc \in {"readSettings", "commit"}, SessionUnchanged(d)'
      PROVE  inner'.verifier /\ client'[d].type = inner'.identType
  <2>1. ASSUME client'[d] = client[d]
        PROVE  inner'.verifier /\ client'[d].type = inner'.identType
    BY <1>1, <1>s, <2>1, KeepsSnapshot
  <2>2. ASSUME Request(d)
        PROVE  inner'.verifier /\ client'[d].type = inner'.identType
    <3>1. ASSUME UnlockVerified(d)
          PROVE  inner'.verifier /\ client'[d].type = inner'.identType
      <4>1. inner' = inner /\ inner.verifier
        BY <3>1 DEF UnlockVerified
      <4>2. client'[d].type = inner.identType
        BY <1>t, <3>1 DEF UnlockVerified, ClientRecords
      <4> QED
        BY <4>1, <4>2, Zenon
    <3>2. ASSUME NEW ttl, client[d].pc = "readSettings",
                 client' = [client EXCEPT ![d].pc = "commit", ![d].ttl = ttl]
          PROVE  inner'.verifier /\ client'[d].type = inner'.identType
      <4>1. /\ client'[d].epoch = client[d].epoch /\ client'[d].db = client[d].db
            /\ client'[d].type = client[d].type
        BY <1>t, <3>2 DEF ClientRecords
      <4> QED
        BY <1>1, <1>s, <3>2, <4>1, KeepsSnapshot
    <3> QED
      BY <1>1, <2>2, <3>1, <3>2, ProvesByPassword
  <2> QED
    BY <1>t, <1>b, <2>1, <2>2, OthersUntouched
<1>2. ASSUME NEW d \in Clients, Opening(d)'
      PROVE  ~inner'.verifier
  <2>1. holder' = d /\ (holder = d <=> Opening(d)) /\ Nobody # d
    BY <1>2, SessionAssumption DEF TypeOK, OpenerHoldsMutex
  <2>2. ~inner.verifier
    <3>1. CASE holder = d
      BY <2>1, <3>1 DEF UnlocksUnderWay
    <3>2. CASE holder # d
      <4>1. PICK c \in Clients : Request(c)
        BY <1>b, <2>1, <3>2
      <4>2. OpenBegin(c)
        BY <2>1, <3>2, <4>1, TakesMutex
      <4> QED
        BY <4>2 DEF OpenBegin
    <3> QED
      BY <3>1, <3>2
  <2> QED
    BY <2>1, <2>2 DEF InnerSucceeds
<1> QED
  BY <1>1, <1>2 DEF UnlocksUnderWay, Opening

-----------------------------------------------------------------------------
(* The invariants of the session *)

(***************************************************************************)
(* The inductive invariant.  Sound alone is not inductive: a commit        *)
(* authorizes under the type in its snapshot, which UnlocksUnderWay ties   *)
(* to the type in force, and UnlocksUnderWay in turn needs the bounds on   *)
(* epochs and the holder of the mutex that TypeOK states.                  *)
(***************************************************************************)
SafetyInv == TypeOK /\ Sound(inner) /\ UnlocksUnderWay

(***************************************************************************)
(* An agent that starts is locked.                                         *)
(***************************************************************************)
LEMMA SafetyInit == Init => SafetyInv
<1> SUFFICES ASSUME Init
             PROVE  SafetyInv
  OBVIOUS
<1>1. TypeOK
  BY TypeInit
<1>2. inner.authorized = NoEntries /\ inner.verifier = FALSE
  BY DEF Init
<1>3. NoneAuthorized(inner)
  BY <1>2, NoEntriesNone
<1>4. Sound(inner)
  BY <1>2, <1>3 DEF Sound, NoneAuthorized
<1>5. \A c \in Clients : client[c].pc = "idle"
  BY DEF Init, Idle
<1>6. UnlocksUnderWay
  BY <1>5 DEF UnlocksUnderWay, Opening
<1> QED
  BY <1>1, <1>4, <1>6 DEF SafetyInv

(***************************************************************************)
(* The invariant is inductive.                                             *)
(***************************************************************************)
LEMMA SafetyStep == SafetyInv /\ [Next]_vars => SafetyInv'
<1> SUFFICES ASSUME SafetyInv, [Next]_vars
             PROVE  SafetyInv'
  OBVIOUS
<1>0. TypeOK /\ Sound(inner) /\ UnlocksUnderWay
  BY DEF SafetyInv
<1>1. TypeOK'
  BY <1>0, TypeStep
<1>2. InnerGoesOn
  BY <1>0, InnerStep
<1>3. InnerSucceeds
  BY <1>0, InnerSucceedsStep
<1>4. UnlocksUnderWay'
  BY <1>0, <1>1, <1>2, <1>3, UnlocksStep
<1>5. Sound(inner')
  BY <1>3 DEF InnerSucceeds
<1> QED
  BY <1>1, <1>4, <1>5 DEF SafetyInv

(***************************************************************************)
(* Every reachable state satisfies the inductive invariant.                *)
(***************************************************************************)
THEOREM Safety == Spec => []SafetyInv
<1> QED
  BY SafetyInit, SafetyStep, PTL DEF Spec

(***************************************************************************)
(* While a scope is authorized the vault is open, the verifier is there    *)
(* and an expiry is recorded, so the sweep ends it and a repeat unlock     *)
(* does not reopen the vault, whatever the interleaving of unlocks, locks, *)
(* sweeps, setting writes, jobs and cancellations.                         *)
(***************************************************************************)
THEOREM AuthorizedOpen == Spec => []AuthorizedVaultIsOpen
<1>1. SafetyInv => AuthorizedVaultIsOpen
  BY SoundIff DEF SafetyInv
<1> QED
  BY <1>1, Safety, PTL

(***************************************************************************)
(* No authorization outlives a change of the process identification type:  *)
(* an unlock that was under way when the type changed never commits a      *)
(* scope hash of the former type.                                          *)
(***************************************************************************)
THEOREM AuthorizedCurrent == Spec => []AuthorizedUnderCurrentType
<1>1. SafetyInv => AuthorizedUnderCurrentType
  BY SoundIff DEF SafetyInv
<1> QED
  BY <1>1, Safety, PTL

(***************************************************************************)
(* The epoch and the handle an unlock compares under the mutex before it   *)
(* commits are enough to know that the verifier which accepted its         *)
(* password and the type it hashes under are still in force.               *)
(***************************************************************************)
THEOREM UnlocksSound == Spec => []UnlocksUnderWay
<1>1. SafetyInv => UnlocksUnderWay
  BY DEF SafetyInv
<1> QED
  BY <1>1, Safety, PTL

-----------------------------------------------------------------------------
(* The refinement mapping *)

(***************************************************************************)
(* The abstract state: the authorized scopes,                              *)
(***************************************************************************)
Granted == [a \in AccessScopes |-> DOMAIN inner.authorized[a]]

(***************************************************************************)
(* the clients whose password was accepted and is not yet a grant,         *)
(***************************************************************************)
Provers == {c \in Clients : Proving(c)}

(***************************************************************************)
(* and the clients whose request was admitted.                             *)
(***************************************************************************)
Servers == {c \in Clients : Serving(c)}

(***************************************************************************)
(* A step that SessionPromise allows, or a stutter.                        *)
(***************************************************************************)
KeepsStep == [Promise!Next]_(Promise!vars)

-----------------------------------------------------------------------------
(* The abstract actions *)

(***************************************************************************)
(* Each abstract action in terms of the abstract state, one lemma each: a  *)
(* password is accepted.                                                   *)
(***************************************************************************)
LEMMA ProveKeeps ==
    ASSUME NEW c \in Clients, Granted' = Granted, Provers' = Provers \cup {c}, Servers' = Servers
    PROVE  KeepsStep
BY DEF KeepsStep, Promise!Next, Promise!Prove, Granted, Provers, Servers

(***************************************************************************)
(* An unlock fails, or is cancelled.                                       *)
(***************************************************************************)
LEMMA GiveUpKeeps ==
    ASSUME NEW c \in Clients, Granted' = Granted, Provers' = Provers \ {c}, Servers' = Servers
    PROVE  KeepsStep
BY DEF KeepsStep, Promise!Next, Promise!GiveUp, Granted, Provers, Servers

(***************************************************************************)
(* A request is over.                                                      *)
(***************************************************************************)
LEMMA FinishKeeps ==
    ASSUME NEW c \in Clients, Granted' = Granted, Provers' = Provers, Servers' = Servers \ {c}
    PROVE  KeepsStep
BY DEF KeepsStep, Promise!Next, Promise!Finish, Granted, Provers, Servers

(***************************************************************************)
(* Authorizations expire.                                                  *)
(***************************************************************************)
LEMMA ForgetKeeps ==
    ASSUME \A a \in AccessScopes : Granted'[a] \subseteq Granted[a],
           Provers' = Provers, Servers' = Servers
    PROVE  KeepsStep
BY DEF KeepsStep, Promise!Next, Promise!Forget, Promise!Shrinks, Promise!AccessScopes,
       AccessScopes, Granted, Provers, Servers

(***************************************************************************)
(* Everything is revoked.                                                  *)
(***************************************************************************)
LEMMA RevokeKeeps ==
    ASSUME \A a \in AccessScopes : Granted'[a] = {}, Provers' = {}, Servers' = Servers
    PROVE  KeepsStep
BY DEF KeepsStep, Promise!Next, Promise!Revoke, Promise!Nothing, Promise!AccessScopes,
       AccessScopes, Granted, Provers, Servers

(***************************************************************************)
(* A request is admitted for a scope of its own that is granted.           *)
(***************************************************************************)
LEMMA ServeKeeps ==
    ASSUME NEW c \in Clients, NEW a \in AccessScopes, NEW t \in IdentTypes,
           ScopeOf[c][t] \in Granted[a],
           \A b \in AccessScopes : Granted'[b] \subseteq Granted[b],
           Provers' = Provers, Servers' = Servers \cup {c}
    PROVE  KeepsStep
<1>1. Promise!ScopesOf(c) \cap Granted[a] # {}
  BY DEF Promise!ScopesOf
<1> QED
  BY <1>1 DEF KeepsStep, Promise!Next, Promise!Serve, Promise!Shrinks, Promise!AccessScopes,
       AccessScopes, Granted, Provers, Servers

(***************************************************************************)
(* A proven client is granted one scope.                                   *)
(***************************************************************************)
LEMMA GrantKeeps ==
    ASSUME NEW c \in Clients, NEW a \in AccessScopes, NEW t \in IdentTypes,
           c \in Provers,
           Granted'[a] \subseteq Granted[a] \cup {ScopeOf[c][t]},
           \A b \in AccessScopes \ {a} : Granted'[b] = Granted[b],
           Provers' = Provers \ {c}, Servers' = Servers
    PROVE  KeepsStep
<1>1. ScopeOf[c][t] \in Promise!ScopesOf(c)
  BY DEF Promise!ScopesOf
<1> QED
  BY <1>1 DEF KeepsStep, Promise!Next, Promise!Grant, Promise!AccessScopes,
       AccessScopes, Granted, Provers, Servers

(***************************************************************************)
(* A proven client opens the vault and has the only grant.                 *)
(***************************************************************************)
LEMMA OpenKeeps ==
    ASSUME NEW c \in Clients, NEW a \in AccessScopes, NEW t \in IdentTypes,
           c \in Provers, \A b \in AccessScopes : Granted[b] = {},
           Granted'[a] = {ScopeOf[c][t]},
           \A b \in AccessScopes \ {a} : Granted'[b] = {},
           Provers' = {}, Servers' = Servers
    PROVE  KeepsStep
<1>1. ScopeOf[c][t] \in Promise!ScopesOf(c)
  BY DEF Promise!ScopesOf
<1>2. Granted = Promise!Nothing
  BY DEF Granted, Promise!Nothing, Promise!AccessScopes, AccessScopes
<1>3. Granted' = [Promise!Nothing EXCEPT ![a] = {ScopeOf[c][t]}]
  BY DEF Granted, Promise!Nothing, Promise!AccessScopes, AccessScopes
<1> QED
  BY <1>1, <1>2, <1>3 DEF KeepsStep, Promise!Next, Promise!Open, Promise!AccessScopes,
       AccessScopes, Granted, Provers, Servers

-----------------------------------------------------------------------------
(* The steps that renew no session *)

(***************************************************************************)
(* Only AuthorizeCheck admits a request, and a request that is served      *)
(* never turns into an unlock.                                             *)
(***************************************************************************)
LEMMA ServingFrame ==
    ASSUME TypeOK, InnerGoesOn, NEW c \in Clients, Request(c)
    PROVE  /\ Serving(c)' => Serving(c) \/ AuthorizeCheck(c)
           /\ Serving(c) => client'[c].pc \notin {"readSettings", "commit", "load", "install"}
<1> USE DEF Serving, HoldsGuard, Ended, Reaches, At
<1>t. client \in [Clients -> ClientRecords] /\ RequestFits(c)
  BY DEF TypeOK
<1>1. CASE \E route \in Routes : Start(c, route)
  BY <1>t, <1>1, StartReaches DEF Start
<1>2. CASE \/ RecordDenial(c) \/ UnlockWrongPassword(c) \/ UnlockCommit(c)
           \/ UnlockSuperseded(c) \/ OpenFailed(c) \/ OpenCommit(c) \/ Lock(c)
           \/ Respond(c) \/ Cancel(c) \/ PromptDismissed(c)
  BY <1>t, <1>2, EndingSteps
<1>3. CASE \/ PromptAllowed(c) \/ OpenBegin(c)
  BY <1>t, <1>3 DEF PromptAllowed, OpenBegin, Goto, ClientRecords
<1>4. CASE \/ BeginActiveRequest(c) \/ HandleRead(c) \/ PublishSetting(c) \/ RegisterJob(c)
           \/ CreateJob(c) \/ UndoJob(c)
  <2>1. Serving(c)
    BY <1>4 DEF BeginActiveRequest, HandleRead, PublishSetting, RegisterJob, CreateJob, UndoJob
  <2>2. client'[c].pc \in {"handler", "respond", "createJob", "undoJob"}
    BY <1>t, <1>4 DEF BeginActiveRequest, HandleRead, PublishSetting, RegisterJob, CreateJob,
                      UndoJob, Goto, ClientRecords
  <2> QED
    BY <2>1, <2>2
<1>5. CASE GuiReadClock(c) \/ GuiCheckDenials(c) \/ PromptDenied(c)
  BY <1>t, <1>5, GuiReadClockReaches, GuiCheckDenialsReaches, PromptDeniedReaches
     DEF GuiReadClock, GuiCheckDenials, PromptDenied
<1>6. CASE UnlockVerified(c) \/ UnlockReadSettings(c) \/ OpenSucceeded(c) \/ OpenLoad(c)
  <2>1. ~Serving(c)
    BY <1>6 DEF UnlockVerified, UnlockReadSettings, OpenSucceeded, OpenLoad
  <2> QED
    BY <1>t, <1>6, <2>1, UnlockVerifiedReaches, UnlockReadSettingsReaches,
       OpenSucceededReaches, OpenLoadReaches
<1>7. CASE AuthorizeStart(c) \/ AuthorizeReadTtl(c) \/ AuthorizeReadClock(c) \/ AuthorizeCheck(c)
  BY <1>t, <1>7, AuthorizeStartReaches, AuthorizeReadTtlReaches, AuthorizeReadClockReaches,
     AuthorizeCheckReaches
     DEF AuthorizeStart, AuthorizeReadTtl, AuthorizeReadClock, AuthorizeCheck
<1>8. CASE WriteSetting(c)
  BY <1>t, <1>8, WriteSettingReaches DEF WriteSetting
<1> QED
  BY <1>1, <1>2, <1>3, <1>4, <1>5, <1>6, <1>7, <1>8 DEF Request, Advance

(***************************************************************************)
(* The session is not renewed.                                             *)
(***************************************************************************)
SessionStays == inner'.epoch = inner.epoch /\ inner'.database = inner.database

(***************************************************************************)
(* Then the clients that did not move prove and are served as before.      *)
(***************************************************************************)
LEMMA OthersStay ==
    ASSUME SessionStays, NEW d \in Clients, client'[d] = client[d]
    PROVE  /\ Proving(d)' <=> Proving(d)
           /\ Serving(d)' <=> Serving(d)
BY DEF SessionStays, Proving, SessionUnchanged, Serving, HoldsGuard, At

(***************************************************************************)
(* A request's step that changes neither the session nor the               *)
(* authorizations, and admits nobody, is one client's Prove, GiveUp or     *)
(* Finish, or a stutter.                                                   *)
(***************************************************************************)
LEMMA QuietKeeps ==
    ASSUME TypeOK, InnerGoesOn, NEW c \in Clients, Request(c), ~AuthorizeCheck(c),
           SessionStays, Granted' = Granted
    PROVE  KeepsStep
<1>t. client \in [Clients -> ClientRecords]
  BY DEF TypeOK
<1>1. \A d \in Clients \ {c} : /\ Proving(d)' <=> Proving(d)
                               /\ Serving(d)' <=> Serving(d)
  BY <1>t, OthersUntouched, OthersStay
<1>2. /\ Serving(c)' => Serving(c)
      /\ Serving(c) => ~Proving(c) /\ ~Proving(c)'
  <2>1. Serving(c) => ~Proving(c)
    BY DEF Serving, HoldsGuard, At, Proving
  <2> QED
    BY <2>1, ServingFrame DEF Proving
<1> DEFINE P == Proving(c)
           Q == Proving(c)'
           S == Serving(c)
           T == Serving(c)'
<1>3. CASE S /\ ~T
  <2>1. Provers' = Provers /\ Servers' = Servers \ {c}
    BY <1>1, <1>2, <1>3 DEF Provers, Servers
  <2> QED
    BY <2>1, FinishKeeps
<1>4. CASE T <=> S
  <2>1. Servers' = Servers
    BY <1>1, <1>4 DEF Servers
  <2>2. CASE Q
    <3>1. Provers' = Provers \cup {c}
      BY <1>1, <2>2 DEF Provers
    <3> QED
      BY <2>1, <3>1, ProveKeeps
  <2>3. CASE ~Q
    <3>1. Provers' = Provers \ {c}
      BY <1>1, <2>3 DEF Provers
    <3> QED
      BY <2>1, <3>1, GiveUpKeeps
  <2> QED
    BY <2>2, <2>3
<1> QED
  BY <1>2, <1>3, <1>4

-----------------------------------------------------------------------------
(* The steps that do *)

(***************************************************************************)
(* A new epoch with the mutex free withdraws every accepted password: no   *)
(* snapshot has the new epoch, and nobody is opening the vault.            *)
(***************************************************************************)
LEMMA RenewalWithdraws ==
    ASSUME TypeOK, TypeOK', inner'.epoch > inner.epoch, holder' = Nobody,
           \A d \in Clients : client'[d] = client[d]
                                \/ client'[d].pc \notin {"readSettings", "commit"}
    PROVE  Provers' = {}
<1> SUFFICES ASSUME NEW d \in Clients, Proving(d)'
             PROVE  FALSE
  BY DEF Provers
<1>1. ~Opening(d)'
  BY SessionAssumption DEF TypeOK, OpenerHoldsMutex
<1>2. client'[d] = client[d] /\ client'[d].epoch = inner'.epoch
  BY <1>1 DEF Proving, Opening, SessionUnchanged
<1>3. client[d].epoch <= inner.epoch /\ inner.epoch \in Nat /\ inner'.epoch \in Nat
  BY DEF TypeOK, KnowsNoFuture, InnerRecords
<1> QED
  BY <1>2, <1>3

(***************************************************************************)
(* So a request's step that clears the caches under a new epoch is a       *)
(* Revoke.                                                                 *)
(***************************************************************************)
LEMMA RevokingRequestKeeps ==
    ASSUME TypeOK, TypeOK', NEW c \in Clients, Request(c),
           inner'.epoch > inner.epoch, holder' = Nobody, NoneAuthorized(inner'),
           client'[c].pc \notin {"readSettings", "commit"},
           Serving(c)' <=> Serving(c)
    PROVE  KeepsStep
<1>1. \A d \in Clients \ {c} : client'[d] = client[d]
  BY OthersUntouched DEF TypeOK
<1>2. Provers' = {}
  BY <1>1, RenewalWithdraws
<1>3. Servers' = Servers
  BY <1>1 DEF Servers, Serving, HoldsGuard, At
<1>4. \A a \in AccessScopes : Granted'[a] = {}
  BY DEF NoneAuthorized, Granted
<1> QED
  BY <1>2, <1>3, <1>4, RevokeKeeps

(***************************************************************************)
(* lock.                                                                   *)
(***************************************************************************)
LEMMA LockKeeps ==
    ASSUME TypeOK, TypeOK', NEW c \in Clients, Request(c), Lock(c)
    PROVE  KeepsStep
<1>i. inner \in InnerRecords /\ client \in [Clients -> ClientRecords] /\ RequestFits(c)
  BY DEF TypeOK
<1>1. inner'.authorized = NoEntries /\ inner'.epoch > inner.epoch
  <2>1. PICK b \in BOOLEAN :
            inner' = [InvalidateAuthEpoch(inner) EXCEPT !.authorized = NoEntries,
                                                        !.expiryRecorded = b]
    BY DEF Lock
  <2>2. InvalidateAuthEpoch(inner) \in InnerRecords
        /\ InvalidateAuthEpoch(inner).epoch > inner.epoch
    BY <1>i, InvalidateAuthEpochType
  <2> QED
    BY <2>1, <2>2 DEF InnerRecords
<1>2. NoneAuthorized(inner')
  BY <1>1, NoEntriesNone
<1>3. holder' = Nobody /\ ~Serving(c)
  BY DEF Lock, MutexFree, Serving, HoldsGuard, At
<1>4. client'[c].pc \in {"idle", "prompt", "authorize"}
  BY <1>i, EndingSteps DEF Ended
<1>5. ~Serving(c)'
  BY <1>4 DEF Serving, HoldsGuard, At
<1> QED
  BY <1>1, <1>2, <1>3, <1>4, <1>5, RevokingRequestKeeps

(***************************************************************************)
(* upsert_setting's second step: a new process identification type         *)
(* revokes, a new denial TTL or the same type is a stutter.                *)
(***************************************************************************)
LEMMA PublishKeeps ==
    ASSUME TypeOK, TypeOK', InnerGoesOn, NEW c \in Clients, Request(c), PublishSetting(c)
    PROVE  KeepsStep
<1> DEFINE w == client[c].write
           i == SetProcessIdentificationType(inner, w.value)
<1>i. inner \in InnerRecords /\ client \in [Clients -> ClientRecords] /\ RequestFits(c)
  BY DEF TypeOK
<1>c. ~AuthorizeCheck(c)
  BY DEF PublishSetting, AuthorizeCheck, At
<1>w. At(c, "publish") /\ w.name \in {"denialTtl", "identType"} /\ w \in SettingWrites
  BY <1>i, SessionAssumption DEF PublishSetting, RequestFits
<1>1. CASE w.name = "denialTtl"
  <2>1. inner' = [inner EXCEPT !.denialTtl = w.value]
    BY <1>1 DEF PublishSetting
  <2>2. SessionStays /\ inner'.authorized = inner.authorized
    BY <1>i, <2>1 DEF SessionStays, InnerRecords
  <2>3. Granted' = Granted
    BY <2>2 DEF Granted
  <2> QED
    BY <1>c, <2>2, <2>3, QuietKeeps
<1>2. CASE w.name # "denialTtl"
  <2>1. inner' = i
    BY <1>2 DEF PublishSetting
  <2>2. w.value \in IdentTypes
    BY <1>w, <1>2 DEF SettingWrites, AccessScopes
  <2>3. i = inner \/ (i.authorized = NoEntries /\ i.epoch > inner.epoch)
    BY <1>i, <2>2, SetTypeCases
  <2> HIDE DEF i
  <2>4. CASE i = inner
    <3>1. SessionStays /\ Granted' = Granted
      BY <2>1, <2>4 DEF SessionStays, Granted
    <3> QED
      BY <1>c, <3>1, QuietKeeps
  <2>5. CASE i.authorized = NoEntries /\ i.epoch > inner.epoch
    <3>1. NoneAuthorized(inner') /\ inner'.epoch > inner.epoch
      BY <2>1, <2>5, NoEntriesNone
    <3>2. holder' = Nobody
      BY DEF PublishSetting, MutexFree
    <3>3. client'[c].pc = "respond"
      BY <1>i DEF PublishSetting, Goto, ClientRecords
    <3>4. Serving(c) /\ Serving(c)'
      BY <1>w, <3>3 DEF Serving, HoldsGuard, At
    <3> QED
      BY <3>1, <3>2, <3>3, <3>4, RevokingRequestKeeps
  <2> QED
    BY <2>3, <2>4, <2>5
<1> QED
  BY <1>1, <1>2

(***************************************************************************)
(* The commit of an unlock in an open vault grants one scope, or gives up. *)
(***************************************************************************)
LEMMA UnlockCommitKeeps ==
    ASSUME TypeOK, InnerGoesOn, NEW c \in Clients, Request(c), UnlockCommit(c)
    PROVE  KeepsStep
<1> DEFINE i == [inner EXCEPT !.denialTtl = client[c].ttl]
           s == ScopeOf[c][client[c].type]
           j == Authorize(i, Access(c), s, clock)
           cache == Insert(inner.authorized[Access(c)], s, clock)
<1>i. /\ inner \in InnerRecords /\ inner.authorized \in AuthCaches
      /\ client \in [Clients -> ClientRecords] /\ RequestFits(c)
      /\ client[c].type \in IdentTypes /\ clock \in Instants
  BY DEF TypeOK, ClientRecords, InnerRecords
<1>a. At(c, "commit") /\ SessionUnchanged(c) /\ Access(c) \in AccessScopes
  BY <1>i DEF UnlockCommit, At, RequestFits, Access, ClientRecords
<1>c. ~AuthorizeCheck(c)
  BY <1>a DEF AuthorizeCheck, At
<1>1. CASE inner' = inner
  <2>1. SessionStays /\ Granted' = Granted
    BY <1>1 DEF SessionStays, Granted
  <2> QED
    BY <1>c, <2>1, QuietKeeps
<1>2. CASE inner' = j
  <2>1. i \in InnerRecords /\ SameSession(inner, i) /\ i.authorized = inner.authorized
    <3>1. i \in InnerRecords
      BY <1>i, Zenon DEF ClientRecords, InnerRecords
    <3> QED
      BY <1>i, <3>1 DEF SameSession, InnerRecords
  <2>2. SameSession(i, j)
    BY <2>1, AuthorizeSession
  <2>3. j.authorized = [i.authorized EXCEPT ![Access(c)] = Insert(@, s, clock)]
    BY <2>1 DEF Authorize, InnerRecords
  <2>4. DOMAIN cache \subseteq DOMAIN inner.authorized[Access(c)] \cup {s}
    BY InsertDomain
  <2> HIDE DEF i, j, cache
  <2>5. inner'.authorized = [inner.authorized EXCEPT ![Access(c)] = cache]
    BY <1>2, <2>1, <2>3 DEF cache
  <2>6. /\ Granted'[Access(c)] \subseteq Granted[Access(c)] \cup {s}
        /\ \A b \in AccessScopes \ {Access(c)} : Granted'[b] = Granted[b]
    BY <1>i, <1>a, <2>4, <2>5 DEF Granted, AuthCaches
  <2>7. SessionStays
    BY <1>2, <2>1, <2>2 DEF SessionStays, SameSession
  <2>8. client'[c].pc \in {"idle", "prompt", "authorize"}
    BY <1>i, EndingSteps DEF Ended
  <2>9. Proving(c) /\ ~Proving(c)' /\ ~Serving(c) /\ ~Serving(c)'
    BY <1>a, <2>8 DEF Proving, At, Serving, HoldsGuard
  <2>10. \A d \in Clients \ {c} : (Proving(d)' <=> Proving(d)) /\ (Serving(d)' <=> Serving(d))
    BY <1>i, <2>7, OthersUntouched, OthersStay
  <2>11. c \in Provers /\ Provers' = Provers \ {c} /\ Servers' = Servers
    BY <2>9, <2>10 DEF Provers, Servers
  <2> QED
    BY <1>a, <1>i, <2>6, <2>11, GrantKeeps
<1> QED
  BY <1>1, <1>2 DEF UnlockCommit

(***************************************************************************)
(* The commit of an opening is an Open; when the verifier cannot be made   *)
(* it is a Revoke, and without a clock a GiveUp.  No verifier was there,   *)
(* so nothing was granted.                                                 *)
(***************************************************************************)
LEMMA OpenCommitKeeps ==
    ASSUME TypeOK, TypeOK', InnerGoesOn, Sound(inner), UnlocksUnderWay,
           NEW c \in Clients, Request(c), OpenCommit(c)
    PROVE  KeepsStep
<1> DEFINE o == OpenInstalled(inner, c)
           i == [o EXCEPT !.verifier = TRUE, !.denialTtl = client[c].ttl]
           s == ScopeOf[c][client[c].type]
           j == Authorize(i, Access(c), s, clock)
           cache == Insert(o.authorized[Access(c)], s, clock)
<1>i. /\ inner \in InnerRecords /\ client \in [Clients -> ClientRecords] /\ RequestFits(c)
      /\ client[c].type \in IdentTypes /\ client[c].db \in Nat /\ client[c].ttl \in Nat
  BY DEF TypeOK, ClientRecords
<1>a. At(c, "install") /\ holder' = Nobody /\ Access(c) \in AccessScopes
  BY <1>i DEF OpenCommit, At, RequestFits, Access, ClientRecords
<1>b. ~AuthorizeCheck(c) /\ ~Serving(c)
  BY <1>a DEF AuthorizeCheck, At, Serving, HoldsGuard
<1>v. ~inner.verifier
  BY <1>a DEF UnlocksUnderWay, Opening, At
<1>o. /\ o \in InnerRecords /\ o.epoch > inner.epoch /\ NoneAuthorized(o)
  BY <1>i, <1>v, OpenInstalledType, OpenInstalledSound
<1> HIDE DEF o
<1>e. client'[c].pc \in {"idle", "prompt", "authorize"}
  BY <1>i, EndingSteps DEF Ended
<1>s. ~Serving(c)'
  BY <1>e DEF Serving, HoldsGuard, At
<1>1. CASE inner' = inner
  <2>1. SessionStays /\ Granted' = Granted
    BY <1>1 DEF SessionStays, Granted
  <2> QED
    BY <1>b, <2>1, QuietKeeps
<1>2. CASE inner' = o
  BY <1>2, <1>o, <1>a, <1>b, <1>e, <1>s, RevokingRequestKeeps
<1>3. CASE inner' = j
  <2>1. i \in InnerRecords /\ i.epoch = o.epoch /\ i.authorized = o.authorized
    <3>1. i \in InnerRecords
      BY <1>i, <1>o, Zenon DEF InnerRecords
    <3> QED
      BY <1>o, <3>1 DEF InnerRecords
  <2>2. j.authorized = [i.authorized EXCEPT ![Access(c)] = Insert(@, s, clock)]
    BY <2>1 DEF Authorize, InnerRecords
  <2>3. j.epoch = i.epoch
    BY <2>1 DEF Authorize, InnerRecords
  <2>4. DOMAIN cache = {s}
    BY <1>a, <1>o, InsertIntoEmpty DEF NoneAuthorized
  <2> HIDE DEF i, j, cache
  <2>5. inner'.authorized = [o.authorized EXCEPT ![Access(c)] = cache]
    BY <1>3, <2>1, <2>2 DEF cache
  <2>6. o.authorized \in AuthCaches
    BY <1>o DEF InnerRecords
  <2>7. /\ Granted'[Access(c)] = {s}
        /\ \A b \in AccessScopes \ {Access(c)} : Granted'[b] = {}
    BY <1>a, <1>o, <2>4, <2>5, <2>6 DEF Granted, AuthCaches, NoneAuthorized
  <2>8. \A b \in AccessScopes : Granted[b] = {}
    BY <1>v DEF Sound, NoneAuthorized, Granted
  <2>9. inner'.epoch > inner.epoch
    BY <1>3, <1>o, <2>1, <2>3
  <2>10. \A d \in Clients \ {c} : client'[d] = client[d]
    BY <1>i, OthersUntouched
  <2>11. Provers' = {}
    BY <1>a, <1>e, <2>9, <2>10, RenewalWithdraws
  <2>12. Servers' = Servers
    BY <1>b, <1>s, <2>10 DEF Servers, Serving, HoldsGuard, At
  <2>13. c \in Provers
    BY <1>a DEF Provers, Proving, At
  <2> QED
    BY <1>a, <1>i, <2>7, <2>8, <2>11, <2>12, <2>13, OpenKeeps
<1> QED
  BY <1>1, <1>2, <1>3 DEF OpenCommit, o

-----------------------------------------------------------------------------
(* Checks *)

(***************************************************************************)
(* The check serves a request whose scope is authorized, or forgets what   *)
(* expired.                                                                *)
(***************************************************************************)
LEMMA AuthorizeCheckKeeps ==
    ASSUME TypeOK, InnerGoesOn, NEW c \in Clients, Request(c), AuthorizeCheck(c)
    PROVE  KeepsStep
<1> DEFINE a == Access(c)
           r == client[c]
           cache == AfterContains(inner.authorized[a], r.scope, r.now, r.ttl)
<1>i. /\ inner \in InnerRecords /\ inner.authorized \in AuthCaches
      /\ client \in [Clients -> ClientRecords] /\ RequestFits(c)
  BY DEF TypeOK, InnerRecords
<1>a. At(c, "check") /\ a \in AccessScopes
  BY <1>i DEF AuthorizeCheck, At, RequestFits, Access, ClientRecords
<1>1. DOMAIN cache \subseteq DOMAIN inner.authorized[a]
  BY AfterContainsShrinks
<1>2. Authorized(c) => r.scope \in DOMAIN inner.authorized[a]
  BY DEF Authorized, Contains, Live
<1> HIDE DEF cache, a
<1>3. inner' = inner \/ inner' = [inner EXCEPT !.authorized[a] = cache]
  BY DEF AuthorizeCheck, a, cache
<1>4. SessionStays
  BY <1>i, <1>3 DEF SessionStays, InnerRecords
<1>5. \A b \in AccessScopes : Granted'[b] \subseteq Granted[b]
  <2>1. CASE inner' = inner
    BY <2>1 DEF Granted
  <2>2. CASE inner' = [inner EXCEPT !.authorized[a] = cache]
    <3>1. inner'.authorized = [inner.authorized EXCEPT ![a] = cache]
      BY <1>i, <2>2 DEF InnerRecords
    <3> QED
      BY <1>i, <1>a, <1>1, <3>1 DEF Granted, AuthCaches
  <2> QED
    BY <1>3, <2>1, <2>2
<1>6. \A d \in Clients \ {c} : (Proving(d)' <=> Proving(d)) /\ (Serving(d)' <=> Serving(d))
  BY <1>i, <1>4, OthersUntouched, OthersStay
<1>7. client'[c].pc \in {"idle", "prompt", "authorize", "admitted"}
  BY AuthorizeCheckReaches DEF Ended, Reaches
<1>8. ~Proving(c) /\ ~Proving(c)' /\ ~Serving(c)
  BY <1>a, <1>7 DEF Proving, Serving, HoldsGuard, At
<1>9. Provers' = Provers
  BY <1>6, <1>8 DEF Provers
<1>10. CASE Serving(c)'
  <2>1. Servers' = Servers \cup {c}
    BY <1>6, <1>10 DEF Servers
  <2>2. Authorized(c)
    <3>1. CASE DenyAccess(c)
      BY <1>i, <1>a, <1>10, <3>1, DenyAccessEnds DEF At, Ended, Serving, HoldsGuard
    <3> QED
      BY <3>1 DEF AuthorizeCheck
  <2>3. PICK t \in IdentTypes : r.scope = ScopeOf[c][t]
    BY <1>i, <1>a DEF RequestFits, At
  <2>4. ScopeOf[c][t] \in Granted[a]
    BY <1>a, <1>2, <2>2, <2>3 DEF Granted
  <2> QED
    BY <1>a, <1>5, <1>9, <2>1, <2>4, ServeKeeps
<1>11. CASE ~Serving(c)'
  <2>1. Servers' = Servers
    BY <1>6, <1>8, <1>11 DEF Servers
  <2> QED
    BY <1>5, <1>9, <2>1, ForgetKeeps
<1> QED
  BY <1>10, <1>11

-----------------------------------------------------------------------------
(* All steps *)

(***************************************************************************)
(* Every step of a request is allowed.                                     *)
(***************************************************************************)
LEMMA RequestKeeps ==
    ASSUME TypeOK, TypeOK', InnerGoesOn, Sound(inner), UnlocksUnderWay,
           NEW c \in Clients, Request(c)
    PROVE  KeepsStep
<1>i. inner \in InnerRecords
  BY DEF TypeOK
<1>1. CASE AuthorizeCheck(c)
  BY <1>1, AuthorizeCheckKeeps
<1>2. CASE UnlockCommit(c)
  BY <1>2, UnlockCommitKeeps
<1>3. CASE OpenCommit(c)
  BY <1>3, OpenCommitKeeps
<1>4. CASE Lock(c)
  BY <1>4, LockKeeps
<1>5. CASE PublishSetting(c)
  BY <1>5, PublishKeeps
<1>6. CASE /\ ~AuthorizeCheck(c)
           /\ \/ inner' = inner \/ GuiCheckDenials(c) \/ RecordDenial(c) \/ OpenFailed(c)
              \/ RegisterJob(c) \/ UndoJob(c)
  <2>1. SessionStays /\ inner'.authorized = inner.authorized
    BY <1>i, <1>6 DEF SessionStays, GuiCheckDenials, RecordDenial, OpenFailed, RegisterJob,
                      UndoJob, InnerRecords
  <2>2. Granted' = Granted
    BY <2>1 DEF Granted
  <2> QED
    BY <1>6, <2>1, <2>2, QuietKeeps
<1> QED
  BY <1>1, <1>2, <1>3, <1>4, <1>5, <1>6, RequestFrame

(***************************************************************************)
(* A step beside the requests that keeps the session forgets at most.      *)
(***************************************************************************)
LEMMA BackgroundQuietKeeps ==
    ASSUME client' = client, SessionStays,
           \A a \in AccessScopes : Granted'[a] \subseteq Granted[a]
    PROVE  KeepsStep
<1>1. \A d \in Clients : (Proving(d)' <=> Proving(d)) /\ (Serving(d)' <=> Serving(d))
  BY OthersStay
<1>2. Provers' = Provers /\ Servers' = Servers
  BY <1>1 DEF Provers, Servers
<1> QED
  BY <1>2, ForgetKeeps

(***************************************************************************)
(* One that renews it with the mutex free and clears the caches is a       *)
(* Revoke.                                                                 *)
(***************************************************************************)
LEMMA BackgroundRevokeKeeps ==
    ASSUME TypeOK, TypeOK', client' = client, holder' = Nobody, inner'.epoch > inner.epoch,
           NoneAuthorized(inner')
    PROVE  KeepsStep
<1>1. Provers' = {}
  BY RenewalWithdraws
<1>2. Servers' = Servers
  BY DEF Servers, Serving, HoldsGuard, At
<1>3. \A a \in AccessScopes : Granted'[a] = {}
  BY DEF NoneAuthorized, Granted
<1> QED
  BY <1>1, <1>2, <1>3, RevokeKeeps

(***************************************************************************)
(* The sweep forgets what expired, and revokes when it unloads or has no   *)
(* clock.                                                                  *)
(***************************************************************************)
LEMMA SweepKeeps ==
    ASSUME TypeOK, TypeOK', InnerGoesOn, Sweep
    PROVE  KeepsStep
<1>i. inner \in InnerRecords /\ inner.epoch \in Nat
  BY DEF TypeOK, InnerRecords
<1>c. client' = client /\ holder' = holder
  BY BackgroundFrame
<1>1. CASE inner' = inner
  BY <1>c, <1>1, BackgroundQuietKeeps DEF SessionStays, Granted
<1>2. CASE SweepExpire
  <2> DEFINE kept == [a \in AccessScopes |->
                         RetainUnexpired(inner.authorized[a], sweep.now, sweep.ttl[a])]
             alive == \E a \in AccessScopes : DOMAIN kept[a] # {}
  <2>1. \A a \in AccessScopes : DOMAIN kept[a] \subseteq DOMAIN inner.authorized[a]
    <3> TAKE a \in AccessScopes
    <3>1. DOMAIN RetainUnexpired(inner.authorized[a], sweep.now, sweep.ttl[a])
            \subseteq DOMAIN inner.authorized[a]
      BY RetainShrinks
    <3> QED
      BY <3>1
  <2>2. \/ inner' = inner
        \/ inner' = [inner EXCEPT !.authorized = kept, !.expiryRecorded = alive]
    BY <1>2 DEF SweepExpire
  <2> HIDE DEF kept, alive
  <2>3. CASE inner' = [inner EXCEPT !.authorized = kept, !.expiryRecorded = alive]
    <3>1. SessionStays /\ inner'.authorized = kept
      BY <1>i, <2>3 DEF SessionStays, InnerRecords
    <3>2. \A a \in AccessScopes : Granted'[a] \subseteq Granted[a]
      BY <2>1, <3>1 DEF Granted
    <3> QED
      BY <1>c, <3>1, <3>2, BackgroundQuietKeeps
  <2> QED
    BY <1>1, <2>2, <2>3
<1>3. CASE SweepClockFailure
  <2> DEFINE j == InvalidateAuthEpoch(inner)
             cleared == [j EXCEPT !.authorized = NoEntries, !.expiryRecorded = FALSE]
             u == UnloadLocked(cleared)
  <2>1. j \in InnerRecords /\ j.epoch > inner.epoch
    BY <1>i, InvalidateAuthEpochType
  <2> HIDE DEF j
  <2>2. cleared \in InnerRecords /\ cleared.epoch = j.epoch /\ cleared.authorized = NoEntries
    BY <2>1, NoEntriesType, AuthorizationsType, AuthorizationsEpoch DEF InnerRecords
  <2>3. inner' \in {cleared, u}
    BY <1>3 DEF SweepClockFailure, j
  <2> HIDE DEF cleared
  <2>4. u.authorized = NoEntries /\ u.epoch > cleared.epoch
    BY <2>2, UnloadLockedSound DEF UnloadLocked, InvalidateAuthEpoch, InnerRecords
  <2> HIDE DEF u
  <2>5. inner'.authorized = NoEntries
    BY <2>2, <2>3, <2>4
  <2>6. inner'.epoch > inner.epoch
    BY <1>i, <2>1, <2>2, <2>3, <2>4 DEF TypeOK, InnerRecords
  <2>7. holder' = Nobody
    BY <1>3 DEF SweepClockFailure, MutexFree
  <2> QED
    BY <1>c, <2>5, <2>6, <2>7, NoEntriesNone, BackgroundRevokeKeeps
<1>4. CASE SweepUnload
  <2> DEFINE cleaned == IF sweep.due THEN [inner EXCEPT !.lastCleanup = sweep.now] ELSE inner
             u == UnloadLocked(cleaned)
  <2>1. cleaned \in InnerRecords
    BY <1>i DEF TypeOK, SweepRecords, InnerRecords
  <2>2. /\ cleaned.epoch = inner.epoch /\ cleaned.database = inner.database
        /\ cleaned.authorized = inner.authorized
    BY <1>i DEF InnerRecords
  <2>3. inner' \in {cleaned, u}
    BY <1>4 DEF SweepUnload
  <2> HIDE DEF cleaned
  <2>4. u.authorized = NoEntries /\ u.epoch > cleaned.epoch
    BY <2>1, UnloadLockedSound DEF UnloadLocked, InvalidateAuthEpoch, InnerRecords
  <2> HIDE DEF u
  <2>5. CASE inner' = cleaned
    BY <1>c, <2>2, <2>5, BackgroundQuietKeeps DEF SessionStays, Granted
  <2>6. CASE inner' = u
    <3>1. inner'.epoch > inner.epoch /\ NoneAuthorized(inner')
      BY <2>2, <2>4, <2>6, NoEntriesNone
    <3>2. holder' = Nobody
      BY <1>4 DEF SweepUnload, MutexFree
    <3> QED
      BY <1>c, <3>1, <3>2, BackgroundRevokeKeeps
  <2> QED
    BY <2>3, <2>5, <2>6
<1> QED
  BY <1>1, <1>2, <1>3, <1>4, SweepFrame

(***************************************************************************)
(* Every step from a state of the invariant is allowed.                    *)
(***************************************************************************)
LEMMA NextKeeps == SafetyInv /\ SafetyInv' /\ [Next]_vars => KeepsStep
<1> SUFFICES ASSUME SafetyInv, SafetyInv', [Next]_vars
             PROVE  KeepsStep
  OBVIOUS
<1>0. TypeOK /\ TypeOK' /\ Sound(inner) /\ UnlocksUnderWay
  BY DEF SafetyInv
<1>i. inner \in InnerRecords /\ InnerGoesOn
  BY <1>0, InnerStep DEF TypeOK
<1>1. ASSUME NEW c \in Clients, Request(c)
      PROVE  KeepsStep
  BY <1>0, <1>1, <1>i, RequestKeeps
<1>2. ASSUME NEW task \in tasks, JobEnds(task)
      PROVE  KeepsStep
  <2>1. SessionStays /\ inner'.authorized = inner.authorized /\ client' = client
    BY <1>2, <1>i DEF JobEnds, SessionStays, InnerRecords
  <2> QED
    BY <2>1, BackgroundQuietKeeps DEF Granted
<1>3. CASE Sweep
  BY <1>0, <1>3, <1>i, SweepKeeps
<1>4. CASE Tick \/ UNCHANGED vars
  <2>1. inner' = inner /\ client' = client
    BY <1>4 DEF Tick, vars
  <2> QED
    BY <2>1, BackgroundQuietKeeps DEF SessionStays, Granted
<1> QED
  BY <1>1, <1>2, <1>3, <1>4 DEF Next

-----------------------------------------------------------------------------
(* The theorem *)

(***************************************************************************)
(* An agent that starts has granted nothing.                               *)
(***************************************************************************)
LEMMA InitKeeps == Init => Promise!Init
<1> SUFFICES ASSUME Init
             PROVE  Promise!Init
  OBVIOUS
<1>1. inner.authorized = NoEntries /\ \A c \in Clients : client[c].pc = "idle"
  BY DEF Init, Idle
<1>2. \A a \in AccessScopes : DOMAIN inner.authorized[a] = {}
  BY <1>1, NoEntriesEmpty
<1>3. \A c \in Clients : ~Proving(c) /\ ~Serving(c)
  BY <1>1 DEF Proving, Serving, HoldsGuard, At
<1> QED
  BY <1>2, <1>3 DEF Promise!Init, Promise!Nothing, Promise!AccessScopes, AccessScopes

(***************************************************************************)
(* Access needs a password: every behaviour of the agent, with its epochs, *)
(* handles, mutex, cancellations and failures, is one that SessionPromise  *)
(* allows.                                                                 *)
(***************************************************************************)
THEOREM PromiseKept == Spec => KeepsPromise
<1>1. SafetyInv /\ SafetyInv' /\ [Next]_vars => [Promise!Next]_(Promise!vars)
  BY NextKeeps DEF KeepsStep
<1> QED
  BY <1>1, InitKeeps, Safety, PTL DEF Spec, KeepsPromise, Promise!Spec
=============================================================================
