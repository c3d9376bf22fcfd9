------------------------- MODULE AgentSession_proofs -------------------------
(***************************************************************************)
(* Type correctness of AgentSession, with what each request knows.         *)
(***************************************************************************)
EXTENDS AgentSession, AuthCache_proofs

-----------------------------------------------------------------------------
(* Scopes and caches *)

(***************************************************************************)
(* Finitely many clients have finitely many scope hashes.                  *)
(***************************************************************************)
LEMMA ScopesFinite == IsFiniteSet(Scopes)
<1> DEFINE P == Clients \X IdentTypes
           hash == [p \in P |-> ScopeOf[p[1]][p[2]]]
<1>1. IsFiniteSet(P)
  BY SessionAssumption, FS_Product
<1>2. hash \in [P -> Scopes]
  BY DEF Scopes
<1>3. \A s \in Scopes : \E p \in P : hash[p] = s
  <2> SUFFICES ASSUME NEW s \in Scopes
               PROVE  \E p \in P : hash[p] = s
    OBVIOUS
  <2>1. PICK c \in Clients, t \in IdentTypes : s = ScopeOf[c][t]
    BY DEF Scopes
  <2>2. <<c, t>> \in P /\ hash[<<c, t>>] = s
    BY <2>1
  <2> QED
    BY <2>2
<1>4. hash \in Surjection(P, Scopes)
  BY <1>2, <1>3 DEF Surjection
<1> QED
  BY <1>1, <1>4, FS_Surjection

(***************************************************************************)
(* The caches of InnerState without entries.                               *)
(***************************************************************************)
LEMMA NoEntriesType == NoEntries \in AuthCaches
BY ScopesFinite, EmptyCacheType DEF NoEntries, AuthCaches

(***************************************************************************)
(* Cleared caches hold no scope.                                            *)
(***************************************************************************)
LEMMA NoEntriesEmpty == \A a \in AccessScopes : DOMAIN NoEntries[a] = {}
BY DEF NoEntries, EmptyCache

(***************************************************************************)
(* A lock, a clock failure and a sweep replace the authorizations and the  *)
(* bit that says whether an expiry is recorded; a failed opening may find  *)
(* that the database needs a migration.                                    *)
(***************************************************************************)
LEMMA AuthorizationsType ==
    ASSUME NEW i \in InnerRecords, NEW caches \in AuthCaches, NEW b \in BOOLEAN
    PROVE  [i EXCEPT !.authorized = caches, !.expiryRecorded = b] \in InnerRecords
BY Zenon DEF InnerRecords

(***************************************************************************)
(* New authorizations change neither the epoch nor the handle.              *)
(***************************************************************************)
LEMMA AuthorizationsEpoch ==
    ASSUME NEW i \in InnerRecords, NEW caches, NEW b
    PROVE  /\ [i EXCEPT !.authorized = caches, !.expiryRecorded = b].epoch = i.epoch
           /\ [i EXCEPT !.authorized = caches, !.expiryRecorded = b].database = i.database
BY DEF InnerRecords

(***************************************************************************)
(* Setting the migration flag keeps the inner state's type.                 *)
(***************************************************************************)
LEMMA MigrationType ==
    ASSUME NEW i \in InnerRecords
    PROVE  [i EXCEPT !.migrationNeeded = TRUE] \in InnerRecords
BY Zenon DEF InnerRecords

(***************************************************************************)
(* invalidate_auth_epoch raises the epoch and nothing else.                *)
(***************************************************************************)
LEMMA InvalidateAuthEpochType ==
    ASSUME NEW i \in InnerRecords
    PROVE  /\ InvalidateAuthEpoch(i) \in InnerRecords
           /\ InvalidateAuthEpoch(i).epoch > i.epoch
           /\ InvalidateAuthEpoch(i).database = i.database
BY DEF InvalidateAuthEpoch, InnerRecords

(***************************************************************************)
(* set_process_identification_type keeps the types and the vault, and      *)
(* never lowers the epoch.                                                 *)
(***************************************************************************)
LEMMA SetProcessIdentificationTypeType ==
    ASSUME NEW i \in InnerRecords, NEW t \in IdentTypes
    PROVE  /\ SetProcessIdentificationType(i, t) \in InnerRecords
           /\ SetProcessIdentificationType(i, t).epoch >= i.epoch
           /\ SetProcessIdentificationType(i, t).database = i.database
<1> DEFINE j == InvalidateAuthEpoch(i)
<1>1. j \in InnerRecords /\ j.epoch > i.epoch /\ j.database = i.database
  BY InvalidateAuthEpochType
<1>2. SetProcessIdentificationType(i, t) =
        IF i.identType = t
        THEN i
        ELSE [j EXCEPT !.identType = t, !.authorized = NoEntries,
                       !.denied = NoEntries, !.expiryRecorded = FALSE]
  BY DEF SetProcessIdentificationType
<1> HIDE DEF j
<1>3. SetProcessIdentificationType(i, t) \in InnerRecords
  BY ZenonT(90), <1>1, <1>2, NoEntriesType DEF InnerRecords
<1>4. /\ SetProcessIdentificationType(i, t).epoch >= i.epoch
      /\ SetProcessIdentificationType(i, t).database = i.database
  BY <1>1, <1>2 DEF InnerRecords
<1> QED
  BY <1>3, <1>4

(***************************************************************************)
(* The vault a client has opened is installed under a new epoch.           *)
(***************************************************************************)
LEMMA OpenInstalledType ==
    ASSUME NEW i \in InnerRecords, NEW c \in Clients,
           client[c].type \in IdentTypes, client[c].db \in Nat
    PROVE  /\ OpenInstalled(i, c) \in InnerRecords
           /\ OpenInstalled(i, c).epoch > i.epoch
           /\ OpenInstalled(i, c).database = client[c].db
<1> DEFINE j == InvalidateAuthEpoch(i)
           k == SetProcessIdentificationType(j, client[c].type)
<1>1. j \in InnerRecords /\ j.epoch > i.epoch
  BY InvalidateAuthEpochType
<1> HIDE DEF j
<1>2. k \in InnerRecords /\ k.epoch >= j.epoch
  BY <1>1, SetProcessIdentificationTypeType
<1>3. OpenInstalled(i, c) = [k EXCEPT !.database = client[c].db]
  BY DEF OpenInstalled, j, k
<1> HIDE DEF k
<1>4. OpenInstalled(i, c) \in InnerRecords
  BY <1>2, <1>3 DEF InnerRecords
<1>5. OpenInstalled(i, c).epoch = k.epoch /\ OpenInstalled(i, c).database = client[c].db
  BY <1>2, <1>3 DEF InnerRecords
<1>6. i.epoch \in Nat /\ j.epoch \in Nat /\ k.epoch \in Nat
  BY <1>1, <1>2 DEF InnerRecords
<1> QED
  BY <1>1, <1>2, <1>4, <1>5, <1>6

(***************************************************************************)
(* So do the authorization of a scope ...                                  *)
(***************************************************************************)
LEMMA AuthorizeType ==
    ASSUME NEW i \in InnerRecords, NEW a \in AccessScopes, NEW s \in Scopes,
           NEW now \in Instants
    PROVE  /\ Authorize(i, a, s, now) \in InnerRecords
           /\ Authorize(i, a, s, now).epoch = i.epoch
           /\ Authorize(i, a, s, now).database = i.database
<1>1. Remove(i.denied[a], s) \in Caches(Scopes, Instants)
  BY ScopesFinite, RemoveType DEF InnerRecords, AuthCaches
<1>2. Insert(i.authorized[a], s, now) \in Caches(Scopes, Instants)
  BY ScopesFinite, InsertType DEF InnerRecords, AuthCaches
<1> QED
  BY <1>1, <1>2 DEF Authorize, InnerRecords, AuthCaches

(***************************************************************************)
(* ... and an unload, which leaves no vault open.                          *)
(***************************************************************************)
LEMMA UnloadLockedType ==
    ASSUME NEW i \in InnerRecords
    PROVE  /\ UnloadLocked(i) \in InnerRecords
           /\ UnloadLocked(i).epoch >= i.epoch
           /\ UnloadLocked(i).database = NoHandle
<1> DEFINE j == InvalidateAuthEpoch(i)
<1>1. j \in InnerRecords /\ j.epoch > i.epoch
  BY InvalidateAuthEpochType
<1>2. UnloadLocked(i) =
        [j EXCEPT !.database = NoHandle, !.verifier = FALSE,
                  !.authorized = NoEntries, !.expiryRecorded = FALSE]
  BY DEF UnloadLocked
<1> HIDE DEF j
<1>3. [j EXCEPT !.database = NoHandle, !.verifier = FALSE,
                !.authorized = NoEntries, !.expiryRecorded = FALSE] \in InnerRecords
  BY <1>1, NoEntriesType DEF InnerRecords, NoHandle
<1>4. UnloadLocked(i).epoch >= i.epoch /\ UnloadLocked(i).database = NoHandle
  BY <1>1, <1>2 DEF InnerRecords
<1> QED
  BY <1>2, <1>3, <1>4

-----------------------------------------------------------------------------
(* What the steps leave alone *)

(***************************************************************************)
(* Of a request's steps only these touch the inner state.                  *)
(***************************************************************************)
LEMMA RequestFrame ==
    ASSUME NEW c \in Clients, Request(c)
    PROVE  \/ inner' = inner
           \/ GuiCheckDenials(c) \/ RecordDenial(c) \/ UnlockCommit(c) \/ OpenFailed(c)
           \/ OpenCommit(c) \/ Lock(c) \/ AuthorizeCheck(c) \/ PublishSetting(c)
           \/ RegisterJob(c) \/ UndoJob(c)
BY DEF Request, Advance, Start, Cancel, GuiReadClock, PromptAllowed, PromptDismissed,
       PromptDenied, UnlockWrongPassword, UnlockVerified, UnlockReadSettings,
       UnlockSuperseded, OpenBegin, OpenSucceeded, OpenLoad, AuthorizeStart,
       AuthorizeReadTtl, AuthorizeReadClock, BeginActiveRequest, HandleRead, Respond,
       WriteSetting, CreateJob

(***************************************************************************)
(* Of the sweep's steps only these do.                                     *)
(***************************************************************************)
LEMMA SweepFrame ==
    ASSUME Sweep
    PROVE  inner' = inner \/ SweepClockFailure \/ SweepExpire \/ SweepUnload
BY DEF Sweep, SweepTick, SweepStart, SweepReadSettings, SweepCleanup

-----------------------------------------------------------------------------
(* Type correctness *)

(***************************************************************************)
(* The inner state keeps its type and its epoch never goes back.           *)
(***************************************************************************)
InnerGoesOn == inner' \in InnerRecords /\ inner'.epoch >= inner.epoch

(***************************************************************************)
(* Every step leaves an inner state, and the epoch never falls.             *)
(***************************************************************************)
LEMMA InnerStep ==
    ASSUME TypeOK, [Next]_vars
    PROVE  InnerGoesOn
<1> USE DEF InnerGoesOn
<1>i. /\ inner \in InnerRecords
      /\ inner.epoch \in Nat /\ inner.authorized \in AuthCaches /\ inner.denied \in AuthCaches
      /\ inner.activeJobs \in SUBSET (1 .. MaxRequests)
  BY DEF TypeOK, InnerRecords
<1>c. clock \in Instants
  BY DEF TypeOK
<1>r. ASSUME NEW c \in Clients
      PROVE  /\ client[c].now \in Instants /\ client[c].ttl \in Nat
             /\ client[c].type \in IdentTypes /\ client[c].db \in Nat
             /\ client[c].id \in 0 .. MaxRequests
  BY DEF TypeOK, ClientRecords
<1>a. ASSUME NEW c \in Clients, ~At(c, "idle")
      PROVE  client[c].scope \in Scopes
  BY <1>a, SessionAssumption DEF TypeOK, RequestFits
<1>b. ASSUME NEW c \in Clients, client[c].pc \notin {"idle", "lock"}
      PROVE  Access(c) \in AccessScopes
  BY <1>b DEF TypeOK, RequestFits, ClientRecords, Access
<1>0. CASE inner' = inner
  BY <1>0, <1>i
<1>1. ASSUME NEW c \in Clients, GuiCheckDenials(c)
      PROVE  InnerGoesOn
  <2> DEFINE cache == AfterContains(inner.denied[Access(c)], client[c].scope,
                                    client[c].now, inner.denialTtl)
  <2>1. Access(c) \in AccessScopes
    BY <1>1, <1>b DEF GuiCheckDenials, At
  <2>2. cache \in Caches(Scopes, Instants)
    BY <1>i, <2>1, ScopesFinite, AfterContainsType DEF AuthCaches
  <2>3. inner' = [inner EXCEPT !.denied[Access(c)] = cache]
    BY <1>1 DEF GuiCheckDenials
  <2> QED
    BY <1>i, <2>1, <2>2, <2>3 DEF InnerRecords, AuthCaches
<1>2. ASSUME NEW c \in Clients, RecordDenial(c)
      PROVE  InnerGoesOn
  <2> DEFINE cache == Insert(inner.denied[Access(c)], client[c].scope, client[c].now)
  <2>1. Access(c) \in AccessScopes /\ client[c].scope \in Scopes
    BY <1>2, <1>a, <1>b DEF RecordDenial, At
  <2>2. cache \in Caches(Scopes, Instants)
    BY <1>i, <1>r, <2>1, ScopesFinite, InsertType DEF AuthCaches
  <2>3. inner' = [inner EXCEPT !.denied[Access(c)] = cache]
    BY <1>2 DEF RecordDenial
  <2> QED
    BY <1>i, <2>1, <2>2, <2>3 DEF InnerRecords, AuthCaches
<1>3. ASSUME NEW c \in Clients, UnlockCommit(c)
      PROVE  InnerGoesOn
  <2> DEFINE i == [inner EXCEPT !.denialTtl = client[c].ttl]
             hash == ScopeOf[c][client[c].type]
  <2>1. Access(c) \in AccessScopes /\ hash \in Scopes
    BY <1>3, <1>b, <1>r, SessionAssumption DEF UnlockCommit, At
  <2>2. i \in InnerRecords /\ i.epoch = inner.epoch
    BY <1>i, <1>r DEF InnerRecords
  <2>3. inner' = inner \/ inner' = Authorize(i, Access(c), hash, clock)
    BY <1>3 DEF UnlockCommit
  <2> HIDE DEF i, hash
  <2> QED
    BY <1>0, <1>c, <1>i, <2>1, <2>2, <2>3, AuthorizeType
<1>4. ASSUME NEW c \in Clients, OpenFailed(c)
      PROVE  InnerGoesOn
  <2>1. inner' = inner \/ inner' = [inner EXCEPT !.migrationNeeded = TRUE]
    BY <1>4 DEF OpenFailed
  <2>2. ASSUME inner' = [inner EXCEPT !.migrationNeeded = TRUE]
        PROVE  InnerGoesOn
    <3>1. inner' \in InnerRecords
      BY <1>i, <2>2, MigrationType
    <3>2. inner'.epoch = inner.epoch
      BY <1>i, <2>2 DEF InnerRecords
    <3> QED
      BY <1>i, <3>1, <3>2
  <2> QED
    BY <1>0, <2>1, <2>2
<1>5. ASSUME NEW c \in Clients, OpenCommit(c)
      PROVE  InnerGoesOn
  <2> DEFINE hash == ScopeOf[c][client[c].type]
             i == OpenInstalled(inner, c)
             j == [i EXCEPT !.verifier = TRUE, !.denialTtl = client[c].ttl]
  <2>1. Access(c) \in AccessScopes /\ hash \in Scopes
    BY <1>5, <1>b, <1>r, SessionAssumption DEF OpenCommit, At
  <2>2. i \in InnerRecords /\ i.epoch > inner.epoch
    BY <1>r, <1>i, OpenInstalledType
  <2> HIDE DEF i
  <2>3. j \in InnerRecords /\ j.epoch = i.epoch
    BY <1>r, <2>2 DEF InnerRecords
  <2>4. inner' \in {Authorize(j, Access(c), hash, clock), inner, i}
    BY <1>5 DEF OpenCommit, i
  <2> HIDE DEF hash, j
  <2>5. i.epoch \in Nat
    BY <2>2 DEF InnerRecords
  <2> QED
    BY <1>0, <1>c, <1>i, <2>1, <2>2, <2>3, <2>4, <2>5, AuthorizeType
<1>6. ASSUME NEW c \in Clients, Lock(c)
      PROVE  InnerGoesOn
  <2> DEFINE i == InvalidateAuthEpoch(inner)
  <2>1. i \in InnerRecords /\ i.epoch > inner.epoch /\ i.epoch \in Nat
    BY <1>i, InvalidateAuthEpochType DEF InnerRecords
  <2>2. \E b \in BOOLEAN :
            inner' = [i EXCEPT !.authorized = NoEntries, !.expiryRecorded = b]
    BY <1>6 DEF Lock
  <2> HIDE DEF i
  <2>3. inner' \in InnerRecords
    BY <2>1, <2>2, NoEntriesType, AuthorizationsType
  <2>4. inner'.epoch = i.epoch
    BY <2>1, <2>2, AuthorizationsEpoch
  <2> QED
    BY <1>i, <2>1, <2>3, <2>4
<1>7. ASSUME NEW c \in Clients, AuthorizeCheck(c)
      PROVE  InnerGoesOn
  <2> DEFINE cache == AfterContains(inner.authorized[Access(c)], client[c].scope,
                                    client[c].now, client[c].ttl)
  <2>1. Access(c) \in AccessScopes
    BY <1>7, <1>b DEF AuthorizeCheck, At
  <2>2. cache \in Caches(Scopes, Instants)
    BY <1>i, <2>1, ScopesFinite, AfterContainsType DEF AuthCaches
  <2>3. inner' = inner \/ inner' = [inner EXCEPT !.authorized[Access(c)] = cache]
    BY <1>7 DEF AuthorizeCheck
  <2> QED
    BY <1>0, <1>i, <2>1, <2>2, <2>3 DEF InnerRecords, AuthCaches
<1>8. ASSUME NEW c \in Clients, PublishSetting(c)
      PROVE  InnerGoesOn
  <2>1. client[c].write \in SettingWrites /\ client[c].write.name \in {"denialTtl", "identType"}
    BY <1>8, SessionAssumption DEF TypeOK, RequestFits, PublishSetting, At
  <2>2. CASE client[c].write.name = "denialTtl"
    BY <1>8, <1>i, <2>1, <2>2 DEF PublishSetting, SettingWrites, InnerRecords
  <2>3. CASE client[c].write.name = "identType"
    <3>1. client[c].write.value \in IdentTypes
      BY <2>1, <2>3 DEF SettingWrites, AccessScopes
    <3>2. inner' = SetProcessIdentificationType(inner, client[c].write.value)
      BY <1>8, <2>3 DEF PublishSetting
    <3> QED
      BY <1>i, <3>1, <3>2, SetProcessIdentificationTypeType
  <2> QED
    BY <2>1, <2>2, <2>3
<1>9. ASSUME NEW c \in Clients, RegisterJob(c) \/ UndoJob(c)
      PROVE  InnerGoesOn
  <2>1. client[c].kind = "job"
    BY <1>9 DEF TypeOK, RequestFits, RegisterJob, UndoJob, At
  <2>2. client[c].id \in 1 .. MaxRequests
    BY <1>r, <2>1, SessionAssumption DEF TypeOK, RequestFits
  <2> QED
    BY <1>9, <1>i, <2>2 DEF RegisterJob, UndoJob, InnerRecords
<1>10. ASSUME NEW task \in tasks, JobEnds(task)
       PROVE  InnerGoesOn
  BY <1>10, <1>i DEF JobEnds, InnerRecords
<1>11. ASSUME SweepClockFailure
       PROVE  InnerGoesOn
  <2> DEFINE i == InvalidateAuthEpoch(inner)
             cleared == [i EXCEPT !.authorized = NoEntries, !.expiryRecorded = FALSE]
  <2>1. i \in InnerRecords /\ i.epoch > inner.epoch /\ i.epoch \in Nat
    BY <1>i, InvalidateAuthEpochType DEF InnerRecords
  <2> HIDE DEF i
  <2>2. cleared \in InnerRecords /\ cleared.epoch = i.epoch
    BY <2>1, NoEntriesType DEF InnerRecords
  <2>3. inner' = cleared \/ inner' = UnloadLocked(cleared)
    BY <1>11 DEF SweepClockFailure, i
  <2> HIDE DEF cleared
  <2>4. /\ UnloadLocked(cleared) \in InnerRecords
        /\ UnloadLocked(cleared).epoch >= cleared.epoch
    BY <2>2, UnloadLockedType
  <2>5. UnloadLocked(cleared).epoch \in Nat
    BY <2>4 DEF InnerRecords
  <2> QED
    BY <1>i, <2>1, <2>2, <2>3, <2>4, <2>5
<1>12. ASSUME SweepExpire
       PROVE  InnerGoesOn
  <2> DEFINE kept == [a \in AccessScopes |->
                         RetainUnexpired(inner.authorized[a], sweep.now, sweep.ttl[a])]
  <2>1. kept \in AuthCaches
    BY <1>i, ScopesFinite, RetainUnexpiredType DEF AuthCaches
  <2>2. inner' = inner \/ \E b \in BOOLEAN :
            inner' = [inner EXCEPT !.authorized = kept, !.expiryRecorded = b]
    BY <1>12 DEF SweepExpire
  <2> HIDE DEF kept
  <2>3. ASSUME NEW b \in BOOLEAN,
               inner' = [inner EXCEPT !.authorized = kept, !.expiryRecorded = b]
        PROVE  InnerGoesOn
    <3>1. inner' \in InnerRecords
      BY <1>i, <2>1, <2>3, AuthorizationsType
    <3>2. inner'.epoch = inner.epoch
      BY <1>i, <2>3, AuthorizationsEpoch
    <3> QED
      BY <1>i, <3>1, <3>2
  <2> QED
    BY <1>0, <2>2, <2>3
<1>13. ASSUME SweepUnload
       PROVE  InnerGoesOn
  <2> DEFINE cleaned == IF sweep.due THEN [inner EXCEPT !.lastCleanup = sweep.now] ELSE inner
  <2>1. cleaned \in InnerRecords /\ cleaned.epoch = inner.epoch
    BY <1>i DEF TypeOK, SweepRecords, InnerRecords
  <2>2. inner' = cleaned \/ inner' = UnloadLocked(cleaned)
    BY <1>13 DEF SweepUnload
  <2> HIDE DEF cleaned
  <2>3. /\ UnloadLocked(cleaned) \in InnerRecords
        /\ UnloadLocked(cleaned).epoch >= cleaned.epoch
    BY <2>1, UnloadLockedType
  <2> QED
    BY <1>i, <2>1, <2>2, <2>3
<1>14. CASE Tick \/ UNCHANGED vars
  BY <1>0, <1>14 DEF Tick, vars
<1> HIDE DEF InnerGoesOn
<1>15. ASSUME NEW c \in Clients, Request(c)
       PROVE  InnerGoesOn
  <2>1. \/ inner' = inner
        \/ GuiCheckDenials(c) \/ RecordDenial(c) \/ UnlockCommit(c) \/ OpenFailed(c)
        \/ OpenCommit(c) \/ Lock(c) \/ AuthorizeCheck(c) \/ PublishSetting(c)
        \/ RegisterJob(c) \/ UndoJob(c)
    BY <1>15, RequestFrame
  <2> QED
    BY <1>0, <1>1, <1>2, <1>3, <1>4, <1>5, <1>6, <1>7, <1>8, <1>9, <2>1
<1>16. CASE Sweep
  <2>1. inner' = inner \/ SweepClockFailure \/ SweepExpire \/ SweepUnload
    BY <1>16, SweepFrame
  <2> QED
    BY <1>0, <1>11, <1>12, <1>13, <2>1
<1> QED
  BY <1>10, <1>14, <1>15, <1>16 DEF Next

-----------------------------------------------------------------------------
(* The records of the requests *)

(***************************************************************************)
(* A client without a request.                                             *)
(***************************************************************************)
LEMMA IdleType == Idle \in ClientRecords
<1>1. /\ 0 \in Nat /\ 0 \in Instants /\ 0 \in 0 .. MaxRequests
      /\ <<>> \in Seq(AccessScopes) /\ ProcessChain \in IdentTypes
  BY SessionAssumption DEF Instants
<1>2. "idle" \in Pcs
  BY DEF Pcs
<1> QED
  BY <1>1, <1>2, Zenon DEF Idle, ClientRecords, NoHandle

(***************************************************************************)
(* A request that only moves on keeps its type.                            *)
(***************************************************************************)
LEMMA PcType ==
    ASSUME NEW r \in ClientRecords, NEW pc \in Pcs
    PROVE  [r EXCEPT !.pc = pc] \in ClientRecords
BY Zenon DEF ClientRecords

(***************************************************************************)
(* So do the requests of all clients when one of them moves on.            *)
(***************************************************************************)
LEMMA GotoType ==
    ASSUME client \in [Clients -> ClientRecords], NEW c \in Clients, NEW pc \in Pcs, Goto(c, pc)
    PROVE  client' \in [Clients -> ClientRecords]
BY PcType DEF Goto

(***************************************************************************)
(* The record of a request that is over, that its dialog repeats, or that  *)
(* tries its next access scope: it knows no handle and no epoch.           *)
(***************************************************************************)
Ended(c) ==
    /\ client' \in [Clients -> ClientRecords]
    /\ client'[c].pc \in {"idle", "prompt", "authorize"}
    /\ client'[c].db = 0 /\ client'[c].epoch = 0
    /\ RequestFits(c)'

(***************************************************************************)
(* A reply, a refused unlock and a denied access each end a request in     *)
(* this sense.                                                             *)
(***************************************************************************)
LEMMA ReplyEnds ==
    ASSUME client \in [Clients -> ClientRecords], NEW c \in Clients, Reply(c)
    PROVE  Ended(c)
<1>1. client' \in [Clients -> ClientRecords] /\ client'[c] = Idle
  BY IdleType DEF Reply
<1> QED
  BY <1>1 DEF Ended, Idle, RequestFits, At, HoldsGuard,
                        Serving, NoHandle

(***************************************************************************)
(* RefuseUnlock: a direct request is over, a dialog may ask again.         *)
(***************************************************************************)
LEMMA RefuseUnlockEnds ==
    ASSUME client \in [Clients -> ClientRecords], NEW c \in Clients, RequestFits(c), 
           ~At(c, "idle"), ~At(c, "lock"), RefuseUnlock(c)
    PROVE  Ended(c)
<1> DEFINE r == client[c]
           again == [Idle EXCEPT !.pc = "prompt", !.kind = "gui", !.tries = r.tries,
                              !.scope = r.scope, !.attempts = r.attempts + 1]
<1>0. r \in ClientRecords /\ r.attempts \in Nat
  BY DEF ClientRecords
<1>1. CASE Reply(c)
  BY <1>1, ReplyEnds
<1>2. CASE client' = [client EXCEPT ![c] = again]
  <2>1. /\ r.tries \in Seq(AccessScopes) /\ r.scope \in Scopes \cup {NoScope}
        /\ r.attempts + 1 \in Nat /\ "prompt" \in Pcs
        /\ "gui" \in {"none", "unlock", "gui", "lock", "read", "setting", "job"}
    BY <1>0 DEF ClientRecords, Pcs
  <2>2. again \in ClientRecords
    BY <2>1, IdleType, Zenon DEF ClientRecords
  <2>3. client' \in [Clients -> ClientRecords] /\ client'[c] = again
    BY <1>2, <2>2
  <2>4. /\ again.pc = "prompt" /\ again.kind = "gui" /\ again.db = 0 /\ again.epoch = 0
        /\ again.tries = r.tries /\ again.scope = r.scope
    BY DEF Idle, NoHandle
  <2> HIDE DEF again
  <2> QED
    BY <2>3, <2>4 DEF Ended, RequestFits, At, HoldsGuard, Serving
<1> QED
  BY <1>1, <1>2 DEF RefuseUnlock

(***************************************************************************)
(* DenyAccess: the request is over or tries its next access scope.         *)
(***************************************************************************)
LEMMA DenyAccessEnds ==
    ASSUME client \in [Clients -> ClientRecords], NEW c \in Clients, RequestFits(c), 
           ~At(c, "idle"), DenyAccess(c)
    PROVE  Ended(c)
<1> DEFINE r == client[c]
           next == [Idle EXCEPT !.pc = "authorize", !.kind = r.kind, !.id = r.id,
                              !.tries = Tail(r.tries), !.scope = r.scope]
<1>0. r \in ClientRecords /\ r.tries \in Seq(AccessScopes)
  BY DEF ClientRecords
<1>1. CASE Reply(c)
  BY <1>1, ReplyEnds
<1>2. CASE Len(r.tries) > 1 /\ client' = [client EXCEPT ![c] = next]
  <2>5. Tail(r.tries) \in Seq(AccessScopes) /\ Tail(r.tries) # <<>>
    BY <1>0, <1>2
  <2>1. /\ r.scope \in Scopes \cup {NoScope}
        /\ r.id \in 0 .. MaxRequests /\ "authorize" \in Pcs
        /\ r.kind \in {"none", "unlock", "gui", "lock", "read", "setting", "job"}
    BY <1>0, <1>2 DEF ClientRecords, Pcs
  <2>2. next \in ClientRecords
    BY <2>1, <2>5, IdleType, Zenon DEF ClientRecords
  <2>3. client' \in [Clients -> ClientRecords] /\ client'[c] = next
    BY <1>2, <2>2
  <2>4. /\ next.pc = "authorize" /\ next.kind = r.kind /\ next.db = 0 /\ next.epoch = 0
        /\ next.tries = Tail(r.tries) /\ next.scope = r.scope /\ next.id = r.id
    BY DEF Idle, NoHandle
  <2> HIDE DEF next
  <2> QED
    BY <2>5, <2>3, <2>4 DEF Ended, RequestFits, At, HoldsGuard, Serving
<1> QED
  BY <1>1, <1>2 DEF DenyAccess

(***************************************************************************)
(* The steps that always end a request.                                    *)
(***************************************************************************)
LEMMA EndingSteps ==
    ASSUME client \in [Clients -> ClientRecords], NEW c \in Clients, RequestFits(c),
           \/ RecordDenial(c) \/ UnlockWrongPassword(c) \/ UnlockCommit(c)
           \/ UnlockSuperseded(c) \/ OpenFailed(c) \/ OpenCommit(c) \/ Lock(c)
           \/ Respond(c) \/ Cancel(c) \/ PromptDismissed(c)
    PROVE  Ended(c)
<1>1. Reply(c) \/ (RefuseUnlock(c) /\ ~At(c, "idle") /\ ~At(c, "lock"))
  BY DEF RecordDenial, UnlockWrongPassword, UnlockCommit, UnlockSuperseded, OpenFailed,
         OpenCommit, Lock, Respond, Cancel, PromptDismissed, At
<1> QED
  BY <1>1, ReplyEnds, RefuseUnlockEnds

(***************************************************************************)
(* The steps that move a request on without changing what it knows.        *)
(***************************************************************************)
LEMMA GotoSteps ==
    ASSUME client \in [Clients -> ClientRecords], NEW c \in Clients, RequestFits(c),
           \/ PromptAllowed(c) \/ OpenBegin(c) \/ BeginActiveRequest(c) \/ HandleRead(c)
           \/ PublishSetting(c) \/ RegisterJob(c) \/ CreateJob(c) \/ UndoJob(c)
    PROVE  \E pc \in {"unlock", "open", "handler", "respond", "createJob", "undoJob"} :
               Goto(c, pc) /\ RequestFits(c)'
<1> DEFINE Went == \E pc \in {"unlock", "open", "handler", "respond", "createJob", "undoJob"} :
               Goto(c, pc) /\ RequestFits(c)'
<1>1. CASE PromptAllowed(c)
  BY <1>1 DEF PromptAllowed, ClientRecords, RequestFits, Goto, At, HoldsGuard, Serving
<1>2. CASE OpenBegin(c)
  BY <1>2 DEF OpenBegin, ClientRecords, RequestFits, Goto, At, HoldsGuard, Serving
<1>3. CASE BeginActiveRequest(c)
  BY <1>3 DEF BeginActiveRequest, ClientRecords, RequestFits, Goto, At, HoldsGuard, Serving
<1>4. CASE HandleRead(c)
  BY <1>4 DEF HandleRead, ClientRecords, RequestFits, Goto, At, HoldsGuard, Serving
<1>5. CASE PublishSetting(c)
  BY <1>5 DEF PublishSetting, ClientRecords, RequestFits, Goto, At, HoldsGuard, Serving
<1>6. CASE RegisterJob(c)
  BY <1>6 DEF RegisterJob, ClientRecords, RequestFits, Goto, At, HoldsGuard, Serving
<1>7. CASE CreateJob(c)
  BY <1>7 DEF CreateJob, ClientRecords, RequestFits, Goto, At, HoldsGuard, Serving
<1>8. CASE UndoJob(c)
  BY <1>8 DEF UndoJob, ClientRecords, RequestFits, Goto, At, HoldsGuard, Serving
<1> HIDE DEF Went
<1> QED
  BY <1>1, <1>2, <1>3, <1>4, <1>5, <1>6, <1>7, <1>8

(***************************************************************************)
(* What TypeOK says of one client.                                         *)
(***************************************************************************)
Fits(c) ==
    /\ client \in [Clients -> ClientRecords]
    /\ RequestFits(c)
    /\ KnowsNoFuture(c)

(***************************************************************************)
(* The step leaves c at one of pcs, with a record that fits.               *)
(***************************************************************************)
Reaches(c, pcs) == Fits(c)' /\ client'[c].pc \in pcs

(***************************************************************************)
(* An ended request fits.                                                  *)
(***************************************************************************)
LEMMA EndedFits ==
    ASSUME TypeOK, InnerGoesOn, NEW c \in Clients, Ended(c), handles' \in Nat
    PROVE  Fits(c)'
BY DEF Ended, Fits, KnowsNoFuture, InnerGoesOn, InnerRecords

(***************************************************************************)
(* A request that moves on fits in the state after, since no handle and no *)
(* epoch are taken back.                                                   *)
(***************************************************************************)
LEMMA GotoReaches ==
    ASSUME TypeOK, InnerGoesOn, NEW c \in Clients, NEW pc \in Pcs, Goto(c, pc), RequestFits(c)',
           handles' = handles
    PROVE  Reaches(c, {pc})
<1>1. client' \in [Clients -> ClientRecords]
  BY GotoType DEF TypeOK
<1>2. client[c].db <= handles /\ client[c].epoch <= inner.epoch
  BY DEF TypeOK, KnowsNoFuture
<1>3. /\ client[c].epoch \in Nat /\ inner.epoch \in Nat /\ inner'.epoch \in Nat
      /\ inner'.epoch >= inner.epoch
  BY DEF TypeOK, ClientRecords, InnerRecords, InnerGoesOn
<1>4. /\ client'[c].db = client[c].db /\ client'[c].epoch = client[c].epoch
      /\ client'[c].pc = pc
  BY DEF Goto, TypeOK, ClientRecords
<1> QED
  BY <1>1, <1>2, <1>3, <1>4 DEF Reaches, Fits, KnowsNoFuture

(***************************************************************************)
(* A request may learn handles and epochs that were handed out.            *)
(***************************************************************************)
LEMMA LearnsReaches ==
    ASSUME TypeOK, InnerGoesOn, NEW c \in Clients, NEW x \in ClientRecords,
           client' = [client EXCEPT ![c] = x], RequestFits(c)',
           x.db <= handles', x.epoch <= inner.epoch
    PROVE  Reaches(c, {x.pc})
<1>1. client' \in [Clients -> ClientRecords] /\ client'[c] = x
  BY DEF TypeOK
<1>2. /\ inner.epoch \in Nat /\ inner'.epoch \in Nat /\ x.epoch \in Nat
      /\ inner'.epoch >= inner.epoch
  BY DEF TypeOK, InnerRecords, InnerGoesOn, ClientRecords
<1> QED
  BY <1>1, <1>2 DEF Reaches, Fits, KnowsNoFuture

(***************************************************************************)
(* The steps in which a request learns something, one lemma each.          *)
(***************************************************************************)
LEMMA GuiReadClockReaches ==
    ASSUME TypeOK, InnerGoesOn, NEW c \in Clients, GuiReadClock(c)
    PROVE  Ended(c) \/ Reaches(c, {"denials", "prompt"})
<1> DEFINE r == client[c]
           x == [r EXCEPT !.pc = "denials", !.now = clock]
<1>t. /\ client \in [Clients -> ClientRecords] /\ r \in ClientRecords
      /\ RequestFits(c) /\ KnowsNoFuture(c)
  BY DEF TypeOK
<1>f. /\ inner.database \in Nat /\ inner.epoch \in Nat /\ inner.identType \in IdentTypes
      /\ inner.database <= handles /\ handles \in Nat
      /\ disk.denialTtl \in Nat /\ disk.identType \in IdentTypes
      /\ disk.authTtl \in [AccessScopes -> Nat]
      /\ clock \in Instants /\ 0 \in Instants /\ 0 \in Nat /\ handles + 1 \in Nat
  BY SessionAssumption DEF TypeOK, NothingFromTheFuture, InnerRecords, Disks, Instants
<1>1. x \in ClientRecords
  BY <1>t, <1>f, Zenon DEF ClientRecords, Pcs
<1>2. CASE client' = [client EXCEPT ![c] = x]
  <2>1. RequestFits(c)'
    BY <1>2, <1>t DEF GuiReadClock, ClientRecords, RequestFits, At, HoldsGuard, Serving
  <2>2. x.db <= handles' /\ x.epoch <= inner.epoch /\ x.pc = "denials"
    BY <1>t, <1>f DEF GuiReadClock, ClientRecords, KnowsNoFuture
  <2> HIDE DEF x
  <2> QED
    BY <1>1, <1>2, <2>1, <2>2, LearnsReaches DEF Reaches
<1>3. CASE Goto(c, "prompt")
  <2>1. RequestFits(c)'
    BY <1>3, <1>t DEF GuiReadClock, ClientRecords, RequestFits, Goto, At, HoldsGuard, Serving
  <2> QED
    BY <1>3, <2>1, GotoReaches DEF Reaches, GuiReadClock, Pcs
<1> QED
  BY <1>2, <1>3 DEF GuiReadClock

(***************************************************************************)
(* The denials are looked up.                                              *)
(***************************************************************************)
LEMMA GuiCheckDenialsReaches ==
    ASSUME TypeOK, InnerGoesOn, NEW c \in Clients, GuiCheckDenials(c)
    PROVE  Ended(c) \/ Reaches(c, {"prompt"})
<1> DEFINE r == client[c]
           x == [r EXCEPT !.pc = "prompt", !.now = 0]
<1>t. /\ client \in [Clients -> ClientRecords] /\ r \in ClientRecords
      /\ RequestFits(c) /\ KnowsNoFuture(c)
  BY DEF TypeOK
<1>f. /\ inner.database \in Nat /\ inner.epoch \in Nat /\ inner.identType \in IdentTypes
      /\ inner.database <= handles /\ handles \in Nat
      /\ disk.denialTtl \in Nat /\ disk.identType \in IdentTypes
      /\ disk.authTtl \in [AccessScopes -> Nat]
      /\ clock \in Instants /\ 0 \in Instants /\ 0 \in Nat /\ handles + 1 \in Nat
  BY SessionAssumption DEF TypeOK, NothingFromTheFuture, InnerRecords, Disks, Instants
<1>1. x \in ClientRecords
  BY <1>t, <1>f, Zenon DEF ClientRecords, Pcs
<1>2. CASE client' = [client EXCEPT ![c] = x]
  <2>1. RequestFits(c)'
    BY <1>2, <1>t DEF GuiCheckDenials, ClientRecords, RequestFits, At, HoldsGuard, Serving
  <2>2. x.db <= handles' /\ x.epoch <= inner.epoch /\ x.pc = "prompt"
    BY <1>t, <1>f DEF GuiCheckDenials, ClientRecords, KnowsNoFuture
  <2> HIDE DEF x
  <2> QED
    BY <1>1, <1>2, <2>1, <2>2, LearnsReaches DEF Reaches
<1>3. CASE Reply(c)
  BY <1>3, <1>t, ReplyEnds DEF GuiCheckDenials, At
<1> QED
  BY <1>2, <1>3 DEF GuiCheckDenials

(***************************************************************************)
(* The person refuses.                                                     *)
(***************************************************************************)
LEMMA PromptDeniedReaches ==
    ASSUME TypeOK, InnerGoesOn, NEW c \in Clients, PromptDenied(c)
    PROVE  Ended(c) \/ Reaches(c, {"deny"})
<1> DEFINE r == client[c]
           x == [r EXCEPT !.pc = "deny", !.now = clock]
<1>t. /\ client \in [Clients -> ClientRecords] /\ r \in ClientRecords
      /\ RequestFits(c) /\ KnowsNoFuture(c)
  BY DEF TypeOK
<1>f. /\ inner.database \in Nat /\ inner.epoch \in Nat /\ inner.identType \in IdentTypes
      /\ inner.database <= handles /\ handles \in Nat
      /\ disk.denialTtl \in Nat /\ disk.identType \in IdentTypes
      /\ disk.authTtl \in [AccessScopes -> Nat]
      /\ clock \in Instants /\ 0 \in Instants /\ 0 \in Nat /\ handles + 1 \in Nat
  BY SessionAssumption DEF TypeOK, NothingFromTheFuture, InnerRecords, Disks, Instants
<1>1. x \in ClientRecords
  BY <1>t, <1>f, Zenon DEF ClientRecords, Pcs
<1>2. CASE client' = [client EXCEPT ![c] = x]
  <2>1. RequestFits(c)'
    BY <1>2, <1>t DEF PromptDenied, ClientRecords, RequestFits, At, HoldsGuard, Serving
  <2>2. x.db <= handles' /\ x.epoch <= inner.epoch /\ x.pc = "deny"
    BY <1>t, <1>f DEF PromptDenied, ClientRecords, KnowsNoFuture
  <2> HIDE DEF x
  <2> QED
    BY <1>1, <1>2, <2>1, <2>2, LearnsReaches DEF Reaches
<1>3. CASE Reply(c)
  BY <1>3, <1>t, ReplyEnds DEF PromptDenied, At
<1> QED
  BY <1>2, <1>3 DEF PromptDenied

(***************************************************************************)
(* The password matches the verifier.                                      *)
(***************************************************************************)
LEMMA UnlockVerifiedReaches ==
    ASSUME TypeOK, InnerGoesOn, NEW c \in Clients, UnlockVerified(c)
    PROVE  Reaches(c, {"readSettings"})
<1> DEFINE r == client[c]
           x == [r EXCEPT !.pc = "readSettings", !.db = inner.database, !.epoch = inner.epoch,
                          !.type = inner.identType]
<1>t. /\ client \in [Clients -> ClientRecords] /\ r \in ClientRecords
      /\ RequestFits(c) /\ KnowsNoFuture(c)
  BY DEF TypeOK
<1>f. /\ inner.database \in Nat /\ inner.epoch \in Nat /\ inner.identType \in IdentTypes
      /\ inner.database <= handles /\ handles \in Nat
      /\ disk.denialTtl \in Nat /\ disk.identType \in IdentTypes
      /\ disk.authTtl \in [AccessScopes -> Nat]
      /\ clock \in Instants /\ 0 \in Instants /\ 0 \in Nat /\ handles + 1 \in Nat
  BY SessionAssumption DEF TypeOK, NothingFromTheFuture, InnerRecords, Disks, Instants
<1>1. x \in ClientRecords
  BY <1>t, <1>f, Zenon DEF ClientRecords, Pcs
<1>2. CASE client' = [client EXCEPT ![c] = x]
  <2>1. RequestFits(c)'
    BY <1>2, <1>t DEF UnlockVerified, ClientRecords, RequestFits, At, HoldsGuard, Serving
  <2>2. x.db <= handles' /\ x.epoch <= inner.epoch /\ x.pc = "readSettings"
    BY <1>t, <1>f DEF UnlockVerified, ClientRecords, KnowsNoFuture
  <2> HIDE DEF x
  <2> QED
    BY <1>1, <1>2, <2>1, <2>2, LearnsReaches DEF Reaches
<1> QED
  BY <1>2 DEF UnlockVerified

(***************************************************************************)
(* The unlock reads the denial TTL.                                        *)
(***************************************************************************)
LEMMA UnlockReadSettingsReaches ==
    ASSUME TypeOK, InnerGoesOn, NEW c \in Clients, UnlockReadSettings(c)
    PROVE  Ended(c) \/ Reaches(c, {"commit"})
<1> DEFINE r == client[c]
           x == [r EXCEPT !.pc = "commit", !.ttl = disk.denialTtl]
<1>t. /\ client \in [Clients -> ClientRecords] /\ r \in ClientRecords
      /\ RequestFits(c) /\ KnowsNoFuture(c)
  BY DEF TypeOK
<1>f. /\ inner.database \in Nat /\ inner.epoch \in Nat /\ inner.identType \in IdentTypes
      /\ inner.database <= handles /\ handles \in Nat
      /\ disk.denialTtl \in Nat /\ disk.identType \in IdentTypes
      /\ disk.authTtl \in [AccessScopes -> Nat]
      /\ clock \in Instants /\ 0 \in Instants /\ 0 \in Nat /\ handles + 1 \in Nat
  BY SessionAssumption DEF TypeOK, NothingFromTheFuture, InnerRecords, Disks, Instants
<1>1. x \in ClientRecords
  BY <1>t, <1>f, Zenon DEF ClientRecords, Pcs
<1>2. CASE client' = [client EXCEPT ![c] = x]
  <2>1. RequestFits(c)'
    BY <1>2, <1>t DEF UnlockReadSettings, ClientRecords, RequestFits, At, HoldsGuard, Serving
  <2>2. x.db <= handles' /\ x.epoch <= inner.epoch /\ x.pc = "commit"
    BY <1>t, <1>f DEF UnlockReadSettings, ClientRecords, KnowsNoFuture
  <2> HIDE DEF x
  <2> QED
    BY <1>1, <1>2, <2>1, <2>2, LearnsReaches DEF Reaches
<1>3. CASE RefuseUnlock(c)
  BY <1>3, <1>t, RefuseUnlockEnds DEF UnlockReadSettings, At
<1> QED
  BY <1>2, <1>3 DEF UnlockReadSettings

(***************************************************************************)
(* The database opens, under a new handle.                                 *)
(***************************************************************************)
LEMMA OpenSucceededReaches ==
    ASSUME TypeOK, InnerGoesOn, NEW c \in Clients, OpenSucceeded(c)
    PROVE  Reaches(c, {"load"})
<1> DEFINE r == client[c]
           x == [r EXCEPT !.pc = "load", !.db = handles + 1]
<1>t. /\ client \in [Clients -> ClientRecords] /\ r \in ClientRecords
      /\ RequestFits(c) /\ KnowsNoFuture(c)
  BY DEF TypeOK
<1>f. /\ inner.database \in Nat /\ inner.epoch \in Nat /\ inner.identType \in IdentTypes
      /\ inner.database <= handles /\ handles \in Nat
      /\ disk.denialTtl \in Nat /\ disk.identType \in IdentTypes
      /\ disk.authTtl \in [AccessScopes -> Nat]
      /\ clock \in Instants /\ 0 \in Instants /\ 0 \in Nat /\ handles + 1 \in Nat
  BY SessionAssumption DEF TypeOK, NothingFromTheFuture, InnerRecords, Disks, Instants
<1>1. x \in ClientRecords
  BY <1>t, <1>f, Zenon DEF ClientRecords, Pcs
<1>2. CASE client' = [client EXCEPT ![c] = x]
  <2>1. RequestFits(c)'
    BY <1>2, <1>t, <1>f DEF OpenSucceeded, ClientRecords, RequestFits, At, HoldsGuard,
                        Serving, NoHandle
  <2>2. x.db <= handles' /\ x.epoch <= inner.epoch /\ x.pc = "load"
    BY <1>t, <1>f DEF OpenSucceeded, ClientRecords, KnowsNoFuture
  <2> HIDE DEF x
  <2> QED
    BY <1>1, <1>2, <2>1, <2>2, LearnsReaches DEF Reaches
<1> QED
  BY <1>2 DEF OpenSucceeded

(***************************************************************************)
(* The opening reads the settings.                                         *)
(***************************************************************************)
LEMMA OpenLoadReaches ==
    ASSUME TypeOK, InnerGoesOn, NEW c \in Clients, OpenLoad(c)
    PROVE  Ended(c) \/ Reaches(c, {"install"})
<1> DEFINE r == client[c]
           x == [r EXCEPT !.pc = "install", !.ttl = disk.denialTtl, !.type = disk.identType]
<1>t. /\ client \in [Clients -> ClientRecords] /\ r \in ClientRecords
      /\ RequestFits(c) /\ KnowsNoFuture(c)
  BY DEF TypeOK
<1>f. /\ inner.database \in Nat /\ inner.epoch \in Nat /\ inner.identType \in IdentTypes
      /\ inner.database <= handles /\ handles \in Nat
      /\ disk.denialTtl \in Nat /\ disk.identType \in IdentTypes
      /\ disk.authTtl \in [AccessScopes -> Nat]
      /\ clock \in Instants /\ 0 \in Instants /\ 0 \in Nat /\ handles + 1 \in Nat
  BY SessionAssumption DEF TypeOK, NothingFromTheFuture, InnerRecords, Disks, Instants
<1>1. x \in ClientRecords
  BY <1>t, <1>f, Zenon DEF ClientRecords, Pcs
<1>2. CASE client' = [client EXCEPT ![c] = x]
  <2>1. RequestFits(c)'
    BY <1>2, <1>t DEF OpenLoad, ClientRecords, RequestFits, At, HoldsGuard, Serving
  <2>2. x.db <= handles' /\ x.epoch <= inner.epoch /\ x.pc = "install"
    BY <1>t, <1>f DEF OpenLoad, ClientRecords, KnowsNoFuture
  <2> HIDE DEF x
  <2> QED
    BY <1>1, <1>2, <2>1, <2>2, LearnsReaches DEF Reaches
<1>3. CASE RefuseUnlock(c)
  BY <1>3, <1>t, RefuseUnlockEnds DEF OpenLoad, At
<1> QED
  BY <1>2, <1>3 DEF OpenLoad

(***************************************************************************)
(* The check reads its TTL.                                                *)
(***************************************************************************)
LEMMA AuthorizeReadTtlReaches ==
    ASSUME TypeOK, InnerGoesOn, NEW c \in Clients, AuthorizeReadTtl(c)
    PROVE  Ended(c) \/ Reaches(c, {"readClock"})
<1> DEFINE r == client[c]
           x == [r EXCEPT !.pc = "readClock", !.ttl = disk.authTtl[Access(c)]]
<1>t. /\ client \in [Clients -> ClientRecords] /\ r \in ClientRecords
      /\ RequestFits(c) /\ KnowsNoFuture(c)
  BY DEF TypeOK
<1>f. /\ inner.database \in Nat /\ inner.epoch \in Nat /\ inner.identType \in IdentTypes
      /\ inner.database <= handles /\ handles \in Nat
      /\ disk.denialTtl \in Nat /\ disk.identType \in IdentTypes
      /\ disk.authTtl \in [AccessScopes -> Nat]
      /\ clock \in Instants /\ 0 \in Instants /\ 0 \in Nat /\ handles + 1 \in Nat
  BY SessionAssumption DEF TypeOK, NothingFromTheFuture, InnerRecords, Disks, Instants
<1>a. disk.authTtl[Access(c)] \in Nat
  <2>1. Access(c) \in AccessScopes
    BY <1>t DEF AuthorizeReadTtl, RequestFits, Access, At, ClientRecords
  <2> QED
    BY <1>f, <2>1
<1>1. x \in ClientRecords
  BY <1>a, <1>t, <1>f, Zenon DEF ClientRecords, Pcs
<1>2. CASE client' = [client EXCEPT ![c] = x]
  <2>1. RequestFits(c)'
    BY <1>2, <1>t DEF AuthorizeReadTtl, ClientRecords, RequestFits, At, HoldsGuard, Serving
  <2>2. x.db <= handles' /\ x.epoch <= inner.epoch /\ x.pc = "readClock"
    BY <1>t, <1>f DEF AuthorizeReadTtl, ClientRecords, KnowsNoFuture
  <2> HIDE DEF x
  <2> QED
    BY <1>1, <1>2, <2>1, <2>2, LearnsReaches DEF Reaches
<1>3. CASE DenyAccess(c)
  BY <1>3, <1>t, DenyAccessEnds DEF AuthorizeReadTtl, At
<1> QED
  BY <1>2, <1>3 DEF AuthorizeReadTtl

(***************************************************************************)
(* The check reads the clock.                                              *)
(***************************************************************************)
LEMMA AuthorizeReadClockReaches ==
    ASSUME TypeOK, InnerGoesOn, NEW c \in Clients, AuthorizeReadClock(c)
    PROVE  Ended(c) \/ Reaches(c, {"check"})
<1> DEFINE r == client[c]
           x == [r EXCEPT !.pc = "check", !.now = clock]
<1>t. /\ client \in [Clients -> ClientRecords] /\ r \in ClientRecords
      /\ RequestFits(c) /\ KnowsNoFuture(c)
  BY DEF TypeOK
<1>f. /\ inner.database \in Nat /\ inner.epoch \in Nat /\ inner.identType \in IdentTypes
      /\ inner.database <= handles /\ handles \in Nat
      /\ disk.denialTtl \in Nat /\ disk.identType \in IdentTypes
      /\ disk.authTtl \in [AccessScopes -> Nat]
      /\ clock \in Instants /\ 0 \in Instants /\ 0 \in Nat /\ handles + 1 \in Nat
  BY SessionAssumption DEF TypeOK, NothingFromTheFuture, InnerRecords, Disks, Instants
<1>1. x \in ClientRecords
  BY <1>t, <1>f, Zenon DEF ClientRecords, Pcs
<1>2. CASE client' = [client EXCEPT ![c] = x]
  <2>1. RequestFits(c)'
    BY <1>2, <1>t DEF AuthorizeReadClock, ClientRecords, RequestFits, At, HoldsGuard, Serving
  <2>2. x.db <= handles' /\ x.epoch <= inner.epoch /\ x.pc = "check"
    BY <1>t, <1>f DEF AuthorizeReadClock, ClientRecords, KnowsNoFuture
  <2> HIDE DEF x
  <2> QED
    BY <1>1, <1>2, <2>1, <2>2, LearnsReaches DEF Reaches
<1>3. CASE DenyAccess(c)
  BY <1>3, <1>t, DenyAccessEnds DEF AuthorizeReadClock, At
<1> QED
  BY <1>2, <1>3 DEF AuthorizeReadClock

(***************************************************************************)
(* The check admits the request to the open database, or not.              *)
(***************************************************************************)
LEMMA AuthorizeCheckReaches ==
    ASSUME TypeOK, InnerGoesOn, NEW c \in Clients, AuthorizeCheck(c)
    PROVE  Ended(c) \/ Reaches(c, {"admitted"})
<1> DEFINE r == client[c]
           x == [r EXCEPT !.pc = "admitted", !.db = inner.database, !.ttl = 0, !.now = 0]
<1>t. /\ client \in [Clients -> ClientRecords] /\ r \in ClientRecords
      /\ RequestFits(c) /\ KnowsNoFuture(c)
  BY DEF TypeOK
<1>f. /\ inner.database \in Nat /\ inner.epoch \in Nat /\ inner.identType \in IdentTypes
      /\ inner.database <= handles /\ handles \in Nat
      /\ disk.denialTtl \in Nat /\ disk.identType \in IdentTypes
      /\ disk.authTtl \in [AccessScopes -> Nat]
      /\ clock \in Instants /\ 0 \in Instants /\ 0 \in Nat /\ handles + 1 \in Nat
  BY SessionAssumption DEF TypeOK, NothingFromTheFuture, InnerRecords, Disks, Instants
<1>1. x \in ClientRecords
  BY <1>t, <1>f, Zenon DEF ClientRecords, Pcs
<1>2. CASE client' = [client EXCEPT ![c] = x] /\ Authorized(c)
  <2>1. RequestFits(c)'
    BY <1>2, <1>t DEF AuthorizeCheck, ClientRecords, RequestFits, At, HoldsGuard,
                   Serving, Authorized
  <2>2. x.db <= handles' /\ x.epoch <= inner.epoch /\ x.pc = "admitted"
    BY <1>t, <1>f DEF AuthorizeCheck, ClientRecords, KnowsNoFuture
  <2> HIDE DEF x
  <2> QED
    BY <1>1, <1>2, <2>1, <2>2, LearnsReaches DEF Reaches
<1>3. CASE DenyAccess(c)
  BY <1>3, <1>t, DenyAccessEnds DEF AuthorizeCheck, At
<1> QED
  BY <1>2, <1>3 DEF AuthorizeCheck

(***************************************************************************)
(* The check finds the vault open, or ends.                                *)
(***************************************************************************)
LEMMA AuthorizeStartReaches ==
    ASSUME TypeOK, InnerGoesOn, NEW c \in Clients, AuthorizeStart(c)
    PROVE  Ended(c) \/ Reaches(c, {"readTtl"})
<1>t. client \in [Clients -> ClientRecords] /\ RequestFits(c)
  BY DEF TypeOK
<1>1. CASE Reply(c)
  BY <1>1, <1>t, ReplyEnds
<1>2. CASE DenyAccess(c)
  BY <1>2, <1>t, DenyAccessEnds DEF AuthorizeStart, At
<1>3. CASE Goto(c, "readTtl")
  <2>1. RequestFits(c)'
    BY <1>3, <1>t DEF AuthorizeStart, ClientRecords, RequestFits, Goto, At, HoldsGuard, Serving
  <2> QED
    BY <1>3, <2>1, GotoReaches DEF Reaches, AuthorizeStart, Pcs
<1> QED
  BY <1>1, <1>2, <1>3 DEF AuthorizeStart

(***************************************************************************)
(* The row of a setting is written, and the request remembers which.       *)
(***************************************************************************)
LEMMA WriteSettingReaches ==
    ASSUME TypeOK, InnerGoesOn, NEW c \in Clients, WriteSetting(c)
    PROVE  Reaches(c, {"publish", "respond"})
<1> DEFINE r == client[c]
<1>t. /\ client \in [Clients -> ClientRecords] /\ r \in ClientRecords
      /\ RequestFits(c) /\ KnowsNoFuture(c)
  BY DEF TypeOK
<1>1. ASSUME NEW w \in Writes,
             client' = [client EXCEPT ![c].write = w,
                                      ![c].pc = IF w.name \in {"denialTtl", "identType"}
                                                THEN "publish" ELSE "respond"]
      PROVE  Reaches(c, {"publish", "respond"})
  <2> DEFINE pc == IF w.name \in {"denialTtl", "identType"} THEN "publish" ELSE "respond"
             x == [r EXCEPT !.write = w, !.pc = pc]
  <2>1. pc \in Pcs /\ w \in Writes \cup {NoWrite}
    BY DEF Pcs
  <2>2. pc = "respond" \/ (pc = "publish" /\ w.name \in {"denialTtl", "identType"})
    OBVIOUS
  <2>3. client' = [client EXCEPT ![c] = x]
    BY <1>1
  <2> HIDE DEF pc
  <2>4. x \in ClientRecords
    BY <1>t, <2>1, Zenon DEF ClientRecords
  <2>5. RequestFits(c)'
    BY <1>t, <2>2, <2>3 DEF WriteSetting, ClientRecords, RequestFits, At, HoldsGuard, Serving
  <2>6. x.db <= handles' /\ x.epoch <= inner.epoch /\ x.pc = pc
    BY <1>t DEF WriteSetting, ClientRecords, KnowsNoFuture
  <2> HIDE DEF x
  <2> QED
    BY <2>2, <2>3, <2>4, <2>5, <2>6, LearnsReaches DEF Reaches
<1>2. CASE Goto(c, "respond")
  <2>1. RequestFits(c)'
    BY <1>2, <1>t DEF WriteSetting, ClientRecords, RequestFits, Goto, At, HoldsGuard, Serving
  <2> QED
    BY <1>2, <2>1, GotoReaches DEF Reaches, WriteSetting, Pcs
<1> QED
  BY <1>1, <1>2 DEF WriteSetting

(***************************************************************************)
(* A request arrives with the scope hash of the type in force.             *)
(***************************************************************************)
LEMMA StartReaches ==
    ASSUME TypeOK, InnerGoesOn, NEW c \in Clients, NEW route \in Routes, Start(c, route)
    PROVE  Reaches(c, {"unlock", "gui", "lock", "authorize"})
<1> DEFINE pc == IF route.kind \in {"unlock", "gui", "lock"} THEN route.kind ELSE "authorize"
           id == IF route.kind = "job" THEN requests ELSE 0
           hash == ScopeOf[c][inner.identType]
           x == [Idle EXCEPT !.pc = pc, !.kind = route.kind, !.tries = route.tries,
                             !.scope = hash, !.id = id]
<1>1. /\ route.kind \in {"unlock", "gui", "lock", "read", "setting", "job"}
      /\ route.tries \in Seq(AccessScopes)
      /\ route.kind # "lock" => route.tries # <<>>
  <2>1. /\ <<>> \in Seq(AccessScopes)
        /\ \A a \in AccessScopes : <<a>> \in Seq(AccessScopes) /\ <<a>> # <<>>
        /\ <<"items", "settings">> \in Seq(AccessScopes) /\ <<"items", "settings">> # <<>>
        /\ "items" \in AccessScopes /\ "settings" \in AccessScopes
    BY DEF AccessScopes
  <2>2. route \in AllRoutes
    BY SessionAssumption
  <2> QED
    BY <2>1, <2>2 DEF AllRoutes
<1>2. /\ inner.identType \in IdentTypes /\ requests > 0 /\ requests \in 0 .. MaxRequests
      /\ requests \in Nat /\ 0 \in 0 .. MaxRequests
  BY SessionAssumption DEF TypeOK, InnerRecords, Start
<1>11. hash \in Scopes \cup {NoScope}
  BY <1>2, SessionAssumption
<1>3. \/ pc = route.kind /\ pc \in {"unlock", "gui", "lock"}
      \/ pc = "authorize" /\ route.kind # "lock"
  BY <1>1
<1>12. pc \in Pcs
  BY <1>3 DEF Pcs
<1>4. id \in 0 .. MaxRequests /\ (route.kind = "job" => id # 0)
  BY <1>2
<1>5. client' = [client EXCEPT ![c] = x]
  BY DEF Start
<1> HIDE DEF pc, id
<1>6. x \in ClientRecords
  <2>1. route.kind \in {"none", "unlock", "gui", "lock", "read", "setting", "job"}
    BY <1>1
  <2> QED
    BY <1>1, <1>4, <1>11, <1>12, <2>1, IdleType, Zenon DEF ClientRecords
<1>7. /\ x.pc = pc /\ x.kind = route.kind /\ x.tries = route.tries
      /\ x.scope = hash /\ x.id = id /\ x.db = 0 /\ x.epoch = 0
  BY DEF Idle, NoHandle
<1> HIDE DEF x
<1>8. client'[c] = x
  BY <1>5 DEF TypeOK
<1>9. RequestFits(c)'
  BY <1>1, <1>2, <1>3, <1>4, <1>7, <1>8 DEF RequestFits, At, HoldsGuard, Serving
<1>10. x.db <= handles' /\ x.epoch <= inner.epoch
  BY <1>7 DEF Start, TypeOK, InnerRecords
<1> QED
  BY <1>3, <1>5, <1>6, <1>7, <1>9, <1>10, LearnsReaches DEF Reaches

(***************************************************************************)
(* Whatever a request does, its record fits afterwards.                    *)
(***************************************************************************)
LEMMA RequestKeepsFits ==
    ASSUME TypeOK, InnerGoesOn, NEW c \in Clients, Request(c)
    PROVE  Fits(c)'
<1>t. client \in [Clients -> ClientRecords] /\ RequestFits(c) /\ handles \in Nat
  BY DEF TypeOK
<1>h. handles' \in Nat
  <2>1. handles' = handles \/ handles' = handles + 1
    BY DEF Request, Advance, Start, RecordDenial, UnlockWrongPassword,
           UnlockCommit, UnlockSuperseded, OpenFailed, OpenCommit, Lock, Respond,
           Cancel, PromptDismissed, PromptAllowed, OpenBegin, BeginActiveRequest,
           HandleRead, PublishSetting, RegisterJob, UndoJob, CreateJob,
           GuiReadClock, GuiCheckDenials, PromptDenied, UnlockVerified,
           UnlockReadSettings, OpenSucceeded, AuthorizeStart, AuthorizeReadTtl,
           AuthorizeReadClock, AuthorizeCheck, WriteSetting, OpenLoad
  <2> QED
    BY SMTT(60), <1>t, <2>1
<1>1. CASE Ended(c)
  BY <1>1, <1>h, EndedFits
<1>2. CASE \E route \in Routes : Start(c, route)
  BY <1>2, StartReaches DEF Reaches
<1>3. CASE \/ RecordDenial(c) \/ UnlockWrongPassword(c) \/ UnlockCommit(c)
           \/ UnlockSuperseded(c) \/ OpenFailed(c) \/ OpenCommit(c) \/ Lock(c)
           \/ Respond(c) \/ Cancel(c) \/ PromptDismissed(c)
  BY <1>t, <1>1, <1>3, EndingSteps
<1>4. CASE \/ PromptAllowed(c) \/ OpenBegin(c) \/ BeginActiveRequest(c) \/ HandleRead(c)
           \/ PublishSetting(c) \/ RegisterJob(c) \/ CreateJob(c) \/ UndoJob(c)
  <2>1. PICK pc \in {"unlock", "open", "handler", "respond", "createJob", "undoJob"} :
            Goto(c, pc) /\ RequestFits(c)'
    BY <1>t, <1>4, GotoSteps
  <2>2. pc \in Pcs
    BY DEF Pcs
  <2>3. handles' = handles
    BY <1>4 DEF PromptAllowed, OpenBegin, BeginActiveRequest, HandleRead, PublishSetting,
                RegisterJob, CreateJob, UndoJob
  <2> QED
    BY <2>1, <2>2, <2>3, GotoReaches DEF Reaches
<1>5. CASE \/ GuiReadClock(c) \/ GuiCheckDenials(c) \/ PromptDenied(c) \/ UnlockVerified(c)
           \/ UnlockReadSettings(c) \/ OpenSucceeded(c) \/ OpenLoad(c)
           \/ AuthorizeStart(c) \/ AuthorizeReadTtl(c) \/ AuthorizeReadClock(c)
           \/ AuthorizeCheck(c) \/ WriteSetting(c)
  BY <1>1, <1>5, GuiReadClockReaches, GuiCheckDenialsReaches, PromptDeniedReaches,
     UnlockVerifiedReaches, UnlockReadSettingsReaches, OpenSucceededReaches,
     OpenLoadReaches, AuthorizeStartReaches, AuthorizeReadTtlReaches,
     AuthorizeReadClockReaches, AuthorizeCheckReaches, WriteSettingReaches DEF Reaches
<1> QED
  BY <1>2, <1>3, <1>4, <1>5 DEF Request, Advance

(***************************************************************************)
(* The mutex follows the opener.                                           *)
(***************************************************************************)
HolderFollows(c) ==
    /\ holder' = c <=> Opening(c)'
    /\ \A d \in Clients \ {c} : holder' = d <=> holder = d

(***************************************************************************)
(* The atomic follows the guard.                                           *)
(***************************************************************************)
GuardFollows(c) ==
    \/ activeRequests' = activeRequests /\ (HoldsGuard(c)' <=> HoldsGuard(c))
    \/ activeRequests' = activeRequests + 1 /\ ~HoldsGuard(c) /\ HoldsGuard(c)'
    \/ activeRequests' = activeRequests - 1 /\ HoldsGuard(c) /\ ~HoldsGuard(c)'

(***************************************************************************)
(* The mutex and the atomic follow the request.                            *)
(***************************************************************************)
Follows(c) == HolderFollows(c) /\ GuardFollows(c)

(***************************************************************************)
(* Every step of a request keeps the holder of the mutex and the count of  *)
(* the guards in line with where the request stands.                       *)
(***************************************************************************)
LEMMA RequestFollows ==
    ASSUME TypeOK, InnerGoesOn, NEW c \in Clients, Request(c)
    PROVE  Follows(c)
<1> USE DEF Follows, Ended, Reaches, OpenerHoldsMutex, HolderFollows, GuardFollows, Opening,
            HoldsGuard, At, MutexFree
<1>t. /\ client \in [Clients -> ClientRecords] /\ RequestFits(c)
      /\ OpenerHoldsMutex /\ Nobody \notin Clients
  BY SessionAssumption DEF TypeOK
<1>1. CASE \E route \in Routes : Start(c, route)
  BY ZenonT(90), <1>t, <1>1, StartReaches DEF Start
<1>2. CASE RecordDenial(c)
  BY <1>t, <1>2, EndingSteps DEF RecordDenial
<1>3. CASE UnlockWrongPassword(c)
  BY <1>t, <1>3, EndingSteps DEF UnlockWrongPassword
<1>4. CASE UnlockCommit(c)
  BY <1>t, <1>4, EndingSteps DEF UnlockCommit
<1>5. CASE UnlockSuperseded(c)
  BY <1>t, <1>5, EndingSteps DEF UnlockSuperseded
<1>6. CASE OpenFailed(c)
  BY <1>t, <1>6, EndingSteps DEF OpenFailed
<1>7. CASE OpenCommit(c)
  BY <1>t, <1>7, EndingSteps DEF OpenCommit
<1>8. CASE Lock(c)
  BY <1>t, <1>8, EndingSteps DEF Lock
<1>9. CASE Respond(c)
  BY <1>t, <1>9, EndingSteps DEF Respond
<1>10. CASE Cancel(c)
  BY <1>t, <1>10, EndingSteps DEF Cancel
<1>11. CASE PromptDismissed(c)
  BY <1>t, <1>11, EndingSteps DEF PromptDismissed
<1>12. CASE PromptAllowed(c)
  BY <1>t, <1>12 DEF PromptAllowed, Goto, ClientRecords
<1>13. CASE OpenBegin(c)
  BY <1>t, <1>13 DEF OpenBegin, Goto, ClientRecords
<1>14. CASE BeginActiveRequest(c)
  BY <1>t, <1>14 DEF BeginActiveRequest, Goto, ClientRecords
<1>15. CASE HandleRead(c)
  BY <1>t, <1>15 DEF HandleRead, Goto, ClientRecords
<1>16. CASE PublishSetting(c)
  BY <1>t, <1>16 DEF PublishSetting, Goto, ClientRecords
<1>17. CASE RegisterJob(c)
  BY <1>t, <1>17 DEF RegisterJob, Goto, ClientRecords
<1>18. CASE UndoJob(c)
  BY <1>t, <1>18 DEF UndoJob, Goto, ClientRecords
<1>19. CASE CreateJob(c)
  <2>1. client'[c].pc \in {"respond", "undoJob"}
    BY <1>t, <1>19 DEF CreateJob, Goto, ClientRecords
  <2> QED
    BY <1>t, <1>19, <2>1 DEF CreateJob
<1>20. CASE GuiReadClock(c)
  BY <1>t, <1>20, GuiReadClockReaches DEF GuiReadClock
<1>21. CASE GuiCheckDenials(c)
  BY <1>t, <1>21, GuiCheckDenialsReaches DEF GuiCheckDenials
<1>22. CASE PromptDenied(c)
  BY <1>t, <1>22, PromptDeniedReaches DEF PromptDenied
<1>23. CASE UnlockVerified(c)
  BY <1>t, <1>23, UnlockVerifiedReaches DEF UnlockVerified
<1>24. CASE UnlockReadSettings(c)
  BY <1>t, <1>24, UnlockReadSettingsReaches DEF UnlockReadSettings
<1>25. CASE OpenSucceeded(c)
  BY <1>t, <1>25, OpenSucceededReaches DEF OpenSucceeded
<1>26. CASE AuthorizeStart(c)
  BY <1>t, <1>26, AuthorizeStartReaches DEF AuthorizeStart
<1>27. CASE AuthorizeReadTtl(c)
  BY <1>t, <1>27, AuthorizeReadTtlReaches DEF AuthorizeReadTtl
<1>28. CASE AuthorizeReadClock(c)
  BY <1>t, <1>28, AuthorizeReadClockReaches DEF AuthorizeReadClock
<1>29. CASE AuthorizeCheck(c)
  BY <1>t, <1>29, AuthorizeCheckReaches DEF AuthorizeCheck
<1>30. CASE WriteSetting(c)
  BY <1>t, <1>30, WriteSettingReaches DEF WriteSetting
<1>31. CASE OpenLoad(c)
  <2>1. CASE RefuseUnlock(c) /\ holder' = Nobody
    BY <1>t, <1>31, <2>1, RefuseUnlockEnds DEF OpenLoad
  <2>2. CASE ~(RefuseUnlock(c) /\ holder' = Nobody)
    <3>1. client'[c].pc = "install"
      BY <1>t, <1>31, <2>2 DEF OpenLoad, ClientRecords
    <3> QED
      BY <1>t, <1>31, <2>2, <3>1 DEF OpenLoad
  <2> QED
    BY <2>1, <2>2
<1> QED
  BY <1>1, <1>2, <1>3, <1>4, <1>5, <1>6, <1>7, <1>8, <1>9, <1>10, <1>11, <1>12,
     <1>13, <1>14, <1>15, <1>16, <1>17, <1>18, <1>19, <1>20, <1>21, <1>22,
     <1>23, <1>24, <1>25, <1>26, <1>27, <1>28, <1>29, <1>30, <1>31 DEF Request, Advance

-----------------------------------------------------------------------------
(* The rest of the state *)

(***************************************************************************)
(* A request's steps change no other request.                              *)
(***************************************************************************)
LEMMA OthersUntouched ==
    ASSUME client \in [Clients -> ClientRecords], NEW c \in Clients, Request(c)
    PROVE  \A d \in Clients \ {c} : client'[d] = client[d]
BY DEF Request, Advance, Start, RecordDenial, UnlockWrongPassword,
       UnlockCommit, UnlockSuperseded, OpenFailed, OpenCommit, Lock, Respond,
       Cancel, PromptDismissed, PromptAllowed, OpenBegin, BeginActiveRequest,
       HandleRead, PublishSetting, RegisterJob, UndoJob, CreateJob,
       GuiReadClock, GuiCheckDenials, PromptDenied, UnlockVerified,
       UnlockReadSettings, OpenSucceeded, AuthorizeStart, AuthorizeReadTtl,
       AuthorizeReadClock, AuthorizeCheck, WriteSetting, OpenLoad,
       Goto, Reply, RefuseUnlock, DenyAccess

(***************************************************************************)
(* The sweep, the jobs and the clock leave the requests alone.             *)
(***************************************************************************)
LEMMA BackgroundFrame ==
    ASSUME Sweep \/ (\E task \in tasks : JobEnds(task)) \/ Tick \/ UNCHANGED vars
    PROVE  UNCHANGED <<client, holder, activeRequests, disk, handles, requests>>
BY ZenonT(90) DEF Sweep, SweepTick, SweepClockFailure, SweepStart, SweepReadSettings, SweepExpire,
       SweepCleanup, SweepUnload, JobEnds, Tick, vars

(***************************************************************************)
(* The requests leave the sweep and the clock alone, and change the rest   *)
(* of the state in few ways.                                               *)
(***************************************************************************)
LEMMA ForegroundFrame ==
    ASSUME NEW c \in Clients, Request(c)
    PROVE  /\ UNCHANGED <<sweep, clock>>
           /\ requests' \in {requests, requests - 1} /\ (requests' # requests => requests > 0)
           /\ handles' \in {handles, handles + 1}
           /\ holder' \in {holder, Nobody, c}
           /\ disk' = disk \/ WriteSetting(c)
           /\ tasks' = tasks \/ CreateJob(c)
BY DEF Request, Advance, Start, RecordDenial, UnlockWrongPassword,
       UnlockCommit, UnlockSuperseded, OpenFailed, OpenCommit, Lock, Respond,
       Cancel, PromptDismissed, PromptAllowed, OpenBegin, BeginActiveRequest,
       HandleRead, PublishSetting, RegisterJob, UndoJob, CreateJob,
       GuiReadClock, GuiCheckDenials, PromptDenied, UnlockVerified,
       UnlockReadSettings, OpenSucceeded, AuthorizeStart, AuthorizeReadTtl,
       AuthorizeReadClock, AuthorizeCheck, WriteSetting, OpenLoad

(***************************************************************************)
(* A step uses up at most one fault.                                       *)
(***************************************************************************)
LEMMA FaultsFrame ==
    ASSUME [Next]_vars
    PROVE  faults' = faults \/ Fault
<1>1. ASSUME NEW c \in Clients, Request(c)
      PROVE  faults' = faults \/ Fault
  <2>1. CASE (\E route \in Routes : Start(c, route)) \/ Cancel(c) \/ PromptAllowed(c)
             \/ PromptDismissed(c) \/ PromptDenied(c)
    BY <2>1 DEF Start, Cancel, PromptAllowed, PromptDismissed, PromptDenied, NoFault
  <2>2. CASE \/ GuiReadClock(c) \/ GuiCheckDenials(c) \/ RecordDenial(c)
             \/ UnlockWrongPassword(c) \/ UnlockVerified(c) \/ UnlockReadSettings(c)
             \/ UnlockCommit(c) \/ UnlockSuperseded(c)
    BY <2>2 DEF GuiReadClock, GuiCheckDenials, RecordDenial, UnlockWrongPassword,
                UnlockVerified, UnlockReadSettings, UnlockCommit, UnlockSuperseded, NoFault
  <2>3. CASE OpenBegin(c) \/ OpenSucceeded(c) \/ OpenFailed(c) \/ OpenLoad(c) \/ OpenCommit(c)
             \/ Lock(c)
    BY <2>3 DEF OpenBegin, OpenSucceeded, OpenFailed, OpenLoad, OpenCommit, Lock, NoFault
  <2>4. CASE \/ AuthorizeStart(c) \/ AuthorizeReadTtl(c) \/ AuthorizeReadClock(c)
             \/ AuthorizeCheck(c) \/ BeginActiveRequest(c)
    BY <2>4 DEF AuthorizeStart, AuthorizeReadTtl, AuthorizeReadClock, AuthorizeCheck,
                BeginActiveRequest, NoFault
  <2>5. CASE \/ HandleRead(c) \/ WriteSetting(c) \/ PublishSetting(c)
             \/ RegisterJob(c) \/ CreateJob(c) \/ UndoJob(c) \/ Respond(c)
    BY <2>5 DEF HandleRead, WriteSetting, PublishSetting, RegisterJob, CreateJob, UndoJob,
                Respond
  <2> QED
    BY <1>1, <2>1, <2>2, <2>3, <2>4, <2>5 DEF Request, Advance
<1>2. CASE Sweep
  BY <1>2 DEF Sweep, SweepTick, SweepClockFailure, SweepStart, SweepReadSettings,
              SweepExpire, SweepCleanup, SweepUnload, NoFault
<1>3. ASSUME NEW task \in tasks, JobEnds(task)
      PROVE  faults' = faults \/ Fault
  BY <1>3 DEF JobEnds
<1>4. CASE Tick \/ UNCHANGED vars
  BY <1>4 DEF Tick, vars
<1> QED
  BY <1>1, <1>2, <1>3, <1>4 DEF Next

(***************************************************************************)
(* A setting's new value has the type of the row it replaces.              *)
(***************************************************************************)
LEMMA WrittenType ==
    ASSUME disk \in Disks, NEW w \in SettingWrites
    PROVE  Written(w) \in Disks
<1>1. CASE w.name = "identType"
  <2>1. w.value \in IdentTypes
    BY <1>1 DEF SettingWrites, AccessScopes
  <2>2. Written(w) = [disk EXCEPT !.identType = w.value]
    BY <1>1 DEF Written
  <2>3. [disk EXCEPT !.identType = w.value] \in Disks
    BY <2>1, Zenon DEF Disks
  <2> QED
    BY <2>2, <2>3
<1>2. CASE w.name = "denialTtl"
  <2>1. w.value \in Nat
    BY <1>2 DEF SettingWrites, AccessScopes
  <2>2. Written(w) = [disk EXCEPT !.denialTtl = w.value]
    BY <1>2 DEF Written
  <2>3. [disk EXCEPT !.denialTtl = w.value] \in Disks
    BY <2>1, Zenon DEF Disks
  <2> QED
    BY <2>2, <2>3
<1>3. CASE w.name \in AccessScopes
  <2> DEFINE ttl == [disk.authTtl EXCEPT ![w.name] = w.value]
  <2>1. w.value \in Nat
    BY <1>3 DEF SettingWrites, AccessScopes
  <2>2. Written(w) = [disk EXCEPT !.authTtl = ttl]
    BY <1>3 DEF Written, AccessScopes
  <2>3. disk.authTtl \in [AccessScopes -> Nat]
    BY DEF Disks
  <2>4. ttl \in [AccessScopes -> Nat]
    BY <2>1, <2>3
  <2> HIDE DEF ttl
  <2>5. [disk EXCEPT !.authTtl = ttl] \in Disks
    BY <2>4, Zenon DEF Disks
  <2> QED
    BY <2>2, <2>5
<1> QED
  BY <1>1, <1>2, <1>3 DEF SettingWrites

(***************************************************************************)
(* The sweep keeps its type.                                               *)
(***************************************************************************)
LEMMA SweepType ==
    ASSUME TypeOK, [Next]_vars
    PROVE  sweep' \in SweepRecords
<1>t. /\ sweep \in SweepRecords /\ clock \in Instants /\ inner.database \in Nat
      /\ disk.authTtl \in [AccessScopes -> Nat]
  BY DEF TypeOK, InnerRecords, Disks
<1>0. 0 \in Nat /\ 0 \in Instants
  BY SessionAssumption DEF Instants
<1>1. CASE SweepIdle
  <2>1. [a \in AccessScopes |-> 0] \in [AccessScopes -> Nat]
    OBVIOUS
  <2> QED
    BY <1>0, <1>1, <2>1, Zenon DEF SweepIdle, SweepRecords, SweepPcs, NoHandle
<1>2. ASSUME SweepTick
      PROVE  sweep' \in SweepRecords
  BY <1>2, <1>t, Zenon DEF SweepTick, SweepRecords, SweepPcs
<1>3. ASSUME SweepStart
      PROVE  sweep' \in SweepRecords
  BY ZenonT(90), <1>1, <1>3, <1>t DEF SweepStart, SweepRecords, SweepPcs
<1>4. ASSUME SweepReadSettings
      PROVE  sweep' \in SweepRecords
  <2>1. ASSUME NEW gc \in BOOLEAN, NEW ttl \in [AccessScopes -> Nat],
               sweep' = [sweep EXCEPT !.pc = "expire", !.gc = gc, !.ttl = ttl]
        PROVE  sweep' \in SweepRecords
    BY <2>1, <1>t, Zenon DEF SweepRecords, SweepPcs
  <2>3. ASSUME NEW gc \in BOOLEAN, NEW unread \in SUBSET AccessScopes,
               sweep' = [sweep EXCEPT !.pc = "expire", !.gc = gc,
                             !.ttl = [a \in AccessScopes |->
                                         IF a \in unread THEN 0 ELSE disk.authTtl[a]]]
        PROVE  sweep' \in SweepRecords
    <3>1. [a \in AccessScopes |-> IF a \in unread THEN 0 ELSE disk.authTtl[a]]
              \in [AccessScopes -> Nat]
      BY <1>t
    <3> QED
      BY <2>1, <2>3, <3>1
  <2> QED
    BY <1>4, <2>3, Zenon DEF SweepReadSettings
<1>5. ASSUME NEW pc \in SweepPcs, NEW due \in BOOLEAN,
             sweep' = [sweep EXCEPT !.pc = pc, !.due = due]
      PROVE  sweep' \in SweepRecords
  BY <1>5, <1>t, Zenon DEF SweepRecords
<1>6. ASSUME SweepExpire
      PROVE  sweep' \in SweepRecords
  <2>1. SweepIdle \/ \E due \in BOOLEAN :
            sweep' = [sweep EXCEPT !.pc = IF due THEN "cleanup" ELSE "unload", !.due = due]
    BY <1>6 DEF SweepExpire
  <2>2. \A due \in BOOLEAN : (IF due THEN "cleanup" ELSE "unload") \in SweepPcs
    BY DEF SweepPcs
  <2> QED
    BY <1>1, <1>5, <2>1, <2>2, Zenon
<1>7. ASSUME SweepCleanup
      PROVE  sweep' \in SweepRecords
  BY <1>7, <1>t, Zenon DEF SweepCleanup, SweepRecords, SweepPcs
<1>8. CASE sweep' = sweep
  BY <1>8, <1>t
<1>9. CASE Sweep
  BY <1>1, <1>2, <1>3, <1>4, <1>6, <1>7, <1>8, <1>9 DEF Sweep, SweepUnload, SweepClockFailure
<1>10. ASSUME NEW c \in Clients, Request(c)
       PROVE  sweep' \in SweepRecords
  BY <1>8, <1>10, ForegroundFrame
<1> QED
  BY <1>8, <1>9, <1>10 DEF Next, vars, JobEnds, Tick

(***************************************************************************)
(* The count of the guards stays right when one request takes or drops its *)
(* guard.                                                                  *)
(***************************************************************************)
LEMMA GuardsStep ==
    ASSUME TypeOK, NEW c \in Clients, GuardFollows(c),
           client' \in [Clients -> ClientRecords],
           \A d \in Clients \ {c} : client'[d] = client[d]
    PROVE  GuardsCounted'
<1> DEFINE G == {d \in Clients : HoldsGuard(d)}
           H == {d \in Clients : HoldsGuard(d)'}
<1>1. IsFiniteSet(G) /\ IsFiniteSet(H)
  BY SessionAssumption, FS_Subset
<1>2. activeRequests = Cardinality(G)
  BY DEF TypeOK, GuardsCounted
<1>3. \A d \in Clients \ {c} : HoldsGuard(d)' <=> HoldsGuard(d)
  BY DEF HoldsGuard
<1>4. CASE activeRequests' = activeRequests /\ (HoldsGuard(c)' <=> HoldsGuard(c))
  <2>1. H = G
    BY <1>3, <1>4
  <2> QED
    BY <1>2, <1>4, <2>1 DEF GuardsCounted
<1>5. CASE activeRequests' = activeRequests + 1 /\ ~HoldsGuard(c) /\ HoldsGuard(c)'
  <2>1. H = G \cup {c} /\ c \notin G
    BY <1>3, <1>5
  <2>2. Cardinality(H) = Cardinality(G) + 1
    BY <1>1, <2>1, FS_AddElement
  <2> QED
    BY <1>2, <1>5, <2>2 DEF GuardsCounted
<1>6. CASE activeRequests' = activeRequests - 1 /\ HoldsGuard(c) /\ ~HoldsGuard(c)'
  <2>1. H = G \ {c} /\ c \in G
    BY <1>3, <1>6
  <2>2. Cardinality(H) = Cardinality(G) - 1
    BY <1>1, <2>1, FS_RemoveElement
  <2> QED
    BY <1>2, <1>6, <2>2 DEF GuardsCounted
<1> QED
  BY <1>4, <1>5, <1>6 DEF GuardFollows

(***************************************************************************)
(* The initial states are typed.                                           *)
(***************************************************************************)
LEMMA TypeInit == Init => TypeOK
<1> SUFFICES ASSUME Init
             PROVE  TypeOK
  OBVIOUS
<1>0. 0 \in Nat /\ 0 \in Instants /\ {} \in SUBSET (1 .. MaxRequests)
  BY SessionAssumption DEF Instants
<1>1. inner \in InnerRecords
  BY <1>0, NoEntriesType, SessionAssumption, Zenon DEF Init, InnerRecords, NoHandle
<1>2. sweep \in SweepRecords
  <2>1. [a \in AccessScopes |-> 0] \in [AccessScopes -> Nat]
    OBVIOUS
  <2> QED
    BY <1>0, <2>1, Zenon DEF Init, SweepRecords, SweepPcs, NoHandle
<1>3. client \in [Clients -> ClientRecords] /\ \A c \in Clients : client[c] = Idle
  BY IdleType DEF Init
<1>4. \A c \in Clients : RequestFits(c) /\ KnowsNoFuture(c)
  BY <1>3 DEF Init, Idle, RequestFits, KnowsNoFuture, At, HoldsGuard, Serving, NoHandle
<1>5. NothingFromTheFuture
  BY DEF Init, NothingFromTheFuture, NoHandle
<1>6. OpenerHoldsMutex
  BY <1>3, SessionAssumption DEF Init, OpenerHoldsMutex, Opening, Idle
<1>7. GuardsCounted
  <2>1. {c \in Clients : HoldsGuard(c)} = {}
    BY <1>3 DEF HoldsGuard, Idle
  <2> QED
    BY <2>1, FS_EmptySet DEF GuardsCounted, Init
<1> QED
  BY <1>0, <1>1, <1>2, <1>3, <1>4, <1>5, <1>6, <1>7, SessionAssumption DEF TypeOK, Init

(***************************************************************************)
(* The open database stays, goes, or is the one an unlock has just opened. *)
(***************************************************************************)
LEMMA DatabaseStep ==
    ASSUME TypeOK, [Next]_vars
    PROVE  \/ inner'.database \in {inner.database, NoHandle}
           \/ \E c \in Clients : OpenCommit(c) /\ inner'.database = client[c].db
<1> DEFINE Stays == inner'.database \in {inner.database, NoHandle}
<1>i. inner \in InnerRecords
  BY DEF TypeOK
<1>1. ASSUME NEW c \in Clients, Request(c)
      PROVE  Stays \/ (OpenCommit(c) /\ inner'.database = client[c].db)
  <2>1. CASE \/ GuiCheckDenials(c) \/ RecordDenial(c) \/ OpenFailed(c) \/ Lock(c)
             \/ AuthorizeCheck(c) \/ RegisterJob(c) \/ UndoJob(c)
    BY <1>i, <2>1 DEF GuiCheckDenials, RecordDenial, OpenFailed, Lock, AuthorizeCheck,
                      RegisterJob, UndoJob, InvalidateAuthEpoch, InnerRecords
  <2>2. CASE UnlockCommit(c)
    BY <1>i, <2>2 DEF UnlockCommit, Authorize, InnerRecords
  <2>3. CASE PublishSetting(c)
    BY <1>i, <2>3 DEF PublishSetting, SetProcessIdentificationType, InvalidateAuthEpoch,
                      InnerRecords
  <2>4. CASE OpenCommit(c)
    BY ZenonT(90), <1>i, <2>4 DEF OpenCommit, Authorize, OpenInstalled,
       SetProcessIdentificationType, InvalidateAuthEpoch, InnerRecords
  <2>5. CASE inner' = inner
    BY <2>5
  <2> QED
    BY <1>1, <2>1, <2>2, <2>3, <2>4, <2>5, RequestFrame
<1>2. ASSUME Sweep
      PROVE  Stays
  <2>1. CASE SweepClockFailure
    BY <1>i, <2>1 DEF SweepClockFailure, UnloadLocked, InvalidateAuthEpoch, InnerRecords
  <2>2. CASE SweepExpire
    BY <1>i, <2>2 DEF SweepExpire, InnerRecords
  <2>3. CASE SweepUnload
    BY <1>i, <2>3 DEF SweepUnload, UnloadLocked, InvalidateAuthEpoch, InnerRecords
  <2>4. CASE inner' = inner
    BY <2>4
  <2> QED
    BY <1>2, <2>1, <2>2, <2>3, <2>4, SweepFrame
<1>3. ASSUME NEW task \in tasks, JobEnds(task)
      PROVE  Stays
  BY <1>i, <1>3 DEF JobEnds, InnerRecords
<1>4. CASE Tick \/ UNCHANGED vars
  BY <1>4 DEF Tick, vars
<1> QED
  BY <1>1, <1>2, <1>3, <1>4 DEF Next

(***************************************************************************)
(* The sweep knows no handle but the open one and the one it knew.         *)
(***************************************************************************)
LEMMA SweepKnows ==
    ASSUME TypeOK, Sweep
    PROVE  sweep'.db \in {sweep.db, inner.database, NoHandle}
<1>t. sweep \in SweepRecords
  BY DEF TypeOK
<1>0. \A pc, gc, ttl : [sweep EXCEPT !.pc = pc, !.gc = gc, !.ttl = ttl].db = sweep.db
  BY <1>t DEF SweepRecords
<1>1. CASE SweepReadSettings
  <2>1. ASSUME NEW gc \in BOOLEAN, NEW unread \in SUBSET AccessScopes,
               sweep' = [sweep EXCEPT !.pc = "expire", !.gc = gc,
                             !.ttl = [a \in AccessScopes |->
                                         IF a \in unread THEN 0 ELSE disk.authTtl[a]]]
        PROVE  sweep'.db = sweep.db
    BY ZenonT(90), <1>0, <2>1
  <2>2. sweep'.db = sweep.db
    BY <1>1, <2>1, Zenon DEF SweepReadSettings
  <2> QED
    BY <2>2
<1>2. CASE SweepExpire
  <2>1. ASSUME NEW pc, NEW due, sweep' = [sweep EXCEPT !.pc = pc, !.due = due]
        PROVE  sweep'.db = sweep.db
    BY <1>t, <2>1 DEF SweepRecords
  <2>2. SweepIdle \/ sweep'.db = sweep.db
    BY ZenonT(90), <1>2, <2>1 DEF SweepExpire
  <2> QED
    BY <2>2 DEF SweepIdle
<1>3. CASE SweepStart
  <2>1. ASSUME NEW pc, NEW db, sweep' = [sweep EXCEPT !.pc = pc, !.db = db]
        PROVE  sweep'.db = db
    BY <1>t, <2>1 DEF SweepRecords
  <2>2. SweepIdle \/ sweep'.db = inner.database
    BY <1>3, <2>1, Zenon DEF SweepStart
  <2> QED
    BY <2>2 DEF SweepIdle
<1>4. CASE SweepTick \/ SweepCleanup
  BY <1>t, <1>4 DEF SweepTick, SweepCleanup, SweepRecords
<1>5. CASE SweepIdle
  BY <1>5 DEF SweepIdle
<1>6. CASE sweep' = sweep
  BY <1>6
<1>7. CASE SweepUnload \/ SweepClockFailure
  <2>1. SweepIdle \/ sweep' = sweep
    BY <1>7 DEF SweepUnload, SweepClockFailure
  <2> QED
    BY <1>5, <1>6, <2>1
<1> QED
  BY <1>1, <1>2, <1>3, <1>4, <1>7 DEF Sweep

(***************************************************************************)
(* TypeOK after a step, but for the inner state, the sweep, the clock and  *)
(* the faults.                                                             *)
(***************************************************************************)
RestTyped ==
    /\ holder' \in Clients \cup {Nobody}
    /\ disk' \in Disks
    /\ handles' \in Nat /\ handles' >= handles
    /\ tasks' \subseteq [id: 1 .. MaxRequests, db: Nat]
    /\ client' \in [Clients -> ClientRecords]
    /\ requests' \in 0 .. MaxRequests
    /\ NothingFromTheFuture'
    /\ \A c \in Clients : RequestFits(c)' /\ KnowsNoFuture(c)'
    /\ OpenerHoldsMutex'
    /\ GuardsCounted'

(***************************************************************************)
(* Every step keeps TypeOK.                                                *)
(***************************************************************************)
LEMMA TypeStep == TypeOK /\ [Next]_vars => TypeOK'
<1> SUFFICES ASSUME TypeOK, [Next]_vars
             PROVE  TypeOK'
  OBVIOUS
<1>t. /\ client \in [Clients -> ClientRecords] /\ inner \in InnerRecords
      /\ handles \in Nat /\ holder \in Clients \cup {Nobody} /\ disk \in Disks
      /\ tasks \subseteq [id: 1 .. MaxRequests, db: Nat] /\ clock \in Instants
      /\ requests \in 0 .. MaxRequests /\ faults \in 0 .. MaxFaults
      /\ NothingFromTheFuture /\ OpenerHoldsMutex /\ GuardsCounted
  BY DEF TypeOK
<1>1. InnerGoesOn
  BY InnerStep
<1>2. inner' \in InnerRecords /\ inner'.epoch >= inner.epoch
  BY <1>1 DEF InnerGoesOn
<1>3. sweep' \in SweepRecords
  BY SweepType
<1>4. faults' \in 0 .. MaxFaults
  BY <1>t, SessionAssumption, FaultsFrame DEF Fault
<1>5. clock' \in Instants
  <2>1. clock' = clock \/ (clock < MaxTime /\ clock' = clock + 1)
    <3>1. ASSUME NEW c \in Clients, Request(c)
          PROVE  clock' = clock
      BY <3>1, ForegroundFrame
    <3> QED
      BY <3>1 DEF Next, vars, Tick, JobEnds, Sweep, SweepTick, SweepClockFailure, SweepStart,
                  SweepReadSettings, SweepExpire, SweepCleanup, SweepUnload
  <2> QED
    BY <1>t, <2>1, SessionAssumption DEF Instants
<1> USE DEF RestTyped
<1>6. ASSUME NEW c \in Clients, Request(c)
      PROVE  RestTyped
  <2>1. Fits(c)' /\ Follows(c)
    BY <1>1, <1>6, RequestKeepsFits, RequestFollows
  <2>2. \A d \in Clients \ {c} : client'[d] = client[d]
    BY <1>t, <1>6, OthersUntouched
  <2>f. /\ UNCHANGED <<sweep, clock>>
        /\ requests' \in {requests, requests - 1} /\ (requests' # requests => requests > 0)
        /\ handles' \in {handles, handles + 1}
        /\ holder' \in {holder, Nobody, c}
        /\ disk' = disk \/ WriteSetting(c)
        /\ tasks' = tasks \/ CreateJob(c)
    BY <1>6, ForegroundFrame
  <2>3. client' \in [Clients -> ClientRecords]
    BY <2>1 DEF Fits
  <2>4. handles' \in Nat /\ handles' >= handles
    BY <1>t, <2>f
  <2>5. disk' \in Disks
    <3>1. CASE WriteSetting(c)
      BY ZenonT(90), <1>t, <3>1, SessionAssumption, WrittenType DEF WriteSetting
    <3> QED
      BY <1>t, <2>f, <3>1
  <2>6. ASSUME CreateJob(c), tasks' = tasks \cup {[id |-> client[c].id, db |-> client[c].db]}
        PROVE  client[c].id \in 1 .. MaxRequests /\ client[c].db \in 1 .. handles
    <3>1. /\ client[c].id \in 0 .. MaxRequests /\ client[c].db \in Nat
      BY <1>t DEF ClientRecords
    <3>2. client[c].kind = "job" /\ client[c].id # 0 /\ client[c].db # 0 /\ client[c].db <= handles
      BY <2>6 DEF TypeOK, RequestFits, KnowsNoFuture, CreateJob, At, Serving, HoldsGuard, NoHandle
    <3> QED
      BY <1>t, <3>1, <3>2, SessionAssumption
  <2>7. \/ tasks' = tasks
        \/ /\ CreateJob(c)
           /\ tasks' = tasks \cup {[id |-> client[c].id, db |-> client[c].db]}
    BY <2>f DEF CreateJob
  <2>8. tasks' \subseteq [id: 1 .. MaxRequests, db: Nat]
    BY <1>t, <2>6, <2>7
  <2>9. \A task \in tasks' : task.db \in 1 .. handles
    BY <1>t, <2>6, <2>7 DEF NothingFromTheFuture
  <2>10. inner'.database <= handles'
    <3>1. \/ inner'.database \in {inner.database, NoHandle}
          \/ \E d \in Clients : inner'.database = client[d].db
      BY DatabaseStep
    <3>2. \A d \in Clients : client[d].db \in Nat /\ client[d].db <= handles
      BY <1>t DEF TypeOK, KnowsNoFuture, ClientRecords
    <3> QED
      BY <1>t, <2>4, <3>1, <3>2 DEF NothingFromTheFuture, NoHandle, InnerRecords
  <2>11. NothingFromTheFuture'
    BY <1>t, <2>4, <2>9, <2>10, <2>f, <1>3 DEF NothingFromTheFuture, SweepRecords, TypeOK
  <2>12. ASSUME NEW d \in Clients
         PROVE  RequestFits(d)' /\ KnowsNoFuture(d)'
    <3>1. CASE d = c
      BY <2>1, <3>1 DEF Fits
    <3>2. CASE d # c
      <4>1. client'[d] = client[d]
        BY <2>2, <3>2
      <4>2. client[d].db <= handles /\ client[d].epoch <= inner.epoch /\ RequestFits(d)
        BY DEF TypeOK, KnowsNoFuture
      <4>3. /\ client[d].db \in Nat /\ client[d].epoch \in Nat
            /\ inner.epoch \in Nat /\ inner'.epoch \in Nat
        BY <1>t, <1>2 DEF ClientRecords, InnerRecords
      <4>4. KnowsNoFuture(d)'
        BY <1>t, <1>2, <2>4, <4>1, <4>2, <4>3 DEF KnowsNoFuture
      <4>5. RequestFits(d)'
        BY <4>1, <4>2 DEF RequestFits, At, Serving, HoldsGuard
      <4> QED
        BY <4>4, <4>5
    <3> QED
      BY <3>1, <3>2
  <2>13. OpenerHoldsMutex'
    BY <1>t, <2>1, <2>2 DEF OpenerHoldsMutex, Follows, HolderFollows, Opening
  <2>14. GuardsCounted'
    BY <2>1, <2>2, <2>3, GuardsStep DEF Follows
  <2>15. holder' \in Clients \cup {Nobody} /\ requests' \in 0 .. MaxRequests
    BY <1>t, <2>f, SessionAssumption
  <2> QED
    BY <2>3, <2>4, <2>5, <2>8, <2>11, <2>12, <2>13, <2>14, <2>15
<1>7. ASSUME Sweep \/ (\E task \in tasks : JobEnds(task)) \/ Tick \/ UNCHANGED vars
      PROVE  RestTyped
  <2>f. UNCHANGED <<client, holder, activeRequests, disk, handles, requests>>
    BY <1>7, BackgroundFrame
  <2>1. tasks' \subseteq tasks
    BY <1>7 DEF Sweep, SweepTick, SweepClockFailure, SweepStart, SweepReadSettings,
                SweepExpire, SweepCleanup, SweepUnload, JobEnds, Tick, vars
  <2>2. inner'.database <= handles
    <3>1. \/ inner'.database \in {inner.database, NoHandle}
          \/ \E d \in Clients : inner'.database = client[d].db
      BY DatabaseStep
    <3>2. \A d \in Clients : client[d].db \in Nat /\ client[d].db <= handles
      BY <1>t DEF TypeOK, KnowsNoFuture, ClientRecords
    <3> QED
      BY <1>t, <3>1, <3>2 DEF NothingFromTheFuture, NoHandle
  <2>3. sweep'.db \in {sweep.db, inner.database, NoHandle}
    BY <1>7, SweepKnows DEF JobEnds, Tick, vars
  <2>4. NothingFromTheFuture'
    BY <1>t, <2>f, <2>1, <2>2, <2>3 DEF NothingFromTheFuture, NoHandle
  <2>5. ASSUME NEW d \in Clients
        PROVE  RequestFits(d)' /\ KnowsNoFuture(d)'
    <3>2. client[d].db <= handles /\ client[d].epoch <= inner.epoch /\ RequestFits(d)
      BY DEF TypeOK, KnowsNoFuture
    <3>3. client[d].epoch \in Nat /\ inner.epoch \in Nat /\ inner'.epoch \in Nat
      BY <1>t, <1>2 DEF ClientRecords, InnerRecords
    <3> QED
      BY <1>2, <2>f, <3>2, <3>3 DEF KnowsNoFuture, RequestFits, At, Serving, HoldsGuard
  <2>6. OpenerHoldsMutex' /\ GuardsCounted'
    BY <1>t, <2>f DEF OpenerHoldsMutex, Opening, GuardsCounted, HoldsGuard
  <2> QED
    BY <1>t, <2>f, <2>1, <2>4, <2>5, <2>6
<1> HIDE DEF RestTyped
<1>8. RestTyped
  BY <1>6, <1>7 DEF Next
<1> QED
  BY <1>2, <1>3, <1>4, <1>5, <1>8 DEF TypeOK, RestTyped

(***************************************************************************)
(* The state keeps its type, and what a request holds - a handle, an       *)
(* epoch, the mutex, a guard - stays in line with the inner state, for     *)
(* every number of clients, every capacity and every bound.                *)
(***************************************************************************)
THEOREM TypeCorrect == Spec => []TypeOK
<1>1. Init => TypeOK
  BY TypeInit
<1>2. TypeOK /\ [Next]_vars => TypeOK'
  BY TypeStep
<1> QED
  BY <1>1, <1>2, PTL DEF Spec
=============================================================================
