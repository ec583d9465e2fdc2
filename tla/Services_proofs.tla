---------------------------- MODULE Services_proofs ----------------------------
(***************************************************************************)
(* Proofs about how a service stays supplied with credentials              *)
(* (VaultRuntime), for any times that RuntimeTimes allows and any number   *)
(* of renewals; about two people and their pages (Friends), for any number *)
(* of requests, events and loads; and about the task board (TaskBoard) for *)
(* any tasks, columns, users and concurrent requests, up to the refinement *)
(* of ColumnBoard.                                                         *)
(***************************************************************************)
EXTENDS VaultRuntime, Friends, TaskBoard, Integers, FiniteSetTheorems, SequenceTheorems, TLAPS

-----------------------------------------------------------------------------
(* Credentials.                                                            *)

RestPhases == {"idle", "paused"}
RunPhases == RestPhases \cup RenewCalls
VaultPhases == {"off", "down"} \cup StartCalls \cup RunPhases
Grants == [until: Nat, limit: Nat]
DbLeases == [until: Nat, limit: Nat, grant: Nat]
Runtimes ==
    [phase: VaultPhases, since: Nat, timer: Int, token: Nat, tokenExpiresAt: Nat, credentials: Nat,
     databaseExpiresAt: Nat, next: Nat, duration: Nat, pool: Nat, ready: BOOLEAN]

RuntimeTypeOK ==
    /\ instant \in Nat /\ service \in {"backend", "auth"}
    /\ grant \in Seq(Grants) /\ dblease \in Seq(DbLeases) /\ runtime \in Runtimes

\* When the call under way began, now when there is none.
Mark == IF runtime.phase \in StartCalls \cup RenewCalls THEN runtime.since ELSE instant

\* Vault lets nothing live longer than its limit, nor than a whole period from
\* what it was last asked for.
IssuedInv ==
    /\ \A t \in 1..Len(grant) : grant[t].until <= grant[t].limit /\ grant[t].until <= Mark + TokenTtl
    /\ \A l \in 1..Len(dblease) : dblease[l].until <= dblease[l].limit /\ dblease[l].until <= Mark + LeaseTtl

\* The service holds what was issued; calls end in time.
HeldInv ==
    LET ph == runtime.phase IN
    /\ ph \in {"issue", "connect"} \cup RunPhases => runtime.token \in 1..Len(grant)
    /\ ph \in {"connect"} \cup RunPhases => runtime.credentials \in 1..Len(dblease)
    /\ ph \in {"reconnect", "refresh"} => runtime.next \in 1..Len(dblease)
    /\ IF ph \in RunPhases THEN runtime.pool # 0 /\ runtime.pool = runtime.credentials ELSE runtime.pool = 0
    /\ ph \in StartCalls \cup RenewCalls => runtime.since <= instant /\ instant <= runtime.since + CallTime

\* What the service takes for an expiry is later than the true one by the calls
\* that it has made since, and no others.
CountedInv ==
    LET ph == runtime.phase
        granted == grant[runtime.token].until
        counted == ph \in RunPhases \/ (ph = "connect" /\ service = "backend")
    IN  /\ ph \in {"issue", "reissue"} => runtime.since + TokenTtl <= granted + CallTime
        /\ ph \in {"connect", "reconnect"} => runtime.since + TokenTtl <= granted + 2 * CallTime
        /\ ph = "connect" => runtime.since + LeaseTtl <= dblease[runtime.credentials].until + CallTime
        /\ ph \in {"reconnect", "refresh"} =>
              /\ runtime.duration > 0 /\ runtime.duration <= LeaseTtl
              /\ runtime.since + runtime.duration <= dblease[runtime.next].until + CallTime
        /\ counted =>
              /\ runtime.tokenExpiresAt <= granted + 3 * CallTime
              /\ runtime.tokenExpiresAt <= Mark + TokenTtl
              /\ runtime.databaseExpiresAt <= dblease[runtime.credentials].until + 2 * CallTime

\* How far a renewal may be past the nearer expiry.
PunctualInv ==
    LET ph == runtime.phase
        tok == runtime.tokenExpiresAt
        db == runtime.databaseExpiresAt
        within(at, calls) == at < tok + calls * CallTime /\ at < db + calls * CallTime
    IN  /\ ph = "connect" /\ service = "backend" =>
              within(runtime.since + Margin, 0) /\ runtime.timer <= tok /\ runtime.timer <= db
        /\ ph \in RestPhases =>
              /\ within(instant, 3)
              /\ runtime.timer <= instant \/ (runtime.timer <= tok /\ runtime.timer <= db)
        /\ ph = "renewToken" => within(runtime.since, 3)
        /\ ph \in {"relogin", "renewLease"} => within(runtime.since, 4)
        /\ ph \in {"reissue", "replace"} => within(runtime.since, 5)
        /\ ph \in {"reconnect", "refresh"} => within(runtime.since, 6)
        /\ ph = "renewLease" => runtime.since < tok
        /\ ph = "replace" => runtime.since < tok + CallTime
        /\ ph = "refresh" => runtime.since < tok + 2 * CallTime
        /\ ph = "reissue" /\ service = "auth" => runtime.since < tok
        /\ ph = "reconnect" /\ service = "auth" => runtime.since < tok + CallTime

RuntimeInv == RuntimeTypeOK /\ IssuedInv /\ HeldInv /\ CountedInv /\ PunctualInv

-----------------------------------------------------------------------------
\* What is issued comes at the end, and all that was before stays.
LEMMA Appended ==
    ASSUME NEW S, NEW s \in Seq(S), NEW e \in S
    PROVE  /\ Append(s, e) \in Seq(S) /\ Len(Append(s, e)) = Len(s) + 1
           /\ Append(s, e)[Len(s) + 1] = e
           /\ \A i \in 1..Len(s) : Append(s, e)[i] = s[i]
  OBVIOUS

\* Half of what is left is not more than all of it.
LEMMA HalfLeft ==
    ASSUME NEW r \in Int
    PROVE  /\ r \div 2 \in Int
           /\ r > 0 => r \div 2 <= r
           /\ r <= 0 => r \div 2 <= 0
  OBVIOUS

\* The next renewal is due before the nearer expiry, or at once.
LEMMA DueInTime ==
    ASSUME NEW r, r.tokenExpiresAt \in Nat, r.databaseExpiresAt \in Nat, instant \in Nat
    PROVE  /\ Due(r) \in Int
           /\ Due(r) <= instant \/ (Due(r) <= r.tokenExpiresAt /\ Due(r) <= r.databaseExpiresAt)
<1>1. PICK m : m = Earlier(r.tokenExpiresAt, r.databaseExpiresAt)
  OBVIOUS
<1>2. m \in Nat /\ m <= r.tokenExpiresAt /\ m <= r.databaseExpiresAt
  BY <1>1 DEF Earlier
<1>3. Margin \in Nat
  BY RuntimeTimes
<1>4. CASE service = "auth" /\ m - instant <= 2 * Margin
  <2>1. PICK k : k = m - instant
    OBVIOUS
  <2>2. Due(r) = instant + k \div 2
    BY <1>1, <1>4, <2>1 DEF Due
  <2>3. k \in Int
    BY <1>2, <2>1
  <2>4. k \div 2 \in Int /\ (k > 0 => k \div 2 <= k) /\ (k <= 0 => k \div 2 <= 0)
    BY <2>3, HalfLeft
  <2>5. PICK h \in Int : h = k \div 2
    BY <2>4
  <2>6. Due(r) = instant + h /\ (k > 0 => h <= k) /\ (k <= 0 => h <= 0)
    BY <2>2, <2>4, <2>5
  <2>7. QED BY <1>2, <2>1, <2>3, <2>5, <2>6
<1>5. CASE ~(service = "auth" /\ m - instant <= 2 * Margin)
  <2>1. Due(r) = instant + Later(0, m - instant - Margin)
    BY <1>1, <1>5 DEF Due
  <2>2. QED BY <1>2, <1>3, <2>1 DEF Later
<1>6. QED BY <1>4, <1>5

\* The times, as numbers.
LEMMA Times ==
    /\ Margin \in Nat /\ Retry \in Nat /\ CallTime \in Nat /\ CallTime > 0
    /\ TokenTtl \in Nat /\ TokenLimit \in Nat /\ LeaseTtl \in Nat /\ LeaseLimit \in Nat
    /\ Margin >= Retry + 4 * CallTime
    /\ TokenTtl > Margin + 3 * CallTime /\ TokenTtl <= TokenLimit
    /\ LeaseTtl > Margin + 3 * CallTime /\ LeaseTtl <= LeaseLimit
  BY RuntimeTimes

\* The periods, as numbers.
LEMMA Periods ==
    /\ CallTime \in Nat /\ CallTime > 0 /\ TokenTtl \in Nat /\ TokenTtl > 0 /\ LeaseTtl \in Nat /\ LeaseTtl > 0
  BY Times

\* A moment of a call.
LEMMA WithinCall ==
    ASSUME NEW at \in When, runtime.since \in Nat, instant \in Nat, instant <= runtime.since + CallTime
    PROVE  at \in Nat /\ runtime.since <= at /\ at <= instant /\ instant <= at + CallTime
<1>1. at \in Nat /\ runtime.since <= at /\ at <= instant
  BY DEF When
<1>2. QED BY <1>1, Periods

\* What was issued stays within its times when none of it changes.
LEMMA IssuedKept ==
    ASSUME RuntimeTypeOK, IssuedInv, UNCHANGED <<grant, dblease>>, Mark \in Int, Mark' \in Int, Mark <= Mark'
    PROVE  IssuedInv'
<1>1. ASSUME NEW t \in 1..Len(grant) PROVE grant[t].until \in Nat /\ grant[t].limit \in Nat
  <2>1. grant \in Seq(Grants)
    BY DEF RuntimeTypeOK
  <2>2. grant[t] \in Grants
    BY <2>1
  <2>3. QED BY <2>2 DEF Grants
<1>2. ASSUME NEW l \in 1..Len(dblease) PROVE dblease[l].until \in Nat /\ dblease[l].limit \in Nat
  <2>1. dblease \in Seq(DbLeases)
    BY DEF RuntimeTypeOK
  <2>2. dblease[l] \in DbLeases
    BY <2>1
  <2>3. QED BY <2>2 DEF DbLeases
<1>3. QED BY <1>1, <1>2, Periods DEF IssuedInv

\* A process that has not started, and one that has ended.
LEMMA NoProcess ==
    ASSUME RuntimeInv, NEW ph \in {"off", "down"}, runtime' = Process(ph),
           UNCHANGED <<instant, service, grant, dblease>>
    PROVE  RuntimeInv'
<1>1. runtime' \in Runtimes /\ runtime'.phase \in {"off", "down"} /\ runtime'.pool = 0
  BY DEF Process, Runtimes, VaultPhases
<1>2. runtime'.phase \notin StartCalls \cup RunPhases
  BY <1>1 DEF StartCalls, RunPhases, RestPhases, RenewCalls
<1>3. RuntimeTypeOK'
  BY <1>1 DEF RuntimeInv, RuntimeTypeOK
<1>4. Mark \in Nat /\ Mark <= instant /\ Mark' = instant /\ instant \in Nat
  BY <1>2 DEF Mark, RuntimeInv, RuntimeTypeOK, HeldInv, RunPhases, Runtimes
<1>5. IssuedInv'
  BY <1>4, IssuedKept DEF RuntimeInv
<1>6. HeldInv' /\ CountedInv' /\ PunctualInv'
  BY <1>1, <1>2 DEF HeldInv, CountedInv, PunctualInv, RunPhases, StartCalls, RestPhases, RenewCalls
<1>7. QED BY <1>3, <1>5, <1>6 DEF RuntimeInv

\* A renewal begins.
LEMMA RenewalDueStep == ASSUME RuntimeInv, RenewalDue PROVE RuntimeInv'
<1>1. /\ RuntimeTypeOK /\ IssuedInv /\ HeldInv /\ CountedInv /\ PunctualInv
      /\ runtime \in Runtimes /\ runtime.phase = "idle" /\ instant \in Nat
      /\ UNCHANGED <<instant, service, grant, dblease>>
  BY DEF RuntimeInv, RuntimeTypeOK, RenewalDue
<1>11. PICK m : m = [runtime EXCEPT !.timer = 0]
  OBVIOUS
<1>2. PICK n : n = [m EXCEPT !.phase = "renewToken", !.since = instant]
  OBVIOUS
<1>12. /\ m \in Runtimes /\ m.timer = 0
       /\ m.token = runtime.token /\ m.tokenExpiresAt = runtime.tokenExpiresAt
       /\ m.credentials = runtime.credentials /\ m.databaseExpiresAt = runtime.databaseExpiresAt
       /\ m.next = runtime.next /\ m.duration = runtime.duration /\ m.pool = runtime.pool /\ m.ready = runtime.ready
  BY <1>1, <1>11 DEF Runtimes
<1>3. runtime' = n
  BY <1>11, <1>2 DEF RenewalDue, Asking
<1>4. /\ n \in Runtimes /\ n.phase = "renewToken" /\ n.since = instant /\ n.timer = 0
      /\ n.token = runtime.token /\ n.tokenExpiresAt = runtime.tokenExpiresAt
      /\ n.credentials = runtime.credentials /\ n.databaseExpiresAt = runtime.databaseExpiresAt
      /\ n.next = runtime.next /\ n.duration = runtime.duration /\ n.pool = runtime.pool /\ n.ready = runtime.ready
  BY <1>1, <1>2, <1>12 DEF Runtimes, VaultPhases, RunPhases, RenewCalls
<1>5. RuntimeTypeOK'
  BY <1>1, <1>3, <1>4 DEF RuntimeTypeOK
<1>6. IssuedInv'
  <2>1. Mark = instant /\ Mark' = instant
    BY <1>1, <1>3, <1>4 DEF Mark, StartCalls, RenewCalls
  <2>2. QED BY <1>1, <2>1, IssuedKept
<1>7. HeldInv'
  BY <1>1, <1>3, <1>4, Periods DEF HeldInv, RunPhases, StartCalls, RestPhases, RenewCalls
<1>8. CountedInv'
  BY <1>1, <1>3, <1>4, Periods DEF CountedInv, RunPhases, StartCalls, RestPhases, RenewCalls, Mark
<1>9. PunctualInv'
  BY <1>1, <1>3, <1>4, Periods DEF PunctualInv, RunPhases, StartCalls, RestPhases, RenewCalls
<1>10. QED BY <1>5, <1>6, <1>7, <1>8, <1>9 DEF RuntimeInv

\* A later moment leaves more time.
LEMMA LaterStill ==
    ASSUME NEW u \in Nat, NEW a \in Nat, NEW m \in Int, NEW n \in Int, m <= n, u <= m + a
    PROVE  u <= n + a
  OBVIOUS

\* What is issued or renewed stays within its times, too.
LEMMA IssuedMoves ==
    ASSUME RuntimeTypeOK, IssuedInv, Mark \in Int, Mark' \in Int, Mark <= Mark',
           \A t \in 1..Len(grant') :
              \/ t \in 1..Len(grant) /\ grant'[t] = grant[t]
              \/ grant'[t].until <= grant'[t].limit /\ grant'[t].until <= Mark' + TokenTtl,
           \A l \in 1..Len(dblease') :
              \/ l \in 1..Len(dblease) /\ dblease'[l] = dblease[l]
              \/ dblease'[l].until <= dblease'[l].limit /\ dblease'[l].until <= Mark' + LeaseTtl
    PROVE  IssuedInv'
<1>1. ASSUME NEW t \in 1..Len(grant) PROVE grant[t].until \in Nat /\ grant[t].limit \in Nat
  <2>1. grant \in Seq(Grants)
    BY DEF RuntimeTypeOK
  <2>2. grant[t] \in Grants
    BY <2>1
  <2>3. QED BY <2>2 DEF Grants
<1>2. ASSUME NEW l \in 1..Len(dblease) PROVE dblease[l].until \in Nat /\ dblease[l].limit \in Nat
  <2>1. dblease \in Seq(DbLeases)
    BY DEF RuntimeTypeOK
  <2>2. dblease[l] \in DbLeases
    BY <2>1
  <2>3. QED BY <2>2 DEF DbLeases
<1>3. ASSUME NEW t \in 1..Len(grant')
      PROVE  grant'[t].until <= grant'[t].limit /\ grant'[t].until <= Mark' + TokenTtl
  <2>1. CASE t \in 1..Len(grant) /\ grant'[t] = grant[t]
    <3>1. PICK u \in Nat : u = grant[t].until
      BY <1>1, <2>1
    <3>2. u <= grant[t].limit /\ u <= Mark + TokenTtl
      BY <2>1, <3>1 DEF IssuedInv
    <3>3. u <= Mark' + TokenTtl
      BY <3>1, <3>2, Periods, LaterStill
    <3>4. QED BY <2>1, <3>1, <3>2, <3>3
  <2>2. QED BY <2>1
<1>4. ASSUME NEW l \in 1..Len(dblease')
      PROVE  dblease'[l].until <= dblease'[l].limit /\ dblease'[l].until <= Mark' + LeaseTtl
  <2>1. CASE l \in 1..Len(dblease) /\ dblease'[l] = dblease[l]
    <3>1. PICK u \in Nat : u = dblease[l].until
      BY <1>2, <2>1
    <3>2. u <= dblease[l].limit /\ u <= Mark + LeaseTtl
      BY <2>1, <3>1 DEF IssuedInv
    <3>3. u <= Mark' + LeaseTtl
      BY <3>1, <3>2, Periods, LaterStill
    <3>4. QED BY <2>1, <3>1, <3>2, <3>3
  <2>2. QED BY <2>1
<1>5. QED BY <1>3, <1>4 DEF IssuedInv

\* A token comes with its period and its limit.
LEMMA LogInSets ==
    ASSUME grant \in Seq(Grants), NEW at \in Nat, LogIn(at)
    PROVE  /\ grant' \in Seq(Grants) /\ Len(grant') = Len(grant) + 1
           /\ \A t \in 1..Len(grant) : grant'[t] = grant[t]
           /\ grant'[Len(grant) + 1].until = at + TokenTtl
           /\ grant'[Len(grant) + 1].limit = at + TokenLimit
<1>1. PICK g : g = [until |-> at + TokenTtl, limit |-> at + TokenLimit]
  OBVIOUS
<1>2. g \in Grants /\ g.until = at + TokenTtl /\ g.limit = at + TokenLimit
  BY <1>1, Times DEF Grants
<1>3. grant' = Append(grant, g)
  BY <1>1 DEF LogIn
<1>4. QED BY <1>2, <1>3, Appended

\* A lease comes with its period, its limit and its token.
LEMMA IssueSets ==
    ASSUME dblease \in Seq(DbLeases), runtime.token \in Nat, NEW at \in Nat, IssueLease(at)
    PROVE  /\ dblease' \in Seq(DbLeases) /\ Len(dblease') = Len(dblease) + 1
           /\ \A l \in 1..Len(dblease) : dblease'[l] = dblease[l]
           /\ dblease'[Len(dblease) + 1].until = at + LeaseTtl
           /\ dblease'[Len(dblease) + 1].limit = at + LeaseLimit
<1>1. PICK g : g = [until |-> at + LeaseTtl, limit |-> at + LeaseLimit, grant |-> runtime.token]
  OBVIOUS
<1>2. g \in DbLeases /\ g.until = at + LeaseTtl /\ g.limit = at + LeaseLimit
  BY <1>1, Times DEF DbLeases
<1>3. dblease' = Append(dblease, g)
  BY <1>1 DEF IssueLease
<1>4. QED BY <1>2, <1>3, Appended

\* A token that is good is prolonged, up to its limit; never shortened.
LEMMA RenewGrantSets ==
    ASSUME grant \in Seq(Grants), IssuedInv, runtime.token \in 1..Len(grant), NEW at \in Nat, RenewGrant(at),
           Mark \in Int, Mark <= at
    PROVE  /\ grant' \in Seq(Grants) /\ Len(grant') = Len(grant)
           /\ \A t \in 1..Len(grant) : t # runtime.token => grant'[t] = grant[t]
           /\ grant'[runtime.token].until \in Nat
           /\ at < grant'[runtime.token].until
           /\ grant[runtime.token].until <= grant'[runtime.token].until
           /\ grant'[runtime.token].until <= grant'[runtime.token].limit
           /\ grant'[runtime.token].until <= at + TokenTtl
<1>1. grant[runtime.token] \in Grants
  OBVIOUS
<1>2. PICK u : u = Earlier(at + TokenTtl, grant[runtime.token].limit)
  OBVIOUS
<1>11. grant[runtime.token].limit \in Nat
  BY <1>1 DEF Grants
<1>3. /\ u \in Nat /\ u <= at + TokenTtl /\ u <= grant[runtime.token].limit
      /\ u = at + TokenTtl \/ u = grant[runtime.token].limit
  BY <1>2, <1>11, Periods DEF Earlier
<1>4. PICK g : g = [grant[runtime.token] EXCEPT !.until = u]
  OBVIOUS
<1>5. g \in Grants /\ g.until = u /\ g.limit = grant[runtime.token].limit
  BY <1>1, <1>3, <1>4 DEF Grants
<1>6. grant' = [grant EXCEPT ![runtime.token] = g]
  BY <1>2, <1>4 DEF RenewGrant
<1>7. /\ grant[runtime.token].until \in Nat /\ at < grant[runtime.token].until
      /\ grant[runtime.token].until <= grant[runtime.token].limit
      /\ grant[runtime.token].until <= Mark + TokenTtl
  BY <1>1 DEF RenewGrant, Granted, IssuedInv, Grants
<1>8. grant[runtime.token].until <= u /\ at < u
  BY <1>3, <1>7, <1>11, Periods
<1>9. /\ grant' \in Seq(Grants) /\ Len(grant') = Len(grant) /\ grant'[runtime.token] = g
      /\ \A t \in 1..Len(grant) : t # runtime.token => grant'[t] = grant[t]
  BY <1>5, <1>6
<1>10. QED BY <1>3, <1>5, <1>8, <1>9

\* The same for a lease.
LEMMA RenewLeaseSets ==
    ASSUME dblease \in Seq(DbLeases), IssuedInv, runtime.credentials \in 1..Len(dblease), NEW at \in Nat,
           RenewLease(at), Mark \in Int, Mark <= at
    PROVE  /\ dblease' \in Seq(DbLeases) /\ Len(dblease') = Len(dblease)
           /\ \A l \in 1..Len(dblease) : l # runtime.credentials => dblease'[l] = dblease[l]
           /\ dblease'[runtime.credentials].until \in Nat
           /\ at < dblease'[runtime.credentials].until
           /\ dblease[runtime.credentials].until <= dblease'[runtime.credentials].until
           /\ dblease'[runtime.credentials].until <= dblease'[runtime.credentials].limit
           /\ dblease'[runtime.credentials].until <= at + LeaseTtl
<1>1. dblease[runtime.credentials] \in DbLeases
  OBVIOUS
<1>2. PICK u : u = Earlier(at + LeaseTtl, dblease[runtime.credentials].limit)
  OBVIOUS
<1>11. dblease[runtime.credentials].limit \in Nat
  BY <1>1 DEF DbLeases
<1>3. /\ u \in Nat /\ u <= at + LeaseTtl /\ u <= dblease[runtime.credentials].limit
      /\ u = at + LeaseTtl \/ u = dblease[runtime.credentials].limit
  BY <1>2, <1>11, Periods DEF Earlier
<1>4. PICK g : g = [dblease[runtime.credentials] EXCEPT !.until = u]
  OBVIOUS
<1>5. g \in DbLeases /\ g.until = u /\ g.limit = dblease[runtime.credentials].limit
  BY <1>1, <1>3, <1>4 DEF DbLeases
<1>6. dblease' = [dblease EXCEPT ![runtime.credentials] = g]
  BY <1>2, <1>4 DEF RenewLease
<1>7. /\ dblease[runtime.credentials].until \in Nat /\ at < dblease[runtime.credentials].until
      /\ dblease[runtime.credentials].until <= dblease[runtime.credentials].limit
      /\ dblease[runtime.credentials].until <= Mark + LeaseTtl
  BY <1>1 DEF RenewLease, Usable, IssuedInv, DbLeases
<1>8. dblease[runtime.credentials].until <= u /\ at < u
  BY <1>3, <1>7, <1>11, Periods
<1>9. /\ dblease' \in Seq(DbLeases) /\ Len(dblease') = Len(dblease) /\ dblease'[runtime.credentials] = g
      /\ \A l \in 1..Len(dblease) : l # runtime.credentials => dblease'[l] = dblease[l]
  BY <1>5, <1>6
<1>10. QED BY <1>3, <1>5, <1>8, <1>9

\* A call begins.
LEMMA AskingSets ==
    ASSUME NEW r \in Runtimes, NEW ph \in VaultPhases, instant \in Nat
    PROVE  /\ Asking(r, ph) \in Runtimes /\ Asking(r, ph).phase = ph /\ Asking(r, ph).since = instant
           /\ Asking(r, ph).timer = r.timer /\ Asking(r, ph).token = r.token
           /\ Asking(r, ph).tokenExpiresAt = r.tokenExpiresAt /\ Asking(r, ph).credentials = r.credentials
           /\ Asking(r, ph).databaseExpiresAt = r.databaseExpiresAt /\ Asking(r, ph).next = r.next
           /\ Asking(r, ph).duration = r.duration /\ Asking(r, ph).pool = r.pool
           /\ Asking(r, ph).ready = r.ready
  BY DEF Asking, Runtimes

\* The next renewal is set.
LEMMA ScheduledSets ==
    ASSUME NEW r \in Runtimes, instant \in Nat
    PROVE  /\ Scheduled(r) \in Runtimes /\ Scheduled(r).phase = "idle" /\ Scheduled(r).since = 0
           /\ Scheduled(r).timer = Due(r)
           /\ \/ Due(r) <= instant
              \/ Due(r) <= r.tokenExpiresAt /\ Due(r) <= r.databaseExpiresAt
           /\ Scheduled(r).token = r.token
           /\ Scheduled(r).tokenExpiresAt = r.tokenExpiresAt /\ Scheduled(r).credentials = r.credentials
           /\ Scheduled(r).databaseExpiresAt = r.databaseExpiresAt /\ Scheduled(r).next = r.next
           /\ Scheduled(r).duration = r.duration /\ Scheduled(r).pool = r.pool /\ Scheduled(r).ready = r.ready
<1>1. r.tokenExpiresAt \in Nat /\ r.databaseExpiresAt \in Nat
  BY DEF Runtimes
<1>2. /\ Due(r) \in Int
      /\ Due(r) <= instant \/ (Due(r) <= r.tokenExpiresAt /\ Due(r) <= r.databaseExpiresAt)
  BY <1>1, DueInTime
<1>3. PICK d \in Int : d = Due(r)
  BY <1>2
<1>4. Scheduled(r) = [r EXCEPT !.phase = "idle", !.since = 0, !.timer = d]
  BY <1>3 DEF Scheduled
<1>5. PICK n : n = [r EXCEPT !.phase = "idle", !.since = 0, !.timer = d]
  OBVIOUS
<1>6. /\ n \in Runtimes /\ n.phase = "idle" /\ n.since = 0 /\ n.timer = d /\ n.token = r.token
      /\ n.tokenExpiresAt = r.tokenExpiresAt /\ n.credentials = r.credentials
      /\ n.databaseExpiresAt = r.databaseExpiresAt /\ n.next = r.next
      /\ n.duration = r.duration /\ n.pool = r.pool /\ n.ready = r.ready
  BY <1>3, <1>5 DEF Runtimes, VaultPhases, RunPhases, RestPhases
<1>7. QED BY <1>2, <1>3, <1>4, <1>5, <1>6

\* What is issued is made of numbers.
LEMMA IssuedNumbers ==
    ASSUME RuntimeTypeOK
    PROVE  /\ \A t \in 1..Len(grant) : grant[t].until \in Nat /\ grant[t].limit \in Nat
           /\ \A l \in 1..Len(dblease) : dblease[l].until \in Nat /\ dblease[l].limit \in Nat
<1>1. grant \in Seq(Grants) /\ dblease \in Seq(DbLeases)
  BY DEF RuntimeTypeOK
<1>2. ASSUME NEW t \in 1..Len(grant) PROVE grant[t].until \in Nat /\ grant[t].limit \in Nat
  <2>1. grant[t] \in Grants
    BY <1>1
  <2>2. QED BY <2>1 DEF Grants
<1>3. ASSUME NEW l \in 1..Len(dblease) PROVE dblease[l].until \in Nat /\ dblease[l].limit \in Nat
  <2>1. dblease[l] \in DbLeases
    BY <1>1
  <2>2. QED BY <2>1 DEF DbLeases
<1>4. QED BY <1>2, <1>3

\* The service begins to sign in.
LEMMA StartRuntimeStep == ASSUME RuntimeInv, StartRuntime PROVE RuntimeInv'
<1>1. /\ RuntimeTypeOK /\ IssuedInv /\ HeldInv /\ runtime \in Runtimes /\ instant \in Nat
      /\ runtime.phase = "off" /\ runtime' = Asking(runtime, "login")
      /\ UNCHANGED <<instant, service, grant, dblease>>
  BY DEF RuntimeInv, RuntimeTypeOK, StartRuntime
<1>2. "login" \in VaultPhases
  BY DEF VaultPhases, StartCalls
<1>3. runtime' \in Runtimes /\ runtime'.phase = "login" /\ runtime'.since = instant /\ runtime'.pool = runtime.pool
  BY <1>1, <1>2, AskingSets
<1>4. RuntimeTypeOK'
  BY <1>1, <1>3 DEF RuntimeTypeOK
<1>5. IssuedInv'
  <2>1. Mark = instant /\ Mark' = instant
    BY <1>1, <1>3 DEF Mark, StartCalls, RenewCalls
  <2>2. QED BY <1>1, <2>1, IssuedKept
<1>6. HeldInv'
  BY <1>1, <1>3, Periods DEF HeldInv, RunPhases, StartCalls, RestPhases, RenewCalls
<1>7. CountedInv' /\ PunctualInv'
  BY <1>3 DEF CountedInv, PunctualInv, RunPhases, RestPhases, RenewCalls
<1>8. QED BY <1>4, <1>5, <1>6, <1>7 DEF RuntimeInv

\* The service has its first token.
LEMMA LoggedInStep == ASSUME RuntimeInv, LoggedIn PROVE RuntimeInv'
<1>1. /\ RuntimeTypeOK /\ IssuedInv /\ HeldInv /\ runtime \in Runtimes /\ instant \in Nat
      /\ runtime.phase = "login" /\ UNCHANGED <<instant, service, dblease>>
      /\ grant \in Seq(Grants) /\ dblease \in Seq(DbLeases)
  BY DEF RuntimeInv, RuntimeTypeOK, LoggedIn
<1>2. PICK at \in When : LogIn(at)
  BY DEF LoggedIn
<1>3. /\ at \in Nat /\ runtime.since \in Nat /\ runtime.since <= at /\ at <= instant
      /\ instant <= runtime.since + CallTime /\ runtime.pool = 0
  BY <1>1, Periods DEF When, HeldInv, StartCalls, RunPhases, RestPhases, RenewCalls, Runtimes
<1>4. /\ grant' \in Seq(Grants) /\ Len(grant') = Len(grant) + 1
      /\ \A t \in 1..Len(grant) : grant'[t] = grant[t]
      /\ grant'[Len(grant) + 1].until = at + TokenTtl
      /\ grant'[Len(grant) + 1].limit = at + TokenLimit
  BY <1>1, <1>2, <1>3, LogInSets
<1>5. PICK k \in Nat : k = Len(grant) + 1
  BY <1>1
<1>6. PICK m : m = [runtime EXCEPT !.token = k]
  OBVIOUS
<1>7. m \in Runtimes /\ m.token = k /\ m.pool = runtime.pool
  BY <1>1, <1>6 DEF Runtimes
<1>8. "issue" \in VaultPhases
  BY DEF VaultPhases, StartCalls
<1>9. runtime' = Asking(m, "issue")
  BY <1>5, <1>6 DEF LoggedIn
<1>10. /\ runtime' \in Runtimes /\ runtime'.phase = "issue" /\ runtime'.since = instant
       /\ runtime'.token = k /\ runtime'.pool = 0
  BY <1>1, <1>3, <1>7, <1>8, <1>9, AskingSets
<1>11. RuntimeTypeOK'
  BY <1>1, <1>4, <1>10 DEF RuntimeTypeOK
<1>12. IssuedInv'
  <2>1. Mark = runtime.since /\ Mark' = instant
    BY <1>1, <1>10 DEF Mark, StartCalls
  <2>2. \A t \in 1..Len(grant') :
           \/ t \in 1..Len(grant) /\ grant'[t] = grant[t]
           \/ grant'[t].until <= grant'[t].limit /\ grant'[t].until <= Mark' + TokenTtl
    <3>1. at + TokenTtl <= at + TokenLimit /\ at + TokenTtl <= instant + TokenTtl
      <4>1. at \in Nat /\ at <= instant /\ instant \in Nat
        BY <1>1, <1>3
      <4>2. QED BY <4>1, Times
    <3>2. grant'[k].until <= grant'[k].limit /\ grant'[k].until <= Mark' + TokenTtl
      BY <1>4, <1>5, <2>1, <3>1
    <3>3. \A t \in 1..Len(grant') : t \in 1..Len(grant) \/ t = k
      BY <1>1, <1>4, <1>5
    <3>4. QED BY <1>4, <3>2, <3>3
  <2>3. \A l \in 1..Len(dblease') :
           \/ l \in 1..Len(dblease) /\ dblease'[l] = dblease[l]
           \/ dblease'[l].until <= dblease'[l].limit /\ dblease'[l].until <= Mark' + LeaseTtl
    BY <1>1
  <2>4. QED BY <1>1, <1>3, <2>1, <2>2, <2>3, IssuedMoves
<1>13. HeldInv'
  BY <1>1, <1>3, <1>4, <1>5, <1>10, Periods DEF HeldInv, RunPhases, StartCalls, RestPhases, RenewCalls
<1>14. CountedInv'
  <2>1. runtime'.since + TokenTtl <= grant'[runtime'.token].until + CallTime
    <3>1. instant + TokenTtl <= at + TokenTtl + CallTime
      <4>1. instant \in Nat /\ at \in Nat /\ instant <= at + CallTime
        BY <1>1, <1>2, <1>3, WithinCall
      <4>2. QED BY <4>1, Periods
    <3>2. QED BY <1>4, <1>5, <1>10, <3>1
  <2>2. QED BY <1>10, <2>1 DEF CountedInv, RunPhases, RestPhases, RenewCalls
<1>15. PunctualInv'
  BY <1>10 DEF PunctualInv, RestPhases
<1>16. QED BY <1>11, <1>12, <1>13, <1>14, <1>15 DEF RuntimeInv

\* The expiry of both is counted, and the service is ready.
LEMMA ReadiedSets ==
    ASSUME NEW r \in Runtimes, instant \in Nat
    PROVE  /\ Readied(r) \in Runtimes /\ Readied(r).phase = "idle"
           /\ Readied(r).tokenExpiresAt = instant + TokenTtl /\ Readied(r).databaseExpiresAt = instant + LeaseTtl
           /\ Readied(r).timer <= instant + TokenTtl /\ Readied(r).timer <= instant + LeaseTtl
           /\ Readied(r).token = r.token /\ Readied(r).credentials = r.credentials
           /\ Readied(r).next = r.next /\ Readied(r).duration = r.duration /\ Readied(r).pool = r.pool
<1>11. PICK a \in Nat : a = instant + TokenTtl
  BY Periods
<1>12. PICK b \in Nat : b = instant + LeaseTtl
  BY Periods
<1>1. PICK n : n = [r EXCEPT !.tokenExpiresAt = a, !.databaseExpiresAt = b]
  OBVIOUS
<1>2. /\ n \in Runtimes /\ n.tokenExpiresAt = a /\ n.databaseExpiresAt = b
      /\ n.token = r.token /\ n.credentials = r.credentials
      /\ n.next = r.next /\ n.duration = r.duration /\ n.pool = r.pool
  BY <1>1 DEF Runtimes
<1>3. PICK s : s = Scheduled(n)
  OBVIOUS
<1>4. /\ s \in Runtimes /\ s.phase = "idle"
      /\ s.timer <= instant \/ (s.timer <= n.tokenExpiresAt /\ s.timer <= n.databaseExpiresAt)
      /\ s.token = n.token /\ s.tokenExpiresAt = n.tokenExpiresAt /\ s.credentials = n.credentials
      /\ s.databaseExpiresAt = n.databaseExpiresAt /\ s.next = n.next
      /\ s.duration = n.duration /\ s.pool = n.pool
  BY <1>2, <1>3, ScheduledSets
<1>5. PICK q : q = [s EXCEPT !.ready = TRUE]
  OBVIOUS
<1>6. /\ q \in Runtimes /\ q.phase = s.phase /\ q.timer = s.timer
      /\ q.token = s.token /\ q.tokenExpiresAt = s.tokenExpiresAt /\ q.credentials = s.credentials
      /\ q.databaseExpiresAt = s.databaseExpiresAt /\ q.next = s.next
      /\ q.duration = s.duration /\ q.pool = s.pool
  BY <1>4, <1>5 DEF Runtimes
<1>7. Readied(r) = q
  BY <1>1, <1>3, <1>5, <1>11, <1>12 DEF Readied
<1>8. s.timer \in Int
  BY <1>4 DEF Runtimes
<1>9. s.timer <= instant + TokenTtl /\ s.timer <= instant + LeaseTtl
  BY <1>2, <1>4, <1>8, <1>11, <1>12, Periods
<1>10. QED BY <1>2, <1>4, <1>6, <1>7, <1>9, <1>11, <1>12

\* The service has its first credentials.
LEMMA FirstIssuedStep == ASSUME RuntimeInv, FirstIssued PROVE RuntimeInv'
<1>1. /\ RuntimeTypeOK /\ IssuedInv /\ HeldInv /\ CountedInv /\ runtime \in Runtimes /\ instant \in Nat
      /\ runtime.phase = "issue" /\ UNCHANGED <<instant, service, grant>>
      /\ grant \in Seq(Grants) /\ dblease \in Seq(DbLeases) /\ runtime.token \in Nat
  BY DEF RuntimeInv, RuntimeTypeOK, FirstIssued, Runtimes
<1>2. PICK at \in When : IssueLease(at)
  BY DEF FirstIssued
<1>3. /\ at \in Nat /\ runtime.since \in Nat /\ runtime.since <= at /\ at <= instant
      /\ instant <= runtime.since + CallTime /\ runtime.pool = 0 /\ runtime.token \in 1..Len(grant)
  BY <1>1, Periods DEF When, HeldInv, StartCalls, RunPhases, RestPhases, RenewCalls, Runtimes
<1>4. /\ dblease' \in Seq(DbLeases) /\ Len(dblease') = Len(dblease) + 1
      /\ \A l \in 1..Len(dblease) : dblease'[l] = dblease[l]
      /\ dblease'[Len(dblease) + 1].until = at + LeaseTtl
      /\ dblease'[Len(dblease) + 1].limit = at + LeaseLimit
  BY <1>1, <1>2, <1>3, IssueSets
<1>5. PICK k \in Nat : k = Len(dblease) + 1
  BY <1>1
<1>6. PICK m : m = [runtime EXCEPT !.credentials = k]
  OBVIOUS
<1>7. m \in Runtimes /\ m.credentials = k /\ m.token = runtime.token /\ m.pool = 0
  BY <1>1, <1>3, <1>6 DEF Runtimes
<1>8. "connect" \in VaultPhases
  BY DEF VaultPhases, StartCalls
<1>9. PICK r : r = IF service = "backend" THEN Readied(m) ELSE m
  OBVIOUS
<1>10. /\ r \in Runtimes /\ r.token = runtime.token /\ r.credentials = k /\ r.pool = 0
       /\ service = "backend" =>
             /\ r.tokenExpiresAt = instant + TokenTtl /\ r.databaseExpiresAt = instant + LeaseTtl
             /\ r.timer <= instant + TokenTtl /\ r.timer <= instant + LeaseTtl
  BY <1>1, <1>7, <1>9, ReadiedSets
<1>11. runtime' = Asking(r, "connect")
  BY <1>5, <1>6, <1>9 DEF FirstIssued
<1>12. /\ runtime' \in Runtimes /\ runtime'.phase = "connect" /\ runtime'.since = instant
       /\ runtime'.token = runtime.token /\ runtime'.credentials = k /\ runtime'.pool = 0
       /\ runtime'.tokenExpiresAt = r.tokenExpiresAt /\ runtime'.databaseExpiresAt = r.databaseExpiresAt
       /\ runtime'.timer = r.timer
  BY <1>1, <1>8, <1>10, <1>11, AskingSets
<1>13. RuntimeTypeOK'
  BY <1>1, <1>4, <1>12 DEF RuntimeTypeOK
<1>14. Mark = runtime.since /\ Mark' = instant
  BY <1>1, <1>12 DEF Mark, StartCalls
<1>15. IssuedInv'
  <2>1. \A l \in 1..Len(dblease') :
           \/ l \in 1..Len(dblease) /\ dblease'[l] = dblease[l]
           \/ dblease'[l].until <= dblease'[l].limit /\ dblease'[l].until <= Mark' + LeaseTtl
    <3>1. at + LeaseTtl <= at + LeaseLimit /\ at + LeaseTtl <= instant + LeaseTtl
      <4>1. at \in Nat /\ at <= instant /\ instant \in Nat
        BY <1>1, <1>3
      <4>2. QED BY <4>1, Times
    <3>2. dblease'[k].until <= dblease'[k].limit /\ dblease'[k].until <= Mark' + LeaseTtl
      BY <1>4, <1>5, <1>14, <3>1
    <3>3. \A l \in 1..Len(dblease') : l \in 1..Len(dblease) \/ l = k
      BY <1>1, <1>4, <1>5
    <3>4. QED BY <1>4, <3>2, <3>3
  <2>2. \A t \in 1..Len(grant') :
           \/ t \in 1..Len(grant) /\ grant'[t] = grant[t]
           \/ grant'[t].until <= grant'[t].limit /\ grant'[t].until <= Mark' + TokenTtl
    BY <1>1
  <2>3. QED BY <1>1, <1>3, <1>14, <2>1, <2>2, IssuedMoves
<1>16. HeldInv'
  BY <1>1, <1>3, <1>4, <1>5, <1>12, Periods DEF HeldInv, RunPhases, StartCalls, RestPhases, RenewCalls
<1>17. grant[runtime.token].until \in Nat
  BY <1>1, <1>3, IssuedNumbers
<1>18. runtime.since + TokenTtl <= grant[runtime.token].until + CallTime
  BY <1>1 DEF CountedInv
<1>19. CountedInv'
  <2>1. PICK g \in Nat : g = grant[runtime.token].until
    BY <1>17
  <2>2. PICK s \in Nat : s = runtime.since
    BY <1>3
  <2>3. /\ instant \in Nat /\ at \in Nat /\ instant <= s + CallTime /\ instant <= at + CallTime
        /\ s + TokenTtl <= g + CallTime
    BY <1>1, <1>2, <1>3, <1>18, <2>1, <2>2, WithinCall
  <2>4. instant + TokenTtl <= g + 2 * CallTime /\ instant + TokenTtl <= g + 3 * CallTime
    BY <2>3, Periods
  <2>5. instant + LeaseTtl <= at + LeaseTtl + CallTime /\ instant + LeaseTtl <= at + LeaseTtl + 2 * CallTime
    BY <2>3, Periods
  <2>6. instant + TokenTtl <= instant + TokenTtl
    BY <2>3, Periods
  <2>7. grant'[runtime'.token].until = g /\ dblease'[runtime'.credentials].until = at + LeaseTtl
    BY <1>1, <1>4, <1>5, <1>12, <2>1
  <2>8. ASSUME service' = "backend"
        PROVE  /\ runtime'.tokenExpiresAt <= grant'[runtime'.token].until + 3 * CallTime
               /\ runtime'.tokenExpiresAt <= Mark' + TokenTtl
               /\ runtime'.databaseExpiresAt <= dblease'[runtime'.credentials].until + 2 * CallTime
    BY <1>1, <1>10, <1>12, <1>14, <2>4, <2>5, <2>6, <2>7, <2>8
  <2>9. QED BY <1>12, <2>4, <2>5, <2>7, <2>8 DEF CountedInv, RunPhases, RestPhases, RenewCalls
<1>20. PunctualInv'
  BY <1>1, <1>10, <1>12, Times DEF PunctualInv, RestPhases
<1>21. QED BY <1>13, <1>15, <1>16, <1>19, <1>20 DEF RuntimeInv

\* The service has its pool.
LEMMA FirstConnectedStep == ASSUME RuntimeInv, FirstConnected PROVE RuntimeInv'
<1>1. /\ RuntimeTypeOK /\ IssuedInv /\ HeldInv /\ CountedInv /\ PunctualInv
      /\ runtime \in Runtimes /\ instant \in Nat
      /\ runtime.phase = "connect" /\ UNCHANGED <<instant, service, grant, dblease>>
      /\ service \in {"backend", "auth"}
  BY DEF RuntimeInv, RuntimeTypeOK, FirstConnected
<1>2. /\ runtime.since \in Nat /\ runtime.since <= instant /\ instant <= runtime.since + CallTime
      /\ runtime.token \in 1..Len(grant) /\ runtime.credentials \in 1..Len(dblease) /\ runtime.credentials # 0
      /\ runtime.tokenExpiresAt \in Nat /\ runtime.databaseExpiresAt \in Nat /\ runtime.timer \in Int
  BY <1>1, Periods DEF HeldInv, StartCalls, RunPhases, RestPhases, RenewCalls, Runtimes
<1>3. grant[runtime.token].until \in Nat /\ dblease[runtime.credentials].until \in Nat
  BY <1>1, <1>2, IssuedNumbers
<1>4. PICK m : m = [runtime EXCEPT !.pool = runtime.credentials, !.phase = "idle", !.since = 0]
  OBVIOUS
<1>5. /\ m \in Runtimes /\ m.phase = "idle" /\ m.pool = runtime.credentials /\ m.credentials = runtime.credentials
      /\ m.token = runtime.token /\ m.tokenExpiresAt = runtime.tokenExpiresAt
      /\ m.databaseExpiresAt = runtime.databaseExpiresAt /\ m.timer = runtime.timer
  BY <1>1, <1>4 DEF Runtimes, VaultPhases, RunPhases, RestPhases
<1>6. runtime' = IF service = "auth" THEN Readied(m) ELSE m
  BY <1>4 DEF FirstConnected
<1>7. PICK n : n = runtime'
  OBVIOUS
<1>8. /\ n \in Runtimes /\ n.phase = "idle" /\ n.pool = runtime.credentials /\ n.credentials = runtime.credentials
      /\ n.token = runtime.token
  BY <1>1, <1>5, <1>6, <1>7, ReadiedSets
<1>9. /\ n.tokenExpiresAt <= grant[runtime.token].until + 3 * CallTime
      /\ n.tokenExpiresAt <= instant + TokenTtl
      /\ n.databaseExpiresAt <= dblease[runtime.credentials].until + 2 * CallTime
      /\ instant < n.tokenExpiresAt + 3 * CallTime /\ instant < n.databaseExpiresAt + 3 * CallTime
      /\ n.timer <= n.tokenExpiresAt /\ n.timer <= n.databaseExpiresAt
  <2>1. CASE service = "auth"
    <3>1. /\ n.tokenExpiresAt = instant + TokenTtl /\ n.databaseExpiresAt = instant + LeaseTtl
          /\ n.timer <= instant + TokenTtl /\ n.timer <= instant + LeaseTtl
      BY <1>1, <1>5, <1>6, <1>7, <2>1, ReadiedSets
    <3>2. /\ runtime.since + TokenTtl <= grant[runtime.token].until + 2 * CallTime
          /\ runtime.since + LeaseTtl <= dblease[runtime.credentials].until + CallTime
      BY <1>1 DEF CountedInv
    <3>3. PICK g \in Nat : g = grant[runtime.token].until
      BY <1>3
    <3>4. PICK d \in Nat : d = dblease[runtime.credentials].until
      BY <1>3
    <3>5. PICK s \in Nat : s = runtime.since
      BY <1>2
    <3>6. /\ instant \in Nat /\ instant <= s + CallTime
          /\ s + TokenTtl <= g + 2 * CallTime /\ s + LeaseTtl <= d + CallTime
      BY <1>1, <1>2, <3>2, <3>3, <3>4, <3>5
    <3>7. instant + TokenTtl <= g + 3 * CallTime /\ instant + LeaseTtl <= d + 2 * CallTime
      BY <3>3, <3>4, <3>5, <3>6, Periods
    <3>8. /\ instant < instant + TokenTtl + 3 * CallTime /\ instant < instant + LeaseTtl + 3 * CallTime
          /\ instant + TokenTtl <= instant + TokenTtl
      BY <3>6, Periods
    <3>9. QED BY <3>1, <3>3, <3>4, <3>7, <3>8
  <2>2. CASE service = "backend"
    <3>1. /\ n.tokenExpiresAt = runtime.tokenExpiresAt /\ n.databaseExpiresAt = runtime.databaseExpiresAt
          /\ n.timer = runtime.timer
      BY <1>5, <1>6, <1>7, <2>2
    <3>2. /\ runtime.tokenExpiresAt <= grant[runtime.token].until + 3 * CallTime
          /\ runtime.tokenExpiresAt <= runtime.since + TokenTtl
          /\ runtime.databaseExpiresAt <= dblease[runtime.credentials].until + 2 * CallTime
      BY <1>1, <2>2 DEF CountedInv, Mark, StartCalls
    <3>3. /\ runtime.since + Margin < runtime.tokenExpiresAt /\ runtime.since + Margin < runtime.databaseExpiresAt
          /\ runtime.timer <= runtime.tokenExpiresAt /\ runtime.timer <= runtime.databaseExpiresAt
      BY <1>1, <1>2, <2>2, Times DEF PunctualInv
    <3>4. PICK s \in Nat : s = runtime.since
      BY <1>2
    <3>5. PICK a \in Nat : a = runtime.tokenExpiresAt
      BY <1>2
    <3>6. PICK b \in Nat : b = runtime.databaseExpiresAt
      BY <1>2
    <3>7. /\ instant \in Nat /\ s <= instant /\ instant <= s + CallTime /\ a <= s + TokenTtl
          /\ s + Margin < a /\ s + Margin < b
      BY <1>1, <1>2, <3>2, <3>3, <3>4, <3>5, <3>6
    <3>8. Margin \in Nat /\ Margin >= CallTime
      BY Times
    <3>9. a <= instant + TokenTtl /\ instant < a + 3 * CallTime /\ instant < b + 3 * CallTime
      BY <3>4, <3>5, <3>6, <3>7, <3>8, Periods
    <3>10. QED BY <3>1, <3>2, <3>3, <3>5, <3>6, <3>9
  <2>3. QED BY <1>1, <2>1, <2>2
<1>10. RuntimeTypeOK'
  BY <1>1, <1>7, <1>8 DEF RuntimeTypeOK
<1>11. Mark = runtime.since /\ Mark' = instant
  BY <1>1, <1>7, <1>8 DEF Mark, StartCalls, RenewCalls
<1>12. IssuedInv'
  BY <1>1, <1>2, <1>11, IssuedKept
<1>13. HeldInv'
  BY <1>1, <1>2, <1>7, <1>8 DEF HeldInv, RunPhases, StartCalls, RestPhases, RenewCalls
<1>14. CountedInv'
  BY <1>1, <1>7, <1>8, <1>9, <1>11 DEF CountedInv, RunPhases, RestPhases, RenewCalls
<1>15. PunctualInv'
  BY <1>1, <1>7, <1>8, <1>9 DEF PunctualInv, RestPhases
<1>16. QED BY <1>10, <1>12, <1>13, <1>14, <1>15 DEF RuntimeInv

\* What holds during a call of a renewal.
LEMMA DuringRenewal ==
    ASSUME RuntimeInv, runtime.phase \in RenewCalls
    PROVE  /\ RuntimeTypeOK /\ IssuedInv /\ HeldInv /\ CountedInv /\ PunctualInv
           /\ runtime \in Runtimes /\ instant \in Nat /\ service \in {"backend", "auth"}
           /\ grant \in Seq(Grants) /\ dblease \in Seq(DbLeases)
           /\ runtime.since \in Nat /\ runtime.since <= instant /\ instant <= runtime.since + CallTime
           /\ runtime.token \in 1..Len(grant) /\ runtime.credentials \in 1..Len(dblease)
           /\ runtime.pool # 0 /\ runtime.pool = runtime.credentials
           /\ Mark = runtime.since
           /\ runtime.tokenExpiresAt \in Nat /\ runtime.databaseExpiresAt \in Nat
           /\ grant[runtime.token].until \in Nat /\ dblease[runtime.credentials].until \in Nat
           /\ runtime.tokenExpiresAt <= grant[runtime.token].until + 3 * CallTime
           /\ runtime.tokenExpiresAt <= runtime.since + TokenTtl
           /\ runtime.databaseExpiresAt <= dblease[runtime.credentials].until + 2 * CallTime
<1>1. /\ RuntimeTypeOK /\ IssuedInv /\ HeldInv /\ CountedInv /\ PunctualInv
      /\ runtime \in Runtimes /\ instant \in Nat /\ service \in {"backend", "auth"}
      /\ grant \in Seq(Grants) /\ dblease \in Seq(DbLeases)
  BY DEF RuntimeInv, RuntimeTypeOK
<1>2. /\ runtime.since \in Nat /\ runtime.tokenExpiresAt \in Nat /\ runtime.databaseExpiresAt \in Nat
  BY <1>1 DEF Runtimes
<1>3. Mark = runtime.since
  BY DEF Mark
<1>4. /\ runtime.since <= instant /\ instant <= runtime.since + CallTime
      /\ runtime.token \in 1..Len(grant) /\ runtime.credentials \in 1..Len(dblease)
      /\ runtime.pool # 0 /\ runtime.pool = runtime.credentials
  BY <1>1 DEF HeldInv, RunPhases
<1>5. grant[runtime.token].until \in Nat /\ dblease[runtime.credentials].until \in Nat
  BY <1>1, <1>4, IssuedNumbers
<1>6. /\ runtime.tokenExpiresAt <= grant[runtime.token].until + 3 * CallTime
      /\ runtime.tokenExpiresAt <= runtime.since + TokenTtl
      /\ runtime.databaseExpiresAt <= dblease[runtime.credentials].until + 2 * CallTime
  BY <1>1, <1>3 DEF CountedInv, RunPhases
<1>7. QED BY <1>1, <1>2, <1>3, <1>4, <1>5, <1>6

\* The times of it.
LEMMA DuringTimes ==
    ASSUME RuntimeInv, runtime.phase \in RenewCalls
    PROVE  /\ instant \in Nat /\ runtime.since \in Nat
           /\ runtime.since <= instant /\ instant <= runtime.since + CallTime
           /\ runtime.tokenExpiresAt \in Nat /\ runtime.databaseExpiresAt \in Nat
  BY DuringRenewal

\* The token is renewed, and its expiry counted.
LEMMA TokenRenewedStep == ASSUME RuntimeInv, TokenRenewed PROVE RuntimeInv'
<1>1. runtime.phase = "renewToken" /\ UNCHANGED <<instant, service, dblease>>
  BY DEF TokenRenewed
<1>2. runtime.phase \in RenewCalls
  BY <1>1 DEF RenewCalls
<1>3. PICK at \in When :
         /\ RenewGrant(at)
         /\ runtime' = Asking([runtime EXCEPT !.tokenExpiresAt = instant + grant'[runtime.token].until - at],
                              "renewLease")
  BY DEF TokenRenewed
<1>4. at \in Nat /\ runtime.since <= at /\ at <= instant /\ instant <= at + CallTime
  BY <1>2, DuringRenewal, WithinCall
<1>5. /\ grant' \in Seq(Grants) /\ Len(grant') = Len(grant)
      /\ \A t \in 1..Len(grant) : t # runtime.token => grant'[t] = grant[t]
      /\ grant'[runtime.token].until \in Nat
      /\ at < grant'[runtime.token].until
      /\ grant[runtime.token].until <= grant'[runtime.token].until
      /\ grant'[runtime.token].until <= grant'[runtime.token].limit
      /\ grant'[runtime.token].until <= at + TokenTtl
  <2>1. grant \in Seq(Grants) /\ IssuedInv /\ runtime.token \in 1..Len(grant) /\ Mark \in Int /\ Mark <= at
    BY <1>2, <1>4, DuringRenewal
  <2>2. QED BY <1>3, <1>4, <2>1, RenewGrantSets
<1>6. PICK u \in Nat : u = grant'[runtime.token].until
  BY <1>5
<1>7. PICK e : e = instant + u - at
  OBVIOUS
<1>8. e \in Nat /\ instant < e /\ e <= u + CallTime /\ e <= instant + TokenTtl
  <2>1. at < u /\ u <= at + TokenTtl
    BY <1>5, <1>6
  <2>2. instant \in Nat
    BY <1>2, DuringTimes
  <2>3. QED BY <1>4, <1>7, <2>1, <2>2, Periods
<1>9. PICK m : m = [runtime EXCEPT !.tokenExpiresAt = e]
  OBVIOUS
<1>10. /\ m \in Runtimes /\ m.tokenExpiresAt = e /\ m.token = runtime.token
       /\ m.credentials = runtime.credentials /\ m.databaseExpiresAt = runtime.databaseExpiresAt
       /\ m.pool = runtime.pool
  BY <1>2, <1>8, <1>9, DuringRenewal DEF Runtimes
<1>11. runtime' = Asking(m, "renewLease") /\ "renewLease" \in VaultPhases
  BY <1>3, <1>6, <1>7, <1>9 DEF VaultPhases, RunPhases, RenewCalls
<1>12. /\ runtime' \in Runtimes /\ runtime'.phase = "renewLease" /\ runtime'.since = instant
       /\ runtime'.token = runtime.token /\ runtime'.credentials = runtime.credentials
       /\ runtime'.tokenExpiresAt = e /\ runtime'.databaseExpiresAt = runtime.databaseExpiresAt
       /\ runtime'.pool = runtime.pool
  BY <1>2, <1>10, <1>11, AskingSets, DuringRenewal
<1>13. Mark = runtime.since /\ Mark' = instant
  BY <1>1, <1>12 DEF Mark, RenewCalls
<1>14. RuntimeTypeOK'
  BY <1>1, <1>2, <1>5, <1>12, DuringRenewal DEF RuntimeTypeOK
<1>15. IssuedInv'
  <2>1. \A t \in 1..Len(grant') :
           \/ t \in 1..Len(grant) /\ grant'[t] = grant[t]
           \/ grant'[t].until <= grant'[t].limit /\ grant'[t].until <= Mark' + TokenTtl
    <3>1. grant'[runtime.token].until <= Mark' + TokenTtl
      <4>1. u <= at + TokenTtl /\ instant \in Nat
        BY <1>2, <1>5, <1>6, DuringTimes
      <4>2. u <= instant + TokenTtl
        BY <1>4, <4>1, Periods
      <4>3. QED BY <1>6, <1>13, <4>2
    <3>2. QED BY <1>5, <3>1
  <2>2. \A l \in 1..Len(dblease') :
           \/ l \in 1..Len(dblease) /\ dblease'[l] = dblease[l]
           \/ dblease'[l].until <= dblease'[l].limit /\ dblease'[l].until <= Mark' + LeaseTtl
    BY <1>1
  <2>3. QED BY <1>2, <1>13, <2>1, <2>2, IssuedMoves, DuringRenewal
<1>16. HeldInv'
  <2>1. runtime'.since <= instant' /\ instant' <= runtime'.since + CallTime
    BY <1>1, <1>2, <1>12, Periods, DuringTimes
  <2>2. QED BY <1>1, <1>2, <1>5, <1>12, <2>1, DuringRenewal DEF HeldInv, RunPhases, RestPhases, RenewCalls
<1>17. CountedInv'
  <2>1. /\ runtime'.tokenExpiresAt <= grant'[runtime'.token].until + 3 * CallTime
        /\ runtime'.tokenExpiresAt <= Mark' + TokenTtl
    BY <1>6, <1>8, <1>12, <1>13, Periods
  <2>2. runtime'.databaseExpiresAt <= dblease'[runtime'.credentials].until + 2 * CallTime
    BY <1>1, <1>2, <1>12, DuringRenewal
  <2>3. QED BY <1>12, <2>1, <2>2 DEF CountedInv
<1>18. PunctualInv'
  <2>1. runtime.since < runtime.databaseExpiresAt + 3 * CallTime
    BY <1>1, <1>2, DuringRenewal DEF PunctualInv
  <2>2. instant < runtime.databaseExpiresAt + 4 * CallTime /\ instant < e + 4 * CallTime
    BY <1>2, <1>8, <2>1, Periods, DuringTimes
  <2>3. QED BY <1>8, <1>12, <2>2 DEF PunctualInv, RestPhases
<1>19. QED BY <1>14, <1>15, <1>16, <1>17, <1>18 DEF RuntimeInv

\* The service signs in again, whether or not Vault did renew the token.
LEMMA TokenNotRenewedStep == ASSUME RuntimeInv, TokenNotRenewed PROVE RuntimeInv'
<1>1. /\ runtime.phase = "renewToken" /\ UNCHANGED <<instant, service, dblease>>
      /\ runtime' = Asking(runtime, "relogin") /\ "relogin" \in VaultPhases
  BY DEF TokenNotRenewed, VaultPhases, RunPhases, RenewCalls
<1>2. runtime.phase \in RenewCalls
  BY <1>1 DEF RenewCalls
<1>3. /\ runtime' \in Runtimes /\ runtime'.phase = "relogin" /\ runtime'.since = instant
      /\ runtime'.token = runtime.token /\ runtime'.credentials = runtime.credentials
      /\ runtime'.tokenExpiresAt = runtime.tokenExpiresAt
      /\ runtime'.databaseExpiresAt = runtime.databaseExpiresAt /\ runtime'.pool = runtime.pool
  BY <1>1, <1>2, AskingSets, DuringRenewal
<1>4. Mark = runtime.since /\ Mark' = instant
  BY <1>1, <1>3 DEF Mark, RenewCalls
<1>5. /\ grant' \in Seq(Grants) /\ Len(grant') = Len(grant)
      /\ grant'[runtime.token].until \in Nat
      /\ grant[runtime.token].until <= grant'[runtime.token].until
      /\ \A t \in 1..Len(grant') :
            \/ t \in 1..Len(grant) /\ grant'[t] = grant[t]
            \/ grant'[t].until <= grant'[t].limit /\ grant'[t].until <= Mark' + TokenTtl
  <2>1. CASE UNCHANGED grant
    BY <1>2, <2>1, DuringRenewal
  <2>2. CASE \E at \in When : RenewGrant(at)
    <3>1. PICK at \in When : RenewGrant(at)
      BY <2>2
    <3>2. at \in Nat /\ runtime.since <= at /\ at <= instant /\ instant <= at + CallTime
      BY <1>2, DuringRenewal, WithinCall
    <3>3. /\ grant' \in Seq(Grants) /\ Len(grant') = Len(grant)
          /\ \A t \in 1..Len(grant) : t # runtime.token => grant'[t] = grant[t]
          /\ grant'[runtime.token].until \in Nat
          /\ grant[runtime.token].until <= grant'[runtime.token].until
          /\ grant'[runtime.token].until <= grant'[runtime.token].limit
          /\ grant'[runtime.token].until <= at + TokenTtl
      <4>1. grant \in Seq(Grants) /\ IssuedInv /\ runtime.token \in 1..Len(grant) /\ Mark \in Int /\ Mark <= at
        BY <1>2, <3>2, DuringRenewal
      <4>2. QED BY <3>1, <3>2, <4>1, RenewGrantSets
    <3>4. grant'[runtime.token].until <= Mark' + TokenTtl
      <4>1. PICK u \in Nat : u = grant'[runtime.token].until
        BY <3>3
      <4>2. u <= at + TokenTtl /\ instant \in Nat
        BY <1>2, <3>3, <4>1, DuringTimes
      <4>3. u <= instant + TokenTtl
        BY <3>2, <4>2, Periods
      <4>4. QED BY <1>4, <4>1, <4>3
    <3>5. QED BY <3>3, <3>4
  <2>3. QED BY <2>1, <2>2 DEF TokenNotRenewed
<1>6. RuntimeTypeOK'
  BY <1>1, <1>2, <1>3, <1>5, DuringRenewal DEF RuntimeTypeOK
<1>7. IssuedInv'
  <2>1. \A l \in 1..Len(dblease') :
           \/ l \in 1..Len(dblease) /\ dblease'[l] = dblease[l]
           \/ dblease'[l].until <= dblease'[l].limit /\ dblease'[l].until <= Mark' + LeaseTtl
    BY <1>1
  <2>2. QED BY <1>2, <1>4, <1>5, <2>1, IssuedMoves, DuringRenewal
<1>8. HeldInv'
  <2>1. runtime'.since <= instant' /\ instant' <= runtime'.since + CallTime
    BY <1>1, <1>2, <1>3, Periods, DuringTimes
  <2>2. QED BY <1>1, <1>2, <1>3, <1>5, <2>1, DuringRenewal DEF HeldInv, RunPhases, RestPhases, RenewCalls
<1>9. CountedInv'
  <2>5. /\ grant[runtime.token].until \in Nat /\ runtime.tokenExpiresAt <= runtime.since + TokenTtl
        /\ runtime.tokenExpiresAt <= grant[runtime.token].until + 3 * CallTime
    BY <1>2, DuringRenewal
  <2>1. runtime.tokenExpiresAt <= grant'[runtime.token].until + 3 * CallTime
    <3>1. PICK g \in Nat : g = grant[runtime.token].until
      BY <2>5
    <3>2. PICK u \in Nat : u = grant'[runtime.token].until
      BY <1>5
    <3>3. PICK e \in Nat : e = runtime.tokenExpiresAt
      BY <1>2, DuringTimes
    <3>4. g <= u /\ e <= g + 3 * CallTime
      BY <1>5, <2>5, <3>1, <3>2, <3>3
    <3>5. e <= u + 3 * CallTime
      BY <3>4, Periods
    <3>6. QED BY <3>2, <3>3, <3>5
  <2>2. runtime.tokenExpiresAt <= instant + TokenTtl
    BY <1>2, <2>5, Periods, DuringTimes
  <2>3. runtime'.databaseExpiresAt <= dblease'[runtime'.credentials].until + 2 * CallTime
    BY <1>1, <1>2, <1>3, DuringRenewal
  <2>4. QED BY <1>3, <1>4, <2>1, <2>2, <2>3 DEF CountedInv
<1>10. PunctualInv'
  <2>1. /\ runtime.since < runtime.tokenExpiresAt + 3 * CallTime
        /\ runtime.since < runtime.databaseExpiresAt + 3 * CallTime
    BY <1>1, <1>2, DuringRenewal DEF PunctualInv
  <2>2. instant < runtime.tokenExpiresAt + 4 * CallTime /\ instant < runtime.databaseExpiresAt + 4 * CallTime
    BY <1>2, <2>1, Periods, DuringTimes
  <2>3. QED BY <1>3, <2>2 DEF PunctualInv, RestPhases
<1>11. QED BY <1>6, <1>7, <1>8, <1>9, <1>10 DEF RuntimeInv

\* The service has signed in again.
LEMMA ReloggedInStep == ASSUME RuntimeInv, ReloggedIn PROVE RuntimeInv'
<1>1. runtime.phase = "relogin" /\ UNCHANGED <<instant, service, dblease>>
  BY DEF ReloggedIn
<1>2. runtime.phase \in RenewCalls
  BY <1>1 DEF RenewCalls
<1>3. PICK at \in When : LogIn(at)
  BY DEF ReloggedIn
<1>4. at \in Nat /\ runtime.since <= at /\ at <= instant /\ instant <= at + CallTime
  BY <1>2, DuringRenewal, WithinCall
<1>5. /\ grant' \in Seq(Grants) /\ Len(grant') = Len(grant) + 1
      /\ \A t \in 1..Len(grant) : grant'[t] = grant[t]
      /\ grant'[Len(grant) + 1].until = at + TokenTtl
      /\ grant'[Len(grant) + 1].limit = at + TokenLimit
  BY <1>2, <1>3, <1>4, LogInSets, DuringRenewal
<1>6. PICK k \in Nat : k = Len(grant) + 1
  BY <1>2, DuringRenewal
<1>7. PICK e \in Nat : e = IF service = "auth" THEN instant + TokenTtl ELSE runtime.tokenExpiresAt
  BY <1>2, DuringTimes, Periods
<1>8. PICK r : r = [runtime EXCEPT !.token = k]
  OBVIOUS
<1>9. /\ r \in Runtimes /\ r.token = k /\ r.tokenExpiresAt = runtime.tokenExpiresAt
      /\ r.credentials = runtime.credentials /\ r.databaseExpiresAt = runtime.databaseExpiresAt
      /\ r.pool = runtime.pool
  BY <1>2, <1>8, DuringRenewal DEF Runtimes
<1>10. PICK m : m = IF service = "auth" THEN [r EXCEPT !.tokenExpiresAt = e] ELSE r
  OBVIOUS
<1>11. /\ m \in Runtimes /\ m.token = k /\ m.tokenExpiresAt = e
       /\ m.credentials = runtime.credentials /\ m.databaseExpiresAt = runtime.databaseExpiresAt
       /\ m.pool = runtime.pool
  BY <1>7, <1>9, <1>10 DEF Runtimes
<1>12. runtime' = Asking(m, "reissue") /\ "reissue" \in VaultPhases
  <2>1. runtime' = Asking(IF service = "auth" THEN [r EXCEPT !.tokenExpiresAt = instant + TokenTtl] ELSE r, "reissue")
    BY <1>6, <1>8 DEF ReloggedIn
  <2>2. m = IF service = "auth" THEN [r EXCEPT !.tokenExpiresAt = instant + TokenTtl] ELSE r
    BY <1>7, <1>10
  <2>3. QED BY <2>1, <2>2 DEF VaultPhases, RunPhases, RenewCalls
<1>13. /\ runtime' \in Runtimes /\ runtime'.phase = "reissue" /\ runtime'.since = instant
       /\ runtime'.token = k /\ runtime'.credentials = runtime.credentials
       /\ runtime'.tokenExpiresAt = e /\ runtime'.databaseExpiresAt = runtime.databaseExpiresAt
       /\ runtime'.pool = runtime.pool
  BY <1>2, <1>11, <1>12, AskingSets, DuringRenewal
<1>14. Mark = runtime.since /\ Mark' = instant
  BY <1>2, <1>13 DEF Mark, RenewCalls
<1>15. PICK u \in Nat : u = grant'[k].until /\ u = at + TokenTtl
  BY <1>4, <1>5, <1>6, Periods
<1>16. RuntimeTypeOK'
  BY <1>1, <1>2, <1>5, <1>13, DuringRenewal DEF RuntimeTypeOK
<1>17. IssuedInv'
  <2>1. grant'[k].until <= grant'[k].limit /\ grant'[k].until <= Mark' + TokenTtl
    <3>1. at + TokenTtl <= at + TokenLimit /\ at + TokenTtl <= instant + TokenTtl
      BY <1>2, <1>4, DuringTimes, Times
    <3>2. QED BY <1>5, <1>6, <1>14, <3>1
  <2>2. \A t \in 1..Len(grant') :
           \/ t \in 1..Len(grant) /\ grant'[t] = grant[t]
           \/ grant'[t].until <= grant'[t].limit /\ grant'[t].until <= Mark' + TokenTtl
    <3>1. \A t \in 1..Len(grant') : t \in 1..Len(grant) \/ t = k
      BY <1>2, <1>5, <1>6, DuringRenewal
    <3>2. QED BY <1>5, <2>1, <3>1
  <2>3. \A l \in 1..Len(dblease') :
           \/ l \in 1..Len(dblease) /\ dblease'[l] = dblease[l]
           \/ dblease'[l].until <= dblease'[l].limit /\ dblease'[l].until <= Mark' + LeaseTtl
    BY <1>1
  <2>4. QED BY <1>2, <1>14, <2>2, <2>3, IssuedMoves, DuringRenewal
<1>18. HeldInv'
  <2>1. runtime'.since <= instant' /\ instant' <= runtime'.since + CallTime
    BY <1>1, <1>2, <1>13, Periods, DuringTimes
  <2>2. runtime'.token \in 1..Len(grant')
    BY <1>2, <1>5, <1>6, <1>13, DuringRenewal
  <2>3. QED BY <1>1, <1>2, <1>13, <2>1, <2>2, DuringRenewal DEF HeldInv, RunPhases, RestPhases, RenewCalls
<1>19. e <= u + 3 * CallTime /\ e <= instant + TokenTtl /\ (service = "auth" => instant < e)
  <2>1. runtime.tokenExpiresAt <= runtime.since + TokenTtl
    BY <1>2, DuringRenewal
  <2>2. CASE service = "auth"
    <3>1. e = instant + TokenTtl
      BY <1>7, <2>2
    <3>2. instant \in Nat
      BY <1>2, DuringTimes
    <3>3. QED BY <1>4, <1>15, <3>1, <3>2, Periods
  <2>3. CASE service # "auth"
    <3>1. e = runtime.tokenExpiresAt
      BY <1>7, <2>3
    <3>2. QED BY <1>2, <1>4, <1>15, <2>1, <2>3, <3>1, Periods, DuringTimes
  <2>4. QED BY <2>2, <2>3
<1>20. CountedInv'
  <2>1. runtime'.since + TokenTtl <= grant'[runtime'.token].until + CallTime
    <3>1. instant + TokenTtl <= u + CallTime
      BY <1>2, <1>4, <1>15, Periods, DuringTimes
    <3>2. QED BY <1>13, <1>15, <3>1
  <2>2. /\ runtime'.tokenExpiresAt <= grant'[runtime'.token].until + 3 * CallTime
        /\ runtime'.tokenExpiresAt <= Mark' + TokenTtl
    BY <1>13, <1>14, <1>15, <1>19
  <2>3. runtime'.databaseExpiresAt <= dblease'[runtime'.credentials].until + 2 * CallTime
    BY <1>1, <1>2, <1>13, DuringRenewal
  <2>4. QED BY <1>13, <2>1, <2>2, <2>3 DEF CountedInv
<1>21. PunctualInv'
  <2>1. /\ runtime.since < runtime.tokenExpiresAt + 4 * CallTime
        /\ runtime.since < runtime.databaseExpiresAt + 4 * CallTime
    BY <1>1, <1>2, DuringRenewal DEF PunctualInv
  <2>2. instant < runtime.tokenExpiresAt + 5 * CallTime /\ instant < runtime.databaseExpiresAt + 5 * CallTime
    BY <1>2, <2>1, Periods, DuringTimes
  <2>3. instant < e + 5 * CallTime
    <3>1. CASE service = "auth"
      BY <1>2, <1>19, <3>1, DuringTimes, Periods
    <3>2. CASE service # "auth"
      BY <1>7, <2>2, <3>2
    <3>3. QED BY <3>1, <3>2
  <2>4. QED BY <1>1, <1>13, <1>19, <2>2, <2>3 DEF PunctualInv, RestPhases
<1>22. QED BY <1>16, <1>17, <1>18, <1>20, <1>21 DEF RuntimeInv

\* The service has new credentials, not yet in use.
LEMMA ReissuedStep == ASSUME RuntimeInv, Reissued PROVE RuntimeInv'
<1>1. runtime.phase \in {"reissue", "replace"} /\ UNCHANGED <<instant, service, grant>>
  BY DEF Reissued
<1>2. runtime.phase \in RenewCalls
  BY <1>1 DEF RenewCalls
<1>3. PICK at \in When : IssueLease(at)
  BY DEF Reissued
<1>4. at \in Nat /\ runtime.since <= at /\ at <= instant /\ instant <= at + CallTime
  BY <1>2, DuringRenewal, WithinCall
<1>5. /\ dblease' \in Seq(DbLeases) /\ Len(dblease') = Len(dblease) + 1
      /\ \A l \in 1..Len(dblease) : dblease'[l] = dblease[l]
      /\ dblease'[Len(dblease) + 1].until = at + LeaseTtl
      /\ dblease'[Len(dblease) + 1].limit = at + LeaseLimit
  BY <1>2, <1>3, <1>4, IssueSets, DuringRenewal
<1>6. PICK k \in Nat : k = Len(dblease) + 1
  BY <1>2, DuringRenewal
<1>7. PICK m : m = [runtime EXCEPT !.next = k, !.duration = LeaseTtl]
  OBVIOUS
<1>8. /\ m \in Runtimes /\ m.next = k /\ m.duration = LeaseTtl /\ m.token = runtime.token
      /\ m.tokenExpiresAt = runtime.tokenExpiresAt /\ m.credentials = runtime.credentials
      /\ m.databaseExpiresAt = runtime.databaseExpiresAt /\ m.pool = runtime.pool
  BY <1>2, <1>7, Periods, DuringRenewal DEF Runtimes
<1>9. PICK ph : ph = IF runtime.phase = "reissue" THEN "reconnect" ELSE "refresh"
  OBVIOUS
<1>10. runtime' = Asking(m, ph) /\ ph \in VaultPhases
  BY <1>6, <1>7, <1>9 DEF Reissued, VaultPhases, RunPhases, RenewCalls
<1>11. /\ runtime' \in Runtimes /\ runtime'.phase = ph /\ runtime'.since = instant
       /\ runtime'.token = runtime.token /\ runtime'.credentials = runtime.credentials
       /\ runtime'.tokenExpiresAt = runtime.tokenExpiresAt
       /\ runtime'.databaseExpiresAt = runtime.databaseExpiresAt /\ runtime'.pool = runtime.pool
       /\ runtime'.next = k /\ runtime'.duration = LeaseTtl
  BY <1>2, <1>8, <1>10, AskingSets, DuringRenewal
<1>12. Mark = runtime.since /\ Mark' = instant
  BY <1>2, <1>9, <1>11 DEF Mark, RenewCalls
<1>13. RuntimeTypeOK'
  BY <1>1, <1>2, <1>5, <1>11, DuringRenewal DEF RuntimeTypeOK
<1>14. IssuedInv'
  <2>1. dblease'[k].until <= dblease'[k].limit /\ dblease'[k].until <= Mark' + LeaseTtl
    <3>1. at + LeaseTtl <= at + LeaseLimit /\ at + LeaseTtl <= instant + LeaseTtl
      BY <1>2, <1>4, DuringTimes, Times
    <3>2. QED BY <1>5, <1>6, <1>12, <3>1
  <2>2. \A l \in 1..Len(dblease') :
           \/ l \in 1..Len(dblease) /\ dblease'[l] = dblease[l]
           \/ dblease'[l].until <= dblease'[l].limit /\ dblease'[l].until <= Mark' + LeaseTtl
    <3>1. \A l \in 1..Len(dblease') : l \in 1..Len(dblease) \/ l = k
      BY <1>2, <1>5, <1>6, DuringRenewal
    <3>2. QED BY <1>5, <2>1, <3>1
  <2>3. \A t \in 1..Len(grant') :
           \/ t \in 1..Len(grant) /\ grant'[t] = grant[t]
           \/ grant'[t].until <= grant'[t].limit /\ grant'[t].until <= Mark' + TokenTtl
    BY <1>1
  <2>4. QED BY <1>2, <1>12, <2>2, <2>3, IssuedMoves, DuringRenewal
<1>15. HeldInv'
  <2>1. runtime'.since <= instant' /\ instant' <= runtime'.since + CallTime
    BY <1>1, <1>2, <1>11, Periods, DuringTimes
  <2>2. runtime'.credentials \in 1..Len(dblease') /\ runtime'.next \in 1..Len(dblease')
    BY <1>2, <1>5, <1>6, <1>11, DuringRenewal
  <2>3. QED BY <1>1, <1>2, <1>9, <1>11, <2>1, <2>2, DuringRenewal DEF HeldInv, RunPhases, RestPhases, RenewCalls
<1>16. PICK g \in Nat : g = grant[runtime.token].until
  BY <1>2, DuringRenewal
<1>17. CountedInv'
  <2>1. runtime.phase = "reissue" => runtime'.since + TokenTtl <= grant'[runtime'.token].until + 2 * CallTime
    <3>1. runtime.phase = "reissue" => runtime.since + TokenTtl <= g + CallTime
      BY <1>2, <1>16, DuringRenewal DEF CountedInv
    <3>2. runtime.phase = "reissue" => instant + TokenTtl <= g + 2 * CallTime
      BY <1>2, <3>1, Periods, DuringTimes
    <3>3. QED BY <1>1, <1>11, <1>16, <3>2
  <2>2. /\ runtime'.duration > 0 /\ runtime'.duration <= LeaseTtl
        /\ runtime'.since + runtime'.duration <= dblease'[runtime'.next].until + CallTime
    <3>1. LeaseTtl > 0 /\ LeaseTtl <= LeaseTtl /\ instant + LeaseTtl <= at + LeaseTtl + CallTime
      BY <1>2, <1>4, Periods, DuringTimes
    <3>2. QED BY <1>5, <1>6, <1>11, <3>1
  <2>3. runtime'.tokenExpiresAt <= grant'[runtime'.token].until + 3 * CallTime
    BY <1>1, <1>2, <1>11, DuringRenewal
  <2>4. runtime'.tokenExpiresAt <= Mark' + TokenTtl
    <3>1. runtime.tokenExpiresAt <= runtime.since + TokenTtl
      BY <1>2, DuringRenewal
    <3>2. runtime.tokenExpiresAt <= instant + TokenTtl
      BY <1>2, <3>1, Periods, DuringTimes
    <3>3. QED BY <1>11, <1>12, <3>2
  <2>5. runtime'.databaseExpiresAt <= dblease'[runtime'.credentials].until + 2 * CallTime
    <3>1. dblease'[runtime'.credentials] = dblease[runtime.credentials]
      BY <1>2, <1>5, <1>11, DuringRenewal
    <3>2. QED BY <1>2, <1>11, <3>1, DuringRenewal
  <2>6. QED BY <1>1, <1>9, <1>11, <2>1, <2>2, <2>3, <2>4, <2>5 DEF CountedInv
<1>18. PunctualInv'
  <2>1. /\ runtime.since < runtime.tokenExpiresAt + 5 * CallTime
        /\ runtime.since < runtime.databaseExpiresAt + 5 * CallTime
        /\ runtime.phase = "reissue" /\ service = "auth" => runtime.since < runtime.tokenExpiresAt
        /\ runtime.phase = "replace" => runtime.since < runtime.tokenExpiresAt + CallTime
    BY <1>1, <1>2, DuringRenewal DEF PunctualInv
  <2>2. instant < runtime.tokenExpiresAt + 6 * CallTime /\ instant < runtime.databaseExpiresAt + 6 * CallTime
    BY <1>2, <2>1, Periods, DuringTimes
  <2>3. /\ runtime.phase = "reissue" /\ service = "auth" => instant < runtime.tokenExpiresAt + CallTime
        /\ runtime.phase = "replace" => instant < runtime.tokenExpiresAt + 2 * CallTime
    BY <1>2, <2>1, Periods, DuringTimes
  <2>4. QED BY <1>1, <1>9, <1>11, <2>2, <2>3 DEF PunctualInv, RestPhases
<1>19. QED BY <1>13, <1>14, <1>15, <1>17, <1>18 DEF RuntimeInv

\* The lease in use is prolonged.
LEMMA LeaseRenewedStep == ASSUME RuntimeInv, LeaseRenewed PROVE RuntimeInv'
<1>1. runtime.phase = "renewLease" /\ UNCHANGED <<instant, service, grant>>
  BY DEF LeaseRenewed
<1>2. runtime.phase \in RenewCalls
  BY <1>1 DEF RenewCalls
<1>3. PICK at \in When :
         /\ RenewLease(at)
         /\ runtime' = Asking([runtime EXCEPT !.next = runtime.credentials,
                                              !.duration = dblease'[runtime.credentials].until - at], "refresh")
  BY DEF LeaseRenewed
<1>4. at \in Nat /\ runtime.since <= at /\ at <= instant /\ instant <= at + CallTime
  BY <1>2, DuringRenewal, WithinCall
<1>5. /\ dblease' \in Seq(DbLeases) /\ Len(dblease') = Len(dblease)
      /\ \A l \in 1..Len(dblease) : l # runtime.credentials => dblease'[l] = dblease[l]
      /\ dblease'[runtime.credentials].until \in Nat
      /\ at < dblease'[runtime.credentials].until
      /\ dblease[runtime.credentials].until <= dblease'[runtime.credentials].until
      /\ dblease'[runtime.credentials].until <= dblease'[runtime.credentials].limit
      /\ dblease'[runtime.credentials].until <= at + LeaseTtl
  BY <1>2, <1>3, <1>4, DuringRenewal, RenewLeaseSets
<1>6. PICK u \in Nat : u = dblease'[runtime.credentials].until
  BY <1>5
<1>7. PICK e : e = u - at
  OBVIOUS
<1>8. e \in Nat /\ e > 0 /\ e <= LeaseTtl /\ instant + e <= u + CallTime
  <2>1. at < u /\ u <= at + LeaseTtl
    BY <1>5, <1>6
  <2>2. instant \in Nat
    BY <1>2, DuringTimes
  <2>3. QED BY <1>4, <1>7, <2>1, <2>2, Periods
<1>9. PICK c : c = runtime.credentials
  OBVIOUS
<1>10. PICK m : m = [runtime EXCEPT !.next = c, !.duration = e]
  OBVIOUS
<1>11. /\ m \in Runtimes /\ m.next = c /\ m.duration = e /\ m.token = runtime.token
       /\ m.tokenExpiresAt = runtime.tokenExpiresAt /\ m.credentials = runtime.credentials
       /\ m.databaseExpiresAt = runtime.databaseExpiresAt /\ m.pool = runtime.pool
  BY <1>2, <1>8, <1>9, <1>10, DuringRenewal DEF Runtimes
<1>12. runtime' = Asking(m, "refresh") /\ "refresh" \in VaultPhases
  BY <1>3, <1>6, <1>7, <1>9, <1>10 DEF VaultPhases, RunPhases, RenewCalls
<1>13. /\ runtime' \in Runtimes /\ runtime'.phase = "refresh" /\ runtime'.since = instant
       /\ runtime'.token = runtime.token /\ runtime'.credentials = runtime.credentials
       /\ runtime'.tokenExpiresAt = runtime.tokenExpiresAt
       /\ runtime'.databaseExpiresAt = runtime.databaseExpiresAt /\ runtime'.pool = runtime.pool
       /\ runtime'.next = runtime.credentials /\ runtime'.duration = e
  BY <1>2, <1>9, <1>11, <1>12, AskingSets, DuringRenewal
<1>14. Mark = runtime.since /\ Mark' = instant
  BY <1>2, <1>13 DEF Mark, RenewCalls
<1>15. RuntimeTypeOK'
  BY <1>1, <1>2, <1>5, <1>13, DuringRenewal DEF RuntimeTypeOK
<1>16. IssuedInv'
  <2>1. dblease'[runtime.credentials].until <= Mark' + LeaseTtl
    <3>1. u <= at + LeaseTtl /\ instant \in Nat
      BY <1>2, <1>5, <1>6, DuringTimes
    <3>2. u <= instant + LeaseTtl
      BY <1>4, <3>1, Periods
    <3>3. QED BY <1>6, <1>14, <3>2
  <2>2. \A l \in 1..Len(dblease') :
           \/ l \in 1..Len(dblease) /\ dblease'[l] = dblease[l]
           \/ dblease'[l].until <= dblease'[l].limit /\ dblease'[l].until <= Mark' + LeaseTtl
    BY <1>5, <2>1
  <2>3. \A t \in 1..Len(grant') :
           \/ t \in 1..Len(grant) /\ grant'[t] = grant[t]
           \/ grant'[t].until <= grant'[t].limit /\ grant'[t].until <= Mark' + TokenTtl
    BY <1>1
  <2>4. QED BY <1>2, <1>14, <2>2, <2>3, IssuedMoves, DuringRenewal
<1>17. HeldInv'
  <2>1. runtime'.since <= instant' /\ instant' <= runtime'.since + CallTime
    BY <1>1, <1>2, <1>13, Periods, DuringTimes
  <2>2. runtime'.credentials \in 1..Len(dblease') /\ runtime'.next \in 1..Len(dblease')
    BY <1>2, <1>5, <1>13, DuringRenewal
  <2>3. QED BY <1>1, <1>2, <1>13, <2>1, <2>2, DuringRenewal DEF HeldInv, RunPhases, RestPhases, RenewCalls
<1>18. CountedInv'
  <2>1. /\ runtime'.duration > 0 /\ runtime'.duration <= LeaseTtl
        /\ runtime'.since + runtime'.duration <= dblease'[runtime'.next].until + CallTime
    BY <1>6, <1>8, <1>13
  <2>2. runtime'.tokenExpiresAt <= grant'[runtime'.token].until + 3 * CallTime
    BY <1>1, <1>2, <1>13, DuringRenewal
  <2>3. runtime'.tokenExpiresAt <= Mark' + TokenTtl
    <3>1. runtime.tokenExpiresAt <= runtime.since + TokenTtl
      BY <1>2, DuringRenewal
    <3>2. runtime.tokenExpiresAt <= instant + TokenTtl
      BY <1>2, <3>1, Periods, DuringTimes
    <3>3. QED BY <1>13, <1>14, <3>2
  <2>4. runtime'.databaseExpiresAt <= dblease'[runtime'.credentials].until + 2 * CallTime
    <3>1. /\ dblease[runtime.credentials].until \in Nat
          /\ runtime.databaseExpiresAt <= dblease[runtime.credentials].until + 2 * CallTime
      BY <1>2, DuringRenewal
    <3>2. dblease[runtime.credentials].until <= u
      BY <1>5, <1>6
    <3>3. runtime.databaseExpiresAt <= u + 2 * CallTime
      BY <1>2, <3>1, <3>2, Periods, DuringTimes
    <3>4. QED BY <1>6, <1>13, <3>3
  <2>5. QED BY <1>13, <2>1, <2>2, <2>3, <2>4 DEF CountedInv
<1>19. PunctualInv'
  <2>1. /\ runtime.since < runtime.tokenExpiresAt + 4 * CallTime
        /\ runtime.since < runtime.databaseExpiresAt + 4 * CallTime
        /\ runtime.since < runtime.tokenExpiresAt
    BY <1>1, <1>2, DuringRenewal DEF PunctualInv
  <2>2. instant < runtime.tokenExpiresAt + 6 * CallTime /\ instant < runtime.databaseExpiresAt + 6 * CallTime
    BY <1>2, <2>1, Periods, DuringTimes
  <2>3. instant < runtime.tokenExpiresAt + 2 * CallTime
    BY <1>2, <2>1, Periods, DuringTimes
  <2>4. QED BY <1>13, <2>2, <2>3 DEF PunctualInv, RestPhases
<1>20. QED BY <1>15, <1>16, <1>17, <1>18, <1>19 DEF RuntimeInv

\* The lease in use cannot be prolonged.
LEMMA LeaseAtLimitStep == ASSUME RuntimeInv, LeaseAtLimit PROVE RuntimeInv'
<1>1. /\ runtime.phase = "renewLease" /\ UNCHANGED <<instant, service, grant, dblease>>
      /\ runtime' = Asking(runtime, "replace") /\ "replace" \in VaultPhases
  BY DEF LeaseAtLimit, VaultPhases, RunPhases, RenewCalls
<1>2. runtime.phase \in RenewCalls
  BY <1>1 DEF RenewCalls
<1>3. /\ runtime' \in Runtimes /\ runtime'.phase = "replace" /\ runtime'.since = instant
      /\ runtime'.token = runtime.token /\ runtime'.credentials = runtime.credentials
      /\ runtime'.tokenExpiresAt = runtime.tokenExpiresAt
      /\ runtime'.databaseExpiresAt = runtime.databaseExpiresAt /\ runtime'.pool = runtime.pool
  BY <1>1, <1>2, AskingSets, DuringRenewal
<1>4. Mark = runtime.since /\ Mark' = instant
  BY <1>1, <1>3 DEF Mark, RenewCalls
<1>5. RuntimeTypeOK'
  BY <1>1, <1>2, <1>3, DuringRenewal DEF RuntimeTypeOK
<1>6. IssuedInv'
  BY <1>1, <1>2, <1>4, IssuedKept, DuringRenewal
<1>7. HeldInv'
  <2>1. runtime'.since <= instant' /\ instant' <= runtime'.since + CallTime
    BY <1>1, <1>2, <1>3, Periods, DuringTimes
  <2>2. QED BY <1>1, <1>2, <1>3, <2>1, DuringRenewal DEF HeldInv, RunPhases, RestPhases, RenewCalls
<1>8. CountedInv'
  <2>1. runtime.tokenExpiresAt <= runtime.since + TokenTtl
    BY <1>2, DuringRenewal
  <2>2. runtime.tokenExpiresAt <= instant + TokenTtl
    BY <1>2, <2>1, Periods, DuringTimes
  <2>3. /\ runtime'.tokenExpiresAt <= grant'[runtime'.token].until + 3 * CallTime
        /\ runtime'.databaseExpiresAt <= dblease'[runtime'.credentials].until + 2 * CallTime
    BY <1>1, <1>2, <1>3, DuringRenewal
  <2>4. QED BY <1>3, <1>4, <2>2, <2>3 DEF CountedInv
<1>9. PunctualInv'
  <2>1. /\ runtime.since < runtime.tokenExpiresAt + 4 * CallTime
        /\ runtime.since < runtime.databaseExpiresAt + 4 * CallTime
        /\ runtime.since < runtime.tokenExpiresAt
    BY <1>1, <1>2, DuringRenewal DEF PunctualInv
  <2>2. instant < runtime.tokenExpiresAt + 5 * CallTime /\ instant < runtime.databaseExpiresAt + 5 * CallTime
    BY <1>2, <2>1, Periods, DuringTimes
  <2>3. instant < runtime.tokenExpiresAt + CallTime
    BY <1>2, <2>1, Periods, DuringTimes
  <2>4. QED BY <1>3, <2>2, <2>3 DEF PunctualInv, RestPhases
<1>10. QED BY <1>5, <1>6, <1>7, <1>8, <1>9 DEF RuntimeInv

\* A renewal is complete: the pool has what it obtained, and the next is set.
LEMMA PoolExchangedStep == ASSUME RuntimeInv, PoolExchanged PROVE RuntimeInv'
<1>1. runtime.phase \in {"reconnect", "refresh"} /\ UNCHANGED <<instant, service, grant, dblease>>
  BY DEF PoolExchanged
<1>2. runtime.phase \in RenewCalls
  BY <1>1 DEF RenewCalls
<1>3. /\ runtime.next \in 1..Len(dblease) /\ runtime.next # 0 /\ runtime.next \in Nat /\ runtime.duration \in Nat
      /\ dblease[runtime.next].until \in Nat
      /\ runtime.duration > 0 /\ runtime.since + runtime.duration <= dblease[runtime.next].until + CallTime
  <2>1. /\ runtime.next \in 1..Len(dblease)
        /\ runtime.duration > 0 /\ runtime.since + runtime.duration <= dblease[runtime.next].until + CallTime
    BY <1>1, <1>2, DuringRenewal DEF HeldInv, CountedInv
  <2>2. runtime.next \in Nat /\ runtime.duration \in Nat
    BY <1>2, DuringRenewal DEF Runtimes
  <2>3. dblease[runtime.next].until \in Nat
    BY <1>2, <2>1, IssuedNumbers, DuringRenewal
  <2>4. QED BY <2>1, <2>2, <2>3
<1>4. PICK x : x = runtime.next
  OBVIOUS
<1>5. PICK db \in Nat : db = instant + runtime.duration
  BY <1>2, <1>3, DuringTimes
<1>6. PICK r : r = [runtime EXCEPT !.pool = x, !.credentials = x, !.next = 0, !.duration = 0,
                                   !.databaseExpiresAt = db]
  OBVIOUS
<1>7. /\ r \in Runtimes /\ r.pool = x /\ r.credentials = x /\ r.databaseExpiresAt = db
      /\ r.token = runtime.token /\ r.tokenExpiresAt = runtime.tokenExpiresAt
  BY <1>2, <1>3, <1>4, <1>6, DuringRenewal DEF Runtimes
<1>8. PICK b \in BOOLEAN : b = (runtime.phase = "reconnect" /\ service = "backend")
  OBVIOUS
<1>9. PICK a \in Nat : a = IF b THEN instant + TokenTtl ELSE runtime.tokenExpiresAt
  BY <1>2, DuringTimes, Periods
<1>10. PICK m : m = IF b THEN [r EXCEPT !.tokenExpiresAt = a] ELSE r
  OBVIOUS
<1>11. /\ m \in Runtimes /\ m.pool = x /\ m.credentials = x /\ m.databaseExpiresAt = db
       /\ m.token = runtime.token /\ m.tokenExpiresAt = a
  BY <1>7, <1>9, <1>10 DEF Runtimes
<1>12. runtime' = Scheduled(m)
  <2>1. runtime' = Scheduled(IF runtime.phase = "reconnect" /\ service = "backend"
                             THEN [r EXCEPT !.tokenExpiresAt = instant + TokenTtl] ELSE r)
    BY <1>4, <1>5, <1>6 DEF PoolExchanged
  <2>2. m = IF runtime.phase = "reconnect" /\ service = "backend"
            THEN [r EXCEPT !.tokenExpiresAt = instant + TokenTtl] ELSE r
    BY <1>8, <1>9, <1>10
  <2>3. QED BY <2>1, <2>2
<1>13. /\ runtime' \in Runtimes /\ runtime'.phase = "idle" /\ runtime'.pool = x /\ runtime'.credentials = x
       /\ runtime'.databaseExpiresAt = db /\ runtime'.token = runtime.token /\ runtime'.tokenExpiresAt = a
       /\ runtime'.timer <= instant \/ (runtime'.timer <= a /\ runtime'.timer <= db)
  BY <1>2, <1>11, <1>12, ScheduledSets, DuringTimes
<1>14. Mark = runtime.since /\ Mark' = instant
  BY <1>1, <1>2, <1>13, DuringRenewal DEF Mark, StartCalls, RenewCalls
<1>15. RuntimeTypeOK'
  BY <1>1, <1>2, <1>13, DuringRenewal DEF RuntimeTypeOK
<1>16. IssuedInv'
  <2>1. runtime.since \in Int /\ instant \in Int /\ runtime.since <= instant
    BY <1>2, DuringTimes
  <2>2. QED BY <1>1, <1>2, <1>14, <2>1, IssuedKept, DuringRenewal
<1>17. HeldInv'
  BY <1>1, <1>2, <1>3, <1>4, <1>13, DuringRenewal DEF HeldInv, RunPhases, StartCalls, RestPhases, RenewCalls
<1>18. PICK g \in Nat : g = grant[runtime.token].until
  BY <1>2, DuringRenewal
<1>19. a <= g + 3 * CallTime /\ a <= instant + TokenTtl /\ instant < a + 3 * CallTime
  <2>1. runtime.tokenExpiresAt <= g + 3 * CallTime /\ runtime.tokenExpiresAt <= runtime.since + TokenTtl
    BY <1>2, <1>18, DuringRenewal
  <2>2. CASE b
    <3>1. a = instant + TokenTtl /\ runtime.phase = "reconnect"
      BY <1>8, <1>9, <2>2
    <3>2. runtime.since + TokenTtl <= g + 2 * CallTime
      BY <1>2, <1>18, <3>1, DuringRenewal DEF CountedInv
    <3>3. QED BY <1>2, <3>1, <3>2, Periods, DuringTimes
  <2>3. CASE ~b
    <3>1. a = runtime.tokenExpiresAt
      BY <1>9, <2>3
    <3>2. runtime.since < a + 2 * CallTime
      <4>1. CASE runtime.phase = "refresh"
        BY <1>2, <3>1, <4>1, DuringRenewal DEF PunctualInv
      <4>2. CASE runtime.phase = "reconnect"
        <5>1. service = "auth"
          BY <1>2, <1>8, <2>3, <4>2, DuringRenewal
        <5>2. runtime.since < a + CallTime
          BY <1>2, <3>1, <4>2, <5>1, DuringRenewal DEF PunctualInv
        <5>3. QED BY <1>2, <5>2, Periods, DuringTimes
      <4>3. QED BY <1>1, <4>1, <4>2
    <3>3. QED BY <1>2, <2>1, <3>1, <3>2, Periods, DuringTimes
  <2>4. QED BY <2>2, <2>3
<1>20. db <= dblease[x].until + 2 * CallTime /\ instant < db + 3 * CallTime
  <2>1. PICK d \in Nat : d = dblease[x].until
    BY <1>3, <1>4
  <2>2. runtime.since + runtime.duration <= d + CallTime /\ runtime.duration \in Nat /\ runtime.duration > 0
    BY <1>3, <1>4, <2>1
  <2>3. db <= d + 2 * CallTime /\ instant < db + 3 * CallTime
    BY <1>2, <1>5, <2>2, Periods, DuringTimes
  <2>4. QED BY <2>1, <2>3
<1>21. CountedInv'
  BY <1>1, <1>13, <1>14, <1>18, <1>19, <1>20 DEF CountedInv, RunPhases, RestPhases
<1>22. PunctualInv'
  BY <1>1, <1>13, <1>19, <1>20 DEF PunctualInv, RestPhases
<1>23. QED BY <1>15, <1>16, <1>17, <1>21, <1>22 DEF RuntimeInv

\* A renewal that fails is repeated before the nearer expiry, or ends the service.
LEMMA CallFailsStep == ASSUME RuntimeInv, CallFails PROVE RuntimeInv'
<1>1. runtime.phase \in RenewCalls /\ UNCHANGED <<instant, service, grant, dblease>>
  BY DEF CallFails
<1>2. CASE runtime' = Process("down")
  BY <1>1, <1>2, NoProcess
<1>3. CASE /\ ~FailsClosed
           /\ runtime' = [[runtime EXCEPT !.since = 0, !.next = 0, !.duration = 0, !.timer = instant + Retry]
                             EXCEPT !.phase = IF service = "auth" THEN "paused" ELSE "idle"]
  <2>1. PICK t \in Int : t = instant + Retry
    BY <1>1, DuringTimes, Times
  <2>2. PICK r : r = [runtime EXCEPT !.since = 0, !.next = 0, !.duration = 0, !.timer = t]
    OBVIOUS
  <2>3. /\ r \in Runtimes /\ r.timer = t /\ r.token = runtime.token /\ r.tokenExpiresAt = runtime.tokenExpiresAt
        /\ r.credentials = runtime.credentials /\ r.databaseExpiresAt = runtime.databaseExpiresAt
        /\ r.pool = runtime.pool
    BY <1>1, <2>1, <2>2, DuringRenewal DEF Runtimes
  <2>4. PICK ph \in RestPhases : ph = IF service = "auth" THEN "paused" ELSE "idle"
    BY DEF RestPhases
  <2>5. PICK n : n = [r EXCEPT !.phase = ph]
    OBVIOUS
  <2>6. /\ n \in Runtimes /\ n.phase = ph /\ n.timer = t /\ n.token = runtime.token
        /\ n.tokenExpiresAt = runtime.tokenExpiresAt /\ n.credentials = runtime.credentials
        /\ n.databaseExpiresAt = runtime.databaseExpiresAt /\ n.pool = runtime.pool
    BY <2>3, <2>4, <2>5 DEF Runtimes, VaultPhases, RunPhases
  <2>7. runtime' = n
    BY <1>3, <2>1, <2>2, <2>4, <2>5
  <2>8. /\ ph \in RunPhases /\ ph \notin StartCalls \cup RenewCalls
        /\ ph \notin {"issue", "connect", "reconnect", "refresh", "reissue"}
        /\ ph \notin {"renewToken", "relogin", "renewLease", "replace"}
    BY <2>4 DEF RunPhases, RestPhases, StartCalls, RenewCalls
  <2>9. Mark = runtime.since /\ Mark' = instant
    BY <1>1, <2>6, <2>7, <2>8 DEF Mark
  <2>10. RuntimeTypeOK'
    BY <1>1, <2>6, <2>7, DuringRenewal DEF RuntimeTypeOK
  <2>11. IssuedInv'
    <3>1. runtime.since \in Int /\ instant \in Int /\ runtime.since <= instant
      BY <1>1, DuringTimes
    <3>2. QED BY <1>1, <2>9, <3>1, IssuedKept, DuringRenewal
  <2>12. HeldInv'
    BY <1>1, <2>6, <2>7, <2>8, DuringRenewal DEF HeldInv
  <2>13. CountedInv'
    <3>1. runtime.tokenExpiresAt <= runtime.since + TokenTtl
      BY <1>1, DuringRenewal
    <3>2. runtime.tokenExpiresAt <= instant + TokenTtl
      BY <1>1, <3>1, Periods, DuringTimes
    <3>3. /\ runtime'.tokenExpiresAt <= grant'[runtime'.token].until + 3 * CallTime
          /\ runtime'.databaseExpiresAt <= dblease'[runtime'.credentials].until + 2 * CallTime
      BY <1>1, <2>6, <2>7, DuringRenewal
    <3>4. QED BY <2>6, <2>7, <2>8, <2>9, <3>2, <3>3 DEF CountedInv
  <2>14. PunctualInv'
    <3>1. PICK e : e = Earlier(runtime.tokenExpiresAt, runtime.databaseExpiresAt)
      OBVIOUS
    <3>2. e \in Nat /\ e <= runtime.tokenExpiresAt /\ e <= runtime.databaseExpiresAt
      BY <1>1, <3>1, DuringTimes DEF Earlier
    <3>3. ~(e - instant <= Margin)
      BY <1>3, <3>1 DEF FailsClosed
    <3>4. instant + Retry < e
      BY <1>1, <3>2, <3>3, DuringTimes, Times
    <3>5. /\ t <= runtime.tokenExpiresAt /\ t <= runtime.databaseExpiresAt
          /\ instant < runtime.tokenExpiresAt /\ instant < runtime.databaseExpiresAt
      BY <1>1, <2>1, <3>2, <3>4, DuringTimes, Times
    <3>6. instant < runtime.tokenExpiresAt + 3 * CallTime /\ instant < runtime.databaseExpiresAt + 3 * CallTime
      BY <1>1, <3>5, DuringTimes, Periods
    <3>7. QED BY <1>1, <2>4, <2>6, <2>7, <2>8, <3>5, <3>6 DEF PunctualInv
  <2>15. QED BY <2>10, <2>11, <2>12, <2>13, <2>14 DEF RuntimeInv
<1>4. QED BY <1>2, <1>3 DEF CallFails

\* What holds between renewals.
LEMMA AtRest ==
    ASSUME RuntimeInv, runtime.phase \in RestPhases
    PROVE  /\ RuntimeTypeOK /\ IssuedInv /\ HeldInv /\ CountedInv /\ PunctualInv
           /\ runtime \in Runtimes /\ instant \in Nat
           /\ runtime.token \in 1..Len(grant) /\ runtime.credentials \in 1..Len(dblease)
           /\ runtime.pool # 0 /\ runtime.pool = runtime.credentials
           /\ Mark = instant
           /\ runtime.tokenExpiresAt \in Nat /\ runtime.databaseExpiresAt \in Nat /\ runtime.timer \in Int
           /\ runtime.tokenExpiresAt <= grant[runtime.token].until + 3 * CallTime
           /\ runtime.tokenExpiresAt <= instant + TokenTtl
           /\ runtime.databaseExpiresAt <= dblease[runtime.credentials].until + 2 * CallTime
           /\ instant < runtime.tokenExpiresAt + 3 * CallTime /\ instant < runtime.databaseExpiresAt + 3 * CallTime
           /\ \/ runtime.timer <= instant
              \/ runtime.timer <= runtime.tokenExpiresAt /\ runtime.timer <= runtime.databaseExpiresAt
<1>1. /\ RuntimeTypeOK /\ IssuedInv /\ HeldInv /\ CountedInv /\ PunctualInv
      /\ runtime \in Runtimes /\ instant \in Nat
  BY DEF RuntimeInv, RuntimeTypeOK
<1>2. runtime.tokenExpiresAt \in Nat /\ runtime.databaseExpiresAt \in Nat /\ runtime.timer \in Int
  BY <1>1 DEF Runtimes
<1>3. runtime.phase \in RunPhases /\ runtime.phase \notin StartCalls \cup RenewCalls
  BY DEF RunPhases, RestPhases, StartCalls, RenewCalls
<1>4. Mark = instant
  BY <1>3 DEF Mark
<1>5. /\ runtime.token \in 1..Len(grant) /\ runtime.credentials \in 1..Len(dblease)
      /\ runtime.pool # 0 /\ runtime.pool = runtime.credentials
  BY <1>1, <1>3 DEF HeldInv
<1>6. /\ runtime.tokenExpiresAt <= grant[runtime.token].until + 3 * CallTime
      /\ runtime.tokenExpiresAt <= instant + TokenTtl
      /\ runtime.databaseExpiresAt <= dblease[runtime.credentials].until + 2 * CallTime
  BY <1>1, <1>3, <1>4 DEF CountedInv
<1>7. /\ instant < runtime.tokenExpiresAt + 3 * CallTime /\ instant < runtime.databaseExpiresAt + 3 * CallTime
      /\ \/ runtime.timer <= instant
         \/ runtime.timer <= runtime.tokenExpiresAt /\ runtime.timer <= runtime.databaseExpiresAt
  BY <1>1 DEF PunctualInv
<1>8. QED BY <1>1, <1>2, <1>4, <1>5, <1>6, <1>7

\* The auth service waits again.
LEMMA PauseEndsStep == ASSUME RuntimeInv, PauseEnds PROVE RuntimeInv'
<1>1. /\ runtime.phase \in RestPhases /\ UNCHANGED <<instant, service, grant, dblease>>
      /\ runtime' = Scheduled(runtime)
  BY DEF PauseEnds, RestPhases
<1>2. /\ runtime' \in Runtimes /\ runtime'.phase = "idle" /\ runtime'.token = runtime.token
      /\ runtime'.tokenExpiresAt = runtime.tokenExpiresAt /\ runtime'.credentials = runtime.credentials
      /\ runtime'.databaseExpiresAt = runtime.databaseExpiresAt /\ runtime'.pool = runtime.pool
      /\ \/ runtime'.timer <= instant
         \/ runtime'.timer <= runtime.tokenExpiresAt /\ runtime'.timer <= runtime.databaseExpiresAt
  BY <1>1, AtRest, ScheduledSets
<1>3. Mark = instant /\ Mark' = instant
  BY <1>1, <1>2, AtRest DEF Mark, StartCalls, RenewCalls
<1>4. RuntimeTypeOK'
  BY <1>1, <1>2, AtRest DEF RuntimeTypeOK
<1>5. IssuedInv'
  <2>1. instant \in Int /\ instant <= instant
    BY <1>1, AtRest
  <2>2. QED BY <1>1, <1>3, <2>1, IssuedKept, AtRest
<1>6. HeldInv'
  BY <1>1, <1>2, AtRest DEF HeldInv, RunPhases, RestPhases, StartCalls, RenewCalls
<1>7. CountedInv'
  BY <1>1, <1>2, <1>3, AtRest DEF CountedInv
<1>8. PunctualInv'
  BY <1>1, <1>2, AtRest DEF PunctualInv
<1>9. QED BY <1>4, <1>5, <1>6, <1>7, <1>8 DEF RuntimeInv

\* Time goes on: no call and no timer is late.
LEMMA PassStep == ASSUME RuntimeInv, Pass PROVE RuntimeInv'
<1>1. /\ RuntimeTypeOK /\ IssuedInv /\ HeldInv /\ CountedInv /\ PunctualInv
      /\ runtime \in Runtimes /\ instant \in Nat /\ instant' = instant + 1
      /\ UNCHANGED <<service, grant, dblease, runtime>> /\ runtime.since \in Nat
  BY DEF RuntimeInv, RuntimeTypeOK, Pass, Runtimes
<1>2. PICK i \in Nat : i = instant + 1
  BY <1>1
<1>3. RuntimeTypeOK'
  BY <1>1, <1>2 DEF RuntimeTypeOK
<1>4. CASE runtime.phase \in StartCalls \cup RenewCalls
  <2>1. /\ runtime.since <= instant /\ instant <= runtime.since + CallTime
        /\ instant < runtime.since + CallTime
    <3>1. runtime.phase \notin {"idle", "paused"} /\ runtime.phase \notin {"off", "down"}
      BY <1>4 DEF StartCalls, RenewCalls
    <3>2. instant < runtime.since + CallTime
      BY <1>4, <3>1 DEF Pass
    <3>3. QED BY <1>1, <1>4, <3>2 DEF HeldInv
  <2>2. runtime.since <= i /\ i <= runtime.since + CallTime
    BY <1>1, <1>2, <2>1, Periods
  <2>3. Mark = runtime.since /\ Mark' = runtime.since
    BY <1>1, <1>4 DEF Mark
  <2>4. IssuedInv'
    <3>1. runtime.since \in Int /\ runtime.since <= runtime.since
      BY <1>1
    <3>2. QED BY <1>1, <2>3, <3>1, IssuedKept
  <2>5. HeldInv'
    BY <1>1, <1>2, <1>4, <2>2 DEF HeldInv
  <2>6. CountedInv'
    BY <1>1, <2>3 DEF CountedInv
  <2>7. PunctualInv'
    BY <1>1, <1>4 DEF PunctualInv, RestPhases, StartCalls, RenewCalls
  <2>8. QED BY <1>3, <2>4, <2>5, <2>6, <2>7 DEF RuntimeInv
<1>5. CASE runtime.phase \in RestPhases
  <2>1. instant < runtime.timer /\ runtime.phase \notin StartCalls \cup RenewCalls
    BY <1>5 DEF Pass, RestPhases, StartCalls, RenewCalls
  <2>2. Mark = instant /\ Mark' = i
    BY <1>1, <1>2, <2>1 DEF Mark
  <2>3. IssuedInv'
    <3>1. instant \in Int /\ i \in Int /\ instant <= i
      BY <1>1, <1>2
    <3>2. QED BY <1>1, <2>2, <3>1, IssuedKept
  <2>4. HeldInv'
    BY <1>1, <2>1 DEF HeldInv
  <2>5. CountedInv'
    <3>1. runtime.tokenExpiresAt \in Nat /\ runtime.tokenExpiresAt <= instant + TokenTtl
      BY <1>5, AtRest
    <3>2. runtime.tokenExpiresAt <= i + TokenTtl
      BY <1>1, <1>2, <3>1, Periods
    <3>3. /\ runtime.tokenExpiresAt <= grant[runtime.token].until + 3 * CallTime
          /\ runtime.databaseExpiresAt <= dblease[runtime.credentials].until + 2 * CallTime
      BY <1>5, AtRest
    <3>4. QED BY <1>1, <1>5, <2>2, <3>2, <3>3 DEF CountedInv, RestPhases
  <2>6. PunctualInv'
    <3>1. /\ runtime.tokenExpiresAt \in Nat /\ runtime.databaseExpiresAt \in Nat /\ runtime.timer \in Int
          /\ \/ runtime.timer <= instant
             \/ runtime.timer <= runtime.tokenExpiresAt /\ runtime.timer <= runtime.databaseExpiresAt
      BY <1>5, AtRest
    <3>2. runtime.timer <= runtime.tokenExpiresAt /\ runtime.timer <= runtime.databaseExpiresAt
      BY <1>1, <2>1, <3>1
    <3>3. i < runtime.tokenExpiresAt + 3 * CallTime /\ i < runtime.databaseExpiresAt + 3 * CallTime
      BY <1>1, <1>2, <2>1, <3>1, <3>2, Periods
    <3>4. QED BY <1>1, <1>2, <1>5, <3>2, <3>3 DEF PunctualInv, RestPhases
  <2>7. QED BY <1>3, <2>3, <2>4, <2>5, <2>6 DEF RuntimeInv
<1>6. CASE runtime.phase \in {"off", "down"}
  BY <1>6 DEF Pass, StartCalls, RenewCalls
<1>7. QED BY <1>1, <1>4, <1>5, <1>6 DEF Runtimes, VaultPhases, RunPhases

\* RuntimeInv is inductive.
LEMMA RuntimeBegins == RuntimeInit => RuntimeInv
<1>1. SUFFICES ASSUME RuntimeInit PROVE RuntimeInv
  OBVIOUS
<1>2. /\ instant = 0 /\ service \in {"backend", "auth"} /\ grant = <<>> /\ dblease = <<>>
      /\ runtime = Process("off")
  BY <1>1 DEF RuntimeInit
<1>3. runtime \in Runtimes /\ runtime.phase = "off" /\ runtime.pool = 0
  BY <1>2 DEF Process, Runtimes, VaultPhases
<1>4. RuntimeTypeOK
  BY <1>2, <1>3 DEF RuntimeTypeOK
<1>5. IssuedInv
  <2>1. Len(grant) = 0 /\ Len(dblease) = 0
    BY <1>2
  <2>2. QED BY <2>1 DEF IssuedInv
<1>6. HeldInv /\ CountedInv /\ PunctualInv
  BY <1>3 DEF HeldInv, CountedInv, PunctualInv, RunPhases, StartCalls, RestPhases, RenewCalls
<1>7. QED BY <1>4, <1>5, <1>6 DEF RuntimeInv

LEMMA RuntimeKeeps == RuntimeInv /\ [RuntimeNext]_renewing => RuntimeInv'
<1>1. SUFFICES ASSUME RuntimeInv, [RuntimeNext]_renewing PROVE RuntimeInv'
  OBVIOUS
<1>2. CASE UNCHANGED renewing
  <2>1. UNCHANGED <<instant, service, grant, dblease, runtime>>
    BY <1>2 DEF renewing
  <2>2. RuntimeTypeOK' /\ HeldInv' /\ PunctualInv'
    BY <1>1, <2>1 DEF RuntimeInv, RuntimeTypeOK, HeldInv, PunctualInv
  <2>3. IssuedInv' /\ CountedInv'
    BY <1>1, <2>1 DEF RuntimeInv, IssuedInv, CountedInv, Mark
  <2>4. QED BY <2>2, <2>3 DEF RuntimeInv
<1>3. CASE StartFails
  BY <1>1, <1>3, NoProcess DEF StartFails
<1>4. CASE Shutdown
  BY <1>1, <1>4, NoProcess DEF Shutdown
<1>5. QED
  BY <1>1, <1>2, <1>3, <1>4, StartRuntimeStep, LoggedInStep, FirstIssuedStep, FirstConnectedStep,
     RenewalDueStep, TokenRenewedStep, TokenNotRenewedStep, ReloggedInStep, ReissuedStep, LeaseRenewedStep,
     LeaseAtLimitStep, PoolExchangedStep, CallFailsStep, PauseEndsStep, PassStep
  DEF RuntimeNext

\* What Vault has issued, what the service holds of it, how it counts the
\* expiries and how late a renewal may be, for every state.
THEOREM CredentialsInvariant == RuntimeSpec => []RuntimeInv
<1>1. QED BY RuntimeBegins, RuntimeKeeps, PTL DEF RuntimeSpec

\* A service that is ready is at rest only before the expiry of its credentials
\* and of its token (scheduleRenewal(), renewalDelay()), takes them for valid
\* no longer than its calls account for, and is never further past them than the
\* calls of a renewal and its end.
THEOREM CredentialsNeverPastExpiry == RuntimeSpec => []NeverPastExpiry
<1>1. ASSUME RuntimeInv PROVE NeverPastExpiry
  <2>1. SUFFICES ASSUME Serving PROVE
          LET nearer == Earlier(runtime.tokenExpiresAt, runtime.databaseExpiresAt) IN
          /\ runtime.pool = runtime.credentials
          /\ runtime.tokenExpiresAt <= grant[runtime.token].until + 3 * CallTime
          /\ runtime.databaseExpiresAt <= dblease[runtime.pool].until + 2 * CallTime
          /\ instant < nearer + 8 * CallTime
          /\ runtime.phase \in {"idle", "paused"} /\ instant < runtime.timer => instant < nearer
    BY DEF NeverPastExpiry
  <2>2. PICK e : e = Earlier(runtime.tokenExpiresAt, runtime.databaseExpiresAt)
    OBVIOUS
  <2>3. runtime.phase \in RunPhases
    BY <1>1, <2>1 DEF Serving, RuntimeInv, HeldInv
  <2>4. CASE runtime.phase \in RestPhases
    <3>1. e = runtime.tokenExpiresAt \/ e = runtime.databaseExpiresAt
      BY <2>2 DEF Earlier
    <3>2. instant < e + 8 * CallTime
      <4>1. instant < e + 3 * CallTime /\ e \in Nat /\ instant \in Nat
        BY <1>1, <2>4, <3>1, AtRest
      <4>2. QED BY <4>1, Periods
    <3>3. instant < runtime.timer => instant < e
      BY <1>1, <2>4, <3>1, AtRest
    <3>4. QED BY <1>1, <2>2, <2>4, <3>2, <3>3, AtRest
  <2>5. CASE runtime.phase \in RenewCalls
    <3>1. e = runtime.tokenExpiresAt \/ e = runtime.databaseExpiresAt
      BY <2>2 DEF Earlier
    <3>2. \/ runtime.since < e + 3 * CallTime \/ runtime.since < e + 4 * CallTime
          \/ runtime.since < e + 5 * CallTime \/ runtime.since < e + 6 * CallTime
      BY <1>1, <2>5, <3>1, DuringRenewal DEF PunctualInv, RenewCalls
    <3>3. e \in Nat
      BY <1>1, <2>5, <3>1, DuringTimes
    <3>4. runtime.since < e + 6 * CallTime
      BY <1>1, <2>5, <3>2, <3>3, DuringTimes, Periods
    <3>5. instant < e + 8 * CallTime
      BY <1>1, <2>5, <3>3, <3>4, DuringTimes, Periods
    <3>6. runtime.phase \notin {"idle", "paused"}
      BY <2>5 DEF RenewCalls
    <3>7. QED BY <1>1, <2>2, <2>5, <3>5, <3>6, DuringRenewal
  <2>6. QED BY <2>3, <2>4, <2>5 DEF RunPhases
<1>2. QED BY <1>1, CredentialsInvariant, PTL

-----------------------------------------------------------------------------
(* Friends.                                                                *)

RelationRows == {"NONE", "PENDING_APPROVAL", "ACCEPTED", "BLOCKED"}
Statuses == {"NONE", "PENDING_INCOMING", "PENDING_OUTGOING", "ACCEPTED", "BLOCKED"}
Clicks == {"create", "accept", "remove", "block", "unblock"}
Answers == {"received", "accepted", "committed"}
Errands ==
    [op: {"none", "load"} \cup Clicks, phase: {"none", "sent", "read"} \cup Answers, got: Statuses]

FriendsTypeOK ==
    /\ relation \in [Pair -> RelationRows] /\ page \in [Pair -> Statuses] /\ errand \in [Pair -> Errands]
    /\ news \in [Pair -> Seq({"received", "accepted"})]
    /\ profiles \in [Pair -> SUBSET {"PENDING_INCOMING", "PENDING_OUTGOING"}]
    /\ agreed \in [Pair -> BOOLEAN] /\ missed \in [Pair -> BOOLEAN]
    /\ \A u \in Pair : errand[u].phase \in Answers => errand[u].op \in Clicks

\* What an event says of the rows.
Told(event) == IF event = "received" THEN "PENDING_INCOMING" ELSE "ACCEPTED"
Hears(u, event) == \E i \in 1..Len(news[u]) : news[u][i] = event

\* What is on its way to a page is what the rows say.
OnItsWay(u) ==
    /\ \A event \in {"received", "accepted"} :
          errand[Other(u)].phase = event \/ Hears(u, event) => Derived(relation, u) = Told(event)
    /\ \A status \in profiles[u] : status = Derived(relation, u)

\* A page without a request that was carried out shows the rows, or is about to
\* be told.
AboutToShow(u) ==
    LET status == Derived(relation, u) IN
    \/ page[u] = status
    \/ /\ status = "PENDING_INCOMING" /\ page[u] = "NONE"
       /\ \/ errand[Other(u)].phase = "received" \/ Hears(u, "received")
          \/ "PENDING_INCOMING" \in profiles[u]
    \/ /\ status = "ACCEPTED" /\ page[u] # "NONE"
       /\ errand[Other(u)].phase = "accepted" \/ Hears(u, "accepted")

\* What the page will apply is what the rows say.
OwnErrand(u) ==
    LET e == errand[u] IN
    /\ e.phase = "sent" /\ e.op \in {"accept", "remove"} => relation[u] # "BLOCKED"
    /\ e.phase \in Answers /\ e.op # "unblock" => Asked(e.op) = Derived(relation, u)
    /\ e.phase = "read" => e.got = Derived(relation, u)
    /\ e = NoErrand \/ (e.phase = "sent" /\ e.op # "load") => AboutToShow(u)

PageInv(u) == ~missed[u] => OnItsWay(u) /\ OwnErrand(u)

PagesInv == \A u \in Pair : PageInv(u)

FriendsInv == FriendsTypeOK /\ FriendshipAgreed /\ PagesInv

-----------------------------------------------------------------------------
\* Each of the two has the other.
LEMMA TheOther ==
    ASSUME NEW u \in Pair
    PROVE  /\ Other(u) \in Pair /\ Other(u) # u /\ Other(Other(u)) = u
           /\ \A x \in Pair : x = u \/ x = Other(u)
<1>1. PICK a, b \in Pair : a # b /\ Pair = {a, b}
  BY PairAssumption
<1>2. ASSUME NEW w \in Pair PROVE Other(w) \in Pair /\ Other(w) # w
  <2>1. \E x \in Pair : x # w
    BY <1>1
  <2>2. QED BY <2>1 DEF Other
<1>3. QED BY <1>1, <1>2

\* The status that two rows give.
LEMMA StatusOf ==
    ASSUME NEW r \in [Pair -> RelationRows], NEW u \in Pair
    PROVE  /\ Derived(r, u) \in Statuses
           /\ r[u] = "BLOCKED" <=> Derived(r, u) = "BLOCKED"
           /\ r[u] = "NONE" => Derived(r, u) = "NONE"
           /\ r[u] = "ACCEPTED" /\ r[Other(u)] = "PENDING_APPROVAL" => Derived(r, u) = "PENDING_OUTGOING"
           /\ r[u] = "PENDING_APPROVAL" /\ r[Other(u)] = "ACCEPTED" => Derived(r, u) = "PENDING_INCOMING"
           /\ r[u] = "ACCEPTED" /\ r[Other(u)] \in {"ACCEPTED", "BLOCKED"} => Derived(r, u) = "ACCEPTED"
<1>1. r[u] \in RelationRows /\ r[Other(u)] \in RelationRows
  BY TheOther
<1>2. PICK mine \in RelationRows : mine = r[u]
  BY <1>1
<1>3. PICK theirs \in {"NONE", "PENDING_APPROVAL", "ACCEPTED"} : theirs = Masked(r[Other(u)])
  BY <1>1 DEF Masked, RelationRows
<1>4. Derived(r, u) = CASE mine = "BLOCKED" -> "BLOCKED"
          [] mine = "ACCEPTED" /\ theirs = "ACCEPTED" -> "ACCEPTED"
          [] mine = "ACCEPTED" /\ theirs = "PENDING_APPROVAL" -> "PENDING_OUTGOING"
          [] mine = "PENDING_APPROVAL" /\ theirs = "ACCEPTED" -> "PENDING_INCOMING"
          [] OTHER -> "NONE"
  BY <1>2, <1>3 DEF Derived
<1>5. /\ r[Other(u)] = "PENDING_APPROVAL" => theirs = "PENDING_APPROVAL"
      /\ r[Other(u)] \in {"ACCEPTED", "BLOCKED"} => theirs = "ACCEPTED"
  BY <1>3 DEF Masked
<1>6. CASE mine = "BLOCKED"
  BY <1>2, <1>4, <1>6 DEF Statuses
<1>7. CASE mine = "NONE"
  BY <1>2, <1>4, <1>7 DEF Statuses
<1>8. CASE mine = "ACCEPTED"
  BY <1>2, <1>3, <1>4, <1>5, <1>8 DEF Statuses
<1>9. CASE mine = "PENDING_APPROVAL"
  BY <1>2, <1>3, <1>4, <1>5, <1>9 DEF Statuses
<1>10. QED BY <1>6, <1>7, <1>8, <1>9 DEF RelationRows

\* Events come at the end and are heard from the front.
LEMMA NewsMove ==
    ASSUME NEW s \in Seq({"received", "accepted"})
    PROVE  /\ \A e \in {"received", "accepted"} :
                 /\ Append(s, e) \in Seq({"received", "accepted"})
                 /\ \A i \in 1..Len(Append(s, e)) : Append(s, e)[i] = e \/ \E j \in 1..Len(s) : Append(s, e)[i] = s[j]
                 /\ \E i \in 1..Len(Append(s, e)) : Append(s, e)[i] = e
                 /\ \A j \in 1..Len(s) : \E i \in 1..Len(Append(s, e)) : Append(s, e)[i] = s[j]
           /\ s # <<>> =>
                 /\ Tail(s) \in Seq({"received", "accepted"}) /\ Head(s) \in {"received", "accepted"}
                 /\ \E i \in 1..Len(s) : s[i] = Head(s)
                 /\ \A i \in 1..Len(Tail(s)) : \E j \in 1..Len(s) : Tail(s)[i] = s[j]
                 /\ \A j \in 1..Len(s) : s[j] = Head(s) \/ \E i \in 1..Len(Tail(s)) : Tail(s)[i] = s[j]
<1>1. ASSUME NEW e \in {"received", "accepted"}
      PROVE  /\ Append(s, e) \in Seq({"received", "accepted"})
             /\ \A i \in 1..Len(Append(s, e)) : Append(s, e)[i] = e \/ \E j \in 1..Len(s) : Append(s, e)[i] = s[j]
             /\ \E i \in 1..Len(Append(s, e)) : Append(s, e)[i] = e
             /\ \A j \in 1..Len(s) : \E i \in 1..Len(Append(s, e)) : Append(s, e)[i] = s[j]
  <2>1. PICK n \in Nat : n = Len(s)
    OBVIOUS
  <2>2. PICK a : a = Append(s, e)
    OBVIOUS
  <2>3. /\ a \in Seq({"received", "accepted"}) /\ Len(a) = n + 1 /\ a[n + 1] = e
        /\ \A i \in 1..n : a[i] = s[i]
    BY <2>1, <2>2
  <2>4. \A i \in 1..(n + 1) : i \in 1..n \/ i = n + 1
    BY <2>1
  <2>5. \A i \in 1..n : i \in 1..(n + 1)
    BY <2>1
  <2>6. n + 1 \in 1..(n + 1)
    BY <2>1
  <2>7. QED BY <2>1, <2>2, <2>3, <2>4, <2>5, <2>6
<1>2. ASSUME s # <<>>
      PROVE  /\ Tail(s) \in Seq({"received", "accepted"}) /\ Head(s) \in {"received", "accepted"}
             /\ \E i \in 1..Len(s) : s[i] = Head(s)
             /\ \A i \in 1..Len(Tail(s)) : \E j \in 1..Len(s) : Tail(s)[i] = s[j]
             /\ \A j \in 1..Len(s) : s[j] = Head(s) \/ \E i \in 1..Len(Tail(s)) : Tail(s)[i] = s[j]
  <2>1. PICK n \in Nat : n = Len(s) /\ n > 0
    BY <1>2
  <2>2. PICK t : t = Tail(s)
    OBVIOUS
  <2>3. /\ t \in Seq({"received", "accepted"}) /\ Len(t) = n - 1 /\ Head(s) = s[1]
        /\ \A i \in 1..(n - 1) : t[i] = s[i + 1]
    BY <1>2, <2>1, <2>2
  <2>4. s[1] \in {"received", "accepted"} /\ 1 \in 1..n
    BY <2>1
  <2>5. \A i \in 1..(n - 1) : i + 1 \in 1..n
    BY <2>1
  <2>6. \A j \in 1..n : j = 1 \/ (j - 1 \in 1..(n - 1) /\ (j - 1) + 1 = j)
    BY <2>1
  <2>7. \A j \in 1..n : j = 1 \/ t[j - 1] = s[j]
    BY <2>3, <2>6
  <2>8. QED BY <2>1, <2>2, <2>3, <2>4, <2>5, <2>6, <2>7
<1>3. QED BY <1>1, <1>2

\* Nothing changes for a page when the other does something that tells nobody.
LEMMA Unconcerned ==
    ASSUME NEW x \in Pair, PageInv(x), UNCHANGED <<relation, page[x], news[x], profiles[x], errand[x]>>,
           missed[x] => missed'[x],
           \/ errand'[Other(x)].phase = errand[Other(x)].phase
           \/ /\ errand[Other(x)].phase \notin {"received", "accepted"}
              /\ errand'[Other(x)].phase \notin {"received", "accepted"}
    PROVE  PageInv(x)'
<1>1. \A event \in {"received", "accepted"} :
         /\ Hears(x, event)' <=> Hears(x, event)
         /\ errand'[Other(x)].phase = event <=> errand[Other(x)].phase = event
  BY DEF Hears
<1>2. PICK status : status = Derived(relation, x)
  OBVIOUS
<1>3. Derived(relation', x) = status
  BY <1>2
<1>4. SUFFICES ASSUME ~missed'[x] PROVE OnItsWay(x)' /\ OwnErrand(x)'
  BY DEF PageInv
<1>5. OnItsWay(x) /\ OwnErrand(x)
  BY <1>4 DEF PageInv
<1>6. OnItsWay(x)'
  BY <1>1, <1>2, <1>3, <1>5 DEF OnItsWay
<1>7. AboutToShow(x) => AboutToShow(x)'
  BY <1>1, <1>2, <1>3 DEF AboutToShow
<1>8. OwnErrand(x)'
  BY <1>2, <1>3, <1>5, <1>7 DEF OwnErrand
<1>9. QED BY <1>6, <1>8

\* A person does something with an own request and page only.
LEMMA Alone ==
    ASSUME FriendsInv, NEW u \in Pair, UNCHANGED <<relation, agreed>>,
           FriendsTypeOK', PageInv(u)',
           \A x \in Pair : x # u =>
              /\ UNCHANGED <<page[x], news[x], profiles[x], errand[x]>>
              /\ missed[x] => missed'[x],
           \/ errand'[u].phase = errand[u].phase
           \/ /\ errand[u].phase \notin {"received", "accepted"}
              /\ errand'[u].phase \notin {"received", "accepted"}
    PROVE  FriendsInv'
<1>1. ASSUME NEW x \in Pair PROVE PageInv(x)'
  <2>1. CASE x = u
    BY <2>1
  <2>2. CASE x # u
    <3>1. Other(x) = u /\ PageInv(x)
      BY <2>2, TheOther DEF FriendsInv, PagesInv
    <3>2. UNCHANGED <<relation, page[x], news[x], profiles[x], errand[x]>> /\ (missed[x] => missed'[x])
      BY <2>2
    <3>3. QED BY <3>1, <3>2, Unconcerned
  <2>3. QED BY <2>1, <2>2
<1>2. FriendshipAgreed'
  BY DEF FriendsInv, FriendshipAgreed
<1>3. QED BY <1>1, <1>2 DEF FriendsInv, PagesInv

\* The errand of one of the two changes.
LEMMA ErrandSet ==
    ASSUME NEW f \in [Pair -> Errands], NEW u \in Pair, NEW e \in Errands
    PROVE  /\ [f EXCEPT ![u] = e] \in [Pair -> Errands] /\ [f EXCEPT ![u] = e][u] = e
           /\ \A x \in Pair : x # u => [f EXCEPT ![u] = e][x] = f[x]
  OBVIOUS

\* No errand.
LEMMA NoErrandIs == NoErrand \in Errands /\ NoErrand.op = "none" /\ NoErrand.phase = "none"
  BY DEF NoErrand, Errands, Statuses, Clicks, Answers

\* Somebody clicks on what the page offers.
LEMMA ClickStep == ASSUME FriendsInv, NEW u \in Pair, Click(u) PROVE FriendsInv'
<1>1. /\ FriendsTypeOK /\ PageInv(u) /\ errand[u] = NoErrand /\ errand \in [Pair -> Errands]
      /\ UNCHANGED <<relation, page, news, profiles, agreed, missed>>
  BY DEF FriendsInv, PagesInv, FriendsTypeOK, Click
<1>2. PICK op \in Offers(page[u]) : NewErrand(u, op)
  BY DEF Click
<1>3. page[u] \in Statuses
  BY <1>1 DEF FriendsTypeOK
<1>4. /\ op \in Clicks
      /\ op \in {"accept", "remove"} => page[u] \in {"PENDING_INCOMING", "PENDING_OUTGOING", "ACCEPTED"}
  BY <1>2, <1>3 DEF Offers, Statuses, Clicks
<1>5. PICK e : e = [NoErrand EXCEPT !.op = op, !.phase = "sent"]
  OBVIOUS
<1>6. e \in Errands /\ e.op = op /\ e.phase = "sent"
  BY <1>4, <1>5, NoErrandIs DEF Errands
<1>7. errand' = [errand EXCEPT ![u] = e]
  BY <1>2, <1>5 DEF NewErrand
<1>8. /\ errand' \in [Pair -> Errands] /\ errand'[u] = e
      /\ \A x \in Pair : x # u => errand'[x] = errand[x]
  BY <1>1, <1>6, <1>7, ErrandSet
<1>9. FriendsTypeOK'
  BY <1>1, <1>6, <1>8 DEF FriendsTypeOK, Answers
<1>10. Other(u) \in Pair /\ errand'[Other(u)] = errand[Other(u)]
  BY <1>8, TheOther
<1>11. PageInv(u)'
  <2>1. SUFFICES ASSUME ~missed'[u] PROVE OnItsWay(u)' /\ OwnErrand(u)'
    BY DEF PageInv
  <2>2. OnItsWay(u) /\ AboutToShow(u)
    BY <1>1, <2>1 DEF PageInv, OwnErrand
  <2>3. OnItsWay(u)'
    BY <1>1, <1>10, <2>2 DEF OnItsWay, Hears
  <2>4. AboutToShow(u)'
    BY <1>1, <1>10, <2>2 DEF AboutToShow, Hears
  <2>5. op \in {"accept", "remove"} => relation[u] # "BLOCKED"
    <3>1. relation \in [Pair -> RelationRows]
      BY <1>1 DEF FriendsTypeOK
    <3>2. relation[u] = "BLOCKED" <=> Derived(relation, u) = "BLOCKED"
      BY <3>1, StatusOf
    <3>3. QED BY <1>4, <2>2, <3>2 DEF AboutToShow
  <2>6. OwnErrand(u)'
    <3>1. relation' = relation /\ errand'[u] = e
      BY <1>1, <1>8
    <3>2. e # NoErrand
      BY <1>6, NoErrandIs
    <3>3. QED BY <1>6, <2>4, <2>5, <3>1, <3>2 DEF OwnErrand, Answers
  <2>7. QED BY <2>3, <2>6
<1>12. errand[u].phase = "none" /\ errand'[u].phase = "sent"
  BY <1>1, <1>6, <1>8, NoErrandIs
<1>13. QED BY <1>1, <1>8, <1>9, <1>11, <1>12, Alone

\* A page loads again, without what it has heard.
LEMMA LoadStep == ASSUME FriendsInv, NEW u \in Pair, Load(u) PROVE FriendsInv'
<1>1. /\ FriendsTypeOK /\ PageInv(u) /\ errand[u] = NoErrand /\ errand \in [Pair -> Errands]
      /\ page \in [Pair -> Statuses] /\ news \in [Pair -> Seq({"received", "accepted"})]
      /\ profiles \in [Pair -> SUBSET {"PENDING_INCOMING", "PENDING_OUTGOING"}]
      /\ UNCHANGED <<relation, agreed, missed>>
  BY DEF FriendsInv, PagesInv, FriendsTypeOK, Load
<1>2. PICK e : e = [NoErrand EXCEPT !.op = "load", !.phase = "sent"]
  OBVIOUS
<1>3. e \in Errands /\ e.op = "load" /\ e.phase = "sent"
  BY <1>2, NoErrandIs DEF Errands
<1>4. /\ errand' = [errand EXCEPT ![u] = e] /\ page' = [page EXCEPT ![u] = "NONE"]
      /\ news' = [news EXCEPT ![u] = <<>>] /\ profiles' = [profiles EXCEPT ![u] = {}]
  BY <1>2 DEF Load, NewErrand
<1>5. /\ errand' \in [Pair -> Errands] /\ errand'[u] = e
      /\ \A x \in Pair : x # u => errand'[x] = errand[x]
  BY <1>1, <1>3, <1>4, ErrandSet
<1>6. /\ page' \in [Pair -> Statuses] /\ news' \in [Pair -> Seq({"received", "accepted"})]
      /\ profiles' \in [Pair -> SUBSET {"PENDING_INCOMING", "PENDING_OUTGOING"}]
      /\ news'[u] = <<>> /\ profiles'[u] = {}
      /\ \A x \in Pair : x # u => page'[x] = page[x] /\ news'[x] = news[x] /\ profiles'[x] = profiles[x]
  BY <1>1, <1>4 DEF Statuses
<1>7. FriendsTypeOK'
  BY <1>1, <1>3, <1>5, <1>6 DEF FriendsTypeOK, Answers
<1>8. errand[u].phase = "none" /\ errand'[u].phase = "sent"
  BY <1>1, <1>3, <1>5, NoErrandIs
<1>9. PageInv(u)'
  <2>1. SUFFICES ASSUME ~missed'[u] PROVE OnItsWay(u)' /\ OwnErrand(u)'
    BY DEF PageInv
  <2>2. OnItsWay(u)
    BY <1>1, <2>1 DEF PageInv
  <2>3. errand'[Other(u)] = errand[Other(u)]
    BY <1>5, TheOther
  <2>4. \A event : ~Hears(u, event)'
    BY <1>6 DEF Hears
  <2>5. OnItsWay(u)'
    BY <1>1, <1>6, <2>2, <2>3, <2>4 DEF OnItsWay
  <2>6. OwnErrand(u)'
    <3>1. e # NoErrand
      BY <1>3, NoErrandIs
    <3>2. QED BY <1>3, <1>5, <3>1 DEF OwnErrand, Answers
  <2>7. QED BY <2>5, <2>6
<1>10. QED BY <1>1, <1>5, <1>6, <1>7, <1>8, <1>9, Alone

\* A request that is refused leaves no trace, but for a load.
LEMMA RefuseStep == ASSUME FriendsInv, NEW u \in Pair, Refuse(u) PROVE FriendsInv'
<1>1. /\ FriendsTypeOK /\ PageInv(u) /\ errand[u].phase = "sent" /\ errand \in [Pair -> Errands]
      /\ missed \in [Pair -> BOOLEAN] /\ errand' = [errand EXCEPT ![u] = NoErrand]
      /\ UNCHANGED <<relation, page, news, profiles, agreed>>
  BY DEF FriendsInv, PagesInv, FriendsTypeOK, Refuse, On
<1>2. /\ errand' \in [Pair -> Errands] /\ errand'[u] = NoErrand
      /\ \A x \in Pair : x # u => errand'[x] = errand[x]
  BY <1>1, NoErrandIs, ErrandSet
<1>3. PICK b \in BOOLEAN : b = (missed[u] \/ errand[u].op = "load")
  OBVIOUS
<1>4. missed' = [missed EXCEPT ![u] = b]
  BY <1>3 DEF Refuse
<1>5. /\ missed' \in [Pair -> BOOLEAN] /\ missed'[u] = b
      /\ \A x \in Pair : x # u => missed'[x] = missed[x]
  BY <1>1, <1>4
<1>6. FriendsTypeOK'
  BY <1>1, <1>2, <1>5, NoErrandIs DEF FriendsTypeOK, Answers
<1>7. PageInv(u)'
  <2>1. SUFFICES ASSUME ~missed'[u] PROVE OnItsWay(u)' /\ OwnErrand(u)'
    BY DEF PageInv
  <2>2. ~missed[u] /\ errand[u].op # "load"
    BY <1>3, <1>5, <2>1
  <2>3. OnItsWay(u) /\ AboutToShow(u)
    BY <1>1, <2>2 DEF PageInv, OwnErrand
  <2>4. errand'[Other(u)] = errand[Other(u)]
    BY <1>2, TheOther
  <2>5. OnItsWay(u)'
    BY <1>1, <2>3, <2>4 DEF OnItsWay, Hears
  <2>6. AboutToShow(u)'
    BY <1>1, <2>3, <2>4 DEF AboutToShow, Hears
  <2>7. OwnErrand(u)'
    BY <1>2, <2>6, NoErrandIs DEF OwnErrand, Answers
  <2>8. QED BY <2>5, <2>7
<1>8. errand'[u].phase = "none"
  BY <1>2, NoErrandIs
<1>9. QED BY <1>1, <1>2, <1>5, <1>6, <1>7, <1>8, Alone

\* The rows are read, and with nothing else under way all is known again.
LEMMA ReadRowsStep == ASSUME FriendsInv, NEW u \in Pair, ReadRows(u) PROVE FriendsInv'
<1>1. /\ FriendsTypeOK /\ PageInv(u) /\ errand \in [Pair -> Errands] /\ missed \in [Pair -> BOOLEAN]
      /\ relation \in [Pair -> RelationRows] /\ errand[u] \in Errands
      /\ UNCHANGED <<relation, page, news, profiles, agreed>>
  BY DEF FriendsInv, PagesInv, FriendsTypeOK, ReadRows
<1>2. errand[u].phase \in {"sent", "committed"}
  BY DEF ReadRows, On
<1>3. PICK got \in Statuses : got = Derived(relation, u)
  BY <1>1, StatusOf
<1>4. PICK e : e = [errand[u] EXCEPT !.phase = "read", !.got = got]
  OBVIOUS
<1>5. e \in Errands /\ e.phase = "read" /\ e.got = got /\ e.op = errand[u].op
  BY <1>1, <1>4 DEF Errands
<1>6. errand' = [errand EXCEPT ![u] = e]
  BY <1>1, <1>3, <1>4 DEF ReadRows, DeriveAnew, Result
<1>7. /\ errand' \in [Pair -> Errands] /\ errand'[u] = e
      /\ \A x \in Pair : x # u => errand'[x] = errand[x]
  BY <1>1, <1>5, <1>6, ErrandSet
<1>8. PICK b \in BOOLEAN : b = (missed[u] /\ Coming(u))
  OBVIOUS
<1>9. missed' = [missed EXCEPT ![u] = b]
  BY <1>8 DEF ReadRows
<1>10. /\ missed' \in [Pair -> BOOLEAN] /\ missed'[u] = b
       /\ \A x \in Pair : x # u => missed'[x] = missed[x]
  BY <1>1, <1>9
<1>11. FriendsTypeOK'
  BY <1>1, <1>5, <1>7, <1>10 DEF FriendsTypeOK, Answers
<1>12. errand'[Other(u)] = errand[Other(u)]
  BY <1>7, TheOther
<1>13. PageInv(u)'
  <2>1. SUFFICES ASSUME ~missed'[u] PROVE OnItsWay(u)' /\ OwnErrand(u)'
    BY DEF PageInv
  <2>2. ~missed[u] \/ ~Coming(u)
    BY <1>8, <1>10, <2>1
  <2>3. OnItsWay(u)
    <3>1. CASE ~missed[u]
      BY <1>1, <3>1 DEF PageInv
    <3>2. CASE ~Coming(u)
      <4>1. errand[Other(u)].phase \notin {"received", "accepted"} /\ news[u] = <<>> /\ profiles[u] = {}
        BY <3>2 DEF Coming
      <4>2. \A event : ~Hears(u, event)
        BY <4>1 DEF Hears
      <4>3. QED BY <4>1, <4>2 DEF OnItsWay
    <3>3. QED BY <2>2, <3>1, <3>2
  <2>4. OnItsWay(u)'
    BY <1>1, <1>12, <2>3 DEF OnItsWay, Hears
  <2>5. OwnErrand(u)'
    <3>1. e # NoErrand
      BY <1>5, NoErrandIs
    <3>2. relation' = relation
      BY <1>1
    <3>3. QED BY <1>3, <1>5, <1>7, <3>1, <3>2 DEF OwnErrand, Answers
  <2>6. QED BY <2>4, <2>5
<1>14. errand'[u].phase = "read"
  BY <1>5, <1>7
<1>15. QED BY <1>1, <1>2, <1>7, <1>10, <1>11, <1>13, <1>14, Alone

\* The page applies the answer.
LEMMA ReplyStep == ASSUME FriendsInv, NEW u \in Pair, Reply(u) PROVE FriendsInv'
<1>1. /\ FriendsTypeOK /\ PageInv(u) /\ errand \in [Pair -> Errands] /\ errand[u] \in Errands
      /\ page \in [Pair -> Statuses] /\ relation \in [Pair -> RelationRows]
      /\ profiles \in [Pair -> SUBSET {"PENDING_INCOMING", "PENDING_OUTGOING"}]
      /\ errand[u].phase \in Answers => errand[u].op \in Clicks
      /\ errand' = [errand EXCEPT ![u] = NoErrand]
      /\ UNCHANGED <<relation, news, agreed, missed>>
  BY DEF FriendsInv, PagesInv, FriendsTypeOK, Reply
<1>2. /\ errand' \in [Pair -> Errands] /\ errand'[u] = NoErrand
      /\ \A x \in Pair : x # u => errand'[x] = errand[x]
  BY <1>1, NoErrandIs, ErrandSet
<1>3. PICK shown : /\ page' = [page EXCEPT ![u] = shown]
                   /\ \/ errand[u].phase = "committed" /\ errand[u].op # "unblock" /\ shown = Asked(errand[u].op)
                      \/ errand[u].phase = "read" /\ shown = errand[u].got
  BY DEF Reply, On
<1>4. shown \in Statuses
  BY <1>1, <1>3 DEF Asked, Statuses, Clicks, Answers, Errands
<1>5. page' \in [Pair -> Statuses] /\ page'[u] = shown /\ \A x \in Pair : x # u => page'[x] = page[x]
  BY <1>1, <1>3, <1>4
<1>6. PICK asked : /\ profiles' = [profiles EXCEPT ![u] = asked]
                   /\ \/ asked = profiles[u]
                      \/ /\ errand[u].phase = "committed" /\ errand[u].op = "create"
                         /\ asked = profiles[u] \cup {"PENDING_OUTGOING"}
  <2>1. profiles = [profiles EXCEPT ![u] = profiles[u]]
    BY <1>1
  <2>2. CASE On(u, "committed") /\ errand[u].op # "unblock"
    <3>1. PICK a : a = IF errand[u].op = "create" THEN profiles[u] \cup {"PENDING_OUTGOING"} ELSE profiles[u]
      OBVIOUS
    <3>2. errand[u].phase = "committed" /\ errand[u].phase # "read"
      BY <2>2 DEF On
    <3>3. profiles' = [profiles EXCEPT ![u] = a]
      BY <3>1, <3>2 DEF Reply, On
    <3>4. QED BY <3>1, <3>2, <3>3
  <2>3. CASE On(u, "read")
    BY <2>1, <2>3 DEF Reply, On
  <2>4. QED BY <2>2, <2>3 DEF Reply
<1>7. /\ profiles' \in [Pair -> SUBSET {"PENDING_INCOMING", "PENDING_OUTGOING"}] /\ profiles'[u] = asked
      /\ \A x \in Pair : x # u => profiles'[x] = profiles[x]
  BY <1>1, <1>6
<1>8. FriendsTypeOK'
  BY <1>1, <1>2, <1>5, <1>7, NoErrandIs DEF FriendsTypeOK, Answers
<1>9. errand'[Other(u)] = errand[Other(u)]
  BY <1>2, TheOther
<1>10. PageInv(u)'
  <2>1. SUFFICES ASSUME ~missed'[u] PROVE OnItsWay(u)' /\ OwnErrand(u)'
    BY DEF PageInv
  <2>2. OnItsWay(u) /\ OwnErrand(u)
    BY <1>1, <2>1 DEF PageInv
  <2>3. PICK status : status = Derived(relation, u)
    OBVIOUS
  <2>4. Derived(relation', u) = status
    BY <1>1, <2>3
  <2>5. shown = status
    BY <1>3, <2>2, <2>3 DEF OwnErrand, Answers
  <2>6. \A s \in asked : s = status
    <3>1. \A s \in profiles[u] : s = status
      BY <2>2, <2>3 DEF OnItsWay
    <3>2. errand[u].phase = "committed" /\ errand[u].op = "create" => status = "PENDING_OUTGOING"
      BY <2>2, <2>3 DEF OwnErrand, Answers, Asked
    <3>3. QED BY <1>6, <3>1, <3>2
  <2>7. OnItsWay(u)'
    BY <1>1, <1>7, <1>9, <2>2, <2>3, <2>4, <2>6 DEF OnItsWay, Hears
  <2>8. OwnErrand(u)'
    <3>1. AboutToShow(u)'
      BY <1>5, <2>4, <2>5 DEF AboutToShow
    <3>2. QED BY <1>2, <3>1, NoErrandIs DEF OwnErrand, Answers
  <2>9. QED BY <2>7, <2>8
<1>11. errand'[u].phase = "none" /\ errand[u].phase \in {"committed", "read"}
  BY <1>2, <1>3, NoErrandIs
<1>12. QED BY <1>1, <1>2, <1>5, <1>7, <1>8, <1>10, <1>11, Alone

\* An event arrives.
LEMMA HearStep == ASSUME FriendsInv, NEW u \in Pair, Hear(u) PROVE FriendsInv'
<1>1. /\ FriendsTypeOK /\ PageInv(u) /\ page \in [Pair -> Statuses] /\ relation \in [Pair -> RelationRows]
      /\ news \in [Pair -> Seq({"received", "accepted"})] /\ news[u] \in Seq({"received", "accepted"})
      /\ profiles \in [Pair -> SUBSET {"PENDING_INCOMING", "PENDING_OUTGOING"}]
      /\ news[u] # <<>> /\ UNCHANGED <<relation, errand, agreed, missed>>
  BY DEF FriendsInv, PagesInv, FriendsTypeOK, Hear
<1>2. PICK rest : rest = Tail(news[u])
  OBVIOUS
<1>3. PICK event : event = Head(news[u])
  OBVIOUS
<1>4. /\ rest \in Seq({"received", "accepted"}) /\ event \in {"received", "accepted"}
      /\ Hears(u, event)
      /\ \A i \in 1..Len(rest) : \E j \in 1..Len(news[u]) : rest[i] = news[u][j]
      /\ \A j \in 1..Len(news[u]) : news[u][j] = event \/ \E i \in 1..Len(rest) : rest[i] = news[u][j]
  BY <1>1, <1>2, <1>3, NewsMove DEF Hears
<1>5. news' = [news EXCEPT ![u] = rest]
  BY <1>2 DEF Hear
<1>6. /\ news' \in [Pair -> Seq({"received", "accepted"})] /\ news'[u] = rest
      /\ \A x \in Pair : x # u => news'[x] = news[x]
  BY <1>1, <1>4, <1>5
<1>7. PICK shown, asked :
         /\ page' = [page EXCEPT ![u] = shown] /\ profiles' = [profiles EXCEPT ![u] = asked]
         /\ \/ /\ event = "received" /\ asked = profiles[u] \cup {"PENDING_INCOMING"} /\ shown = page[u]
            \/ /\ event = "accepted" /\ asked = profiles[u]
               /\ shown = IF page[u] = "NONE" THEN page[u] ELSE "ACCEPTED"
  <2>1. page = [page EXCEPT ![u] = page[u]] /\ profiles = [profiles EXCEPT ![u] = profiles[u]]
    BY <1>1
  <2>2. CASE event = "received"
    <3>1. PICK a : a = profiles[u] \cup {"PENDING_INCOMING"}
      OBVIOUS
    <3>2. profiles' = [profiles EXCEPT ![u] = a] /\ page' = page
      BY <1>3, <2>2, <3>1 DEF Hear
    <3>3. QED BY <2>1, <2>2, <3>1, <3>2
  <2>3. CASE event = "accepted"
    <3>1. PICK s : s = IF page[u] = "NONE" THEN page[u] ELSE "ACCEPTED"
      OBVIOUS
    <3>2. page' = [page EXCEPT ![u] = s] /\ profiles' = profiles
      BY <1>3, <2>3, <3>1 DEF Hear
    <3>3. QED BY <2>1, <2>3, <3>1, <3>2
  <2>4. QED BY <1>4, <2>2, <2>3
<1>8. shown \in Statuses /\ asked \in SUBSET {"PENDING_INCOMING", "PENDING_OUTGOING"}
  BY <1>1, <1>7 DEF Statuses
<1>9. /\ page' \in [Pair -> Statuses] /\ page'[u] = shown
      /\ profiles' \in [Pair -> SUBSET {"PENDING_INCOMING", "PENDING_OUTGOING"}] /\ profiles'[u] = asked
      /\ \A x \in Pair : x # u => page'[x] = page[x] /\ profiles'[x] = profiles[x]
  BY <1>1, <1>7, <1>8
<1>10. FriendsTypeOK'
  BY <1>1, <1>6, <1>9 DEF FriendsTypeOK
<1>11. PageInv(u)'
  <2>1. SUFFICES ASSUME ~missed'[u] PROVE OnItsWay(u)' /\ OwnErrand(u)'
    BY DEF PageInv
  <2>2. OnItsWay(u) /\ OwnErrand(u)
    BY <1>1, <2>1 DEF PageInv
  <2>3. PICK status : status = Derived(relation, u)
    OBVIOUS
  <2>4. Derived(relation', u) = status
    BY <1>1, <2>3
  <2>5. status = Told(event)
    BY <1>4, <2>2, <2>3 DEF OnItsWay
  <2>6. \A s \in asked : s = status
    BY <1>7, <2>2, <2>3, <2>5 DEF OnItsWay, Told
  <2>7. \A n \in {"received", "accepted"} : Hears(u, n)' => Hears(u, n)
    BY <1>4, <1>6 DEF Hears
  <2>8. OnItsWay(u)'
    BY <1>1, <1>9, <2>2, <2>3, <2>4, <2>6, <2>7 DEF OnItsWay
  <2>9. AboutToShow(u) => AboutToShow(u)'
    <3>1. ASSUME AboutToShow(u) PROVE AboutToShow(u)'
      <4>1. CASE event = "received"
        <5>1. status = "PENDING_INCOMING" /\ shown = page[u] /\ "PENDING_INCOMING" \in asked
          BY <1>7, <2>5, <4>1 DEF Told
        <5>2. shown = status \/ shown = "NONE"
          BY <2>3, <3>1, <5>1 DEF AboutToShow
        <5>3. QED BY <1>9, <2>4, <5>1, <5>2 DEF AboutToShow
      <4>2. CASE event = "accepted"
        <5>1. status = "ACCEPTED"
          BY <2>5, <4>2 DEF Told
        <5>2. page[u] # "NONE"
          BY <2>3, <3>1, <5>1 DEF AboutToShow
        <5>3. shown = status
          BY <1>7, <4>2, <5>1, <5>2
        <5>4. QED BY <1>9, <2>4, <5>3 DEF AboutToShow
      <4>3. QED BY <1>4, <4>1, <4>2
    <3>2. QED BY <3>1
  <2>10. OwnErrand(u)'
    BY <1>1, <2>2, <2>3, <2>4, <2>9 DEF OwnErrand
  <2>11. QED BY <2>8, <2>10
<1>12. QED BY <1>1, <1>6, <1>9, <1>10, <1>11, Alone

\* A profile arrives.
LEMMA ShowProfileStep == ASSUME FriendsInv, NEW u \in Pair, ShowProfile(u) PROVE FriendsInv'
<1>1. /\ FriendsTypeOK /\ PageInv(u) /\ page \in [Pair -> Statuses] /\ relation \in [Pair -> RelationRows]
      /\ profiles \in [Pair -> SUBSET {"PENDING_INCOMING", "PENDING_OUTGOING"}]
      /\ UNCHANGED <<relation, errand, news, agreed, missed>>
  BY DEF FriendsInv, PagesInv, FriendsTypeOK, ShowProfile
<1>2. PICK s \in profiles[u] :
         /\ profiles' = [profiles EXCEPT ![u] = @ \ {s}]
         /\ page' = [page EXCEPT ![u] = IF s = "PENDING_OUTGOING" \/ @ = "NONE" THEN s ELSE @]
  BY DEF ShowProfile
<1>3. PICK shown : shown = IF s = "PENDING_OUTGOING" \/ page[u] = "NONE" THEN s ELSE page[u]
  OBVIOUS
<1>4. PICK asked : asked = profiles[u] \ {s}
  OBVIOUS
<1>5. page' = [page EXCEPT ![u] = shown] /\ profiles' = [profiles EXCEPT ![u] = asked]
  BY <1>1, <1>2, <1>3, <1>4
<1>6. /\ shown \in Statuses /\ asked \in SUBSET {"PENDING_INCOMING", "PENDING_OUTGOING"}
      /\ s \in {"PENDING_INCOMING", "PENDING_OUTGOING"}
  BY <1>1, <1>3, <1>4 DEF Statuses
<1>7. /\ page' \in [Pair -> Statuses] /\ page'[u] = shown
      /\ profiles' \in [Pair -> SUBSET {"PENDING_INCOMING", "PENDING_OUTGOING"}] /\ profiles'[u] = asked
      /\ \A x \in Pair : x # u => page'[x] = page[x] /\ profiles'[x] = profiles[x]
  BY <1>1, <1>5, <1>6
<1>8. FriendsTypeOK'
  BY <1>1, <1>7 DEF FriendsTypeOK
<1>9. PageInv(u)'
  <2>1. SUFFICES ASSUME ~missed'[u] PROVE OnItsWay(u)' /\ OwnErrand(u)'
    BY DEF PageInv
  <2>2. OnItsWay(u) /\ OwnErrand(u)
    BY <1>1, <2>1 DEF PageInv
  <2>3. PICK status : status = Derived(relation, u)
    OBVIOUS
  <2>4. Derived(relation', u) = status
    BY <1>1, <2>3
  <2>5. s = status
    BY <2>2, <2>3 DEF OnItsWay
  <2>6. OnItsWay(u)'
    BY <1>1, <1>4, <1>7, <2>2, <2>3, <2>4 DEF OnItsWay, Hears
  <2>7. AboutToShow(u) => AboutToShow(u)'
    <3>1. ASSUME AboutToShow(u) PROVE shown = status
      BY <1>3, <1>6, <2>3, <2>5, <3>1 DEF AboutToShow
    <3>2. QED BY <1>7, <2>4, <3>1 DEF AboutToShow
  <2>8. OwnErrand(u)'
    BY <1>1, <2>2, <2>3, <2>4, <2>7 DEF OwnErrand
  <2>9. QED BY <2>6, <2>8
<1>10. QED BY <1>1, <1>7, <1>8, <1>9, Alone

\* An answer is lost: the page has missed what was done, or read.
LEMMA LoseAnswerStep == ASSUME FriendsInv, NEW u \in Pair, LoseAnswer(u) PROVE FriendsInv'
<1>1. /\ FriendsTypeOK /\ errand \in [Pair -> Errands] /\ missed \in [Pair -> BOOLEAN]
      /\ page \in [Pair -> Statuses] /\ errand[u].phase \in {"committed", "read"}
      /\ errand' = [errand EXCEPT ![u] = NoErrand] /\ missed' = [missed EXCEPT ![u] = TRUE]
      /\ UNCHANGED <<relation, news, profiles, agreed>>
  BY DEF FriendsInv, FriendsTypeOK, LoseAnswer, On
<1>2. /\ errand' \in [Pair -> Errands] /\ errand'[u] = NoErrand
      /\ \A x \in Pair : x # u => errand'[x] = errand[x]
  BY <1>1, NoErrandIs, ErrandSet
<1>3. missed' \in [Pair -> BOOLEAN] /\ missed'[u] /\ \A x \in Pair : x # u => missed'[x] = missed[x]
  BY <1>1
<1>4. page' \in [Pair -> Statuses] /\ \A x \in Pair : x # u => page'[x] = page[x]
  <2>1. page' = page \/ page' = [page EXCEPT ![u] = "NONE"]
    BY DEF LoseAnswer
  <2>2. QED BY <1>1, <2>1 DEF Statuses
<1>5. FriendsTypeOK'
  BY <1>1, <1>2, <1>3, <1>4, NoErrandIs DEF FriendsTypeOK, Answers
<1>6. PageInv(u)'
  BY <1>3 DEF PageInv
<1>7. errand'[u].phase = "none"
  BY <1>2, NoErrandIs
<1>8. QED BY <1>1, <1>2, <1>3, <1>4, <1>5, <1>6, <1>7, Alone

\* A profile cannot be fetched: only a page that shows nothing misses it.
LEMMA LoseProfileStep == ASSUME FriendsInv, NEW u \in Pair, LoseProfile(u) PROVE FriendsInv'
<1>1. /\ FriendsTypeOK /\ PageInv(u) /\ missed \in [Pair -> BOOLEAN]
      /\ profiles \in [Pair -> SUBSET {"PENDING_INCOMING", "PENDING_OUTGOING"}]
      /\ UNCHANGED <<relation, page, errand, news, agreed>>
  BY DEF FriendsInv, PagesInv, FriendsTypeOK, LoseProfile
<1>2. PICK s \in profiles[u] : profiles' = [profiles EXCEPT ![u] = @ \ {s}]
  BY DEF LoseProfile
<1>3. PICK b \in BOOLEAN : b = (missed[u] \/ page[u] = "NONE")
  OBVIOUS
<1>4. missed' = [missed EXCEPT ![u] = b]
  BY <1>1, <1>3 DEF LoseProfile
<1>5. missed' \in [Pair -> BOOLEAN] /\ missed'[u] = b /\ \A x \in Pair : x # u => missed'[x] = missed[x]
  BY <1>1, <1>4
<1>6. /\ profiles' \in [Pair -> SUBSET {"PENDING_INCOMING", "PENDING_OUTGOING"}]
      /\ profiles'[u] \subseteq profiles[u] /\ \A x \in Pair : x # u => profiles'[x] = profiles[x]
  BY <1>1, <1>2
<1>7. FriendsTypeOK'
  BY <1>1, <1>5, <1>6 DEF FriendsTypeOK
<1>8. PageInv(u)'
  <2>1. SUFFICES ASSUME ~missed'[u] PROVE OnItsWay(u)' /\ OwnErrand(u)'
    BY DEF PageInv
  <2>2. OnItsWay(u) /\ OwnErrand(u) /\ page[u] # "NONE"
    BY <1>1, <1>3, <1>5, <2>1 DEF PageInv
  <2>3. PICK status : status = Derived(relation, u)
    OBVIOUS
  <2>4. Derived(relation', u) = status
    BY <1>1, <2>3
  <2>5. OnItsWay(u)'
    BY <1>1, <1>6, <2>2, <2>3, <2>4 DEF OnItsWay, Hears
  <2>6. AboutToShow(u) => AboutToShow(u)'
    BY <1>1, <2>2, <2>3, <2>4 DEF AboutToShow, Hears
  <2>7. OwnErrand(u)'
    BY <1>1, <2>2, <2>3, <2>4, <2>6 DEF OwnErrand
  <2>8. QED BY <2>5, <2>7
<1>9. QED BY <1>1, <1>5, <1>6, <1>7, <1>8, Alone

\* The other side is told, or misses it.
LEMMA TellStep == ASSUME FriendsInv, NEW u \in Pair, Tell(u) PROVE FriendsInv'
<1>1. /\ FriendsTypeOK /\ PagesInv /\ errand \in [Pair -> Errands] /\ errand[u] \in Errands
      /\ relation \in [Pair -> RelationRows] /\ missed \in [Pair -> BOOLEAN]
      /\ news \in [Pair -> Seq({"received", "accepted"})]
      /\ errand[u].phase \in Answers => errand[u].op \in Clicks
      /\ UNCHANGED <<relation, page, profiles, agreed>>
  BY DEF FriendsInv, FriendsTypeOK, Tell
<1>2. PICK event \in {"received", "accepted"} : errand[u].phase = event
  BY DEF Tell, On
<1>3. PICK v \in Pair : v = Other(u) /\ v # u /\ Other(v) = u /\ \A x \in Pair : x = u \/ x = v
  BY TheOther
<1>4. PICK e : e = [errand[u] EXCEPT !.phase = "committed", !.got = "NONE"]
  OBVIOUS
<1>5. e \in Errands /\ e.phase = "committed" /\ e.op = errand[u].op
  BY <1>1, <1>4 DEF Errands, Statuses, Answers
<1>6. errand' = [errand EXCEPT ![u] = e]
  BY <1>1, <1>4 DEF Tell, Result
<1>7. /\ errand' \in [Pair -> Errands] /\ errand'[u] = e
      /\ \A x \in Pair : x # u => errand'[x] = errand[x]
  BY <1>1, <1>5, <1>6, ErrandSet
<1>8. /\ news' \in [Pair -> Seq({"received", "accepted"})] /\ missed' \in [Pair -> BOOLEAN]
      /\ news'[u] = news[u] /\ missed'[u] = missed[u] /\ (missed[v] => missed'[v])
      /\ \/ missed'[v]
         \/ /\ Hears(v, event)'
            /\ \A n \in {"received", "accepted"} : Hears(v, n)' <=> (Hears(v, n) \/ n = event)
  <2>1. CASE news' = [news EXCEPT ![v] = Append(@, event)] /\ UNCHANGED missed
    <3>1. PICK w \in Seq({"received", "accepted"}) : w = news[v]
      BY <1>1
    <3>2. PICK s : s = Append(w, event)
      OBVIOUS
    <3>3. /\ s \in Seq({"received", "accepted"})
          /\ \A i \in 1..Len(s) : s[i] = event \/ \E j \in 1..Len(w) : s[i] = w[j]
          /\ \E i \in 1..Len(s) : s[i] = event
          /\ \A j \in 1..Len(w) : \E i \in 1..Len(s) : s[i] = w[j]
      BY <3>2, NewsMove
    <3>4. news' = [news EXCEPT ![v] = s]
      BY <1>1, <2>1, <3>1, <3>2
    <3>5. news' \in [Pair -> Seq({"received", "accepted"})] /\ news'[u] = news[u] /\ news'[v] = s
      BY <1>1, <1>3, <3>3, <3>4
    <3>6. /\ Hears(v, event)'
          /\ \A n \in {"received", "accepted"} : Hears(v, n)' <=> (Hears(v, n) \/ n = event)
      <4>1. ASSUME NEW n PROVE Hears(v, n)' <=> \E i \in 1..Len(s) : s[i] = n
        BY <3>5 DEF Hears
      <4>2. ASSUME NEW n PROVE Hears(v, n) <=> \E j \in 1..Len(w) : w[j] = n
        BY <3>1 DEF Hears
      <4>3. ASSUME NEW n PROVE (\E i \in 1..Len(s) : s[i] = n) <=> ((\E j \in 1..Len(w) : w[j] = n) \/ n = event)
        BY <3>3
      <4>4. QED BY <4>1, <4>2, <4>3
    <3>7. QED BY <1>1, <2>1, <3>5, <3>6
  <2>2. CASE missed' = [missed EXCEPT ![v] = TRUE] /\ UNCHANGED news
    BY <1>1, <1>3, <2>2
  <2>3. QED BY <1>2, <1>3, <2>1, <2>2 DEF Tell
<1>9. FriendsTypeOK'
  <2>1. \A x \in Pair : errand'[x].phase \in Answers => errand'[x].op \in Clicks
    BY <1>1, <1>2, <1>5, <1>7 DEF FriendsTypeOK, Answers
  <2>2. QED BY <1>1, <1>7, <1>8, <2>1 DEF FriendsTypeOK
<1>10. PageInv(u)'
  <2>1. SUFFICES ASSUME ~missed'[u] PROVE OnItsWay(u)' /\ OwnErrand(u)'
    BY DEF PageInv
  <2>2. OnItsWay(u) /\ OwnErrand(u)
    BY <1>1, <1>8, <2>1 DEF PageInv, PagesInv
  <2>3. errand'[Other(u)] = errand[Other(u)]
    BY <1>3, <1>7
  <2>4. OnItsWay(u)'
    BY <1>1, <1>8, <2>2, <2>3 DEF OnItsWay, Hears
  <2>5. OwnErrand(u)'
    <3>1. e # NoErrand
      BY <1>5, NoErrandIs
    <3>2. relation' = relation /\ errand[u].phase \in Answers
      BY <1>1, <1>2 DEF Answers
    <3>3. QED BY <1>5, <1>7, <2>2, <3>1, <3>2 DEF OwnErrand, Answers
  <2>6. QED BY <2>4, <2>5
<1>11. PageInv(v)'
  <2>1. SUFFICES ASSUME ~missed'[v] PROVE OnItsWay(v)' /\ OwnErrand(v)'
    BY DEF PageInv
  <2>2. OnItsWay(v) /\ OwnErrand(v)
    BY <1>1, <1>8, <2>1 DEF PageInv, PagesInv
  <2>3. PICK status : status = Derived(relation, v)
    OBVIOUS
  <2>4. Derived(relation', v) = status
    BY <1>1, <2>3
  <2>5. /\ Hears(v, event)' /\ errand'[Other(v)].phase = "committed" /\ errand[Other(v)].phase = event
        /\ \A n \in {"received", "accepted"} : Hears(v, n)' <=> (Hears(v, n) \/ n = event)
    BY <1>2, <1>3, <1>5, <1>7, <1>8, <2>1
  <2>6. status = Told(event)
    BY <2>2, <2>3, <2>5 DEF OnItsWay
  <2>7. OnItsWay(v)'
    BY <1>1, <2>2, <2>3, <2>4, <2>5, <2>6 DEF OnItsWay
  <2>8. AboutToShow(v) => AboutToShow(v)'
    BY <1>1, <1>2, <2>3, <2>4, <2>5 DEF AboutToShow
  <2>9. errand'[v] = errand[v]
    BY <1>3, <1>7
  <2>10. OwnErrand(v)'
    BY <1>1, <2>2, <2>3, <2>4, <2>8, <2>9 DEF OwnErrand
  <2>11. QED BY <2>7, <2>10
<1>12. FriendshipAgreed'
  BY <1>1 DEF FriendsInv, FriendshipAgreed
<1>13. QED BY <1>3, <1>9, <1>10, <1>11, <1>12 DEF FriendsInv, PagesInv

\* A change is committed: to whoever has not missed it nothing older is coming,
\* and the other saw the rows as they were, and is told of what is new.
LEMMA CommittedSets ==
    ASSUME FriendsInv, NEW u \in Pair, On(u, "sent"), errand[u].op \in Clicks,
           NEW pairs \in [Pair -> RelationRows], NEW want \in [Pair -> BOOLEAN],
           NEW tell \in {"nothing", "received", "accepted"}, Committed(u, pairs, tell, want),
           NEW v \in Pair, v = Other(u)
    PROVE  /\ FriendsTypeOK'
           /\ relation' = pairs /\ agreed' = want
           /\ errand'[u].phase = (IF tell = "nothing" THEN "committed" ELSE tell)
           /\ errand'[u].op = errand[u].op /\ errand'[u] # NoErrand
           /\ \A x \in Pair :
                 /\ UNCHANGED <<page[x], news[x], profiles[x]>>
                 /\ x # u => errand'[x] = errand[x]
                 /\ ~missed'[x] => /\ ~missed[x] /\ news[x] = <<>> /\ profiles[x] = {}
                                   /\ errand[Other(x)].phase \notin {"received", "accepted"}
           /\ ~missed'[v] =>
                 /\ errand[v].phase \notin Answers \cup {"read"} /\ OwnErrand(v)
                 /\ tell = "accepted" => relation[v] # "BLOCKED"
                 /\ tell = "nothing" => Derived(pairs, v) = Derived(relation, v)
                 /\ AboutToShow(v) => page[v] = Derived(relation, v)
<1>1. /\ FriendsTypeOK /\ PagesInv /\ errand \in [Pair -> Errands] /\ errand[u] \in Errands
      /\ missed \in [Pair -> BOOLEAN] /\ UNCHANGED <<page, news, profiles>>
      /\ relation' = pairs /\ agreed' = want /\ errand[u].phase = "sent"
  BY DEF FriendsInv, FriendsTypeOK, Committed, On
<1>2. v # u /\ Other(v) = u /\ \A x \in Pair : x = u \/ x = v
  BY TheOther
<1>3. PICK ph \in Answers : ph = IF tell = "nothing" THEN "committed" ELSE tell
  BY DEF Answers
<1>4. PICK e : e = [errand[u] EXCEPT !.phase = ph, !.got = "NONE"]
  OBVIOUS
<1>5. e \in Errands /\ e.phase = ph /\ e.op = errand[u].op
  BY <1>1, <1>4 DEF Errands, Statuses
<1>6. errand' = [errand EXCEPT ![u] = e]
  BY <1>1, <1>3, <1>4 DEF Committed, Result
<1>7. /\ errand' \in [Pair -> Errands] /\ errand'[u] = e
      /\ \A x \in Pair : x # u => errand'[x] = errand[x]
  BY <1>1, <1>5, <1>6, ErrandSet
<1>8. missed' = Misses(u, pairs, tell)
  BY DEF Committed
<1>9. missed' \in [Pair -> BOOLEAN]
  BY <1>1, <1>8 DEF Misses, Coming
<1>10. FriendsTypeOK'
  <2>1. \A x \in Pair : errand'[x].phase \in Answers => errand'[x].op \in Clicks
    BY <1>1, <1>5, <1>7 DEF FriendsTypeOK
  <2>2. QED BY <1>1, <1>7, <1>9, <2>1 DEF FriendsTypeOK
<1>11. ASSUME NEW x \in Pair, ~missed'[x]
       PROVE  /\ ~missed[x] /\ news[x] = <<>> /\ profiles[x] = {}
              /\ errand[Other(x)].phase \notin {"received", "accepted"}
  <2>1. ~missed[x] /\ ~Coming(x)
    BY <1>8, <1>11 DEF Misses
  <2>2. QED BY <2>1 DEF Coming
<1>12. ASSUME ~missed'[v]
       PROVE  /\ errand[v].phase \notin Answers \cup {"read"} /\ OwnErrand(v)
              /\ tell = "accepted" => relation[v] # "BLOCKED"
              /\ tell = "nothing" => Derived(pairs, v) = Derived(relation, v)
              /\ AboutToShow(v) => page[v] = Derived(relation, v)
  <2>1. /\ ~Underway(v) /\ (tell = "accepted" => relation[v] # "BLOCKED")
        /\ tell = "nothing" => Derived(pairs, v) = Derived(relation, v)
    BY <1>2, <1>8, <1>12 DEF Misses
  <2>2. errand[v].phase \notin Answers \cup {"read"}
    BY <2>1 DEF Underway, Answers
  <2>3. news[v] = <<>> /\ profiles[v] = {} /\ errand[u].phase = "sent"
    BY <1>1, <1>11, <1>12
  <2>4. ~Hears(v, "received") /\ ~Hears(v, "accepted")
    BY <2>3 DEF Hears
  <2>5. AboutToShow(v) => page[v] = Derived(relation, v)
    BY <1>2, <2>3, <2>4 DEF AboutToShow
  <2>6. OwnErrand(v)
    BY <1>1, <1>11, <1>12 DEF PagesInv, PageInv
  <2>7. QED BY <2>1, <2>2, <2>5, <2>6
<1>13. errand'[u].phase = (IF tell = "nothing" THEN "committed" ELSE tell) /\ errand'[u] # NoErrand
  BY <1>3, <1>5, <1>7, NoErrandIs DEF Answers
<1>14. QED BY <1>1, <1>5, <1>7, <1>10, <1>11, <1>12, <1>13

\* A change of the rows that is told as it is, and applied as it is.
LEMMA CommittedKeeps ==
    ASSUME FriendsInv, NEW u \in Pair, On(u, "sent"), errand[u].op \in Clicks,
           NEW pairs \in [Pair -> RelationRows], NEW want \in [Pair -> BOOLEAN],
           NEW tell \in {"nothing", "received", "accepted"}, Committed(u, pairs, tell, want),
           ~missed[u] /\ errand[u].op # "unblock" => Asked(errand[u].op) = Derived(pairs, u),
           NEW v \in Pair, v = Other(u), pairs[v] = "BLOCKED" => relation[v] = "BLOCKED",
           tell = "received" => relation[v] # "BLOCKED",
           relation[v] # "BLOCKED" /\ tell # "nothing" =>
              /\ Derived(pairs, v) = Told(tell)
              /\ \/ Derived(pairs, v) = Derived(relation, v)
                 \/ tell = "received" /\ Derived(relation, v) = "NONE"
                 \/ tell = "accepted" /\ Derived(relation, v) # "NONE",
           \A x \in Pair :
              /\ pairs[x] = "ACCEPTED" => pairs[Other(x)] # "NONE" /\ want[x]
              /\ pairs[x] = "PENDING_APPROVAL" => pairs[Other(x)] \in {"ACCEPTED", "BLOCKED"}
    PROVE  FriendsInv'
<1>1. /\ FriendsTypeOK' /\ relation' = pairs /\ agreed' = want
      /\ errand'[u].phase = (IF tell = "nothing" THEN "committed" ELSE tell)
      /\ errand'[u].op = errand[u].op /\ errand'[u] # NoErrand
      /\ \A x \in Pair :
            /\ UNCHANGED <<page[x], news[x], profiles[x]>>
            /\ x # u => errand'[x] = errand[x]
            /\ ~missed'[x] => /\ ~missed[x] /\ news[x] = <<>> /\ profiles[x] = {}
                              /\ errand[Other(x)].phase \notin {"received", "accepted"}
      /\ ~missed'[v] =>
            /\ errand[v].phase \notin Answers \cup {"read"} /\ OwnErrand(v)
            /\ tell = "accepted" => relation[v] # "BLOCKED"
            /\ tell = "nothing" => Derived(pairs, v) = Derived(relation, v)
            /\ AboutToShow(v) => page[v] = Derived(relation, v)
  BY CommittedSets
<1>2. v # u /\ Other(v) = u /\ Other(u) = v /\ \A x \in Pair : x = u \/ x = v
  BY TheOther
<1>3. FriendshipAgreed'
  BY <1>1 DEF FriendshipAgreed
<1>4. PageInv(u)'
  <2>1. SUFFICES ASSUME ~missed'[u] PROVE OnItsWay(u)' /\ OwnErrand(u)'
    BY DEF PageInv
  <2>2. /\ errand'[v].phase \notin {"received", "accepted"}
        /\ news'[u] = <<>> /\ profiles'[u] = {} /\ ~missed[u]
    BY <1>1, <1>2, <2>1
  <2>3. \A event : ~Hears(u, event)'
    BY <2>2 DEF Hears
  <2>4. OnItsWay(u)'
    BY <1>2, <2>2, <2>3 DEF OnItsWay
  <2>5. OwnErrand(u)'
    BY <1>1, <2>2 DEF OwnErrand, Answers
  <2>6. QED BY <2>4, <2>5
<1>5. PageInv(v)'
  <2>1. SUFFICES ASSUME ~missed'[v] PROVE OnItsWay(v)' /\ OwnErrand(v)'
    BY DEF PageInv
  <2>2. /\ errand'[v] = errand[v] /\ news'[v] = <<>> /\ profiles'[v] = {} /\ page'[v] = page[v]
        /\ errand[v].phase \notin Answers \cup {"read"} /\ OwnErrand(v)
        /\ tell # "nothing" => relation[v] # "BLOCKED"
        /\ tell = "nothing" => Derived(pairs, v) = Derived(relation, v)
        /\ AboutToShow(v) => page[v] = Derived(relation, v)
        /\ errand'[Other(v)].phase = IF tell = "nothing" THEN "committed" ELSE tell
    BY <1>1, <1>2, <2>1
  <2>3. \A event : ~Hears(v, event)'
    BY <2>2 DEF Hears
  <2>4. PICK status, before : status = Derived(pairs, v) /\ before = Derived(relation, v)
    OBVIOUS
  <2>5. /\ Derived(relation', v) = status
        /\ tell # "nothing" => /\ status = Told(tell)
                               /\ \/ status = before
                                  \/ tell = "received" /\ before = "NONE"
                                  \/ tell = "accepted" /\ before # "NONE"
        /\ tell = "nothing" => status = before
        /\ AboutToShow(v) => page'[v] = before
    BY <1>1, <2>2, <2>4
  <2>6. OnItsWay(v)'
    BY <2>2, <2>3, <2>5 DEF OnItsWay
  <2>7. AboutToShow(v) => AboutToShow(v)'
    <3>1. CASE tell = "nothing"
      BY <2>5, <3>1 DEF AboutToShow
    <3>2. CASE tell # "nothing"
      <4>1. errand'[Other(v)].phase = tell
        BY <2>2, <3>2
      <4>2. QED BY <2>5, <3>2, <4>1 DEF AboutToShow, Told
    <3>3. QED BY <3>1, <3>2
  <2>8. OwnErrand(v)'
    <3>1. errand[v].phase = "sent" /\ errand[v].op \in {"accept", "remove"} => relation'[v] # "BLOCKED"
      BY <1>1, <2>2 DEF OwnErrand
    <3>2. errand[v] = NoErrand \/ (errand[v].phase = "sent" /\ errand[v].op # "load") => AboutToShow(v)'
      BY <2>2, <2>7 DEF OwnErrand
    <3>3. QED BY <2>2, <3>1, <3>2 DEF OwnErrand
  <2>9. QED BY <2>6, <2>8
<1>6. QED BY <1>1, <1>2, <1>3, <1>4, <1>5 DEF FriendsInv, PagesInv

\* What a sent request finds.
LEMMA SentRequest ==
    ASSUME FriendsInv, NEW u \in Pair, On(u, "sent")
    PROVE  /\ relation \in [Pair -> RelationRows] /\ agreed \in [Pair -> BOOLEAN]
           /\ relation[u] \in RelationRows /\ relation[Other(u)] \in RelationRows
           /\ ~missed[u] /\ errand[u].op \in {"accept", "remove"} => relation[u] # "BLOCKED"
           /\ \A x \in Pair :
                 /\ relation[x] = "ACCEPTED" => relation[Other(x)] # "NONE" /\ agreed[x]
                 /\ relation[x] = "PENDING_APPROVAL" => relation[Other(x)] \in {"ACCEPTED", "BLOCKED"}
<1>1. relation \in [Pair -> RelationRows] /\ agreed \in [Pair -> BOOLEAN] /\ FriendshipAgreed /\ PageInv(u)
  BY DEF FriendsInv, FriendsTypeOK, PagesInv
<1>2. relation[u] \in RelationRows /\ relation[Other(u)] \in RelationRows
  BY <1>1, TheOther
<1>3. ~missed[u] /\ errand[u].op \in {"accept", "remove"} => relation[u] # "BLOCKED"
  BY <1>1 DEF PageInv, OwnErrand, On
<1>4. QED BY <1>1, <1>2, <1>3 DEF FriendshipAgreed

\* A request for friendship.
LEMMA CreateStep == ASSUME FriendsInv, NEW u \in Pair, Create(u) PROVE FriendsInv'
<1>1. On(u, "sent") /\ errand[u].op = "create" /\ "create" \in Clicks
  BY DEF Create, Clicks
<1>2. PICK v \in Pair : v = Other(u) /\ v # u /\ Other(v) = u /\ \A x \in Pair : x = u \/ x = v
  BY TheOther
<1>3. relation[u] # "BLOCKED" /\ relation[v] # "ACCEPTED"
  BY <1>2 DEF Create
<1>4. CASE relation[v] = "BLOCKED"
  <2>1. /\ FriendsTypeOK /\ errand \in [Pair -> Errands] /\ errand[u] \in Errands /\ missed \in [Pair -> BOOLEAN]
        /\ errand[u].phase = "sent"
    BY <1>1 DEF FriendsInv, FriendsTypeOK, On
  <2>2. /\ missed' = [missed EXCEPT ![u] = TRUE] /\ Result(u, "committed", "NONE")
        /\ UNCHANGED <<relation, page, news, profiles, agreed>>
    BY <1>2, <1>4 DEF Create
  <2>3. PICK e : e = [errand[u] EXCEPT !.phase = "committed", !.got = "NONE"]
    OBVIOUS
  <2>4. e \in Errands /\ e.phase = "committed" /\ e.op = "create"
    BY <1>1, <2>1, <2>3 DEF Errands, Statuses, Answers
  <2>5. errand' = [errand EXCEPT ![u] = e]
    BY <2>1, <2>2, <2>3 DEF Result
  <2>6. /\ errand' \in [Pair -> Errands] /\ errand'[u] = e
        /\ \A x \in Pair : x # u => errand'[x] = errand[x]
    BY <2>1, <2>4, <2>5, ErrandSet
  <2>7. missed' \in [Pair -> BOOLEAN] /\ missed'[u] /\ \A x \in Pair : x # u => missed'[x] = missed[x]
    BY <2>1, <2>2
  <2>8. FriendsTypeOK'
    BY <1>1, <2>1, <2>2, <2>4, <2>6, <2>7 DEF FriendsTypeOK
  <2>9. PageInv(u)'
    BY <2>7 DEF PageInv
  <2>10. errand'[u].phase = "committed"
    BY <2>4, <2>6
  <2>11. QED BY <2>1, <2>2, <2>6, <2>7, <2>8, <2>9, <2>10, Alone
<1>5. CASE relation[v] # "BLOCKED"
  <2>1. PICK pairs : pairs = [x \in Pair |-> IF relation[x] # "NONE" THEN relation[x]
                                           ELSE IF x = u THEN "ACCEPTED" ELSE "PENDING_APPROVAL"]
    OBVIOUS
  <2>2. PICK want : want = [agreed EXCEPT ![u] = TRUE]
    OBVIOUS
  <2>3. Committed(u, pairs, "received", want)
    BY <1>2, <1>5, <2>1, <2>2 DEF Create
  <2>4. relation[v] \in {"NONE", "PENDING_APPROVAL"} /\ relation[u] \in {"NONE", "ACCEPTED"}
    BY <1>1, <1>2, <1>3, <1>5, SentRequest DEF RelationRows
  <2>5. /\ pairs \in [Pair -> RelationRows] /\ pairs[u] = "ACCEPTED" /\ pairs[v] = "PENDING_APPROVAL"
    BY <1>1, <1>2, <2>1, <2>4, SentRequest DEF RelationRows
  <2>6. want \in [Pair -> BOOLEAN] /\ want[u]
    BY <1>1, <2>2, SentRequest
  <2>7. Asked("create") = Derived(pairs, u)
    BY <1>2, <2>5, StatusOf DEF Asked
  <2>8. Derived(pairs, v) = "PENDING_INCOMING"
    BY <1>2, <2>5, StatusOf
  <2>9. Derived(relation, v) \in {"NONE", "PENDING_INCOMING"}
    <3>1. relation \in [Pair -> RelationRows]
      BY <1>1, SentRequest
    <3>2. relation[v] = "PENDING_APPROVAL" => relation[u] = "ACCEPTED"
      BY <1>1, <1>2, <2>4, SentRequest
    <3>3. QED BY <1>2, <2>4, <3>1, <3>2, StatusOf
  <2>10. \A x \in Pair :
            /\ pairs[x] = "ACCEPTED" => pairs[Other(x)] # "NONE" /\ want[x]
            /\ pairs[x] = "PENDING_APPROVAL" => pairs[Other(x)] \in {"ACCEPTED", "BLOCKED"}
    BY <1>2, <2>5, <2>6
  <2>11. "received" \in {"nothing", "received", "accepted"} /\ Told("received") = "PENDING_INCOMING"
    BY DEF Told
  <2>12. PICK tell \in {"nothing", "received", "accepted"} : tell = "received"
    BY <2>11
  <2>13. Committed(u, pairs, tell, want)
    BY <2>3, <2>12
  <2>14. ~missed[u] /\ errand[u].op # "unblock" => Asked(errand[u].op) = Derived(pairs, u)
    BY <1>1, <2>7
  <2>15. relation[v] # "BLOCKED" /\ tell # "nothing" =>
            /\ Derived(pairs, v) = Told(tell)
            /\ \/ Derived(pairs, v) = Derived(relation, v)
               \/ tell = "received" /\ Derived(relation, v) = "NONE"
               \/ tell = "accepted" /\ Derived(relation, v) # "NONE"
    BY <2>8, <2>9, <2>11, <2>12
  <2>16. QED BY <1>1, <1>2, <1>5, <2>5, <2>6, <2>10, <2>13, <2>14, <2>15, CommittedKeeps
<1>6. QED BY <1>4, <1>5

\* A friendship is removed.
LEMMA RemoveBothStep == ASSUME FriendsInv, NEW u \in Pair, RemoveBoth(u) PROVE FriendsInv'
<1>1. On(u, "sent") /\ errand[u].op = "remove" /\ errand[u].op \in Clicks
  BY DEF RemoveBoth, Clicks
<1>2. PICK v \in Pair : v = Other(u) /\ v # u /\ Other(v) = u /\ \A x \in Pair : x = u \/ x = v
  BY TheOther
<1>3. PICK pairs : pairs = [x \in Pair |-> IF relation[x] = "BLOCKED" THEN "BLOCKED" ELSE "NONE"]
  OBVIOUS
<1>4. PICK want : want = [x \in Pair |-> FALSE]
  OBVIOUS
<1>5. PICK tell \in {"nothing", "received", "accepted"} : tell = "nothing"
  OBVIOUS
<1>6. Committed(u, pairs, tell, want)
  BY <1>3, <1>4, <1>5 DEF RemoveBoth
<1>7. /\ pairs \in [Pair -> RelationRows] /\ want \in [Pair -> BOOLEAN]
      /\ \A x \in Pair : pairs[x] \in {"NONE", "BLOCKED"}
      /\ relation[u] # "BLOCKED" => pairs[u] = "NONE"
      /\ pairs[v] = "BLOCKED" => relation[v] = "BLOCKED"
  BY <1>3, <1>4 DEF RelationRows
<1>8. ~missed[u] /\ errand[u].op # "unblock" => Asked(errand[u].op) = Derived(pairs, u)
  <2>1. ~missed[u] => pairs[u] = "NONE"
    BY <1>1, <1>7, SentRequest
  <2>2. pairs[u] = "NONE" => Derived(pairs, u) = "NONE"
    BY <1>7, StatusOf
  <2>3. Asked(errand[u].op) = "NONE"
    BY <1>1 DEF Asked
  <2>4. QED BY <2>1, <2>2, <2>3
<1>9. \A x \in Pair :
         /\ pairs[x] = "ACCEPTED" => pairs[Other(x)] # "NONE" /\ want[x]
         /\ pairs[x] = "PENDING_APPROVAL" => pairs[Other(x)] \in {"ACCEPTED", "BLOCKED"}
  BY <1>7
<1>10. QED BY <1>1, <1>2, <1>5, <1>6, <1>7, <1>8, <1>9, CommittedKeeps

\* A request is accepted, somebody is unblocked or blocked.
LEMMA UpdateStep == ASSUME FriendsInv, NEW u \in Pair, Update(u) PROVE FriendsInv'
<1>1. On(u, "sent") /\ errand[u].op \in {"accept", "unblock", "block"} /\ errand[u].op \in Clicks
  BY DEF Update, Clicks
<1>2. PICK v \in Pair : v = Other(u) /\ v # u /\ Other(v) = u /\ \A x \in Pair : x = u \/ x = v
  BY TheOther
<1>3. /\ relation \in [Pair -> RelationRows] /\ agreed \in [Pair -> BOOLEAN]
      /\ relation[u] \in RelationRows /\ relation[v] \in RelationRows
      /\ ~missed[u] /\ errand[u].op \in {"accept", "remove"} => relation[u] # "BLOCKED"
      /\ relation[v] = "ACCEPTED" => relation[u] # "NONE" /\ agreed[v]
      /\ relation[v] = "PENDING_APPROVAL" => relation[u] \in {"ACCEPTED", "BLOCKED"}
      /\ relation[u] = "PENDING_APPROVAL" => relation[v] \in {"ACCEPTED", "BLOCKED"}
  BY <1>1, <1>2, SentRequest
<1>4. CASE /\ errand[u].op \in {"accept", "unblock"} /\ relation[u] = "PENDING_APPROVAL"
           /\ Committed(u, [relation EXCEPT ![u] = "ACCEPTED"], "accepted", [agreed EXCEPT ![u] = TRUE])
  <2>1. PICK pairs : pairs = [relation EXCEPT ![u] = "ACCEPTED"]
    OBVIOUS
  <2>2. PICK want : want = [agreed EXCEPT ![u] = TRUE]
    OBVIOUS
  <2>3. PICK tell \in {"nothing", "received", "accepted"} : tell = "accepted"
    OBVIOUS
  <2>4. /\ pairs \in [Pair -> RelationRows] /\ pairs[u] = "ACCEPTED" /\ pairs[v] = relation[v]
        /\ want \in [Pair -> BOOLEAN] /\ want[u] /\ want[v] = agreed[v]
    BY <1>2, <1>3, <2>1, <2>2 DEF RelationRows
  <2>5. Committed(u, pairs, tell, want)
    BY <1>4, <2>1, <2>2, <2>3
  <2>6. Derived(pairs, u) = "ACCEPTED"
    BY <1>2, <1>3, <1>4, <2>4, StatusOf
  <2>7. ~missed[u] /\ errand[u].op # "unblock" => Asked(errand[u].op) = Derived(pairs, u)
    BY <1>4, <2>6 DEF Asked
  <2>8. relation[v] # "BLOCKED" => Derived(pairs, v) = "ACCEPTED" /\ Derived(relation, v) = "PENDING_OUTGOING"
    BY <1>2, <1>3, <1>4, <2>4, StatusOf
  <2>9. relation[v] # "BLOCKED" /\ tell # "nothing" =>
            /\ Derived(pairs, v) = Told(tell)
            /\ \/ Derived(pairs, v) = Derived(relation, v)
               \/ tell = "received" /\ Derived(relation, v) = "NONE"
               \/ tell = "accepted" /\ Derived(relation, v) # "NONE"
    BY <2>3, <2>8 DEF Told
  <2>10. \A x \in Pair :
            /\ pairs[x] = "ACCEPTED" => pairs[Other(x)] # "NONE" /\ want[x]
            /\ pairs[x] = "PENDING_APPROVAL" => pairs[Other(x)] \in {"ACCEPTED", "BLOCKED"}
    BY <1>2, <1>3, <1>4, <2>4
  <2>11. QED BY <1>1, <1>2, <2>3, <2>4, <2>5, <2>7, <2>9, <2>10, CommittedKeeps
<1>5. CASE /\ errand[u].op \in {"accept", "unblock"} /\ relation[u] = "BLOCKED"
           /\ Committed(u, Unblocked(u), "nothing",
                        [agreed EXCEPT ![u] = relation[Other(u)] \notin {"NONE", "BLOCKED"}])
  <2>1. PICK row : row = IF relation[v] \in {"NONE", "BLOCKED"} THEN "NONE" ELSE "ACCEPTED"
    OBVIOUS
  <2>2. PICK pairs : pairs = [relation EXCEPT ![u] = row]
    OBVIOUS
  <2>3. PICK b \in BOOLEAN : b = (relation[v] \notin {"NONE", "BLOCKED"})
    OBVIOUS
  <2>4. PICK want : want = [agreed EXCEPT ![u] = b]
    OBVIOUS
  <2>5. PICK tell \in {"nothing", "received", "accepted"} : tell = "nothing"
    OBVIOUS
  <2>6. /\ pairs \in [Pair -> RelationRows] /\ pairs[u] = row /\ pairs[v] = relation[v]
        /\ want \in [Pair -> BOOLEAN] /\ want[u] = b /\ want[v] = agreed[v]
    BY <1>2, <1>3, <2>1, <2>2, <2>3, <2>4 DEF RelationRows
  <2>7. Committed(u, pairs, tell, want)
    <3>1. pairs = Unblocked(u)
      BY <1>2, <2>1, <2>2 DEF Unblocked
    <3>2. want = [agreed EXCEPT ![u] = relation[Other(u)] \notin {"NONE", "BLOCKED"}]
      BY <1>2, <2>3, <2>4
    <3>3. QED BY <1>5, <2>5, <3>1, <3>2
  <2>8. ~missed[u] /\ errand[u].op # "unblock" => Asked(errand[u].op) = Derived(pairs, u)
    BY <1>3, <1>5
  <2>9. \A x \in Pair :
            /\ pairs[x] = "ACCEPTED" => pairs[Other(x)] # "NONE" /\ want[x]
            /\ pairs[x] = "PENDING_APPROVAL" => pairs[Other(x)] \in {"ACCEPTED", "BLOCKED"}
    <3>1. pairs[u] = "ACCEPTED" => pairs[v] # "NONE" /\ want[u]
      BY <2>1, <2>3, <2>6
    <3>2. pairs[u] # "PENDING_APPROVAL"
      BY <2>1, <2>6
    <3>3. pairs[v] = "ACCEPTED" => pairs[u] # "NONE" /\ want[v]
      BY <1>3, <2>1, <2>6
    <3>4. pairs[v] = "PENDING_APPROVAL" => pairs[u] \in {"ACCEPTED", "BLOCKED"}
      BY <2>1, <2>6
    <3>5. QED BY <1>2, <3>1, <3>2, <3>3, <3>4
  <2>10. QED BY <1>1, <1>2, <2>5, <2>6, <2>7, <2>8, <2>9, CommittedKeeps
<1>6. CASE /\ errand[u].op = "block" /\ relation[u] # "BLOCKED"
           /\ Committed(u, [relation EXCEPT ![u] = "BLOCKED"], "nothing", [agreed EXCEPT ![u] = FALSE])
  <2>1. PICK pairs : pairs = [relation EXCEPT ![u] = "BLOCKED"]
    OBVIOUS
  <2>2. PICK want : want = [agreed EXCEPT ![u] = FALSE]
    OBVIOUS
  <2>3. PICK tell \in {"nothing", "received", "accepted"} : tell = "nothing"
    OBVIOUS
  <2>4. /\ pairs \in [Pair -> RelationRows] /\ pairs[u] = "BLOCKED" /\ pairs[v] = relation[v]
        /\ want \in [Pair -> BOOLEAN] /\ want[v] = agreed[v]
    BY <1>2, <1>3, <2>1, <2>2 DEF RelationRows
  <2>5. Committed(u, pairs, tell, want)
    BY <1>6, <2>1, <2>2, <2>3
  <2>6. Derived(pairs, u) = "BLOCKED"
    BY <2>4, StatusOf
  <2>7. ~missed[u] /\ errand[u].op # "unblock" => Asked(errand[u].op) = Derived(pairs, u)
    BY <1>6, <2>6 DEF Asked
  <2>8. \A x \in Pair :
            /\ pairs[x] = "ACCEPTED" => pairs[Other(x)] # "NONE" /\ want[x]
            /\ pairs[x] = "PENDING_APPROVAL" => pairs[Other(x)] \in {"ACCEPTED", "BLOCKED"}
    BY <1>2, <1>3, <2>4
  <2>9. QED BY <1>1, <1>2, <2>3, <2>4, <2>5, <2>7, <2>8, CommittedKeeps
<1>7. QED BY <1>4, <1>5, <1>6 DEF Update

\* Two people who are nothing to each other.
LEMMA FriendsBegin == FriendsInit => FriendsInv
<1>1. SUFFICES ASSUME FriendsInit PROVE FriendsInv
  OBVIOUS
<1>2. FriendsTypeOK
  <2>1. <<>> \in Seq({"received", "accepted"})
    OBVIOUS
  <2>2. QED BY <1>1, <2>1, NoErrandIs DEF FriendsInit, FriendsTypeOK, RelationRows, Statuses, Answers
<1>3. FriendshipAgreed
  BY <1>1 DEF FriendsInit, FriendshipAgreed
<1>4. ASSUME NEW u \in Pair PROVE PageInv(u)
  <2>1. Other(u) \in Pair
    BY TheOther
  <2>2. /\ relation \in [Pair -> RelationRows] /\ relation[u] = "NONE" /\ page[u] = "NONE"
        /\ errand[u] = NoErrand /\ errand[Other(u)] = NoErrand /\ news[u] = <<>> /\ profiles[u] = {}
    BY <1>1, <2>1 DEF FriendsInit, RelationRows
  <2>3. Derived(relation, u) = "NONE"
    BY <2>2, StatusOf
  <2>4. \A event : ~Hears(u, event)
    BY <2>2 DEF Hears
  <2>5. OnItsWay(u)
    BY <2>2, <2>4, NoErrandIs DEF OnItsWay
  <2>6. OwnErrand(u)
    BY <2>2, <2>3, NoErrandIs DEF OwnErrand, AboutToShow, Answers
  <2>7. QED BY <2>5, <2>6 DEF PageInv
<1>5. QED BY <1>2, <1>3, <1>4 DEF FriendsInv, PagesInv

LEMMA FriendsKeep == FriendsInv /\ [FriendsNext]_friends => FriendsInv'
<1>1. SUFFICES ASSUME FriendsInv, [FriendsNext]_friends PROVE FriendsInv'
  OBVIOUS
<1>2. CASE UNCHANGED friends
  <2>1. UNCHANGED <<relation, page, errand, news, profiles, agreed, missed>>
    BY <1>2 DEF friends
  <2>2. FriendsTypeOK' /\ FriendshipAgreed'
    BY <1>1, <2>1 DEF FriendsInv, FriendsTypeOK, FriendshipAgreed
  <2>3. ASSUME NEW u \in Pair PROVE PageInv(u)'
    BY <1>1, <2>1, Unconcerned DEF FriendsInv, PagesInv
  <2>4. QED BY <2>2, <2>3 DEF FriendsInv, PagesInv
<1>3. QED
  BY <1>1, <1>2, ClickStep, LoadStep, CreateStep, UpdateStep, RemoveBothStep, TellStep, RefuseStep,
     ReadRowsStep, ReplyStep, LoseAnswerStep, HearStep, ShowProfileStep, LoseProfileStep
  DEF FriendsNext

\* The rows of two people, who wanted what, and all that is on its way to their
\* pages, for every state.
THEOREM FriendsInvariant == FriendsSpec => []FriendsInv
<1>1. QED BY FriendsBegin, FriendsKeep, PTL DEF FriendsSpec

\* Nobody is a friend without having asked, accepted or unblocked
\* (user-relationships.service.ts), and a page at rest shows the rows unless it
\* missed a change, an event or an answer (friends.tsx, useFriendsRealtime.ts).
THEOREM FriendshipsAreShown == FriendsSpec => []FriendshipShown
<1>1. ASSUME FriendsInv PROVE FriendshipShown
  <2>1. ASSUME NEW u \in Pair, ~missed[u],
               \A v \in Pair : errand[v] = NoErrand /\ news[v] = <<>> /\ profiles[v] = {}
        PROVE  page[u] = Derived(relation, u)
    <3>1. Other(u) \in Pair
      BY TheOther
    <3>2. AboutToShow(u)
      BY <1>1, <2>1 DEF FriendsInv, PagesInv, PageInv, OwnErrand
    <3>3. ~Hears(u, "received") /\ ~Hears(u, "accepted")
      BY <2>1 DEF Hears
    <3>4. QED BY <2>1, <3>1, <3>2, <3>3, NoErrandIs DEF AboutToShow
  <2>2. QED BY <1>1, <2>1 DEF FriendsInv, FriendshipShown, PageShowsRows
<1>2. QED BY <1>1, FriendsInvariant, PTL

-----------------------------------------------------------------------------
(* The task board.                                                         *)

BoardRows == [Tasks -> Place \cup {Unset}]

\* The ranks of the tasks S, a whole column, are 0..n-1, each once.
DenseOn(r, S) ==
    \A t \in S : /\ r[t].rank < Cardinality(S)
                 /\ \A u \in S : r[u].rank = r[t].rank => u = t

RanksDense(r) == IsFiniteSet(Live(r)) /\ \A c \in Columns : DenseOn(r, InColumn(r, c))

\* Where a task that is live is.
LEMMA PlaceOfRow ==
    ASSUME NEW r \in BoardRows, NEW t \in Tasks
    PROVE  /\ r[t] = Unset \/ (r[t] \in Place /\ r[t].status \in Columns /\ r[t].rank \in Nat)
           /\ t \in Live(r) <=> r[t] # Unset
           /\ t \in Live(r) <=> r[t] \in Place
  BY UnsetAssumption DEF BoardRows, Place, Live

\* A column has finitely many cards, and how many when one is left out.
LEMMA ColumnFinite ==
    ASSUME NEW r, IsFiniteSet(Live(r)), NEW c, NEW x
    PROVE  /\ IsFiniteSet(InColumn(r, c)) /\ IsFiniteSet(InColumn(r, c) \ {x})
           /\ Cardinality(InColumn(r, c)) \in Nat /\ Cardinality(InColumn(r, c) \ {x}) \in Nat
           /\ Cardinality(InColumn(r, c) \ {x})
                = IF x \in InColumn(r, c) THEN Cardinality(InColumn(r, c)) - 1 ELSE Cardinality(InColumn(r, c))
<1>1. InColumn(r, c) \subseteq Live(r)
  BY DEF InColumn
<1>2. IsFiniteSet(InColumn(r, c))
  BY <1>1, FS_Subset
<1>3. QED BY <1>2, FS_RemoveElement, FS_CardinalityType

\* closeRankGap moves up what comes after the rank, in this column only.
LEMMA GapClosed ==
    ASSUME NEW r \in BoardRows, NEW c \in Columns, NEW v \in Nat
    PROVE  /\ CloseGap(r, c, v) \in BoardRows
           /\ \A t \in Tasks :
                 CloseGap(r, c, v)[t] = IF t \in InColumn(r, c) /\ r[t].rank > v
                                        THEN [status |-> c, rank |-> r[t].rank - 1] ELSE r[t]
           /\ Live(CloseGap(r, c, v)) = Live(r)
           /\ \A d : InColumn(CloseGap(r, c, v), d) = InColumn(r, d)
<1>. DEFINE R == CloseGap(r, c, v)
<1>1. ASSUME NEW t \in Tasks
      PROVE  /\ R[t] = IF t \in InColumn(r, c) /\ r[t].rank > v
                       THEN [status |-> c, rank |-> r[t].rank - 1] ELSE r[t]
             /\ R[t] \in Place \cup {Unset}
             /\ t \in Live(R) <=> t \in Live(r)
             /\ t \in Live(r) => R[t].status = r[t].status
  <2>1. R[t] = IF t \in InColumn(r, c) /\ r[t].rank > v THEN [r[t] EXCEPT !.rank = @ - 1] ELSE r[t]
    BY DEF CloseGap
  <2>2. CASE t \in InColumn(r, c) /\ r[t].rank > v
    <3>1. t \in Live(r) /\ r[t] \in Place /\ r[t].status = c /\ r[t].rank \in Nat
      BY <2>2, PlaceOfRow DEF InColumn
    <3>2. r[t] = [status |-> c, rank |-> r[t].rank]
      BY <3>1 DEF Place
    <3>3. R[t] = [status |-> c, rank |-> r[t].rank - 1]
      BY <2>1, <2>2, <3>2
    <3>4. R[t] \in Place /\ R[t].status = c
      BY <2>2, <3>1, <3>3 DEF Place
    <3>5. R[t] # Unset
      BY <3>4, UnsetAssumption
    <3>6. QED BY <2>2, <3>1, <3>3, <3>4, <3>5 DEF Live
  <2>3. CASE ~(t \in InColumn(r, c) /\ r[t].rank > v)
    <3>1. R[t] = r[t]
      BY <2>1, <2>3
    <3>2. QED BY <2>3, <3>1, PlaceOfRow DEF Live
  <2>4. QED BY <2>2, <2>3
<1>2. R = [t \in Tasks |-> R[t]]
  BY DEF CloseGap
<1>. HIDE DEF R
<1>3. R \in BoardRows
  BY <1>1, <1>2 DEF BoardRows
<1>4. Live(R) = Live(r)
  BY <1>1 DEF Live
<1>5. ASSUME NEW d PROVE InColumn(R, d) = InColumn(r, d)
  BY <1>1, <1>4 DEF InColumn, Live
<1>6. QED BY <1>1, <1>3, <1>4, <1>5 DEF R

\* openRankSlot moves down what comes from the rank on; then the task is put there.
Put(r, c, k, x, t) == [OpenSlot(r, c, k, x) EXCEPT ![t] = [status |-> c, rank |-> k]]

\* openRankSlot: the card gets the rank, what was there or after it moves down one.
LEMMA SlotOpened ==
    ASSUME NEW r \in BoardRows, NEW c \in Columns, NEW k \in Nat, NEW x, NEW t \in Tasks,
           InColumn(r, c) \ {x} = InColumn(r, c) \ {t}
    PROVE  /\ Put(r, c, k, x, t) \in BoardRows
           /\ Put(r, c, k, x, t)[t] = [status |-> c, rank |-> k]
           /\ \A u \in Tasks \ {t} :
                 Put(r, c, k, x, t)[u] = IF u \in InColumn(r, c) /\ r[u].rank >= k
                                         THEN [status |-> c, rank |-> r[u].rank + 1] ELSE r[u]
           /\ Live(Put(r, c, k, x, t)) = Live(r) \cup {t}
           /\ InColumn(Put(r, c, k, x, t), c) = InColumn(r, c) \cup {t}
           /\ \A d : d # c => InColumn(Put(r, c, k, x, t), d) = InColumn(r, d) \ {t}
<1>. DEFINE O == OpenSlot(r, c, k, x)
            N == Put(r, c, k, x, t)
<1>1. /\ O = [u \in Tasks |-> O[u]]
      /\ \A u \in Tasks : O[u] = IF u \in InColumn(r, c) \ {x} /\ r[u].rank >= k
                                 THEN [r[u] EXCEPT !.rank = @ + 1] ELSE r[u]
  BY DEF OpenSlot
<1>2. N = [O EXCEPT ![t] = [status |-> c, rank |-> k]]
  BY DEF Put
<1>. HIDE DEF O, N
<1>3. /\ N[t] = [status |-> c, rank |-> k] /\ N[t] \in Place /\ N[t] # Unset
      /\ N[t].status = c /\ N = [u \in Tasks |-> N[u]] /\ \A u \in Tasks \ {t} : N[u] = O[u]
  <2>1. [status |-> c, rank |-> k] \in Place
    BY DEF Place
  <2>2. N[t] = [status |-> c, rank |-> k] /\ N = [u \in Tasks |-> N[u]] /\ \A u \in Tasks \ {t} : N[u] = O[u]
    BY <1>1, <1>2
  <2>3. QED BY <2>1, <2>2, UnsetAssumption
<1>4. ASSUME NEW u \in Tasks \ {t}
      PROVE  /\ N[u] = IF u \in InColumn(r, c) /\ r[u].rank >= k
                       THEN [status |-> c, rank |-> r[u].rank + 1] ELSE r[u]
             /\ N[u] \in Place \cup {Unset}
             /\ u \in Live(N) <=> u \in Live(r)
             /\ u \in Live(r) => N[u].status = r[u].status
  <2>1. u \in InColumn(r, c) \ {x} <=> u \in InColumn(r, c)
    OBVIOUS
  <2>2. CASE u \in InColumn(r, c) /\ r[u].rank >= k
    <3>1. u \in Live(r) /\ r[u] \in Place /\ r[u].status = c /\ r[u].rank \in Nat
      BY <2>2, PlaceOfRow DEF InColumn
    <3>2. r[u] = [status |-> c, rank |-> r[u].rank]
      BY <3>1 DEF Place
    <3>3. N[u] = [r[u] EXCEPT !.rank = @ + 1]
      BY <1>1, <1>3, <2>1, <2>2
    <3>4. N[u] = [status |-> c, rank |-> r[u].rank + 1]
      BY <3>2, <3>3
    <3>5. N[u] \in Place /\ N[u].status = c
      BY <3>1, <3>4 DEF Place
    <3>6. N[u] # Unset
      BY <3>5, UnsetAssumption
    <3>7. QED BY <2>2, <3>1, <3>4, <3>5, <3>6 DEF Live
  <2>3. CASE ~(u \in InColumn(r, c) /\ r[u].rank >= k)
    <3>1. N[u] = r[u]
      BY <1>1, <1>3, <2>1, <2>3
    <3>2. QED BY <2>3, <3>1, PlaceOfRow DEF Live
  <2>4. QED BY <2>2, <2>3
<1>5. N \in BoardRows
  BY <1>3, <1>4 DEF BoardRows
<1>6. Live(N) = Live(r) \cup {t}
  BY <1>3, <1>4 DEF Live
<1>7. InColumn(N, c) = InColumn(r, c) \cup {t} /\ \A d : d # c => InColumn(N, d) = InColumn(r, d) \ {t}
  BY <1>3, <1>4, <1>6 DEF InColumn, Live
<1>8. QED BY <1>3, <1>4, <1>5, <1>6, <1>7 DEF N

\* The ranks without x, once its gap is closed, and with t, once its slot is open.
LEMMA DenseWithout ==
    ASSUME NEW r, NEW R, NEW S, IsFiniteSet(S), NEW x \in S, DenseOn(r, S), \A u \in S : r[u].rank \in Nat,
           \A u \in S \ {x} : R[u].rank = IF r[u].rank > r[x].rank THEN r[u].rank - 1 ELSE r[u].rank
    PROVE  DenseOn(R, S \ {x})
<1>1. PICK n \in Nat : n = Cardinality(S)
  BY FS_CardinalityType
<1>2. Cardinality(S \ {x}) = n - 1
  BY <1>1, FS_RemoveElement
<1>3. ASSUME NEW u \in S \ {x}, NEW v \in S \ {x}, R[u].rank = R[v].rank PROVE u = v
  <2>1. r[u].rank # r[x].rank /\ r[v].rank # r[x].rank
    BY DEF DenseOn
  <2>2. r[u].rank = r[v].rank
    BY <1>3, <2>1
  <2>3. QED BY <2>2 DEF DenseOn
<1>4. ASSUME NEW u \in S \ {x} PROVE R[u].rank < n - 1
  <2>1. r[u].rank # r[x].rank /\ r[u].rank < n /\ r[x].rank < n
    BY <1>1 DEF DenseOn
  <2>2. QED BY <1>1, <2>1
<1>5. QED BY <1>2, <1>3, <1>4 DEF DenseOn

\* One more rank in 0..n-1: what is there or after it is counted one further.
LEMMA DenseWith ==
    ASSUME NEW r, NEW N, NEW S, IsFiniteSet(S), NEW t, t \notin S, DenseOn(r, S), \A u \in S : r[u].rank \in Nat,
           NEW k \in Nat, k <= Cardinality(S), N[t].rank = k,
           \A u \in S : N[u].rank = IF r[u].rank >= k THEN r[u].rank + 1 ELSE r[u].rank
    PROVE  DenseOn(N, S \cup {t})
<1>1. PICK n \in Nat : n = Cardinality(S)
  BY FS_CardinalityType
<1>2. Cardinality(S \cup {t}) = n + 1
  BY <1>1, FS_AddElement
<1>3. ASSUME NEW u \in S, NEW v \in S, N[u].rank = N[v].rank PROVE u = v
  <2>1. r[u].rank = r[v].rank
    BY <1>3
  <2>2. QED BY <2>1 DEF DenseOn
<1>4. ASSUME NEW u \in S PROVE N[u].rank < n + 1 /\ N[u].rank # k
  <2>1. r[u].rank < n
    BY <1>1 DEF DenseOn
  <2>2. QED BY <1>1, <2>1
<1>5. QED BY <1>1, <1>2, <1>3, <1>4 DEF DenseOn

\* A rank asked for is clamped to the end of the column.
LEMMA SlotFits ==
    ASSUME NEW r, IsFiniteSet(Live(r)), NEW c, NEW x, NEW wanted \in Nat \cup {Unset}
    PROVE  Slot(r, c, wanted, x) \in Nat /\ Slot(r, c, wanted, x) <= Cardinality(InColumn(r, c) \ {x})
<1>1. PICK n \in Nat : n = Cardinality(InColumn(r, c) \ {x})
  BY ColumnFinite
<1>2. QED BY <1>1 DEF Slot

\* R is r with the card t taken out: the cards below it move up.  N is r with the card t
\* put in at the rank k of the column c: the cards from there on move down.
TakenOut(r, R, t) ==
    /\ R \in BoardRows /\ RanksDense(R)
    /\ Live(R) = Live(r) \ {t} /\ \A d : InColumn(R, d) = InColumn(r, d) \ {t}
    /\ \A u \in Live(r) \ {t} :
          /\ R[u] = [status |-> r[u].status,
                     rank |-> IF r[u].status = r[t].status /\ r[u].rank > r[t].rank
                              THEN r[u].rank - 1 ELSE r[u].rank]
          /\ R[u].status = r[u].status
PutIn(r, N, t, c, k) ==
    /\ N \in BoardRows /\ RanksDense(N)
    /\ Live(N) = Live(r) \cup {t} /\ InColumn(N, c) = InColumn(r, c) \cup {t}
    /\ \A d : d # c => InColumn(N, d) = InColumn(r, d)
    /\ N[t] = [status |-> c, rank |-> k] /\ k \in Nat /\ k <= Cardinality(InColumn(r, c))
    /\ \A u \in Live(r) :
          /\ N[u] = [status |-> r[u].status,
                     rank |-> IF r[u].status = c /\ r[u].rank >= k THEN r[u].rank + 1 ELSE r[u].rank]
          /\ N[u].status = r[u].status

\* Deleting a task takes its card out.
LEMMA DeletedRows ==
    ASSUME NEW r \in BoardRows, RanksDense(r), NEW t \in Live(r)
    PROVE  TakenOut(r, Deleted(r, t), t)
<1>. DEFINE c == r[t].status
            v == r[t].rank
            e == [r EXCEPT ![t] = Unset]
            R == Deleted(r, t)
<1>1. t \in Tasks /\ c \in Columns /\ v \in Nat
  BY PlaceOfRow DEF Live
<1>2. e \in BoardRows /\ e[t] = Unset /\ \A u \in Tasks \ {t} : e[u] = r[u]
  BY <1>1 DEF BoardRows
<1>3. R = CloseGap(e, c, v)
  BY DEF Deleted
<1>. HIDE DEF c, v, e, R
<1>4. Live(e) = Live(r) \ {t} /\ \A d : InColumn(e, d) = InColumn(r, d) \ {t}
  BY <1>1, <1>2 DEF Live, InColumn
<1>5. /\ R \in BoardRows
      /\ \A u \in Tasks : R[u] = IF u \in InColumn(e, c) /\ e[u].rank > v
                                 THEN [status |-> c, rank |-> e[u].rank - 1] ELSE e[u]
      /\ Live(R) = Live(e) /\ \A d : InColumn(R, d) = InColumn(e, d)
  BY <1>1, <1>2, <1>3, GapClosed
<1>6. ASSUME NEW u \in Live(r) \ {t}
      PROVE  /\ R[u] = [status |-> r[u].status,
                        rank |-> IF r[u].status = c /\ r[u].rank > v THEN r[u].rank - 1 ELSE r[u].rank]
             /\ R[u].status = r[u].status
             /\ R[u].rank = IF r[u].status = c /\ r[u].rank > v THEN r[u].rank - 1 ELSE r[u].rank
  <2>1. u \in Tasks /\ e[u] = r[u] /\ r[u] \in Place
    BY <1>2, PlaceOfRow DEF Live
  <2>2. r[u] = [status |-> r[u].status, rank |-> r[u].rank]
    BY <2>1 DEF Place
  <2>3. u \in InColumn(e, c) <=> r[u].status = c
    BY <1>4, <2>1 DEF InColumn
  <2>4. CASE r[u].status = c /\ r[u].rank > v
    BY <1>5, <2>1, <2>3, <2>4
  <2>5. CASE ~(r[u].status = c /\ r[u].rank > v)
    BY <1>5, <2>1, <2>2, <2>3, <2>5
  <2>6. QED BY <2>4, <2>5
<1>7. IsFiniteSet(Live(R))
  BY <1>4, <1>5, FS_RemoveElement DEF RanksDense
<1>8. ASSUME NEW d \in Columns PROVE DenseOn(R, InColumn(R, d))
  <2>1. IsFiniteSet(InColumn(r, d)) /\ DenseOn(r, InColumn(r, d))
    BY ColumnFinite DEF RanksDense
  <2>2. \A u \in InColumn(r, d) : r[u].rank \in Nat /\ r[u].status = d /\ u \in Live(r)
    BY PlaceOfRow DEF InColumn, Live
  <2>3. InColumn(R, d) = InColumn(r, d) \ {t}
    BY <1>4, <1>5
  <2>4. CASE d = c
    <3>1. t \in InColumn(r, d)
      BY <2>4 DEF InColumn, c
    <3>2. \A u \in InColumn(r, d) \ {t} : R[u].rank = IF r[u].rank > r[t].rank THEN r[u].rank - 1 ELSE r[u].rank
      BY <1>6, <2>2, <2>4 DEF v
    <3>3. DenseOn(R, InColumn(r, d) \ {t})
      BY <2>1, <2>2, <3>1, <3>2, DenseWithout
    <3>4. QED BY <2>3, <3>3
  <2>5. CASE d # c
    <3>1. t \notin InColumn(r, d)
      BY <2>5 DEF InColumn, c
    <3>2. InColumn(R, d) = InColumn(r, d) /\ \A u \in InColumn(r, d) : R[u].rank = r[u].rank
      BY <1>6, <2>2, <2>3, <2>5, <3>1
    <3>3. QED BY <2>1, <3>2 DEF DenseOn
  <2>6. QED BY <2>4, <2>5
<1>9. RanksDense(R)
  BY <1>7, <1>8 DEF RanksDense
<1>10. QED BY <1>4, <1>5, <1>6, <1>9 DEF TakenOut, R, c, v

\* Creating a task puts its card in, at the rank asked for or at the end.
LEMMA InsertedRows ==
    ASSUME NEW r \in BoardRows, RanksDense(r), NEW t \in Tasks, t \notin Live(r), NEW c \in Columns,
           NEW wanted \in Nat \cup {Unset}
    PROVE  /\ PutIn(r, Inserted(r, t, c, wanted), t, c, Slot(r, c, wanted, Unset))
           /\ Slot(Inserted(r, t, c, wanted), c, wanted, t) = Slot(r, c, wanted, Unset)
<1>. DEFINE k == Slot(r, c, wanted, Unset)
            N == Inserted(r, t, c, wanted)
<1>1. /\ InColumn(r, c) \ {Unset} = InColumn(r, c) /\ InColumn(r, c) \ {t} = InColumn(r, c)
      /\ InColumn(r, c) \ {Unset} = InColumn(r, c) \ {t}
  BY UnsetAssumption DEF InColumn, Live
<1>2. k \in Nat /\ k <= Cardinality(InColumn(r, c))
  BY <1>1, SlotFits DEF RanksDense
<1>3. N = Put(r, c, k, Unset, t)
  BY DEF Inserted, Put
<1>. HIDE DEF k, N
<1>4. /\ N \in BoardRows
      /\ N[t] = [status |-> c, rank |-> k]
      /\ \A u \in Tasks \ {t} : N[u] = IF u \in InColumn(r, c) /\ r[u].rank >= k
                                       THEN [status |-> c, rank |-> r[u].rank + 1] ELSE r[u]
      /\ Live(N) = Live(r) \cup {t}
      /\ InColumn(N, c) = InColumn(r, c) \cup {t}
      /\ \A d : d # c => InColumn(N, d) = InColumn(r, d) \ {t}
  BY <1>1, <1>2, <1>3, SlotOpened
<1>5. \A d : d # c => InColumn(N, d) = InColumn(r, d)
  BY <1>4 DEF InColumn
<1>6. ASSUME NEW u \in Live(r)
      PROVE  /\ N[u] = [status |-> r[u].status,
                        rank |-> IF r[u].status = c /\ r[u].rank >= k THEN r[u].rank + 1 ELSE r[u].rank]
             /\ N[u].status = r[u].status
             /\ N[u].rank = IF r[u].status = c /\ r[u].rank >= k THEN r[u].rank + 1 ELSE r[u].rank
  <2>1. u \in Tasks \ {t} /\ r[u] \in Place
    BY PlaceOfRow DEF Live
  <2>2. r[u] = [status |-> r[u].status, rank |-> r[u].rank]
    BY <2>1 DEF Place
  <2>3. u \in InColumn(r, c) <=> r[u].status = c
    BY DEF InColumn
  <2>4. CASE r[u].status = c /\ r[u].rank >= k
    BY <1>4, <2>1, <2>3, <2>4
  <2>5. CASE ~(r[u].status = c /\ r[u].rank >= k)
    BY <1>4, <2>1, <2>2, <2>3, <2>5
  <2>6. QED BY <2>4, <2>5
<1>7. IsFiniteSet(Live(N))
  BY <1>4, FS_AddElement DEF RanksDense
<1>8. ASSUME NEW d \in Columns PROVE DenseOn(N, InColumn(N, d))
  <2>1. IsFiniteSet(InColumn(r, d)) /\ DenseOn(r, InColumn(r, d))
    BY ColumnFinite DEF RanksDense
  <2>2. \A u \in InColumn(r, d) : r[u].rank \in Nat /\ r[u].status = d /\ u \in Live(r)
    BY PlaceOfRow DEF InColumn, Live
  <2>3. CASE d = c
    <3>1. t \notin InColumn(r, d) /\ N[t].rank = k /\ InColumn(N, d) = InColumn(r, d) \cup {t}
      BY <1>4, <2>3 DEF InColumn
    <3>2. \A u \in InColumn(r, d) : N[u].rank = IF r[u].rank >= k THEN r[u].rank + 1 ELSE r[u].rank
      BY <1>6, <2>2, <2>3
    <3>3. DenseOn(N, InColumn(r, d) \cup {t})
      BY <1>2, <2>1, <2>2, <2>3, <3>1, <3>2, DenseWith
    <3>4. QED BY <3>1, <3>3
  <2>4. CASE d # c
    <3>1. InColumn(N, d) = InColumn(r, d) /\ \A u \in InColumn(r, d) : N[u].rank = r[u].rank
      BY <1>5, <1>6, <2>2, <2>4
    <3>2. QED BY <2>1, <3>1 DEF DenseOn
  <2>5. QED BY <2>3, <2>4
<1>9. Slot(N, c, wanted, t) = k
  <2>1. InColumn(N, c) \ {t} = InColumn(r, c) \ {Unset}
    BY <1>1, <1>4
  <2>2. QED BY <2>1 DEF Slot, k
<1>10. RanksDense(N)
  BY <1>7, <1>8 DEF RanksDense
<1>11. PutIn(r, N, t, c, k)
  BY <1>2, <1>4, <1>5, <1>6, <1>10 DEF PutIn
<1>12. QED BY <1>9, <1>11 DEF N, k

\* A move is a card taken out and put in.
LEMMA MovedRows ==
    ASSUME NEW r \in BoardRows, RanksDense(r), NEW t \in Live(r), NEW to \in Columns \cup {Unset},
           NEW wanted \in Nat \cup {Unset}
    PROVE  /\ Target(r, t, to) \in Columns
           /\ Moved(r, t, to, wanted) = Inserted(Deleted(r, t), t, Target(r, t, to), wanted)
<1>. DEFINE c == r[t].status
            v == r[t].rank
            d == Target(r, t, to)
            C == CloseGap(r, c, v)
            D == Deleted(r, t)
            k == Slot(C, d, wanted, t)
<1>1. t \in Tasks /\ c \in Columns /\ v \in Nat /\ d \in Columns
  BY PlaceOfRow DEF Live, Target
<1>2. /\ C \in BoardRows
      /\ \A u \in Tasks : C[u] = IF u \in InColumn(r, c) /\ r[u].rank > v
                                 THEN [status |-> c, rank |-> r[u].rank - 1] ELSE r[u]
      /\ Live(C) = Live(r) /\ \A e : InColumn(C, e) = InColumn(r, e)
  BY <1>1, GapClosed
<1>3. /\ D \in BoardRows /\ Live(D) = Live(r) \ {t} /\ \A e : InColumn(D, e) = InColumn(r, e) \ {t}
      /\ \A u \in Live(r) \ {t} :
            D[u] = [status |-> r[u].status,
                    rank |-> IF r[u].status = c /\ r[u].rank > v THEN r[u].rank - 1 ELSE r[u].rank]
  BY DeletedRows DEF TakenOut
<1>4. Moved(r, t, to, wanted) = [OpenSlot(C, d, k, t) EXCEPT ![t] = [status |-> d, rank |-> k]]
  BY DEF Moved
<1>5. Inserted(D, t, d, wanted)
        = [OpenSlot(D, d, Slot(D, d, wanted, Unset), Unset) EXCEPT ![t] = [status |-> d, rank |-> Slot(D, d, wanted, Unset)]]
  BY DEF Inserted
<1>. HIDE DEF c, v, d, C, D, k
<1>6. \A u \in Tasks \ {t} : C[u] = D[u]
  <2>. SUFFICES ASSUME NEW u \in Tasks \ {t} PROVE C[u] = D[u]
    OBVIOUS
  <2>1. CASE u \in Live(r)
    <3>1. r[u] \in Place
      BY <2>1, PlaceOfRow
    <3>2. r[u] = [status |-> r[u].status, rank |-> r[u].rank] /\ (u \in InColumn(r, c) <=> r[u].status = c)
      BY <2>1, <3>1 DEF Place, InColumn
    <3>3. CASE r[u].status = c /\ r[u].rank > v
      BY <1>2, <1>3, <2>1, <3>2, <3>3
    <3>4. CASE ~(r[u].status = c /\ r[u].rank > v)
      BY <1>2, <1>3, <2>1, <3>2, <3>4
    <3>5. QED BY <3>3, <3>4
  <2>2. CASE u \notin Live(r)
    <3>1. r[u] = Unset /\ u \notin InColumn(r, c)
      BY <2>2 DEF Live, InColumn
    <3>2. C[u] = Unset
      BY <1>2, <3>1
    <3>3. u \notin Live(D)
      BY <1>3, <2>2
    <3>4. QED BY <3>2, <3>3 DEF Live
  <2>3. QED BY <2>1, <2>2
<1>7. InColumn(C, d) \ {t} = InColumn(D, d) \ {Unset}
  <2>1. InColumn(C, d) = InColumn(r, d) /\ InColumn(D, d) = InColumn(r, d) \ {t}
    BY <1>2, <1>3
  <2>2. Unset \notin InColumn(r, d)
    BY UnsetAssumption DEF InColumn, Live
  <2>3. QED BY <2>1, <2>2
<1>8. k = Slot(D, d, wanted, Unset)
  BY <1>7 DEF Slot, k
<1>9. \A u \in Tasks \ {t} : OpenSlot(C, d, k, t)[u] = OpenSlot(D, d, k, Unset)[u]
  BY <1>6, <1>7 DEF OpenSlot
<1>10. [OpenSlot(C, d, k, t) EXCEPT ![t] = [status |-> d, rank |-> k]]
         = [OpenSlot(D, d, k, Unset) EXCEPT ![t] = [status |-> d, rank |-> k]]
  <2>1. OpenSlot(C, d, k, t) = [u \in Tasks |-> OpenSlot(C, d, k, t)[u]]
    BY DEF OpenSlot
  <2>2. OpenSlot(D, d, k, Unset) = [u \in Tasks |-> OpenSlot(D, d, k, Unset)[u]]
    BY DEF OpenSlot
  <2>3. QED BY <1>9, <2>1, <2>2
<1>11. QED BY <1>1, <1>4, <1>5, <1>8, <1>10 DEF D, d

-----------------------------------------------------------------------------
\* The rows b in the columns cols, as a transaction sees them, and the rows b once those
\* columns are as W has them.
Shown(b, cols) == [t \in Tasks |-> IF t \in Live(b) /\ b[t].status \in cols THEN b[t] ELSE Unset]
Replaced(b, W, cols) ==
    [t \in Tasks |-> IF t \in {s \in Live(b) : b[s].status \in cols} \cup {s \in Live(W) : W[s].status \in cols}
                     THEN W[t] ELSE b[t]]

\* What a transaction reads of the columns it touches is dense as well.
LEMMA ShownRows ==
    ASSUME NEW b \in BoardRows, RanksDense(b), NEW cols
    PROVE  /\ Shown(b, cols) \in BoardRows /\ RanksDense(Shown(b, cols))
           /\ \A t \in Live(Shown(b, cols)) : Shown(b, cols)[t] = b[t] /\ t \in Live(b) /\ b[t].status \in cols
           /\ \A t \in Live(b) : b[t].status \in cols => t \in Live(Shown(b, cols))
           /\ \A c \in cols : InColumn(Shown(b, cols), c) = InColumn(b, c)
           /\ \A c : c \notin cols => InColumn(Shown(b, cols), c) = {}
<1>. DEFINE S == Shown(b, cols)
<1>1. S = [t \in Tasks |-> S[t]]
      /\ \A t \in Tasks : S[t] = IF t \in Live(b) /\ b[t].status \in cols THEN b[t] ELSE Unset
  BY DEF Shown
<1>. HIDE DEF S
<1>2. S \in BoardRows
  BY <1>1 DEF BoardRows
<1>3. \A t \in Live(S) : S[t] = b[t] /\ t \in Live(b) /\ b[t].status \in cols
  BY <1>1 DEF Live
<1>4. \A t \in Live(b) : b[t].status \in cols => t \in Live(S)
  BY <1>1 DEF Live
<1>5. \A c \in cols : InColumn(S, c) = InColumn(b, c)
  BY <1>3, <1>4 DEF InColumn
<1>6. \A c : c \notin cols => InColumn(S, c) = {}
  BY <1>3 DEF InColumn
<1>7. IsFiniteSet(Live(S))
  <2>1. Live(S) \subseteq Live(b)
    BY <1>3
  <2>2. QED BY <2>1, FS_Subset DEF RanksDense
<1>8. ASSUME NEW c \in Columns PROVE DenseOn(S, InColumn(S, c))
  <2>1. CASE c \in cols
    <3>1. InColumn(S, c) = InColumn(b, c) /\ DenseOn(b, InColumn(b, c)) /\ \A t \in InColumn(S, c) : S[t] = b[t]
      BY <1>3, <1>5, <2>1 DEF RanksDense, InColumn
    <3>2. QED BY <3>1 DEF DenseOn
  <2>2. CASE c \notin cols
    BY <1>6, <2>2 DEF DenseOn
  <2>3. QED BY <2>1, <2>2
<1>9. QED BY <1>2, <1>3, <1>4, <1>5, <1>6, <1>7, <1>8 DEF RanksDense, S

\* What a transaction writes replaces the columns it touches and leaves the others alone.
LEMMA ReplacedRows ==
    ASSUME NEW b \in BoardRows, RanksDense(b), NEW W \in BoardRows, RanksDense(W), NEW cols,
           \A t \in Live(W) : W[t].status \in cols /\ (t \in Live(b) => b[t].status \in cols)
    PROVE  /\ Replaced(b, W, cols) \in BoardRows /\ RanksDense(Replaced(b, W, cols))
           /\ Live(Replaced(b, W, cols)) = Live(W) \cup {t \in Live(b) : b[t].status \notin cols}
           /\ \A t \in Live(W) : Replaced(b, W, cols)[t] = W[t]
           /\ \A t \in Tasks \ Live(W) :
                 Replaced(b, W, cols)[t] = IF t \in Live(b) /\ b[t].status \in cols THEN Unset ELSE b[t]
           /\ \A c \in cols : InColumn(Replaced(b, W, cols), c) = InColumn(W, c)
           /\ \A c : c \notin cols => InColumn(Replaced(b, W, cols), c) = InColumn(b, c)
           /\ \A other : other \cap cols = {} => Shown(Replaced(b, W, cols), other) = Shown(b, other)
<1>. DEFINE N == Replaced(b, W, cols)
<1>1. /\ N = [t \in Tasks |-> N[t]]
      /\ \A t \in Tasks :
            N[t] = IF t \in {s \in Live(b) : b[s].status \in cols} \cup {s \in Live(W) : W[s].status \in cols}
                   THEN W[t] ELSE b[t]
  BY DEF Replaced
<1>. HIDE DEF N
<1>2. N \in BoardRows
  BY <1>1 DEF BoardRows
<1>3. \A t \in Live(W) : N[t] = W[t] /\ t \in Live(N)
  BY <1>1 DEF Live
<1>4. \A t \in Tasks \ Live(W) : N[t] = IF t \in Live(b) /\ b[t].status \in cols THEN Unset ELSE b[t]
  BY <1>1 DEF Live
<1>5. Live(N) = Live(W) \cup {t \in Live(b) : b[t].status \notin cols}
  BY <1>3, <1>4 DEF Live
<1>6. \A t \in Live(b) : b[t].status \notin cols => N[t] = b[t] /\ t \notin Live(W)
  BY <1>4 DEF Live
<1>7. \A c \in cols : InColumn(N, c) = InColumn(W, c)
  BY <1>3, <1>5, <1>6 DEF InColumn
<1>8. \A c : c \notin cols => InColumn(N, c) = InColumn(b, c)
  BY <1>3, <1>5, <1>6 DEF InColumn
<1>9. ASSUME NEW other, other \cap cols = {} PROVE Shown(N, other) = Shown(b, other)
  <2>1. ASSUME NEW t \in Tasks
        PROVE  (IF t \in Live(N) /\ N[t].status \in other THEN N[t] ELSE Unset)
                 = (IF t \in Live(b) /\ b[t].status \in other THEN b[t] ELSE Unset)
    <3>1. CASE t \in Live(W)
      BY <1>3, <1>9, <3>1
    <3>2. CASE t \notin Live(W)
      BY <1>4, <1>5, <1>6, <1>9, <3>2
    <3>3. QED BY <3>1, <3>2
  <2>2. QED BY <2>1 DEF Shown
<1>10. IsFiniteSet(Live(N))
  <2>1. IsFiniteSet(Live(W)) /\ IsFiniteSet({t \in Live(b) : b[t].status \notin cols})
    BY FS_Subset DEF RanksDense
  <2>2. QED BY <1>5, <2>1, FS_Union
<1>11. ASSUME NEW c \in Columns PROVE DenseOn(N, InColumn(N, c))
  <2>1. CASE c \in cols
    <3>1. InColumn(N, c) = InColumn(W, c) /\ DenseOn(W, InColumn(W, c)) /\ \A t \in InColumn(N, c) : N[t] = W[t]
      BY <1>3, <1>7, <2>1 DEF RanksDense, InColumn
    <3>2. QED BY <3>1 DEF DenseOn
  <2>2. CASE c \notin cols
    <3>1. InColumn(N, c) = InColumn(b, c) /\ DenseOn(b, InColumn(b, c)) /\ \A t \in InColumn(N, c) : N[t] = b[t]
      BY <1>6, <1>8, <2>2 DEF RanksDense, InColumn
    <3>2. QED BY <3>1 DEF DenseOn
  <2>3. QED BY <2>1, <2>2
<1>12. QED BY <1>2, <1>3, <1>4, <1>5, <1>7, <1>8, <1>9, <1>10, <1>11 DEF RanksDense, N

-----------------------------------------------------------------------------
\* What a request is while it is under way, in itself, and with the rows b and the
\* members m of the moment.
Undertakings ==
    [op : {"create", "update", "delete"}, task : Tasks, kind : {"USER", "MACHINE"},
     status : Columns \cup {Unset}, rank : Nat \cup {Unset}, ids : {Unset} \cup SUBSET Users,
     moving : BOOLEAN, met : BOOLEAN,
     phase : {"check", "begin", "open", "assign", "assigning", "answer"},
     seen : BoardRows \cup {Unset}, touches : SUBSET (Columns \cup Tasks), outrun : SUBSET Users]

Early(r) == r.phase \in {"check", "begin", "open"}
SetsAssignees(r) == r.phase \in {"assign", "assigning"} \/ (r.kind = "MACHINE" /\ r.ids # Unset)

\* A request that is no longer, or never was, to move its task has been fulfilled.
Consistent(r) ==
    /\ r.op = "create" /\ Early(r) => r.moving /\ r.status # Unset /\ r.rank # Unset
    /\ r.op = "delete" => r.met /\ (Early(r) => r.moving)
    /\ ~r.moving => r.met
    /\ ~Early(r) => ~r.moving
    /\ r.phase = "assigning" => r.ids # Unset

\* An open transaction that can still commit sees the columns it touches as they are.
Abreast(r, b, m) ==
    /\ r.op = "create" /\ Early(r) => r.task \notin Live(b)
    /\ r.phase \in {"open", "assigning"} =>
          /\ r.seen = Shown(b, r.touches)
          /\ SetsAssignees(r) => r.ids \ m \subseteq r.outrun
    /\ r.phase = "open" /\ r.moving =>
          /\ r.op # "create" => r.task \in Live(r.seen)
          /\ Target(r.seen, r.task, r.status) \in r.touches

WrittenBy(r) ==
    CASE r.op = "create" -> Inserted(r.seen, r.task, r.status, r.rank)
      [] r.op = "delete" -> Deleted(r.seen, r.task)
      [] r.op = "update" /\ r.moving -> Moved(r.seen, r.task, r.status, r.rank)
      [] OTHER -> r.seen

\* What an open transaction leaves in the columns it touches.
LEMMA WrittenRows ==
    ASSUME NEW b \in BoardRows, RanksDense(b), NEW m, NEW r \in Undertakings,
           Consistent(r), Abreast(r, b, m), r.phase = "open"
    PROVE  /\ WrittenBy(r) \in BoardRows /\ RanksDense(WrittenBy(r))
           /\ \A t \in Live(WrittenBy(r)) :
                 /\ WrittenBy(r)[t].status \in r.touches
                 /\ t \in Live(b) => b[t].status \in r.touches
                 /\ t \in Live(b) => \/ WrittenBy(r)[t].status = b[t].status
                                     \/ t = r.task /\ WrittenBy(r)[t].status = r.status
                 /\ t \in Live(b) \/ (t = r.task /\ r.op = "create")
           /\ r.moving /\ r.op # "delete" =>
                 /\ r.task \in Live(WrittenBy(r))
                 /\ r.status \in {Unset, WrittenBy(r)[r.task].status}
                 /\ WrittenBy(r)[r.task].rank
                       = Slot(WrittenBy(r), WrittenBy(r)[r.task].status, r.rank, r.task)
<1>. DEFINE W == WrittenBy(r)
            S == r.seen
            d == Target(r.seen, r.task, r.status)
<1>1. /\ r.op \in {"create", "update", "delete"} /\ r.task \in Tasks /\ r.status \in Columns \cup {Unset}
      /\ r.rank \in Nat \cup {Unset} /\ r.moving \in BOOLEAN
  BY DEF Undertakings
<1>2. /\ S \in BoardRows /\ RanksDense(S)
      /\ \A t \in Live(S) : S[t] = b[t] /\ t \in Live(b) /\ b[t].status \in r.touches
  BY ShownRows DEF Abreast
<1>. HIDE DEF S
<1>3. CASE r.op = "create"
  <2>1. W = Inserted(S, r.task, r.status, r.rank) /\ r.status \in Columns /\ r.moving /\ r.task \notin Live(b)
    BY <1>1, <1>3 DEF WrittenBy, Consistent, Abreast, Early, S
  <2>2. r.task \notin Live(S)
    BY <1>2, <2>1
  <2>3. r.status \in r.touches
    BY <2>1, UnsetAssumption DEF Abreast, Target
  <2>4. /\ PutIn(S, W, r.task, r.status, Slot(S, r.status, r.rank, Unset))
        /\ Slot(W, r.status, r.rank, r.task) = Slot(S, r.status, r.rank, Unset)
    <3>1. S \in BoardRows /\ RanksDense(S)
      BY <1>2
    <3>2. r.task \in Tasks /\ r.status \in Columns /\ r.rank \in Nat \cup {Unset}
      BY <1>1, <2>1
    <3>3. /\ PutIn(S, Inserted(S, r.task, r.status, r.rank), r.task, r.status, Slot(S, r.status, r.rank, Unset))
          /\ Slot(Inserted(S, r.task, r.status, r.rank), r.status, r.rank, r.task) = Slot(S, r.status, r.rank, Unset)
      BY <2>2, <3>1, <3>2, InsertedRows
    <3>4. W = Inserted(S, r.task, r.status, r.rank)
      BY <2>1
    <3>5. QED BY <3>3, <3>4
  <2>. HIDE DEF W
  <2>5. /\ W \in BoardRows /\ RanksDense(W) /\ Live(W) = Live(S) \cup {r.task}
        /\ W[r.task].status = r.status /\ W[r.task].rank = Slot(W, r.status, r.rank, r.task)
        /\ \A u \in Live(S) : W[u].status = S[u].status
    <3>1. /\ W \in BoardRows /\ RanksDense(W) /\ Live(W) = Live(S) \cup {r.task}
          /\ W[r.task] = [status |-> r.status, rank |-> Slot(S, r.status, r.rank, Unset)]
          /\ \A u \in Live(S) : W[u].status = S[u].status
      BY <2>4, Zenon DEF PutIn
    <3>2. QED BY <2>4, <3>1
  <2>6. QED BY <1>2, <1>3, <2>1, <2>3, <2>5 DEF W
<1>4. CASE r.op = "delete"
  <2>1. W = Deleted(S, r.task) /\ r.task \in Live(S)
    BY <1>1, <1>4 DEF WrittenBy, Consistent, Abreast, Early, S
  <2>2. TakenOut(S, W, r.task)
    BY <1>1, <1>2, <2>1, DeletedRows
  <2>. HIDE DEF W
  <2>3. QED BY <1>2, <1>4, <2>2 DEF W, TakenOut
<1>5. CASE r.op = "update" /\ r.moving
  <2>1. W = Moved(S, r.task, r.status, r.rank) /\ r.task \in Live(S) /\ d \in r.touches
    BY <1>1, <1>5 DEF WrittenBy, Abreast, S
  <2>2. d \in Columns /\ W = Inserted(Deleted(S, r.task), r.task, d, r.rank)
    BY <1>1, <1>2, <2>1, MovedRows DEF S
  <2>3. d = r.status \/ (r.status = Unset /\ d = S[r.task].status)
    BY DEF Target, S
  <2>. DEFINE D == Deleted(S, r.task)
  <2>4. TakenOut(S, D, r.task)
    BY <1>1, <1>2, <2>1, DeletedRows
  <2>. HIDE DEF D, d
  <2>5. /\ PutIn(D, W, r.task, d, Slot(D, d, r.rank, Unset))
        /\ Slot(W, d, r.rank, r.task) = Slot(D, d, r.rank, Unset)
    <3>1. D \in BoardRows /\ RanksDense(D) /\ r.task \notin Live(D)
      BY <2>4 DEF TakenOut
    <3>2. r.task \in Tasks /\ d \in Columns /\ r.rank \in Nat \cup {Unset}
      BY <1>1, <2>2
    <3>3. /\ PutIn(D, Inserted(D, r.task, d, r.rank), r.task, d, Slot(D, d, r.rank, Unset))
          /\ Slot(Inserted(D, r.task, d, r.rank), d, r.rank, r.task) = Slot(D, d, r.rank, Unset)
      BY <3>1, <3>2, InsertedRows
    <3>4. W = Inserted(D, r.task, d, r.rank)
      BY <2>2 DEF D
    <3>5. QED BY <3>3, <3>4
  <2>. HIDE DEF W
  <2>6. /\ W \in BoardRows /\ RanksDense(W) /\ Live(W) = Live(D) \cup {r.task}
        /\ W[r.task].status = d /\ W[r.task].rank = Slot(W, d, r.rank, r.task)
        /\ \A u \in Live(D) : W[u].status = D[u].status
    <3>1. /\ W \in BoardRows /\ RanksDense(W) /\ Live(W) = Live(D) \cup {r.task}
          /\ W[r.task] = [status |-> d, rank |-> Slot(D, d, r.rank, Unset)]
          /\ \A u \in Live(D) : W[u].status = D[u].status
      BY <2>5, Zenon DEF PutIn
    <3>2. QED BY <2>5, <3>1
  <2>7. Live(D) = Live(S) \ {r.task} /\ \A u \in Live(S) \ {r.task} : D[u].status = S[u].status
    BY <2>4 DEF TakenOut
  <2>8. Live(W) = Live(S) /\ \A u \in Live(S) \ {r.task} : W[u].status = S[u].status
    BY <2>1, <2>6, <2>7
  <2>9. QED BY <1>2, <1>5, <2>1, <2>3, <2>6, <2>8 DEF W
<1>6. CASE r.op = "update" /\ ~r.moving
  <2>1. W = S
    BY <1>1, <1>6 DEF WrittenBy, S
  <2>. HIDE DEF W
  <2>2. QED BY <1>2, <1>6, <2>1 DEF W
<1>7. QED BY <1>1, <1>3, <1>4, <1>5, <1>6

-----------------------------------------------------------------------------
TaskTypeOK ==
    /\ rows \in BoardRows
    /\ assignees \in [Tasks -> SUBSET Users]
    /\ members \in SUBSET Users
    /\ removing \in Users \cup {Unset}
    /\ request \in [Requests -> {Idle} \cup Undertakings]
    /\ excused \subseteq Users \X Tasks

Sound(r, b, m) == r.op # "none" => Consistent(r) /\ Abreast(r, b, m)

\* A task that is about to be created is known to its request only.
Exclusive(q) ==
    request[q].op = "create" /\ Early(request[q]) =>
        \A p \in Requests \ {q} : request[p].op # "none" => request[p].task # request[q].task

TaskInv ==
    /\ TaskTypeOK
    /\ RanksDense(rows)
    /\ \A q \in Requests : Sound(request[q], rows, members) /\ Exclusive(q)
    /\ StraysOverlapped

\* A request is idle or one of the undertakings.
LEMMA IdleOrUnderWay ==
    ASSUME NEW r \in {Idle} \cup Undertakings
    PROVE  /\ r.op # "none" <=> r \in Undertakings
           /\ r.op = "none" <=> r = Idle
  BY DEF Idle, Undertakings

\* One request takes a step of its own and nothing else changes.
LEMMA OneRequest ==
    ASSUME TaskInv, NEW q \in Requests, NEW X \in {Idle} \cup Undertakings,
           request' = [request EXCEPT ![q] = X],
           UNCHANGED <<rows, assignees, members, removing, excused>>,
           Sound(X, rows, members),
           \A p \in Requests \ {q} : X.op # "none" /\ request[p].op = "create" /\ Early(request[p]) =>
               request[p].task # X.task,
           \A p \in Requests \ {q} : X.op = "create" /\ Early(X) /\ request[p].op # "none" =>
               request[p].task # X.task
    PROVE  TaskInv'
<1>1. request'[q] = X /\ \A p \in Requests \ {q} : request'[p] = request[p]
  BY DEF TaskInv, TaskTypeOK
<1>2. TaskTypeOK'
  BY DEF TaskInv, TaskTypeOK
<1>3. RanksDense(rows)' /\ StraysOverlapped'
  BY DEF TaskInv, StraysOverlapped
<1>4. ASSUME NEW p \in Requests PROVE (Sound(request[p], rows, members) /\ Exclusive(p))'
  <2>1. Sound(request'[p], rows, members)
    BY <1>1 DEF TaskInv
  <2>2. Exclusive(p)'
    BY <1>1 DEF TaskInv, Exclusive
  <2>3. QED BY <2>1, <2>2
<1>5. QED BY <1>2, <1>3, <1>4 DEF TaskInv

\* A request that is answered or refused leaves everything as it was.
LEMMA RequestEnds ==
    ASSUME TaskInv, NEW q \in Requests, request' = [request EXCEPT ![q] = Idle],
           UNCHANGED <<rows, assignees, members, removing, excused>>
    PROVE  TaskInv'
<1>1. Idle \in {Idle} \cup Undertakings /\ Idle.op = "none"
  BY DEF Idle
<1>2. Sound(Idle, rows, members)
  BY <1>1 DEF Sound
<1>3. QED BY <1>1, <1>2, OneRequest

\* What holds without a move, as every column is 0..n-1.
LEMMA AtItsRank ==
    ASSUME NEW b \in BoardRows, RanksDense(b), NEW t \in Live(b)
    PROVE  Slot(b, b[t].status, b[t].rank, t) = b[t].rank
<1>. DEFINE S == InColumn(b, b[t].status)
<1>1. b[t].rank \in Nat /\ b[t].status \in Columns /\ t \in S
  BY PlaceOfRow DEF Live, InColumn
<1>2. IsFiniteSet(S) /\ DenseOn(b, S)
  BY <1>1, ColumnFinite DEF RanksDense
<1>3. PICK n \in Nat : n = Cardinality(S)
  BY <1>2, FS_CardinalityType
<1>4. Cardinality(S \ {t}) = n - 1
  BY <1>1, <1>2, <1>3, FS_RemoveElement
<1>5. b[t].rank < n
  BY <1>1, <1>2, <1>3 DEF DenseOn
<1>6. b[t].rank # Unset /\ ~(b[t].rank > n - 1)
  BY <1>1, <1>3, <1>5, UnsetAssumption
<1>7. QED BY <1>4, <1>6 DEF Slot

\* create, update and remove take on a request after the checks their handlers make first.
LEMMA Accepted ==
    ASSUME TaskInv, NEW q \in Requests, NEW i \in Inputs, NEW moving \in BOOLEAN,
           request[q] = Idle, Accept(q, i, moving),
           UNCHANGED <<rows, assignees, members, removing, excused>>,
           i.op = "create" => moving /\ Fresh(i.task),
           i.op = "update" => i.task \in Live(rows) /\ moving = IsMoving(rows[i.task], i.status, i.rank),
           i.op = "delete" => moving /\ i.task \in Live(rows)
    PROVE  TaskInv'
<1>. DEFINE first == IF i.ids = Unset THEN Checked(moving, i.kind) ELSE "check"
            X == [op |-> i.op, task |-> i.task, kind |-> i.kind, status |-> i.status, rank |-> i.rank,
                  ids |-> i.ids, moving |-> moving, met |-> Fulfils(rows, i), phase |-> first,
                  seen |-> Unset, touches |-> {}, outrun |-> {}]
<1>1. i \in Input /\ (i.op = "create" => i.status # Unset /\ i.rank # Unset)
      /\ (i.op = "delete" => i.status = Unset /\ i.rank = Unset)
  BY InputsAssumption
<1>2. /\ i.op \in {"create", "update", "delete"} /\ i.task \in Tasks /\ i.kind \in {"USER", "MACHINE"}
      /\ i.status \in Columns \cup {Unset} /\ i.rank \in Nat \cup {Unset} /\ i.ids \in {Unset} \cup SUBSET Users
  BY <1>1 DEF Input
<1>3. first \in {"check", "begin", "assign"} /\ (moving => first # "assign")
  BY DEF Checked
<1>4. Fulfils(rows, i) \in BOOLEAN
  BY DEF Fulfils
<1>5. request' = [request EXCEPT ![q] = X]
  BY DEF Accept
<1>6. X \in Undertakings
  BY <1>2, <1>3, <1>4 DEF Undertakings
<1>7. rows \in BoardRows /\ RanksDense(rows)
  BY DEF TaskInv, TaskTypeOK
<1>8. i.op = "update" /\ ~moving => Fulfils(rows, i)
  <2>. SUFFICES ASSUME i.op = "update", ~moving PROVE Fulfils(rows, i)
    OBVIOUS
  <2>1. i.task \in Live(rows) /\ i.status \in {Unset, rows[i.task].status} /\ i.rank \in {Unset, rows[i.task].rank}
    BY DEF IsMoving
  <2>2. Slot(rows, rows[i.task].status, rows[i.task].rank, i.task) = rows[i.task].rank
    BY <1>7, <2>1, AtItsRank
  <2>3. QED BY <2>1, <2>2 DEF Fulfils
<1>9. i.op = "delete" => Fulfils(rows, i)
  BY <1>1 DEF Fulfils
<1>10. Consistent(X)
  <2>1. /\ X.op = i.op /\ X.status = i.status /\ X.rank = i.rank /\ X.moving = moving
        /\ X.met = Fulfils(rows, i) /\ X.phase = first
    OBVIOUS
  <2>. HIDE DEF X, first
  <2>2. QED BY <1>1, <1>2, <1>3, <1>8, <1>9, <2>1 DEF Consistent, Early
<1>11. Abreast(X, rows, members)
  <2>1. X.op = i.op /\ X.task = i.task /\ X.phase = first
    OBVIOUS
  <2>. HIDE DEF X, first
  <2>2. QED BY <1>3, <2>1 DEF Abreast, Fresh
<1>12. ASSUME NEW p \in Requests \ {q}
       PROVE  /\ request[p].op = "create" /\ Early(request[p]) => request[p].task # X.task
              /\ X.op = "create" /\ request[p].op # "none" => request[p].task # X.task
  <2>1. X.op = i.op /\ X.task = i.task
    OBVIOUS
  <2>. HIDE DEF X
  <2>2. X.op = "create" /\ request[p].op # "none" => request[p].task # X.task
    BY <2>1 DEF Fresh
  <2>3. ASSUME request[p].op = "create", Early(request[p]) PROVE request[p].task # X.task
    <3>1. request[p].task \notin Live(rows)
      BY <2>3 DEF TaskInv, Sound, Abreast
    <3>2. QED BY <1>2, <2>1, <2>2, <2>3, <3>1
  <2>4. QED BY <2>2, <2>3
<1>. HIDE DEF X
<1>13. Sound(X, rows, members)
  BY <1>10, <1>11 DEF Sound
<1>14. QED BY <1>5, <1>6, <1>12, <1>13, OneRequest

\* A request goes on to its next phase, or opens a transaction.
LEMMA GoesOn ==
    ASSUME TaskInv, NEW q \in Requests, Check(q)
    PROVE  TaskInv'
<1>. DEFINE r == request[q]
            next == Checked(r.moving, r.kind)
            X == [r EXCEPT !.phase = next]
<1>1. r.op # "none" /\ r.phase = "check" /\ request' = [request EXCEPT ![q] = X]
  BY DEF Check, At
<1>2. r \in Undertakings /\ Consistent(r) /\ Abreast(r, rows, members) /\ Exclusive(q)
  BY <1>1, IdleOrUnderWay DEF TaskInv, TaskTypeOK, Sound
<1>3. next \in {"begin", "assign"} /\ (r.moving => next = "begin")
  BY DEF Checked
<1>4. X \in Undertakings
  BY <1>2, <1>3 DEF Undertakings
<1>5. /\ X.op = r.op /\ X.task = r.task /\ X.status = r.status /\ X.rank = r.rank /\ X.moving = r.moving
      /\ X.met = r.met /\ X.phase = next /\ r.moving \in BOOLEAN
  BY <1>2 DEF Undertakings
<1>. HIDE DEF X, next
<1>6. Early(r) /\ (X.op = "create" => Early(X))
  BY <1>1, <1>2, <1>3, <1>5 DEF Early, Consistent
<1>7. Consistent(X)
  BY <1>2, <1>3, <1>5, <1>6 DEF Consistent, Early
<1>8. Abreast(X, rows, members)
  BY <1>2, <1>3, <1>5, <1>6 DEF Abreast
<1>9. ASSUME NEW p \in Requests \ {q}
      PROVE  /\ request[p].op = "create" /\ Early(request[p]) => request[p].task # X.task
             /\ X.op = "create" /\ request[p].op # "none" => request[p].task # X.task
  <2>1. X.op = "create" /\ request[p].op # "none" => request[p].task # X.task
    BY <1>2, <1>5, <1>6 DEF Exclusive
  <2>2. request[p].op = "create" /\ Early(request[p]) => request[p].task # X.task
    BY <1>1, <1>5 DEF TaskInv, Exclusive
  <2>3. QED BY <2>1, <2>2
<1>10. UNCHANGED <<rows, assignees, members, removing, excused>>
  BY DEF Check
<1>11. QED BY <1>1, <1>4, <1>7, <1>8, <1>9, <1>10, OneRequest DEF Sound

\* What the transaction that begins is about.
LEMMA TouchesOf ==
    ASSUME TaskInv, NEW q \in Requests, request[q] \in Undertakings,
           request[q].task \in Live(rows) \/ request[q].status # Unset
    PROVE  /\ Touches(q) \subseteq Columns \cup Tasks
           /\ request[q].phase = "begin" /\ request[q].moving =>
                 /\ Target(rows, request[q].task, request[q].status) \in Touches(q)
                 /\ request[q].task \in Live(rows) => rows[request[q].task].status \in Touches(q)
<1>. DEFINE t == request[q].task
            d == Target(rows, t, request[q].status)
            own == IF t \in Live(rows) THEN {rows[t].status} ELSE {}
            named == IF Assigns(q) \/ request[q].op = "delete" THEN {t} ELSE {}
<1>1. t \in Tasks /\ request[q].status \in Columns \cup {Unset}
  BY DEF Undertakings
<1>2. rows \in BoardRows
  BY DEF TaskInv, TaskTypeOK
<1>3. own \subseteq Columns /\ (t \in Live(rows) => rows[t].status \in own)
  BY <1>1, <1>2, PlaceOfRow
<1>4. d \in Columns
  BY <1>1, <1>2, PlaceOfRow DEF Target
<1>5. named \subseteq Tasks
  BY <1>1
<1>6. Touches(q) = (IF request[q].phase = "begin" /\ request[q].moving THEN {d} \cup own ELSE {}) \cup named
  BY DEF Touches
<1>. HIDE DEF own, d, named
<1>7. CASE request[q].phase = "begin" /\ request[q].moving
  BY <1>3, <1>4, <1>5, <1>6, <1>7 DEF d
<1>8. CASE ~(request[q].phase = "begin" /\ request[q].moving)
  BY <1>5, <1>6, <1>8
<1>9. QED BY <1>7, <1>8

\* A transaction opens: what it sees is what is there, and nobody has outrun it yet.
LEMMA Begins ==
    ASSUME TaskInv, NEW q \in Requests, request[q].op # "none", NEW from, NEW to,
           <<from, to>> \in {<<"begin", "open">>, <<"assign", "assigning">>},
           from = "assign" => request[q].ids # Unset,
           Begin(q, from, to)
    PROVE  TaskInv'
<1>. DEFINE r == request[q]
            X == [r EXCEPT !.phase = to, !.seen = Snapshot(Touches(q)), !.touches = Touches(q), !.outrun = {}]
<1>1. /\ r.phase = from /\ request' = [request EXCEPT ![q] = X]
      /\ (r.op # "create" \/ from = "assign") => r.task \in Live(rows)
      /\ Assigns(q) /\ r.ids # Unset => r.ids \subseteq members
      /\ UNCHANGED <<rows, assignees, members, removing, excused>>
  BY DEF Begin, At
<1>2. r \in Undertakings /\ Consistent(r) /\ Abreast(r, rows, members) /\ Exclusive(q)
  BY IdleOrUnderWay DEF TaskInv, TaskTypeOK, Sound
<1>3. rows \in BoardRows /\ RanksDense(rows)
  BY DEF TaskInv, TaskTypeOK
<1>4. \/ from = "begin" /\ to = "open" /\ from # "assign"
      \/ from = "assign" /\ to = "assigning" /\ r.ids # Unset
  OBVIOUS
<1>5. r.task \in Live(rows) \/ r.status # Unset
  BY <1>1, <1>2, <1>4 DEF Consistent, Early
<1>6. /\ Touches(q) \subseteq Columns \cup Tasks
      /\ r.phase = "begin" /\ r.moving =>
            /\ Target(rows, r.task, r.status) \in Touches(q)
            /\ r.task \in Live(rows) => rows[r.task].status \in Touches(q)
  BY <1>2, <1>5, TouchesOf
<1>7. Snapshot(Touches(q)) = Shown(rows, Touches(q))
  BY DEF Snapshot, Shown
<1>8. PICK cols : cols = Touches(q)
  OBVIOUS
<1>9. PICK S : S = Shown(rows, cols)
  OBVIOUS
<1>10. /\ S \in BoardRows /\ \A t \in Live(S) : S[t] = rows[t]
       /\ \A t \in Live(rows) : rows[t].status \in cols => t \in Live(S)
  BY <1>3, <1>9, ShownRows
<1>11. X = [r EXCEPT !.phase = to, !.seen = S, !.touches = cols, !.outrun = {}]
  BY <1>7, <1>8, <1>9
<1>12. X \in Undertakings
  BY <1>2, <1>4, <1>6, <1>8, <1>10, <1>11 DEF Undertakings
<1>13. /\ X.op = r.op /\ X.task = r.task /\ X.kind = r.kind /\ X.status = r.status /\ X.rank = r.rank
       /\ X.ids = r.ids /\ X.moving = r.moving /\ X.met = r.met
       /\ X.phase = to /\ X.seen = S /\ X.touches = cols
  BY <1>2, <1>11 DEF Undertakings
<1>. HIDE DEF X
<1>14. r.op = "create" /\ from = "begin" => r.moving /\ r.status # Unset
  BY <1>1, <1>2 DEF Consistent, Early
<1>15. Consistent(X)
  BY <1>1, <1>2, <1>4, <1>13 DEF Consistent, Early
<1>16. SetsAssignees(X) => r.ids \subseteq members
  <2>1. SetsAssignees(X) => r.ids # Unset
    BY <1>4, <1>13 DEF SetsAssignees
  <2>2. SetsAssignees(X) => Assigns(q)
    BY <1>1, <1>4, <1>13 DEF SetsAssignees, Assigns
  <2>3. QED BY <1>1, <2>1, <2>2
<1>17. r.moving /\ to = "open" =>
          /\ r.op # "create" => r.task \in Live(S)
          /\ Target(S, r.task, r.status) \in cols
  <2>. SUFFICES ASSUME r.moving, to = "open"
                PROVE  /\ r.op # "create" => r.task \in Live(S)
                       /\ Target(S, r.task, r.status) \in cols
    OBVIOUS
  <2>1. r.phase = "begin"
    BY <1>1, <1>4
  <2>2. r.op # "create" => r.task \in Live(S) /\ S[r.task] = rows[r.task]
    BY <1>1, <1>6, <1>8, <1>10, <2>1
  <2>3. Target(S, r.task, r.status) = Target(rows, r.task, r.status)
    BY <1>1, <1>4, <1>14, <2>2 DEF Target
  <2>4. QED BY <1>6, <1>8, <2>1, <2>2, <2>3
<1>18. Abreast(X, rows, members)
  <2>1. X.op = "create" /\ Early(X) => X.task \notin Live(rows)
    BY <1>1, <1>2, <1>4, <1>13 DEF Early, Abreast
  <2>2. QED BY <1>9, <1>13, <1>16, <1>17, <2>1 DEF Abreast
<1>19. ASSUME NEW p \in Requests \ {q}
       PROVE  /\ request[p].op = "create" /\ Early(request[p]) => request[p].task # X.task
              /\ X.op = "create" /\ Early(X) /\ request[p].op # "none" => request[p].task # X.task
  <2>1. X.op = "create" /\ Early(X) /\ request[p].op # "none" => request[p].task # X.task
    BY <1>1, <1>2, <1>4, <1>13 DEF Exclusive, Early
  <2>2. request[p].op = "create" /\ Early(request[p]) => request[p].task # X.task
    BY <1>13 DEF TaskInv, Exclusive
  <2>3. QED BY <2>1, <2>2
<1>20. Sound(X, rows, members)
  BY <1>15, <1>18 DEF Sound
<1>21. QED BY <1>1, <1>12, <1>19, <1>20, OneRequest

-----------------------------------------------------------------------------
\* What a commit makes of the request that commits and of the others.
LEMMA ObservedRequest ==
    ASSUME NEW r \in Undertakings, NEW new
    PROVE  /\ Observed(r, new) \in Undertakings
           /\ \A b, m : Consistent(r) => Consistent(Observed(r, new))
           /\ \A b, m : Abreast(r, b, m) => Abreast(Observed(r, new), b, m)
           /\ Observed(r, new).met = (r.met \/ Fulfils(new, r))
           /\ Observed(r, new).op = r.op /\ Observed(r, new).task = r.task /\ Observed(r, new).phase = r.phase
<1>. DEFINE X == Observed(r, new)
<1>1. r.op # "none" /\ r.met \in BOOLEAN /\ Fulfils(new, r) \in BOOLEAN
  BY DEF Undertakings, Fulfils
<1>2. X = [r EXCEPT !.met = r.met \/ Fulfils(new, r)]
  <2>1. CASE r.met
    <3>1. X = r /\ r = [r EXCEPT !.met = TRUE]
      BY <1>1, <2>1 DEF Observed, Undertakings
    <3>2. QED BY <2>1, <3>1
  <2>2. CASE ~r.met
    BY <1>1, <2>2 DEF Observed
  <2>3. QED BY <2>1, <2>2
<1>3. /\ X \in Undertakings /\ X.op = r.op /\ X.task = r.task /\ X.kind = r.kind /\ X.status = r.status
      /\ X.rank = r.rank /\ X.ids = r.ids /\ X.moving = r.moving /\ X.phase = r.phase /\ X.seen = r.seen
      /\ X.touches = r.touches /\ X.outrun = r.outrun /\ X.met = (r.met \/ Fulfils(new, r))
  BY <1>1, <1>2 DEF Undertakings
<1>. HIDE DEF X
<1>4. Consistent(r) => Consistent(X)
  BY <1>3 DEF Consistent, Early
<1>5. ASSUME NEW b, NEW m, Abreast(r, b, m) PROVE Abreast(X, b, m)
  BY <1>3, <1>5 DEF Abreast, Early, SetsAssignees
<1>6. QED BY <1>3, <1>4, <1>5 DEF X

\* A transaction commits: it wins over those that touch the same columns, which will fail.
LEMMA Settles ==
    ASSUME TaskInv, NEW q \in Requests, request[q].op # "none",
           NEW new, NEW next \in {"assign", "answer"}, Settle(q, new, next),
           rows' = new, new \in BoardRows, RanksDense(new), UNCHANGED <<members, removing>>,
           assignees' \in [Tasks -> SUBSET Users], excused' \subseteq Users \X Tasks, StraysOverlapped',
           request[q].met \/ Fulfils(new, request[q]),
           \A p \in Requests \ {q} : request[p].op # "none" /\ ~Doomed(p, q) => Abreast(request[p], new, members)
    PROVE  TaskInv'
<1>. DEFINE X == [Observed(request[q], new) EXCEPT
                     !.phase = next, !.seen = Unset, !.touches = {}, !.outrun = {},
                     !.status = Unset, !.rank = Unset, !.moving = FALSE]
<1>1. request[q] \in Undertakings /\ \A p \in Requests : request[p] \in {Idle} \cup Undertakings
  BY IdleOrUnderWay DEF TaskInv, TaskTypeOK
<1>2. /\ Observed(request[q], new) \in Undertakings /\ Observed(request[q], new).met
      /\ Observed(request[q], new).op = request[q].op
      /\ Observed(request[q], new).task = request[q].task
  BY <1>1, ObservedRequest
<1>3. /\ X \in Undertakings /\ X.met /\ X.phase = next /\ ~X.moving
      /\ X.op = request[q].op /\ X.task = request[q].task
  BY <1>2 DEF Undertakings
<1>4. request' = [p \in Requests |-> request'[p]] /\ request'[q] = X
  BY DEF Settle
<1>5. \A p \in Requests \ {q} : request'[p] = IF Doomed(p, q) THEN Idle ELSE Observed(request[p], new)
  BY DEF Settle
<1>. HIDE DEF X
<1>6. Consistent(X) /\ Abreast(X, new, members) /\ ~Early(X)
  BY <1>3 DEF Consistent, Abreast, Early
<1>7. ASSUME NEW p \in Requests \ {q}
      PROVE  /\ request'[p] \in {Idle} \cup Undertakings /\ Sound(request'[p], new, members)
             /\ request'[p].op # "none" => /\ request[p].op # "none" /\ request'[p].op = request[p].op
                                           /\ request'[p].task = request[p].task
                                           /\ request'[p].phase = request[p].phase
  <2>1. CASE Doomed(p, q) \/ request[p].op = "none"
    <3>1. request'[p] = Idle
      BY <1>1, <1>5, <2>1, IdleOrUnderWay DEF Observed
    <3>2. QED BY <3>1, IdleOrUnderWay DEF Sound
  <2>2. CASE ~Doomed(p, q) /\ request[p].op # "none"
    <3>1. request'[p] = Observed(request[p], new) /\ request[p] \in Undertakings
      BY <1>1, <1>5, <2>2, IdleOrUnderWay
    <3>2. Consistent(request[p]) /\ Abreast(request[p], new, members)
      BY <2>2 DEF TaskInv, Sound
    <3>3. QED BY <2>2, <3>1, <3>2, ObservedRequest DEF Sound
  <2>3. QED BY <2>1, <2>2
<1>8. \A p \in Requests : request'[p] \in {Idle} \cup Undertakings /\ Sound(request'[p], new, members)
  BY <1>3, <1>4, <1>6, <1>7 DEF Sound
<1>9. TaskTypeOK'
  BY <1>4, <1>8 DEF TaskInv, TaskTypeOK
<1>10. ASSUME NEW p \in Requests PROVE Exclusive(p)'
  <2>1. CASE p = q
    BY <1>4, <1>6, <2>1 DEF Exclusive
  <2>2. CASE p # q
    <3>. SUFFICES ASSUME request'[p].op = "create", Early(request'[p]), NEW o \in Requests \ {p},
                         request'[o].op # "none"
                  PROVE  request'[o].task # request'[p].task
      BY DEF Exclusive
    <3>1. request[p].op = "create" /\ Early(request[p]) /\ request'[p].task = request[p].task
      BY <1>7, <2>2 DEF Early
    <3>2. request[o].op # "none" /\ request'[o].task = request[o].task
      <4>1. CASE o = q
        BY <1>3, <1>4, <4>1
      <4>2. CASE o # q
        BY <1>7, <4>2
      <4>3. QED BY <4>1, <4>2
    <3>3. QED BY <3>1, <3>2 DEF TaskInv, Exclusive
  <2>3. QED BY <2>1, <2>2
<1>11. QED BY <1>8, <1>9, <1>10 DEF TaskInv

\* The assignees a transaction writes are members or outrun by their removal.
LEMMA AssigneesWritten ==
    ASSUME TaskInv, NEW q \in Requests, request[q].op # "none", request[q].phase \in {"open", "assigning"},
           assignees' = Assigned(q), excused' = Excused(q), UNCHANGED <<members, removing>>
    PROVE  /\ assignees' \in [Tasks -> SUBSET Users] /\ excused' \subseteq Users \X Tasks
           /\ StraysOverlapped'
<1>. DEFINE r == request[q]
<1>1. r \in Undertakings /\ Consistent(r) /\ Abreast(r, rows, members)
  BY IdleOrUnderWay DEF TaskInv, TaskTypeOK, Sound
<1>2. r.task \in Tasks /\ r.ids \in {Unset} \cup SUBSET Users /\ r.outrun \subseteq Users
  BY <1>1 DEF Undertakings
<1>3. Assigns(q) => r.ids # Unset /\ r.ids \in SUBSET Users /\ r.ids \ members \subseteq r.outrun
  <2>1. Assigns(q) <=> SetsAssignees(r)
    BY DEF Assigns, SetsAssignees
  <2>2. SetsAssignees(r) => r.ids # Unset
    BY <1>1 DEF SetsAssignees, Consistent
  <2>3. SetsAssignees(r) => r.ids \ members \subseteq r.outrun
    BY <1>1 DEF Abreast
  <2>4. QED BY <1>2, <2>1, <2>2, <2>3
<1>4. /\ assignees \in [Tasks -> SUBSET Users] /\ excused \subseteq Users \X Tasks
      /\ \A t \in Tasks : \A u \in assignees[t] \ members : u = removing \/ <<u, t>> \in excused
  BY DEF TaskInv, TaskTypeOK, StraysOverlapped
<1>5. /\ assignees' \in [Tasks -> SUBSET Users]
      /\ \A t \in Tasks \ {r.task} : assignees'[t] = assignees[t]
      /\ assignees'[r.task] \in {{}, assignees[r.task]} \/ (Assigns(q) /\ assignees'[r.task] = r.ids)
  <2>1. CASE r.op = "delete"
    <3>1. assignees' = [assignees EXCEPT ![r.task] = {}]
      BY <2>1 DEF Assigned
    <3>2. QED BY <1>2, <1>4, <3>1
  <2>2. CASE r.op # "delete" /\ Assigns(q)
    <3>1. assignees' = [assignees EXCEPT ![r.task] = r.ids]
      BY <2>2 DEF Assigned
    <3>2. QED BY <1>2, <1>3, <1>4, <2>2, <3>1
  <2>3. CASE r.op # "delete" /\ ~Assigns(q)
    <3>1. assignees' = assignees
      BY <2>3 DEF Assigned
    <3>2. QED BY <1>2, <1>4, <3>1
  <2>4. QED BY <2>1, <2>2, <2>3
<1>6. excused' = {p \in excused : p[1] \in assignees'[p[2]]}
                 \cup {<<u, r.task>> : u \in IF Assigns(q) THEN r.outrun \ members ELSE {}}
  BY DEF Excused
<1>7. excused' \subseteq Users \X Tasks
  BY <1>2, <1>4, <1>6
<1>8. ASSUME NEW t \in Tasks, NEW u \in assignees'[t] \ members PROVE u = removing \/ <<u, t>> \in excused'
  <2>1. CASE u \in assignees[t]
    <3>1. u = removing \/ <<u, t>> \in excused
      BY <1>4, <1>8, <2>1
    <3>2. <<u, t>> \in excused => <<u, t>> \in excused'
      BY <1>6, <1>8
    <3>3. QED BY <3>1, <3>2
  <2>2. CASE u \notin assignees[t]
    <3>1. t = r.task /\ Assigns(q) /\ u \in r.ids
      BY <1>5, <1>8, <2>2
    <3>2. u \in r.outrun \ members
      BY <1>3, <1>8, <3>1
    <3>3. QED BY <1>6, <3>1, <3>2
  <2>3. QED BY <2>1, <2>2
<1>9. QED BY <1>5, <1>7, <1>8 DEF StraysOverlapped

\* The commit of a rank transaction: whole columns are replaced, and the transactions
\* that go on touched none of them.
LEMMA CommitRows ==
    ASSUME TaskInv, NEW q \in Requests, At(q, "open")
    PROVE  /\ Merged(q) \in BoardRows /\ RanksDense(Merged(q))
           /\ request[q].met \/ Fulfils(Merged(q), request[q])
           /\ \A p \in Requests \ {q} :
                 request[p].op # "none" /\ ~Doomed(p, q) => Abreast(request[p], Merged(q), members)
           /\ \A t \in Live(rows) : Merged(q)[t] # Unset =>
                 \/ Merged(q)[t].status = rows[t].status
                 \/ t = request[q].task /\ Merged(q)[t].status = request[q].status
<1>. DEFINE r == request[q]
            W == WrittenBy(r)
            N == Merged(q)
<1>1. r \in Undertakings /\ r.op # "none" /\ r.phase = "open" /\ Consistent(r) /\ Abreast(r, rows, members)
  BY IdleOrUnderWay DEF TaskInv, TaskTypeOK, Sound, At
<1>2. rows \in BoardRows /\ RanksDense(rows)
  BY DEF TaskInv, TaskTypeOK
<1>3. /\ W \in BoardRows /\ RanksDense(W)
      /\ \A t \in Live(W) :
            /\ W[t].status \in r.touches
            /\ t \in Live(rows) => rows[t].status \in r.touches
            /\ t \in Live(rows) => W[t].status = rows[t].status \/ (t = r.task /\ W[t].status = r.status)
            /\ t \in Live(rows) \/ (t = r.task /\ r.op = "create")
      /\ r.moving /\ r.op # "delete" =>
            /\ r.task \in Live(W)
            /\ r.status \in {Unset, W[r.task].status}
            /\ W[r.task].rank = Slot(W, W[r.task].status, r.rank, r.task)
  BY <1>1, <1>2, WrittenRows
<1>4. N = Replaced(rows, W, r.touches)
  <2>1. Written(q) = W
    BY DEF Written, WrittenBy
  <2>2. QED BY <2>1 DEF Merged, Touched, Replaced
<1>. HIDE DEF W, N
<1>5. /\ N \in BoardRows /\ RanksDense(N)
      /\ Live(N) = Live(W) \cup {t \in Live(rows) : rows[t].status \notin r.touches}
      /\ \A t \in Live(W) : N[t] = W[t]
      /\ \A t \in Tasks \ Live(W) : N[t] = IF t \in Live(rows) /\ rows[t].status \in r.touches THEN Unset ELSE rows[t]
      /\ \A c \in r.touches : InColumn(N, c) = InColumn(W, c)
      /\ \A other : other \cap r.touches = {} => Shown(N, other) = Shown(rows, other)
  BY <1>2, <1>3, <1>4, ReplacedRows
<1>6. r.met \/ Fulfils(N, r)
  <2>1. CASE r.moving /\ r.op # "delete"
    <3>1. r.task \in Live(W) /\ N[r.task] = W[r.task] /\ r.task \in Live(N)
      BY <1>3, <1>5, <2>1
    <3>2. Slot(N, W[r.task].status, r.rank, r.task) = Slot(W, W[r.task].status, r.rank, r.task)
      BY <1>3, <1>5, <3>1 DEF Slot
    <3>3. QED BY <1>3, <2>1, <3>1, <3>2 DEF Fulfils
  <2>2. CASE ~(r.moving /\ r.op # "delete")
    BY <1>1, <2>2 DEF Consistent
  <2>3. QED BY <2>1, <2>2
<1>7. ASSUME NEW p \in Requests \ {q}, request[p].op # "none", ~Doomed(p, q)
      PROVE  Abreast(request[p], N, members)
  <2>1. Abreast(request[p], rows, members) /\ Exclusive(p)
    BY <1>7 DEF TaskInv, Sound
  <2>2. Shown(N, request[p].touches) = Shown(rows, request[p].touches)
    BY <1>5, <1>7 DEF Doomed
  <2>3. request[p].op = "create" /\ Early(request[p]) => request[p].task \notin Live(N)
    <3>. SUFFICES ASSUME request[p].op = "create", Early(request[p]), request[p].task \in Live(N)
                  PROVE  FALSE
      OBVIOUS
    <3>1. request[p].task \notin Live(rows)
      BY <2>1 DEF Abreast
    <3>2. request[p].task = r.task
      BY <1>3, <1>5, <3>1
    <3>3. QED BY <1>1, <2>1, <3>2 DEF Exclusive
  <2>4. QED BY <2>1, <2>2, <2>3 DEF Abreast
<1>8. ASSUME NEW t \in Live(rows), N[t] # Unset
      PROVE  N[t].status = rows[t].status \/ (t = r.task /\ N[t].status = r.status)
  <2>1. t \in Tasks
    BY DEF Live
  <2>2. QED BY <1>3, <1>5, <1>8, <2>1
<1>9. QED BY <1>5, <1>6, <1>7, <1>8 DEF N

\* Every step of a request keeps the invariant,
LEMMA StepOfRequest ==
    ASSUME TaskInv, NEW q \in Requests,
           \/ CreateAs(q) \/ UpdateAs(q) \/ RemoveAs(q) \/ Check(q)
           \/ BeginWork(q) \/ Commit(q) \/ BeginAssigning(q) \/ CommitAssigning(q)
           \/ UpdateFields(q) \/ Answer(q) \/ Fail(q)
    PROVE  TaskInv'
<1>1. CASE CreateAs(q)
  <2>1. PICK i \in Inputs : i.op = "create" /\ request[q] = Idle /\ Fresh(i.task) /\ Accept(q, i, TRUE)
    BY <1>1 DEF CreateAs
  <2>2. UNCHANGED <<rows, assignees, members, removing, excused>>
    BY <1>1 DEF CreateAs
  <2>3. QED BY <2>1, <2>2, Accepted
<1>2. CASE UpdateAs(q)
  <2>1. PICK i \in Inputs : /\ i.op = "update" /\ request[q] = Idle /\ i.task \in Live(rows)
                            /\ Accept(q, i, IsMoving(rows[i.task], i.status, i.rank))
    BY <1>2 DEF UpdateAs
  <2>2. UNCHANGED <<rows, assignees, members, removing, excused>>
    BY <1>2 DEF UpdateAs
  <2>3. IsMoving(rows[i.task], i.status, i.rank) \in BOOLEAN
    BY DEF IsMoving
  <2>4. QED BY <2>1, <2>2, <2>3, Accepted
<1>3. CASE RemoveAs(q)
  <2>1. PICK i \in Inputs : i.op = "delete" /\ request[q] = Idle /\ i.task \in Live(rows) /\ Accept(q, i, TRUE)
    BY <1>3 DEF RemoveAs
  <2>2. UNCHANGED <<rows, assignees, members, removing, excused>>
    BY <1>3 DEF RemoveAs
  <2>3. QED BY <2>1, <2>2, Accepted
<1>4. CASE Check(q)
  BY <1>4, GoesOn
<1>5. CASE BeginWork(q)
  <2>1. Begin(q, "begin", "open") /\ request[q].op # "none"
    BY <1>5 DEF BeginWork, Begin, At
  <2>2. QED BY <2>1, Begins
<1>6. CASE BeginAssigning(q)
  <2>1. Begin(q, "assign", "assigning") /\ request[q].op # "none" /\ request[q].ids # Unset
    BY <1>6 DEF BeginAssigning
  <2>2. QED BY <2>1, Begins
<1>7. CASE Commit(q)
  <2>1. /\ At(q, "open") /\ rows' = Merged(q) /\ assignees' = Assigned(q) /\ excused' = Excused(q)
        /\ UNCHANGED <<members, removing>>
        /\ request[q].op # "none" /\ request[q].phase \in {"open", "assigning"}
    BY <1>7 DEF Commit, At
  <2>2. PICK next \in {"assign", "answer"} : Settle(q, Merged(q), next)
    BY <1>7 DEF Commit
  <2>3. /\ Merged(q) \in BoardRows /\ RanksDense(Merged(q))
        /\ request[q].met \/ Fulfils(Merged(q), request[q])
        /\ \A p \in Requests \ {q} :
              request[p].op # "none" /\ ~Doomed(p, q) => Abreast(request[p], Merged(q), members)
    BY <2>1, CommitRows
  <2>4. /\ assignees' \in [Tasks -> SUBSET Users] /\ excused' \subseteq Users \X Tasks
        /\ StraysOverlapped'
    BY <2>1, AssigneesWritten
  <2>5. QED BY <2>1, <2>2, <2>3, <2>4, Settles
<1>8. CASE CommitAssigning(q)
  <2>1. /\ rows' = rows /\ assignees' = Assigned(q) /\ excused' = Excused(q) /\ Settle(q, rows, "answer")
        /\ UNCHANGED <<members, removing>>
        /\ request[q].op # "none" /\ request[q].phase = "assigning"
    BY <1>8 DEF CommitAssigning, At
  <2>2. /\ assignees' \in [Tasks -> SUBSET Users] /\ excused' \subseteq Users \X Tasks
        /\ StraysOverlapped'
    BY <2>1, AssigneesWritten
  <2>3. request[q].met /\ \A p \in Requests : request[p].op # "none" => Abreast(request[p], rows, members)
    BY <2>1 DEF TaskInv, Sound, Consistent, Early
  <2>4. rows \in BoardRows /\ RanksDense(rows)
    BY DEF TaskInv, TaskTypeOK
  <2>5. QED BY <2>1, <2>2, <2>3, <2>4, Settles
<1>9. CASE UpdateFields(q)
  <2>1. /\ Settle(q, rows, "answer") /\ UNCHANGED <<rows, assignees, members, removing, excused>>
        /\ request[q].op # "none" /\ request[q].phase = "assign"
    BY <1>9 DEF UpdateFields, At
  <2>2. request[q].met /\ \A p \in Requests : request[p].op # "none" => Abreast(request[p], rows, members)
    BY <2>1 DEF TaskInv, Sound, Consistent, Early
  <2>3. rows \in BoardRows /\ RanksDense(rows)
    BY DEF TaskInv, TaskTypeOK
  <2>4. /\ assignees' \in [Tasks -> SUBSET Users] /\ excused' \subseteq Users \X Tasks /\ StraysOverlapped'
    BY <2>1 DEF TaskInv, TaskTypeOK, StraysOverlapped
  <2>5. QED BY <2>1, <2>2, <2>3, <2>4, Settles
<1>10. CASE Answer(q)
  BY <1>10, RequestEnds DEF Answer
<1>11. CASE Fail(q)
  BY <1>11, RequestEnds DEF Fail
<1>12. QED BY <1>1, <1>2, <1>3, <1>4, <1>5, <1>6, <1>7, <1>8, <1>9, <1>10, <1>11

\* The members and the assignments of the one who leaves.
LEMMA StepOfMembers ==
    ASSUME TaskInv,
           (\E u \in Users : AddMember(u) \/ RemoveMember(u)) \/ RemoveAssignments \/ RemovalFails
    PROVE  TaskInv'
<1>1. /\ rows \in BoardRows /\ RanksDense(rows) /\ assignees \in [Tasks -> SUBSET Users]
      /\ members \subseteq Users /\ removing \in Users \cup {Unset} /\ excused \subseteq Users \X Tasks
      /\ request \in [Requests -> {Idle} \cup Undertakings]
      /\ \A q \in Requests : Sound(request[q], rows, members) /\ Exclusive(q)
      /\ \A t \in Tasks : \A u \in assignees[t] \ members : u = removing \/ <<u, t>> \in excused
  BY DEF TaskInv, TaskTypeOK, StraysOverlapped
<1>2. ASSUME NEW u \in Users, AddMember(u) PROVE TaskInv'
  <2>1. /\ members' = members \cup {u} /\ excused' = {p \in excused : p[1] # u}
        /\ UNCHANGED <<rows, assignees, removing, request>> /\ removing = Unset
    BY <1>2 DEF AddMember
  <2>2. TaskTypeOK'
    BY <1>1, <2>1 DEF TaskTypeOK
  <2>3. StraysOverlapped'
    BY <1>1, <2>1 DEF StraysOverlapped
  <2>4. ASSUME NEW q \in Requests PROVE (Sound(request[q], rows, members) /\ Exclusive(q))'
    <3>1. Sound(request[q], rows, members')
      BY <1>1, <2>1 DEF Sound, Abreast
    <3>2. Exclusive(q)'
      BY <1>1, <2>1 DEF Exclusive
    <3>3. QED BY <2>1, <3>1, <3>2
  <2>5. RanksDense(rows)'
    BY <1>1, <2>1
  <2>6. QED BY <2>2, <2>3, <2>4, <2>5 DEF TaskInv
<1>3. ASSUME NEW u \in Users, RemoveMember(u) PROVE TaskInv'
  <2>1. /\ removing = Unset /\ u \in members /\ members' = members \ {u} /\ removing' = u
        /\ UNCHANGED <<rows, assignees, excused>>
        /\ request' = [q \in Requests |-> request'[q]]
        /\ \A q \in Requests : request'[q] =
              IF request[q].op # "none" /\ request[q].seen # Unset /\ request[q].ids # Unset /\ u \in request[q].ids
              THEN [request[q] EXCEPT !.outrun = @ \cup {u}] ELSE request[q]
    BY <1>3 DEF RemoveMember
  <2>2. ASSUME NEW q \in Requests
        PROVE  /\ request'[q] \in {Idle} \cup Undertakings /\ Sound(request'[q], rows, members')
               /\ request'[q].op = request[q].op
               /\ request[q].op # "none" => /\ request'[q].task = request[q].task
                                            /\ request'[q].phase = request[q].phase
    <3>. DEFINE r == request[q]
                X == request'[q]
    <3>. HIDE DEF X
    <3>1. r \in {Idle} \cup Undertakings /\ Sound(r, rows, members)
      BY <1>1
    <3>2. CASE r.op # "none" /\ r.seen # Unset /\ r.ids # Unset /\ u \in r.ids
      <4>1. r \in Undertakings /\ Consistent(r) /\ Abreast(r, rows, members)
        BY <3>1, <3>2, IdleOrUnderWay DEF Sound
      <4>2. X = [r EXCEPT !.outrun = @ \cup {u}]
        BY <2>1, <3>2 DEF X
      <4>3. /\ X \in Undertakings /\ X.op = r.op /\ X.task = r.task /\ X.kind = r.kind /\ X.status = r.status
            /\ X.rank = r.rank /\ X.ids = r.ids /\ X.moving = r.moving /\ X.phase = r.phase /\ X.seen = r.seen
            /\ X.touches = r.touches /\ X.met = r.met /\ X.outrun = r.outrun \cup {u}
        BY <4>1, <4>2 DEF Undertakings
      <4>4. Consistent(X)
        BY <4>1, <4>3 DEF Consistent, Early
      <4>5. SetsAssignees(r) /\ r.phase \in {"open", "assigning"} => r.ids \ members' \subseteq X.outrun
        <5>1. SetsAssignees(r) /\ r.phase \in {"open", "assigning"} => r.ids \ members \subseteq r.outrun
          BY <4>1 DEF Abreast
        <5>2. QED BY <2>1, <4>3, <5>1
      <4>6. Abreast(X, rows, members')
        BY <4>1, <4>3, <4>5 DEF Abreast, Early, SetsAssignees
      <4>7. QED BY <4>3, <4>4, <4>6 DEF Sound, X
    <3>3. CASE ~(r.op # "none" /\ r.seen # Unset /\ r.ids # Unset /\ u \in r.ids)
      <4>1. X = r
        BY <2>1, <3>3 DEF X
      <4>2. Sound(r, rows, members')
        <5>. SUFFICES ASSUME r.op # "none" PROVE Consistent(r) /\ Abreast(r, rows, members')
          BY DEF Sound
        <5>1. r \in Undertakings /\ Consistent(r) /\ Abreast(r, rows, members)
          BY <3>1, IdleOrUnderWay DEF Sound
        <5>2. r.phase \in {"open", "assigning"} => r.seen # Unset
          <6>1. Shown(rows, r.touches) \in BoardRows
            BY <1>1, ShownRows
          <6>2. Unset \notin BoardRows
            BY UnsetAssumption DEF BoardRows
          <6>3. QED BY <5>1, <6>1, <6>2 DEF Abreast
        <5>3. SetsAssignees(r) /\ r.phase \in {"open", "assigning"} => r.ids # Unset
          BY <5>1 DEF SetsAssignees, Consistent
        <5>4. SetsAssignees(r) /\ r.phase \in {"open", "assigning"} => r.ids \ members' \subseteq r.outrun
          <6>1. SetsAssignees(r) /\ r.phase \in {"open", "assigning"} => r.ids \ members \subseteq r.outrun
            BY <5>1 DEF Abreast
          <6>2. QED BY <2>1, <3>3, <5>2, <5>3, <6>1
        <5>5. QED BY <5>1, <5>4 DEF Abreast
      <4>3. QED BY <3>1, <4>1, <4>2 DEF X
    <3>4. QED BY <3>2, <3>3
  <2>3. TaskTypeOK'
    BY <1>1, <2>1, <2>2 DEF TaskTypeOK
  <2>4. StraysOverlapped'
    <3>. SUFFICES ASSUME NEW t \in Tasks, NEW v \in assignees[t] \ members'
                  PROVE  v = u \/ <<v, t>> \in excused
      BY <2>1 DEF StraysOverlapped
    <3>1. v = u \/ v \in assignees[t] \ members
      BY <2>1
    <3>2. v \in Users
      BY <1>1
    <3>3. QED BY <1>1, <2>1, <3>1, <3>2, UnsetAssumption
  <2>5. ASSUME NEW q \in Requests PROVE Exclusive(q)'
    <3>1. Exclusive(q) /\ \A p \in Requests : request'[p].op = request[p].op
          /\ (request[p].op # "none" => request'[p].task = request[p].task /\ request'[p].phase = request[p].phase)
      BY <1>1, <2>2
    <3>2. QED BY <3>1 DEF Exclusive, Early
  <2>6. QED BY <1>1, <2>1, <2>2, <2>3, <2>4, <2>5 DEF TaskInv
<1>4. CASE RemoveAssignments \/ RemovalFails
  <2>1. /\ UNCHANGED <<rows, members, request>> /\ removing # Unset /\ removing' = Unset
        /\ \/ /\ assignees' = [t \in Tasks |-> assignees[t] \ {removing}]
              /\ excused' = {p \in excused : p[1] # removing}
           \/ /\ assignees' = assignees
              /\ excused' = excused \cup {<<removing, t>> : t \in {s \in Tasks : removing \in assignees[s]}}
    BY <1>4 DEF RemoveAssignments, RemovalFails
  <2>2. assignees' \in [Tasks -> SUBSET Users] /\ excused' \subseteq Users \X Tasks
    BY <1>1, <2>1
  <2>3. TaskTypeOK'
    BY <1>1, <2>1, <2>2 DEF TaskTypeOK
  <2>4. StraysOverlapped'
    <3>. SUFFICES ASSUME NEW t \in Tasks, NEW v \in assignees'[t] \ members PROVE <<v, t>> \in excused'
      BY <2>1 DEF StraysOverlapped
    <3>1. v \in assignees[t] /\ v \notin members
      BY <2>1
    <3>2. v = removing \/ <<v, t>> \in excused
      BY <1>1, <3>1
    <3>3. QED BY <2>1, <3>1, <3>2
  <2>5. ASSUME NEW q \in Requests PROVE Exclusive(q)'
    BY <1>1, <2>1 DEF Exclusive
  <2>6. \A q \in Requests : Sound(request[q], rows, members)'
    BY <1>1, <2>1
  <2>7. RanksDense(rows)'
    BY <1>1, <2>1
  <2>8. QED BY <2>3, <2>4, <2>5, <2>6, <2>7 DEF TaskInv
<1>5. QED BY <1>2, <1>3, <1>4

\* Throughout, for any tasks, columns, users and requests: the ranks of every column are
\* 0..n-1 however create, update and remove interleave, and what each request has read
\* still agrees with the rows unless another commit has doomed it (the serializable
\* transactions of TasksService).
THEOREM TaskBoardInductive == Spec => []TaskInv
<1>1. Init => TaskInv
  <2>. SUFFICES ASSUME Init PROVE TaskInv
    OBVIOUS
  <2>1. TaskTypeOK
    BY DEF Init, TaskTypeOK, BoardRows
  <2>2. Live(rows) = {} /\ \A c : InColumn(rows, c) = {}
    BY DEF Init, Live, InColumn
  <2>3. RanksDense(rows)
    BY <2>2, FS_EmptySet DEF RanksDense, DenseOn
  <2>4. \A q \in Requests : request[q].op = "none"
    BY DEF Init, Idle
  <2>5. QED BY <2>1, <2>3, <2>4 DEF TaskInv, Sound, Exclusive, StraysOverlapped, Init
<1>2. TaskInv /\ [Next]_vars => TaskInv'
  <2>. SUFFICES ASSUME TaskInv, [Next]_vars PROVE TaskInv'
    OBVIOUS
  <2>1. ASSUME NEW q \in Requests,
               \/ CreateAs(q) \/ UpdateAs(q) \/ RemoveAs(q) \/ Check(q)
               \/ BeginWork(q) \/ Commit(q) \/ BeginAssigning(q) \/ CommitAssigning(q)
               \/ UpdateFields(q) \/ Answer(q) \/ Fail(q)
        PROVE  TaskInv'
    BY <2>1, StepOfRequest
  <2>2. CASE (\E u \in Users : AddMember(u) \/ RemoveMember(u)) \/ RemoveAssignments \/ RemovalFails
    BY <2>2, StepOfMembers
  <2>3. CASE UNCHANGED vars
    BY <2>3 DEF vars, TaskInv, TaskTypeOK, Sound, Exclusive, StraysOverlapped
  <2>4. QED BY <2>1, <2>2, <2>3 DEF Next
<1>3. QED BY <1>1, <1>2, PTL DEF Spec

\* An assignee is a member, is just being removed, was left behind by a removal that failed
\* half way, or was assigned by a request that had checked him before he was removed
\* (assertAssigneesAreProjectMembers runs before the transaction that writes them).
THEOREM TaskBoardStrays == Spec => []StraysOverlapped
<1>1. TaskInv => StraysOverlapped
  BY DEF TaskInv
<1>2. QED BY <1>1, TaskBoardInductive, PTL

\* A request that is answered has had its effect at some moment since it arrived: its task
\* was in the column and at the rank asked for (clamped by openRankSlot), or was gone.
THEOREM TaskBoardTakesEffect == Spec => []RequestsTakeEffect
<1>1. TaskInv => RequestsTakeEffect
  BY DEF TaskInv, Sound, Consistent, Early, RequestsTakeEffect, At
<1>2. QED BY <1>1, TaskBoardInductive, PTL

\* The rows change only when a rank transaction commits.
LEMMA RowsChange ==
    ASSUME [Next]_vars, rows' # rows
    PROVE  \E q \in Requests : At(q, "open") /\ rows' = Merged(q)
<1>1. PICK q \in Requests : Commit(q)
  BY DEF Next, vars, CreateAs, UpdateAs, RemoveAs, Check, BeginWork, BeginAssigning, Begin, CommitAssigning,
         UpdateFields, Answer, Fail, AddMember, RemoveMember, RemoveAssignments, RemovalFails
<1>2. QED BY <1>1 DEF Commit

\* A task changes column only as the commit of a request about this very task that names
\* the new column (update of TasksService): shifting the ranks of the others never does.
THEOREM TaskBoardColumns == Spec => ColumnChangesAreAsked
<1>. DEFINE Named == \A t \in Live(rows) \cap Tasks :
                        (rows'[t] # Unset /\ rows'[t].status # rows[t].status) =>
                            \E q \in Requests : At(q, "open") /\ request[q].task = t
                                                /\ request[q].status = rows'[t].status
<1>1. TaskInv /\ [Next]_vars => [Named]_vars
  <2>. SUFFICES ASSUME TaskInv, [Next]_vars, NEW t \in Live(rows), rows'[t] # Unset,
                       rows'[t].status # rows[t].status
                PROVE  \E q \in Requests : At(q, "open") /\ request[q].task = t
                                           /\ request[q].status = rows'[t].status
    OBVIOUS
  <2>1. PICK q \in Requests : At(q, "open") /\ rows' = Merged(q)
    BY RowsChange
  <2>2. QED BY <2>1, CommitRows
<1>2. QED BY <1>1, TaskBoardInductive, PTL DEF Spec, ColumnChangesAreAsked

-----------------------------------------------------------------------------
\* Sequences without their kth element and with one put in there.
LEMMA Shortened ==
    ASSUME NEW S, NEW s \in Seq(S), NEW k \in 1 .. Len(s)
    PROVE  /\ Board!RemoveAt(s, k) \in Seq(S) /\ Len(Board!RemoveAt(s, k)) = Len(s) - 1
           /\ \A i \in 1 .. Len(s) - 1 : Board!RemoveAt(s, k)[i] = IF i < k THEN s[i] ELSE s[i + 1]
<1>. DEFINE a == SubSeq(s, 1, k - 1)
            z == SubSeq(s, k + 1, Len(s))
<1>1. Len(s) \in Nat /\ \A i \in 1 .. Len(s) : s[i] \in S
  BY ElementOfSeq, LenProperties
<1>2. PICK n \in Nat : n = Len(s)
  BY <1>1
<1>3. a \in Seq(S) /\ Len(a) = k - 1 /\ \A i \in 1 .. k - 1 : a[i] = s[i]
  <2>1. \A i \in 1 .. k - 1 : s[i] \in S
    BY <1>1
  <2>2. /\ a \in Seq(S) /\ Len(a) = IF 1 <= k - 1 THEN k - 1 - 1 + 1 ELSE 0
        /\ \A i \in 1 .. k - 1 - 1 + 1 : a[i] = s[1 + i - 1]
    BY <2>1, SubSeqProperties
  <2>. HIDE DEF a
  <2>3. QED BY <1>2, <2>2
<1>4. z \in Seq(S) /\ Len(z) = n - k /\ \A i \in 1 .. n - k : z[i] = s[k + i]
  <2>1. \A i \in k + 1 .. n : s[i] \in S
    BY <1>1, <1>2
  <2>2. /\ z \in Seq(S) /\ Len(z) = IF k + 1 <= n THEN n - (k + 1) + 1 ELSE 0
        /\ \A i \in 1 .. n - (k + 1) + 1 : z[i] = s[k + 1 + i - 1]
    BY <1>2, <2>1, SubSeqProperties
  <2>. HIDE DEF z
  <2>3. Len(z) = n - k
    BY <1>2, <2>2
  <2>4. ASSUME NEW i \in 1 .. n - k PROVE z[i] = s[k + i]
    <3>1. i \in 1 .. n - (k + 1) + 1 /\ k + 1 + i - 1 = k + i
      BY <1>2
    <3>2. QED BY <2>2, <3>1
  <2>5. QED BY <2>2, <2>3, <2>4
<1>5. Board!RemoveAt(s, k) = a \o z
  BY DEF Board!RemoveAt
<1>. HIDE DEF a, z
<1>6. /\ a \o z \in Seq(S) /\ Len(a \o z) = Len(a) + Len(z)
      /\ \A i \in 1 .. Len(a) + Len(z) : (a \o z)[i] = IF i <= Len(a) THEN a[i] ELSE z[i - Len(a)]
  BY <1>3, <1>4, ConcatProperties
<1>7. PICK x : x = a \o z
  OBVIOUS
<1>8. x \in Seq(S) /\ Len(x) = n - 1
  <2>1. Len(x) = k - 1 + (n - k)
    BY <1>3, <1>4, <1>6, <1>7
  <2>2. Len(x) = n - 1
    BY <1>2, <2>1
  <2>3. x \in Seq(S)
    BY <1>3, <1>4, <1>7, ConcatProperties
  <2>4. QED BY <2>2, <2>3
<1>9. ASSUME NEW i \in 1 .. n - 1 PROVE x[i] = IF i < k THEN s[i] ELSE s[i + 1]
  <2>1. x[i] = IF i <= k - 1 THEN a[i] ELSE z[i - (k - 1)]
    BY <1>2, <1>3, <1>4, <1>6, <1>7
  <2>2. CASE i < k
    BY <1>2, <1>3, <2>1, <2>2
  <2>3. CASE ~(i < k)
    <3>1. i - (k - 1) \in 1 .. n - k /\ k + (i - (k - 1)) = i + 1
      BY <1>2, <2>3
    <3>2. z[i - (k - 1)] = s[i + 1]
      BY <1>4, <3>1
    <3>3. QED BY <2>1, <2>3, <3>2
  <2>4. QED BY <2>2, <2>3
<1>10. QED BY <1>2, <1>5, <1>7, <1>8, <1>9

Longer(S, s, k, e, z) ==
    /\ z \in Seq(S) /\ Len(z) = Len(s) + 1
    /\ \A i \in 1 .. Len(s) + 1 : z[i] = IF i < k THEN s[i] ELSE IF i = k THEN e ELSE s[i - 1]

\* A sequence with one element more.
LEMMA Lengthened ==
    ASSUME NEW S, NEW s \in Seq(S), NEW k \in 1 .. Len(s) + 1, NEW e \in S
    PROVE  Longer(S, s, k, e, Board!InsertAt(s, k, e))
<1>. DEFINE a == SubSeq(s, 1, k - 1)
            z == SubSeq(s, k, Len(s))
<1>1. Len(s) \in Nat /\ \A i \in 1 .. Len(s) : s[i] \in S
  BY ElementOfSeq, LenProperties
<1>2. PICK n \in Nat : n = Len(s)
  BY <1>1
<1>3. a \in Seq(S) /\ Len(a) = k - 1 /\ \A i \in 1 .. k - 1 : a[i] = s[i]
  <2>1. \A i \in 1 .. k - 1 : s[i] \in S
    BY <1>1, <1>2
  <2>2. /\ a \in Seq(S) /\ Len(a) = IF 1 <= k - 1 THEN k - 1 - 1 + 1 ELSE 0
        /\ \A i \in 1 .. k - 1 - 1 + 1 : a[i] = s[1 + i - 1]
    BY <1>2, <2>1, SubSeqProperties
  <2>. HIDE DEF a
  <2>3. QED BY <1>2, <2>2
<1>4. z \in Seq(S) /\ Len(z) = n - k + 1 /\ \A i \in 1 .. n - k + 1 : z[i] = s[k + i - 1]
  <2>1. \A i \in k .. n : s[i] \in S
    BY <1>1, <1>2
  <2>2. /\ z \in Seq(S) /\ Len(z) = IF k <= n THEN n - k + 1 ELSE 0
        /\ \A i \in 1 .. n - k + 1 : z[i] = s[k + i - 1]
    BY <1>2, <2>1, SubSeqProperties
  <2>. HIDE DEF z
  <2>3. QED BY <1>2, <2>2
<1>5. Board!InsertAt(s, k, e) = a \o <<e>> \o z
  BY DEF Board!InsertAt
<1>. HIDE DEF a, z
<1>6. PICK y : y = a \o <<e>>
  OBVIOUS
<1>7. <<e>> \in Seq(S) /\ Len(<<e>>) = 1 /\ <<e>>[1] = e
  OBVIOUS
<1>8. /\ y \in Seq(S) /\ Len(y) = Len(a) + Len(<<e>>)
      /\ \A i \in 1 .. Len(a) + Len(<<e>>) : y[i] = IF i <= Len(a) THEN a[i] ELSE <<e>>[i - Len(a)]
  BY <1>3, <1>6, <1>7, ConcatProperties
<1>9. y \in Seq(S) /\ Len(y) = k /\ \A i \in 1 .. k : y[i] = IF i < k THEN s[i] ELSE e
  <2>1. Len(y) = k
    BY <1>2, <1>3, <1>7, <1>8
  <2>2. ASSUME NEW i \in 1 .. k PROVE y[i] = IF i < k THEN s[i] ELSE e
    <3>1. y[i] = IF i <= k - 1 THEN a[i] ELSE <<e>>[i - (k - 1)]
      BY <1>2, <1>3, <1>7, <1>8
    <3>2. CASE i < k
      BY <1>2, <1>3, <3>1, <3>2
    <3>3. CASE i = k
      <4>1. i - (k - 1) = 1 /\ ~(i <= k - 1)
        BY <1>2, <3>3
      <4>2. QED BY <1>7, <3>1, <3>3, <4>1
    <3>4. QED BY <1>2, <3>2, <3>3
  <2>3. QED BY <1>8, <2>1, <2>2
<1>10. PICK x : x = y \o z
  OBVIOUS
<1>11. /\ x \in Seq(S) /\ Len(x) = Len(y) + Len(z)
       /\ \A i \in 1 .. Len(y) + Len(z) : x[i] = IF i <= Len(y) THEN y[i] ELSE z[i - Len(y)]
  BY <1>4, <1>9, <1>10, ConcatProperties
<1>12. Len(x) = n + 1
  BY <1>2, <1>4, <1>9, <1>11
<1>13. ASSUME NEW i \in 1 .. n + 1
       PROVE  x[i] = IF i < k THEN s[i] ELSE IF i = k THEN e ELSE s[i - 1]
  <2>1. x[i] = IF i <= k THEN y[i] ELSE z[i - k]
    BY <1>2, <1>4, <1>9, <1>11
  <2>2. CASE i <= k
    BY <1>2, <1>9, <2>1, <2>2
  <2>3. CASE ~(i <= k)
    <3>1. i - k \in 1 .. n - k + 1 /\ k + (i - k) - 1 = i - 1
      BY <1>2, <2>3
    <3>2. z[i - k] = s[i - 1]
      BY <1>4, <3>1
    <3>3. QED BY <1>2, <2>1, <2>3, <3>2
  <2>4. QED BY <2>2, <2>3
<1>14. Longer(S, s, k, e, x)
  BY <1>2, <1>11, <1>12, <1>13 DEF Longer
<1>15. QED BY <1>5, <1>6, <1>10, <1>14

\* The column c of the rows r from top to bottom, and the board they make.
ColumnOf(r, c) ==
    [i \in 1 .. Cardinality(InColumn(r, c)) |-> CHOOSE t \in InColumn(r, c) : r[t].rank = i - 1]
BoardOf(r) == [c \in Columns |-> ColumnOf(r, c)]

\* n ranks below n that are all different leave none out.
LEMMA RankTaken ==
    ASSUME NEW r, NEW S, IsFiniteSet(S), DenseOn(r, S), \A t \in S : r[t].rank \in Nat,
           NEW i \in 1 .. Cardinality(S)
    PROVE  \E t \in S : r[t].rank = i - 1
<1>. DEFINE f == [t \in S |-> r[t].rank + 1]
<1>1. PICK n \in Nat : n = Cardinality(S)
  BY FS_CardinalityType
<1>2. f \in [S -> 1 .. n]
  BY <1>1 DEF DenseOn
<1>3. \A t, u \in S : f[t] = f[u] => t = u
  BY DEF DenseOn
<1>4. f \in Injection(S, 1 .. n)
  BY <1>2, <1>3 DEF Injection, IsInjective
<1>5. IsFiniteSet(1 .. n) /\ Cardinality(1 .. n) = n
  BY FS_Interval
<1>6. f \in Surjection(S, 1 .. n)
  BY <1>1, <1>4, <1>5, FS_Injection
<1>7. PICK t \in S : f[t] = i
  BY <1>1, <1>6 DEF Surjection
<1>8. QED BY <1>1, <1>7

\* Read in the order of the ranks, a column has each of its cards once, at its rank.
LEMMA ColumnCards ==
    ASSUME NEW r \in BoardRows, RanksDense(r), NEW c \in Columns
    PROVE  /\ ColumnOf(r, c) \in Seq(Tasks) /\ Len(ColumnOf(r, c)) = Cardinality(InColumn(r, c))
           /\ Cardinality(InColumn(r, c)) \in Nat
           /\ \A i \in 1 .. Cardinality(InColumn(r, c)) :
                 ColumnOf(r, c)[i] \in InColumn(r, c) /\ r[ColumnOf(r, c)[i]].rank = i - 1
           /\ \A t \in InColumn(r, c) :
                 /\ r[t].rank + 1 \in 1 .. Cardinality(InColumn(r, c)) /\ ColumnOf(r, c)[r[t].rank + 1] = t
                 /\ Board!Position(ColumnOf(r, c), t) = r[t].rank + 1
           /\ Board!ToSet(ColumnOf(r, c)) = InColumn(r, c)
<1>. DEFINE S == InColumn(r, c)
            s == ColumnOf(r, c)
<1>1. S \subseteq Tasks /\ \A t \in S : r[t].rank \in Nat
  BY PlaceOfRow DEF InColumn, Live
<1>2. IsFiniteSet(S) /\ DenseOn(r, S)
  BY ColumnFinite DEF RanksDense
<1>3. PICK n \in Nat : n = Cardinality(S)
  BY <1>2, FS_CardinalityType
<1>4. s = [i \in 1 .. n |-> CHOOSE t \in S : r[t].rank = i - 1]
  BY <1>3 DEF ColumnOf
<1>. HIDE DEF S, s
<1>5. ASSUME NEW i \in 1 .. n PROVE s[i] \in S /\ r[s[i]].rank = i - 1
  <2>1. \E t \in S : r[t].rank = i - 1
    BY <1>1, <1>2, <1>3, RankTaken
  <2>2. s[i] = CHOOSE t \in S : r[t].rank = i - 1
    BY <1>4
  <2>3. QED BY <2>1, <2>2
<1>6. s \in [1 .. n -> Tasks] /\ DOMAIN s = 1 .. n
  BY <1>1, <1>4, <1>5
<1>7. s \in Seq(Tasks) /\ Len(s) = n
  BY <1>6
<1>8. ASSUME NEW t \in S PROVE r[t].rank + 1 \in 1 .. n /\ s[r[t].rank + 1] = t
  <2>1. r[t].rank + 1 \in 1 .. n
    BY <1>1, <1>2, <1>3 DEF DenseOn
  <2>2. s[r[t].rank + 1] \in S /\ r[s[r[t].rank + 1]].rank = r[t].rank
    BY <1>1, <1>5, <2>1
  <2>3. QED BY <1>2, <2>1, <2>2 DEF DenseOn
<1>9. ASSUME NEW t \in S PROVE Board!Position(s, t) = r[t].rank + 1
  <2>1. r[t].rank + 1 \in DOMAIN s /\ s[r[t].rank + 1] = t
    BY <1>6, <1>8
  <2>2. ASSUME NEW k \in DOMAIN s, s[k] = t PROVE k = r[t].rank + 1
    BY <1>5, <1>6, <2>2
  <2>3. QED BY <2>1, <2>2 DEF Board!Position
<1>10. Board!ToSet(s) = S
  BY <1>5, <1>6, <1>8 DEF Board!ToSet
<1>11. QED BY <1>3, <1>5, <1>7, <1>8, <1>9, <1>10 DEF S, s

\* A sequence of the cards of the column that follows the ranks is the column.
LEMMA ColumnIs ==
    ASSUME NEW r \in BoardRows, RanksDense(r), NEW c \in Columns, NEW s \in Seq(Tasks),
           Len(s) = Cardinality(InColumn(r, c)),
           \A i \in 1 .. Len(s) : s[i] \in InColumn(r, c) /\ r[s[i]].rank = i - 1
    PROVE  s = ColumnOf(r, c)
<1>1. /\ ColumnOf(r, c) \in Seq(Tasks) /\ Len(ColumnOf(r, c)) = Len(s)
      /\ \A i \in 1 .. Len(s) : ColumnOf(r, c)[i] \in InColumn(r, c) /\ r[ColumnOf(r, c)[i]].rank = i - 1
  BY ColumnCards
<1>2. \A i \in 1 .. Len(s) : s[i] = ColumnOf(r, c)[i]
  BY <1>1 DEF RanksDense, DenseOn
<1>3. QED BY <1>1, <1>2, SeqEqual

\* A column whose cards and ranks are the same reads the same.
LEMMA SameColumn ==
    ASSUME NEW r, NEW N, NEW c, InColumn(N, c) = InColumn(r, c), \A t \in InColumn(r, c) : N[t].rank = r[t].rank
    PROVE  ColumnOf(N, c) = ColumnOf(r, c)
<1>1. ASSUME NEW i
      PROVE  (CHOOSE t \in InColumn(r, c) : N[t].rank = i) = (CHOOSE t \in InColumn(r, c) : r[t].rank = i)
  OBVIOUS
<1>2. QED BY <1>1 DEF ColumnOf

\* Taking a card out of the rows takes it out of the board, putting one in puts it in.
LEMMA OthersOf ==
    ASSUME NEW r \in BoardRows, RanksDense(r), NEW R, NEW t \in Live(r), TakenOut(r, R, t), NEW c \in Columns
    PROVE  Board!Others(BoardOf(r), c, t) = ColumnOf(R, c)
<1>. DEFINE s == ColumnOf(r, c)
            S == InColumn(r, c)
<1>1. BoardOf(r)[c] = s
  BY DEF BoardOf
<1>2. /\ s \in Seq(Tasks) /\ Len(s) = Cardinality(S) /\ Cardinality(S) \in Nat
      /\ \A i \in 1 .. Cardinality(S) : s[i] \in S /\ r[s[i]].rank = i - 1
      /\ \A u \in S : r[u].rank + 1 \in 1 .. Cardinality(S) /\ s[r[u].rank + 1] = u
                      /\ Board!Position(s, u) = r[u].rank + 1
      /\ Board!ToSet(s) = S
  BY ColumnCards
<1>3. /\ R \in BoardRows /\ RanksDense(R) /\ InColumn(R, c) = S \ {t}
      /\ \A u \in S \ {t} : R[u].rank = IF r[u].status = r[t].status /\ r[u].rank > r[t].rank
                                        THEN r[u].rank - 1 ELSE r[u].rank
  <2>1. /\ R \in BoardRows /\ RanksDense(R) /\ InColumn(R, c) = S \ {t}
        /\ \A u \in Live(r) \ {t} : R[u] = [status |-> r[u].status,
                                          rank |-> IF r[u].status = r[t].status /\ r[u].rank > r[t].rank
                                                   THEN r[u].rank - 1 ELSE r[u].rank]
    BY Zenon DEF TakenOut
  <2>2. S \subseteq Live(r)
    BY DEF InColumn
  <2>3. ASSUME NEW u \in S \ {t}
        PROVE  R[u].rank = IF r[u].status = r[t].status /\ r[u].rank > r[t].rank THEN r[u].rank - 1 ELSE r[u].rank
    <3>1. R[u] = [status |-> r[u].status,
                  rank |-> IF r[u].status = r[t].status /\ r[u].rank > r[t].rank THEN r[u].rank - 1 ELSE r[u].rank]
      BY <2>1, <2>2
    <3>2. QED BY <3>1
  <2>4. QED BY <2>1, <2>3
<1>4. (t \in S <=> r[t].status = c) /\ \A u \in S : r[u].status = c /\ r[u].rank \in Nat
  BY PlaceOfRow DEF InColumn, Live
<1>5. IsFiniteSet(S)
  BY ColumnFinite DEF RanksDense
<1>. HIDE DEF s, S
<1>6. CASE t \in S
  <2>. DEFINE k == r[t].rank + 1
              z == Board!RemoveAt(s, k)
  <2>1. Board!Others(BoardOf(r), c, t) = z
    BY <1>1, <1>2, <1>6 DEF Board!Others
  <2>2. PICK n \in Nat : n = Cardinality(S)
    BY <1>2
  <2>3. k \in 1 .. n /\ k - 1 = r[t].rank /\ Len(s) = n
    BY <1>2, <1>4, <1>6, <2>2
  <2>. HIDE DEF k
  <2>4. /\ z \in Seq(Tasks) /\ Len(z) = Len(s) - 1
        /\ \A i \in 1 .. Len(s) - 1 : z[i] = IF i < k THEN s[i] ELSE s[i + 1]
    BY <1>2, <2>3, Shortened
  <2>. HIDE DEF z
  <2>5. Cardinality(InColumn(R, c)) = n - 1
    BY <1>3, <1>5, <1>6, <2>2, FS_RemoveElement
  <2>6. ASSUME NEW i \in 1 .. n - 1 PROVE z[i] \in InColumn(R, c) /\ R[z[i]].rank = i - 1
    <3>1. PICK j \in 1 .. n : j = IF i < k THEN i ELSE i + 1
      BY <2>2
    <3>2. z[i] = s[j] /\ j # k
      BY <2>3, <2>4, <3>1
    <3>3. s[j] \in S /\ r[s[j]].rank = j - 1
      BY <1>2, <2>2
    <3>4. s[j] # t
      BY <2>3, <3>2, <3>3
    <3>5. R[s[j]].rank = IF j - 1 > k - 1 THEN j - 2 ELSE j - 1
      BY <1>3, <1>4, <1>6, <2>3, <3>3, <3>4
    <3>6. R[s[j]].rank = i - 1
      BY <2>3, <3>1, <3>5
    <3>7. QED BY <1>3, <3>2, <3>3, <3>4, <3>6
  <2>7. z = ColumnOf(R, c)
    <3>1. Len(z) = n - 1 /\ z \in Seq(Tasks)
      BY <2>3, <2>4
    <3>2. Len(z) = Cardinality(InColumn(R, c))
          /\ \A i \in 1 .. Len(z) : z[i] \in InColumn(R, c) /\ R[z[i]].rank = i - 1
      BY <2>5, <2>6, <3>1
    <3>3. QED BY <1>3, <3>1, <3>2, ColumnIs
  <2>8. QED BY <2>1, <2>7
<1>7. CASE t \notin S
  <2>1. Board!Others(BoardOf(r), c, t) = s
    BY <1>1, <1>2, <1>7 DEF Board!Others
  <2>2. InColumn(R, c) = InColumn(r, c) /\ \A u \in InColumn(r, c) : R[u].rank = r[u].rank
    BY <1>3, <1>4, <1>7 DEF S
  <2>3. ColumnOf(R, c) = s
    BY <2>2, SameColumn DEF s
  <2>4. QED BY <2>1, <2>3
<1>8. QED BY <1>6, <1>7

\* A card that is in no column leaves every column as it is.
LEMMA OthersOfAbsent ==
    ASSUME NEW r \in BoardRows, RanksDense(r), NEW t, t \notin Live(r), NEW c \in Columns
    PROVE  Board!Others(BoardOf(r), c, t) = ColumnOf(r, c)
<1>1. BoardOf(r)[c] = ColumnOf(r, c)
  BY DEF BoardOf
<1>2. Board!ToSet(ColumnOf(r, c)) = InColumn(r, c)
  BY ColumnCards
<1>3. t \notin InColumn(r, c)
  BY DEF InColumn
<1>4. QED BY <1>1, <1>2, <1>3 DEF Board!Others

\* The cards of the board are the live tasks.
LEMMA CardsOf ==
    ASSUME NEW r \in BoardRows, RanksDense(r), NEW t
    PROVE  t \in Board!Card(BoardOf(r)) <=> t \in Live(r)
<1>1. \A c \in Columns : Board!ToSet(BoardOf(r)[c]) = InColumn(r, c)
  BY ColumnCards DEF BoardOf
<1>2. t \in Live(r) => r[t].status \in Columns
  BY PlaceOfRow DEF Live
<1>3. QED BY <1>1, <1>2 DEF Board!Card, InColumn

\* A card put in the rows is in the board where With puts it.
LEMMA PutInBoard ==
    ASSUME NEW b, NEW D \in BoardRows, RanksDense(D), NEW t \in Tasks, t \notin Live(D),
           \A c \in Columns : Board!Others(b, c, t) = ColumnOf(D, c),
           NEW N, NEW d \in Columns, NEW k, PutIn(D, N, t, d, k)
    PROVE  /\ BoardOf(N) = Board!With(b, t, d, k)
           /\ k \in 0 .. Len(Board!Others(b, d, t))
<1>. DEFINE s == ColumnOf(D, d)
            S == InColumn(D, d)
            z == Board!InsertAt(s, k + 1, t)
<1>1. /\ N \in BoardRows /\ RanksDense(N) /\ InColumn(N, d) = S \cup {t}
      /\ \A c : c # d => InColumn(N, c) = InColumn(D, c)
      /\ N[t] = [status |-> d, rank |-> k] /\ k \in Nat /\ k <= Cardinality(S)
      /\ \A u \in Live(D) : N[u] = [status |-> D[u].status,
                                    rank |-> IF D[u].status = d /\ D[u].rank >= k THEN D[u].rank + 1 ELSE D[u].rank]
  BY Zenon DEF PutIn
<1>2. /\ s \in Seq(Tasks) /\ Len(s) = Cardinality(S) /\ Cardinality(S) \in Nat
      /\ \A i \in 1 .. Cardinality(S) : s[i] \in S /\ D[s[i]].rank = i - 1
  BY ColumnCards
<1>3. N[t].rank = k /\ \A u \in S : N[u].rank = IF D[u].rank >= k THEN D[u].rank + 1 ELSE D[u].rank
  <2>1. N[t].rank = k
    BY <1>1
  <2>2. ASSUME NEW u \in S PROVE N[u].rank = IF D[u].rank >= k THEN D[u].rank + 1 ELSE D[u].rank
    <3>1. u \in Live(D) /\ D[u].status = d
      BY DEF InColumn
    <3>2. N[u] = [status |-> D[u].status,
                  rank |-> IF D[u].status = d /\ D[u].rank >= k THEN D[u].rank + 1 ELSE D[u].rank]
      BY <1>1, <3>1
    <3>3. QED BY <3>1, <3>2
  <2>3. QED BY <2>1, <2>2
<1>4. IsFiniteSet(S) /\ t \notin S
  BY ColumnFinite DEF RanksDense, InColumn
<1>5. PICK n \in Nat : n = Cardinality(S)
  BY <1>2
<1>6. k + 1 \in 1 .. Len(s) + 1
  BY <1>1, <1>2
<1>7. Cardinality(InColumn(N, d)) = n + 1
  BY <1>1, <1>4, <1>5, FS_AddElement
<1>8. ASSUME NEW c \in Columns, c # d PROVE ColumnOf(N, c) = ColumnOf(D, c)
  <2>1. \A u \in InColumn(D, c) : N[u].rank = D[u].rank
    <3>. SUFFICES ASSUME NEW u \in InColumn(D, c) PROVE N[u].rank = D[u].rank
      OBVIOUS
    <3>1. u \in Live(D) /\ D[u].status = c
      BY DEF InColumn
    <3>2. N[u] = [status |-> D[u].status,
                  rank |-> IF D[u].status = d /\ D[u].rank >= k THEN D[u].rank + 1 ELSE D[u].rank]
      BY <1>1, <3>1
    <3>3. QED BY <1>8, <3>1, <3>2
  <2>2. InColumn(N, c) = InColumn(D, c)
    BY <1>1, <1>8
  <2>3. QED BY <2>1, <2>2, SameColumn
<1>9. Board!With(b, t, d, k) = [[c \in Columns |-> ColumnOf(D, c)] EXCEPT ![d] = z]
  <2>1. Board!Without(b, t) = [c \in Columns |-> ColumnOf(D, c)]
    BY DEF Board!Without
  <2>2. Board!With(b, t, d, k) = [Board!Without(b, t) EXCEPT ![d] = Board!InsertAt(@, k + 1, t)]
    BY DEF Board!With
  <2>3. QED BY <2>1, <2>2
<1>. HIDE DEF s, S
<1>10. /\ z \in Seq(Tasks) /\ Len(z) = Len(s) + 1
       /\ \A i \in 1 .. Len(s) + 1 : z[i] = IF i < k + 1 THEN s[i] ELSE IF i = k + 1 THEN t ELSE s[i - 1]
  <2>1. Longer(Tasks, s, k + 1, t, z)
    BY <1>2, <1>6, Lengthened
  <2>2. QED BY <2>1 DEF Longer
<1>. HIDE DEF z
<1>11. ASSUME NEW i \in 1 .. n + 1 PROVE z[i] \in InColumn(N, d) /\ N[z[i]].rank = i - 1
  <2>1. CASE i < k + 1
    <3>1. i \in 1 .. n /\ i - 1 < k
      BY <1>1, <1>5, <2>1
    <3>2. z[i] = s[i] /\ s[i] \in S /\ D[s[i]].rank = i - 1
      BY <1>2, <1>5, <1>10, <2>1, <3>1
    <3>3. QED BY <1>1, <1>3, <3>1, <3>2
  <2>2. CASE i = k + 1
    <3>1. z[i] = t
      BY <1>1, <1>2, <1>5, <1>10, <2>2
    <3>2. QED BY <1>1, <1>3, <2>2, <3>1
  <2>3. CASE i > k + 1
    <3>1. i - 1 \in 1 .. n /\ i - 1 - 1 >= k
      BY <1>1, <1>5, <2>3
    <3>2. z[i] = s[i - 1] /\ s[i - 1] \in S /\ D[s[i - 1]].rank = i - 1 - 1
      BY <1>1, <1>2, <1>5, <1>10, <2>3, <3>1
    <3>3. N[s[i - 1]].rank = i - 1 - 1 + 1
      BY <1>3, <3>1, <3>2
    <3>4. QED BY <1>1, <3>2, <3>3
  <2>4. QED BY <1>1, <2>1, <2>2, <2>3
<1>12. z = ColumnOf(N, d)
  <2>1. Len(z) = n + 1 /\ z \in Seq(Tasks)
    BY <1>2, <1>5, <1>10
  <2>2. Len(z) = Cardinality(InColumn(N, d))
        /\ \A i \in 1 .. Len(z) : z[i] \in InColumn(N, d) /\ N[z[i]].rank = i - 1
    BY <1>7, <1>11, <2>1
  <2>3. QED BY <1>1, <2>1, <2>2, ColumnIs
<1>13. BoardOf(N) = Board!With(b, t, d, k)
  BY <1>8, <1>9, <1>12 DEF BoardOf
<1>14. k \in 0 .. Len(Board!Others(b, d, t))
  BY <1>1, <1>2 DEF s
<1>15. QED BY <1>13, <1>14

\* What a transaction does to the columns it touches is done to the board.
LEMMA TakenFromAll ==
    ASSUME NEW b \in BoardRows, RanksDense(b), NEW cols, NEW t \in Live(b), b[t].status \in cols,
           NEW W, TakenOut(Shown(b, cols), W, t)
    PROVE  TakenOut(b, Replaced(b, W, cols), t)
<1>. DEFINE S == Shown(b, cols)
            N == Replaced(b, W, cols)
<1>1. /\ \A u \in Live(S) : S[u] = b[u] /\ u \in Live(b) /\ b[u].status \in cols
      /\ \A u \in Live(b) : b[u].status \in cols => u \in Live(S)
      /\ \A c \in cols : InColumn(S, c) = InColumn(b, c)
  BY ShownRows
<1>. HIDE DEF S
<1>2. /\ W \in BoardRows /\ RanksDense(W) /\ Live(W) = Live(S) \ {t}
      /\ \A c : InColumn(W, c) = InColumn(S, c) \ {t}
      /\ \A u \in Live(S) \ {t} :
            W[u] = [status |-> S[u].status,
                    rank |-> IF S[u].status = S[t].status /\ S[u].rank > S[t].rank THEN S[u].rank - 1 ELSE S[u].rank]
  BY Zenon DEF TakenOut, S
<1>3. ASSUME NEW u \in Live(W)
      PROVE  /\ W[u] = [status |-> b[u].status,
                        rank |-> IF b[u].status = b[t].status /\ b[u].rank > b[t].rank
                                 THEN b[u].rank - 1 ELSE b[u].rank]
             /\ W[u].status = b[u].status /\ b[u].status \in cols
  <2>1. S[u] = b[u] /\ S[t] = b[t] /\ b[u].status \in cols /\ u \in Live(S) \ {t}
    BY <1>1, <1>2
  <2>2. W[u] = [status |-> b[u].status,
                rank |-> IF b[u].status = b[t].status /\ b[u].rank > b[t].rank THEN b[u].rank - 1 ELSE b[u].rank]
    BY <1>2, <2>1
  <2>3. QED BY <2>1, <2>2
<1>4. /\ N \in BoardRows /\ RanksDense(N)
      /\ Live(N) = Live(W) \cup {u \in Live(b) : b[u].status \notin cols}
      /\ \A u \in Live(W) : N[u] = W[u]
      /\ \A u \in Tasks \ Live(W) : N[u] = IF u \in Live(b) /\ b[u].status \in cols THEN Unset ELSE b[u]
      /\ \A c \in cols : InColumn(N, c) = InColumn(W, c)
      /\ \A c : c \notin cols => InColumn(N, c) = InColumn(b, c)
  <2>1. \A u \in Live(W) : W[u].status \in cols /\ (u \in Live(b) => b[u].status \in cols)
    BY <1>3
  <2>2. QED BY <1>2, <2>1, ReplacedRows
<1>. HIDE DEF N
<1>5. Live(N) = Live(b) \ {t}
  BY <1>1, <1>2, <1>4
<1>6. ASSUME NEW c PROVE InColumn(N, c) = InColumn(b, c) \ {t}
  <2>1. CASE c \in cols
    BY <1>1, <1>2, <1>4, <2>1
  <2>2. CASE c \notin cols
    BY <1>4, <2>2 DEF InColumn
  <2>3. QED BY <2>1, <2>2
<1>7. ASSUME NEW u \in Live(b) \ {t}
      PROVE  /\ N[u] = [status |-> b[u].status,
                        rank |-> IF b[u].status = b[t].status /\ b[u].rank > b[t].rank
                                 THEN b[u].rank - 1 ELSE b[u].rank]
             /\ N[u].status = b[u].status
  <2>1. CASE b[u].status \in cols
    <3>1. u \in Live(W)
      BY <1>1, <1>2, <2>1
    <3>2. N[u] = W[u]
      BY <1>4, <3>1
    <3>3. QED BY <1>3, <3>1, <3>2
  <2>2. CASE b[u].status \notin cols
    <3>1. u \in Tasks /\ u \notin Live(W) /\ b[u] \in Place
      BY <1>3, <2>2, PlaceOfRow DEF Live
    <3>2. N[u] = b[u] /\ b[u].status # b[t].status
      BY <1>4, <2>2, <3>1
    <3>3. b[u] = [status |-> b[u].status, rank |-> b[u].rank]
      BY <3>1 DEF Place
    <3>4. QED BY <3>2, <3>3
  <2>3. QED BY <2>1, <2>2
<1>8. TakenOut(b, N, t)
  BY <1>4, <1>5, <1>6, <1>7 DEF TakenOut
<1>9. QED BY <1>8 DEF N

\* Put in what a transaction has seen, a card is put in all the rows.
LEMMA PutInAll ==
    ASSUME NEW b \in BoardRows, RanksDense(b), NEW cols, NEW t \in Tasks, t \notin Live(b),
           NEW c \in Columns, c \in cols, NEW k, NEW W, PutIn(Shown(b, cols), W, t, c, k)
    PROVE  PutIn(b, Replaced(b, W, cols), t, c, k)
<1>. DEFINE S == Shown(b, cols)
            N == Replaced(b, W, cols)
<1>1. /\ \A u \in Live(S) : S[u] = b[u] /\ u \in Live(b) /\ b[u].status \in cols
      /\ \A u \in Live(b) : b[u].status \in cols => u \in Live(S)
      /\ \A d \in cols : InColumn(S, d) = InColumn(b, d)
  BY ShownRows
<1>. HIDE DEF S
<1>2. /\ W \in BoardRows /\ RanksDense(W) /\ Live(W) = Live(S) \cup {t}
      /\ InColumn(W, c) = InColumn(S, c) \cup {t} /\ \A d : d # c => InColumn(W, d) = InColumn(S, d)
      /\ W[t] = [status |-> c, rank |-> k] /\ k \in Nat /\ k <= Cardinality(InColumn(S, c))
      /\ \A u \in Live(S) :
            W[u] = [status |-> S[u].status,
                    rank |-> IF S[u].status = c /\ S[u].rank >= k THEN S[u].rank + 1 ELSE S[u].rank]
  BY Zenon DEF PutIn, S
<1>3. ASSUME NEW u \in Live(S)
      PROVE  /\ W[u] = [status |-> b[u].status,
                        rank |-> IF b[u].status = c /\ b[u].rank >= k THEN b[u].rank + 1 ELSE b[u].rank]
             /\ W[u].status = b[u].status /\ b[u].status \in cols
  <2>1. S[u] = b[u] /\ b[u].status \in cols
    BY <1>1
  <2>2. W[u] = [status |-> b[u].status,
                rank |-> IF b[u].status = c /\ b[u].rank >= k THEN b[u].rank + 1 ELSE b[u].rank]
    BY <1>2, <2>1
  <2>3. QED BY <2>1, <2>2
<1>4. W[t].status = c
  BY <1>2
<1>5. /\ N \in BoardRows /\ RanksDense(N)
      /\ Live(N) = Live(W) \cup {u \in Live(b) : b[u].status \notin cols}
      /\ \A u \in Live(W) : N[u] = W[u]
      /\ \A u \in Tasks \ Live(W) : N[u] = IF u \in Live(b) /\ b[u].status \in cols THEN Unset ELSE b[u]
      /\ \A d \in cols : InColumn(N, d) = InColumn(W, d)
      /\ \A d : d \notin cols => InColumn(N, d) = InColumn(b, d)
  <2>1. \A u \in Live(W) : W[u].status \in cols /\ (u \in Live(b) => b[u].status \in cols)
    BY <1>2, <1>3, <1>4
  <2>2. QED BY <1>2, <2>1, ReplacedRows
<1>. HIDE DEF N
<1>6. Live(N) = Live(b) \cup {t}
  BY <1>1, <1>2, <1>5
<1>7. InColumn(N, c) = InColumn(b, c) \cup {t} /\ k <= Cardinality(InColumn(b, c))
  BY <1>1, <1>2, <1>5
<1>8. ASSUME NEW d, d # c PROVE InColumn(N, d) = InColumn(b, d)
  BY <1>1, <1>2, <1>5, <1>8
<1>9. ASSUME NEW u \in Live(b)
      PROVE  /\ N[u] = [status |-> b[u].status,
                        rank |-> IF b[u].status = c /\ b[u].rank >= k THEN b[u].rank + 1 ELSE b[u].rank]
             /\ N[u].status = b[u].status
  <2>1. CASE b[u].status \in cols
    <3>1. u \in Live(S) /\ u \in Live(W)
      BY <1>1, <1>2, <2>1
    <3>2. N[u] = W[u]
      BY <1>5, <3>1
    <3>3. QED BY <1>3, <3>1, <3>2
  <2>2. CASE b[u].status \notin cols
    <3>1. u \in Tasks /\ u \notin Live(W) /\ b[u] \in Place
      BY <1>1, <1>2, <2>2, PlaceOfRow DEF Live
    <3>2. N[u] = b[u] /\ b[u].status # c
      BY <1>5, <2>2, <3>1
    <3>3. b[u] = [status |-> b[u].status, rank |-> b[u].rank]
      BY <3>1 DEF Place
    <3>4. QED BY <3>2, <3>3
  <2>3. QED BY <2>1, <2>2
<1>10. N[t] = [status |-> c, rank |-> k]
  BY <1>2, <1>5
<1>11. PutIn(b, N, t, c, k)
  BY <1>2, <1>5, <1>6, <1>7, <1>8, <1>9, <1>10 DEF PutIn
<1>12. QED BY <1>11 DEF N

\* Taking a card out commutes with looking at the columns touched.
LEMMA TakenAndShown ==
    ASSUME NEW b \in BoardRows, RanksDense(b), NEW cols, NEW t \in Live(b), b[t].status \in cols,
           NEW D, TakenOut(b, D, t), NEW E, TakenOut(Shown(b, cols), E, t)
    PROVE  /\ E = Shown(D, cols)
           /\ \A W : t \in Live(W) /\ W[t].status \in cols => Replaced(D, W, cols) = Replaced(b, W, cols)
<1>. DEFINE S == Shown(b, cols)
<1>1. /\ \A u \in Live(S) : S[u] = b[u] /\ u \in Live(b) /\ b[u].status \in cols
      /\ \A u \in Live(b) : b[u].status \in cols => u \in Live(S)
  BY ShownRows
<1>. HIDE DEF S
<1>2. /\ E \in BoardRows /\ Live(E) = Live(S) \ {t}
      /\ \A u \in Live(S) \ {t} :
            E[u] = [status |-> S[u].status,
                    rank |-> IF S[u].status = S[t].status /\ S[u].rank > S[t].rank THEN S[u].rank - 1 ELSE S[u].rank]
  BY Zenon DEF TakenOut, S
<1>3. /\ D \in BoardRows /\ Live(D) = Live(b) \ {t}
      /\ \A u \in Live(b) \ {t} :
            /\ D[u] = [status |-> b[u].status,
                       rank |-> IF b[u].status = b[t].status /\ b[u].rank > b[t].rank
                                THEN b[u].rank - 1 ELSE b[u].rank]
            /\ D[u].status = b[u].status
  BY Zenon DEF TakenOut
<1>4. ASSUME NEW u \in Tasks
      PROVE  E[u] = IF u \in Live(D) /\ D[u].status \in cols THEN D[u] ELSE Unset
  <2>1. CASE u \in Live(E)
    <3>1. u \in Live(S) \ {t} /\ S[u] = b[u] /\ S[t] = b[t] /\ b[u].status \in cols /\ u \in Live(b)
      BY <1>1, <1>2, <2>1
    <3>2. E[u] = [status |-> b[u].status,
                  rank |-> IF b[u].status = b[t].status /\ b[u].rank > b[t].rank THEN b[u].rank - 1 ELSE b[u].rank]
      BY <1>2, <3>1
    <3>3. D[u] = E[u] /\ D[u].status = b[u].status /\ u \in Live(D)
      BY <1>3, <3>1, <3>2
    <3>4. QED BY <3>1, <3>3
  <2>2. CASE u \notin Live(E)
    <3>1. E[u] = Unset
      BY <2>2 DEF Live
    <3>2. ~(u \in Live(D) /\ D[u].status \in cols)
      BY <1>1, <1>2, <1>3, <2>2
    <3>3. QED BY <3>1, <3>2
  <2>3. QED BY <2>1, <2>2
<1>5. E = Shown(D, cols)
  BY <1>2, <1>4 DEF Shown, BoardRows
<1>6. ASSUME NEW W, t \in Live(W), W[t].status \in cols PROVE Replaced(D, W, cols) = Replaced(b, W, cols)
  <2>. DEFINE inD == {s \in Live(D) : D[s].status \in cols} \cup {s \in Live(W) : W[s].status \in cols}
              inB == {s \in Live(b) : b[s].status \in cols} \cup {s \in Live(W) : W[s].status \in cols}
  <2>1. inD = inB
    BY <1>3, <1>6
  <2>2. ASSUME NEW u \in Tasks, u \notin inB PROVE D[u] = b[u]
    <3>1. u # t
      BY <1>6, <2>2
    <3>2. CASE u \in Live(b)
      <4>1. b[u].status # b[t].status /\ b[u] \in Place
        BY <2>2, <3>2, PlaceOfRow
      <4>2. b[u] = [status |-> b[u].status, rank |-> b[u].rank]
        BY <4>1 DEF Place
      <4>3. QED BY <1>3, <3>1, <3>2, <4>1, <4>2
    <3>3. CASE u \notin Live(b)
      BY <1>3, <3>3 DEF Live
    <3>4. QED BY <3>2, <3>3
  <2>. HIDE DEF inD, inB
  <2>3. Replaced(D, W, cols) = [u \in Tasks |-> IF u \in inD THEN W[u] ELSE D[u]]
    BY DEF Replaced, inD
  <2>4. Replaced(b, W, cols) = [u \in Tasks |-> IF u \in inB THEN W[u] ELSE b[u]]
    BY DEF Replaced, inB
  <2>5. QED BY <2>1, <2>2, <2>3, <2>4
<1>7. QED BY <1>5, <1>6

\* A commit takes one card out, puts one in or does both, or leaves the rows alone.
LEMMA CommitEffect ==
    ASSUME TaskInv, NEW q \in Requests, At(q, "open")
    PROVE  \/ Merged(q) = rows
           \/ \E t \in Live(rows) : TakenOut(rows, Merged(q), t)
           \/ \E t \in Tasks \ Live(rows), c \in Columns, k \in Nat : PutIn(rows, Merged(q), t, c, k)
           \/ \E t \in Live(rows), c \in Columns, k \in Nat :
                 \E D : TakenOut(rows, D, t) /\ PutIn(D, Merged(q), t, c, k)
<1>. DEFINE r == request[q]
            W == WrittenBy(r)
            N == Merged(q)
            S == Shown(rows, r.touches)
            t == r.task
            d == Target(S, t, r.status)
<1>1. r \in Undertakings /\ r.op # "none" /\ r.phase = "open" /\ Consistent(r) /\ Abreast(r, rows, members)
  BY IdleOrUnderWay DEF TaskInv, TaskTypeOK, Sound, At
<1>2. rows \in BoardRows /\ RanksDense(rows)
  BY DEF TaskInv, TaskTypeOK
<1>3. N = Replaced(rows, W, r.touches)
  <2>1. Written(q) = W
    BY DEF Written, WrittenBy
  <2>2. QED BY <2>1 DEF Merged, Touched, Replaced
<1>4. r.seen = S
  BY <1>1 DEF Abreast
<1>5. /\ r.op \in {"create", "update", "delete"} /\ t \in Tasks /\ r.status \in Columns \cup {Unset}
      /\ r.rank \in Nat \cup {Unset} /\ r.moving \in BOOLEAN
  BY <1>1 DEF Undertakings
<1>6. /\ S \in BoardRows /\ RanksDense(S)
      /\ \A u \in Live(S) : S[u] = rows[u] /\ u \in Live(rows) /\ rows[u].status \in r.touches
      /\ \A u \in Live(rows) : rows[u].status \in r.touches => u \in Live(S)
  BY <1>2, ShownRows
<1>. HIDE DEF N, S, W
<1>7. CASE r.op = "create"
  <2>1. W = Inserted(S, t, r.status, r.rank)
    BY <1>4, <1>7 DEF W, WrittenBy
  <2>2. r.status \in Columns /\ r.moving /\ t \notin Live(rows)
    BY <1>1, <1>5, <1>7 DEF Consistent, Abreast, Early
  <2>3. t \notin Live(S)
    BY <1>6, <2>2
  <2>4. r.status \in r.touches
    BY <1>1, <2>2, UnsetAssumption DEF Abreast, Target
  <2>5. PutIn(S, Inserted(S, t, r.status, r.rank), t, r.status, Slot(S, r.status, r.rank, Unset))
    BY <1>5, <1>6, <2>2, <2>3, InsertedRows
  <2>6. PICK k : k = Slot(S, r.status, r.rank, Unset)
    OBVIOUS
  <2>7. PutIn(S, W, t, r.status, k)
    BY <2>1, <2>5, <2>6
  <2>8. PutIn(rows, N, t, r.status, k)
    BY <1>2, <1>3, <1>5, <2>2, <2>4, <2>7, PutInAll DEF S
  <2>9. k \in Nat
    BY <2>8, Zenon DEF PutIn
  <2>10. QED BY <1>5, <2>2, <2>8, <2>9 DEF N
<1>8. CASE r.op = "delete"
  <2>1. W = Deleted(S, t)
    BY <1>4, <1>8 DEF W, WrittenBy
  <2>2. t \in Live(S)
    BY <1>1, <1>4, <1>8 DEF Consistent, Abreast, Early
  <2>3. TakenOut(S, W, t)
    BY <1>6, <2>1, <2>2, DeletedRows
  <2>4. t \in Live(rows) /\ rows[t].status \in r.touches
    BY <1>6, <2>2
  <2>5. TakenOut(rows, N, t)
    BY <1>2, <1>3, <2>3, <2>4, TakenFromAll DEF S
  <2>6. QED BY <2>4, <2>5 DEF N
<1>9. CASE r.op = "update" /\ r.moving
  <2>1. W = Moved(S, t, r.status, r.rank)
    BY <1>4, <1>9 DEF W, WrittenBy
  <2>2. t \in Live(S) /\ d \in r.touches
    BY <1>1, <1>4, <1>9 DEF Abreast
  <2>3. t \in Live(rows) /\ rows[t].status \in r.touches
    BY <1>6, <2>2
  <2>. DEFINE E == Deleted(S, t)
              D == Deleted(rows, t)
  <2>4. d \in Columns /\ W = Inserted(E, t, d, r.rank)
    BY <1>5, <1>6, <2>1, <2>2, MovedRows
  <2>5. TakenOut(S, E, t)
    BY <1>6, <2>2, DeletedRows
  <2>6. TakenOut(rows, D, t)
    BY <1>2, <2>3, DeletedRows
  <2>. HIDE DEF d, D, E
  <2>7. E \in BoardRows /\ RanksDense(E) /\ t \notin Live(E)
    BY <2>5 DEF TakenOut
  <2>8. D \in BoardRows /\ RanksDense(D) /\ t \notin Live(D)
    BY <2>6 DEF TakenOut
  <2>9. PutIn(E, Inserted(E, t, d, r.rank), t, d, Slot(E, d, r.rank, Unset))
    BY <1>5, <2>4, <2>7, InsertedRows
  <2>10. PICK k : k = Slot(E, d, r.rank, Unset)
    OBVIOUS
  <2>11. PutIn(E, W, t, d, k)
    BY <2>4, <2>9, <2>10
  <2>12. t \in Live(W) /\ W[t] = [status |-> d, rank |-> k] /\ k \in Nat
    BY <2>11, Zenon DEF PutIn
  <2>13. W[t].status \in r.touches
    BY <2>2, <2>12
  <2>14. E = Shown(D, r.touches) /\ Replaced(D, W, r.touches) = N
    BY <1>2, <1>3, <2>3, <2>5, <2>6, <2>12, <2>13, TakenAndShown DEF S
  <2>15. PutIn(D, Replaced(D, W, r.touches), t, d, k)
    <3>1. PutIn(Shown(D, r.touches), W, t, d, k)
      BY <2>11, <2>14
    <3>2. QED BY <1>5, <2>2, <2>4, <2>8, <3>1, PutInAll
  <2>16. PutIn(D, N, t, d, k)
    BY <2>14, <2>15
  <2>17. QED BY <2>3, <2>4, <2>6, <2>12, <2>16 DEF N
<1>10. CASE r.op = "update" /\ ~r.moving
  <2>1. W = S
    BY <1>4, <1>10 DEF W, WrittenBy
  <2>2. ASSUME NEW u \in Tasks
        PROVE  (IF u \in {s \in Live(rows) : rows[s].status \in r.touches} \cup {s \in Live(W) : W[s].status \in r.touches}
                THEN W[u] ELSE rows[u]) = rows[u]
    BY <1>6, <2>1
  <2>3. rows = [u \in Tasks |-> rows[u]]
    BY <1>2 DEF BoardRows
  <2>4. N = rows
    BY <1>3, <2>2, <2>3 DEF Replaced
  <2>5. QED BY <2>4 DEF N
<1>11. QED BY <1>5, <1>7, <1>8, <1>9, <1>10

\* The ranks of the rows implement the lists of cards.
LEMMA BoardStep ==
    ASSUME NEW b \in BoardRows, RanksDense(b), NEW N,
           \/ \E t \in Live(b) : TakenOut(b, N, t)
           \/ \E t \in Tasks \ Live(b), c \in Columns, k \in Nat : PutIn(b, N, t, c, k)
           \/ \E t \in Live(b), c \in Columns, k \in Nat : \E D : TakenOut(b, D, t) /\ PutIn(D, N, t, c, k)
    PROVE  \E t \in Tasks :
              \/ t \in Board!Card(BoardOf(b)) /\ BoardOf(N) = Board!Without(BoardOf(b), t)
              \/ \E c \in Columns : \E i \in 0 .. Len(Board!Others(BoardOf(b), c, t)) :
                    BoardOf(N) = Board!With(BoardOf(b), t, c, i)
<1>. Live(b) \subseteq Tasks
  BY DEF Live
<1>1. ASSUME NEW t \in Live(b), TakenOut(b, N, t)
      PROVE  t \in Board!Card(BoardOf(b)) /\ BoardOf(N) = Board!Without(BoardOf(b), t)
  <2>1. t \in Board!Card(BoardOf(b))
    BY CardsOf
  <2>2. \A c \in Columns : Board!Others(BoardOf(b), c, t) = ColumnOf(N, c)
    BY <1>1, OthersOf
  <2>3. QED BY <2>1, <2>2 DEF BoardOf, Board!Without
<1>2. ASSUME NEW t \in Tasks \ Live(b), NEW c \in Columns, NEW k \in Nat, PutIn(b, N, t, c, k)
      PROVE  k \in 0 .. Len(Board!Others(BoardOf(b), c, t)) /\ BoardOf(N) = Board!With(BoardOf(b), t, c, k)
  <2>1. \A e \in Columns : Board!Others(BoardOf(b), e, t) = ColumnOf(b, e)
    BY OthersOfAbsent
  <2>2. QED BY <1>2, <2>1, PutInBoard
<1>3. ASSUME NEW t \in Live(b), NEW c \in Columns, NEW k \in Nat, NEW D, TakenOut(b, D, t), PutIn(D, N, t, c, k)
      PROVE  k \in 0 .. Len(Board!Others(BoardOf(b), c, t)) /\ BoardOf(N) = Board!With(BoardOf(b), t, c, k)
  <2>1. \A e \in Columns : Board!Others(BoardOf(b), e, t) = ColumnOf(D, e)
    BY <1>3, OthersOf
  <2>2. D \in BoardRows /\ RanksDense(D) /\ t \notin Live(D)
    BY <1>3 DEF TakenOut
  <2>3. QED BY <1>3, <2>1, <2>2, PutInBoard
<1>4. QED BY <1>1, <1>2, <1>3

\* The rows, read column by column in the order of the ranks, are the board of ColumnBoard:
\* each commit of TasksService inserts, moves or takes out one card, or changes nothing,
\* and every other step leaves the board alone.
THEOREM TaskBoardImplements == Spec => ImplementsBoard
<1>. DEFINE board == [c \in Columns |-> Column(c)]
<1>1. board = BoardOf(rows)
  BY DEF Column, BoardOf, ColumnOf
<1>2. board' = BoardOf(rows)'
  BY DEF Column, BoardOf, ColumnOf
<1>3. Init => Board!Init
  <2>. SUFFICES ASSUME Init PROVE board = [c \in Columns |-> <<>>]
    BY DEF Board!Init
  <2>1. \A c : InColumn(rows, c) = {}
    BY DEF Init, Live, InColumn
  <2>2. \A c : Column(c) = <<>>
    BY <2>1, FS_EmptySet DEF Column
  <2>3. QED BY <2>2
<1>4. TaskInv /\ TaskInv' /\ [Next]_vars => [Board!Next]_board
  <2>. SUFFICES ASSUME TaskInv, TaskInv', [Next]_vars, board' # board PROVE Board!Next
    OBVIOUS
  <2>1. rows \in BoardRows /\ RanksDense(rows)
    BY DEF TaskInv, TaskTypeOK
  <2>2. rows' # rows
    BY <1>1, <1>2
  <2>3. PICK q \in Requests : At(q, "open") /\ rows' = Merged(q)
    BY <2>2, RowsChange
  <2>4. \/ \E t \in Live(rows) : TakenOut(rows, rows', t)
        \/ \E t \in Tasks \ Live(rows), c \in Columns, k \in Nat : PutIn(rows, rows', t, c, k)
        \/ \E t \in Live(rows), c \in Columns, k \in Nat : \E D : TakenOut(rows, D, t) /\ PutIn(D, rows', t, c, k)
    BY <2>2, <2>3, CommitEffect
  <2>5. PICK t \in Tasks :
          \/ t \in Board!Card(BoardOf(rows)) /\ BoardOf(rows') = Board!Without(BoardOf(rows), t)
          \/ \E c \in Columns : \E i \in 0 .. Len(Board!Others(BoardOf(rows), c, t)) :
                BoardOf(rows') = Board!With(BoardOf(rows), t, c, i)
    BY <2>1, <2>4, BoardStep
  <2>6. BoardOf(rows') = BoardOf(rows)'
    BY DEF BoardOf, ColumnOf, InColumn, Live
  <2>. HIDE DEF board
  <2>7. \/ t \in Board!Card(board) /\ board' = Board!Without(board, t)
        \/ \E c \in Columns : \E i \in 0 .. Len(Board!Others(board, c, t)) : board' = Board!With(board, t, c, i)
    BY <1>1, <1>2, <2>5, <2>6
  <2>8. QED BY <2>7 DEF Board!Next, Board!TakeOut, Board!Insert, Board!Move, board
<1>5. QED BY <1>3, <1>4, TaskBoardInductive, PTL DEF Spec, ImplementsBoard, Board!Spec
=============================================================================
