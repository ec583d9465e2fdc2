----------------------------- MODULE VaultRuntime -----------------------------
(***************************************************************************)
(* How a service stays supplied with credentials: the Vault runtime of the *)
(* backend (vault-runtime.service.ts, with the pool of prisma.service.ts)  *)
(* and of the auth service (runtime.go).  Vault issues database            *)
(* credentials under a lease, to whoever has a token; the lease is a child *)
(* of that token and is revoked with it (vault/bootstrap.sh:190).  The     *)
(* runtime renews both a while before the nearer expiry, signs in again    *)
(* when the token cannot be renewed, and exchanges the pool.  Vault and    *)
(* PostgreSQL are modelled from this use of them.                          *)
(***************************************************************************)
EXTENDS Integers, Sequences

CONSTANTS Margin, Retry, CallTime,      \* renewalSafetyMarginMs, retryIntervalMs, the time-out of a call
          TokenTtl, TokenLimit,         \* token_ttl and token_max_ttl of the role
          LeaseTtl, LeaseLimit,         \* default_ttl and max_ttl of the database role
          MaxInstant, MaxGrants, MaxLeased      \* bounds

(* A call takes time; a retry and the four calls of a renewal end within the *)
(* margin; what is issued lasts longer than it and the calls that follow.    *)
ASSUME RuntimeTimes ==
    /\ {Margin, Retry, CallTime, TokenTtl, TokenLimit, LeaseTtl, LeaseLimit} \subseteq Nat
    /\ CallTime # 0
    /\ Margin >= Retry + 4 * CallTime
    /\ TokenTtl > Margin + 3 * CallTime /\ TokenTtl <= TokenLimit
    /\ LeaseTtl > Margin + 3 * CallTime /\ LeaseTtl <= LeaseLimit

VARIABLES instant,      \* the time
          service,      \* whose runtime it is
          grant,        \* Vault: per token, until when it is good and can be made so
          dblease,      \* Vault: per lease the same, and the token it was issued to
          runtime       \* the service

renewing == <<instant, service, grant, dblease, runtime>>

StartCalls == {"login", "issue", "connect"}
RenewCalls == {"renewToken", "relogin", "reissue", "reconnect", "renewLease", "replace", "refresh"}

Earlier(a, b) == IF a < b THEN a ELSE b
Later(a, b) == IF a < b THEN b ELSE a

Granted(t, at) == at < grant[t].until
Usable(l, at) == at < dblease[l].until /\ Granted(dblease[l].grant, at)

(* scheduleRenewal() and renewalDelay(): when the next renewal is due. *)
Due(r) ==
    LET remaining == Earlier(r.tokenExpiresAt, r.databaseExpiresAt) - instant IN
    IF service = "auth" /\ remaining <= 2 * Margin THEN instant + remaining \div 2
    ELSE instant + Later(0, remaining - Margin)

Scheduled(r) == [r EXCEPT !.phase = "idle", !.since = 0, !.timer = Due(r)]
Asking(r, what) == [r EXCEPT !.phase = what, !.since = instant]

(* A process before its start, and after its end. *)
Process(phase) ==
    [phase |-> phase, since |-> 0, timer |-> 0, token |-> 0, tokenExpiresAt |-> 0, credentials |-> 0,
     databaseExpiresAt |-> 0, next |-> 0, duration |-> 0, pool |-> 0, ready |-> FALSE]

RuntimeInit ==
    /\ instant = 0 /\ service \in {"backend", "auth"} /\ grant = <<>> /\ dblease = <<>>
    /\ runtime = Process("off")

-----------------------------------------------------------------------------
(* Vault carries a request out at some moment between the call and its     *)
(* answer.                                                                   *)
When == runtime.since..instant

LogIn(at) ==
    /\ Len(grant) < MaxGrants
    /\ grant' = Append(grant, [until |-> at + TokenTtl, limit |-> at + TokenLimit])

IssueLease(at) ==
    /\ Granted(runtime.token, at) /\ Len(dblease) < MaxLeased
    /\ dblease' = Append(dblease, [until |-> at + LeaseTtl, limit |-> at + LeaseLimit, grant |-> runtime.token])

RenewGrant(at) ==
    /\ Granted(runtime.token, at)
    /\ grant' = [grant EXCEPT ![runtime.token].until = Earlier(at + TokenTtl, grant[runtime.token].limit)]

RenewLease(at) ==
    /\ Usable(runtime.credentials, at) /\ Granted(runtime.token, at)
    /\ dblease' = [dblease EXCEPT ![runtime.credentials].until =
                      Earlier(at + LeaseTtl, dblease[runtime.credentials].limit)]

-----------------------------------------------------------------------------
(* initialize() and onModuleInit(): the backend is ready, with its timer     *)
(* set, before Prisma connects, the auth service afterwards.  What else the  *)
(* auth service reads in its start (secrets, the transit key) is left out:   *)
(* the time limit of a call there is that of the whole start.                *)

StartRuntime ==
    /\ runtime.phase = "off" /\ runtime' = Asking(runtime, "login")
    /\ UNCHANGED <<instant, service, grant, dblease>>

LoggedIn ==
    /\ runtime.phase = "login" /\ \E at \in When : LogIn(at)
    /\ runtime' = Asking([runtime EXCEPT !.token = Len(grant) + 1], "issue")
    /\ UNCHANGED <<instant, service, dblease>>

(* The expiry of both, as counted from now, and the first renewal. *)
Readied(r) ==
    LET n == [r EXCEPT !.tokenExpiresAt = instant + TokenTtl, !.databaseExpiresAt = instant + LeaseTtl]
    IN  [Scheduled(n) EXCEPT !.ready = TRUE]

FirstIssued ==
    /\ runtime.phase = "issue" /\ \E at \in When : IssueLease(at)
    /\ LET r == [runtime EXCEPT !.credentials = Len(dblease) + 1]
       IN  runtime' = Asking(IF service = "backend" THEN Readied(r) ELSE r, "connect")
    /\ UNCHANGED <<instant, service, grant>>

FirstConnected ==
    /\ runtime.phase = "connect" /\ \E at \in When : Usable(runtime.credentials, at)
    /\ LET r == [runtime EXCEPT !.pool = runtime.credentials, !.phase = "idle", !.since = 0]
       IN  runtime' = IF service = "auth" THEN Readied(r) ELSE r
    /\ UNCHANGED <<instant, service, grant, dblease>>

(* Nothing is retried at the start: the process ends. *)
StartFails ==
    /\ runtime.phase \in StartCalls /\ runtime' = Process("down")
    /\ UNCHANGED <<instant, service, grant, dblease>>

-----------------------------------------------------------------------------
(* renew() and reauthenticate(), from one await to the next.                 *)

RenewalDue ==
    /\ runtime.phase = "idle" /\ runtime.timer <= instant
    /\ runtime' = Asking([runtime EXCEPT !.timer = 0], "renewToken")
    /\ UNCHANGED <<instant, service, grant, dblease>>

TokenRenewed ==
    /\ runtime.phase = "renewToken"
    /\ \E at \in When :
          /\ RenewGrant(at)
          /\ runtime' = Asking([runtime EXCEPT !.tokenExpiresAt = instant + grant'[runtime.token].until - at],
                               "renewLease")
    /\ UNCHANGED <<instant, service, dblease>>

(* Any error is answered by signing in again, also when Vault did renew it. *)
TokenNotRenewed ==
    /\ runtime.phase = "renewToken"
    /\ UNCHANGED grant \/ \E at \in When : RenewGrant(at)
    /\ runtime' = Asking(runtime, "relogin")
    /\ UNCHANGED <<instant, service, dblease>>

(* The client works with the new token from here on (vault.client.ts:55); only *)
(* the auth service counts its expiry at once.                               *)
ReloggedIn ==
    /\ runtime.phase = "relogin" /\ \E at \in When : LogIn(at)
    /\ LET r == [runtime EXCEPT !.token = Len(grant) + 1]
       IN  runtime' = Asking(IF service = "auth" THEN [r EXCEPT !.tokenExpiresAt = instant + TokenTtl] ELSE r,
                             "reissue")
    /\ UNCHANGED <<instant, service, dblease>>

Reissued ==
    /\ runtime.phase \in {"reissue", "replace"} /\ \E at \in When : IssueLease(at)
    /\ runtime' = Asking([runtime EXCEPT !.next = Len(dblease) + 1, !.duration = LeaseTtl],
                         IF runtime.phase = "reissue" THEN "reconnect" ELSE "refresh")
    /\ UNCHANGED <<instant, service, grant>>

LeaseRenewed ==
    /\ runtime.phase = "renewLease"
    /\ \E at \in When :
          /\ RenewLease(at)
          /\ runtime' = Asking([runtime EXCEPT !.next = runtime.credentials,
                                               !.duration = dblease'[runtime.credentials].until - at], "refresh")
    /\ UNCHANGED <<instant, service, grant>>

(* Vault refuses to renew what is at its limit; the auth service takes every *)
(* refusal with 400 for that, also that of a lease which is gone.            *)
LeaseAtLimit ==
    LET l == dblease[runtime.credentials] IN
    /\ runtime.phase = "renewLease" /\ Granted(runtime.token, instant)
    /\ l.until = l.limit \/ (service = "auth" /\ ~Usable(runtime.credentials, instant))
    /\ runtime' = Asking(runtime, "replace")
    /\ UNCHANGED <<instant, service, grant, dblease>>

(* replaceClient() connects the next client before it drops the present one. *)
PoolExchanged ==
    /\ runtime.phase \in {"reconnect", "refresh"} /\ \E at \in When : Usable(runtime.next, at)
    /\ LET r == [runtime EXCEPT !.pool = runtime.next, !.credentials = runtime.next, !.next = 0, !.duration = 0,
                                !.databaseExpiresAt = instant + runtime.duration]
       IN  runtime' = Scheduled(IF runtime.phase = "reconnect" /\ service = "backend"
                                THEN [r EXCEPT !.tokenExpiresAt = instant + TokenTtl] ELSE r)
    /\ UNCHANGED <<instant, service, grant, dblease>>

\* Variant with the fault of trying again however late it is.
NeverGivesUp == FALSE

(* A failure too near to the nearer expiry, or a token that Vault does not   *)
(* know, ends the service (fail(), waitForFatal() in main.ts); otherwise it  *)
(* tries again after a while, the auth service when its next renewal is due. *)
FailsClosed == Earlier(runtime.tokenExpiresAt, runtime.databaseExpiresAt) - instant <= Margin

CallFails ==
    LET r == [runtime EXCEPT !.since = 0, !.next = 0, !.duration = 0, !.timer = instant + Retry] IN
    /\ runtime.phase \in RenewCalls \ {"renewToken"}
    /\ \/ /\ FailsClosed \/ (runtime.phase \in {"renewLease", "replace"} /\ ~Granted(runtime.token, instant))
          /\ runtime' = Process("down")
       \/ /\ ~FailsClosed
          /\ runtime' = [r EXCEPT !.phase = IF service = "auth" THEN "paused" ELSE "idle"]
    /\ UNCHANGED <<instant, service, grant, dblease>>

PauseEnds ==
    /\ runtime.phase = "paused" /\ runtime.timer <= instant /\ runtime' = Scheduled(runtime)
    /\ UNCHANGED <<instant, service, grant, dblease>>

(* onModuleDestroy(), the end of the context of Run(). *)
Shutdown ==
    /\ runtime.phase \notin {"off", "down"} /\ runtime' = Process("down")
    /\ UNCHANGED <<instant, service, grant, dblease>>

(* Every call ends in time, and timers are punctual. *)
Pass ==
    /\ instant < MaxInstant /\ instant' = instant + 1
    /\ CASE runtime.phase \in StartCalls \cup RenewCalls -> instant < runtime.since + CallTime
         [] runtime.phase \in {"idle", "paused"}         -> instant < runtime.timer
         [] runtime.phase \in {"off", "down"}            -> FALSE
    /\ UNCHANGED <<service, grant, dblease, runtime>>

RuntimeNext ==
    \/ StartRuntime \/ LoggedIn \/ FirstIssued \/ FirstConnected \/ StartFails
    \/ RenewalDue \/ TokenRenewed \/ TokenNotRenewed \/ ReloggedIn \/ Reissued
    \/ LeaseRenewed \/ LeaseAtLimit \/ PoolExchanged \/ CallFails \/ PauseEnds
    \/ Shutdown \/ Pass

RuntimeSpec == RuntimeInit /\ [][RuntimeNext]_renewing

-----------------------------------------------------------------------------
Serving == runtime.ready /\ runtime.pool # 0

(* While the service is ready, its pool has the credentials that the runtime *)
(* keeps, and what the runtime takes for their expiry and that of its token  *)
(* is at most the time of its calls later than what Vault has.  It is never  *)
(* at rest past one, and not longer than two renewals take: one that fails   *)
(* is repeated early enough or ends the service.                             *)
NeverPastExpiry ==
    LET nearer == Earlier(runtime.tokenExpiresAt, runtime.databaseExpiresAt) IN
    Serving =>
        /\ runtime.pool = runtime.credentials
        /\ runtime.tokenExpiresAt <= grant[runtime.token].until + 3 * CallTime
        /\ runtime.databaseExpiresAt <= dblease[runtime.pool].until + 2 * CallTime
        /\ instant < nearer + 8 * CallTime
        /\ runtime.phase \in {"idle", "paused"} /\ instant < runtime.timer => instant < nearer

(* Credentials that are not yet to be renewed work                           *)
(* (authentication-authorization.md:429).  They do not when a sign-in of     *)
(* reauthenticate() succeeded and what follows it failed: from then on the   *)
(* new token is renewed, and the lease that the pool goes on with is revoked *)
(* with the old one, long before the expiry the runtime knows of.            *)
CredentialsWork ==
    /\ Serving /\ runtime.phase \in {"idle", "paused"}
    /\ instant + Margin < Earlier(runtime.tokenExpiresAt, runtime.databaseExpiresAt)
    => Usable(runtime.pool, instant)
=============================================================================
