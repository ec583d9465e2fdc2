------------------------------ MODULE FieldLocks ------------------------------
(***************************************************************************)
(* Editing leases of one project: FieldLockManager, RealtimeGateway and    *)
(* the services that save, delete and change members under its locks       *)
(* (src/backend/src).  Node runs one callback at a time, so an action is   *)
(* the code from one await to the next; where it awaits PostgreSQL, the    *)
(* read or write happens in an action and the code goes on in a later one. *)
(* Operations are let in as ResourceAccess says, which ProjectCoordinator  *)
(* implements.  The clock is left out: a lease may expire at any time.     *)
(***************************************************************************)
EXTENDS Naturals, FiniteSets, ResourceJobs

CONSTANTS
    Project,        \* the project of every key and member here
    Users, Owner,   \* accounts, and the one that owns the project
    Sockets,        \* connections
    UserOf,         \* UserOf[s]: the account (and its one session) behind s
    Requests,       \* socket messages and HTTP requests handled concurrently
    Tokens,         \* lease tokens; one that nobody holds is as good as new
    MaxSockets      \* maximumSocketsPerSession

ASSUME UsersAssumption ==
    Owner \in Users /\ UserOf \in [Sockets -> Users] /\ MaxSockets \in Nat
ASSUME NoneAssumption ==
    None \notin Tokens \cup Sockets \cup Users \cup Resources
ASSUME TokensSuffice ==
    /\ IsFiniteSet(Tokens) /\ IsFiniteSet(Resources) /\ IsFiniteSet(Requests)
    /\ Cardinality(Resources) + Cardinality(Requests) <= Cardinality(Tokens) + 1

VARIABLES
    members,    \* users with a ProjectMember row
    accounts,   \* users with a User row
    resources,  \* checklist items and discovery blocks that have a row
    sockets,    \* connections, their rooms, guards and session slots
    leases,     \* FieldLockManager.leases
    requests,   \* where each handler is
    sweep,      \* expired leases that releaseExpiredLeases still visits
    cleanup,    \* leases that handleDisconnect of a socket still visits
    missed      \* history: sockets that a failed or unlocked change of
                \* membership did not reach

vars == <<members, accounts, resources, sockets, leases, requests, sweep,
          cleanup, missed>>

-----------------------------------------------------------------------------
SocketPhases == {"new", "joined", "joining", "checking", "admitted", "passed",
                 "ready"}

Socket == [pc: SocketPhases, connected: BOOLEAN, room: BOOLEAN,
           guarded: BOOLEAN, counted: BOOLEAN]

NewSocket == [pc |-> "new", connected |-> FALSE, room |-> FALSE,
              guarded |-> FALSE, counted |-> FALSE]

Lease == [socket: Sockets, token: Tokens, expired: BOOLEAN]

NoLease == [socket |-> None, token |-> None, expired |-> FALSE]

SocketKinds == {"lock", "unlock", "renew", "query"}
MemberKinds == {"add", "remove"}

Request == [kind: SocketKinds \cup MemberKinds \cup {"save", "delete", "none"},
            pc: {"idle", "waiting", "member", "resource", "act", "write",
                 "release", "row", "rooms"},
            socket: Sockets \cup {None}, user: Users \cup {None},
            key: Resources \cup {None}, token: Tokens \cup {None}]

NoRequest == [kind |-> "none", pc |-> "idle", socket |-> None, user |-> None,
              key |-> None, token |-> None]

SocketsOf(u) == {s \in Sockets : UserOf[s] = u}
Connected == {s \in Sockets : sockets[s].connected}

\* The user who holds the lease on k.
Holds(u, k) == leases[k] # NoLease /\ UserOf[leases[k].socket] = u

-----------------------------------------------------------------------------
(* The coordinator: what runs, and what may begin.                         *)

Shared(k)    == [mode |-> "shared", project |-> Project, resource |-> k]
ExclusiveJob == [mode |-> "exclusive", project |-> Project, resource |-> None]

JobOf(r) == IF requests[r].kind \in MemberKinds THEN ExclusiveJob
                                                ELSE Shared(requests[r].key)

Running ==
    {JobOf(r) : r \in {q \in Requests : requests[q].pc \notin {"idle", "waiting"}}}
      \cup {ExclusiveJob : s \in {t \in Sockets :
                                    sockets[t].pc \in {"checking", "admitted"}}}

Granted(job) == \A other \in Running : ~Conflict(job, other)

\* Shared access as the sweep and the cleanup take it.
GrantedShared(k) == Granted(Shared(k))

Finish(r) == requests' = [requests EXCEPT ![r] = NoRequest]

GoTo(r, pc) == requests' = [requests EXCEPT ![r].pc = pc]

Dropped(k) == [leases EXCEPT ![k] = NoLease]

\* leases once releaseIfExpired(k) has run.
Freshened(k) == IF leases[k].expired THEN Dropped(k) ELSE leases

\* Tokens a new lease on k may get: nobody could present one for another lease.
UnusedTokens(k) ==
    {t \in Tokens : /\ \A j \in Resources \ {k} : leases[j].token # t
                    /\ \A r \in Requests : requests[r].token # t}

-----------------------------------------------------------------------------
(* Connections.                                                            *)

\* handleConnection and joinRooms up to the first await: the slot is taken and
\* the user's own room joined.  A socket over the cap is cut off at once.
Connect(s) ==
    /\ ~sockets[s].connected /\ sockets[s].pc = "new"
    /\ cleanup[s] = {}
    /\ \A k \in Resources : leases[k].socket # s
    /\ \A r \in Requests : requests[r].socket # s
    /\ UserOf[s] \in accounts
    /\ Cardinality({t \in SocketsOf(UserOf[s]) : sockets[t].counted}) < MaxSockets
    /\ sockets' = [sockets EXCEPT ![s] = [NewSocket EXCEPT
                     !.pc = "joined", !.connected = TRUE, !.counted = TRUE]]
    /\ missed' = missed \ {s}
    /\ UNCHANGED <<members, accounts, resources, leases, requests, sweep, cleanup>>

\* The snapshot of the user's memberships.
FindMemberships(s) ==
    /\ sockets[s].pc = "joined"
    /\ sockets' = [sockets EXCEPT ![s].pc =
                     IF UserOf[s] \in members THEN "joining" ELSE "passed"]
    /\ UNCHANGED <<members, accounts, resources, leases, requests, sweep,
                   cleanup, missed>>

\* withProject lets the join of the project's room begin.
BeginJoin(s) ==
    /\ sockets[s].pc = "joining"
    /\ Granted(ExclusiveJob)
    /\ sockets' = [sockets EXCEPT ![s].pc =
                     IF sockets[s].connected THEN "checking" ELSE "passed"]
    /\ UNCHANGED <<members, accounts, resources, leases, requests, sweep,
                   cleanup, missed>>

\* Variant with the fault of a join on the strength of the snapshot.
TrustSnapshot(s) ==
    /\ sockets[s].pc = "checking"
    /\ sockets' = [sockets EXCEPT ![s].pc = "admitted"]
    /\ UNCHANGED <<members, accounts, resources, leases, requests, sweep,
                   cleanup, missed>>

\* The membership is read again under the project lock.
RecheckMembership(s) ==
    /\ sockets[s].pc = "checking"
    /\ sockets' = [sockets EXCEPT ![s].pc =
                     IF UserOf[s] \in members THEN "admitted" ELSE "passed"]
    /\ UNCHANGED <<members, accounts, resources, leases, requests, sweep,
                   cleanup, missed>>

EnterRoom(s) ==
    /\ sockets[s].pc = "admitted"
    /\ sockets' = [sockets EXCEPT ![s].pc = "passed",
                                  ![s].room = sockets[s].connected]
    /\ UNCHANGED <<members, accounts, resources, leases, requests, sweep,
                   cleanup, missed>>

\* Variant with the fault of a missing last look at client.connected.
AlwaysReady(s) ==
    /\ sockets[s].pc = "passed"
    /\ sockets' = [sockets EXCEPT ![s].pc = "ready", ![s].guarded = TRUE]
    /\ UNCHANGED <<members, accounts, resources, leases, requests, sweep,
                   cleanup, missed>>

\* joinRooms ends: the guards start, unless the connection is gone by now.
BecomeReady(s) ==
    /\ sockets[s].pc = "passed"
    /\ sockets' = [sockets EXCEPT ![s] =
                     IF sockets[s].connected
                       THEN [@ EXCEPT !.pc = "ready", !.guarded = TRUE]
                       ELSE NewSocket]
    /\ UNCHANGED <<members, accounts, resources, leases, requests, sweep,
                   cleanup, missed>>

\* The connection ends, by the client, the guards or an error in joinRooms:
\* rooms, slot and guards go at once, the leases one after another.
Disconnect(s) ==
    /\ sockets[s].connected
    /\ sockets' = [sockets EXCEPT ![s] = [NewSocket EXCEPT
                     !.pc = IF sockets[s].pc = "ready" THEN "new"
                                                       ELSE sockets[s].pc]]
    /\ cleanup' = [cleanup EXCEPT ![s] =
                     {k \in Resources : leases[k].socket = s}]
    /\ missed' = missed \ {s}
    /\ UNCHANGED <<members, accounts, resources, leases, requests, sweep>>

\* releaseSocket under the resource's lock, for one lease of its snapshot.
CleanUp(s, k) ==
    /\ k \in cleanup[s]
    /\ GrantedShared(k)
    /\ leases' = IF leases[k].socket = s THEN Dropped(k) ELSE leases
    /\ cleanup' = [cleanup EXCEPT ![s] = @ \ {k}]
    /\ UNCHANGED <<members, accounts, resources, sockets, requests, sweep, missed>>

-----------------------------------------------------------------------------
(* Leases expire and are swept.                                            *)

\* FIELD_LOCK_TTL_MS have passed since the lease was taken or renewed.
Expire(k) ==
    /\ leases[k] # NoLease /\ ~leases[k].expired
    /\ leases' = [leases EXCEPT ![k].expired = TRUE]
    /\ UNCHANGED <<members, accounts, resources, sockets, requests, sweep,
                   cleanup, missed>>

\* Variant with the fault of a comparison the wrong way round.
UnexpiredLeases == {k \in Resources : leases[k] # NoLease /\ ~leases[k].expired}

ExpiredLeases == {k \in Resources : leases[k].expired}

\* The interval timer fires.
StartSweep ==
    /\ ~ (ExpiredLeases \subseteq sweep)
    /\ sweep' = sweep \cup ExpiredLeases
    /\ UNCHANGED <<members, accounts, resources, sockets, leases, requests,
                   cleanup, missed>>

\* Variant with the fault of a sweep that skips the resource's lock.
SweepUnlocked(k) ==
    /\ k \in sweep
    /\ sweep' = sweep \ {k}
    /\ leases' = Freshened(k)
    /\ UNCHANGED <<members, accounts, resources, sockets, requests, cleanup, missed>>

\* Under the resource's lock, a lease renewed since is left alone.
SweepOne(k) ==
    /\ k \in sweep
    /\ GrantedShared(k)
    /\ sweep' = sweep \ {k}
    /\ leases' = Freshened(k)
    /\ UNCHANGED <<members, accounts, resources, sockets, requests, cleanup, missed>>

-----------------------------------------------------------------------------
(* Requests arrive.                                                        *)

Ask(r, request) ==
    /\ requests[r].pc = "idle"
    /\ requests' = [requests EXCEPT ![r] = request]
    /\ UNCHANGED <<members, accounts, resources, sockets, leases, sweep,
                   cleanup, missed>>

\* field:lock, field:unlock, field:renew or field:query from a ready socket; a
\* renewal may carry the token of the socket's lease.
SocketAsks(r, kind, s, k, t) ==
    /\ sockets[s].pc = "ready"
    /\ t # None => kind = "renew" /\ leases[k].socket = s /\ leases[k].token = t
    /\ Ask(r, [kind |-> kind, pc |-> "waiting", socket |-> s, user |-> UserOf[s],
               key |-> k, token |-> t])

\* PATCH or DELETE of a resource, with the token of a lease of the user or with
\* none that is any good.
UserAsks(r, kind, u, k, t) ==
    /\ t # None => Holds(u, k) /\ leases[k].token = t
    /\ Ask(r, [kind |-> kind, pc |-> "waiting", socket |-> None, user |-> u,
               key |-> k, token |-> t])

\* An authorized request to add or remove a member.
ChangeMembers(r, kind, u) ==
    Ask(r, [kind |-> kind, pc |-> "waiting", socket |-> None, user |-> u,
            key |-> None, token |-> None])

-----------------------------------------------------------------------------
(* Requests run under the coordinator.                                     *)

\* The lease with which withValidatedLease lets a save begin.
ValidLease(r) ==
    LET lease == leases[requests[r].key]
    IN  /\ lease # NoLease /\ ~lease.expired
        /\ UserOf[lease.socket] = requests[r].user
        /\ lease.token = requests[r].token

Begin(r) ==
    LET q == requests[r]
    IN  /\ q.pc = "waiting"
        /\ Granted(JobOf(r))
        /\ \/ /\ q.kind \in SocketKinds
              /\ IF sockets[q.socket].connected /\ sockets[q.socket].room
                   THEN GoTo(r, "member") ELSE Finish(r)
              /\ UNCHANGED leases
           \/ /\ q.kind = "save"
              /\ IF ValidLease(r)
                   THEN GoTo(r, "member") /\ UNCHANGED leases
                   ELSE Finish(r) /\ leases' = Freshened(q.key)
           \/ q.kind = "delete" /\ GoTo(r, "member") /\ UNCHANGED leases
           \/ q.kind \in MemberKinds /\ GoTo(r, "row") /\ UNCHANGED leases
        /\ UNCHANGED <<members, accounts, resources, sockets, sweep, cleanup, missed>>

\* isCurrentProjectMember, or assertMembership in findById.
CheckMember(r) ==
    /\ requests[r].pc = "member"
    /\ IF requests[r].user \in members THEN GoTo(r, "resource") ELSE Finish(r)
    /\ UNCHANGED <<members, accounts, resources, sockets, leases, sweep,
                   cleanup, missed>>

\* keyBelongsToProject, or findFirst in findById.
CheckResource(r) ==
    /\ requests[r].pc = "resource"
    /\ IF requests[r].key \in resources THEN GoTo(r, "act") ELSE Finish(r)
    /\ UNCHANGED <<members, accounts, resources, sockets, leases, sweep,
                   cleanup, missed>>

\* Variant with the fault of an acquisition for a connection that has gone.
AcquireUnseen(r, t) ==
    LET q == requests[r]
    IN  /\ q.pc = "act" /\ q.kind = "lock"
        /\ IF Freshened(q.key)[q.key] # NoLease THEN UNCHANGED leases
             ELSE /\ t \in UnusedTokens(q.key)
                  /\ leases' = [leases EXCEPT ![q.key] =
                                 [socket |-> q.socket, token |-> t, expired |-> FALSE]]
        /\ Finish(r)
        /\ UNCHANGED <<members, accounts, resources, sockets, sweep, cleanup, missed>>

\* acquire: the first to ask gets a lease with a new token t; the socket that
\* has it already keeps its token and the lease is prolonged.
Acquire(r, t) ==
    LET q    == requests[r]
        held == Freshened(q.key)[q.key]
    IN  /\ q.pc = "act" /\ q.kind = "lock"
        /\ IF ~sockets[q.socket].connected \/ held # NoLease THEN UNCHANGED leases
             ELSE /\ t \in UnusedTokens(q.key)
                  /\ leases' = [leases EXCEPT ![q.key] =
                                 [socket |-> q.socket, token |-> t, expired |-> FALSE]]
        /\ Finish(r)
        /\ UNCHANGED <<members, accounts, resources, sockets, sweep, cleanup, missed>>

\* field:unlock releases the socket's own lease only.
Release(r) ==
    LET q == requests[r]
    IN  /\ q.pc = "act" /\ q.kind = "unlock"
        /\ leases' = IF leases[q.key].socket = q.socket THEN Dropped(q.key) ELSE leases
        /\ Finish(r)
        /\ UNCHANGED <<members, accounts, resources, sockets, sweep, cleanup, missed>>

\* field:renew of the lease the client names; an expired one is released and a
\* valid one gets its full time again.
Renew(r) ==
    LET q == requests[r]
    IN  /\ q.pc = "act" /\ q.kind = "renew"
        /\ leases' = IF leases[q.key].socket = q.socket /\ leases[q.key].token = q.token
                       THEN Freshened(q.key) ELSE leases
        /\ Finish(r)
        /\ UNCHANGED <<members, accounts, resources, sockets, sweep, cleanup, missed>>

\* field:query releases an expired lease on its way.
Query(r) ==
    /\ requests[r].pc = "act" /\ requests[r].kind = "query"
    /\ leases' = Freshened(requests[r].key)
    /\ Finish(r)
    /\ UNCHANGED <<members, accounts, resources, sockets, sweep, cleanup, missed>>

\* withValidatedLease looks again once the save is authorized.
Recheck(r) ==
    LET q     == requests[r]
        lease == leases[q.key]
    IN  /\ q.pc = "act" /\ q.kind = "save"
        /\ IF lease # NoLease /\ ~lease.expired /\ lease.token = q.token
             THEN GoTo(r, "write") ELSE Finish(r)
        /\ UNCHANGED <<members, accounts, resources, sockets, leases, sweep,
                       cleanup, missed>>

\* The saved fields reach the row, if there still is one.
Save(r) ==
    /\ requests[r].pc = "write" /\ requests[r].kind = "save"
    /\ Finish(r)
    /\ UNCHANGED <<members, accounts, resources, sockets, leases, sweep,
                   cleanup, missed>>

\* assertLeaseOwnerIfLocked: somebody else's valid lease forbids the deletion.
MayDelete(r) ==
    LET q    == requests[r]
        held == Freshened(q.key)[q.key]
    IN  /\ q.pc = "act" /\ q.kind = "delete"
        /\ IF held = NoLease \/ (Holds(q.user, q.key) /\ held.token = q.token)
             THEN GoTo(r, "write") ELSE Finish(r)
        /\ leases' = Freshened(q.key)
        /\ UNCHANGED <<members, accounts, resources, sockets, sweep, cleanup, missed>>

\* The row goes; that it has gone before is no error.
Delete(r) ==
    /\ requests[r].pc = "write" /\ requests[r].kind = "delete"
    /\ resources' = resources \ {requests[r].key}
    /\ GoTo(r, "release")
    /\ UNCHANGED <<members, accounts, sockets, leases, sweep, cleanup, missed>>

\* releaseFieldLockForResource.
ReleaseDeleted(r) ==
    /\ requests[r].pc = "release"
    /\ leases' = Dropped(requests[r].key)
    /\ Finish(r)
    /\ UNCHANGED <<members, accounts, resources, sockets, sweep, cleanup, missed>>

\* addMember up to the insertion of the row; the owner stands for whoever may
\* change members.
AddRow(r) ==
    LET u == requests[r].user
    IN  /\ requests[r].pc = "row" /\ requests[r].kind = "add"
        /\ IF Owner \in members /\ u \in accounts \ members
             THEN members' = members \cup {u} /\ GoTo(r, "rooms")
             ELSE Finish(r) /\ UNCHANGED members
        /\ UNCHANGED <<accounts, resources, sockets, leases, sweep, cleanup, missed>>

\* The end of addMember, once everybody has been notified: joinProjectRoom.
JoinRoom(r) ==
    LET u == requests[r].user
    IN  /\ requests[r].pc = "rooms" /\ requests[r].kind = "add"
        /\ sockets' = [s \in Sockets |->
                         IF s \in SocketsOf(u) \cap Connected
                           THEN [sockets[s] EXCEPT !.room = TRUE] ELSE sockets[s]]
        /\ missed' = IF u \in members THEN missed \ SocketsOf(u)
                                     ELSE missed \cup (SocketsOf(u) \cap Connected)
        /\ Finish(r)
        /\ UNCHANGED <<members, accounts, resources, leases, sweep, cleanup>>

\* removeMember up to the deletion of the row; the owner cannot be removed.
RemoveRow(r) ==
    LET u == requests[r].user
    IN  /\ requests[r].pc = "row" /\ requests[r].kind = "remove"
        /\ IF u \in members \ {Owner}
             THEN members' = members \ {u} /\ GoTo(r, "rooms")
             ELSE Finish(r) /\ UNCHANGED members
        /\ UNCHANGED <<accounts, resources, sockets, leases, sweep, cleanup, missed>>

\* The end of removeMember: leaveProjectRoom and releaseUserInProject.
LeaveRoom(r) ==
    LET u == requests[r].user
    IN  /\ requests[r].pc = "rooms" /\ requests[r].kind = "remove"
        /\ sockets' = [s \in Sockets |->
                         IF s \in SocketsOf(u)
                           THEN [sockets[s] EXCEPT !.room = FALSE] ELSE sockets[s]]
        /\ leases' = [k \in Resources |-> IF Holds(u, k) THEN NoLease ELSE leases[k]]
        /\ missed' = missed \ SocketsOf(u)
        /\ Finish(r)
        /\ UNCHANGED <<members, accounts, resources, sweep, cleanup>>

\* The database fails, or a notification of a membership change does: the
\* handler throws and what it had still to do is not done.
Fail(r) ==
    LET q == requests[r]
    IN  /\ q.pc \in {"member", "resource", "write", "row", "rooms"}
        /\ missed' = IF q.pc = "rooms" THEN missed \cup (SocketsOf(q.user) \cap Connected)
                                       ELSE missed
        /\ Finish(r)
        /\ UNCHANGED <<members, accounts, resources, sockets, leases, sweep, cleanup>>

-----------------------------------------------------------------------------
(* Changes made without the project lock.                                  *)

\* DELETE of an account that owns no project; memberships cascade.
DeleteAccount(u) ==
    /\ u \in accounts \ {Owner}
    /\ accounts' = accounts \ {u}
    /\ members' = members \ {u}
    /\ missed' = missed \cup (SocketsOf(u) \cap Connected)
    /\ UNCHANGED <<resources, sockets, leases, requests, sweep, cleanup>>

\* DELETE of the project; members and resources cascade.
DeleteProject ==
    /\ Owner \in members
    /\ members' = {}
    /\ resources' = {}
    /\ missed' = Connected
    /\ UNCHANGED <<accounts, sockets, leases, requests, sweep, cleanup>>

-----------------------------------------------------------------------------
Init ==
    /\ members = {Owner}
    /\ accounts = Users
    /\ resources = Resources
    /\ sockets = [s \in Sockets |-> NewSocket]
    /\ leases = [k \in Resources |-> NoLease]
    /\ requests = [r \in Requests |-> NoRequest]
    /\ sweep = {}
    /\ cleanup = [s \in Sockets |-> {}]
    /\ missed = {}

Arrive(r) ==
    \/ \E kind \in SocketKinds, s \in Sockets, k \in Resources, t \in Tokens \cup {None} :
         SocketAsks(r, kind, s, k, t)
    \/ \E kind \in {"save", "delete"}, u \in Users, k \in Resources,
          t \in Tokens \cup {None} : UserAsks(r, kind, u, k, t)
    \/ \E kind \in MemberKinds, u \in Users : ChangeMembers(r, kind, u)

Continue(r) ==
    \/ CheckMember(r)   \/ CheckResource(r)
    \/ \E t \in Tokens : Acquire(r, t)
    \/ Release(r)       \/ Renew(r)     \/ Query(r)
    \/ Recheck(r)       \/ Save(r)
    \/ MayDelete(r)     \/ Delete(r)    \/ ReleaseDeleted(r)
    \/ AddRow(r)        \/ JoinRoom(r)
    \/ RemoveRow(r)     \/ LeaveRoom(r)

Join(s) ==
    \/ FindMemberships(s) \/ BeginJoin(s) \/ RecheckMembership(s)
    \/ EnterRoom(s) \/ BecomeReady(s)

Next ==
    \/ \E s \in Sockets : Connect(s) \/ Join(s) \/ Disconnect(s)
    \/ \E s \in Sockets, k \in Resources : CleanUp(s, k)
    \/ \E k \in Resources : Expire(k) \/ SweepOne(k)
    \/ StartSweep
    \/ \E r \in Requests : Arrive(r) \/ Begin(r) \/ Continue(r) \/ Fail(r)
    \/ \E u \in Users : DeleteAccount(u)
    \/ DeleteProject

Spec == Init /\ [][Next]_vars

\* Timers fire, the database answers, and the coordinator lets everybody in
\* (ProjectCoordinator!EveryOperationRuns).
LiveSpec ==
    /\ Spec
    /\ WF_vars(StartSweep)
    /\ \A k \in Resources : SF_vars(SweepOne(k))
    /\ \A s \in Sockets : SF_vars(Join(s))
    /\ \A r \in Requests : SF_vars(Begin(r)) /\ WF_vars(Continue(r))

-----------------------------------------------------------------------------
(* What must hold of the leases.                                           *)

TypeOK ==
    /\ members \in SUBSET Users /\ accounts \in SUBSET Users
    /\ resources \in SUBSET Resources
    /\ sockets \in [Sockets -> Socket]
    /\ leases \in [Resources -> Lease \cup {NoLease}]
    /\ requests \in [Requests -> Request]
    /\ sweep \in SUBSET Resources
    /\ cleanup \in [Sockets -> SUBSET Resources]
    /\ missed \in SUBSET Sockets

\* Nothing outlives a connection, however the end of joinRooms races with its
\* end: no room, no timer, no slot of the session.
NothingOutlivesConnection ==
    \A s \in Sockets : ~sockets[s].connected =>
      ~sockets[s].room /\ ~sockets[s].guarded /\ ~sockets[s].counted

\* A lease belongs to a live connection or handleDisconnect is about to release
\* it: an acquisition that was waiting while the connection ended gets none.
LeaseHasConnection ==
    \A k \in Resources : leases[k] # NoLease =>
      LET s == leases[k].socket IN sockets[s].connected \/ k \in cleanup[s]

\* A removal whose row is gone and whose rooms and leases are still to be seen to.
Removing(u) ==
    \E r \in Requests :
      requests[r].kind = "remove" /\ requests[r].pc = "rooms" /\ requests[r].user = u

Adding(u) ==
    \E r \in Requests :
      requests[r].kind = "add" /\ requests[r].pc = "rooms" /\ requests[r].user = u

\* A lease belongs to a member, but for changes of membership that fail half
\* way or take no lock (missed).
LeaseHolderIsMember ==
    \A k \in Resources : leases[k] # NoLease =>
      LET s == leases[k].socket IN
        \/ UserOf[s] \in members \/ Removing(UserOf[s])
        \/ s \in missed \/ k \in cleanup[s]

\* A ready connection gets the project's events exactly when its user is a
\* member, whatever happened to the membership while it was joining.
RoomsFollowMembership ==
    \A s \in Sockets :
      LET u == UserOf[s] IN
      sockets[s].pc = "ready" /\ s \notin missed =>
        /\ sockets[s].room => u \in members \/ Removing(u)
        /\ u \in members => sockets[s].room \/ Adding(u)

\* Both: what a connection has is what its user's membership gives it, from
\* its setting up to its end.
ConnectionsFollowMembership == NothingOutlivesConnection /\ RoomsFollowMembership

\* A lease is on a row that exists, unless the whole project was deleted.
LeaseHasResource ==
    \A k \in Resources : leases[k] # NoLease /\ members # {} =>
      \/ k \in resources
      \/ \E r \in Requests : requests[r].key = k /\ requests[r].pc = "release"

\* What a lease stands on: a connection, a member and a row, each of which can
\* end on its own while the lease is being asked for or given back.
LeaseWellFounded == LeaseHasConnection /\ LeaseHolderIsMember /\ LeaseHasResource

\* No lost update: a save is written only while the lease it was made under is
\* still there, and a deletion only while nobody else has a lease, although the
\* lease may expire or its connection end between the check and the write.
WritesRespectLeases ==
    \A r \in Requests : requests[r].pc = "write" =>
      LET lease == leases[requests[r].key] IN
        \/ lease # NoLease /\ lease.token = requests[r].token
        \/ requests[r].kind = "delete" /\ lease = NoLease

\* An expired lease is released by somebody, at the latest by the sweep, however
\* busy the resource and the project are.
ExpiredLeasesGo == \A k \in Resources : leases[k].expired ~> ~leases[k].expired

\* realtime.service.ts:105: a lock does not outlive the membership.  When the
\* removal of a member is over, its row gone, the member has no lease left.
RemovalReleasesLeases ==
    [][\A r \in Requests :
         (/\ requests[r].kind = "remove" /\ requests[r].pc = "rooms"
          /\ requests'[r].pc = "idle")
           => \A k \in Resources : leases'[k] = NoLease
                \/ UserOf[leases'[k].socket] # requests[r].user]_vars
=============================================================================
