---------------------------- MODULE FieldLocks_proofs ----------------------------
(***************************************************************************)
(* Proofs about the editing leases, rooms and connections of a project     *)
(* (FieldLocks), for any number of users, connections, requests and rows.  *)
(* They go from what the coordinator lets run together to the state that   *)
(* this protects: each invariant below uses the ones before it.            *)
(***************************************************************************)
EXTENDS FieldLocks, TLAPS

-----------------------------------------------------------------------------
Runs(r) == requests[r].pc \notin {"idle", "waiting"}
Joining(s) == sockets[s].pc \in {"checking", "admitted"}

FieldKinds == SocketKinds \cup {"save", "delete"}

\* A request has what its kind needs, and is where its kind may be.
WellFormed(q) ==
    /\ q.kind \in SocketKinds => q.socket \in Sockets /\ q.user = UserOf[q.socket] /\ q.key \in Resources
    /\ q.kind \in {"save", "delete"} => q.socket = None /\ q.user \in Users /\ q.key \in Resources
    /\ q.kind \in MemberKinds => q.socket = None /\ q.user \in Users
    /\ q.pc \in {"member", "resource", "act"} => q.kind \in FieldKinds
    /\ q.pc = "write" => q.kind \in {"save", "delete"}
    /\ q.pc = "release" => q.kind = "delete"
    /\ q.pc \in {"row", "rooms"} => q.kind \in MemberKinds

ShapeInv == TypeOK /\ \A r \in Requests : WellFormed(requests[r])

\* What the coordinator promises: a change of the members or a join of the
\* room runs alone, and at most one operation runs on a resource.
Exclusion ==
    /\ \A r, p \in Requests : Runs(r) /\ Runs(p) /\ r # p =>
          /\ requests[r].kind \notin MemberKinds /\ requests[p].kind \notin MemberKinds
          /\ requests[r].key # requests[p].key
    /\ \A s \in Sockets, r \in Requests : Joining(s) => ~Runs(r)
    /\ \A s, t \in Sockets : Joining(s) /\ Joining(t) => s = t

-----------------------------------------------------------------------------
(* Shapes.                                                                 *)

\* The initial states have the shapes.
LEMMA ShapesInitially == Init => ShapeInv
BY UsersAssumption
DEF Init, ShapeInv, TypeOK, WellFormed, NoRequest, NewSocket, NoLease, Socket, SocketPhases, Lease, Request,
    SocketKinds, MemberKinds, FieldKinds

\* Only one request changes: it ends, or goes to a place where its kind may be.
LEMMA ShapeOfRequests ==
    ASSUME ShapeInv, NEW r \in Requests, NEW q \in Request, requests' = [requests EXCEPT ![r] = q], WellFormed(q)
    PROVE  requests' \in [Requests -> Request] /\ \A p \in Requests : WellFormed(requests'[p])
BY DEF ShapeInv, TypeOK

\* A request that ends leaves the shapes.
LEMMA FinishShape ==
    ASSUME ShapeInv, NEW r \in Requests, Finish(r)
    PROVE  requests' \in [Requests -> Request] /\ \A p \in Requests : WellFormed(requests'[p])
<1>1. NoRequest \in Request /\ WellFormed(NoRequest)
  BY DEF NoRequest, Request, WellFormed, SocketKinds, MemberKinds, FieldKinds
<1>2. QED BY <1>1, ShapeOfRequests DEF Finish

\* A request that goes on to another phase leaves the shapes.
LEMMA GoToShape ==
    ASSUME ShapeInv, NEW r \in Requests, NEW pc, GoTo(r, pc),
           \/ pc \in {"member", "resource", "act"} /\ requests[r].kind \in FieldKinds
           \/ pc = "write" /\ requests[r].kind \in {"save", "delete"}
           \/ pc = "release" /\ requests[r].kind = "delete"
           \/ pc \in {"row", "rooms"} /\ requests[r].kind \in MemberKinds
    PROVE  requests' \in [Requests -> Request] /\ \A p \in Requests : WellFormed(requests'[p])
<1>1. PICK q : q = [requests[r] EXCEPT !.pc = pc]
  OBVIOUS
<1>2. requests[r] \in Request /\ WellFormed(requests[r])
  BY DEF ShapeInv, TypeOK
<1>3. /\ q \in Request /\ q.pc = pc /\ q.kind = requests[r].kind /\ q.socket = requests[r].socket
      /\ q.user = requests[r].user /\ q.key = requests[r].key
  BY <1>1, <1>2 DEF Request
<1>4. WellFormed(q)
  BY <1>2, <1>3 DEF WellFormed, FieldKinds, SocketKinds, MemberKinds
<1>5. requests' = [requests EXCEPT ![r] = q]
  BY <1>1 DEF GoTo, ShapeInv, TypeOK
<1>6. QED BY <1>3, <1>4, <1>5, ShapeOfRequests

\* Dropping and renewing leases leave a map of leases.
LEMMA LeasesTyped ==
    ASSUME TypeOK, NEW k \in Resources
    PROVE  /\ Dropped(k) \in [Resources -> Lease \cup {NoLease}]
           /\ Freshened(k) \in [Resources -> Lease \cup {NoLease}]
BY DEF TypeOK, Dropped, Freshened

\* Ask leaves the shapes.
LEMMA AskShape ==
    ASSUME ShapeInv, NEW r \in Requests, NEW q \in Request, Ask(r, q), WellFormed(q)
    PROVE  ShapeInv'
<1>1. requests' \in [Requests -> Request] /\ \A p \in Requests : WellFormed(requests'[p])
  BY ShapeOfRequests DEF Ask
<1>2. QED BY <1>1 DEF Ask, ShapeInv, TypeOK, WellFormed

\* Arrive leaves the shapes.
LEMMA ArriveShape == ASSUME ShapeInv, NEW r \in Requests, Arrive(r) PROVE ShapeInv'
<1>1. ASSUME NEW kind \in SocketKinds, NEW s \in Sockets, NEW k \in Resources, NEW t \in Tokens \cup {None},
             SocketAsks(r, kind, s, k, t)
      PROVE  ShapeInv'
  <2>1. PICK q : q = [kind |-> kind, pc |-> "waiting", socket |-> s, user |-> UserOf[s], key |-> k, token |-> t]
    OBVIOUS
  <2>2. q \in Request /\ WellFormed(q)
    BY <2>1, UsersAssumption DEF Request, WellFormed, SocketKinds, MemberKinds
  <2>3. QED BY <1>1, <2>1, <2>2, AskShape DEF SocketAsks
<1>2. ASSUME NEW kind \in {"save", "delete"}, NEW u \in Users, NEW k \in Resources, NEW t \in Tokens \cup {None},
             UserAsks(r, kind, u, k, t)
      PROVE  ShapeInv'
  <2>1. PICK q : q = [kind |-> kind, pc |-> "waiting", socket |-> None, user |-> u, key |-> k, token |-> t]
    OBVIOUS
  <2>2. q \in Request /\ WellFormed(q)
    BY <2>1 DEF Request, WellFormed, SocketKinds, MemberKinds
  <2>3. QED BY <1>2, <2>1, <2>2, AskShape DEF UserAsks
<1>3. ASSUME NEW kind \in MemberKinds, NEW u \in Users, ChangeMembers(r, kind, u) PROVE ShapeInv'
  <2>1. PICK q : q = [kind |-> kind, pc |-> "waiting", socket |-> None, user |-> u, key |-> None, token |-> None]
    OBVIOUS
  <2>2. q \in Request /\ WellFormed(q)
    BY <2>1 DEF Request, WellFormed, SocketKinds, MemberKinds
  <2>3. QED BY <1>3, <2>1, <2>2, AskShape DEF ChangeMembers
<1>4. QED BY <1>1, <1>2, <1>3 DEF Arrive

\* Everything but the requests is of its type again.
OthersTyped ==
    /\ members' \in SUBSET Users /\ accounts' \in SUBSET Users /\ resources' \in SUBSET Resources
    /\ sockets' \in [Sockets -> Socket] /\ leases' \in [Resources -> Lease \cup {NoLease}]
    /\ sweep' \in SUBSET Resources /\ cleanup' \in [Sockets -> SUBSET Resources] /\ missed' \in SUBSET Sockets

\* Begin leaves the shapes.
LEMMA BeginShape == ASSUME ShapeInv, NEW r \in Requests, Begin(r) PROVE ShapeInv'
<1>1. WellFormed(requests[r]) /\ TypeOK
  BY DEF ShapeInv
<1>2. requests' \in [Requests -> Request] /\ \A p \in Requests : WellFormed(requests'[p])
  <2>1. CASE Finish(r)
    BY <2>1, FinishShape
  <2>2. CASE GoTo(r, "member") /\ requests[r].kind \in FieldKinds
    BY <2>2, GoToShape
  <2>3. CASE GoTo(r, "row") /\ requests[r].kind \in MemberKinds
    BY <2>3, GoToShape
  <2>4. QED BY <2>1, <2>2, <2>3 DEF Begin, FieldKinds
<1>3. leases' \in [Resources -> Lease \cup {NoLease}]
  BY <1>1, LeasesTyped DEF Begin, WellFormed, TypeOK
<1>4. QED BY <1>1, <1>2, <1>3 DEF Begin, ShapeInv, TypeOK, WellFormed

\* Continue leaves the shapes.
LEMMA ContinueShape == ASSUME ShapeInv, NEW r \in Requests, Continue(r) \/ Fail(r) PROVE ShapeInv'
<1>1. WellFormed(requests[r]) /\ TypeOK
  BY DEF ShapeInv
<1>2. requests' \in [Requests -> Request] /\ \A p \in Requests : WellFormed(requests'[p])
  <2>1. CASE Finish(r)
    BY <2>1, FinishShape
  <2>2. CASE CheckMember(r) /\ GoTo(r, "resource")
    BY <1>1, <2>2, GoToShape DEF CheckMember, WellFormed
  <2>3. CASE CheckResource(r) /\ GoTo(r, "act")
    BY <1>1, <2>3, GoToShape DEF CheckResource, WellFormed
  <2>4. CASE (Recheck(r) \/ MayDelete(r)) /\ GoTo(r, "write")
    BY <2>4, GoToShape DEF Recheck, MayDelete
  <2>5. CASE Delete(r)
    BY <2>5, GoToShape DEF Delete
  <2>6. CASE (AddRow(r) \/ RemoveRow(r)) /\ GoTo(r, "rooms")
    BY <2>6, GoToShape DEF AddRow, RemoveRow, MemberKinds
  <2>7. QED
    BY <2>1, <2>2, <2>3, <2>4, <2>5, <2>6
    DEF Continue, CheckMember, CheckResource, Acquire, Release, Renew, Query, Recheck, Save, MayDelete,
        ReleaseDeleted, AddRow, JoinRoom, RemoveRow, LeaveRoom, Fail
<1>3. OthersTyped
  <2>1. CASE CheckMember(r) \/ CheckResource(r) \/ Recheck(r) \/ Save(r) \/ Delete(r)
    BY <1>1, <2>1 DEF CheckMember, CheckResource, Recheck, Save, Delete, OthersTyped, TypeOK
  <2>2. ASSUME NEW t \in Tokens, Acquire(r, t) PROVE OthersTyped
    <3>1. requests[r].key \in Resources /\ requests[r].socket \in Sockets
      BY <1>1, <2>2 DEF Acquire, WellFormed, SocketKinds
    <3>2. [socket |-> requests[r].socket, token |-> t, expired |-> FALSE] \in Lease
      BY <3>1 DEF Lease
    <3>3. QED BY <1>1, <2>2, <3>1, <3>2 DEF Acquire, OthersTyped, TypeOK
  <2>3. CASE Release(r) \/ Renew(r) \/ Query(r) \/ MayDelete(r) \/ ReleaseDeleted(r)
    <3>1. requests[r].key \in Resources
      BY <1>1, <2>3 DEF Release, Renew, Query, MayDelete, ReleaseDeleted, WellFormed, SocketKinds
    <3>2. QED
      BY <1>1, <2>3, <3>1, LeasesTyped DEF Release, Renew, Query, MayDelete, ReleaseDeleted, OthersTyped, TypeOK
  <2>4. CASE AddRow(r) \/ RemoveRow(r)
    BY <1>1, <2>4 DEF AddRow, RemoveRow, WellFormed, MemberKinds, OthersTyped, TypeOK
  <2>5. CASE JoinRoom(r)
    BY <1>1, <2>5 DEF JoinRoom, OthersTyped, TypeOK, Socket, SocketsOf
  <2>6. CASE LeaveRoom(r)
    BY <1>1, <2>6 DEF LeaveRoom, OthersTyped, TypeOK, Socket, SocketsOf
  <2>7. CASE Fail(r)
    BY <1>1, <2>7 DEF Fail, OthersTyped, TypeOK, SocketsOf
  <2>8. QED BY <2>1, <2>2, <2>3, <2>4, <2>5, <2>6, <2>7 DEF Continue
<1>4. QED BY <1>2, <1>3 DEF ShapeInv, TypeOK, OthersTyped, WellFormed

\* Connections leaves the shapes.
LEMMA ConnectionsShape ==
    ASSUME ShapeInv, NEW s \in Sockets,
           Connect(s) \/ Join(s) \/ Disconnect(s) \/ \E k \in Resources : CleanUp(s, k)
    PROVE  ShapeInv'
<1>1. NewSocket \in Socket /\ TypeOK
  BY DEF NewSocket, Socket, SocketPhases, ShapeInv
<1>2. CASE Connect(s)
  BY <1>1, <1>2 DEF Connect, ShapeInv, TypeOK, WellFormed, Socket, SocketPhases
<1>3. CASE Join(s)
  <2>1. CASE FindMemberships(s) \/ BeginJoin(s) \/ RecheckMembership(s)
    <3>1. PICK pc \in {"joining", "checking", "admitted", "passed"} : sockets' = [sockets EXCEPT ![s].pc = pc]
      BY <2>1 DEF FindMemberships, BeginJoin, RecheckMembership
    <3>2. PICK n : n = [sockets[s] EXCEPT !.pc = pc]
      OBVIOUS
    <3>3. n \in Socket
      BY <1>1, <3>2 DEF TypeOK, Socket, SocketPhases
    <3>4. sockets' = [sockets EXCEPT ![s] = n]
      BY <1>1, <3>1, <3>2 DEF TypeOK
    <3>5. sockets' \in [Sockets -> Socket]
      BY <1>1, <3>3, <3>4 DEF TypeOK
    <3>6. QED BY <2>1, <3>5 DEF FindMemberships, BeginJoin, RecheckMembership, ShapeInv, TypeOK, WellFormed
  <2>2. CASE EnterRoom(s)
    <3>1. sockets' = [sockets EXCEPT ![s] = [@ EXCEPT !.pc = "passed", !.room = sockets[s].connected]]
      BY <1>1, <2>2 DEF EnterRoom, TypeOK
    <3>2. sockets' \in [Sockets -> Socket]
      BY <1>1, <3>1 DEF TypeOK, Socket, SocketPhases
    <3>3. QED BY <2>2, <3>2 DEF EnterRoom, ShapeInv, TypeOK, WellFormed
  <2>3. CASE BecomeReady(s)
    <3>3. PICK n : n = [sockets[s] EXCEPT !.pc = "ready", !.guarded = TRUE]
      OBVIOUS
    <3>4. n \in Socket
      BY <1>1, <3>3 DEF TypeOK, Socket, SocketPhases
    <3>5. sockets' = [sockets EXCEPT ![s] = n] \/ sockets' = [sockets EXCEPT ![s] = NewSocket]
      BY <1>1, <2>3, <3>3 DEF BecomeReady, TypeOK
    <3>1. sockets' \in [Sockets -> Socket]
      BY <1>1, <3>4, <3>5 DEF TypeOK
    <3>2. QED BY <2>3, <3>1 DEF BecomeReady, ShapeInv, TypeOK, WellFormed
  <2>4. QED BY <1>3, <2>1, <2>2, <2>3 DEF Join
<1>4. CASE Disconnect(s)
  BY <1>1, <1>4 DEF Disconnect, ShapeInv, TypeOK, WellFormed, Socket, SocketPhases
<1>5. ASSUME NEW k \in Resources, CleanUp(s, k) PROVE ShapeInv'
  BY <1>1, <1>5, LeasesTyped DEF CleanUp, ShapeInv, TypeOK, WellFormed
<1>6. QED BY <1>2, <1>3, <1>4, <1>5

\* Every step preserves the shapes.
LEMMA ShapeStep == ShapeInv /\ [Next]_vars => ShapeInv'
<1> SUFFICES ASSUME ShapeInv, [Next]_vars PROVE ShapeInv'
  OBVIOUS
<1>1. CASE UNCHANGED vars
  BY <1>1 DEF vars, ShapeInv, TypeOK, WellFormed
<1>2. ASSUME NEW k \in Resources, Expire(k) \/ SweepOne(k) PROVE ShapeInv'
  <2>1. CASE Expire(k)
    <3>1. leases[k] \in Lease
      BY <2>1 DEF Expire, ShapeInv, TypeOK
    <3>2. PICK n : n = [leases[k] EXCEPT !.expired = TRUE]
      OBVIOUS
    <3>3. n \in Lease
      BY <3>1, <3>2 DEF Lease
    <3>4. leases' = [leases EXCEPT ![k] = n]
      BY <2>1, <3>2 DEF Expire, ShapeInv, TypeOK
    <3>5. leases' \in [Resources -> Lease \cup {NoLease}]
      BY <3>3, <3>4 DEF ShapeInv, TypeOK
    <3>6. QED BY <2>1, <3>5 DEF Expire, ShapeInv, TypeOK, WellFormed
  <2>2. CASE SweepOne(k)
    BY <2>2, LeasesTyped DEF SweepOne, ShapeInv, TypeOK, WellFormed
  <2>3. QED BY <1>2, <2>1, <2>2
<1>3. CASE StartSweep
  BY <1>3 DEF StartSweep, ExpiredLeases, ShapeInv, TypeOK, WellFormed
<1>4. ASSUME NEW u \in Users, DeleteAccount(u) PROVE ShapeInv'
  BY <1>4 DEF DeleteAccount, SocketsOf, ShapeInv, TypeOK, WellFormed
<1>5. CASE DeleteProject
  BY <1>5 DEF DeleteProject, Connected, ShapeInv, TypeOK, WellFormed
<1>6. QED
  BY <1>1, <1>2, <1>3, <1>4, <1>5, ArriveShape, BeginShape, ContinueShape, ConnectionsShape DEF Next

\* Every variable has its type and every request is where its kind may be.
THEOREM ShapesHold == Spec => []ShapeInv
BY ShapesInitially, ShapeStep, PTL DEF Spec

-----------------------------------------------------------------------------
(* What runs together.                                                     *)

\* What a grant of exclusive access says, and what one of shared access says.
LEMMA GrantedAlone ==
    ASSUME Granted(ExclusiveJob)
    PROVE  (\A r \in Requests : ~Runs(r)) /\ (\A s \in Sockets : ~Joining(s))
<1>1. \A r \in Requests : Runs(r) => JobOf(r) \in Running
  BY DEF Running, Runs
<1>2. \A s \in Sockets : Joining(s) => ExclusiveJob \in Running
  BY DEF Running, Joining
<1>3. \A r \in Requests : Conflict(ExclusiveJob, JobOf(r))
  BY DEF JobOf, ExclusiveJob, Shared, Conflict
<1>4. Conflict(ExclusiveJob, ExclusiveJob)
  BY DEF ExclusiveJob, Conflict
<1>5. QED BY <1>1, <1>2, <1>3, <1>4 DEF Granted

\* An operation that is granted conflicts with none that runs.
LEMMA GrantedApart ==
    ASSUME NEW k \in Resources, GrantedShared(k)
    PROVE  /\ \A r \in Requests : Runs(r) => requests[r].kind \notin MemberKinds /\ requests[r].key # k
           /\ \A s \in Sockets : ~Joining(s)
<1>1. \A r \in Requests : Runs(r) => JobOf(r) \in Running
  BY DEF Running, Runs
<1>2. \A s \in Sockets : Joining(s) => ExclusiveJob \in Running
  BY DEF Running, Joining
<1>3. \A r \in Requests : requests[r].kind \in MemberKinds \/ requests[r].key = k => Conflict(Shared(k), JobOf(r))
  BY DEF JobOf, ExclusiveJob, Shared, Conflict
<1>4. Conflict(Shared(k), ExclusiveJob)
  BY DEF ExclusiveJob, Shared, Conflict
<1>5. QED BY <1>1, <1>2, <1>3, <1>4 DEF Granted, GrantedShared

\* A request that goes on stays the same request, or it ends.
SameRequest(q, p) ==
    q.kind = p.kind /\ q.socket = p.socket /\ q.user = p.user /\ q.key = p.key /\ q.token = p.token

\* What Finish changes, and what it leaves alone.
LEMMA FinishMoves ==
    ASSUME ShapeInv, NEW r \in Requests, Finish(r)
    PROVE  \A p \in Requests : requests'[p] = IF p = r THEN NoRequest ELSE requests[p]
BY DEF Finish, ShapeInv, TypeOK

\* What GoTo changes, and what it leaves alone.
LEMMA GoToMoves ==
    ASSUME ShapeInv, NEW r \in Requests, NEW pc, GoTo(r, pc)
    PROVE  /\ \A p \in Requests \ {r} : requests'[p] = requests[p]
           /\ requests'[r].pc = pc /\ SameRequest(requests'[r], requests[r])
BY DEF GoTo, ShapeInv, TypeOK, Request, SameRequest

\* What Continue changes, and what it leaves alone.
LEMMA ContinueMoves ==
    ASSUME ShapeInv, NEW r \in Requests, Continue(r) \/ Fail(r)
    PROVE  /\ Runs(r)
           /\ \A p \in Requests \ {r} : requests'[p] = requests[p]
           /\ requests'[r] = NoRequest \/ SameRequest(requests'[r], requests[r])
           /\ \A s \in Sockets : sockets'[s].pc = sockets[s].pc /\ sockets'[s].connected = sockets[s].connected
<1>1. Finish(r) \/ \E pc : GoTo(r, pc)
  BY DEF Continue, CheckMember, CheckResource, Acquire, Release, Renew, Query, Recheck, Save, MayDelete, Delete,
        ReleaseDeleted, AddRow, JoinRoom, RemoveRow, LeaveRoom, Fail
<1>2. /\ \A p \in Requests \ {r} : requests'[p] = requests[p]
      /\ requests'[r] = NoRequest \/ SameRequest(requests'[r], requests[r])
  BY <1>1, FinishMoves, GoToMoves
<1>3. Runs(r)
  BY DEF Runs, Continue, CheckMember, CheckResource, Acquire, Release, Renew, Query, Recheck, Save, MayDelete, Delete,
        ReleaseDeleted, AddRow, JoinRoom, RemoveRow, LeaveRoom, Fail
<1>4. \A s \in Sockets : sockets'[s].pc = sockets[s].pc /\ sockets'[s].connected = sockets[s].connected
  <2>1. CASE JoinRoom(r) \/ LeaveRoom(r)
    BY <2>1 DEF JoinRoom, LeaveRoom, ShapeInv, TypeOK, Socket
  <2>2. CASE UNCHANGED sockets
    BY <2>2
  <2>3. QED
    BY <2>1, <2>2
    DEF Continue, CheckMember, CheckResource, Acquire, Release, Renew, Query, Recheck, Save, MayDelete, Delete,
        ReleaseDeleted, AddRow, RemoveRow, Fail
<1>5. QED BY <1>2, <1>3, <1>4

\* What Arrive changes, and what it leaves alone.
LEMMA ArriveMoves ==
    ASSUME ShapeInv, NEW r \in Requests, Arrive(r)
    PROVE  /\ \A p \in Requests \ {r} : requests'[p] = requests[p]
           /\ requests'[r].pc = "waiting"
           /\ UNCHANGED <<members, accounts, resources, sockets, leases, sweep, cleanup, missed>>
BY DEF Arrive, SocketAsks, UserAsks, ChangeMembers, Ask, ShapeInv, TypeOK

\* What Begin changes, and what it leaves alone.
LEMMA BeginMoves ==
    ASSUME ShapeInv, NEW r \in Requests, Begin(r)
    PROVE  /\ \A p \in Requests \ {r} : requests'[p] = requests[p]
           /\ \/ requests'[r] = NoRequest
              \/ /\ SameRequest(requests'[r], requests[r])
                 /\ requests'[r].pc = IF requests[r].kind \in MemberKinds THEN "row" ELSE "member"
           /\ UNCHANGED sockets
           /\ requests[r].kind \in FieldKinds \cup MemberKinds
<1>1. \/ Finish(r)
      \/ GoTo(r, IF requests[r].kind \in MemberKinds THEN "row" ELSE "member")
  BY DEF Begin, SocketKinds, MemberKinds
<1>2. UNCHANGED sockets /\ requests[r].kind \in FieldKinds \cup MemberKinds
  BY DEF Begin, FieldKinds
<1>3. QED BY <1>1, <1>2, FinishMoves, GoToMoves

\* What a connection is when it begins and when it has ended.
LEMMA ConnectMoves ==
    ASSUME ShapeInv, NEW s \in Sockets, Connect(s)
    PROVE  /\ \A t \in Sockets \ {s} : sockets'[t] = sockets[t]
           /\ sockets'[s].pc = "joined" /\ sockets'[s].connected /\ ~sockets'[s].room
           /\ ~sockets'[s].guarded /\ sockets'[s].counted
<1>1. NewSocket \in Socket /\ ~NewSocket.room /\ ~NewSocket.guarded
  BY DEF NewSocket, Socket, SocketPhases
<1>2. PICK n : n = [NewSocket EXCEPT !.pc = "joined", !.connected = TRUE, !.counted = TRUE]
  OBVIOUS
<1>3. n.pc = "joined" /\ n.connected = TRUE /\ n.room = NewSocket.room /\ n.guarded = NewSocket.guarded /\ n.counted = TRUE
  BY <1>1, <1>2 DEF Socket
<1>4. sockets' = [sockets EXCEPT ![s] = n]
  BY <1>2 DEF Connect
<1>5. QED BY <1>1, <1>3, <1>4 DEF ShapeInv, TypeOK

\* What Disconnect changes, and what it leaves alone.
LEMMA DisconnectMoves ==
    ASSUME ShapeInv, NEW s \in Sockets, Disconnect(s)
    PROVE  /\ \A t \in Sockets \ {s} : sockets'[t] = sockets[t]
           /\ sockets'[s].pc = IF sockets[s].pc = "ready" THEN "new" ELSE sockets[s].pc
           /\ ~sockets'[s].connected /\ ~sockets'[s].room /\ ~sockets'[s].guarded /\ ~sockets'[s].counted
<1>1. /\ NewSocket \in Socket
      /\ ~NewSocket.connected /\ ~NewSocket.room /\ ~NewSocket.guarded /\ ~NewSocket.counted
  BY DEF NewSocket, Socket, SocketPhases
<1>2. PICK pc : pc = IF sockets[s].pc = "ready" THEN "new" ELSE sockets[s].pc
  OBVIOUS
<1>3. PICK n : n = [NewSocket EXCEPT !.pc = pc]
  OBVIOUS
<1>4. /\ n.pc = pc /\ n.connected = NewSocket.connected /\ n.room = NewSocket.room
      /\ n.guarded = NewSocket.guarded /\ n.counted = NewSocket.counted
  BY <1>1, <1>3 DEF Socket
<1>5. sockets' = [sockets EXCEPT ![s] = n]
  BY <1>2, <1>3 DEF Disconnect
<1>6. QED BY <1>1, <1>2, <1>4, <1>5 DEF ShapeInv, TypeOK

\* Nothing begins.
LEMMA ExclusionKept ==
    ASSUME Exclusion, \A r \in Requests : Runs(r)' => Runs(r) /\ SameRequest(requests'[r], requests[r]),
           \A s \in Sockets : Joining(s)' => Joining(s)
    PROVE  Exclusion'
BY DEF Exclusion, SameRequest

\* Begin lets in nobody who conflicts.
LEMMA BeginExcludes == ASSUME ShapeInv, Exclusion, NEW r \in Requests, Begin(r) PROVE Exclusion'
<1>1. Granted(JobOf(r)) /\ requests[r].pc = "waiting" /\ WellFormed(requests[r])
  BY DEF Begin, ShapeInv
<1>2. \A s \in Sockets : Joining(s)' <=> Joining(s)
  BY BeginMoves DEF Joining
<1>3. \A p \in Requests \ {r} : requests'[p] = requests[p]
  BY BeginMoves
<1>4. CASE requests'[r] = NoRequest
  BY <1>2, <1>3, <1>4, ExclusionKept DEF Runs, NoRequest, SameRequest
<1>5. CASE SameRequest(requests'[r], requests[r]) /\ requests[r].kind \in MemberKinds
  <2>1. (\A p \in Requests : ~Runs(p)) /\ (\A s \in Sockets : ~Joining(s))
    BY <1>1, <1>5, GrantedAlone DEF JobOf
  <2>2. QED BY <1>2, <1>3, <2>1 DEF Exclusion, Runs
<1>6. CASE SameRequest(requests'[r], requests[r]) /\ requests[r].kind \notin MemberKinds
  <2>1. requests[r].key \in Resources
    BY <1>1, <1>6, BeginMoves DEF WellFormed, FieldKinds
  <2>2. /\ \A p \in Requests : Runs(p) => requests[p].kind \notin MemberKinds /\ requests[p].key # requests[r].key
        /\ \A s \in Sockets : ~Joining(s)
    BY <1>1, <1>6, <2>1, GrantedApart DEF JobOf, GrantedShared
  <2>3. QED BY <1>2, <1>3, <1>6, <2>2 DEF Exclusion, Runs, SameRequest
<1>7. QED BY <1>4, <1>5, <1>6, BeginMoves

\* BeginJoin lets in nobody who conflicts.
LEMMA BeginJoinExcludes == ASSUME ShapeInv, Exclusion, NEW s \in Sockets, BeginJoin(s) PROVE Exclusion'
<1>1. (\A p \in Requests : ~Runs(p)) /\ (\A t \in Sockets : ~Joining(t))
  BY GrantedAlone DEF BeginJoin
<1>2. UNCHANGED requests /\ \A t \in Sockets \ {s} : sockets'[t] = sockets[t]
  BY DEF BeginJoin, ShapeInv, TypeOK
<1>3. QED BY <1>1, <1>2 DEF Exclusion, Runs, Joining

\* Every step preserves the exclusion of the operations let in.
LEMMA ExclusionStep == ShapeInv /\ Exclusion /\ [Next]_vars => Exclusion'
<1> SUFFICES ASSUME ShapeInv, Exclusion, [Next]_vars PROVE Exclusion'
  OBVIOUS
<1>1. CASE /\ UNCHANGED requests
           /\ \A s \in Sockets : sockets'[s].pc = sockets[s].pc
  BY <1>1, ExclusionKept DEF Runs, Joining, SameRequest
<1>2. CASE UNCHANGED vars \/ StartSweep \/ DeleteProject \/ \E u \in Users : DeleteAccount(u)
  BY <1>1, <1>2 DEF vars, StartSweep, DeleteProject, DeleteAccount
<1>3. CASE \E k \in Resources : Expire(k) \/ SweepOne(k) \/ \E s \in Sockets : CleanUp(s, k)
  BY <1>1, <1>3 DEF Expire, SweepOne, CleanUp
<1>4. ASSUME NEW s \in Sockets, Connect(s) \/ Disconnect(s) \/ Join(s) PROVE Exclusion'
  <2>1. CASE BeginJoin(s)
    BY <2>1, BeginJoinExcludes
  <2>2. CASE Connect(s) \/ Disconnect(s) \/ FindMemberships(s) \/ RecheckMembership(s) \/ EnterRoom(s) \/ BecomeReady(s)
    <3>1. UNCHANGED requests
      BY <2>2 DEF Connect, Disconnect, FindMemberships, RecheckMembership, EnterRoom, BecomeReady
    <3>2. \A t \in Sockets : Joining(t)' => Joining(t)
      <4>1. \A t \in Sockets \ {s} : sockets'[t] = sockets[t]
        BY <2>2
        DEF Connect, Disconnect, FindMemberships, RecheckMembership, EnterRoom, BecomeReady, ShapeInv, TypeOK
      <4>2. sockets[s] \in Socket /\ sockets \in [Sockets -> Socket]
        BY DEF ShapeInv, TypeOK
      <4>3. CASE Connect(s) \/ Disconnect(s)
        BY <4>3, ConnectMoves, DisconnectMoves DEF Joining
      <4>4. CASE FindMemberships(s) \/ RecheckMembership(s)
        BY <4>2, <4>4 DEF FindMemberships, RecheckMembership, Joining, Socket
      <4>5. CASE EnterRoom(s)
        BY <4>2, <4>5 DEF EnterRoom, Joining, Socket
      <4>6. CASE BecomeReady(s)
        BY <4>2, <4>6 DEF BecomeReady, Joining, Socket, NewSocket
      <4>7. Joining(s)' => Joining(s)
        BY <2>2, <4>3, <4>4, <4>5, <4>6
      <4>8. QED BY <4>1, <4>7 DEF Joining
    <3>3. QED BY <3>1, <3>2, ExclusionKept DEF Runs, SameRequest
  <2>3. QED BY <1>4, <2>1, <2>2 DEF Join
<1>5. ASSUME NEW r \in Requests, Arrive(r) PROVE Exclusion'
  <2>1. \A p \in Requests : Runs(p)' => Runs(p) /\ requests'[p] = requests[p]
    BY <1>5, ArriveMoves DEF Runs
  <2>2. \A s \in Sockets : Joining(s)' => Joining(s)
    BY <1>5, ArriveMoves DEF Joining
  <2>3. QED BY <2>1, <2>2, ExclusionKept DEF SameRequest
<1>6. ASSUME NEW r \in Requests, Continue(r) \/ Fail(r) PROVE Exclusion'
  <2>1. \A p \in Requests : Runs(p)' => Runs(p) /\ SameRequest(requests'[p], requests[p])
    BY <1>6, ContinueMoves DEF Runs, SameRequest, NoRequest
  <2>2. \A s \in Sockets : Joining(s)' => Joining(s)
    BY <1>6, ContinueMoves DEF Joining
  <2>3. QED BY <2>1, <2>2, ExclusionKept
<1>7. QED
  BY <1>2, <1>3, <1>4, <1>5, <1>6, BeginExcludes DEF Next

\* The operations of the model run together only as ResourceAccess allows.
THEOREM OperationsExclude == Spec => []Exclusion
<1>1. Init => Exclusion
  BY DEF Init, Exclusion, Runs, Joining, NoRequest, NewSocket
<1>2. QED BY <1>1, ShapesHold, ExclusionStep, PTL DEF Spec

-----------------------------------------------------------------------------
(* Connections.                                                            *)

\* The steps of joinRooms, in what they change of the connection.
LEMMA PhaseMoves ==
    ASSUME ShapeInv, NEW s \in Sockets, FindMemberships(s) \/ BeginJoin(s) \/ RecheckMembership(s)
    PROVE  /\ \A t \in Sockets \ {s} : sockets'[t] = sockets[t]
           /\ sockets'[s].connected = sockets[s].connected /\ sockets'[s].room = sockets[s].room
           /\ sockets'[s].guarded = sockets[s].guarded /\ sockets'[s].counted = sockets[s].counted
           /\ UNCHANGED <<members, leases, requests, cleanup, missed>>
           /\ FindMemberships(s) =>
                 sockets[s].pc = "joined" /\ sockets'[s].pc = IF UserOf[s] \in members THEN "joining" ELSE "passed"
           /\ BeginJoin(s) =>
                 sockets[s].pc = "joining" /\ sockets'[s].pc = IF sockets[s].connected THEN "checking" ELSE "passed"
           /\ RecheckMembership(s) =>
                 sockets[s].pc = "checking" /\ sockets'[s].pc = IF UserOf[s] \in members THEN "admitted" ELSE "passed"
BY DEF FindMemberships, BeginJoin, RecheckMembership, ShapeInv, TypeOK, Socket

\* What Enter changes, and what it leaves alone.
LEMMA EnterMoves ==
    ASSUME ShapeInv, NEW s \in Sockets, EnterRoom(s)
    PROVE  /\ \A t \in Sockets \ {s} : sockets'[t] = sockets[t]
           /\ sockets[s].pc = "admitted" /\ sockets'[s].pc = "passed"
           /\ sockets'[s].connected = sockets[s].connected /\ sockets'[s].room = sockets[s].connected
           /\ sockets'[s].guarded = sockets[s].guarded /\ sockets'[s].counted = sockets[s].counted
           /\ UNCHANGED <<members, leases, requests, cleanup, missed>>
<1>1. PICK n : n = [sockets[s] EXCEPT !.pc = "passed", !.room = sockets[s].connected]
  OBVIOUS
<1>2. sockets[s] \in Socket
  BY DEF ShapeInv, TypeOK
<1>3. /\ n.pc = "passed" /\ n.connected = sockets[s].connected /\ n.room = sockets[s].connected
      /\ n.guarded = sockets[s].guarded /\ n.counted = sockets[s].counted
  BY <1>1, <1>2 DEF Socket
<1>4. sockets' = [sockets EXCEPT ![s] = n]
  BY <1>1 DEF EnterRoom, ShapeInv, TypeOK
<1>5. QED BY <1>3, <1>4 DEF EnterRoom, ShapeInv, TypeOK

\* What Ready changes, and what it leaves alone.
LEMMA ReadyMoves ==
    ASSUME ShapeInv, NEW s \in Sockets, BecomeReady(s)
    PROVE  /\ \A t \in Sockets \ {s} : sockets'[t] = sockets[t]
           /\ sockets[s].pc = "passed"
           /\ IF sockets[s].connected
              THEN /\ sockets'[s].pc = "ready" /\ sockets'[s].connected /\ sockets'[s].guarded
                   /\ sockets'[s].room = sockets[s].room /\ sockets'[s].counted = sockets[s].counted
              ELSE /\ sockets'[s].pc = "new" /\ ~sockets'[s].connected /\ ~sockets'[s].guarded
                   /\ ~sockets'[s].room /\ ~sockets'[s].counted
           /\ UNCHANGED <<members, leases, requests, cleanup, missed>>
<1>1. PICK n : n = [sockets[s] EXCEPT !.pc = "ready", !.guarded = TRUE]
  OBVIOUS
<1>2. sockets[s] \in Socket
  BY DEF ShapeInv, TypeOK
<1>3. /\ n.pc = "ready" /\ n.connected = sockets[s].connected /\ n.room = sockets[s].room
      /\ n.guarded = TRUE /\ n.counted = sockets[s].counted
  BY <1>1, <1>2 DEF Socket
<1>4. sockets' = [sockets EXCEPT ![s] = IF sockets[s].connected THEN n ELSE NewSocket]
  BY <1>1 DEF BecomeReady, ShapeInv, TypeOK
<1>5. /\ NewSocket.pc = "new" /\ ~NewSocket.connected /\ ~NewSocket.guarded /\ ~NewSocket.room /\ ~NewSocket.counted
  BY DEF NewSocket
<1>6. QED BY <1>3, <1>4, <1>5 DEF BecomeReady, ShapeInv, TypeOK

\* The two changes of rooms that come from a change of membership.
LEMMA JoinRoomMoves ==
    ASSUME ShapeInv, NEW r \in Requests, JoinRoom(r)
    PROVE  /\ \A s \in Sockets :
                 /\ sockets'[s].pc = sockets[s].pc /\ sockets'[s].connected = sockets[s].connected
                 /\ sockets'[s].guarded = sockets[s].guarded /\ sockets'[s].counted = sockets[s].counted
                 /\ IF UserOf[s] = requests[r].user /\ sockets[s].connected
                    THEN sockets'[s].room ELSE sockets'[s].room = sockets[s].room
           /\ UNCHANGED <<members, leases, cleanup>>
BY DEF JoinRoom, SocketsOf, Connected, ShapeInv, TypeOK, Socket

\* What LeaveRoom changes, and what it leaves alone.
LEMMA LeaveRoomMoves ==
    ASSUME ShapeInv, NEW r \in Requests, LeaveRoom(r)
    PROVE  /\ \A s \in Sockets :
                 /\ sockets'[s].pc = sockets[s].pc /\ sockets'[s].connected = sockets[s].connected
                 /\ sockets'[s].guarded = sockets[s].guarded /\ sockets'[s].counted = sockets[s].counted
                 /\ IF UserOf[s] = requests[r].user THEN ~sockets'[s].room ELSE sockets'[s].room = sockets[s].room
           /\ UNCHANGED <<members, cleanup>>
BY DEF LeaveRoom, SocketsOf, ShapeInv, TypeOK, Socket

\* Nothing else changes a connection.
LEMMA WhoMovesSockets ==
    ASSUME ShapeInv, [Next]_vars
    PROVE  \/ UNCHANGED sockets
           \/ \E s \in Sockets : Connect(s) \/ Join(s) \/ Disconnect(s)
           \/ \E r \in Requests : JoinRoom(r) \/ LeaveRoom(r)
<1>1. CASE UNCHANGED vars \/ StartSweep \/ DeleteProject \/ \E u \in Users : DeleteAccount(u)
  BY <1>1 DEF vars, StartSweep, DeleteProject, DeleteAccount
<1>2. CASE \E k \in Resources : Expire(k) \/ SweepOne(k) \/ \E s \in Sockets : CleanUp(s, k)
  BY <1>2 DEF Expire, SweepOne, CleanUp
<1>3. ASSUME NEW r \in Requests, Arrive(r) \/ Begin(r) PROVE UNCHANGED sockets
  BY <1>3, ArriveMoves, BeginMoves
<1>4. ASSUME NEW r \in Requests, Continue(r) \/ Fail(r) PROVE JoinRoom(r) \/ LeaveRoom(r) \/ UNCHANGED sockets
  BY <1>4
  DEF Continue, CheckMember, CheckResource, Acquire, Release, Renew, Query, Recheck, Save, MayDelete, Delete,
      ReleaseDeleted, AddRow, RemoveRow, Fail
<1>5. QED BY <1>1, <1>2, <1>3, <1>4 DEF Next

\* Every step leaves nothing behind of a connection that has ended.
LEMMA OutliveStep == ShapeInv /\ NothingOutlivesConnection /\ [Next]_vars => NothingOutlivesConnection'
<1> SUFFICES ASSUME ShapeInv, NothingOutlivesConnection, [Next]_vars PROVE NothingOutlivesConnection'
  OBVIOUS
<1>1. CASE UNCHANGED sockets
  BY <1>1 DEF NothingOutlivesConnection
<1>2. ASSUME NEW s \in Sockets, Connect(s) \/ Join(s) \/ Disconnect(s) PROVE NothingOutlivesConnection'
  <2>1. ~sockets'[s].connected => ~sockets'[s].room /\ ~sockets'[s].guarded /\ ~sockets'[s].counted
    BY <1>2, ConnectMoves, DisconnectMoves, PhaseMoves, EnterMoves, ReadyMoves DEF Join, NothingOutlivesConnection
  <2>2. \A t \in Sockets \ {s} : sockets'[t] = sockets[t]
    BY <1>2, ConnectMoves, DisconnectMoves, PhaseMoves, EnterMoves, ReadyMoves DEF Join
  <2>3. QED BY <2>1, <2>2 DEF NothingOutlivesConnection
<1>3. ASSUME NEW r \in Requests, JoinRoom(r) \/ LeaveRoom(r) PROVE NothingOutlivesConnection'
  BY <1>3, JoinRoomMoves, LeaveRoomMoves DEF NothingOutlivesConnection
<1>4. QED
  BY <1>1, <1>2, <1>3, WhoMovesSockets

\* When a connection is gone so are its room, its timers and its session slot,
\* wherever joinRooms was when it ended (RealtimeGateway.handleDisconnect and
\* the end of handleConnection).
THEOREM ConnectionsLeaveNothing == Spec => []NothingOutlivesConnection
<1>1. Init => NothingOutlivesConnection
  BY DEF Init, NothingOutlivesConnection, NewSocket
<1>2. QED BY <1>1, ShapesHold, OutliveStep, PTL DEF Spec

-----------------------------------------------------------------------------
(* Leases and their connections.                                           *)

\* A lease that goes on, perhaps expired by now.
GoesOn(k) ==
    /\ leases[k] # NoLease
    /\ leases'[k].socket = leases[k].socket /\ leases'[k].token = leases[k].token

Acquired(r, k) ==
    /\ requests[r].pc = "act" /\ requests[r].kind = "lock" /\ requests[r].key = k
    /\ leases'[k] # NoLease /\ leases'[k].socket = requests[r].socket
    /\ sockets[requests[r].socket].connected
    /\ UNCHANGED <<members, accounts, resources, sockets, sweep, cleanup, missed>>

\* A lease begins only with an acquisition for a connection.
LEMMA AcquireMoves ==
    ASSUME ShapeInv, NEW r \in Requests, NEW t \in Tokens, Acquire(r, t), NEW k \in Resources,
           leases'[k] # leases[k]
    PROVE  Acquired(r, k)
<1>1. requests[r].socket \in Sockets /\ leases \in [Resources -> Lease \cup {NoLease}]
  BY DEF ShapeInv, TypeOK, Acquire, WellFormed, SocketKinds
<1>2. /\ leases' = [leases EXCEPT ![requests[r].key] =
                       [socket |-> requests[r].socket, token |-> t, expired |-> FALSE]]
      /\ sockets[requests[r].socket].connected
  BY DEF Acquire
<1>3. requests[r].key = k /\ leases'[k] = [socket |-> requests[r].socket, token |-> t, expired |-> FALSE]
  BY <1>1, <1>2
<1>4. leases'[k] # NoLease /\ leases'[k].socket = requests[r].socket
  BY <1>1, <1>3, NoneAssumption DEF NoLease
<1>5. QED BY <1>2, <1>3, <1>4 DEF Acquired, Acquire

\* What Drop changes, and what it leaves alone.
LEMMA DropMoves ==
    ASSUME ShapeInv, NEW k \in Resources, leases' \in {leases, Dropped(k), Freshened(k)}, NEW j \in Resources
    PROVE  leases'[j] = NoLease \/ leases'[j] = leases[j]
BY DEF ShapeInv, TypeOK, Dropped, Freshened

\* The steps that change the map of leases, and how.
LEMMA WhoMovesLeases ==
    ASSUME ShapeInv, [Next]_vars, NEW k \in Resources, leases'[k] # NoLease
    PROVE  GoesOn(k) \/ \E r \in Requests : Acquired(r, k)
<1>1. CASE UNCHANGED leases
  BY <1>1 DEF GoesOn
<1>2. ASSUME NEW j \in Resources, leases' \in {leases, Dropped(j), Freshened(j)} PROVE GoesOn(k)
  BY <1>2, DropMoves DEF GoesOn
<1>3. ASSUME NEW j \in Resources, Expire(j) PROVE GoesOn(k)
  BY <1>3 DEF Expire, GoesOn, ShapeInv, TypeOK, Lease
<1>4. ASSUME NEW r \in Requests, Release(r) \/ Renew(r) \/ Query(r) \/ MayDelete(r) \/ ReleaseDeleted(r) PROVE GoesOn(k)
  <2>1. requests[r].key \in Resources
    BY <1>4 DEF Release, Renew, Query, MayDelete, ReleaseDeleted, ShapeInv, WellFormed, SocketKinds
  <2>2. leases' \in {leases, Dropped(requests[r].key), Freshened(requests[r].key)}
    BY <1>4 DEF Release, Renew, Query, MayDelete, ReleaseDeleted
  <2>3. QED BY <1>2, <2>1, <2>2
<1>5. ASSUME NEW r \in Requests, LeaveRoom(r) PROVE GoesOn(k)
  BY <1>5 DEF LeaveRoom, GoesOn
<1>6. ASSUME NEW r \in Requests, Begin(r) PROVE GoesOn(k)
  <2>1. CASE requests[r].kind = "save"
    <3>1. requests[r].key \in Resources
      BY <2>1 DEF ShapeInv, WellFormed
    <3>2. leases' \in {leases, Freshened(requests[r].key)}
      BY <1>6, <2>1 DEF Begin, SocketKinds, MemberKinds
    <3>3. QED BY <1>2, <3>1, <3>2
  <2>2. CASE requests[r].kind # "save"
    BY <1>1, <1>6, <2>2 DEF Begin, GoesOn
  <2>3. QED BY <2>1, <2>2
<1>7. ASSUME NEW r \in Requests, Arrive(r) PROVE UNCHANGED leases
  BY <1>7, ArriveMoves
<1>8. ASSUME NEW r \in Requests, NEW t \in Tokens, Acquire(r, t) PROVE GoesOn(k) \/ Acquired(r, k)
  BY <1>8, AcquireMoves DEF GoesOn
<1>9. ASSUME NEW r \in Requests, Continue(r) \/ Fail(r) PROVE GoesOn(k) \/ \E q \in Requests : Acquired(q, k)
  <2>1. CASE CheckMember(r) \/ CheckResource(r) \/ Recheck(r) \/ Save(r) \/ Delete(r) \/ AddRow(r) \/ JoinRoom(r)
               \/ RemoveRow(r) \/ Fail(r)
    BY <1>1, <2>1 DEF CheckMember, CheckResource, Recheck, Save, Delete, AddRow, JoinRoom, RemoveRow, Fail
  <2>2. QED BY <1>4, <1>5, <1>8, <1>9, <2>1 DEF Continue
<1>10. CASE UNCHANGED vars \/ StartSweep \/ DeleteProject \/ \E u \in Users : DeleteAccount(u)
  BY <1>1, <1>10 DEF vars, StartSweep, DeleteProject, DeleteAccount
<1>11. ASSUME NEW s \in Sockets, Connect(s) \/ Join(s) \/ Disconnect(s) PROVE UNCHANGED leases
  BY <1>11
  DEF Connect, Disconnect, Join, FindMemberships, BeginJoin, RecheckMembership, EnterRoom, BecomeReady
<1>12. ASSUME NEW s \in Sockets, NEW j \in Resources, CleanUp(s, j) PROVE leases' \in {leases, Dropped(j)}
  BY <1>12 DEF CleanUp
<1>13. ASSUME NEW j \in Resources, SweepOne(j) PROVE leases' = Freshened(j)
  BY <1>13 DEF SweepOne
<1>14. QED
  BY <1>1, <1>2, <1>3, <1>6, <1>7, <1>9, <1>10, <1>11, <1>12, <1>13 DEF Next

\* A connection only ends by Disconnect, and a lease leaves the list of a
\* connection that has ended by being released.
LEMMA WhoEndsSockets ==
    ASSUME ShapeInv, [Next]_vars, NEW s \in Sockets, sockets[s].connected, ~sockets'[s].connected
    PROVE  Disconnect(s)
BY WhoMovesSockets, ConnectMoves, DisconnectMoves, PhaseMoves, EnterMoves, ReadyMoves, JoinRoomMoves, LeaveRoomMoves
   DEF Join

\* What a clean-up has yet to visit stays to be visited until the lease is gone or somebody else's.
LEMMA WhoClears ==
    ASSUME ShapeInv, [Next]_vars, NEW s \in Sockets, NEW k \in cleanup[s]
    PROVE  \/ k \in cleanup'[s]
           \/ Disconnect(s)
           \/ leases'[k] = NoLease \/ (leases'[k] = leases[k] /\ leases[k].socket # s)
<1>1. k \in Resources /\ cleanup \in [Sockets -> SUBSET Resources] /\ leases \in [Resources -> Lease \cup {NoLease}]
  BY DEF ShapeInv, TypeOK
<1>2. CASE UNCHANGED cleanup
  BY <1>2
<1>3. ASSUME NEW t \in Sockets, Disconnect(t) PROVE t = s \/ k \in cleanup'[s]
  BY <1>1, <1>3 DEF Disconnect
<1>4. ASSUME NEW t \in Sockets, NEW j \in Resources, CleanUp(t, j)
      PROVE  k \in cleanup'[s] \/ leases'[k] = NoLease \/ (leases'[k] = leases[k] /\ leases[k].socket # s)
  BY <1>1, <1>4 DEF CleanUp, Dropped
<1>5. CASE UNCHANGED vars \/ StartSweep \/ DeleteProject \/ (\E u \in Users : DeleteAccount(u))
             \/ \E j \in Resources : Expire(j) \/ SweepOne(j)
  BY <1>2, <1>5 DEF vars, StartSweep, DeleteProject, DeleteAccount, Expire, SweepOne
<1>6. ASSUME NEW t \in Sockets, Connect(t) \/ Join(t) PROVE UNCHANGED cleanup
  BY <1>6 DEF Connect, Join, FindMemberships, BeginJoin, RecheckMembership, EnterRoom, BecomeReady
<1>7. ASSUME NEW r \in Requests, Arrive(r) \/ Begin(r) PROVE UNCHANGED cleanup
  BY <1>7, ArriveMoves DEF Begin
<1>8. ASSUME NEW r \in Requests, Continue(r) \/ Fail(r) PROVE UNCHANGED cleanup
  BY <1>8
  DEF Continue, CheckMember, CheckResource, Acquire, Release, Renew, Query, Recheck, Save, MayDelete, Delete,
      ReleaseDeleted, AddRow, JoinRoom, RemoveRow, LeaveRoom, Fail
<1>9. QED BY <1>2, <1>3, <1>4, <1>5, <1>6, <1>7, <1>8 DEF Next

\* Every step leaves each lease with its connection or with a clean-up that reaches it.
LEMMA ConnectionStep == ShapeInv /\ LeaseHasConnection /\ [Next]_vars => LeaseHasConnection'
<1> SUFFICES ASSUME ShapeInv, LeaseHasConnection, [Next]_vars, NEW k \in Resources, leases'[k] # NoLease,
                    NEW s, s = leases'[k].socket
             PROVE  sockets'[s].connected \/ k \in cleanup'[s]
  BY DEF LeaseHasConnection
<1>1. CASE GoesOn(k)
  <2>1. /\ s \in Sockets /\ leases[k] # NoLease /\ s = leases[k].socket
        /\ sockets[s].connected \/ k \in cleanup[s]
    BY <1>1 DEF GoesOn, LeaseHasConnection, ShapeInv, TypeOK, Lease
  <2>2. CASE Disconnect(s)
    BY <2>1, <2>2 DEF Disconnect, ShapeInv, TypeOK
  <2>3. CASE ~Disconnect(s) /\ sockets[s].connected
    BY <2>1, <2>3, WhoEndsSockets
  <2>4. CASE ~Disconnect(s) /\ k \in cleanup[s]
    BY <2>1, <2>4, WhoClears
  <2>5. QED BY <2>1, <2>2, <2>3, <2>4
<1>2. CASE \E r \in Requests : Acquired(r, k)
  BY <1>2 DEF Acquired
<1>3. QED BY <1>1, <1>2, WhoMovesLeases

\* Whoever holds a lease is connected, or the end of the connection is about
\* to release it: an acquisition that was waiting then gets none (acquire).
THEOREM LeasesHaveConnections == Spec => []LeaseHasConnection
<1>1. Init => LeaseHasConnection
  BY DEF Init, LeaseHasConnection
<1>2. QED BY <1>1, ShapesHold, ConnectionStep, PTL DEF Spec

-----------------------------------------------------------------------------
(* Saves and deletions.                                                    *)

\* Only who has the resource to himself takes a lease of it away, and only he
\* gives one: an operation that runs, or one that the coordinator lets in.
LEMMA WriterAlone ==
    ASSUME ShapeInv, Exclusion, [Next]_vars, NEW r \in Requests, requests[r].pc = "write", requests'[r] = requests[r]
    PROVE  /\ leases'[requests[r].key] = leases[requests[r].key] \/ GoesOn(requests[r].key)
<1>1. PICK k : k = requests[r].key
  OBVIOUS
<1>2. /\ Runs(r) /\ requests[r].kind \in {"save", "delete"} /\ k \in Resources
      /\ leases \in [Resources -> Lease \cup {NoLease}] /\ requests \in [Requests -> Request]
  BY <1>1 DEF Runs, ShapeInv, WellFormed, TypeOK
<1>3. \A p \in Requests : Runs(p) /\ p # r => requests[p].key # k /\ requests[p].kind \notin MemberKinds
  BY <1>1, <1>2 DEF Exclusion
<1>4. \A j \in Resources : GrantedShared(j) => j # k
  BY <1>1, <1>2, GrantedApart
<1>5. UNCHANGED leases => leases'[k] = leases[k]
  OBVIOUS
<1>6. ASSUME NEW j \in Resources, j # k, leases' \in {leases, Dropped(j), Freshened(j)} PROVE leases'[k] = leases[k]
  BY <1>2, <1>6 DEF Dropped, Freshened
<1>7. ASSUME NEW j \in Resources, Expire(j) PROVE leases'[k] = leases[k] \/ GoesOn(k)
  BY <1>2, <1>7 DEF Expire, GoesOn, Lease
<1>8. ASSUME NEW j \in Resources, SweepOne(j) PROVE leases'[k] = leases[k]
  BY <1>4, <1>6, <1>8 DEF SweepOne
<1>9. ASSUME NEW s \in Sockets, NEW j \in Resources, CleanUp(s, j) PROVE leases'[k] = leases[k]
  BY <1>4, <1>6, <1>9 DEF CleanUp
<1>10. ASSUME NEW p \in Requests, Begin(p) PROVE leases'[k] = leases[k]
  <2>1. CASE requests[p].kind = "save"
    <3>1. requests[p].key \in Resources /\ GrantedShared(requests[p].key)
      BY <1>10, <2>1 DEF Begin, ShapeInv, WellFormed, JobOf, MemberKinds, GrantedShared
    <3>2. leases' \in {leases, Freshened(requests[p].key)}
      BY <1>10, <2>1 DEF Begin, SocketKinds, MemberKinds
    <3>3. QED BY <1>4, <1>6, <3>1, <3>2
  <2>2. CASE requests[p].kind # "save"
    BY <1>10, <2>2 DEF Begin
  <2>3. QED BY <2>1, <2>2
<1>11. ASSUME NEW p \in Requests, Continue(p) \/ Fail(p) PROVE leases'[k] = leases[k]
  <2>1. Runs(p)
    BY <1>11, ContinueMoves
  <2>2. CASE p = r
    <3>1. Save(r) \/ Delete(r) \/ Fail(r)
      BY <1>2, <1>11, <2>2
      DEF Continue, CheckMember, CheckResource, Acquire, Release, Renew, Query, Recheck, MayDelete, ReleaseDeleted,
          AddRow, JoinRoom, RemoveRow, LeaveRoom, MemberKinds
    <3>2. QED BY <3>1 DEF Save, Delete, Fail
  <2>3. CASE p # r
    <3>1. requests[p].key # k /\ requests[p].kind \notin MemberKinds
      BY <1>3, <2>1, <2>3
    <3>2. CASE Release(p) \/ Renew(p) \/ Query(p) \/ MayDelete(p) \/ ReleaseDeleted(p)
      <4>1. requests[p].key \in Resources
        BY <3>2 DEF Release, Renew, Query, MayDelete, ReleaseDeleted, ShapeInv, WellFormed, SocketKinds
      <4>2. leases' \in {leases, Dropped(requests[p].key), Freshened(requests[p].key)}
        BY <3>2 DEF Release, Renew, Query, MayDelete, ReleaseDeleted
      <4>3. QED BY <1>6, <3>1, <4>1, <4>2
    <3>3. ASSUME NEW t \in Tokens, Acquire(p, t) PROVE leases'[k] = leases[k]
      BY <1>2, <3>1, <3>3 DEF Acquire
    <3>4. CASE LeaveRoom(p)
      BY <3>1, <3>4 DEF LeaveRoom, MemberKinds
    <3>5. CASE UNCHANGED leases
      BY <3>5
    <3>6. QED
      BY <1>11, <3>2, <3>3, <3>4, <3>5
      DEF Continue, CheckMember, CheckResource, Recheck, Save, Delete, AddRow, JoinRoom, RemoveRow, Fail
  <2>4. QED BY <2>2, <2>3
<1>12. ASSUME UNCHANGED vars \/ StartSweep \/ DeleteProject \/ \E u \in Users : DeleteAccount(u)
       PROVE  UNCHANGED leases
  BY <1>12 DEF vars, StartSweep, DeleteProject, DeleteAccount
<1>13. ASSUME NEW s \in Sockets, Connect(s) \/ Join(s) \/ Disconnect(s) PROVE UNCHANGED leases
  BY <1>13
  DEF Connect, Disconnect, Join, FindMemberships, BeginJoin, RecheckMembership, EnterRoom, BecomeReady
<1>14. ASSUME NEW p \in Requests, Arrive(p) PROVE UNCHANGED leases
  BY <1>14, ArriveMoves
<1>15. leases'[k] = leases[k] \/ GoesOn(k)
  BY <1>5, <1>7, <1>8, <1>9, <1>10, <1>11, <1>12, <1>13, <1>14 DEF Next
<1>16. QED BY <1>1, <1>15

\* A request comes to its write only by a check of the lease.
LEMMA WhoWrites ==
    ASSUME ShapeInv, [Next]_vars, NEW r \in Requests, requests'[r].pc = "write"
    PROVE  requests'[r] = requests[r] \/ Recheck(r) \/ MayDelete(r)
<1>1. CASE UNCHANGED requests
  BY <1>1
<1>2. ASSUME NEW p \in Requests, Arrive(p) \/ Begin(p) PROVE requests'[r] = requests[r]
  BY <1>2, ArriveMoves, BeginMoves DEF NoRequest
<1>3. ASSUME NEW p \in Requests, Continue(p) \/ Fail(p) PROVE requests'[r] = requests[r] \/ Recheck(r) \/ MayDelete(r)
  <2>1. CASE p # r
    BY <1>3, <2>1, ContinueMoves
  <2>2. CASE p = r /\ Finish(p)
    BY <2>2, FinishMoves DEF NoRequest
  <2>3. CASE p = r /\ ~Finish(p)
    <3>1. CASE GoTo(r, "resource") \/ GoTo(r, "act") \/ GoTo(r, "release") \/ GoTo(r, "rooms")
      BY <3>1, GoToMoves
    <3>2. CASE Recheck(r) \/ MayDelete(r)
      BY <3>2
    <3>3. CASE CheckMember(r) \/ CheckResource(r) \/ Delete(r) \/ AddRow(r) \/ RemoveRow(r)
      BY <2>3, <3>1, <3>3 DEF CheckMember, CheckResource, Delete, AddRow, RemoveRow
    <3>4. ~(\E t \in Tokens : Acquire(r, t)) /\ ~Release(r) /\ ~Renew(r) /\ ~Query(r) /\ ~Save(r)
          /\ ~ReleaseDeleted(r) /\ ~JoinRoom(r) /\ ~LeaveRoom(r) /\ ~Fail(r)
      BY <2>3 DEF Acquire, Release, Renew, Query, Save, ReleaseDeleted, JoinRoom, LeaveRoom, Fail
    <3>5. QED BY <1>3, <2>3, <3>2, <3>3, <3>4 DEF Continue
  <2>4. QED BY <2>1, <2>2, <2>3
<1>4. CASE UNCHANGED vars \/ StartSweep \/ DeleteProject \/ (\E u \in Users : DeleteAccount(u))
             \/ \E j \in Resources : Expire(j) \/ SweepOne(j)
  BY <1>1, <1>4 DEF vars, StartSweep, DeleteProject, DeleteAccount, Expire, SweepOne
<1>5. ASSUME NEW s \in Sockets, Connect(s) \/ Join(s) \/ Disconnect(s) \/ \E k \in Resources : CleanUp(s, k)
      PROVE  UNCHANGED requests
  BY <1>5
  DEF Connect, Disconnect, CleanUp, Join, FindMemberships, BeginJoin, RecheckMembership, EnterRoom, BecomeReady
<1>6. QED BY <1>1, <1>2, <1>3, <1>4, <1>5 DEF Next

\* Every step leaves a save that writes with the lease it was checked against.
LEMMA WritesStep == ShapeInv /\ Exclusion /\ WritesRespectLeases /\ [Next]_vars => WritesRespectLeases'
<1> SUFFICES ASSUME ShapeInv, Exclusion, WritesRespectLeases, [Next]_vars, NEW r \in Requests, requests'[r].pc = "write"
             PROVE  LET lease == leases'[requests'[r].key] IN
                      \/ lease # NoLease /\ lease.token = requests'[r].token
                      \/ requests'[r].kind = "delete" /\ lease = NoLease
  BY DEF WritesRespectLeases
<1>1. CASE requests'[r] = requests[r]
  <2>1. requests[r].key \in Resources
    BY <1>1 DEF ShapeInv, WellFormed
  <2>2. leases'[requests[r].key] = leases[requests[r].key] \/ GoesOn(requests[r].key)
    BY <1>1, WriterAlone
  <2>3. leases'[requests[r].key] = NoLease \/ leases[requests[r].key] # NoLease \/ leases'[requests[r].key] = leases[requests[r].key]
    BY <2>2 DEF GoesOn
  <2>4. GoesOn(requests[r].key) /\ leases[requests[r].key].token = requests[r].token
          => leases'[requests[r].key] # NoLease
    <3>1. requests[r].token \in Tokens \cup {None} /\ leases[requests[r].key] \in Lease \cup {NoLease}
      BY <2>1 DEF ShapeInv, TypeOK, Request
    <3>2. GoesOn(requests[r].key) => leases'[requests[r].key].token \in Tokens
      BY <3>1 DEF GoesOn, Lease
    <3>3. QED BY <3>2, NoneAssumption DEF NoLease
  <2>5. QED BY <1>1, <2>2, <2>4 DEF WritesRespectLeases, GoesOn
<1>2. CASE Recheck(r)
  <2>1. GoTo(r, "write") /\ leases' = leases /\ leases[requests[r].key] # NoLease
        /\ leases[requests[r].key].token = requests[r].token
    BY <1>2, FinishMoves DEF Recheck, NoRequest
  <2>2. QED BY <2>1, GoToMoves DEF SameRequest
<1>3. CASE MayDelete(r)
  <2>1. /\ GoTo(r, "write") /\ leases' = Freshened(requests[r].key) /\ requests[r].kind = "delete"
        /\ \/ Freshened(requests[r].key)[requests[r].key] = NoLease
           \/ Holds(requests[r].user, requests[r].key) /\ Freshened(requests[r].key)[requests[r].key].token = requests[r].token
    BY <1>3, FinishMoves DEF MayDelete, NoRequest
  <2>2. QED BY <2>1, GoToMoves DEF SameRequest
<1>4. QED BY <1>1, <1>2, <1>3, WhoWrites

\* No lost update: when a save is written the lease it was made under is still
\* there, when a row is deleted nobody else holds one (withValidatedLease and
\* assertLeaseOwnerIfLocked under withProjectResource).
THEOREM NoLostUpdates == Spec => []WritesRespectLeases
<1>1. Init => WritesRespectLeases
  BY DEF Init, WritesRespectLeases, NoRequest
<1>2. QED BY <1>1, ShapesHold, OperationsExclude, WritesStep, PTL DEF Spec

-----------------------------------------------------------------------------
(* Members, rooms and leases.                                              *)

\* What the room of a connection says, from its snapshot of the memberships to
\* its end, unless it was not reached by a change (missed).
RoomState(s) ==
    LET u == UserOf[s] IN
    /\ sockets[s].pc = "ready" => sockets[s].connected
    /\ sockets[s].connected /\ s \notin missed =>
          /\ sockets[s].room => u \in members \/ Removing(u)
          /\ sockets[s].pc \in {"passed", "ready"} /\ u \in members => sockets[s].room \/ Adding(u)
          /\ sockets[s].pc = "admitted" => u \in members

\* A connection whose user is a member, or that a change did not reach.
Present(s) == UserOf[s] \in members \/ s \in missed

MembershipInv ==
    /\ \A s \in Sockets : RoomState(s)
    /\ \A r \in Requests :
          requests[r].kind = "remove" /\ requests[r].pc = "rooms" => requests[r].user \notin members
    /\ \A r \in Requests :
          requests[r].kind \in SocketKinds /\ requests[r].pc \in {"resource", "act"} =>
             Present(requests[r].socket) \/ ~sockets[requests[r].socket].connected

\* What a step leaves of the changes of membership that are half done.
SameRooms ==
    \A r \in Requests :
        \/ requests'[r] = requests[r]
        \/ requests[r].pc # "rooms" /\ requests'[r].pc # "rooms"

\* While the requests of members stay as they are, so do the removals and additions under way.
LEMMA PendingKept ==
    ASSUME SameRooms, NEW u PROVE (Removing(u)' <=> Removing(u)) /\ (Adding(u)' <=> Adding(u))
BY DEF SameRooms, Removing, Adding

\* A request's step leaves the removals and additions of other users as they are.
LEMMA OthersPending ==
    ASSUME NEW r \in Requests, \A p \in Requests \ {r} : requests'[p] = requests[p],
           requests'[r] = NoRequest \/ SameRequest(requests'[r], requests[r]), NEW u, requests[r].user # u
    PROVE  (Removing(u)' <=> Removing(u)) /\ (Adding(u)' <=> Adding(u))
BY DEF Removing, Adding, SameRequest, NoRequest

\* The steps that bear on a membership.
LEMMA WhoMovesMembers ==
    ASSUME ShapeInv, [Next]_vars
    PROVE  \/ UNCHANGED <<members, missed>> /\ SameRooms
           \/ \E s \in Sockets : Connect(s) \/ Disconnect(s)
           \/ \E r \in Requests :
                 \/ (AddRow(r) \/ RemoveRow(r)) /\ GoTo(r, "rooms")
                 \/ JoinRoom(r) \/ LeaveRoom(r)
                 \/ Fail(r) /\ requests[r].pc = "rooms"
           \/ DeleteProject \/ \E u \in Users : DeleteAccount(u)
<1>1. CASE UNCHANGED <<members, missed, requests>>
  BY <1>1 DEF SameRooms
<1>2. ASSUME NEW r \in Requests, Arrive(r) PROVE UNCHANGED <<members, missed>> /\ SameRooms
  <2>1. requests[r].pc = "idle"
    BY <1>2 DEF Arrive, SocketAsks, UserAsks, ChangeMembers, Ask
  <2>2. QED BY <1>2, <2>1, ArriveMoves DEF SameRooms
<1>3. ASSUME NEW r \in Requests, Begin(r) PROVE UNCHANGED <<members, missed>> /\ SameRooms
  <2>1. UNCHANGED <<members, missed>> /\ requests[r].pc = "waiting"
    BY <1>3 DEF Begin
  <2>2. QED BY <1>3, <2>1, BeginMoves DEF SameRooms, NoRequest
<1>4. ASSUME NEW r \in Requests, UNCHANGED <<members, missed>>, requests[r].pc # "rooms",
             Finish(r) \/ \E pc \in {"resource", "act", "write", "release"} : GoTo(r, pc)
      PROVE  SameRooms
  <2>1. \A p \in Requests \ {r} : requests'[p] = requests[p]
    BY <1>4, FinishMoves, GoToMoves
  <2>2. requests'[r].pc # "rooms"
    BY <1>4, FinishMoves, GoToMoves DEF NoRequest
  <2>3. QED BY <1>4, <2>1, <2>2 DEF SameRooms
<1>5. ASSUME NEW r \in Requests, Continue(r) \/ Fail(r), ~JoinRoom(r), ~LeaveRoom(r),
             ~((AddRow(r) \/ RemoveRow(r)) /\ GoTo(r, "rooms")), ~(Fail(r) /\ requests[r].pc = "rooms")
      PROVE  UNCHANGED <<members, missed>> /\ SameRooms
  <2>1. CASE CheckMember(r) \/ CheckResource(r) \/ Recheck(r) \/ Save(r) \/ MayDelete(r) \/ Delete(r)
    BY <1>4, <2>1 DEF CheckMember, CheckResource, Recheck, Save, MayDelete, Delete
  <2>2. CASE (\E t \in Tokens : Acquire(r, t)) \/ Release(r) \/ Renew(r) \/ Query(r) \/ ReleaseDeleted(r)
    BY <1>4, <2>2 DEF Acquire, Release, Renew, Query, ReleaseDeleted
  <2>3. CASE AddRow(r) \/ RemoveRow(r)
    BY <1>4, <1>5, <2>3 DEF AddRow, RemoveRow
  <2>4. CASE Fail(r)
    BY <1>4, <1>5, <2>4 DEF Fail
  <2>5. QED BY <1>5, <2>1, <2>2, <2>3, <2>4 DEF Continue
<1>6. ASSUME NEW s \in Sockets, Join(s) \/ \E k \in Resources : CleanUp(s, k)
      PROVE  UNCHANGED <<members, missed, requests>>
  BY <1>6 DEF CleanUp, Join, FindMemberships, BeginJoin, RecheckMembership, EnterRoom, BecomeReady
<1>7. ASSUME UNCHANGED vars \/ StartSweep \/ \E k \in Resources : Expire(k) \/ SweepOne(k)
      PROVE  UNCHANGED <<members, missed, requests>>
  BY <1>7 DEF vars, StartSweep, Expire, SweepOne
<1>8. QED BY <1>1, <1>2, <1>3, <1>5, <1>6, <1>7 DEF Next

\* Only these steps change a connection, its room or its pending changes.
LEMMA RoomKept ==
    ASSUME NEW s \in Sockets, RoomState(s), sockets'[s] = sockets[s],
           UserOf[s] \in members' <=> UserOf[s] \in members, s \in missed' <=> s \in missed,
           Removing(UserOf[s])' <=> Removing(UserOf[s]), Adding(UserOf[s])' <=> Adding(UserOf[s])
    PROVE  RoomState(s)'
<1>1. PICK u : u = UserOf[s]
  OBVIOUS
<1>2. /\ u \in members' <=> u \in members
      /\ Removing(u)' <=> Removing(u)
      /\ Adding(u)' <=> Adding(u)
  BY <1>1
<1>3. /\ sockets[s].pc = "ready" => sockets[s].connected
      /\ sockets[s].connected /\ s \notin missed =>
          /\ sockets[s].room => u \in members \/ Removing(u)
          /\ sockets[s].pc \in {"passed", "ready"} /\ u \in members => sockets[s].room \/ Adding(u)
          /\ sockets[s].pc = "admitted" => u \in members
  BY <1>1 DEF RoomState
<1>4. /\ sockets'[s].pc = "ready" => sockets'[s].connected
      /\ sockets'[s].connected /\ s \notin missed' =>
          /\ sockets'[s].room => u \in members' \/ Removing(u)'
          /\ sockets'[s].pc \in {"passed", "ready"} /\ u \in members' => sockets'[s].room \/ Adding(u)'
          /\ sockets'[s].pc = "admitted" => u \in members'
  BY <1>2, <1>3
<1>5. QED BY <1>1, <1>4 DEF RoomState

\* While no change of the members runs, a connection stays Present.
LEMMA PresentKept ==
    ASSUME ShapeInv, Exclusion, [Next]_vars, NEW s \in Sockets, Present(s), sockets'[s].connected,
           NEW q \in Requests, Runs(q), requests[q].kind \notin MemberKinds
    PROVE  Present(s)' \/ Connect(s)
<1>1. \A r \in Requests : Runs(r) => requests[r].kind \notin MemberKinds
  BY DEF Exclusion
<1>2. CASE UNCHANGED <<members, missed>>
  BY <1>2 DEF Present
<1>3. ASSUME NEW t \in Sockets, Connect(t) \/ Disconnect(t) PROVE Present(s)' \/ Connect(s)
  <2>1. members' = members /\ missed' = missed \ {t}
    BY <1>3 DEF Connect, Disconnect
  <2>2. t = s => Connect(t)
    BY <1>3, DisconnectMoves
  <2>3. QED BY <2>1, <2>2 DEF Present
<1>4. CASE DeleteProject \/ \E u \in Users : DeleteAccount(u)
  <2>1. sockets[s].connected
    BY <1>4 DEF DeleteProject, DeleteAccount
  <2>2. QED BY <1>4, <2>1 DEF DeleteProject, DeleteAccount, Connected, SocketsOf, Present
<1>5. ASSUME NEW r \in Requests,
             AddRow(r) \/ RemoveRow(r) \/ JoinRoom(r) \/ LeaveRoom(r) \/ (Fail(r) /\ requests[r].pc = "rooms")
      PROVE  FALSE
  <2>1. Runs(r)
    BY <1>5 DEF Runs, AddRow, RemoveRow, JoinRoom, LeaveRoom
  <2>2. requests[r].kind \in MemberKinds
    BY <1>5 DEF AddRow, RemoveRow, JoinRoom, LeaveRoom, MemberKinds, ShapeInv, WellFormed
  <2>3. QED BY <1>1, <2>1, <2>2
<1>6. QED BY <1>2, <1>3, <1>4, <1>5, WhoMovesMembers

\* A socket's request goes on past its look at the members only as it is.
LEMMA WhoStands ==
    ASSUME ShapeInv, [Next]_vars, NEW r \in Requests, requests'[r].pc \in {"resource", "act"}
    PROVE  \/ requests'[r] = requests[r]
           \/ /\ CheckMember(r) /\ requests[r].user \in members /\ SameRequest(requests'[r], requests[r])
              /\ requests'[r].pc = "resource" /\ requests[r].pc = "member"
           \/ /\ CheckResource(r) /\ requests[r].key \in resources /\ SameRequest(requests'[r], requests[r])
              /\ requests[r].pc = "resource" /\ requests'[r].pc = "act"
<1>1. CASE UNCHANGED requests
  BY <1>1
<1>2. ASSUME NEW p \in Requests, Arrive(p) \/ Begin(p) PROVE requests'[r] = requests[r]
  BY <1>2, ArriveMoves, BeginMoves DEF NoRequest
<1>3. ASSUME NEW p \in Requests, Continue(p) \/ Fail(p), p # r PROVE requests'[r] = requests[r]
  BY <1>3, ContinueMoves
<1>4. ~Finish(r)
  BY FinishMoves DEF NoRequest
<1>5. ~(\E pc \in {"write", "release", "rooms"} : GoTo(r, pc))
  BY GoToMoves
<1>6. ASSUME Continue(r) \/ Fail(r) PROVE CheckMember(r) \/ CheckResource(r)
  BY <1>4, <1>5, <1>6
  DEF Continue, Acquire, Release, Renew, Query, Recheck, Save, MayDelete, Delete, ReleaseDeleted, AddRow, JoinRoom,
      RemoveRow, LeaveRoom, Fail
<1>7. CheckMember(r) => /\ requests[r].user \in members /\ SameRequest(requests'[r], requests[r])
                        /\ requests'[r].pc = "resource" /\ requests[r].pc = "member"
  BY <1>4, GoToMoves DEF CheckMember
<1>8. CheckResource(r) => /\ requests[r].key \in resources /\ SameRequest(requests'[r], requests[r])
                          /\ requests[r].pc = "resource" /\ requests'[r].pc = "act"
  BY <1>4, GoToMoves DEF CheckResource
<1>9. CASE UNCHANGED vars \/ StartSweep \/ DeleteProject \/ (\E u \in Users : DeleteAccount(u))
             \/ \E j \in Resources : Expire(j) \/ SweepOne(j)
  BY <1>1, <1>9 DEF vars, StartSweep, DeleteProject, DeleteAccount, Expire, SweepOne
<1>10. ASSUME NEW s \in Sockets, Connect(s) \/ Join(s) \/ Disconnect(s) \/ \E k \in Resources : CleanUp(s, k)
       PROVE  UNCHANGED requests
  BY <1>10
  DEF Connect, Disconnect, CleanUp, Join, FindMemberships, BeginJoin, RecheckMembership, EnterRoom, BecomeReady
<1>11. QED BY <1>1, <1>2, <1>3, <1>6, <1>7, <1>8, <1>9, <1>10 DEF Next

\* The socket's part of MembershipInv: the membership that was read still
\* stands, for no change of the members runs next to the request.
LEMMA StandingKept ==
    ASSUME ShapeInv, Exclusion, MembershipInv, [Next]_vars, NEW r \in Requests,
           requests'[r].kind \in SocketKinds, requests'[r].pc \in {"resource", "act"}
    PROVE  Present(requests[r].socket)' \/ ~sockets'[requests'[r].socket].connected
<1>1. PICK s : s = requests'[r].socket
  OBVIOUS
<1>2. /\ requests[r].socket = s /\ requests[r].kind \in SocketKinds /\ s \in Sockets
      /\ requests[r].user = UserOf[s] /\ Runs(r) /\ requests[r].kind \notin MemberKinds
  <2>1. SameRequest(requests'[r], requests[r]) /\ Runs(r)
    BY WhoStands DEF SameRequest, Runs
  <2>2. WellFormed(requests[r])
    BY DEF ShapeInv
  <2>3. QED BY <1>1, <2>1, <2>2 DEF WellFormed, SameRequest, SocketKinds, MemberKinds
<1>3. ~Connect(s)
  BY <1>2 DEF Connect
<1>4. CASE requests'[r] = requests[r]
  <2>1. Present(s) \/ ~sockets[s].connected
    BY <1>2, <1>4 DEF MembershipInv
  <2>2. CASE ~sockets[s].connected
    <3>1. ~sockets'[s].connected
      BY <1>2, <1>3, <2>2, WhoMovesSockets, ConnectMoves, DisconnectMoves, PhaseMoves, EnterMoves, ReadyMoves,
         JoinRoomMoves, LeaveRoomMoves DEF Join
    <3>2. QED BY <1>1, <3>1
  <2>3. CASE Present(s)
    BY <1>1, <1>2, <1>3, <2>3, PresentKept DEF Present
  <2>4. QED BY <2>1, <2>2, <2>3
<1>5. CASE CheckMember(r) /\ requests[r].user \in members
  <2>1. UserOf[s] \in members'
    BY <1>2, <1>5 DEF CheckMember
  <2>2. Present(s)'
    BY <2>1 DEF Present
  <2>3. QED BY <1>1, <2>2 DEF Present
<1>6. CASE CheckResource(r) /\ requests[r].pc = "resource"
  <2>1. Present(s) \/ ~sockets[s].connected
    BY <1>2, <1>6 DEF MembershipInv
  <2>2. UNCHANGED <<members, missed, sockets>>
    BY <1>6 DEF CheckResource
  <2>3. Present(s)' \/ ~sockets'[s].connected
    BY <2>1, <2>2 DEF Present
  <2>4. QED BY <1>1, <2>3 DEF Present
<1>7. QED BY <1>4, <1>5, <1>6, WhoStands

\* A step that leaves the members alone leaves the rooms as the members are.
LEMMA QuietRooms ==
    ASSUME ShapeInv, Exclusion, MembershipInv, [Next]_vars, UNCHANGED <<members, missed>>, SameRooms, NEW s \in Sockets,
           ~Connect(s), ~Disconnect(s)
    PROVE  RoomState(s)'
<1>1. RoomState(s)
  BY DEF MembershipInv
<1>2. PICK u : u = UserOf[s]
  OBVIOUS
<1>3. (Removing(u)' <=> Removing(u)) /\ (Adding(u)' <=> Adding(u))
  BY PendingKept
<1>4. CASE sockets'[s] = sockets[s]
  BY <1>1, <1>2, <1>3, <1>4, RoomKept
<1>5. CASE Join(s)
  <2>1. /\ sockets[s].pc = "ready" => sockets[s].connected
        /\ sockets[s].connected /\ s \notin missed =>
             /\ sockets[s].room => u \in members \/ Removing(u)
             /\ sockets[s].pc \in {"passed", "ready"} /\ u \in members => sockets[s].room \/ Adding(u)
             /\ sockets[s].pc = "admitted" => u \in members
    BY <1>1, <1>2 DEF RoomState
  <2>2. /\ sockets'[s].pc = "ready" => sockets'[s].connected
        /\ sockets'[s].connected /\ s \notin missed' =>
             /\ sockets'[s].room => u \in members' \/ Removing(u)'
             /\ sockets'[s].pc \in {"passed", "ready"} /\ u \in members' => sockets'[s].room \/ Adding(u)'
             /\ sockets'[s].pc = "admitted" => u \in members'
    <3>1. CASE FindMemberships(s) \/ BeginJoin(s) \/ RecheckMembership(s)
      BY <1>2, <1>3, <2>1, <3>1, PhaseMoves
    <3>2. CASE EnterRoom(s)
      BY <1>2, <1>3, <2>1, <3>2, EnterMoves
    <3>3. CASE BecomeReady(s)
      BY <1>2, <1>3, <2>1, <3>3, ReadyMoves
    <3>4. QED BY <1>5, <3>1, <3>2, <3>3 DEF Join
  <2>3. QED BY <1>2, <2>2 DEF RoomState
<1>6. ASSUME NEW r \in Requests, JoinRoom(r) \/ LeaveRoom(r) PROVE FALSE
  <2>1. requests[r].pc = "rooms" /\ Finish(r)
    BY <1>6 DEF JoinRoom, LeaveRoom
  <2>2. requests'[r] = NoRequest
    BY <2>1, FinishMoves
  <2>3. QED BY <2>1, <2>2 DEF SameRooms, NoRequest
<1>7. ASSUME NEW t \in Sockets, t # s, Connect(t) \/ Join(t) \/ Disconnect(t) PROVE sockets'[s] = sockets[s]
  BY <1>7, ConnectMoves, DisconnectMoves, PhaseMoves, EnterMoves, ReadyMoves DEF Join
<1>8. QED BY <1>4, <1>5, <1>6, <1>7, WhoMovesSockets

\* A connection begins without a room, and nothing is asked of one that ended.
LEMMA ConnectionRooms ==
    ASSUME ShapeInv, MembershipInv, NEW t \in Sockets, Connect(t) \/ Disconnect(t), NEW s \in Sockets
    PROVE  RoomState(s)'
<1>1. RoomState(s) /\ UNCHANGED <<members, requests>> /\ missed' = missed \ {t}
  BY DEF MembershipInv, Connect, Disconnect
<1>2. (Removing(UserOf[s])' <=> Removing(UserOf[s])) /\ (Adding(UserOf[s])' <=> Adding(UserOf[s]))
  BY <1>1 DEF Removing, Adding
<1>3. CASE s # t
  <2>1. sockets'[s] = sockets[s]
    BY <1>3, ConnectMoves, DisconnectMoves
  <2>2. (s \in missed' <=> s \in missed) /\ (UserOf[s] \in members' <=> UserOf[s] \in members)
    BY <1>1, <1>3
  <2>3. QED BY <1>1, <1>2, <2>1, <2>2, RoomKept
<1>4. CASE s = t
  BY <1>4, ConnectMoves, DisconnectMoves DEF RoomState
<1>5. QED BY <1>3, <1>4

\* A row that goes or comes leaves the user's rooms to the pending request.
LEMMA RowRooms ==
    ASSUME ShapeInv, Exclusion, MembershipInv, NEW r \in Requests,
           AddRow(r) \/ RemoveRow(r), GoTo(r, "rooms"), NEW s \in Sockets
    PROVE  RoomState(s)'
<1>1. RoomState(s) /\ UNCHANGED <<sockets, missed>> /\ ~Joining(s)
  <2>1. Runs(r)
    BY DEF AddRow, RemoveRow, Runs
  <2>2. QED BY <2>1 DEF MembershipInv, AddRow, RemoveRow, Exclusion
<1>2. /\ \A p \in Requests \ {r} : requests'[p] = requests[p]
      /\ requests'[r].pc = "rooms" /\ SameRequest(requests'[r], requests[r])
  BY GoToMoves
<1>3. PICK u : u = UserOf[s]
  OBVIOUS
<1>4. CASE requests[r].user # u
  <2>1. (Removing(u)' <=> Removing(u)) /\ (Adding(u)' <=> Adding(u))
    BY <1>2, <1>4, OthersPending
  <2>2. u \in members' <=> u \in members
    BY <1>4, <1>2 DEF AddRow, RemoveRow
  <2>3. QED BY <1>1, <1>3, <2>1, <2>2, RoomKept
<1>5. CASE requests[r].user = u
  <2>1. \/ u \in members' /\ Adding(u)'
        \/ u \notin members' /\ Removing(u)'
    <3>1. CASE AddRow(r)
      <4>1. u \in members'
        BY <1>2, <1>5, <3>1, FinishMoves DEF AddRow, NoRequest
      <4>2. Adding(u)'
        BY <1>2, <1>5, <3>1 DEF AddRow, Adding, SameRequest
      <4>3. QED BY <4>1, <4>2
    <3>2. CASE RemoveRow(r)
      <4>1. u \notin members'
        BY <1>2, <1>5, <3>2, FinishMoves DEF RemoveRow, NoRequest
      <4>2. Removing(u)'
        BY <1>2, <1>5, <3>2 DEF RemoveRow, Removing, SameRequest
      <4>3. QED BY <4>1, <4>2
    <3>3. QED BY <3>1, <3>2
  <2>2. /\ sockets'[s].pc = "ready" => sockets'[s].connected
        /\ sockets'[s].pc # "admitted"
    BY <1>1 DEF RoomState, Joining
  <2>3. QED BY <1>3, <2>1, <2>2 DEF RoomState
<1>6. QED BY <1>4, <1>5

\* The end of a change brings the rooms in line, or it was not reached.
LEMMA EndRooms ==
    ASSUME ShapeInv, Exclusion, MembershipInv, NEW r \in Requests,
           JoinRoom(r) \/ LeaveRoom(r) \/ (Fail(r) /\ requests[r].pc = "rooms"), NEW s \in Sockets
    PROVE  RoomState(s)'
<1>1. /\ RoomState(s) /\ ~Joining(s) /\ members' = members
      /\ requests[r].kind = "remove" /\ requests[r].pc = "rooms" => requests[r].user \notin members
  <2>1. Runs(r)
    BY DEF JoinRoom, LeaveRoom, Fail, Runs
  <2>2. QED BY <2>1 DEF MembershipInv, JoinRoom, LeaveRoom, Fail, Exclusion
<1>2. \A p \in Requests : requests'[p] = IF p = r THEN NoRequest ELSE requests[p]
  BY FinishMoves DEF JoinRoom, LeaveRoom, Fail
<1>3. PICK u : u = UserOf[s]
  OBVIOUS
<1>4. CASE requests[r].user # u
  <2>1. (Removing(u)' <=> Removing(u)) /\ (Adding(u)' <=> Adding(u))
    BY <1>2, <1>4, OthersPending
  <2>2. s \in missed' <=> s \in missed
    BY <1>3, <1>4 DEF JoinRoom, LeaveRoom, Fail, SocketsOf
  <2>3. /\ sockets'[s].pc = sockets[s].pc /\ sockets'[s].connected = sockets[s].connected
        /\ sockets'[s].room = sockets[s].room
    BY <1>3, <1>4, JoinRoomMoves, LeaveRoomMoves DEF Fail
  <2>4. /\ sockets[s].pc = "ready" => sockets[s].connected
        /\ sockets[s].connected /\ s \notin missed =>
             /\ sockets[s].room => u \in members \/ Removing(u)
             /\ sockets[s].pc \in {"passed", "ready"} /\ u \in members => sockets[s].room \/ Adding(u)
             /\ sockets[s].pc = "admitted" => u \in members
    BY <1>1, <1>3 DEF RoomState
  <2>5. /\ sockets'[s].pc = "ready" => sockets'[s].connected
        /\ sockets'[s].connected /\ s \notin missed' =>
             /\ sockets'[s].room => u \in members' \/ Removing(u)'
             /\ sockets'[s].pc \in {"passed", "ready"} /\ u \in members' => sockets'[s].room \/ Adding(u)'
             /\ sockets'[s].pc = "admitted" => u \in members'
    BY <1>1, <2>1, <2>2, <2>3, <2>4
  <2>6. QED BY <1>3, <2>5 DEF RoomState
<1>5. CASE requests[r].user = u
  <2>1. /\ sockets'[s].pc = sockets[s].pc /\ sockets'[s].connected = sockets[s].connected
        /\ sockets[s].pc = "ready" => sockets[s].connected
        /\ sockets[s].pc # "admitted"
    BY <1>1, JoinRoomMoves, LeaveRoomMoves DEF Fail, RoomState, Joining
  <2>2. CASE Fail(r) /\ requests[r].pc = "rooms"
    <3>1. sockets[s].connected => s \in missed'
      BY <1>3, <1>5, <2>2 DEF Fail, SocketsOf, Connected
    <3>2. QED BY <2>1, <3>1 DEF RoomState
  <2>3. CASE JoinRoom(r)
    <3>1. sockets[s].connected => sockets'[s].room /\ (u \in members \/ s \in missed')
      BY <1>3, <1>5, <2>3, JoinRoomMoves DEF JoinRoom, SocketsOf, Connected
    <3>2. QED BY <1>1, <1>3, <2>1, <3>1 DEF RoomState
  <2>4. CASE LeaveRoom(r)
    <3>1. ~sockets'[s].room /\ u \notin members
      <4>1. ~sockets'[s].room
        BY <1>3, <1>5, <2>4, LeaveRoomMoves
      <4>2. requests[r].kind = "remove" /\ requests[r].pc = "rooms"
        BY <2>4 DEF LeaveRoom
      <4>3. QED BY <1>1, <1>5, <4>1, <4>2
    <3>2. QED BY <1>1, <1>3, <2>1, <3>1 DEF RoomState
  <2>5. QED BY <2>2, <2>3, <2>4
<1>6. QED BY <1>4, <1>5

\* A change without the project's lock reaches no connection.
LEMMA UnlockedRooms ==
    ASSUME ShapeInv, MembershipInv, DeleteProject \/ (\E u \in Users : DeleteAccount(u)), NEW s \in Sockets
    PROVE  RoomState(s)'
<1>1. RoomState(s) /\ UNCHANGED <<sockets, requests>>
  BY DEF MembershipInv, DeleteProject, DeleteAccount
<1>2. CASE ~sockets[s].connected
  BY <1>1, <1>2 DEF RoomState
<1>3. CASE DeleteProject /\ sockets[s].connected
  <2>1. s \in missed'
    BY <1>3 DEF DeleteProject, Connected
  <2>2. QED BY <1>1, <1>3, <2>1 DEF RoomState
<1>4. ASSUME NEW u \in Users, DeleteAccount(u), sockets[s].connected PROVE RoomState(s)'
  <2>1. CASE UserOf[s] = u
    <3>1. s \in missed'
      BY <1>4, <2>1 DEF DeleteAccount, Connected, SocketsOf
    <3>2. QED BY <1>1, <1>4, <3>1 DEF RoomState
  <2>2. CASE UserOf[s] # u
    <3>1. (UserOf[s] \in members' <=> UserOf[s] \in members) /\ (s \in missed' <=> s \in missed)
      BY <1>4, <2>2 DEF DeleteAccount, SocketsOf
    <3>2. (Removing(UserOf[s])' <=> Removing(UserOf[s])) /\ (Adding(UserOf[s])' <=> Adding(UserOf[s]))
      BY <1>1 DEF Removing, Adding
    <3>3. QED BY <1>1, <3>1, <3>2, RoomKept
  <2>3. QED BY <2>1, <2>2
<1>5. QED BY <1>2, <1>3, <1>4

\* While a removal waits for its rooms its user has no row.
LEMMA RemovedGone ==
    ASSUME ShapeInv, Exclusion, MembershipInv, [Next]_vars, NEW r \in Requests,
           requests'[r].kind = "remove", requests'[r].pc = "rooms"
    PROVE  requests'[r].user \notin members'
<1>1. CASE UNCHANGED <<members, missed>> /\ SameRooms
  <2>1. requests'[r] = requests[r]
    BY <1>1 DEF SameRooms
  <2>2. QED BY <1>1, <2>1 DEF MembershipInv
<1>2. CASE DeleteProject \/ (\E u \in Users : DeleteAccount(u)) \/ \E s \in Sockets : Connect(s) \/ Disconnect(s)
  BY <1>2 DEF DeleteProject, DeleteAccount, Connect, Disconnect, MembershipInv
<1>3. ASSUME NEW q \in Requests, (AddRow(q) \/ RemoveRow(q)) /\ GoTo(q, "rooms") PROVE requests'[r].user \notin members'
  <2>1. Runs(q) /\ requests[q].kind \in MemberKinds
    BY <1>3 DEF AddRow, RemoveRow, Runs, MemberKinds
  <2>2. requests'[q].pc = "rooms" /\ SameRequest(requests'[q], requests[q])
    BY <1>3, GoToMoves
  <2>3. q = r
    <3>1. q # r => requests'[r] = requests[r]
      BY <1>3, GoToMoves
    <3>2. q # r => Runs(r)
      BY <3>1 DEF Runs
    <3>3. QED BY <2>1, <3>2 DEF Exclusion
  <2>4. RemoveRow(r)
    BY <1>3, <2>2, <2>3 DEF AddRow, SameRequest
  <2>5. QED BY <1>3, <2>2, <2>3, <2>4, FinishMoves DEF RemoveRow, SameRequest, NoRequest
<1>4. ASSUME NEW q \in Requests, JoinRoom(q) \/ LeaveRoom(q) \/ (Fail(q) /\ requests[q].pc = "rooms")
      PROVE  requests'[r].user \notin members'
  <2>1. members' = members /\ Finish(q)
    BY <1>4 DEF JoinRoom, LeaveRoom, Fail
  <2>2. requests'[r] = requests[r]
    BY <2>1, FinishMoves DEF NoRequest
  <2>3. QED BY <2>1, <2>2 DEF MembershipInv
<1>5. QED BY <1>1, <1>2, <1>3, <1>4, WhoMovesMembers

\* Every step leaves rooms with members, or with an operation that will empty them.
LEMMA MembershipStep == ShapeInv /\ Exclusion /\ MembershipInv /\ [Next]_vars => MembershipInv'
<1> SUFFICES ASSUME ShapeInv, Exclusion, MembershipInv, [Next]_vars PROVE MembershipInv'
  OBVIOUS
<1>1. ASSUME NEW s \in Sockets PROVE RoomState(s)'
  BY QuietRooms, ConnectionRooms, RowRooms, EndRooms, UnlockedRooms, WhoMovesMembers
<1>2. \A r \in Requests :
         requests'[r].kind = "remove" /\ requests'[r].pc = "rooms" => requests'[r].user \notin members'
  BY RemovedGone
<1>3. ASSUME NEW r \in Requests, requests'[r].kind \in SocketKinds, requests'[r].pc \in {"resource", "act"}
      PROVE  Present(requests[r].socket)' \/ ~sockets'[requests'[r].socket].connected
  BY <1>3, StandingKept
<1>4. QED BY <1>1, <1>2, <1>3 DEF MembershipInv

\* Rooms follow memberships in every reachable state.
LEMMA MembershipHolds == Spec => []MembershipInv
<1>1. Init => MembershipInv
  BY DEF Init, MembershipInv, RoomState, NewSocket, NoRequest
<1>2. QED BY <1>1, ShapesHold, OperationsExclude, MembershipStep, PTL DEF Spec

\* A ready connection is in the project's room exactly when its user is a
\* member, although joinRooms reads the membership long before it joins and
\* changes of membership go on meanwhile; only while the rooms of a change are
\* still to be seen to, and for changes that fail or take no lock, may it differ.
THEOREM RoomsFollow == Spec => []RoomsFollowMembership
<1>1. MembershipInv => RoomsFollowMembership
  BY DEF MembershipInv, RoomState, RoomsFollowMembership
<1>2. QED BY <1>1, MembershipHolds, PTL

(* A connection has what its user's membership gives it: ConnectionsFollow-  *)
(* Membership, for any number of tabs, users and requests.                   *)
THEOREM ConnectionsFollow == Spec => []ConnectionsFollowMembership
BY ConnectionsLeaveNothing, RoomsFollow, PTL DEF ConnectionsFollowMembership

\* A lease that goes on stays with a member, or a removal, a change that did
\* not reach its connection or the end of that still accounts for it.
LEMMA HolderKept ==
    ASSUME ShapeInv, Exclusion, LeaseHasConnection, LeaseHolderIsMember, [Next]_vars,
           NEW k \in Resources, leases'[k] # NoLease, GoesOn(k), NEW s \in Sockets, s = leases[k].socket,
           NEW u, u = UserOf[s]
    PROVE  u \in members' \/ Removing(u)' \/ s \in missed' \/ k \in cleanup'[s]
<1>1. /\ u \in members \/ Removing(u) \/ s \in missed \/ k \in cleanup[s]
      /\ sockets[s].connected \/ k \in cleanup[s]
  BY DEF GoesOn, LeaseHolderIsMember, LeaseHasConnection
<1>2. CASE Disconnect(s)
  BY <1>2 DEF Disconnect, ShapeInv, TypeOK
<1>3. CASE k \in cleanup[s] /\ ~Disconnect(s)
  BY <1>3, WhoClears
<1>4. CASE k \notin cleanup[s] /\ ~Disconnect(s)
  <2>1. sockets[s].connected /\ (u \in members \/ Removing(u) \/ s \in missed)
    BY <1>1, <1>4
  <2>2. CASE UNCHANGED <<members, missed>> /\ SameRooms
    BY <2>1, <2>2, PendingKept
  <2>3. ASSUME NEW t \in Sockets, Connect(t) \/ Disconnect(t) PROVE u \in members' \/ Removing(u)' \/ s \in missed'
    <3>1. t # s
      BY <1>4, <2>1, <2>3 DEF Connect
    <3>2. UNCHANGED <<members, requests>> /\ missed' = missed \ {t}
      BY <2>3 DEF Connect, Disconnect
    <3>3. Removing(u)' <=> Removing(u)
      BY <3>2 DEF Removing
    <3>4. QED BY <2>1, <3>1, <3>2, <3>3
  <2>4. ASSUME NEW r \in Requests, (AddRow(r) \/ RemoveRow(r)) /\ GoTo(r, "rooms")
        PROVE  u \in members' \/ Removing(u)' \/ s \in missed'
    <3>1. /\ \A p \in Requests \ {r} : requests'[p] = requests[p]
          /\ requests'[r].pc = "rooms" /\ SameRequest(requests'[r], requests[r])
      BY <2>4, GoToMoves
    <3>2. requests[r].pc = "row" /\ missed' = missed
      BY <2>4 DEF AddRow, RemoveRow
    <3>3. Removing(u) => Removing(u)'
      BY <3>1, <3>2 DEF Removing
    <3>4. u \in members => u \in members' \/ Removing(u)'
      <4>1. CASE AddRow(r)
        BY <4>1 DEF AddRow
      <4>2. CASE RemoveRow(r) /\ requests[r].user # u
        BY <4>2 DEF RemoveRow
      <4>3. CASE RemoveRow(r) /\ requests[r].user = u
        BY <3>1, <4>3 DEF RemoveRow, Removing, SameRequest
      <4>4. QED BY <2>4, <4>1, <4>2, <4>3
    <3>5. QED BY <2>1, <3>2, <3>3, <3>4
  <2>5. ASSUME NEW r \in Requests, JoinRoom(r) \/ LeaveRoom(r) \/ (Fail(r) /\ requests[r].pc = "rooms")
        PROVE  u \in members' \/ Removing(u)' \/ s \in missed'
    <3>1. members' = members /\ \A p \in Requests : requests'[p] = IF p = r THEN NoRequest ELSE requests[p]
      BY <2>5, FinishMoves DEF JoinRoom, LeaveRoom, Fail
    <3>2. CASE requests[r].user # u
      <4>1. Removing(u)' <=> Removing(u)
        BY <3>1, <3>2, OthersPending
      <4>2. s \in missed => s \in missed'
        BY <2>5, <3>2 DEF JoinRoom, LeaveRoom, Fail, SocketsOf
      <4>3. QED BY <2>1, <3>1, <4>1, <4>2
    <3>3. CASE requests[r].user = u
      <4>1. CASE JoinRoom(r)
        BY <2>1, <3>1, <3>3, <4>1 DEF JoinRoom, SocketsOf, Connected
      <4>2. CASE LeaveRoom(r)
        BY <3>3, <4>2 DEF LeaveRoom, Holds, GoesOn
      <4>3. CASE Fail(r) /\ requests[r].pc = "rooms"
        BY <2>1, <3>3, <4>3 DEF Fail, SocketsOf, Connected
      <4>4. QED BY <2>5, <4>1, <4>2, <4>3
    <3>4. QED BY <3>2, <3>3
  <2>6. CASE DeleteProject
    BY <2>1, <2>6 DEF DeleteProject, Connected
  <2>7. ASSUME NEW v \in Users, DeleteAccount(v) PROVE u \in members' \/ Removing(u)' \/ s \in missed'
    <3>1. Removing(u)' <=> Removing(u)
      BY <2>7 DEF DeleteAccount, Removing
    <3>2. QED BY <2>1, <2>7, <3>1 DEF DeleteAccount, Connected, SocketsOf
  <2>8. QED BY <1>4, <2>2, <2>3, <2>4, <2>5, <2>6, <2>7, WhoMovesMembers
<1>5. QED BY <1>2, <1>3, <1>4

\* A lease's holder is a member, or an operation that will take the lease away is under way.
LEMMA HolderStep ==
    ShapeInv /\ Exclusion /\ MembershipInv /\ LeaseHasConnection /\ LeaseHolderIsMember /\ [Next]_vars
      => LeaseHolderIsMember'
<1> SUFFICES ASSUME ShapeInv, Exclusion, MembershipInv, LeaseHasConnection, LeaseHolderIsMember, [Next]_vars,
                    NEW k \in Resources, leases'[k] # NoLease, NEW s, s = leases'[k].socket, NEW u, u = UserOf[s]
             PROVE  u \in members' \/ Removing(u)' \/ s \in missed' \/ k \in cleanup'[s]
  BY DEF LeaseHolderIsMember, Removing
<1>1. CASE GoesOn(k)
  <2>1. s \in Sockets /\ s = leases[k].socket
    BY <1>1 DEF GoesOn, ShapeInv, TypeOK, Lease
  <2>2. QED BY <1>1, <2>1, HolderKept
<1>2. ASSUME NEW r \in Requests, Acquired(r, k) PROVE u \in members' \/ s \in missed'
  <2>1. s = requests[r].socket /\ sockets[s].connected /\ UNCHANGED <<members, missed>>
    BY <1>2 DEF Acquired
  <2>2. Present(s)
    BY <1>2, <2>1 DEF Acquired, MembershipInv, SocketKinds
  <2>3. QED BY <2>1, <2>2 DEF Present
<1>3. QED BY <1>1, <1>2, WhoMovesLeases

\* A lease's row is there, or the deletion that took it will drop the lease; and
\* so is the row that a request was told of.
RowsInv ==
    /\ LeaseHasResource
    /\ \A r \in Requests : requests[r].pc = "act" => requests[r].key \in resources \/ members = {}

\* Rows only go, by a deletion that has the row to itself or with the project.
LEMMA WhoDeletes ==
    ASSUME ShapeInv, [Next]_vars
    PROVE  \/ UNCHANGED resources
           \/ DeleteProject
           \/ \E r \in Requests : Delete(r)
<1>1. ASSUME NEW r \in Requests, Continue(r) \/ Fail(r) PROVE Delete(r) \/ UNCHANGED resources
  BY <1>1
  DEF Continue, CheckMember, CheckResource, Acquire, Release, Renew, Query, Recheck, Save, MayDelete,
      ReleaseDeleted, AddRow, JoinRoom, RemoveRow, LeaveRoom, Fail
<1>2. ASSUME NEW r \in Requests, Arrive(r) \/ Begin(r) PROVE UNCHANGED resources
  BY <1>2, ArriveMoves DEF Begin
<1>3. CASE UNCHANGED vars \/ StartSweep \/ (\E u \in Users : DeleteAccount(u))
             \/ \E j \in Resources : Expire(j) \/ SweepOne(j)
  BY <1>3 DEF vars, StartSweep, DeleteAccount, Expire, SweepOne
<1>4. ASSUME NEW s \in Sockets, Connect(s) \/ Join(s) \/ Disconnect(s) \/ \E k \in Resources : CleanUp(s, k)
      PROVE  UNCHANGED resources
  BY <1>4
  DEF Connect, Disconnect, CleanUp, Join, FindMemberships, BeginJoin, RecheckMembership, EnterRoom, BecomeReady
<1>5. QED BY <1>1, <1>2, <1>3, <1>4 DEF Next

\* A project without members is gone for good.
LEMMA EmptyStays == ASSUME ShapeInv, [Next]_vars, members = {} PROVE members' = {}
<1>1. ASSUME NEW r \in Requests, (AddRow(r) \/ RemoveRow(r)) /\ GoTo(r, "rooms") PROVE members' = {}
  <2>1. requests'[r] # NoRequest
    BY <1>1, GoToMoves DEF NoRequest
  <2>2. QED BY <1>1, <2>1, FinishMoves DEF AddRow, RemoveRow
<1>2. QED
  BY <1>1, WhoMovesMembers DEF Connect, Disconnect, JoinRoom, LeaveRoom, Fail, DeleteProject, DeleteAccount

\* A deletion that owes a release keeps owing it until it releases.
LEMMA WhoReleases ==
    ASSUME ShapeInv, [Next]_vars, NEW r \in Requests, requests[r].pc = "release"
    PROVE  requests'[r] = requests[r] \/ ReleaseDeleted(r)
<1>1. CASE UNCHANGED requests
  BY <1>1
<1>2. ASSUME NEW p \in Requests, Continue(p) \/ Fail(p) PROVE requests'[r] = requests[r] \/ ReleaseDeleted(r)
  <2>1. CASE p # r
    BY <1>2, <2>1, ContinueMoves
  <2>2. CASE p = r
    BY <1>2, <2>2
    DEF Continue, CheckMember, CheckResource, Acquire, Release, Renew, Query, Recheck, Save, MayDelete, Delete,
        AddRow, JoinRoom, RemoveRow, LeaveRoom, Fail
  <2>3. QED BY <2>1, <2>2
<1>3. ASSUME NEW p \in Requests, Arrive(p) \/ Begin(p) PROVE requests'[r] = requests[r]
  <2>1. p # r
    BY <1>3 DEF Arrive, SocketAsks, UserAsks, ChangeMembers, Ask, Begin
  <2>2. QED BY <1>3, <2>1, ArriveMoves, BeginMoves
<1>4. CASE UNCHANGED vars \/ StartSweep \/ DeleteProject \/ (\E u \in Users : DeleteAccount(u))
             \/ \E j \in Resources : Expire(j) \/ SweepOne(j)
  BY <1>1, <1>4 DEF vars, StartSweep, DeleteProject, DeleteAccount, Expire, SweepOne
<1>5. ASSUME NEW s \in Sockets, Connect(s) \/ Join(s) \/ Disconnect(s) \/ \E k \in Resources : CleanUp(s, k)
      PROVE  UNCHANGED requests
  BY <1>5
  DEF Connect, Disconnect, CleanUp, Join, FindMemberships, BeginJoin, RecheckMembership, EnterRoom, BecomeReady
<1>6. QED BY <1>1, <1>2, <1>3, <1>4, <1>5 DEF Next

\* Every step leaves leases on rows that exist, or with an operation that will release them.
LEMMA RowsStep == ShapeInv /\ Exclusion /\ RowsInv /\ [Next]_vars => RowsInv'
<1> SUFFICES ASSUME ShapeInv, Exclusion, RowsInv, [Next]_vars PROVE RowsInv'
  OBVIOUS
<1>1. members' # {} => members # {}
  BY EmptyStays
<1>2. ASSUME NEW k \in Resources, leases'[k] # NoLease, members' # {}, leases[k] # NoLease
      PROVE  k \in resources' \/ \E r \in Requests : requests'[r].key = k /\ requests'[r].pc = "release"
  <2>1. k \in resources \/ \E r \in Requests : requests[r].key = k /\ requests[r].pc = "release"
    BY <1>1, <1>2 DEF RowsInv, LeaseHasResource
  <2>2. ASSUME NEW r \in Requests, requests[r].key = k, requests[r].pc = "release"
        PROVE  requests'[r] = requests[r]
    <3>1. ~ReleaseDeleted(r)
      BY <1>2, <2>2 DEF ReleaseDeleted, Dropped, ShapeInv, TypeOK
    <3>2. QED BY <2>2, <3>1, WhoReleases
  <2>3. ASSUME NEW r \in Requests, Delete(r)
        PROVE  k \in resources => k \in resources' \/ (requests'[r].key = k /\ requests'[r].pc = "release")
    BY <2>3, GoToMoves DEF Delete, SameRequest
  <2>4. ~DeleteProject
    BY <1>2 DEF DeleteProject
  <2>5. QED BY <2>1, <2>2, <2>3, <2>4, WhoDeletes
<1>3. ASSUME NEW k \in Resources, NEW r \in Requests, Acquired(r, k), members' # {} PROVE k \in resources'
  BY <1>1, <1>3 DEF Acquired, RowsInv
<1>4. LeaseHasResource'
  BY <1>2, <1>3, WhoMovesLeases DEF GoesOn, LeaseHasResource
<1>5. ASSUME NEW r \in Requests, requests'[r].pc = "act", members' # {} PROVE requests'[r].key \in resources'
  <2>1. SameRequest(requests'[r], requests[r]) /\ requests[r].key \in resources /\ Runs(r)
    BY <1>1, <1>5, WhoStands DEF RowsInv, SameRequest, Runs
  <2>2. ASSUME NEW p \in Requests, Delete(p) PROVE requests[r].key \in resources'
    <3>1. Runs(p) /\ requests'[p].pc = "release"
      BY <2>2, GoToMoves DEF Delete, Runs
    <3>2. requests[p].key # requests[r].key
      BY <1>5, <2>1, <3>1 DEF Exclusion
    <3>3. QED BY <2>1, <2>2, <3>2 DEF Delete
  <2>3. ~DeleteProject
    BY <1>5 DEF DeleteProject
  <2>4. requests[r].key \in resources'
    BY <2>1, <2>2, <2>3, WhoDeletes
  <2>5. QED BY <2>1, <2>4 DEF SameRequest
<1>6. QED BY <1>4, <1>5 DEF RowsInv

\* What a lease stands on does not go from under it: a live connection or the
\* clean-up of one, a member or a removal that will release it, a row or a
\* deletion that will.  The lock, unlock, save, delete and membership handlers
\* of one project keep this together, under the coordinator's locks only.
THEOREM LeasesWellFounded == Spec => []LeaseWellFounded
<1>1. Init => LeaseHolderIsMember /\ RowsInv
  BY DEF Init, LeaseHolderIsMember, RowsInv, LeaseHasResource, NoRequest
<1>2. Spec => []LeaseHolderIsMember
  BY <1>1, ShapesHold, OperationsExclude, MembershipHolds, LeasesHaveConnections, HolderStep, PTL DEF Spec
<1>3. Spec => []RowsInv
  BY <1>1, ShapesHold, OperationsExclude, RowsStep, PTL DEF Spec
<1>4. RowsInv => LeaseHasResource
  BY DEF RowsInv
<1>5. LeaseHasConnection /\ LeaseHolderIsMember /\ LeaseHasResource => LeaseWellFounded
  BY DEF LeaseWellFounded
<1>6. QED BY <1>2, <1>3, <1>4, <1>5, LeasesHaveConnections, PTL
=============================================================================
