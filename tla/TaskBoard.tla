------------------------------ MODULE TaskBoard ------------------------------
(***************************************************************************)
(* The Kanban board of one project in the backend (tasks.service.ts and    *)
(* task-assignees.service.ts) with the members it is shared by             *)
(* (project-members.service.ts).                                           *)
(*                                                                         *)
(* A request is let in, reads the task (update), validates its assignees,  *)
(* opens a Serializable transaction, commits it, replaces the assignees in *)
(* a second transaction when a person asks, and answers.  Each of these is *)
(* a step, so requests interleave between any two.                         *)
(*                                                                         *)
(* PostgreSQL: an open Serializable transaction works on the rows it saw   *)
(* when it began.  When another one commits a change to a column or to the *)
(* assignees of a task that it reads too, it can no longer commit: each    *)
(* rank transaction both reads and writes the columns it touches, so two   *)
(* concurrent ones always conflict in both directions.  Transactions that  *)
(* are not Serializable, those of removeMember, make nothing conflict.     *)
(***************************************************************************)
EXTENDS Naturals, FiniteSets

CONSTANTS Tasks, Columns, Users, Requests,
          Inputs,        \* the requests clients may send
          Unset          \* a field the client leaves out; a row that is not there

VARIABLES rows,       \* Task: where each task is, Unset when there is none
          assignees,  \* TaskAssignee
          members,    \* ProjectMember, without the actors of the requests
          removing,   \* removeMember between its two deletions, or Unset
          request,
          excused     \* history: assignments of people who left, and why they remain

vars == <<rows, assignees, members, removing, request, excused>>

-----------------------------------------------------------------------------
Place == [status : Columns, rank : Nat]
Idle == [op |-> "none"]

(* A create names its column and a rank; an update leaves out what it does   *)
(* not change.  A person sends requests in a session, a machine with a token.*)
Input == [op : {"create", "update", "delete"}, task : Tasks, kind : {"USER", "MACHINE"},
          status : Columns \cup {Unset}, rank : Nat \cup {Unset}, ids : {Unset} \cup SUBSET Users]

ASSUME UnsetAssumption ==
    /\ Unset \notin Tasks /\ Unset \notin Columns /\ Unset \notin Users /\ Unset \notin Nat
    /\ Unset \notin Place /\ Unset \notin [Tasks -> Place \cup {Unset}]
    /\ \A ids \in SUBSET Users : ids # Unset

ASSUME InputsAssumption ==
    /\ Inputs \subseteq Input
    /\ \A i \in Inputs : /\ i.op = "create" => i.status # Unset /\ i.rank # Unset
                         /\ i.op = "delete" => i.status = Unset /\ i.rank = Unset

Live(r) == {t \in Tasks : r[t] # Unset}
InColumn(r, c) == {t \in Live(r) : r[t].status = c}

(* closeRankGap: every row after the vacated rank moves up. *)
CloseGap(r, c, vacated) ==
    [t \in Tasks |-> IF t \in InColumn(r, c) /\ r[t].rank > vacated
                     THEN [r[t] EXCEPT !.rank = @ - 1] ELSE r[t]]

(* openRankSlot: the wanted rank clamped to the length of the column without *)
(* the excluded task, and the rows from there on moved down.                 *)
Slot(r, c, wanted, excluded) ==
    LET length == Cardinality(InColumn(r, c) \ {excluded})
    IN  IF wanted = Unset \/ wanted > length THEN length ELSE wanted

OpenSlot(r, c, rank, excluded) ==
    [t \in Tasks |-> IF t \in InColumn(r, c) \ {excluded} /\ r[t].rank >= rank
                     THEN [r[t] EXCEPT !.rank = @ + 1] ELSE r[t]]

Inserted(r, t, c, wanted) ==
    LET rank == Slot(r, c, wanted, Unset)
    IN  [OpenSlot(r, c, rank, Unset) EXCEPT ![t] = [status |-> c, rank |-> rank]]

\* Variant with the fault of a gap filled by the last card of the column.
DeletedFilling(r, t) ==
    [s \in Tasks |-> IF s = t THEN Unset
                     ELSE IF s \in InColumn(r, r[t].status)
                             /\ r[s].rank = Cardinality(InColumn(r, r[t].status)) - 1
                          THEN r[t] ELSE r[s]]

Deleted(r, t) ==
    CloseGap([r EXCEPT ![t] = Unset], r[t].status, r[t].rank)

(* moveTask: the target column is the one asked for or the present one. *)
Target(r, t, c) == IF c = Unset THEN r[t].status ELSE c
Moved(r, t, c, wanted) ==
    LET closed == CloseGap(r, r[t].status, r[t].rank)
        rank == Slot(closed, Target(r, t, c), wanted, t)
    IN  [OpenSlot(closed, Target(r, t, c), rank, t)
            EXCEPT ![t] = [status |-> Target(r, t, c), rank |-> rank]]

\* Variant with the fault of taking only a change of column for a move.
IsColumnChange(place, status, rank) == status # Unset /\ status # place.status

(* updateAs decides from the task it read before the transaction. *)
IsMoving(place, status, rank) ==
    \/ status # Unset /\ status # place.status
    \/ rank # Unset /\ rank # place.rank

-----------------------------------------------------------------------------
At(q, phase) == request[q].op # "none" /\ request[q].phase = phase

(* A task id is a new random one: no request knows it. *)
Fresh(t) == t \notin Live(rows) /\ \A q \in Requests : request[q].op # "none" => request[q].task # t

(* Whether the task is where the request wants it; what it leaves out may be *)
(* anything, a rank past the end means the end.                              *)
Fulfils(r, q) ==
    /\ q.task \in Live(r)
    /\ q.status \in {Unset, r[q.task].status}
    /\ \/ q.rank = Unset
       \/ r[q.task].rank = Slot(r, r[q.task].status, q.rank, q.task)

(* Only a plain update of a person has no transaction of its own: it goes on *)
(* with its assignees.                                                       *)
Checked(moving, kind) == IF moving \/ kind = "MACHINE" THEN "begin" ELSE "assign"

Accept(q, i, moving) ==
    request' = [request EXCEPT ![q] =
        [op |-> i.op, task |-> i.task, kind |-> i.kind, status |-> i.status, rank |-> i.rank,
         ids |-> i.ids, moving |-> moving, met |-> Fulfils(rows, i),
         phase |-> IF i.ids = Unset THEN Checked(moving, i.kind) ELSE "check",
         seen |-> Unset, touches |-> {}, outrun |-> {}]]

(* createAs up to its first check. *)
CreateAs(q) == \E i \in Inputs :
    /\ i.op = "create" /\ request[q] = Idle /\ Fresh(i.task)
    /\ Accept(q, i, TRUE)
    /\ UNCHANGED <<rows, assignees, members, removing, excused>>

(* updateAs up to its first check: the read decides whether it is a move. *)
UpdateAs(q) == \E i \in Inputs :
    /\ i.op = "update" /\ request[q] = Idle /\ i.task \in Live(rows)
    /\ Accept(q, i, IsMoving(rows[i.task], i.status, i.rank))
    /\ UNCHANGED <<rows, assignees, members, removing, excused>>

(* removeAs: findById is only a guard. *)
RemoveAs(q) == \E i \in Inputs :
    /\ i.op = "delete" /\ request[q] = Idle /\ i.task \in Live(rows)
    /\ Accept(q, i, TRUE)
    /\ UNCHANGED <<rows, assignees, members, removing, excused>>

(* assertAssigneesAreProjectMembers, when there are any.                     *)
Check(q) ==
    /\ At(q, "check")
    /\ request[q].ids \subseteq members
    /\ request' = [request EXCEPT ![q].phase = Checked(request[q].moving, request[q].kind)]
    /\ UNCHANGED <<rows, assignees, members, removing, excused>>

(* What the transaction about to begin reads and writes: whole columns, and  *)
(* the assignees of its task, named by the task.                             *)
Assigns(q) ==
    \/ request[q].phase \in {"assign", "assigning"}
    \/ request[q].kind = "MACHINE" /\ request[q].ids # Unset
Touches(q) ==
    LET t == request[q].task IN
    (IF request[q].phase = "begin" /\ request[q].moving
     THEN {Target(rows, t, request[q].status)} \cup (IF t \in Live(rows) THEN {rows[t].status} ELSE {})
     ELSE {})
    \cup (IF Assigns(q) \/ request[q].op = "delete" THEN {t} ELSE {})

(* The part of the rows a transaction sees and uses: the columns it touches. *)
Snapshot(columns) ==
    [t \in Tasks |-> IF t \in Live(rows) /\ rows[t].status \in columns THEN rows[t] ELSE Unset]

\* Variant with the fault of not counting the members again.
BeginTrusting(q, from, to) ==
    /\ At(q, from)
    /\ (request[q].op # "create" \/ from = "assign") => request[q].task \in Live(rows)
    /\ request' = [request EXCEPT ![q].phase = to, ![q].seen = Snapshot(Touches(q)),
                                  ![q].touches = Touches(q), ![q].outrun = {}]
    /\ UNCHANGED <<rows, assignees, members, removing, excused>>

(* The first statement takes the snapshot.  A task that is gone, or an      *)
(* assignee who is not a member in it, ends the transaction: see Fail.      *)
Begin(q, from, to) ==
    /\ At(q, from)
    /\ (request[q].op # "create" \/ from = "assign") => request[q].task \in Live(rows)
    /\ Assigns(q) /\ request[q].ids # Unset => request[q].ids \subseteq members
    /\ request' = [request EXCEPT ![q].phase = to, ![q].seen = Snapshot(Touches(q)),
                                  ![q].touches = Touches(q), ![q].outrun = {}]
    /\ UNCHANGED <<rows, assignees, members, removing, excused>>
BeginWork(q) == Begin(q, "begin", "open")
BeginAssigning(q) == request[q].op # "none" /\ request[q].ids # Unset /\ Begin(q, "assign", "assigning")

(* The rows as the transaction leaves them, computed from what it saw. *)
Written(q) ==
    LET r == request[q] IN
    CASE r.op = "create" -> Inserted(r.seen, r.task, r.status, r.rank)
      [] r.op = "delete" -> Deleted(r.seen, r.task)
      [] r.op = "update" /\ r.moving -> Moved(r.seen, r.task, r.status, r.rank)
      [] OTHER -> r.seen

(* The rows of the columns it touched are its own, all others stay. *)
Touched(r, q) == {t \in Live(r) : r[t].status \in request[q].touches}
Merged(q) ==
    [t \in Tasks |-> IF t \in Touched(rows, q) \cup Touched(Written(q), q) THEN Written(q)[t] ELSE rows[t]]

\* Variant with the fault of transactions that are not Serializable.
NeverDoomed(p, q) == FALSE

(* Other open transactions that touched the same can no longer commit: they  *)
(* fail with a 409, which is taken together with the commit that causes it.  *)
Doomed(p, q) == p # q /\ request[p].op # "none" /\ request[p].touches \cap request[q].touches # {}

(* Every request that still waits for its move learns whether it is fulfilled. *)
Observed(r, new) == IF r.op = "none" \/ r.met THEN r ELSE [r EXCEPT !.met = Fulfils(new, r)]

Settle(q, new, next) ==
    request' = [p \in Requests |->
        IF p = q THEN [Observed(request[q], new) EXCEPT
                          !.phase = next, !.seen = Unset, !.touches = {}, !.outrun = {},
                          !.status = Unset, !.rank = Unset, !.moving = FALSE]
        ELSE IF Doomed(p, q) THEN Idle
        ELSE Observed(request[p], new)]

(* replaceAssigneesInTransaction inside the transaction of q. *)
Assigned(q) ==
    IF request[q].op = "delete" THEN [assignees EXCEPT ![request[q].task] = {}]
    ELSE IF Assigns(q) THEN [assignees EXCEPT ![request[q].task] = request[q].ids]
    ELSE assignees
(* The assignments that this transaction wrote for people who were removed  *)
(* after it had counted them as members.                                     *)
Excused(q) ==
    {p \in excused : p[1] \in Assigned(q)[p[2]]}
    \cup {<<u, request[q].task>> : u \in IF Assigns(q) THEN request[q].outrun \ members ELSE {}}

Commit(q) ==
    /\ At(q, "open")
    /\ rows' = Merged(q)
    /\ assignees' = Assigned(q)
    /\ excused' = Excused(q)
    /\ Settle(q, Merged(q),
              IF request[q].kind = "USER" /\ request[q].ids # Unset THEN "assign" ELSE "answer")
    /\ UNCHANGED <<members, removing>>

CommitAssigning(q) ==
    /\ At(q, "assigning")
    /\ assignees' = Assigned(q)
    /\ excused' = Excused(q)
    /\ Settle(q, rows, "answer")
    /\ UNCHANGED <<rows, members, removing>>

(* A plain update of a person: its fields are no part of the model. *)
UpdateFields(q) ==
    /\ At(q, "assign") /\ request[q].ids = Unset
    /\ request[q].task \in Live(rows)
    /\ Settle(q, rows, "answer")
    /\ UNCHANGED <<rows, assignees, members, removing, excused>>

(* findByIdForProject for the response and its event. *)
Answer(q) ==
    /\ At(q, "answer")
    /\ request' = [request EXCEPT ![q] = Idle]
    /\ UNCHANGED <<rows, assignees, members, removing, excused>>

(* 400, 404, 409 or an error of the database at any await. *)
Fail(q) ==
    /\ request[q].op # "none"
    /\ request' = [request EXCEPT ![q] = Idle]
    /\ UNCHANGED <<rows, assignees, members, removing, excused>>

-----------------------------------------------------------------------------
(* project-members.service.ts, under the project's lock. *)
AddMember(u) ==
    /\ removing = Unset /\ u \notin members
    /\ members' = members \cup {u}
    /\ excused' = {p \in excused : p[1] # u}
    /\ UNCHANGED <<rows, assignees, removing, request>>

RemoveMember(u) ==
    /\ removing = Unset /\ u \in members
    /\ members' = members \ {u}
    /\ removing' = u
    /\ request' = [q \in Requests |->
          IF request[q].op # "none" /\ request[q].seen # Unset /\ request[q].ids # Unset /\ u \in request[q].ids
          THEN [request[q] EXCEPT !.outrun = @ \cup {u}] ELSE request[q]]
    /\ UNCHANGED <<rows, assignees, excused>>

(* deleteMany of his assignments.  It never makes a replacement fail: that   *)
(* has either locked the rows, which the deletion then waits for and finds   *)
(* gone, or it comes later.                                                  *)
RemoveAssignments ==
    /\ removing # Unset
    /\ assignees' = [t \in Tasks |-> assignees[t] \ {removing}]
    /\ excused' = {p \in excused : p[1] # removing}
    /\ removing' = Unset
    /\ UNCHANGED <<rows, members, request>>

RemovalFails ==
    /\ removing # Unset
    /\ excused' = excused \cup {<<removing, t>> : t \in {s \in Tasks : removing \in assignees[s]}}
    /\ removing' = Unset
    /\ UNCHANGED <<rows, assignees, members, request>>

-----------------------------------------------------------------------------
Init ==
    /\ rows = [t \in Tasks |-> Unset]
    /\ assignees = [t \in Tasks |-> {}]
    /\ members = Users /\ removing = Unset
    /\ request = [q \in Requests |-> Idle]
    /\ excused = {}

Next ==
    \/ \E q \in Requests :
          \/ CreateAs(q) \/ UpdateAs(q) \/ RemoveAs(q) \/ Check(q)
          \/ BeginWork(q) \/ Commit(q) \/ BeginAssigning(q) \/ CommitAssigning(q)
          \/ UpdateFields(q) \/ Answer(q) \/ Fail(q)
    \/ \E u \in Users : AddMember(u) \/ RemoveMember(u)
    \/ RemoveAssignments \/ RemovalFails

Spec == Init /\ [][Next]_vars

-----------------------------------------------------------------------------
(* Every commit inserts, moves or removes one card and keeps the order of    *)
(* all the others; however many people move cards at once the ranks of a     *)
(* column are 0..n-1, without which Column would have no value.              *)
Column(c) == [i \in 1 .. Cardinality(InColumn(rows, c)) |->
                  CHOOSE t \in InColumn(rows, c) : rows[t].rank = i - 1]
Board == INSTANCE ColumnBoard WITH board <- [c \in Columns |-> Column(c)]
ImplementsBoard == Board!Spec

(* A request that is answered has had its effect: at some moment between its *)
(* arrival and its answer the task was in the column and at the rank asked   *)
(* for, also when updateAs took it for no move because of what it had read.  *)
RequestsTakeEffect ==
    \A q \in Requests : At(q, "answer") => request[q].met

(* A task changes its column only by a request that names the new column: a  *)
(* PATCH of the rank alone never takes back a move made meanwhile.           *)
ColumnChangesAreAsked ==
    [][\A t \in Live(rows) \cap Tasks :
          (rows'[t] # Unset /\ rows'[t].status # rows[t].status) =>
              \E q \in Requests : At(q, "open") /\ request[q].task = t
                                  /\ request[q].status = rows'[t].status]_vars

(* Somebody assigned to a task is a member, except while removeMember is     *)
(* between its two deletions, after it has failed there, or when the         *)
(* assignment was being written, its members counted, as he was removed.     *)
StraysOverlapped ==
    \A t \in Tasks : \A u \in assignees[t] \ members :
        u = removing \/ <<u, t>> \in excused
=============================================================================
