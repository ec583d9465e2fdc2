------------------------------- MODULE ProjectLife -------------------------------
(***************************************************************************)
(* Projects, their members and the accounts behind them: creating and      *)
(* deleting projects (projects.service.ts), adding, removing and promoting *)
(* members (project-members.service.ts) and deleting one's own account     *)
(* (users.service.ts).  Every request reads before it writes.  The three   *)
(* operations on members hold the project's exclusive lock in between      *)
(* (ProjectCoordinator), the others hold nothing.                          *)
(*                                                                         *)
(* The cap of 1024 projects that one account creates is out of reach here. *)
(***************************************************************************)
EXTENDS Integers, FiniteSets

CONSTANTS People, Projects, Requests    \* Requests: the slots for requests under way

VARIABLES accounts,    \* people who still have an account
          role,        \* project_member: per existing project, everybody's role
          request,     \* the requests under way
          created,     \* identifiers given so far
          orphaned     \* history: created while the owner's account was being deleted

projects == <<accounts, role, request, created, orphaned>>

NoOne == [p \in People |-> "NONE"]
Waiting == [op |-> "none", phase |-> "none"]
OnMembers == {"add", "remove", "promote", "demote"}
Leads(r) == r \in {"OWNER", "ADMIN"}

Answered(q) == request' = [request EXCEPT ![q] = Waiting]
Owns(p) == \E j \in DOMAIN role : role[j][p] = "OWNER"

(* What a request may do, with the roles as they are. *)
MayNow(r) ==
    LET mine == role[r.project][r.by]
        theirs == role[r.project][r.of]
    IN  CASE r.op = "delete"  -> mine = "OWNER"
          [] r.op = "add"     -> Leads(mine) /\ theirs = "NONE"
          [] r.op = "remove"  -> /\ theirs \in {"ADMIN", "MEMBER"}
                                 /\ r.by = r.of \/ (Leads(mine) /\ (theirs = "ADMIN" => mine = "OWNER"))
          [] r.op = "promote" -> Leads(mine) /\ theirs = "MEMBER"
          [] r.op = "demote"  -> mine = "OWNER" /\ theirs = "ADMIN"

-----------------------------------------------------------------------------
\* Variant with the fault of an authorization outside the lock.
Unlocked(r) == TRUE

(* withProjectLock: one operation on the members of a project at a time. *)
LockFree(r) ==
    r.op \in OnMembers =>
        \A q \in Requests : request[q].op \in OnMembers => request[q].project # r.project

(* The assertions of remove, addMember, removeMember and updateMemberRole.   *)
Authorize(q) ==
    /\ request[q] = Waiting
    /\ \E j \in DOMAIN role, by, of \in People, op \in OnMembers \cup {"delete"} :
          LET r == [op |-> op, phase |-> "authorized", project |-> j, by |-> by, of |-> of] IN
          /\ by \in accounts /\ of \in accounts /\ (op = "delete" => of = by)
          /\ MayNow(r) /\ LockFree(r)
          /\ request' = [request EXCEPT ![q] = r]
    /\ UNCHANGED <<accounts, role, created, orphaned>>

(* The write: a member that is gone, or has no account any more, is an error *)
(* (a relation that cannot be connected, a row that is not found).           *)
NewRole(op) == CASE op \in {"add", "demote"} -> "MEMBER" [] op = "promote" -> "ADMIN" [] op = "remove" -> "NONE"
WriteMember(q) ==
    LET r == request[q] IN
    /\ r.op \in OnMembers
    /\ r.project \in DOMAIN role /\ r.of \in accounts
    /\ (r.op = "add") <=> (role[r.project][r.of] = "NONE")
    /\ role' = [role EXCEPT ![r.project][r.of] = NewRole(r.op)]
    /\ Answered(q)
    /\ UNCHANGED <<accounts, created, orphaned>>
DeleteProject(q) ==
    /\ request[q].op = "delete" /\ request[q].project \in DOMAIN role
    /\ role' = [j \in DOMAIN role \ {request[q].project} |-> role[j]]
    /\ Answered(q)
    /\ UNCHANGED <<accounts, created, orphaned>>

(* create: the project and its owner, in one transaction. *)
CreateProject(p, j) ==
    /\ p \in accounts /\ j \notin created /\ created' = created \cup {j}
    /\ role' = [k \in DOMAIN role \cup {j} |-> IF k = j THEN [NoOne EXCEPT ![p] = "OWNER"] ELSE role[k]]
    /\ orphaned' = IF \E q \in Requests : request[q].op = "leave" /\ request[q].by = p
                   THEN orphaned \cup {j} ELSE orphaned
    /\ UNCHANGED <<accounts, request>>

(* remove, of an account: nobody who owns a project may go. *)
\* Variant with the fault of an account deleted without a look at its projects.
MayLeaveAnyhow(p) == p \in accounts

MayLeave(p) == p \in accounts /\ ~Owns(p)
CheckOwnership(q) ==
    /\ request[q] = Waiting
    /\ \E p \in People : MayLeave(p) /\ request' = [request EXCEPT ![q] = [op |-> "leave", phase |-> "authorized", by |-> p]]
    /\ UNCHANGED <<accounts, role, created, orphaned>>
DeleteAccount(q) ==
    /\ request[q].op = "leave" /\ request[q].by \in accounts
    /\ accounts' = accounts \ {request[q].by}
    /\ role' = [j \in DOMAIN role |-> [role[j] EXCEPT ![request[q].by] = "NONE"]]
    /\ Answered(q)
    /\ UNCHANGED <<created, orphaned>>

RequestFails(q) ==
    /\ request[q] # Waiting
    /\ Answered(q)
    /\ UNCHANGED <<accounts, role, created, orphaned>>

-----------------------------------------------------------------------------
ProjectsInit ==
    /\ accounts = People
    /\ role = [j \in {} |-> NoOne]
    /\ request = [q \in Requests |-> Waiting]
    /\ created = {} /\ orphaned = {}

ProjectsNext ==
    \/ \E q \in Requests :
          \/ Authorize(q) \/ WriteMember(q) \/ DeleteProject(q)
          \/ CheckOwnership(q) \/ DeleteAccount(q) \/ RequestFails(q)
    \/ \E p \in People, j \in Projects : CreateProject(p, j)

ProjectsSpec == ProjectsInit /\ [][ProjectsNext]_projects

-----------------------------------------------------------------------------
(* Every project has exactly one owner, whatever its members and their       *)
(* accounts do meanwhile; it can lose that owner only if it was created      *)
(* between the look at what an account owns and the deletion of the account. *)
OneOwner ==
    \A j \in DOMAIN role :
        LET owners == {p \in People : role[j][p] = "OWNER"}
        IN  Cardinality(owners) = 1 \/ (owners = {} /\ j \in orphaned)

(* Nobody changes the members of a project with a role that was taken away   *)
(* before the change was written (unless the account itself was deleted).    *)
WrittenWithAuthority ==
    [][\A q \in Requests :
          request[q].op \in OnMembers /\ request'[q] = Waiting /\ role' # role
              => request[q].by \notin accounts \/ MayNow(request[q])]_projects
=============================================================================
