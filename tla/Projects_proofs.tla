---------------------------- MODULE Projects_proofs ----------------------------
(***************************************************************************)
(* Proofs about what happens inside a project, for any number of people,   *)
(* projects, rows and requests: its members (ProjectLife), its discovery   *)
(* blocks (DiscoveryStatus), its check list (ChecklistSection) and its     *)
(* calendar (Calendar).                                                    *)
(***************************************************************************)
EXTENDS ProjectLife, DiscoveryStatus, ChecklistSection, Calendar, FiniteSetTheorems, TLAPS

-----------------------------------------------------------------------------
(* Projects, members and accounts.                                         *)

Roles == {"OWNER", "ADMIN", "MEMBER", "NONE"}

\* A request about a project, and one to leave the application.
ProjectRequest == [op: OnMembers \cup {"delete"}, phase: {"authorized"},
                   project: Projects, by: People, of: People]
LeaveRequest == [op: {"leave"}, phase: {"authorized"}, by: People]

ProjectsTypeOK ==
    /\ accounts \subseteq People
    /\ created \subseteq Projects
    /\ DOMAIN role \subseteq created
    /\ role \in [DOMAIN role -> [People -> Roles]]
    /\ request \in [Requests -> {Waiting} \cup ProjectRequest \cup LeaveRequest]

\* Nobody owns a project together with somebody else, and whoever leaves owns
\* only projects created since.
OwnersInv ==
    /\ \A j \in DOMAIN role, p, q \in People :
          role[j][p] = "OWNER" /\ role[j][q] = "OWNER" => p = q
    /\ \A j \in DOMAIN role : j \in orphaned \/ \E p \in People : role[j][p] = "OWNER"
    /\ \A q \in Requests, j \in DOMAIN role :
          request[q].op = "leave" /\ role[j][request[q].by] = "OWNER" => j \in orphaned

\* A request about a project is about one that was created, and what it takes
\* away is not ownership.
TargetsInv ==
    \A q \in Requests : request[q].op \in OnMembers =>
        /\ request[q].project \in created
        /\ request[q].op # "add" /\ request[q].project \in DOMAIN role
              => role[request[q].project][request[q].of] # "OWNER"

\* The lock of a project's members, and what it preserves.
LockInv ==
    /\ \A q, r \in Requests :
          request[q].op \in OnMembers /\ request[r].op \in OnMembers
            /\ request[q].project = request[r].project => q = r
    /\ \A q \in Requests :
          request[q].op \in OnMembers /\ request[q].by \in accounts /\ request[q].of \in accounts
            /\ request[q].project \in DOMAIN role => MayNow(request[q])

ProjectsInv == ProjectsTypeOK /\ OwnersInv /\ TargetsInv /\ LockInv

-----------------------------------------------------------------------------
\* The initial states satisfy the invariant.
LEMMA ProjectsInitially == ProjectsInit => ProjectsInv
BY DEF ProjectsInit, ProjectsInv, ProjectsTypeOK, OwnersInv, TargetsInv, LockInv, Waiting, OnMembers

\* Authorize preserves the invariant.
LEMMA AuthorizeKeeps ==
    ASSUME ProjectsInv, NEW q \in Requests, Authorize(q) PROVE ProjectsInv'
<1> USE DEF ProjectsInv
<1>1. PICK j \in DOMAIN role, by, of \in People, op \in OnMembers \cup {"delete"} :
          LET r == [op |-> op, phase |-> "authorized", project |-> j, by |-> by, of |-> of] IN
          /\ MayNow(r) /\ LockFree(r)
          /\ request' = [request EXCEPT ![q] = r]
  BY DEF Authorize
<1>2. UNCHANGED <<accounts, role, created, orphaned>>
  BY DEF Authorize
<1>3. ProjectsTypeOK'
  BY <1>1, <1>2 DEF ProjectsTypeOK, ProjectRequest
<1>4. OwnersInv'
  BY <1>1, <1>2 DEF ProjectsTypeOK, OwnersInv, OnMembers
<1>5. TargetsInv'
  BY <1>1, <1>2 DEF ProjectsTypeOK, TargetsInv, OnMembers, MayNow
<1>6. LockInv'
  <2>1. \A p \in Requests \ {q} : request'[p] = request[p]
    BY <1>1 DEF ProjectsTypeOK
  <2>2. /\ request'[q] = [op |-> op, phase |-> "authorized", project |-> j, by |-> by, of |-> of]
        /\ MayNow(request'[q]) /\ LockFree(request'[q])
    BY <1>1 DEF ProjectsTypeOK
  <2>3. MayNow(request[q])'
    BY <1>2, <2>2 DEF MayNow
  <2>4. ASSUME NEW p \in Requests \ {q}, MayNow(request[p]) PROVE MayNow(request[p])'
    BY <1>2, <2>1, <2>4 DEF MayNow
  <2>5. \A p \in Requests \ {q} :
           request'[p].op \in OnMembers /\ request'[q].op \in OnMembers
             => request'[p].project # request'[q].project
    BY <2>1, <2>2 DEF LockFree
  <2>6. QED BY <1>2, <2>1, <2>3, <2>4, <2>5 DEF LockInv
<1>7. QED BY <1>3, <1>4, <1>5, <1>6

\* WriteMember preserves the invariant.
LEMMA WriteMemberKeeps ==
    ASSUME ProjectsInv, NEW q \in Requests, WriteMember(q) PROVE ProjectsInv'
<1> USE DEF ProjectsInv
<1> DEFINE r == request[q]
<1>1. /\ r \in ProjectRequest /\ r.op \in OnMembers
      /\ r.project \in DOMAIN role /\ r.of \in accounts
      /\ (r.op = "add") <=> (role[r.project][r.of] = "NONE")
      /\ role' = [role EXCEPT ![r.project] = [@ EXCEPT ![r.of] = NewRole(r.op)]]
      /\ request' = [request EXCEPT ![q] = Waiting]
      /\ UNCHANGED <<accounts, created, orphaned>>
  BY DEF WriteMember, Answered, ProjectsTypeOK, Waiting, LeaveRequest, OnMembers
<1>2. NewRole(r.op) \in {"ADMIN", "MEMBER", "NONE"}
  BY <1>1 DEF NewRole, OnMembers
<1>3. role[r.project][r.of] # "OWNER"
  BY <1>1 DEF TargetsInv
<1>4. ProjectsTypeOK'
  BY <1>1, <1>2 DEF ProjectsTypeOK, ProjectRequest, Roles
<1>5. OwnersInv'
  BY <1>1, <1>2, <1>3 DEF ProjectsTypeOK, OwnersInv, Waiting, ProjectRequest
<1>6. TargetsInv'
  BY <1>1, <1>2 DEF ProjectsTypeOK, TargetsInv, OnMembers, Waiting, ProjectRequest
<1>7. LockInv'
  <2>1. \A p \in Requests : p # q /\ request[p].op \in OnMembers => request[p].project # r.project
    BY <1>1 DEF LockInv
  <2>2. \A p \in Requests : request'[p].op \in OnMembers =>
          p # q /\ request'[p] = request[p] /\ request'[p].project # r.project
    BY <1>1, <2>1 DEF ProjectsTypeOK, Waiting, OnMembers
  <2>3. \A j \in DOMAIN role : j # r.project => role'[j] = role[j]
    BY <1>1
  <2>4. DOMAIN role' = DOMAIN role
    BY <1>1
  <2>5. ASSUME NEW p \in Requests, request'[p].op \in OnMembers,
               request'[p].project \in DOMAIN role', MayNow(request[p])
        PROVE  MayNow(request[p])'
    <3>1. request'[p] = request[p] /\ role'[request[p].project] = role[request[p].project]
      BY <2>2, <2>3, <2>4, <2>5
    <3>2. QED BY <2>5, <3>1 DEF MayNow
  <2>6. QED BY <1>1, <2>2, <2>4, <2>5 DEF LockInv
<1>8. QED BY <1>4, <1>5, <1>6, <1>7

\* DeleteProject preserves the invariant.
LEMMA DeleteProjectKeeps ==
    ASSUME ProjectsInv, NEW q \in Requests, DeleteProject(q) PROVE ProjectsInv'
<1> USE DEF ProjectsInv
<1> DEFINE R == DOMAIN role \ {request[q].project}
<1>1. /\ role' = [j \in R |-> role[j]] /\ request' = [request EXCEPT ![q] = Waiting]
      /\ UNCHANGED <<accounts, created, orphaned>>
  BY DEF DeleteProject, Answered
<1>2. DOMAIN role' = R /\ R \subseteq DOMAIN role /\ \A j \in R : role'[j] = role[j]
  BY <1>1
<1>3. \A p \in Requests : request'[p] = request[p] \/ request'[p] = Waiting
  BY <1>1 DEF ProjectsTypeOK
<1>4. ProjectsTypeOK'
  BY <1>1, <1>2 DEF ProjectsTypeOK
<1>5. OwnersInv'
  BY <1>1, <1>2, <1>3 DEF OwnersInv, Waiting
<1>6. TargetsInv'
  BY <1>1, <1>2, <1>3 DEF TargetsInv, Waiting, OnMembers
<1>7. LockInv'
  <2>1. ASSUME NEW p \in Requests, request'[p].op \in OnMembers
        PROVE  request'[p] = request[p]
    BY <1>3, <2>1 DEF Waiting, OnMembers
  <2>2. ASSUME NEW p \in Requests, request'[p] = request[p],
               request[p].project \in DOMAIN role', MayNow(request[p])
        PROVE  MayNow(request[p])'
    BY <1>2, <2>2 DEF MayNow
  <2>3. QED BY <1>1, <1>2, <2>1, <2>2 DEF LockInv
<1>8. QED BY <1>4, <1>5, <1>6, <1>7

\* CreateProject preserves the invariant.
LEMMA CreateProjectKeeps ==
    ASSUME ProjectsInv, NEW p \in People, NEW j \in Projects, CreateProject(p, j)
    PROVE  ProjectsInv'
<1> USE DEF ProjectsInv
<1> DEFINE Owned == [NoOne EXCEPT ![p] = "OWNER"]
<1>1. /\ p \in accounts /\ j \notin created /\ created' = created \cup {j}
      /\ role' = [k \in DOMAIN role \cup {j} |-> IF k = j THEN Owned ELSE role[k]]
      /\ orphaned' = IF \E q \in Requests : request[q].op = "leave" /\ request[q].by = p
                     THEN orphaned \cup {j} ELSE orphaned
      /\ UNCHANGED <<accounts, request>>
  BY DEF CreateProject
<1>2. /\ Owned \in [People -> Roles] /\ Owned[p] = "OWNER"
      /\ \A x \in People \ {p} : Owned[x] = "NONE"
  BY DEF NoOne, Roles
<1>3. /\ DOMAIN role' = DOMAIN role \cup {j} /\ role'[j] = Owned /\ j \notin DOMAIN role
      /\ \A k \in DOMAIN role : role'[k] = role[k]
  BY <1>1 DEF ProjectsTypeOK
<1> HIDE DEF Owned
<1>4. ProjectsTypeOK'
  BY <1>1, <1>2, <1>3 DEF ProjectsTypeOK
<1>5. OwnersInv'
  <2>1. \A k \in DOMAIN role', x, y \in People :
           role'[k][x] = "OWNER" /\ role'[k][y] = "OWNER" => x = y
    BY <1>2, <1>3 DEF OwnersInv
  <2>2. \A k \in DOMAIN role' : k \in orphaned' \/ \E x \in People : role'[k][x] = "OWNER"
    BY <1>1, <1>2, <1>3 DEF OwnersInv
  <2>3. ASSUME NEW q \in Requests, NEW k \in DOMAIN role', request[q].op = "leave",
               role'[k][request[q].by] = "OWNER"
        PROVE  k \in orphaned'
    <3>1. request[q].by \in People
      BY <2>3 DEF ProjectsTypeOK, Waiting, ProjectRequest, LeaveRequest, OnMembers
    <3>2. CASE k = j
      BY <1>1, <1>2, <1>3, <2>3, <3>1, <3>2
    <3>3. CASE k # j
      BY <1>1, <1>3, <2>3, <3>3 DEF OwnersInv
    <3>4. QED BY <3>2, <3>3
  <2>4. QED BY <1>1, <2>1, <2>2, <2>3 DEF OwnersInv
<1>6. TargetsInv'
  BY <1>1, <1>3 DEF TargetsInv
<1>7. LockInv'
  <2>1. ASSUME NEW q \in Requests, request[q].op \in OnMembers,
               request[q].project \in DOMAIN role', MayNow(request[q])
        PROVE  request[q].project \in DOMAIN role /\ MayNow(request[q])'
    <3>1. request[q].project # j
      BY <1>1, <2>1 DEF TargetsInv
    <3>2. QED BY <1>1, <1>3, <2>1, <3>1 DEF MayNow
  <2>2. ASSUME NEW q \in Requests, request[q].op \in OnMembers, request[q].project \in DOMAIN role'
        PROVE  request[q].project \in DOMAIN role
    BY <1>1, <1>3, <2>2 DEF TargetsInv
  <2>3. QED BY <1>1, <2>1, <2>2 DEF LockInv
<1>8. QED BY <1>4, <1>5, <1>6, <1>7

\* CheckOwnership preserves the invariant.
LEMMA CheckOwnershipKeeps ==
    ASSUME ProjectsInv, NEW q \in Requests, CheckOwnership(q) PROVE ProjectsInv'
<1> USE DEF ProjectsInv
<1>1. PICK p \in People :
          MayLeave(p) /\ request' = [request EXCEPT ![q] = [op |-> "leave", phase |-> "authorized", by |-> p]]
  BY DEF CheckOwnership
<1>2. UNCHANGED <<accounts, role, created, orphaned>>
  BY DEF CheckOwnership
<1>3. \A r \in Requests : request'[r].op \in OnMembers => request'[r] = request[r]
  BY <1>1 DEF ProjectsTypeOK, OnMembers
<1>4. ProjectsTypeOK'
  BY <1>1, <1>2 DEF ProjectsTypeOK, LeaveRequest
<1>5. OwnersInv'
  BY <1>1, <1>2 DEF ProjectsTypeOK, OwnersInv, MayLeave, Owns
<1>6. TargetsInv'
  BY <1>2, <1>3 DEF TargetsInv
<1>7. LockInv'
  <2>1. ASSUME NEW r \in Requests, request'[r] = request[r], MayNow(request[r])
        PROVE  MayNow(request[r])'
    BY <1>2, <2>1 DEF MayNow
  <2>2. QED BY <1>2, <1>3, <2>1 DEF LockInv
<1>8. QED BY <1>4, <1>5, <1>6, <1>7

\* DeleteAccount preserves the invariant.
LEMMA DeleteAccountKeeps ==
    ASSUME ProjectsInv, NEW q \in Requests, DeleteAccount(q) PROVE ProjectsInv'
<1> USE DEF ProjectsInv
<1> DEFINE p == request[q].by
<1>1. /\ request[q].op = "leave" /\ p \in accounts
      /\ accounts' = accounts \ {p}
      /\ role' = [j \in DOMAIN role |-> [role[j] EXCEPT ![p] = "NONE"]]
      /\ request' = [request EXCEPT ![q] = Waiting]
      /\ UNCHANGED <<created, orphaned>>
  BY DEF DeleteAccount, Answered
<1>2. DOMAIN role' = DOMAIN role
  BY <1>1
<1>3. \A j \in DOMAIN role : role[j] \in [People -> Roles] /\ role'[j] \in [People -> Roles]
  BY <1>1 DEF ProjectsTypeOK, Roles
<1>4. \A j \in DOMAIN role, x \in People : role'[j][x] = IF x = p THEN "NONE" ELSE role[j][x]
  BY <1>1 DEF ProjectsTypeOK
<1>5. \A r \in Requests : request'[r] = request[r] \/ request'[r] = Waiting
  BY <1>1 DEF ProjectsTypeOK
<1>6. ProjectsTypeOK'
  <2>1. role' \in [DOMAIN role' -> [People -> Roles]]
    BY <1>1, <1>2, <1>3
  <2>2. QED BY <1>1, <1>2, <2>1 DEF ProjectsTypeOK
<1>7. \A r \in Requests : request'[r].op # "none" => request'[r] = request[r] /\ request[r] \in ProjectRequest \cup LeaveRequest
  BY <1>5 DEF Waiting, ProjectsTypeOK
<1>8. OwnersInv'
  <2>1. \A j \in DOMAIN role : role[j][p] = "OWNER" => j \in orphaned
    BY <1>1 DEF OwnersInv
  <2>2. \A r \in Requests : request'[r].op = "leave" => request'[r] = request[r] /\ request[r].by \in People
    BY <1>7 DEF LeaveRequest, ProjectRequest, OnMembers
  <2>3. QED BY <1>1, <1>2, <1>4, <2>1, <2>2 DEF OwnersInv
<1>9. \A r \in Requests : request'[r].op \in OnMembers =>
         request'[r] = request[r] /\ request[r] \in ProjectRequest
  BY <1>7 DEF LeaveRequest, OnMembers
<1>10. TargetsInv'
  BY <1>1, <1>2, <1>4, <1>9 DEF TargetsInv, ProjectRequest
<1>11. LockInv'
  <2>1. ASSUME NEW r \in Requests, request'[r] = request[r], request[r] \in ProjectRequest,
               request[r].by # p, request[r].of # p,
               request[r].project \in DOMAIN role, MayNow(request[r])
        PROVE  MayNow(request[r])'
    <3>1. /\ role'[request[r].project][request[r].by] = role[request[r].project][request[r].by]
          /\ role'[request[r].project][request[r].of] = role[request[r].project][request[r].of]
      BY <1>4, <2>1 DEF ProjectRequest
    <3>2. QED BY <2>1, <3>1 DEF MayNow
  <2>2. QED BY <1>1, <1>2, <1>9, <2>1 DEF LockInv
<1>12. QED BY <1>6, <1>8, <1>10, <1>11

\* RequestFails preserves the invariant.
LEMMA RequestFailsKeeps ==
    ASSUME ProjectsInv, NEW q \in Requests, RequestFails(q) PROVE ProjectsInv'
<1> USE DEF ProjectsInv
<1>1. /\ request' = [request EXCEPT ![q] = Waiting]
      /\ UNCHANGED <<accounts, role, created, orphaned>>
  BY DEF RequestFails, Answered
<1>2. \A r \in Requests : request'[r] = request[r] \/ request'[r] = Waiting
  BY <1>1 DEF ProjectsTypeOK
<1>3. ProjectsTypeOK' /\ OwnersInv' /\ TargetsInv'
  BY <1>1, <1>2 DEF ProjectsTypeOK, OwnersInv, TargetsInv, Waiting, OnMembers
<1>4. LockInv'
  <2>1. ASSUME NEW r \in Requests, request'[r].op \in OnMembers
        PROVE  request'[r] = request[r]
    BY <1>2, <2>1 DEF Waiting, OnMembers
  <2>2. ASSUME NEW r \in Requests, request'[r] = request[r], MayNow(request[r])
        PROVE  MayNow(request[r])'
    BY <1>1, <2>2 DEF MayNow
  <2>3. QED BY <1>1, <2>1, <2>2 DEF LockInv
<1>5. QED BY <1>3, <1>4

\* Every step of ProjectLife preserves ProjectsInv.
LEMMA ProjectsStep == ProjectsInv /\ [ProjectsNext]_projects => ProjectsInv'
<1> SUFFICES ASSUME ProjectsInv, [ProjectsNext]_projects PROVE ProjectsInv'
  OBVIOUS
<1>1. CASE UNCHANGED projects
  <2>1. ASSUME NEW q \in Requests, MayNow(request[q]) PROVE MayNow(request[q])'
    BY <1>1, <2>1 DEF projects, MayNow
  <2>2. LockInv'
    BY <1>1, <2>1 DEF projects, ProjectsInv, LockInv
  <2>3. QED BY <1>1, <2>2 DEF projects, ProjectsInv, ProjectsTypeOK, OwnersInv, TargetsInv
<1>2. QED
  BY <1>1, AuthorizeKeeps, WriteMemberKeeps, DeleteProjectKeeps, CheckOwnershipKeeps,
     DeleteAccountKeeps, RequestFailsKeeps, CreateProjectKeeps DEF ProjectsNext

\* The inductive invariant of projects, members and accounts.
THEOREM ProjectsInvariant == ProjectsSpec => []ProjectsInv
BY ProjectsInitially, ProjectsStep, PTL DEF ProjectsSpec

\* Every project has one owner, but for one created while its owner's account
\* was being deleted (users.service.ts, remove).
THEOREM ProjectsHaveOneOwner == ProjectsSpec => []OneOwner
<1>1. ProjectsInv => OneOwner
  <2> SUFFICES ASSUME ProjectsInv, NEW j \in DOMAIN role,
                      NEW owners, owners = {p \in People : role[j][p] = "OWNER"}
               PROVE  Cardinality(owners) = 1 \/ (owners = {} /\ j \in orphaned)
    BY DEF OneOwner
  <2>1. CASE owners = {}
    BY <2>1 DEF ProjectsInv, OwnersInv
  <2>2. CASE owners # {}
    <3>1. PICK p \in owners : TRUE
      BY <2>2
    <3>2. owners = {p}
      BY <3>1 DEF ProjectsInv, OwnersInv
    <3>3. QED BY <3>2, FS_Singleton
  <2>3. QED BY <2>1, <2>2
<1>2. QED BY <1>1, ProjectsInvariant, PTL

\* A change of a project's members is written only while the roles still allow
\* it: the exclusive lock spans the assertion and the write.
THEOREM MembersWrittenWithAuthority == ProjectsSpec => WrittenWithAuthority
<1>1. ProjectsInv /\ [ProjectsNext]_projects =>
        [\A q \in Requests :
           request[q].op \in OnMembers /\ request'[q] = Waiting /\ role' # role
             => request[q].by \notin accounts \/ MayNow(request[q])]_projects
  <2> SUFFICES ASSUME ProjectsInv, ProjectsNext, NEW q \in Requests,
                      request[q].op \in OnMembers, request'[q] = Waiting, role' # role
               PROVE  request[q].by \notin accounts \/ MayNow(request[q])
    OBVIOUS
  <2>1. request[q] # Waiting
    BY DEF Waiting, OnMembers
  <2>2. ASSUME NEW r \in Requests, r # q,
               Authorize(r) \/ WriteMember(r) \/ DeleteProject(r) \/ CheckOwnership(r)
                 \/ DeleteAccount(r) \/ RequestFails(r)
        PROVE  FALSE
    <3>1. request'[q] = request[q]
      BY <2>2 DEF Authorize, WriteMember, DeleteProject, CheckOwnership, DeleteAccount, RequestFails,
                  Answered, ProjectsInv, ProjectsTypeOK
    <3>2. QED BY <2>1, <3>1
  <2>3. ASSUME NEW p \in People, NEW j \in Projects, CreateProject(p, j) PROVE FALSE
    BY <2>1, <2>3 DEF CreateProject
  <2>4. WriteMember(q)
    BY <2>1, <2>2, <2>3 DEF ProjectsNext, Authorize, DeleteProject, CheckOwnership, DeleteAccount,
                            RequestFails, OnMembers
  <2>5. QED BY <2>4 DEF WriteMember, ProjectsInv, LockInv
<1>2. QED BY <1>1, ProjectsInvariant, PTL DEF ProjectsSpec, WrittenWithAuthority

-----------------------------------------------------------------------------
(* Discovery blocks.                                                       *)

BlockOps == {"createBlock", "updateBlock", "removeBlock"}
ItemOps == {"createItem", "updateItem", "removeItem"}
EditPhases == {"guarded", "counted", "changed", "recalculating"}
Statuses == {"NOT_STARTED", "IN_PROGRESS", "COMPLETED"}
Counts == {0} \cup {Cardinality(S) : S \in SUBSET (Blocks \cup Items)}
EditRequest == [op: BlockOps \cup ItemOps, phase: EditPhases, block: Blocks, item: Items \cup Blocks,
                isChecked: BOOLEAN, seen: Counts, will: Statuses \cup {"none"}, doomed: BOOLEAN]

DiscoveryTypeOK ==
    /\ DOMAIN status \subseteq Blocks
    /\ status \in [DOMAIN status -> Statuses]
    /\ DOMAIN item \subseteq Items
    /\ item \in [DOMAIN item -> [block: DOMAIN status, isChecked: BOOLEAN]]
    /\ edit \in [Editors -> {NoEdit} \cup EditRequest]

Busy(e) == edit[e] # NoEdit
About(e, b) == Busy(e) /\ edit[e].block = b
OnItem(e, i) == Busy(e) /\ edit[e].op \in ItemOps /\ edit[e].item = i
Creating(e, op) == edit[e].phase \in {"guarded", "counted"} /\ edit[e].op = op

\* Identifiers name one row, and a request under way keeps to its block.
IdsInv ==
    /\ DOMAIN status \cup DOMAIN item \subseteq used
    /\ \A e \in Editors : Busy(e) => edit[e].block \in used
    /\ \A e \in Editors : Busy(e) /\ edit[e].op \in ItemOps => edit[e].item \in used \cap Items
    /\ \A e \in Editors : Creating(e, "createBlock") =>
          edit[e].block \notin DOMAIN status /\ \A f \in Editors \ {e} : ~About(f, edit[e].block)
    /\ \A e \in Editors : Creating(e, "createItem") =>
          edit[e].item \notin DOMAIN item /\ \A f \in Editors \ {e} : ~OnItem(f, edit[e].item)
    /\ \A e \in Editors : Busy(e) /\ edit[e].op \in ItemOps /\ edit[e].item \in DOMAIN item =>
          item[edit[e].item].block = edit[e].block
    /\ \A e \in Editors : Busy(e) =>
          /\ edit[e].phase \in {"changed", "recalculating"} => edit[e].op \in ItemOps
          /\ edit[e].phase = "counted" => edit[e].op \in {"createBlock", "createItem"}
          /\ edit[e].phase = "recalculating" => edit[e].will \in Statuses

\* A request that has the right status to write, has yet to read, or is going
\* to fail: the status of its block is not settled before it is done.
Settles(e, b) ==
    /\ About(e, b)
    /\ \/ edit[e].phase = "changed"
       \/ edit[e].phase = "recalculating" /\ (edit[e].doomed \/ edit[e].will = StatusOf(b))

SettledInv ==
    \A b \in DOMAIN status \ unsettled :
        /\ status[b] # StatusOf(b) => \E f \in Editors : Settles(f, b)
        /\ \A e \in Editors :
              About(e, b) /\ edit[e].phase = "recalculating" /\ ~edit[e].doomed /\ edit[e].will # StatusOf(b)
                => \E f \in Editors \ {e} : Settles(f, b)

DiscoveryInv == DiscoveryTypeOK /\ IdsInv /\ SettledInv


\* A block's status depends on nothing but its items.
LEMMA StatusDepends ==
    ASSUME NEW b, ItemsOf(b)' = ItemsOf(b), \A i \in ItemsOf(b) : item'[i].isChecked = item[i].isChecked
    PROVE  StatusOf(b)' = StatusOf(b)
<1> DEFINE C == {i \in ItemsOf(b) : item[i].isChecked}
           D == {i \in ItemsOf(b)' : item'[i].isChecked}
<1>1. C = D
  OBVIOUS
<1>2. QED BY <1>1 DEF StatusOf

\* The status that follows from any set of items is one of the three.
LEMMA StatusType == ASSUME NEW b PROVE StatusOf(b) \in Statuses
BY DEF StatusOf, Statuses

\* A step that leaves the items of a block alone, and in which nobody
\* recalculates more or less than before.
Recalculates(e) == Busy(e) /\ edit[e].phase \in {"changed", "recalculating"}
SameEdit(f) == edit'[f] = edit[f] \/ (~Recalculates(f) /\ ~Recalculates(f)')

\* Statuses stay settled when each block is left alone, or gets the status of its items with nobody at work on it.
LEMMA SettledKept ==
    ASSUME SettledInv,
           \A b \in DOMAIN status' \ unsettled' :
              \/ b \in DOMAIN status \ unsettled /\ status'[b] = status[b] /\ StatusOf(b)' = StatusOf(b)
              \/ status'[b] = StatusOf(b)' /\ \A f \in Editors : ~About(f, b)',
           \A f \in Editors : SameEdit(f)
    PROVE  SettledInv'
<1> SUFFICES ASSUME NEW b \in DOMAIN status' \ unsettled'
             PROVE  /\ status'[b] # StatusOf(b)' => \E f \in Editors : Settles(f, b)'
                    /\ \A e \in Editors :
                         About(e, b)' /\ edit'[e].phase = "recalculating" /\ ~edit'[e].doomed
                           /\ edit'[e].will # StatusOf(b)' => \E f \in Editors \ {e} : Settles(f, b)'
  BY DEF SettledInv
<1>1. CASE b \in DOMAIN status \ unsettled /\ status'[b] = status[b] /\ StatusOf(b)' = StatusOf(b)
  <2>1. ASSUME NEW f \in Editors, Settles(f, b) PROVE Settles(f, b)'
    BY <1>1, <2>1 DEF Settles, SameEdit, Recalculates, About, Busy
  <2>2. ASSUME NEW e \in Editors, About(e, b)', edit'[e].phase = "recalculating"
        PROVE  edit'[e] = edit[e] /\ About(e, b)
    BY <2>2 DEF SameEdit, Recalculates, About, Busy
  <2>3. QED BY <1>1, <2>1, <2>2 DEF SettledInv
<1>2. QED BY <1>1

\* A step of e that changes items of the block it is about: it has a
\* recalculation before it.
LEMMA SettledByChange ==
    ASSUME DiscoveryTypeOK, SettledInv, NEW e \in Editors, Busy(e), ~Recalculates(e),
           edit'[e] # NoEdit, edit'[e].block = edit[e].block, edit'[e].phase = "changed",
           UNCHANGED <<status, unsettled>>,
           \A b \in Blocks \ {edit[e].block} : StatusOf(b)' = StatusOf(b),
           \A f \in Editors \ {e} : SameEdit(f)
    PROVE  SettledInv'
<1> SUFFICES ASSUME NEW b \in DOMAIN status \ unsettled
             PROVE  /\ status[b] # StatusOf(b)' => \E f \in Editors : Settles(f, b)'
                    /\ \A f \in Editors :
                         About(f, b)' /\ edit'[f].phase = "recalculating" /\ ~edit'[f].doomed
                           /\ edit'[f].will # StatusOf(b)' => \E g \in Editors \ {f} : Settles(g, b)'
  BY DEF SettledInv
<1>1. CASE b = edit[e].block
  <2>1. Settles(e, b)'
    BY <1>1 DEF Settles, About, Busy
  <2>2. QED BY <2>1
<1>2. CASE b # edit[e].block
  <2>1. StatusOf(b)' = StatusOf(b)
    BY <1>2 DEF DiscoveryTypeOK
  <2>2. ASSUME NEW f \in Editors, Settles(f, b) PROVE f # e /\ Settles(f, b)'
    BY <1>2, <2>1, <2>2 DEF Settles, SameEdit, Recalculates, About, Busy
  <2>3. ASSUME NEW f \in Editors, About(f, b)', edit'[f].phase = "recalculating"
        PROVE  edit'[f] = edit[f] /\ About(f, b)
    BY <2>3 DEF SameEdit, Recalculates, About, Busy
  <2>4. QED BY <2>1, <2>2, <2>3 DEF SettledInv
<1>3. QED BY <1>1, <1>2

\* The initial states satisfy DiscoveryInv.
LEMMA DiscoveryInitially == DiscoveryInit => DiscoveryInv
BY DEF DiscoveryInit, DiscoveryInv, DiscoveryTypeOK, IdsInv, SettledInv, NoEdit, Busy, Creating

\* A step that touches no item.
LEMMA StatusSame == ASSUME UNCHANGED item, NEW b PROVE StatusOf(b)' = StatusOf(b)
BY StatusDepends DEF ItemsOf

\* A request goes on as it began, or ends.
Continues(f) ==
    Busy(f)' =>
       /\ Busy(f) /\ edit'[f].op = edit[f].op /\ edit'[f].block = edit[f].block /\ edit'[f].item = edit[f].item
       /\ \A op \in {"createBlock", "createItem"} : Creating(f, op)' => Creating(f, op)
       /\ edit'[f].phase \in {"changed", "recalculating"} => edit[f].op \in ItemOps
       /\ edit'[f].phase = "counted" => edit[f].op \in {"createBlock", "createItem"}
       /\ edit'[f].phase = "recalculating" => edit'[f].will \in Statuses

\* A step that starts no edit and adds no row leaves the identifiers in order.
LEMMA IdsKept ==
    ASSUME IdsInv, UNCHANGED used, \A f \in Editors : Continues(f),
           DOMAIN status' \cup DOMAIN item' \subseteq used,
           \A f \in Editors :
              /\ Creating(f, "createBlock") /\ Creating(f, "createBlock")' => edit[f].block \notin DOMAIN status'
              /\ Creating(f, "createItem") /\ Creating(f, "createItem")' => edit[f].item \notin DOMAIN item'
              /\ Busy(f) /\ edit[f].op \in ItemOps /\ edit[f].item \in DOMAIN item'
                   => item'[edit[f].item].block = edit[f].block
    PROVE  IdsInv'
<1>1. ASSUME NEW f \in Editors, NEW i, About(f, i)' PROVE About(f, i)
  BY <1>1 DEF About, Continues
<1>2. ASSUME NEW f \in Editors, NEW i, OnItem(f, i)' PROVE OnItem(f, i)
  BY <1>2 DEF OnItem, Continues
<1>3. \A f \in Editors : \A op : Creating(f, op)' => Busy(f)'
  BY DEF Creating, Busy, NoEdit
<1>4. QED BY <1>1, <1>2, <1>3 DEF IdsInv, Continues

\* Ask preserves the invariant.
LEMMA AskKeeps ==
    ASSUME DiscoveryInv, NEW e \in Editors, AskBlock(e) \/ AskItem(e) PROVE DiscoveryInv'
<1> USE DEF DiscoveryInv
<1>1. PICK op \in BlockOps \cup ItemOps, b \in Blocks, i \in Blocks \cup Items, checked \in BOOLEAN :
         /\ Ask(e, op, b, i, checked)
         /\ op = "createBlock" => b \notin used /\ i = b
         /\ op \in {"updateBlock", "removeBlock"} => b \in DOMAIN status /\ i = b
         /\ op \in ItemOps => b \in DOMAIN status
         /\ op \in ItemOps => i \in Items
         /\ op = "createItem" => i \notin used
         /\ op \in {"updateItem", "removeItem"} => i \in ItemsOf(b)
         /\ used' = IF op = "createBlock" THEN used \cup {b} ELSE IF op = "createItem" THEN used \cup {i} ELSE used
  <2>1. CASE AskBlock(e)
    <3>1. CASE \E b \in NewId(Blocks) : Ask(e, "createBlock", b, b, FALSE) /\ used' = used \cup {b}
      BY <3>1 DEF BlockOps, ItemOps, NewId
    <3>2. CASE \E b \in DOMAIN status, op \in {"updateBlock", "removeBlock"} :
                  Ask(e, op, b, b, FALSE) /\ UNCHANGED used
      BY <3>2 DEF BlockOps, ItemOps, DiscoveryTypeOK
    <3>3. QED BY <2>1, <3>1, <3>2 DEF AskBlock
  <2>2. CASE AskItem(e)
    <3>1. PICK b \in DOMAIN status :
          \/ \E i \in NewId(Items) : Ask(e, "createItem", b, i, FALSE) /\ used' = used \cup {i}
          \/ \E i \in ItemsOf(b), checked \in BOOLEAN : Ask(e, "updateItem", b, i, checked) /\ UNCHANGED used
          \/ \E i \in ItemsOf(b) : Ask(e, "removeItem", b, i, FALSE) /\ UNCHANGED used
      BY <2>2 DEF AskItem
    <3>2. b \in Blocks /\ ItemsOf(b) \subseteq Items
      BY DEF DiscoveryTypeOK, ItemsOf
    <3>3. CASE \E i \in NewId(Items) : Ask(e, "createItem", b, i, FALSE) /\ used' = used \cup {i}
      BY <3>2, <3>3 DEF BlockOps, ItemOps, NewId
    <3>4. CASE \E i \in ItemsOf(b), checked \in BOOLEAN : Ask(e, "updateItem", b, i, checked) /\ UNCHANGED used
      BY <3>2, <3>4 DEF BlockOps, ItemOps
    <3>5. CASE \E i \in ItemsOf(b) : Ask(e, "removeItem", b, i, FALSE) /\ UNCHANGED used
      <4>1. PICK i \in ItemsOf(b) : Ask(e, "removeItem", b, i, FALSE) /\ UNCHANGED used
        BY <3>5
      <4>2. "removeItem" \in ItemOps /\ "removeItem" \notin {"createBlock", "updateBlock", "removeBlock", "createItem"}
        BY DEF ItemOps
      <4>3. QED BY <3>2, <4>1, <4>2
    <3>6. QED BY <3>1, <3>3, <3>4, <3>5
  <2>3. QED BY <2>1, <2>2
<1>2. edit[e].phase = "none" /\ UNCHANGED <<status, item, unsettled>>
  BY DEF AskBlock, AskItem, In
<1>3. edit[e] = NoEdit
  BY <1>2 DEF DiscoveryTypeOK, EditRequest, EditPhases
<1> DEFINE r == [op |-> op, phase |-> "guarded", block |-> b, item |-> i,
                 isChecked |-> checked, seen |-> 0, will |-> "none", doomed |-> FALSE]
<1>4. edit' = [edit EXCEPT ![e] = r]
  BY <1>1 DEF Ask
<1>5. r \in EditRequest
  BY DEF EditRequest, EditPhases, Counts
<1>6. edit'[e] = r /\ \A f \in Editors \ {e} : edit'[f] = edit[f]
  BY <1>4 DEF DiscoveryTypeOK
<1>7. DiscoveryTypeOK'
  BY <1>2, <1>4, <1>5 DEF DiscoveryTypeOK
<1>8. IdsInv'
  BY <1>1, <1>2, <1>3, <1>6 DEF IdsInv, Busy, About, OnItem, Creating, ItemsOf, NoEdit, BlockOps, ItemOps
<1>9. SettledInv'
  <2>1. \A f \in Editors : SameEdit(f)
    BY <1>3, <1>6 DEF SameEdit, Recalculates, Busy
  <2>2. QED BY <1>2, <2>1, SettledKept, StatusSame
<1>10. QED BY <1>7, <1>8, <1>9

\* What a request under way is.
LEMMA BusyType == ASSUME DiscoveryTypeOK, NEW e \in Editors, Busy(e) PROVE edit[e] \in EditRequest
BY DEF DiscoveryTypeOK, Busy

\* Count preserves the invariant.
LEMMA CountKeeps ==
    ASSUME DiscoveryInv, NEW e \in Editors, Count(e) PROVE DiscoveryInv'
<1> USE DEF DiscoveryInv
<1> DEFINE n == Cardinality(IF edit[e].op = "createBlock" THEN DOMAIN status ELSE ItemsOf(edit[e].block))
           r == [edit[e] EXCEPT !.phase = "counted", !.seen = n]
<1>1. edit[e].phase = "guarded" /\ edit[e].op \in {"createBlock", "createItem"}
  BY DEF Count, In, IsCreate
<1>2. edit' = [edit EXCEPT ![e] = r] /\ UNCHANGED <<status, item, used, unsettled>>
  BY DEF Count
<1>3. edit[e] \in EditRequest /\ Busy(e)
  BY <1>1 DEF DiscoveryTypeOK, NoEdit, Busy
<1>4. n \in Counts
  BY DEF Counts, DiscoveryTypeOK, ItemsOf
<1>5. r \in EditRequest /\ r.phase = "counted" /\ r.op = edit[e].op /\ r.block = edit[e].block
        /\ r.item = edit[e].item
  BY <1>3, <1>4 DEF EditRequest, EditPhases
<1>6. edit'[e] = r /\ \A f \in Editors \ {e} : edit'[f] = edit[f]
  BY <1>2 DEF DiscoveryTypeOK
<1> HIDE DEF r
<1>7. DiscoveryTypeOK'
  BY <1>2, <1>5 DEF DiscoveryTypeOK
<1>8. \A f \in Editors : Busy(f)' <=> Busy(f)
  BY <1>3, <1>5, <1>6 DEF Busy, NoEdit
<1>9. IdsInv'
  <2>1. \A f \in Editors : Continues(f)
    BY <1>1, <1>3, <1>5, <1>6, <1>8 DEF Continues, Creating, Busy, IdsInv
  <2>2. QED BY <1>2, <2>1, IdsKept DEF IdsInv
<1>10. SettledInv'
  <2>1. \A f \in Editors : SameEdit(f)
    BY <1>1, <1>5, <1>6 DEF SameEdit, Recalculates
  <2>2. QED BY <1>2, <2>1, SettledKept, StatusSame
<1>11. QED BY <1>7, <1>9, <1>10

\* Somebody's commit dooms transactions, and does nothing else to them.
Doomed(f) == edit'[f] = edit[f] \/ edit'[f] = [edit[f] EXCEPT !.doomed = TRUE]

\* An edit that is doomed stays the same edit otherwise.
LEMMA DoomedType ==
    ASSUME DiscoveryTypeOK, NEW f \in Editors, Doomed(f), Busy(f)
    PROVE  /\ edit'[f] \in EditRequest /\ Busy(f)'
           /\ edit'[f].op = edit[f].op /\ edit'[f].phase = edit[f].phase /\ edit'[f].block = edit[f].block
           /\ edit'[f].item = edit[f].item /\ edit'[f].will = edit[f].will
           /\ edit[f].doomed => edit'[f].doomed
<1>1. edit[f] \in EditRequest
  BY BusyType
<1>2. QED BY <1>1 DEF Doomed, EditRequest, Busy, NoEdit

\* InsertBlock preserves the invariant.
LEMMA InsertBlockKeeps ==
    ASSUME DiscoveryInv, NEW e \in Editors, Insert(e), edit[e].op = "createBlock", NEW b, b = edit[e].block
    PROVE  DiscoveryInv'
<1> USE DEF DiscoveryInv
<1> DEFINE doomed == [f \in Editors |-> IF SameCount(edit[e], edit[f]) THEN [edit[f] EXCEPT !.doomed = TRUE] ELSE edit[f]]
<1>1. /\ edit[e].phase = "counted"
      /\ status' = [c \in DOMAIN status \cup {b} |-> IF c = b THEN "NOT_STARTED" ELSE status[c]]
      /\ edit' = [doomed EXCEPT ![e] = NoEdit]
      /\ UNCHANGED <<item, used, unsettled>>
  BY DEF Insert, In
<1>2. edit[e] \in EditRequest /\ Busy(e)
  BY <1>1 DEF DiscoveryTypeOK, NoEdit, Busy
<1>3. b \in Blocks /\ b \in used /\ b \notin DOMAIN status /\ \A f \in Editors \ {e} : ~About(f, b)
  BY <1>1, <1>2 DEF EditRequest, IdsInv, Creating
<1>4. /\ DOMAIN status' = DOMAIN status \cup {b} /\ status'[b] = "NOT_STARTED"
      /\ \A c \in DOMAIN status : status'[c] = status[c]
  BY <1>1, <1>3
<1>5. edit'[e] = NoEdit /\ ~Busy(e)'
  BY <1>1 DEF Busy
<1>6. ASSUME NEW f \in Editors \ {e}
      PROVE  Doomed(f) /\ (~Busy(f) => edit'[f] = edit[f]) /\ (edit'[f] # edit[f] => edit[f].phase = "counted")
  BY <1>1 DEF Doomed, SameCount, Busy, NoEdit
<1>7. \A f \in Editors \ {e} : Busy(f)' <=> Busy(f)
  BY <1>6, DoomedType DEF Busy
<1>8. ASSUME NEW f \in Editors \ {e}, Busy(f)
      PROVE  edit'[f] \in EditRequest /\ edit'[f].op = edit[f].op /\ edit'[f].phase = edit[f].phase
             /\ edit'[f].block = edit[f].block /\ edit'[f].item = edit[f].item
             /\ edit'[f].will = edit[f].will
  BY <1>6, <1>8, DoomedType
<1>9. DiscoveryTypeOK'
  <2>1. status' \in [DOMAIN status' -> Statuses] /\ DOMAIN status' \subseteq Blocks
    BY <1>3, <1>4, <1>1 DEF DiscoveryTypeOK, Statuses
  <2>2. item' \in [DOMAIN item' -> [block: DOMAIN status', isChecked: BOOLEAN]] /\ DOMAIN item' \subseteq Items
    BY <1>1, <1>4 DEF DiscoveryTypeOK
  <2>3. \A f \in Editors : edit'[f] \in {NoEdit} \cup EditRequest
    BY <1>5, <1>6, <1>8 DEF DiscoveryTypeOK, Busy
  <2>4. edit' \in [Editors -> {NoEdit} \cup EditRequest]
    BY <1>1, <2>3 DEF DiscoveryTypeOK
  <2>5. QED BY <2>1, <2>2, <2>4 DEF DiscoveryTypeOK
<1>10. IdsInv'
  <2>1. \A f \in Editors : Continues(f)
    BY <1>5, <1>6, <1>7, <1>8 DEF Continues, Creating, Busy, IdsInv
  <2>2. \A f \in Editors : Creating(f, "createBlock") /\ Creating(f, "createBlock")' => f # e /\ edit[f].block # b
    BY <1>3, <1>5 DEF Creating, About, Busy, NoEdit
  <2>3. QED BY <1>1, <1>3, <1>4, <2>1, <2>2, IdsKept DEF IdsInv
<1>11. SettledInv'
  <2>1. ItemsOf(b) = {}
    BY <1>3 DEF ItemsOf, DiscoveryTypeOK
  <2>2. StatusOf(b)' = "NOT_STARTED"
    BY <1>1, <2>1 DEF StatusOf, ItemsOf
  <2>3. \A f \in Editors : SameEdit(f)
    BY <1>1, <1>5, <1>6, <1>7, <1>8 DEF SameEdit, Recalculates
  <2>4. ASSUME NEW f \in Editors, About(f, b)' PROVE FALSE
    BY <1>3, <1>5, <1>7, <1>8, <2>4 DEF About
  <2>5. \A c \in DOMAIN status : StatusOf(c)' = StatusOf(c)
    BY <1>1, StatusSame
  <2>6. QED BY <1>1, <1>4, <2>2, <2>3, <2>4, <2>5, SettledKept
<1>12. QED BY <1>9, <1>10, <1>11

\* InsertItem preserves the invariant.
LEMMA InsertItemKeeps ==
    ASSUME DiscoveryInv, NEW e \in Editors, Insert(e), edit[e].op = "createItem",
           NEW b, b = edit[e].block, NEW i, i = edit[e].item
    PROVE  DiscoveryInv'
<1> USE DEF DiscoveryInv
<1> DEFINE doomed == [f \in Editors |-> IF SameCount(edit[e], edit[f]) THEN [edit[f] EXCEPT !.doomed = TRUE] ELSE edit[f]]
<1>1. /\ edit[e].phase = "counted" /\ b \in DOMAIN status
      /\ item' = [j \in DOMAIN item \cup {i} |-> IF j = i THEN [block |-> b, isChecked |-> FALSE] ELSE item[j]]
      /\ edit' = [doomed EXCEPT ![e].phase = "changed"]
      /\ UNCHANGED <<status, used, unsettled>>
  BY DEF Insert, In
<1>2. edit[e] \in EditRequest /\ Busy(e)
  BY <1>1 DEF DiscoveryTypeOK, NoEdit, Busy
<1>3. i \in used /\ i \notin DOMAIN item /\ \A f \in Editors \ {e} : ~OnItem(f, i)
  BY <1>1, <1>2 DEF IdsInv, Creating, ItemOps
<1>4. /\ DOMAIN item' = DOMAIN item \cup {i} /\ item'[i] = [block |-> b, isChecked |-> FALSE]
      /\ \A j \in DOMAIN item : item'[j] = item[j]
  BY <1>1, <1>3
<1>5. /\ edit'[e] \in EditRequest /\ Busy(e)' /\ edit'[e].phase = "changed" /\ edit'[e].op = "createItem"
      /\ edit'[e].block = b /\ edit'[e].item = i
  <2>1. edit'[e] = [edit[e] EXCEPT !.phase = "changed"] \/ edit'[e] = [[edit[e] EXCEPT !.doomed = TRUE] EXCEPT !.phase = "changed"]
    BY <1>1
  <2>2. QED BY <1>2, <2>1 DEF EditRequest, EditPhases, Busy, NoEdit
<1>6. ASSUME NEW f \in Editors \ {e}
      PROVE  Doomed(f) /\ (~Busy(f) => edit'[f] = edit[f]) /\ (edit'[f] # edit[f] => edit[f].phase = "counted")
  BY <1>1 DEF Doomed, SameCount, Busy, NoEdit
<1>7. \A f \in Editors \ {e} : Busy(f)' <=> Busy(f)
  BY <1>6, DoomedType DEF Busy
<1>8. ASSUME NEW f \in Editors \ {e}, Busy(f)
      PROVE  edit'[f] \in EditRequest /\ edit'[f].op = edit[f].op /\ edit'[f].phase = edit[f].phase
             /\ edit'[f].block = edit[f].block /\ edit'[f].item = edit[f].item
             /\ edit'[f].will = edit[f].will
  BY <1>6, <1>8, DoomedType
<1>9. i \in Items
  BY <1>2 DEF IdsInv, ItemOps
<1>10. DiscoveryTypeOK'
  <2>1. item' \in [DOMAIN item' -> [block: DOMAIN status', isChecked: BOOLEAN]] /\ DOMAIN item' \subseteq Items
    BY <1>1, <1>4, <1>9 DEF DiscoveryTypeOK
  <2>2. \A f \in Editors : edit'[f] \in {NoEdit} \cup EditRequest
    BY <1>5, <1>6, <1>8 DEF DiscoveryTypeOK, Busy
  <2>3. edit' \in [Editors -> {NoEdit} \cup EditRequest]
    BY <1>1, <2>2 DEF DiscoveryTypeOK
  <2>4. QED BY <1>1, <2>1, <2>3 DEF DiscoveryTypeOK
<1>11. IdsInv'
  <2>1. \A f \in Editors : Continues(f)
    BY <1>2, <1>5, <1>6, <1>7, <1>8 DEF Continues, Creating, Busy, IdsInv, ItemOps
  <2>2. \A f \in Editors : Creating(f, "createItem") /\ Creating(f, "createItem")' =>
           f # e /\ edit[f].item \notin DOMAIN item'
    BY <1>3, <1>4, <1>5 DEF Creating, OnItem, Busy, NoEdit, ItemOps, IdsInv
  <2>3. \A f \in Editors : Busy(f) /\ edit[f].op \in ItemOps /\ edit[f].item \in DOMAIN item'
                   => item'[edit[f].item].block = edit[f].block
    BY <1>3, <1>4 DEF OnItem, IdsInv
  <2>4. QED BY <1>1, <1>3, <1>4, <2>1, <2>2, <2>3, IdsKept DEF IdsInv
<1>12. SettledInv'
  <2>1. ASSUME NEW c \in Blocks \ {b} PROVE StatusOf(c)' = StatusOf(c)
    <3>1. ItemsOf(c)' = ItemsOf(c) /\ \A j \in ItemsOf(c) : item'[j].isChecked = item[j].isChecked
      BY <1>4 DEF ItemsOf
    <3>2. QED BY <3>1, StatusDepends
  <2>2. \A f \in Editors \ {e} : SameEdit(f)
    BY <1>6, <1>7, <1>8 DEF SameEdit, Recalculates
  <2>3. ~Recalculates(e) /\ edit'[e] # NoEdit
    BY <1>1, <1>5 DEF Recalculates, Busy
  <2>4. QED BY <1>1, <1>2, <1>5, <2>1, <2>2, <2>3, SettledByChange
<1>13. QED BY <1>10, <1>11, <1>12

\* ChangeItem preserves the invariant.
LEMMA ChangeItemKeeps ==
    ASSUME DiscoveryInv, NEW e \in Editors, UpdateItem(e) \/ RemoveItem(e),
           NEW b, b = edit[e].block, NEW i, i = edit[e].item
    PROVE  DiscoveryInv'
<1> USE DEF DiscoveryInv
<1>1. /\ edit[e].phase = "guarded" /\ edit[e].op \in {"updateItem", "removeItem"}
      /\ edit' = [edit EXCEPT ![e].phase = "changed"]
      /\ UNCHANGED <<status, used, unsettled>>
  BY DEF UpdateItem, RemoveItem, In
<1>2. edit[e] \in EditRequest /\ Busy(e)
  BY <1>1 DEF DiscoveryTypeOK, NoEdit, Busy
<1>3. /\ edit'[e] \in EditRequest /\ Busy(e)' /\ edit'[e].phase = "changed" /\ edit'[e].op = edit[e].op
      /\ edit'[e].block = b /\ edit'[e].item = i
      /\ \A f \in Editors \ {e} : edit'[f] = edit[f]
  <2>1. edit'[e] = [edit[e] EXCEPT !.phase = "changed"] /\ \A f \in Editors \ {e} : edit'[f] = edit[f]
    BY <1>1 DEF DiscoveryTypeOK
  <2>2. QED BY <1>2, <2>1 DEF EditRequest, EditPhases, Busy, NoEdit
<1>4. i \in DOMAIN item => item[i].block = b
  BY <1>1, <1>2 DEF IdsInv, ItemOps
<1>5. /\ DOMAIN item' \subseteq DOMAIN item
      /\ \A j \in DOMAIN item : j # i => j \in DOMAIN item' /\ item'[j] = item[j]
      /\ \A j \in DOMAIN item' : item'[j] \in [block: DOMAIN status, isChecked: BOOLEAN] /\ item'[j].block = item[j].block
      /\ item' \in [DOMAIN item' -> [block: DOMAIN status, isChecked: BOOLEAN]]
  <2>1. CASE UpdateItem(e)
    <3>1. item' = [item EXCEPT ![i] = [@ EXCEPT !.isChecked = edit[e].isChecked]] /\ edit[e].isChecked \in BOOLEAN /\ i \in DOMAIN item
      BY <1>2, <2>1 DEF UpdateItem, EditRequest
    <3>2. item[i] \in [block: DOMAIN status, isChecked: BOOLEAN]
      BY <3>1 DEF DiscoveryTypeOK
    <3>3. QED BY <3>1, <3>2 DEF DiscoveryTypeOK
  <2>2. CASE RemoveItem(e)
    <3>1. item' = [j \in DOMAIN item \ {i} |-> item[j]]
      BY <2>2 DEF RemoveItem
    <3>2. QED BY <3>1 DEF DiscoveryTypeOK
  <2>3. QED BY <2>1, <2>2
<1>6. DiscoveryTypeOK'
  <2>1. edit' \in [Editors -> {NoEdit} \cup EditRequest]
    BY <1>1, <1>3 DEF DiscoveryTypeOK
  <2>2. QED BY <1>1, <1>5, <2>1 DEF DiscoveryTypeOK
<1>7. IdsInv'
  <2>1. \A f \in Editors : Continues(f)
    BY <1>1, <1>2, <1>3 DEF Continues, Creating, Busy, IdsInv, ItemOps
  <2>2. QED BY <1>1, <1>5, <2>1, IdsKept DEF IdsInv, Creating
<1>8. SettledInv'
  <2>1. ASSUME NEW c \in Blocks \ {b} PROVE StatusOf(c)' = StatusOf(c)
    <3>1. ItemsOf(c)' = ItemsOf(c) /\ \A j \in ItemsOf(c) : item'[j].isChecked = item[j].isChecked
      BY <1>4, <1>5 DEF ItemsOf
    <3>2. QED BY <3>1, StatusDepends
  <2>2. \A f \in Editors \ {e} : SameEdit(f)
    BY <1>3 DEF SameEdit
  <2>3. ~Recalculates(e) /\ edit'[e] # NoEdit
    BY <1>1, <1>3 DEF Recalculates, Busy
  <2>4. QED BY <1>1, <1>2, <1>3, <2>1, <2>2, <2>3, SettledByChange
<1>9. QED BY <1>6, <1>7, <1>8

\* RemoveBlock preserves the invariant.
LEMMA RemoveBlockKeeps ==
    ASSUME DiscoveryInv, NEW e \in Editors, RemoveBlock(e), NEW b, b = edit[e].block
    PROVE  DiscoveryInv'
<1> USE DEF DiscoveryInv
<1>1. /\ edit[e].phase = "guarded" /\ edit[e].op = "removeBlock"
      /\ status' = [c \in DOMAIN status \ {b} |-> status[c]]
      /\ item' = [i \in DOMAIN item \ ItemsOf(b) |-> item[i]]
      /\ edit' = [edit EXCEPT ![e] = NoEdit]
      /\ UNCHANGED <<used, unsettled>>
  BY DEF RemoveBlock, In, Finish
<1>2. /\ DOMAIN item' \subseteq DOMAIN item /\ \A i \in DOMAIN item' : item'[i] = item[i] /\ item'[i].block \in DOMAIN status'
      /\ \A i \in DOMAIN item : item[i].block # b => i \in DOMAIN item'
      /\ DOMAIN status' \subseteq DOMAIN status \ {b} /\ \A c \in DOMAIN status' : status'[c] = status[c]
  BY <1>1 DEF ItemsOf, DiscoveryTypeOK
<1>3. edit'[e] = NoEdit /\ ~Busy(e)' /\ \A f \in Editors \ {e} : edit'[f] = edit[f]
  BY <1>1 DEF DiscoveryTypeOK, Busy
<1>4. DiscoveryTypeOK'
  <2>1. item' \in [DOMAIN item' -> [block: DOMAIN status', isChecked: BOOLEAN]]
    BY <1>1, <1>2 DEF DiscoveryTypeOK
  <2>2. QED BY <1>1, <1>2, <2>1 DEF DiscoveryTypeOK
<1>5. IdsInv'
  <2>1. \A f \in Editors : Continues(f)
    BY <1>3 DEF Continues, Creating, Busy, IdsInv
  <2>2. QED BY <1>1, <1>2, <2>1, IdsKept DEF IdsInv, Creating
<1>6. SettledInv'
  <2>1. ASSUME NEW c \in DOMAIN status' PROVE StatusOf(c)' = StatusOf(c)
    <3>1. ItemsOf(c)' = ItemsOf(c) /\ \A j \in ItemsOf(c) : item'[j].isChecked = item[j].isChecked
      BY <1>2 DEF ItemsOf
    <3>2. QED BY <3>1, StatusDepends
  <2>2. \A f \in Editors : SameEdit(f)
    BY <1>1, <1>3 DEF SameEdit, Recalculates
  <2>3. QED BY <1>1, <1>2, <2>1, <2>2, SettledKept
<1>7. QED BY <1>4, <1>5, <1>6

\* The row of b is written by e, at the end of its request.
LEMMA RewrittenKeeps ==
    ASSUME DiscoveryTypeOK, IdsInv, NEW e \in Editors, Busy(e), NEW b, b = edit[e].block,
           edit' = [Rewritten(b, e) EXCEPT ![e] = NoEdit], UNCHANGED <<item, used>>,
           DOMAIN status' = DOMAIN status, status' \in [DOMAIN status -> Statuses]
    PROVE  /\ DiscoveryTypeOK' /\ IdsInv'
           /\ \A f \in Editors : \A c : About(f, c)' => f # e /\ About(f, c) /\ edit'[f].phase = edit[f].phase
                                                /\ edit'[f].will = edit[f].will
           /\ \A f \in Editors \ {e} : \A c : Settles(f, c) => Settles(f, c)'
           /\ \A f \in Editors : About(f, b)' /\ edit'[f].phase = "recalculating" => edit'[f].doomed
           /\ \A f \in Editors : Busy(f)' /\ ~edit'[f].doomed => edit'[f] = edit[f]
<1>1. edit'[e] = NoEdit /\ ~Busy(e)'
  BY DEF Busy, Rewritten
<1>2. \A f \in Editors \ {e} :
         /\ edit'[f] = edit[f] \/ edit'[f] = [edit[f] EXCEPT !.doomed = TRUE]
         /\ edit[f].phase = "recalculating" /\ edit[f].block = b => edit'[f] = [edit[f] EXCEPT !.doomed = TRUE]
         /\ edit[f] = NoEdit => edit'[f] = NoEdit
  BY DEF Rewritten, In, NoEdit
<1>3. \A f \in Editors \ {e} : Doomed(f) /\ (Busy(f)' => Busy(f))
  BY <1>2 DEF Doomed, Busy
<1>4. ASSUME NEW f \in Editors, Busy(f)'
      PROVE  /\ f # e /\ Busy(f) /\ edit'[f] \in EditRequest /\ edit'[f].op = edit[f].op
             /\ edit'[f].phase = edit[f].phase /\ edit'[f].block = edit[f].block /\ edit'[f].item = edit[f].item
             /\ edit'[f].will = edit[f].will /\ (edit[f].doomed => edit'[f].doomed)
  BY <1>1, <1>3, <1>4, DoomedType
<1>5. DiscoveryTypeOK'
  <2>1. \A f \in Editors : edit'[f] \in {NoEdit} \cup EditRequest
    BY <1>4 DEF Busy
  <2>2. edit' \in [Editors -> {NoEdit} \cup EditRequest]
    BY <2>1 DEF Rewritten
  <2>3. QED BY <2>2 DEF DiscoveryTypeOK
<1>6. IdsInv'
  <2>1. \A f \in Editors : Continues(f)
    BY <1>4 DEF Continues, Creating, IdsInv
  <2>2. QED BY <2>1, IdsKept DEF IdsInv, Creating
<1>7. \A f \in Editors : \A c : About(f, c)' => f # e /\ About(f, c) /\ edit'[f].phase = edit[f].phase
                                          /\ edit'[f].will = edit[f].will
  BY <1>4 DEF About
<1>8. ASSUME NEW f \in Editors \ {e}, NEW c, Settles(f, c) PROVE Settles(f, c)'
  <2>1. Busy(f) /\ Busy(f)'
    BY <1>3, <1>8, DoomedType DEF Settles, About
  <2>2. StatusOf(c)' = StatusOf(c)
    BY StatusSame
  <2>3. QED BY <1>4, <1>8, <2>1, <2>2 DEF Settles, About
<1>9. ASSUME NEW f \in Editors, About(f, b)', edit'[f].phase = "recalculating" PROVE edit'[f].doomed
  <2>1. f # e /\ Busy(f) /\ edit[f].phase = "recalculating" /\ edit[f].block = b
    BY <1>4, <1>9 DEF About
  <2>2. edit'[f] = [edit[f] EXCEPT !.doomed = TRUE] /\ edit[f] \in EditRequest
    BY <1>2, <2>1, BusyType
  <2>3. QED BY <2>2 DEF EditRequest
<1>10. ASSUME NEW f \in Editors, Busy(f)', ~edit'[f].doomed PROVE edit'[f] = edit[f]
  <2>1. f # e /\ edit[f] \in EditRequest
    BY <1>4, <1>10, BusyType
  <2>2. CASE edit'[f] = [edit[f] EXCEPT !.doomed = TRUE]
    <3>1. edit'[f].doomed
      BY <2>1, <2>2 DEF EditRequest
    <3>2. QED BY <1>10, <3>1
  <2>3. QED BY <1>2, <2>1, <2>2
<1>11. QED BY <1>5, <1>6, <1>7, <1>8, <1>9, <1>10

\* UpdateBlock preserves the invariant.
LEMMA UpdateBlockKeeps ==
    ASSUME DiscoveryInv, NEW e \in Editors, UpdateBlock(e) PROVE DiscoveryInv'
<1> USE DEF DiscoveryInv
<1>0. PICK b : b = edit[e].block
  OBVIOUS
<1>1. /\ edit[e].phase = "guarded" /\ Busy(e)
      /\ edit' = [Rewritten(b, e) EXCEPT ![e] = NoEdit] /\ UNCHANGED <<status, item, used, unsettled>>
  BY <1>0 DEF UpdateBlock, In, Busy, NoEdit
<1>2. DOMAIN status' = DOMAIN status /\ status' \in [DOMAIN status -> Statuses]
  BY <1>1 DEF DiscoveryTypeOK
<1>3. /\ DiscoveryTypeOK' /\ IdsInv'
      /\ \A f \in Editors : \A c : About(f, c)' => f # e /\ About(f, c)
      /\ \A f \in Editors \ {e} : \A c : Settles(f, c) => Settles(f, c)'
      /\ \A f \in Editors : Busy(f)' /\ ~edit'[f].doomed => edit'[f] = edit[f]
  BY <1>0, <1>1, <1>2, RewrittenKeeps
<1>4. \A c : StatusOf(c)' = StatusOf(c) /\ ~Settles(e, c)
  BY <1>1, StatusSame DEF Settles
<1>5. ASSUME NEW f \in Editors, NEW c, About(f, c)', ~edit'[f].doomed PROVE About(f, c) /\ edit'[f] = edit[f]
  BY <1>3, <1>5 DEF About
<1>6. SettledInv'
  BY <1>1, <1>3, <1>4, <1>5 DEF SettledInv
<1>7. QED BY <1>3, <1>6

\* WriteStatus preserves the invariant.
LEMMA WriteStatusKeeps ==
    ASSUME DiscoveryInv, NEW e \in Editors, WriteStatus(e) PROVE DiscoveryInv'
<1> USE DEF DiscoveryInv
<1>0. PICK b : b = edit[e].block
  OBVIOUS
<1>1. /\ edit[e].phase = "recalculating" /\ ~edit[e].doomed /\ Busy(e) /\ b \in DOMAIN status
      /\ status' = [status EXCEPT ![b] = edit[e].will]
      /\ edit' = [Rewritten(b, e) EXCEPT ![e] = NoEdit] /\ UNCHANGED <<item, used, unsettled>>
  BY <1>0 DEF WriteStatus, In, Busy, NoEdit
<1>2. edit[e].will \in Statuses
  BY <1>1 DEF IdsInv
<1>3. DOMAIN status' = DOMAIN status /\ status' \in [DOMAIN status -> Statuses]
  BY <1>1, <1>2 DEF DiscoveryTypeOK
<1>4. /\ DiscoveryTypeOK' /\ IdsInv'
      /\ \A f \in Editors : \A c : About(f, c)' => f # e /\ About(f, c)
      /\ \A f \in Editors \ {e} : \A c : Settles(f, c) => Settles(f, c)'
      /\ \A f \in Editors : About(f, b)' /\ edit'[f].phase = "recalculating" => edit'[f].doomed
      /\ \A f \in Editors : Busy(f)' /\ ~edit'[f].doomed => edit'[f] = edit[f]
  BY <1>0, <1>1, <1>3, RewrittenKeeps
<1>5. \A c : StatusOf(c)' = StatusOf(c)
  BY <1>1, StatusSame
<1>6. ASSUME NEW f \in Editors, NEW c, About(f, c)', ~edit'[f].doomed PROVE About(f, c) /\ edit'[f] = edit[f]
  BY <1>4, <1>6 DEF About
<1>7. ASSUME NEW c \in DOMAIN status \ unsettled
      PROVE  /\ status'[c] # StatusOf(c)' => \E f \in Editors : Settles(f, c)'
             /\ \A f \in Editors :
                   About(f, c)' /\ edit'[f].phase = "recalculating" /\ ~edit'[f].doomed
                     /\ edit'[f].will # StatusOf(c)' => \E g \in Editors \ {f} : Settles(g, c)'
  <2>1. CASE c = b
    <3>1. status'[c] = edit[e].will
      BY <1>1, <2>1 DEF DiscoveryTypeOK
    <3>2. edit[e].will # StatusOf(c) => \E f \in Editors \ {e} : Settles(f, c)
      BY <1>0, <1>1, <2>1 DEF SettledInv, About
    <3>3. QED BY <1>4, <1>5, <2>1, <3>1, <3>2
  <2>2. CASE c # b
    <3>1. status'[c] = status[c] /\ ~Settles(e, c)
      BY <1>0, <1>1, <2>2 DEF DiscoveryTypeOK, Settles, About
    <3>2. QED BY <1>4, <1>5, <1>6, <3>1 DEF SettledInv
  <2>3. QED BY <2>1, <2>2
<1>8. SettledInv'
  BY <1>1, <1>3, <1>7 DEF SettledInv
<1>9. QED BY <1>4, <1>8

\* ReadItems preserves the invariant.
LEMMA ReadItemsKeeps ==
    ASSUME DiscoveryInv, NEW e \in Editors, ReadItems(e) PROVE DiscoveryInv'
<1> USE DEF DiscoveryInv
<1>0. PICK b : b = edit[e].block
  OBVIOUS
<1> DEFINE r == [edit[e] EXCEPT !.phase = "recalculating", !.will = StatusOf(b), !.doomed = FALSE]
<1>1. /\ edit[e].phase = "changed" /\ Busy(e)
      /\ edit' = [edit EXCEPT ![e] = r] /\ UNCHANGED <<status, item, used, unsettled>>
  <2>1. edit' = [edit EXCEPT ![e] = [[[@ EXCEPT !.phase = "recalculating"]
                                        EXCEPT !.will = StatusOf(b)] EXCEPT !.doomed = FALSE]]
    BY <1>0 DEF ReadItems
  <2>2. edit[e].phase = "changed" /\ Busy(e) /\ UNCHANGED <<status, item, used, unsettled>>
    BY DEF ReadItems, In, Busy, NoEdit
  <2>3. r = [[[edit[e] EXCEPT !.phase = "recalculating"] EXCEPT !.will = StatusOf(b)] EXCEPT !.doomed = FALSE]
    OBVIOUS
  <2>4. QED BY <2>1, <2>2, <2>3
<1>2. edit[e] \in EditRequest /\ StatusOf(b) \in Statuses
  BY <1>1, BusyType, StatusType
<1>3. r \in EditRequest /\ r.phase = "recalculating" /\ r.op = edit[e].op /\ r.block = b /\ r.item = edit[e].item
        /\ r.will = StatusOf(b)
  BY <1>0, <1>2 DEF EditRequest, EditPhases
<1>4. edit'[e] = r /\ \A f \in Editors \ {e} : edit'[f] = edit[f]
  BY <1>1 DEF DiscoveryTypeOK
<1> HIDE DEF r
<1>5. Busy(e)' /\ \A f \in Editors : Busy(f)' <=> Busy(f)
  BY <1>1, <1>3, <1>4 DEF Busy, NoEdit
<1>6. DiscoveryTypeOK'
  BY <1>1, <1>3 DEF DiscoveryTypeOK
<1>7. IdsInv'
  <2>1. \A f \in Editors : Continues(f)
    BY <1>0, <1>1, <1>2, <1>3, <1>4, <1>5 DEF Continues, Creating, IdsInv
  <2>2. QED BY <1>1, <2>1, IdsKept DEF IdsInv, Creating
<1>8. \A c : StatusOf(c)' = StatusOf(c)
  BY <1>1, StatusSame
<1>9. Settles(e, b)'
  BY <1>3, <1>4, <1>5, <1>8 DEF Settles, About
<1>10. ASSUME NEW c \in DOMAIN status \ unsettled
      PROVE  /\ status[c] # StatusOf(c)' => \E f \in Editors : Settles(f, c)'
             /\ \A f \in Editors :
                   About(f, c)' /\ edit'[f].phase = "recalculating" /\ ~edit'[f].doomed
                     /\ edit'[f].will # StatusOf(c)' => \E g \in Editors \ {f} : Settles(g, c)'
  <2>1. CASE c = b
    BY <1>3, <1>4, <1>8, <1>9, <2>1
  <2>2. CASE c # b
    <3>1. ~About(e, c) /\ ~About(e, c)'
      BY <1>0, <1>3, <1>4, <2>2 DEF About
    <3>2. \A f \in Editors \ {e} : (About(f, c)' <=> About(f, c)) /\ (Settles(f, c) => Settles(f, c)')
      BY <1>4, <1>5, <1>8 DEF About, Settles
    <3>3. QED BY <1>4, <1>8, <3>1, <3>2 DEF SettledInv, Settles
  <2>3. QED BY <2>1, <2>2
<1>11. SettledInv'
  BY <1>1, <1>10 DEF SettledInv
<1>12. QED BY <1>6, <1>7, <1>11

\* FailEdit preserves the invariant.
LEMMA FailEditKeeps ==
    ASSUME DiscoveryInv, NEW e \in Editors, FailEdit(e) PROVE DiscoveryInv'
<1> USE DEF DiscoveryInv
<1>0. PICK b : b = edit[e].block
  OBVIOUS
<1>1. /\ unsettled' = IF edit[e].phase \in {"changed", "recalculating"} THEN unsettled \cup {b} ELSE unsettled
      /\ edit' = [edit EXCEPT ![e] = NoEdit] /\ UNCHANGED <<status, item, used>>
  BY <1>0 DEF FailEdit, Finish
<1>2. edit'[e] = NoEdit /\ ~Busy(e)' /\ \A f \in Editors \ {e} : edit'[f] = edit[f]
  BY <1>1 DEF DiscoveryTypeOK, Busy
<1>3. DiscoveryTypeOK'
  BY <1>1 DEF DiscoveryTypeOK
<1>4. IdsInv'
  <2>1. \A f \in Editors : Continues(f)
    BY <1>2 DEF Continues, Creating, Busy, IdsInv
  <2>2. QED BY <1>1, <2>1, IdsKept DEF IdsInv, Creating
<1>5. ASSUME NEW c \in DOMAIN status \ unsettled'
      PROVE  c \notin unsettled /\ ~Settles(e, c)
  BY <1>0, <1>1, <1>5 DEF Settles, About
<1>6. \A f \in Editors \ {e} : \A c : (About(f, c)' <=> About(f, c)) /\ (Settles(f, c) => Settles(f, c)')
  <2>1. \A c : StatusOf(c)' = StatusOf(c)
    BY <1>1, StatusSame
  <2>2. QED BY <1>2, <2>1 DEF About, Busy, Settles
<1>7. SettledInv'
  <2>1. \A c : StatusOf(c)' = StatusOf(c) /\ ~About(e, c)'
    BY <1>1, <1>2, StatusSame DEF About
  <2>2. QED BY <1>1, <1>2, <1>5, <1>6, <2>1 DEF SettledInv
<1>8. QED BY <1>3, <1>4, <1>7

\* Every step of DiscoveryStatus preserves DiscoveryInv.
LEMMA DiscoveryStep == DiscoveryInv /\ [DiscoveryNext]_discovery => DiscoveryInv'
<1> SUFFICES ASSUME DiscoveryInv, [DiscoveryNext]_discovery PROVE DiscoveryInv'
  OBVIOUS
<1>1. CASE UNCHANGED discovery
  <2>1. \A b, e : StatusOf(b)' = StatusOf(b) /\ Settles(e, b)' = Settles(e, b) /\ About(e, b)' = About(e, b)
    BY <1>1, StatusSame DEF discovery, Settles, About, Busy
  <2>2. SettledInv'
    BY <1>1, <2>1 DEF discovery, DiscoveryInv, SettledInv
  <2>3. QED BY <1>1, <2>2 DEF discovery, DiscoveryInv, DiscoveryTypeOK, IdsInv, Busy, About, OnItem, Creating
<1>2. ASSUME NEW e \in Editors, Insert(e) PROVE DiscoveryInv'
  <2>1. edit[e].op \in {"createBlock", "createItem"}
    BY <1>2 DEF Insert
  <2>2. QED BY <1>2, <2>1, InsertBlockKeeps, InsertItemKeeps
<1>3. QED
  BY <1>1, <1>2, AskKeeps, CountKeeps, ChangeItemKeeps, UpdateBlockKeeps, RemoveBlockKeeps,
     ReadItemsKeeps, WriteStatusKeeps, FailEditKeeps DEF DiscoveryNext

\* The inductive invariant of the discovery blocks.
THEOREM DiscoveryInvariant == DiscoverySpec => []DiscoveryInv
BY DiscoveryInitially, DiscoveryStep, PTL DEF DiscoverySpec

\* A block that nobody is changing shows the progress of its items, but for a
\* recalculation that did not happen (recalculateStatus).
THEOREM DiscoveryStatusFollows == DiscoverySpec => []StatusFollowsItems
<1>1. DiscoveryInv => StatusFollowsItems
  BY DEF DiscoveryInv, SettledInv, StatusFollowsItems, Settles, About
<1>2. QED BY <1>1, DiscoveryInvariant, PTL

-----------------------------------------------------------------------------
(* The check list.                                                         *)

Kinds == {"closed", "opened", "removed"}
Sections == UNION {[S -> BOOLEAN] : S \in SUBSET Rows}
TurnRequest == [phase: {"read"}, op: {"check", "uncheck", "label", "remove"}, row: Rows,
                seen: Sections, between: SUBSET Kinds]
TellingRequest == [phase: {"telling"}, before: BOOLEAN, after: BOOLEAN, between: SUBSET Kinds,
                   since: SUBSET Kinds]

ChecklistTypeOK ==
    /\ row \in Sections
    /\ turn \in [Raters -> {NoTurn} \cup TurnRequest \cup TellingRequest]

\* What a request has read differs from the section by what happened in
\* between, and by nothing else.
SeenBut(r) ==
    /\ r.row \in DOMAIN r.seen
    /\ "removed" \notin r.between => DOMAIN r.seen \subseteq DOMAIN row
    /\ "opened" \notin r.between =>
          DOMAIN row \subseteq DOMAIN r.seen /\ \A i \in DOMAIN row : r.seen[i] => row[i]
    /\ "closed" \notin r.between => \A i \in DOMAIN row \cap DOMAIN r.seen : row[i] => r.seen[i]

\* What a request is about to tell the others is right but for what happened
\* before its write and has happened since.
TellsRight(r) ==
    /\ r.before => r.between \cap {"closed", "removed"} # {}
    /\ ~r.after => r.between \cap {"opened", "removed"} # {}
    /\ r.after /\ r.since \cap {"opened", "removed"} = {} => Complete(row)

TurnRight(r) ==
    /\ r.phase = "read" => SeenBut(r)
    /\ r.phase = "telling" => TellsRight(r)

ChecklistInv ==
    /\ ChecklistTypeOK
    /\ given \subseteq Rows
    /\ \A m \in Raters : TurnRight(turn[m])
    /\ CompletionAnnounced

\* The phase of a request tells its kind.
LEMMA PhaseIsKind ==
    ASSUME ChecklistTypeOK, NEW m \in Raters
    PROVE  /\ turn[m].phase \in {"none", "read", "telling"}
           /\ turn[m].phase = "none" <=> turn[m] = NoTurn
           /\ turn[m].phase = "read" <=> turn[m] \in TurnRequest
           /\ turn[m].phase = "telling" <=> turn[m] \in TellingRequest
BY DEF ChecklistTypeOK, NoTurn, TurnRequest, TellingRequest

\* The rows of a section are rows.
LEMMA SectionType == ASSUME NEW s \in Sections PROVE DOMAIN s \subseteq Rows /\ s \in [DOMAIN s -> BOOLEAN]
BY DEF Sections

\* A function from rows to Booleans is a section.
LEMMA SectionMade == ASSUME NEW S \in SUBSET Rows, NEW s \in [S -> BOOLEAN] PROVE s \in Sections
BY DEF Sections

\* What happens to the section is put down by every request that has read it
\* or has yet to tell of it.
LEMMA BetweenKeeps ==
    ASSUME ChecklistInv, NEW m \in Raters, NEW kind \in SUBSET Kinds,
           NEW T \in {NoTurn} \cup TellingRequest, T # NoTurn => TellsRight(T)',
           row' \in Sections,
           turn' = [Between(m, kind) EXCEPT ![m] = T] \/ (turn[m] = T /\ turn' = Between(m, kind)),
           "removed" \notin kind => DOMAIN row \subseteq DOMAIN row',
           "opened" \notin kind => DOMAIN row' \subseteq DOMAIN row /\ \A i \in DOMAIN row' : row[i] => row'[i],
           "closed" \notin kind => \A i \in DOMAIN row' : row'[i] => i \in DOMAIN row /\ row[i]
    PROVE  ChecklistTypeOK' /\ \A n \in Raters : TurnRight(turn[n])'
<1> USE DEF ChecklistInv
<1>1. turn'[m] = T /\ turn' = [n \in Raters |-> turn'[n]]
  BY DEF Between, AtTurn, ChecklistTypeOK
<1>2. ASSUME NEW n \in Raters \ {m}, turn[n] = NoTurn PROVE turn'[n] = NoTurn
  BY <1>2 DEF Between, AtTurn, NoTurn
<1>3. ASSUME NEW n \in Raters \ {m}, turn[n] \in TurnRequest
      PROVE  /\ turn'[n] \in TurnRequest
             /\ turn'[n].row = turn[n].row /\ turn'[n].seen = turn[n].seen
             /\ turn'[n].between = turn[n].between \cup kind
  <2>1. turn'[n] = [turn[n] EXCEPT !.between = @ \cup kind]
    BY <1>3 DEF Between, AtTurn, TurnRequest
  <2>2. QED BY <1>3, <2>1 DEF TurnRequest
<1>4. ASSUME NEW n \in Raters \ {m}, turn[n] \in TellingRequest
      PROVE  /\ turn'[n] \in TellingRequest
             /\ turn'[n].before = turn[n].before /\ turn'[n].after = turn[n].after
             /\ turn'[n].between = turn[n].between /\ turn'[n].since = turn[n].since \cup kind
  <2>1. turn'[n] = [turn[n] EXCEPT !.since = @ \cup kind]
    BY <1>4 DEF Between, AtTurn, TellingRequest
  <2>2. QED BY <1>4, <2>1 DEF TellingRequest
<1>5. \A n \in Raters : turn[n] \in {NoTurn} \cup TurnRequest \cup TellingRequest
  BY DEF ChecklistTypeOK
<1>6. turn' \in [Raters -> {NoTurn} \cup TurnRequest \cup TellingRequest]
  <2>1. ASSUME NEW n \in Raters PROVE turn'[n] \in {NoTurn} \cup TurnRequest \cup TellingRequest
    BY <1>1, <1>2, <1>3, <1>4, <1>5
  <2>2. QED BY <1>1, <2>1
<1>7. ASSUME NEW n \in Raters \ {m}, turn[n] \in TurnRequest PROVE TurnRight(turn[n])'
  <2>1. SeenBut(turn[n])
    BY <1>7 DEF TurnRight, TurnRequest
  <2>2. PICK seen, between : seen = turn[n].seen /\ between = turn[n].between
    OBVIOUS
  <2>3. turn'[n].row = turn[n].row /\ turn'[n].seen = seen /\ turn'[n].between = between \cup kind
    BY <1>3, <1>7, <2>2
  <2>4. "removed" \notin between \cup kind => DOMAIN seen \subseteq DOMAIN row'
    BY <2>1, <2>2 DEF SeenBut
  <2>5. "opened" \notin between \cup kind =>
          DOMAIN row' \subseteq DOMAIN seen /\ \A i \in DOMAIN row' : seen[i] => row'[i]
    <3>1. "opened" \notin between => DOMAIN row \subseteq DOMAIN seen /\ \A i \in DOMAIN row : seen[i] => row[i]
      BY <2>1, <2>2 DEF SeenBut
    <3>2. ASSUME "opened" \notin between \cup kind, NEW i \in DOMAIN row'
          PROVE  i \in DOMAIN seen /\ (seen[i] => row'[i])
      BY <3>1, <3>2
    <3>3. QED BY <3>2
  <2>6. "closed" \notin between \cup kind => \A i \in DOMAIN row' \cap DOMAIN seen : row'[i] => seen[i]
    <3>1. "closed" \notin between => \A i \in DOMAIN row \cap DOMAIN seen : row[i] => seen[i]
      BY <2>1, <2>2 DEF SeenBut
    <3>2. ASSUME "closed" \notin between \cup kind, NEW i \in DOMAIN row' \cap DOMAIN seen, row'[i]
          PROVE  seen[i]
      BY <3>1, <3>2
    <3>3. QED BY <3>2
  <2>7. SeenBut(turn[n])'
    BY <2>1, <2>2, <2>3, <2>4, <2>5, <2>6 DEF SeenBut
  <2>8. turn'[n].phase = "read"
    BY <1>3, <1>7 DEF TurnRequest
  <2>9. QED BY <2>7, <2>8 DEF TurnRight
<1>8. ASSUME NEW n \in Raters \ {m}, turn[n] \in TellingRequest PROVE TurnRight(turn[n])'
  <2>1. TellsRight(turn[n])
    BY <1>8 DEF TurnRight, TellingRequest
  <2>2. PICK since : since = turn[n].since
    OBVIOUS
  <2>3. ASSUME Complete(row), kind \cap {"opened", "removed"} = {} PROVE Complete(row)'
    BY <2>3 DEF Complete
  <2>4. (since \cup kind) \cap {"opened", "removed"} = {} =>
           since \cap {"opened", "removed"} = {} /\ kind \cap {"opened", "removed"} = {}
    OBVIOUS
  <2>5. TellsRight(turn[n])'
    BY <1>4, <1>8, <2>1, <2>2, <2>3, <2>4 DEF TellsRight
  <2>6. turn'[n].phase = "telling"
    BY <1>4, <1>8 DEF TellingRequest
  <2>7. QED BY <2>5, <2>6 DEF TurnRight
<1>9. ASSUME NEW n \in Raters, turn'[n] = NoTurn PROVE TurnRight(turn[n])'
  BY <1>9 DEF TurnRight, NoTurn
<1>10. TurnRight(turn[m])'
  <2>1. CASE T = NoTurn
    BY <1>1, <1>9, <2>1
  <2>2. CASE T # NoTurn
    <3>1. T.phase = "telling" /\ TellsRight(T)'
      BY <2>2 DEF TellingRequest
    <3>2. TellsRight(turn[m])'
      BY <1>1, <3>1 DEF TellsRight
    <3>3. QED BY <1>1, <3>1, <3>2 DEF TurnRight
  <2>3. QED BY <2>1, <2>2
<1>11. ASSUME NEW n \in Raters \ {m} PROVE TurnRight(turn[n])'
  BY <1>2, <1>5, <1>7, <1>8, <1>9
<1>12. QED BY <1>6, <1>10, <1>11 DEF ChecklistTypeOK

\* A step that announces nothing.
LEMMA UndecidedIsFine == ASSUME announced' = Undecided PROVE CompletionAnnounced'
BY DEF CompletionAnnounced, Undecided

\* The initial states satisfy ChecklistInv.
LEMMA ChecklistInitially == ChecklistInit => ChecklistInv
BY DEF ChecklistInit, ChecklistInv, ChecklistTypeOK, CompletionAnnounced, Undecided, Sections, TurnRight, NoTurn

\* ReadSection preserves the invariant.
LEMMA ReadSectionKeeps == ASSUME ChecklistInv, NEW m \in Raters, ReadSection(m) PROVE ChecklistInv'
<1> USE DEF ChecklistInv
<1>1. PICK i \in DOMAIN row, op \in {"check", "uncheck", "label", "remove"} :
         turn' = [turn EXCEPT ![m] = [phase |-> "read", op |-> op, row |-> i, seen |-> row, between |-> {}]]
  BY DEF ReadSection
<1>2. row' = row /\ announced' = Undecided /\ given' = given
  BY DEF ReadSection
<1>3. ChecklistTypeOK'
  BY <1>1, <1>2, SectionType DEF ChecklistTypeOK, TurnRequest
<1>4. turn'[m] = [phase |-> "read", op |-> op, row |-> i, seen |-> row, between |-> {}]
        /\ \A n \in Raters \ {m} : turn'[n] = turn[n]
  BY <1>1 DEF ChecklistTypeOK
<1>5. TurnRight(turn[m])'
  BY <1>2, <1>4 DEF TurnRight, SeenBut
<1>6. ASSUME NEW n \in Raters \ {m}, TurnRight(turn[n]) PROVE TurnRight(turn[n])'
  BY <1>2, <1>4, <1>6 DEF TurnRight, SeenBut, TellsRight
<1>7. QED BY <1>2, <1>3, <1>4, <1>5, <1>6, UndecidedIsFine

\* Any decision from what was read is as right as what happened in between
\* allows: the row is changed the same way in memory and in the table.
LEMMA DecideRight ==
    ASSUME NEW m \in Raters, turn[m] \in TurnRequest, SeenBut(turn[m]), row \in Sections, row' \in Sections,
           NEW i, i = turn[m].row, NEW patched \in Sections,
           \/ /\ i \in DOMAIN row /\ DOMAIN row' = DOMAIN row /\ DOMAIN patched = DOMAIN turn[m].seen
              /\ \A j \in DOMAIN row : j # i => row'[j] = row[j]
              /\ \A j \in DOMAIN patched : patched[j] = IF j = i THEN row'[i] ELSE turn[m].seen[j]
           \/ /\ DOMAIN row' = DOMAIN row \ {i} /\ DOMAIN patched = DOMAIN turn[m].seen \ {i}
              /\ \A j \in DOMAIN row' : row'[j] = row[j]
              /\ \A j \in DOMAIN patched : patched[j] = turn[m].seen[j]
    PROVE  /\ ~JustCompleted(turn[m].seen, patched) /\ ~Complete(row) /\ Complete(row') => turn[m].between # {}
           /\ JustCompleted(turn[m].seen, patched) /\ Complete(row) =>
                 turn[m].between \cap {"closed", "removed"} # {}
           /\ JustCompleted(turn[m].seen, patched) /\ ~Complete(row') =>
                 turn[m].between \cap {"opened", "removed"} # {}
<1> DEFINE seen == turn[m].seen
           between == turn[m].between
<1>1. seen \in [DOMAIN seen -> BOOLEAN] /\ row \in [DOMAIN row -> BOOLEAN] /\ row' \in [DOMAIN row' -> BOOLEAN]
        /\ patched \in [DOMAIN patched -> BOOLEAN] /\ between \subseteq Kinds /\ i \in DOMAIN seen
  BY SectionType DEF TurnRequest, SeenBut
<1>2. ASSUME between = {} PROVE (Complete(seen) <=> Complete(row)) /\ (Complete(patched) <=> Complete(row'))
  <2>1. DOMAIN seen = DOMAIN row /\ \A j \in DOMAIN row : seen[j] = row[j]
    BY <1>1, <1>2 DEF SeenBut
  <2>2. DOMAIN patched = DOMAIN row' /\ \A j \in DOMAIN row' : patched[j] = row'[j]
    BY <2>1
  <2>3. QED BY <2>1, <2>2 DEF Complete
<1>3. ASSUME Complete(row), between \cap {"closed", "removed"} = {} PROVE Complete(seen)
  BY <1>1, <1>3 DEF Complete, SeenBut
<1>4. ASSUME Complete(patched), between \cap {"opened", "removed"} = {} PROVE Complete(row')
  <2>1. DOMAIN seen = DOMAIN row /\ \A j \in DOMAIN row : seen[j] => row[j]
    BY <1>1, <1>4 DEF SeenBut
  <2>2. DOMAIN patched = DOMAIN row' /\ \A j \in DOMAIN row' : patched[j] => row'[j]
    BY <1>1, <2>1
  <2>3. QED BY <1>4, <2>2 DEF Complete
<1>5. QED BY <1>2, <1>3, <1>4 DEF JustCompleted

\* A request that decides ends, or goes on to tell the others, rightly.
LEMMA DecideKeeps ==
    ASSUME NEW m \in Raters, turn[m] \in TurnRequest, NEW kind, NEW patched, Decide(m, patched, kind),
           ~JustCompleted(turn[m].seen, patched) /\ ~Complete(row) /\ Complete(row') => turn[m].between # {},
           JustCompleted(turn[m].seen, patched) /\ Complete(row) => turn[m].between \cap {"closed", "removed"} # {},
           JustCompleted(turn[m].seen, patched) /\ ~Complete(row') => turn[m].between \cap {"opened", "removed"} # {}
    PROVE  /\ CompletionAnnounced'
           /\ \E T \in {NoTurn} \cup TellingRequest :
                 turn' = [Between(m, kind) EXCEPT ![m] = T] /\ (T # NoTurn => TellsRight(T)')
<1>1. PICK between, before, after : between = turn[m].between /\ before = Complete(row) /\ after = Complete(row')
  OBVIOUS
<1>2. between \subseteq Kinds /\ before \in BOOLEAN /\ after \in BOOLEAN
  BY <1>1 DEF TurnRequest, Complete
<1>3. CASE JustCompleted(turn[m].seen, patched)
  <2> DEFINE T == [phase |-> "telling", before |-> before, after |-> after, between |-> between, since |-> {}]
  <2>1. turn' = [Between(m, kind) EXCEPT ![m] = T] /\ announced' = Undecided
    BY <1>1, <1>3 DEF Decide
  <2>2. T \in TellingRequest
    BY <1>2 DEF TellingRequest
  <2>3. TellsRight(T)'
    BY <1>1, <1>3 DEF TellsRight
  <2>4. CompletionAnnounced'
    BY <2>1 DEF CompletionAnnounced, Undecided
  <2>5. QED BY <2>1, <2>2, <2>3, <2>4
<1>4. CASE ~JustCompleted(turn[m].seen, patched)
  <2>1. turn' = [Between(m, kind) EXCEPT ![m] = NoTurn]
        /\ announced' = [Undecided EXCEPT !.before = before, !.after = after, !.now = after, !.between = between]
    BY <1>1, <1>4 DEF Decide
  <2>2. announced'.told = FALSE /\ announced'.before = before /\ announced'.after = after
          /\ announced'.between = between
    BY <2>1 DEF Undecided
  <2>3. CompletionAnnounced'
    BY <1>1, <1>4, <2>2 DEF CompletionAnnounced
  <2>4. QED BY <2>1, <2>3
<1>5. QED BY <1>3, <1>4

\* UpdateRow preserves the invariant.
LEMMA UpdateRowKeeps == ASSUME ChecklistInv, NEW m \in Raters, UpdateRow(m) PROVE ChecklistInv'
<1> USE DEF ChecklistInv
<1>1. PICK i : i = turn[m].row
  OBVIOUS
<1> DEFINE seen == turn[m].seen
           value == After(turn[m])
           patched == [j \in DOMAIN seen |-> IF j = i THEN row'[i] ELSE seen[j]]
<1>2. /\ turn[m].phase = "read" /\ turn[m].op # "remove" /\ i \in DOMAIN row
      /\ row' = [row EXCEPT ![i] = value]
      /\ Decide(m, patched, Effect(turn[m]))
  BY <1>1 DEF UpdateRow, AtTurn
<1>3. turn[m] \in TurnRequest /\ SeenBut(turn[m]) /\ row \in Sections /\ seen \in Sections
  BY <1>2, PhaseIsKind DEF ChecklistTypeOK, TurnRight, TurnRequest
<1>4. value \in BOOLEAN /\ DOMAIN row \subseteq Rows /\ row \in [DOMAIN row -> BOOLEAN]
  BY <1>1, <1>2, <1>3, SectionType DEF After
<1>5. DOMAIN row' = DOMAIN row /\ row'[i] = value /\ \A j \in DOMAIN row : j # i => row'[j] = row[j]
  BY <1>2, <1>4
<1>6. row' \in Sections
  BY <1>2, <1>4 DEF Sections
<1>7. patched \in Sections
  <2>1. DOMAIN seen \subseteq Rows /\ patched \in [DOMAIN seen -> BOOLEAN]
    BY <1>3, <1>4, <1>5, SectionType
  <2>2. QED BY <2>1, SectionMade
<1>8. /\ CompletionAnnounced'
      /\ \E T \in {NoTurn} \cup TellingRequest :
            turn' = [Between(m, Effect(turn[m])) EXCEPT ![m] = T] /\ (T # NoTurn => TellsRight(T)')
  <2>1. /\ ~JustCompleted(seen, patched) /\ ~Complete(row) /\ Complete(row') => turn[m].between # {}
        /\ JustCompleted(seen, patched) /\ Complete(row) => turn[m].between \cap {"closed", "removed"} # {}
        /\ JustCompleted(seen, patched) /\ ~Complete(row') => turn[m].between \cap {"opened", "removed"} # {}
    BY <1>1, <1>2, <1>3, <1>5, <1>6, <1>7, DecideRight
  <2>2. PICK kind, then : kind = Effect(turn[m]) /\ then = patched
    OBVIOUS
  <2>3. QED BY <1>2, <1>3, <2>1, <2>2, DecideKeeps
<1>9. /\ Effect(turn[m]) \in SUBSET Kinds /\ "removed" \notin Effect(turn[m])
      /\ "opened" \notin Effect(turn[m]) => (row[i] => value)
      /\ "closed" \notin Effect(turn[m]) => (value => row[i])
  BY <1>1, <1>2, <1>3, <1>4 DEF Effect, After, Kinds, TurnRequest
<1>10. ChecklistTypeOK' /\ \A n \in Raters : TurnRight(turn[n])'
  BY <1>2, <1>5, <1>6, <1>8, <1>9, BetweenKeeps
<1>11. given' = given
  BY DEF UpdateRow
<1>12. QED BY <1>8, <1>10, <1>11

\* RemoveRow preserves the invariant.
LEMMA RemoveRowKeeps == ASSUME ChecklistInv, NEW m \in Raters, RemoveRow(m) PROVE ChecklistInv'
<1> USE DEF ChecklistInv
<1>1. PICK i : i = turn[m].row
  OBVIOUS
<1> DEFINE seen == turn[m].seen
           patched == [j \in DOMAIN seen \ {i} |-> seen[j]]
<1>2. /\ turn[m].phase = "read"
      /\ row' = [j \in DOMAIN row \ {i} |-> row[j]]
      /\ Decide(m, patched, {"removed"})
  BY <1>1 DEF RemoveRow, AtTurn
<1>3. turn[m] \in TurnRequest /\ SeenBut(turn[m]) /\ row \in Sections /\ seen \in Sections
  BY <1>2, PhaseIsKind DEF ChecklistTypeOK, TurnRight, TurnRequest
<1>4. row' \in Sections /\ patched \in Sections
  <2>1. /\ DOMAIN row \ {i} \subseteq Rows /\ row' \in [DOMAIN row \ {i} -> BOOLEAN]
        /\ DOMAIN seen \ {i} \subseteq Rows /\ patched \in [DOMAIN seen \ {i} -> BOOLEAN]
    BY <1>2, <1>3, SectionType
  <2>2. QED BY <2>1, SectionMade
<1>5. /\ CompletionAnnounced'
      /\ \E T \in {NoTurn} \cup TellingRequest :
            turn' = [Between(m, {"removed"}) EXCEPT ![m] = T] /\ (T # NoTurn => TellsRight(T)')
  <2>1. /\ ~JustCompleted(seen, patched) /\ ~Complete(row) /\ Complete(row') => turn[m].between # {}
        /\ JustCompleted(seen, patched) /\ Complete(row) => turn[m].between \cap {"closed", "removed"} # {}
        /\ JustCompleted(seen, patched) /\ ~Complete(row') => turn[m].between \cap {"opened", "removed"} # {}
    BY <1>1, <1>2, <1>3, <1>4, DecideRight
  <2>2. PICK then : then = patched
    OBVIOUS
  <2>3. QED BY <1>2, <1>3, <2>1, <2>2, DecideKeeps
<1>0. given' = given
  BY DEF RemoveRow
<1>6. {"removed"} \in SUBSET Kinds
  BY DEF Kinds
<1>7. DOMAIN row' \subseteq DOMAIN row /\ \A j \in DOMAIN row' : row'[j] = row[j]
  BY <1>2
<1>8. ChecklistTypeOK' /\ \A n \in Raters : TurnRight(turn[n])'
  BY <1>4, <1>5, <1>6, <1>7, BetweenKeeps
<1>9. QED BY <1>0, <1>5, <1>8

\* CreateRow preserves the invariant.
LEMMA CreateRowKeeps == ASSUME ChecklistInv, NEW m \in Raters, CreateRow(m) PROVE ChecklistInv'
<1> USE DEF ChecklistInv
<1>1. PICK i : i = CHOOSE j \in Rows : j \notin given
  OBVIOUS
<1>2. /\ turn[m].phase = "none" /\ given # Rows
      /\ row' = [j \in DOMAIN row \cup {i} |-> IF j = i THEN FALSE ELSE row[j]]
      /\ turn' = Between(m, {"opened"}) /\ announced' = Undecided
  BY <1>1 DEF CreateRow, AtTurn
<1>3. turn[m] = NoTurn
  BY <1>2, PhaseIsKind
<1>4. i \in Rows /\ given' = given \cup {i}
  BY <1>1, <1>2 DEF CreateRow
<1>5. row' \in Sections
  <2>1. DOMAIN row \cup {i} \subseteq Rows /\ row' \in [DOMAIN row \cup {i} -> BOOLEAN]
    BY <1>2, <1>4, SectionType DEF ChecklistTypeOK
  <2>2. QED BY <2>1, SectionMade
<1>6. {"opened"} \in SUBSET Kinds
  BY DEF Kinds
<1>7. DOMAIN row \subseteq DOMAIN row' /\ \A j \in DOMAIN row' : row'[j] => j \in DOMAIN row /\ row[j]
  BY <1>2
<1>8. ChecklistTypeOK' /\ \A n \in Raters : TurnRight(turn[n])'
  BY <1>2, <1>3, <1>5, <1>6, <1>7, BetweenKeeps
<1>9. QED BY <1>2, <1>4, <1>8, UndecidedIsFine

\* A request that ends disturbs none of the others.
LEMMA EndTurnKeeps ==
    ASSUME ChecklistInv, NEW m \in Raters, turn' = [turn EXCEPT ![m] = NoTurn], row' = row
    PROVE  ChecklistTypeOK' /\ \A n \in Raters : TurnRight(turn[n])'
<1> USE DEF ChecklistInv
<1>1. ChecklistTypeOK'
  BY DEF ChecklistTypeOK
<1>2. turn'[m] = NoTurn /\ \A n \in Raters \ {m} : turn'[n] = turn[n]
  BY DEF ChecklistTypeOK
<1>3. TurnRight(turn[m])'
  BY <1>2 DEF TurnRight, NoTurn
<1>4. ASSUME NEW n \in Raters \ {m} PROVE TurnRight(turn[n])'
  BY <1>2 DEF TurnRight, SeenBut, TellsRight
<1>5. QED BY <1>1, <1>3, <1>4

\* TellOthers preserves the invariant.
LEMMA TellOthersKeeps == ASSUME ChecklistInv, NEW m \in Raters, TellOthers(m) PROVE ChecklistInv'
<1> USE DEF ChecklistInv
<1>1. PICK r : r = turn[m]
  OBVIOUS
<1>2. PICK heard, lost \in BOOLEAN :
         /\ heard \/ lost
         /\ announced' = [told |-> heard, failed |-> lost, before |-> r.before, after |-> r.after,
                          now |-> Complete(row), between |-> r.between, since |-> r.since]
  BY <1>1 DEF TellOthers
<1>3. turn' = [turn EXCEPT ![m] = NoTurn] /\ UNCHANGED <<row, given>>
  BY DEF TellOthers
<1>4. r \in TellingRequest /\ TellsRight(r)
  BY <1>1, PhaseIsKind DEF TellOthers, AtTurn, TurnRight, TellingRequest
<1>5. CompletionAnnounced'
  BY <1>2, <1>4 DEF CompletionAnnounced, TellsRight, TellingRequest
<1>6. QED BY <1>3, <1>5, EndTurnKeeps

\* FailTurn preserves the invariant.
LEMMA FailTurnKeeps == ASSUME ChecklistInv, NEW m \in Raters, FailTurn(m) PROVE ChecklistInv'
<1>1. turn' = [turn EXCEPT ![m] = NoTurn] /\ announced' = Undecided /\ UNCHANGED <<row, given>>
  BY DEF FailTurn
<1>2. QED BY <1>1, EndTurnKeeps, UndecidedIsFine DEF ChecklistInv

\* Every step of ChecklistSection preserves ChecklistInv.
LEMMA ChecklistStep == ChecklistInv /\ [ChecklistNext]_checklist => ChecklistInv'
<1> SUFFICES ASSUME ChecklistInv, [ChecklistNext]_checklist PROVE ChecklistInv'
  OBVIOUS
<1>1. CASE UNCHANGED checklist
  BY <1>1 DEF checklist, ChecklistInv, ChecklistTypeOK, TurnRight, SeenBut, TellsRight, CompletionAnnounced
<1>2. QED
  BY <1>1, ReadSectionKeeps, UpdateRowKeeps, RemoveRowKeeps, TellOthersKeeps, CreateRowKeeps, FailTurnKeeps
     DEF ChecklistNext

\* The completion of a section is announced when it happens and not otherwise,
\* up to what the others did between a request's read and its write, and to a
\* notification that fails after the write (notifySectionIfJustCompleted).
THEOREM ChecklistCompletionAnnounced == ChecklistSpec => []CompletionAnnounced
<1>1. ChecklistInv => CompletionAnnounced
  BY DEF ChecklistInv
<1>2. QED BY <1>1, ChecklistInitially, ChecklistStep, PTL DEF ChecklistSpec

-----------------------------------------------------------------------------
(* The calendar.                                                           *)

EventRows == [id: Nat, there: BOOLEAN, start: Nat, end: Nat, assignees: SUBSET Colleagues]
CallPhases == {"none", "guard", "members", "write", "assign", "wiping", "wiped", "notify", "read", "reload"}
CalendarCalls ==
    [phase: CallPhases,
     kind: {"create", "edit", "update", "delete"}, by: Colleagues \cup {"nobody"}, id: Nat,
     start: Nat, end: Nat, assigns: BOOLEAN, ids: SUBSET Colleagues, before: EventRows, outrun: SUBSET Colleagues,
     wipes: SUBSET Colleagues]
Notices == [call: Calls, id: Nat, user: Colleagues, word: {"added", "removed"}]
Sheets == [owner: Colleagues, drawer: {"closed", "create", "edit"}, shows: Nat, waits: SUBSET Calls]

CalendarTypeOK ==
    /\ team \subseteq Colleagues /\ leaving \subseteq Colleagues
    /\ meeting \in EventRows
    /\ calendarCall \in [Calls -> CalendarCalls]
    /\ untoldOf \subseteq Notices
    /\ sheet \in Sheets
    /\ crossed \in BOOLEAN

\* The dates a call will write are in order with those it has read.
Ordered(dates) == dates.start <= dates.end
DatesChecked(r) ==
    /\ r.kind = "create" /\ r.phase \in {"guard", "members", "write"} => r.start # 0 /\ r.end # 0
    /\ r.kind # "delete" /\ r.phase \in {"members", "write"} => Ordered(Together(r, r.before))

\* Those whom a call will assign are members, or were removed since.
PeopleChecked(r, members) ==
    /\ ~r.assigns => r.ids = {}
    /\ r.phase \in {"write", "assign", "wiping", "wiped"} => r.ids \subseteq members \cup r.outrun

\* What somebody is about to be told is so, and what he was told last, if
\* nothing is on its way to him.
Awaits(u) == {n \in untoldOf : n.user = u /\ n.id = meeting.id}
Knows(u) ==
    /\ \A n \in Awaits(u) : n.word = "added" <=> u \in meeting.assignees
    /\ Awaits(u) = {} => (u \in told <=> u \in meeting.assignees)

CalendarInv ==
    /\ CalendarTypeOK
    /\ \A c \in Calls : DatesChecked(calendarCall[c]) /\ PeopleChecked(calendarCall[c], team)
    /\ team \cap leaving = {}
    /\ \A n \in untoldOf : n.id <= meeting.id
    /\ meeting.there => \A u \in Colleagues \ doubted : Knows(u)
    /\ EventsSound

LEMMA CalendarTypes ==
  /\ NoEvent \in EventRows /\ NoCalendarCall \in CalendarCalls
  /\ NoEvent = [id |-> 0, there |-> FALSE, start |-> 0, end |-> 0, assignees |-> {}]
  /\ NoCalendarCall.phase = "none" /\ NoCalendarCall.kind = "update" /\ NoCalendarCall.assigns = FALSE /\ NoCalendarCall.ids = {}
  BY DEF NoEvent, NoCalendarCall, EventRows, CalendarCalls, CallPhases

LEMMA CalendarInitHolds == CalendarInit => CalendarInv
  <1>. SUFFICES ASSUME CalendarInit PROVE CalendarInv
    OBVIOUS
  <1>. PICK n \in CalendarCalls : n = NoCalendarCall
    BY CalendarTypes
  <1>1. \A c \in Calls : calendarCall[c] = n
    BY DEF CalendarInit
  <1>2. calendarCall \in [Calls -> CalendarCalls]
    BY DEF CalendarInit
  <1>3. sheet \in Sheets
    <2>1. sheet \in [owner: Colleagues, drawer: {"closed"}, shows: {0}, waits: {{}}]
      BY DEF CalendarInit
    <2>. QED
      BY <2>1 DEF Sheets
  <1>4. CalendarTypeOK
    BY <1>2, <1>3, CalendarTypes DEF CalendarInit, CalendarTypeOK
  <1>5. DatesChecked(n) /\ PeopleChecked(n, team)
    BY CalendarTypes DEF DatesChecked, PeopleChecked
  <1>6. EventsSound
    BY CalendarTypes DEF CalendarInit, EventsSound
  <1>. QED
    BY <1>1, <1>4, <1>5, <1>6, CalendarTypes DEF CalendarInit, CalendarInv

\* A call goes on, and what it has read and written is in order.
LEMMA CallGoesOn ==
  ASSUME CalendarInv, NEW c \in Calls, NEW n \in CalendarCalls,
         calendarCall' = [calendarCall EXCEPT ![c] = n], DatesChecked(n), PeopleChecked(n, team')
  PROVE  /\ calendarCall' \in [Calls -> CalendarCalls]
         /\ team \subseteq team' => \A d \in Calls : DatesChecked(calendarCall'[d]) /\ PeopleChecked(calendarCall'[d], team')
  <1>1. /\ calendarCall' \in [Calls -> CalendarCalls]
        /\ \A d \in Calls : calendarCall'[d] = IF d = c THEN n ELSE calendarCall[d]
    BY DEF CalendarInv, CalendarTypeOK
  <1>2. ASSUME NEW d \in Calls, d # c, team \subseteq team'
        PROVE  DatesChecked(calendarCall[d]) /\ PeopleChecked(calendarCall[d], team')
    BY <1>2 DEF CalendarInv, PeopleChecked
  <1>. QED
    BY <1>1, <1>2

\* Nothing but a call and the page changes.
LEMMA OnlyACall ==
  ASSUME CalendarInv, NEW c \in Calls, NEW n \in CalendarCalls,
         calendarCall' = [calendarCall EXCEPT ![c] = n], DatesChecked(n), PeopleChecked(n, team),
         sheet' \in Sheets, doubted \subseteq doubted',
         UNCHANGED <<team, leaving, meeting, untoldOf, told, strayed, crossed>>
  PROVE  CalendarInv'
  <1>1. PeopleChecked(n, team')
    OBVIOUS
  <1>2. /\ calendarCall' \in [Calls -> CalendarCalls]
        /\ \A d \in Calls : DatesChecked(calendarCall'[d]) /\ PeopleChecked(calendarCall'[d], team')
    BY <1>1, CallGoesOn
  <1>3. CalendarTypeOK'
    BY <1>2 DEF CalendarInv, CalendarTypeOK
  <1>4. EventsSound'
    BY DEF CalendarInv, EventsSound
  <1>5. \A u \in Colleagues : Knows(u)' <=> Knows(u)
    BY DEF Knows, Awaits
  <1>. QED
    BY <1>2, <1>3, <1>4, <1>5 DEF CalendarInv

\* Nothing but the page changes.
LEMMA OnlyThePage ==
  ASSUME CalendarInv, sheet' \in Sheets,
         UNCHANGED <<team, leaving, meeting, calendarCall, untoldOf, told, doubted, strayed, crossed>>
  PROVE  CalendarInv'
  <1>1. CalendarTypeOK'
    BY DEF CalendarInv, CalendarTypeOK
  <1>2. EventsSound'
    BY DEF CalendarInv, EventsSound
  <1>3. \A u \in Colleagues : Knows(u)' <=> Knows(u)
    BY DEF Knows, Awaits
  <1>. QED
    BY <1>1, <1>2, <1>3 DEF CalendarInv

LEMMA DrawerSteps ==
  ASSUME CalendarInv, OpenDay \/ OpenEvent \/ CloseDrawer
  PROVE  CalendarInv'
  <1>. PICK s \in Sheets : s = sheet
    BY DEF CalendarInv, CalendarTypeOK
  <1>1. meeting.id \in Nat
    BY DEF CalendarInv, CalendarTypeOK, EventRows
  <1>2. sheet' \in Sheets
    <2>1. CASE OpenDay
      BY <2>1 DEF OpenDay, Sheets
    <2>2. CASE OpenEvent
      <3>1. sheet' = [s EXCEPT !.drawer = "edit", !.shows = meeting.id]
        BY <2>2 DEF OpenEvent
      <3>. QED
        BY <1>1, <3>1 DEF Sheets
    <2>3. CASE CloseDrawer
      <3>1. sheet' = [s EXCEPT !.drawer = "closed", !.shows = 0, !.waits = {}]
        BY <2>3 DEF CloseDrawer, Closed
      <3>. QED
        BY <3>1 DEF Sheets
    <2>. QED
      BY <2>1, <2>2, <2>3
  <1>. QED
    BY <1>2, OnlyThePage DEF OpenDay, OpenEvent, CloseDrawer

\* A call that is sent has read nothing yet.
LEMMA CallSent ==
  ASSUME CalendarInv, NEW c \in Calls, NEW n \in CalendarCalls,
         SentCall(c, n), n.kind = "create" => n.start # 0 /\ n.end # 0, ~n.assigns => n.ids = {},
         sheet' \in Sheets,
         UNCHANGED <<team, leaving, meeting, untoldOf, told, doubted, strayed, crossed>>
  PROVE  CalendarInv'
  <1>. PICK s : s = [n EXCEPT !.phase = "guard"]
    OBVIOUS
  <1>1. /\ s \in CalendarCalls /\ s.phase = "guard" /\ s.kind = n.kind /\ s.start = n.start /\ s.end = n.end
        /\ s.assigns = n.assigns /\ s.ids = n.ids
    BY DEF CalendarCalls, CallPhases
  <1>2. calendarCall' = [calendarCall EXCEPT ![c] = s]
    BY DEF SentCall
  <1>3. DatesChecked(s) /\ PeopleChecked(s, team)
    BY <1>1 DEF DatesChecked, PeopleChecked
  <1>. QED
    BY <1>1, <1>2, <1>3, OnlyACall

\* The page waits for one call more, or for one less.
LEMMA PageWaitsFor ==
  ASSUME CalendarInv, NEW c \in Calls,
         \/ sheet' = [sheet EXCEPT !.waits = @ \cup {c}]
         \/ sheet' = [sheet EXCEPT !.waits = @ \ {c}]
  PROVE  sheet' \in Sheets
  <1>. PICK s \in Sheets : s = sheet
    BY DEF CalendarInv, CalendarTypeOK
  <1>1. s.waits \cup {c} \in SUBSET Calls /\ s.waits \ {c} \in SUBSET Calls
    BY DEF Sheets
  <1>. PICK a \in SUBSET Calls, b \in SUBSET Calls : a = s.waits \cup {c} /\ b = s.waits \ {c}
    BY <1>1
  <1>2. sheet' = [s EXCEPT !.waits = a] \/ sheet' = [s EXCEPT !.waits = b]
    OBVIOUS
  <1>. QED
    BY <1>2 DEF Sheets

LEMMA SaveFormSteps ==
  ASSUME CalendarInv, NEW c \in Calls, SaveForm(c)
  PROVE  CalendarInv'
  <1>. PICK s \in Sheets : s = sheet
    BY DEF CalendarInv, CalendarTypeOK
  <1>. PICK d \in FilledDates, ids \in FilledMembers :
         SentCall(c, [OfPage EXCEPT !.kind = s.drawer, !.start = d.start, !.end = d.end,
                                    !.assigns = TRUE, !.ids = ids])
    BY Zenon DEF SaveForm
  <1>1. s.drawer \in {"create", "edit"} /\ s.owner \in Colleagues /\ s.shows \in Nat
    BY DEF SaveForm, Sheets
  <1>2. d.start \in Nat /\ d.start # 0 /\ d.end \in Nat /\ d.end # 0
    BY CalendarBounds DEF FilledDates
  <1>3. ids \in SUBSET Colleagues
    BY DEF FilledMembers
  <1>. PICK o \in CalendarCalls : o = OfPage
    BY <1>1, CalendarTypes DEF OfPage, CalendarCalls, CallPhases
  <1>. PICK n : n = [o EXCEPT !.kind = s.drawer, !.start = d.start, !.end = d.end, !.assigns = TRUE, !.ids = ids]
    OBVIOUS
  <1>4. n \in CalendarCalls /\ n.start = d.start /\ n.end = d.end /\ n.assigns
    <2>1. n \in CalendarCalls
      BY <1>1, <1>2, <1>3 DEF CalendarCalls, CallPhases
    <2>2. n.start = d.start /\ n.end = d.end /\ n.assigns
      BY DEF CalendarCalls, CallPhases
    <2>. QED
      BY <2>1, <2>2
  <1>5. SentCall(c, n)
    OBVIOUS
  <1>6. sheet' \in Sheets
    BY PageWaitsFor DEF SaveForm
  <1>7. UNCHANGED <<team, leaving, meeting, untoldOf, told, doubted, strayed, crossed>>
    BY DEF SaveForm
  <1>. QED
    BY <1>2, <1>4, <1>5, <1>6, <1>7, CallSent

LEMMA CallToDelete ==
  ASSUME NEW o \in CalendarCalls, NEW n, n = [o EXCEPT !.kind = "delete"]
  PROVE  n \in CalendarCalls /\ n.kind = "delete" /\ n.ids = o.ids /\ n.assigns = o.assigns
  BY DEF CalendarCalls, CallPhases

LEMMA DeleteShownSteps ==
  ASSUME CalendarInv, NEW c \in Calls, DeleteShown(c)
  PROVE  CalendarInv'
  <1>. PICK s \in Sheets : s = sheet
    BY DEF CalendarInv, CalendarTypeOK
  <1>1. s.owner \in Colleagues /\ s.shows \in Nat
    BY DEF Sheets
  <1>. PICK z \in CalendarCalls : z = NoCalendarCall
    BY CalendarTypes
  <1>. PICK i \in Nat, w \in Colleagues : i = s.shows /\ w = s.owner
    BY <1>1
  <1>2. [z EXCEPT !.by = w, !.id = i] \in CalendarCalls
    BY DEF CalendarCalls, CallPhases
  <1>. PICK o \in CalendarCalls : o = [z EXCEPT !.by = w, !.id = i]
    BY <1>2
  <1>21. o.ids = {}
    BY CalendarTypes DEF CalendarCalls, CallPhases
  <1>. PICK n : n = [o EXCEPT !.kind = "delete"]
    OBVIOUS
  <1>3. n \in CalendarCalls /\ n.kind = "delete" /\ n.ids = {}
    BY <1>21, CallToDelete
  <1>4. SentCall(c, n)
    BY DEF DeleteShown, OfPage
  <1>5. sheet' \in Sheets
    BY PageWaitsFor DEF DeleteShown
  <1>6. UNCHANGED <<team, leaving, meeting, untoldOf, told, doubted, strayed, crossed>>
    BY DEF DeleteShown
  <1>. QED
    BY <1>3, <1>4, <1>5, <1>6, CallSent

\* A call that is over, whether the page waits for the reload or not.
LEMMA CallOver ==
  ASSUME NEW r \in CalendarCalls, NEW n,
         n = IF r.by = sheet.owner THEN [NoCalendarCall EXCEPT !.phase = "reload", !.kind = r.kind] ELSE NoCalendarCall
  PROVE  n \in CalendarCalls /\ DatesChecked(n) /\ PeopleChecked(n, team)
  <1>. PICK z \in CalendarCalls : z = NoCalendarCall
    BY CalendarTypes
  <1>1. z.phase = "none" /\ z.ids = {} /\ z.assigns = FALSE
    BY CalendarTypes
  <1>2. CASE r.by = sheet.owner
    <2>. PICK k \in {"create", "edit", "update", "delete"} : k = r.kind
      BY DEF CalendarCalls, CallPhases
    <2>1. n = [z EXCEPT !.phase = "reload", !.kind = k]
      BY <1>2
    <2>2. n \in CalendarCalls /\ n.phase = "reload" /\ n.ids = {} /\ n.assigns = FALSE
      BY <1>1, <2>1 DEF CalendarCalls, CallPhases
    <2>. QED
      BY <2>2 DEF DatesChecked, PeopleChecked
  <1>3. CASE r.by # sheet.owner
    BY <1>1, <1>3 DEF DatesChecked, PeopleChecked
  <1>. QED
    BY <1>2, <1>3

LEMMA NoCallSound == DatesChecked(NoCalendarCall) /\ PeopleChecked(NoCalendarCall, team)
  BY CalendarTypes DEF DatesChecked, PeopleChecked

LEMMA CallOf ==
  ASSUME CalendarInv, NEW c \in Calls
  PROVE  calendarCall[c] \in CalendarCalls /\ DatesChecked(calendarCall[c]) /\ PeopleChecked(calendarCall[c], team)
  BY DEF CalendarInv, CalendarTypeOK

LEMMA CalendarReloadedSteps ==
  ASSUME CalendarInv, NEW c \in Calls, CalendarReloaded(c)
  PROVE  CalendarInv'
  <1>. PICK s \in Sheets : s = sheet
    BY DEF CalendarInv, CalendarTypeOK
  <1>. PICK n \in CalendarCalls : n = NoCalendarCall
    BY CalendarTypes
  <1>1. calendarCall' = [calendarCall EXCEPT ![c] = n]
    BY DEF CalendarReloaded, EndedCall
  <1>2. sheet' = [s EXCEPT !.drawer = "closed", !.shows = 0, !.waits = {}]
    BY DEF CalendarReloaded, Closed
  <1>3. sheet' \in Sheets
    BY <1>2 DEF Sheets
  <1>4. DatesChecked(n) /\ PeopleChecked(n, team)
    BY NoCallSound
  <1>5. UNCHANGED <<team, leaving, meeting, untoldOf, told, doubted, strayed, crossed>>
    BY DEF CalendarReloaded
  <1>. QED
    BY <1>1, <1>3, <1>4, <1>5, OnlyACall

\* The calls of others send one field, or delete.
LEMMA OneDate ==
  ASSUME NEW o \in CalendarCalls, o.kind = "update", o.ids = {}, NEW d \in Days, NEW n,
         n = [o EXCEPT !.start = d] \/ n = [o EXCEPT !.end = d]
  PROVE  n \in CalendarCalls /\ n.kind = "update" /\ (~n.assigns => n.ids = {})
  <1>1. d \in Nat
    BY CalendarBounds
  <1>2. CASE n = [o EXCEPT !.start = d]
    BY <1>1, <1>2 DEF CalendarCalls, CallPhases
  <1>3. CASE n = [o EXCEPT !.end = d]
    BY <1>1, <1>3 DEF CalendarCalls, CallPhases
  <1>. QED
    BY <1>2, <1>3
LEMMA OnlyPeople ==
  ASSUME NEW o \in CalendarCalls, o.kind = "update", NEW ids \in SUBSET Colleagues, NEW n,
         n = [o EXCEPT !.assigns = TRUE, !.ids = ids]
  PROVE  n \in CalendarCalls /\ n.kind = "update" /\ n.assigns
  BY DEF CalendarCalls, CallPhases

LEMMA CallDirectlySteps ==
  ASSUME CalendarInv, NEW c \in Calls, CallDirectly(c)
  PROVE  CalendarInv'
  <1>. PICK z \in CalendarCalls : z = NoCalendarCall
    BY CalendarTypes
  <1>. PICK i \in Nat : i = meeting.id
    BY DEF CalendarInv, CalendarTypeOK, EventRows
  <1>. PICK u \in Colleagues :
         LET call == [z EXCEPT !.by = u, !.id = i] IN
         \/ \E d \in Days : SentCall(c, [call EXCEPT !.start = d]) \/ SentCall(c, [call EXCEPT !.end = d])
         \/ \E ids \in SUBSET Colleagues : SentCall(c, [call EXCEPT !.assigns = TRUE, !.ids = ids])
         \/ SentCall(c, [call EXCEPT !.kind = "delete"])
    BY DEF CallDirectly
  <1>. PICK o : o = [z EXCEPT !.by = u, !.id = i]
    BY Zenon
  <1>1. o \in CalendarCalls /\ o.kind = "update" /\ o.ids = {}
    <2>1. z.kind = "update" /\ z.ids = {}
      BY Zenon, CalendarTypes
    <2>2. o \in CalendarCalls
      BY Zenon DEF CalendarCalls, CallPhases
    <2>3. o.kind = z.kind /\ o.ids = z.ids
      BY Zenon DEF CalendarCalls, CallPhases
    <2>. QED
      BY Zenon, <2>1, <2>2, <2>3
  <1>2. UNCHANGED <<team, leaving, meeting, untoldOf, told, doubted, strayed, crossed>> /\ sheet' = sheet
    BY Zenon DEF CallDirectly
  <1>3. sheet' \in Sheets
    BY Zenon, <1>2 DEF CalendarInv, CalendarTypeOK
  <1>4. \E n \in CalendarCalls : SentCall(c, n) /\ (n.kind = "create" => n.start # 0 /\ n.end # 0) /\ (~n.assigns => n.ids = {})
    <2>1. ASSUME NEW d \in Days, NEW n, n = [o EXCEPT !.start = d] \/ n = [o EXCEPT !.end = d]
          PROVE  n \in CalendarCalls /\ n.kind = "update" /\ (~n.assigns => n.ids = {})
      BY Zenon, <1>1, <2>1, OneDate
    <2>2. ASSUME NEW ids \in SUBSET Colleagues, NEW n, n = [o EXCEPT !.assigns = TRUE, !.ids = ids]
          PROVE  n \in CalendarCalls /\ n.kind = "update" /\ (~n.assigns => n.ids = {})
      BY Zenon, <1>1, <2>2, OnlyPeople
    <2>3. CASE \E d \in Days : SentCall(c, [o EXCEPT !.start = d]) \/ SentCall(c, [o EXCEPT !.end = d])
      <3>. PICK d \in Days : SentCall(c, [o EXCEPT !.start = d]) \/ SentCall(c, [o EXCEPT !.end = d])
        BY Zenon, <2>3
      <3>. PICK n : (n = [o EXCEPT !.start = d] \/ n = [o EXCEPT !.end = d]) /\ SentCall(c, n)
        BY Zenon
      <3>1. n \in CalendarCalls /\ n.kind = "update" /\ (~n.assigns => n.ids = {})
        BY Zenon, <2>1
      <3>. QED
        BY Zenon, <3>1
    <2>4. CASE \E ids \in SUBSET Colleagues : SentCall(c, [o EXCEPT !.assigns = TRUE, !.ids = ids])
      <3>. PICK ids \in SUBSET Colleagues : SentCall(c, [o EXCEPT !.assigns = TRUE, !.ids = ids])
        BY Zenon, <2>4
      <3>. PICK n : n = [o EXCEPT !.assigns = TRUE, !.ids = ids]
        BY Zenon
      <3>1. n \in CalendarCalls /\ n.kind = "update" /\ (~n.assigns => n.ids = {})
        BY Zenon, <2>2
      <3>2. SentCall(c, n)
        BY Zenon
      <3>. QED
        BY Zenon, <3>1, <3>2
    <2>5. CASE SentCall(c, [o EXCEPT !.kind = "delete"])
      <3>. PICK n : n = [o EXCEPT !.kind = "delete"]
        BY Zenon
      <3>1. n \in CalendarCalls /\ n.kind = "delete" /\ n.ids = {}
        BY Zenon, <1>1, CallToDelete
      <3>2. SentCall(c, n)
        BY Zenon, <2>5
      <3>. QED
        BY Zenon, <3>1, <3>2
    <2>. QED
      BY Zenon, <2>3, <2>4, <2>5
  <1>. QED
    BY Zenon, <1>2, <1>3, <1>4, CallSent

\* What the guard of a call has read.
LEMMA GuardCallSteps ==
  ASSUME CalendarInv, NEW c \in Calls, GuardCall(c)
  PROVE  CalendarInv'
  <1>. PICK r \in CalendarCalls : r = calendarCall[c]
    BY CallOf
  <1>. PICK m \in EventRows : m = meeting
    BY DEF CalendarInv, CalendarTypeOK
  <1>1. NoEvent \in EventRows
    BY CalendarTypes
  <1>. PICK b \in EventRows : b = IF r.kind = "create" THEN NoEvent ELSE m
    BY <1>1
  <1>. PICK p \in {"members", "write"} : p = IF r.assigns THEN "members" ELSE "write"
    OBVIOUS
  <1>. PICK n : n = [r EXCEPT !.phase = p, !.before = b]
    OBVIOUS
  <1>2. /\ n \in CalendarCalls /\ n.phase = p /\ n.before = b /\ n.kind = r.kind /\ n.start = r.start /\ n.end = r.end
        /\ n.assigns = r.assigns /\ n.ids = r.ids /\ n.outrun = r.outrun
    <2>1. n \in CalendarCalls
      BY ZenonT(30) DEF CalendarCalls, CallPhases
    <2>2. n.phase = p /\ n.before = b /\ n.kind = r.kind /\ n.start = r.start /\ n.end = r.end
      BY DEF CalendarCalls, CallPhases
    <2>3. n.assigns = r.assigns /\ n.ids = r.ids /\ n.outrun = r.outrun
      BY DEF CalendarCalls, CallPhases
    <2>. QED
      BY <2>1, <2>2, <2>3
  <1>3. calendarCall' = [calendarCall EXCEPT ![c] = n]
    BY DEF GuardCall, CalendarInv, CalendarTypeOK
  <1>4. r.phase = "guard" /\ DatesChecked(r) /\ PeopleChecked(r, team)
    BY CallOf DEF GuardCall, At
  <1>5. r.kind # "delete" => Ordered(Together(r, m))
    BY DEF GuardCall, Ordered
  <1>6. r.kind = "create" => r.start # 0 /\ r.end # 0
    BY <1>4 DEF DatesChecked
  <1>7. r.kind # "delete" => Ordered(Together(n, b))
    BY <1>2, <1>5, <1>6 DEF Ordered, Together
  <1>8. DatesChecked(n)
    BY <1>2, <1>6, <1>7 DEF DatesChecked
  <1>9. PeopleChecked(n, team)
    BY <1>2, <1>4 DEF PeopleChecked
  <1>10. sheet' \in Sheets
    BY DEF GuardCall, CalendarInv, CalendarTypeOK
  <1>11. UNCHANGED <<team, leaving, meeting, untoldOf, told, doubted, strayed, crossed>>
    BY DEF GuardCall
  <1>. QED
    BY <1>2, <1>3, <1>8, <1>9, <1>10, <1>11, OnlyACall

LEMMA CheckAssigneesSteps ==
  ASSUME CalendarInv, NEW c \in Calls, CheckAssignees(c)
  PROVE  CalendarInv'
  <1>. PICK r \in CalendarCalls : r = calendarCall[c]
    BY CallOf
  <1>. PICK n : n = [r EXCEPT !.phase = "write"]
    OBVIOUS
  <1>1. /\ n \in CalendarCalls /\ n.phase = "write" /\ n.before = r.before /\ n.kind = r.kind /\ n.start = r.start
        /\ n.end = r.end /\ n.assigns = r.assigns /\ n.ids = r.ids /\ n.outrun = r.outrun
    BY DEF CalendarCalls, CallPhases
  <1>2. calendarCall' = [calendarCall EXCEPT ![c] = n]
    BY DEF CheckAssignees, Goes, CalendarInv, CalendarTypeOK
  <1>3. r.phase = "members" /\ DatesChecked(r) /\ PeopleChecked(r, team) /\ r.ids \subseteq team
    BY CallOf DEF CheckAssignees, At, AssigneesAreMembers
  <1>4. DatesChecked(n)
    BY <1>1, <1>3 DEF DatesChecked, Together
  <1>5. PeopleChecked(n, team)
    BY <1>1, <1>3 DEF PeopleChecked
  <1>6. sheet' \in Sheets
    BY DEF CheckAssignees, CalendarInv, CalendarTypeOK
  <1>7. UNCHANGED <<team, leaving, meeting, untoldOf, told, doubted, strayed, crossed>>
    BY DEF CheckAssignees
  <1>. QED
    BY <1>1, <1>2, <1>4, <1>5, <1>6, <1>7, OnlyACall

LEMMA MeetingOf ==
  ASSUME CalendarInv
  PROVE  /\ meeting \in EventRows /\ meeting.id \in Nat /\ meeting.start \in Nat /\ meeting.end \in Nat
         /\ meeting.assignees \in SUBSET Colleagues
  BY DEF CalendarInv, CalendarTypeOK, EventRows

\* The event is another one, about which nobody has been told anything.
LEMMA WriteNewSteps ==
  ASSUME CalendarInv, NEW c \in Calls, WriteNew(c)
  PROVE  CalendarInv'
  <1>. PICK r \in CalendarCalls : r = calendarCall[c]
    BY CallOf
  <1>. PICK s \in Nat, e \in Nat : s = r.start /\ e = r.end
    BY DEF CalendarCalls, CallPhases
  <1>0. meeting.id + 1 \in Nat
    BY MeetingOf
  <1>. PICK i \in Nat : i = meeting.id + 1
    BY <1>0
  <1>. PICK n : n = [r EXCEPT !.phase = "assign", !.id = i, !.start = 0, !.end = 0]
    OBVIOUS
  <1>1. /\ n \in CalendarCalls /\ n.phase = "assign" /\ n.ids = r.ids /\ n.assigns = r.assigns /\ n.outrun = r.outrun
    BY DEF CalendarCalls, CallPhases
  <1>2. calendarCall' = [calendarCall EXCEPT ![c] = n]
    BY DEF WriteNew, CalendarInv, CalendarTypeOK
  <1>3. r.phase = "write" /\ r.kind = "create" /\ DatesChecked(r) /\ PeopleChecked(r, team)
    BY CallOf DEF WriteNew, At
  <1>4. meeting' = [id |-> i, there |-> TRUE, start |-> s, end |-> e, assignees |-> {}]
    BY DEF WriteNew
  <1>5. /\ meeting' \in EventRows /\ meeting'.id = i /\ meeting'.start = s /\ meeting'.end = e /\ meeting'.assignees = {}
    BY <1>4 DEF EventRows
  <1>6. s <= e
    BY <1>3 DEF DatesChecked, Ordered, Together
  <1>7. told' = {} /\ doubted' = {} /\ crossed' = FALSE /\ UNCHANGED <<team, leaving, untoldOf, sheet>>
    BY DEF WriteNew
  <1>8. DatesChecked(n)
    BY <1>1 DEF DatesChecked
  <1>9. PeopleChecked(n, team')
    BY <1>1, <1>3, <1>7 DEF PeopleChecked
  <1>10. /\ calendarCall' \in [Calls -> CalendarCalls]
         /\ \A d \in Calls : DatesChecked(calendarCall'[d]) /\ PeopleChecked(calendarCall'[d], team')
    BY <1>1, <1>2, <1>7, <1>8, <1>9, CallGoesOn
  <1>11. CalendarTypeOK'
    BY <1>5, <1>7, <1>10 DEF CalendarInv, CalendarTypeOK
  <1>12. EventsSound'
    BY <1>5, <1>6, <1>7 DEF EventsSound
  <1>13. \A x \in untoldOf : x.id < i
    BY MeetingOf DEF CalendarInv, CalendarTypeOK, Notices
  <1>14. ASSUME NEW u \in Colleagues PROVE Knows(u)'
    <2>1. Awaits(u)' = {}
      <3>1. \A x \in untoldOf : x.id # i
        BY <1>13
      <3>. QED
        BY <1>5, <1>7, <3>1 DEF Awaits
    <2>. QED
      BY <1>5, <1>7, <2>1 DEF Knows
  <1>15. \A x \in untoldOf : x.id <= meeting'.id
    BY <1>5, <1>13 DEF CalendarInv, CalendarTypeOK, Notices
  <1>. QED
    BY <1>7, <1>10, <1>11, <1>12, <1>14, <1>15 DEF CalendarInv

LEMMA WriteDatesSteps ==
  ASSUME CalendarInv, NEW c \in Calls, WriteDates(c)
  PROVE  CalendarInv'
  <1>. PICK r \in CalendarCalls : r = calendarCall[c]
    BY CallOf
  <1>. PICK m \in EventRows : m = meeting
    BY MeetingOf
  <1>. PICK dates : dates = Together(r, m)
    OBVIOUS
  <1>1. r.start \in Nat /\ r.end \in Nat /\ m.start \in Nat /\ m.end \in Nat
    BY DEF CalendarCalls, CallPhases, EventRows
  <1>2. dates.start \in Nat /\ dates.end \in Nat
    BY <1>1 DEF Together
  <1>. PICK p \in {"assign", "read"} : p = IF r.assigns THEN "assign" ELSE "read"
    OBVIOUS
  <1>3. [NoEvent EXCEPT !.assignees = r.before.assignees] \in EventRows
    BY DEF NoEvent, CalendarCalls, CallPhases, EventRows
  <1>. PICK b \in EventRows : b = [NoEvent EXCEPT !.assignees = r.before.assignees]
    BY <1>3
  <1>. PICK n : n = [r EXCEPT !.phase = p, !.start = 0, !.end = 0, !.before = b]
    OBVIOUS
  <1>4. n \in CalendarCalls /\ n.phase = p /\ n.ids = r.ids /\ n.assigns = r.assigns /\ n.outrun = r.outrun
    <2>1. n \in CalendarCalls
      BY DEF CalendarCalls, CallPhases
    <2>2. n.phase = p /\ n.ids = r.ids /\ n.assigns = r.assigns /\ n.outrun = r.outrun
      BY DEF CalendarCalls, CallPhases
    <2>. QED
      BY <2>1, <2>2
  <1>5. calendarCall' = [calendarCall EXCEPT ![c] = n]
    BY DEF WriteDates, CalendarInv, CalendarTypeOK
  <1>6. r.phase = "write" /\ r.kind \in {"edit", "update"} /\ DatesChecked(r) /\ PeopleChecked(r, team) /\ m.there
    BY CallOf DEF WriteDates, At, Found
  <1>7. meeting' = [m EXCEPT !.start = dates.start, !.end = dates.end]
    BY DEF WriteDates
  <1>8. /\ meeting' \in EventRows /\ meeting'.id = m.id /\ meeting'.there = m.there /\ meeting'.assignees = m.assignees
        /\ meeting'.start = dates.start /\ meeting'.end = dates.end
    BY <1>2, <1>7 DEF EventRows
  <1>9. UNCHANGED <<team, leaving, untoldOf, sheet, told, doubted, strayed>>
    BY DEF WriteDates
  <1>10. crossed' = IF r.start # 0 /\ r.end # 0 THEN FALSE ELSE crossed \/ Together(r, r.before) # Together(r, m)
    BY DEF WriteDates
  <1>11. ~crossed' => dates.start <= dates.end
    <2>1. Ordered(Together(r, r.before))
      BY <1>6 DEF DatesChecked
    <2>2. CASE r.start # 0 /\ r.end # 0
      BY <2>1, <2>2 DEF Ordered, Together
    <2>3. CASE ~(r.start # 0 /\ r.end # 0)
      BY <1>10, <2>1, <2>3 DEF Ordered
    <2>. QED
      BY <2>2, <2>3
  <1>12. crossed' \in BOOLEAN
    BY <1>10 DEF CalendarInv, CalendarTypeOK
  <1>13. DatesChecked(n)
    BY <1>4 DEF DatesChecked
  <1>14. PeopleChecked(n, team')
    BY <1>4, <1>6, <1>9 DEF PeopleChecked
  <1>15. /\ calendarCall' \in [Calls -> CalendarCalls]
         /\ \A d \in Calls : DatesChecked(calendarCall'[d]) /\ PeopleChecked(calendarCall'[d], team')
    BY <1>4, <1>5, <1>9, <1>13, <1>14, CallGoesOn
  <1>16. CalendarTypeOK'
    BY <1>8, <1>9, <1>12, <1>15 DEF CalendarInv, CalendarTypeOK
  <1>17. EventsSound'
    BY <1>8, <1>9, <1>11 DEF CalendarInv, EventsSound
  <1>18. \A u \in Colleagues : Knows(u)' <=> Knows(u)
    BY <1>8, <1>9 DEF Knows, Awaits
  <1>. QED
    BY <1>6, <1>8, <1>9, <1>15, <1>16, <1>17, <1>18 DEF CalendarInv

LEMMA DeleteRowSteps ==
  ASSUME CalendarInv, NEW c \in Calls, DeleteRow(c)
  PROVE  CalendarInv'
  <1>. PICK r \in CalendarCalls : r = calendarCall[c]
    BY CallOf
  <1>. PICK n : n = IF r.by = sheet.owner THEN [NoCalendarCall EXCEPT !.phase = "reload", !.kind = r.kind] ELSE NoCalendarCall
    OBVIOUS
  <1>1. n \in CalendarCalls /\ DatesChecked(n) /\ PeopleChecked(n, team)
    BY Zenon, CallOver
  <1>2. calendarCall' = [calendarCall EXCEPT ![c] = n]
    BY DEF DeleteRow, AnswerPage
  <1>3. UNCHANGED <<team, leaving, untoldOf, sheet, told, doubted, strayed, crossed>>
    BY DEF DeleteRow
  <1>4. CASE meeting' = meeting
    <2>1. sheet' \in Sheets
      BY <1>3 DEF CalendarInv, CalendarTypeOK
    <2>. QED
      BY <1>1, <1>2, <1>3, <1>4, <2>1, OnlyACall
  <1>5. CASE meeting' = [NoEvent EXCEPT !.id = meeting.id]
    <2>1. /\ meeting' \in EventRows /\ meeting'.id = meeting.id /\ ~meeting'.there /\ meeting'.assignees = {}
      BY <1>5, MeetingOf DEF NoEvent, EventRows
    <2>2. PeopleChecked(n, team')
      BY <1>1, <1>3
    <2>3. /\ calendarCall' \in [Calls -> CalendarCalls]
          /\ \A d \in Calls : DatesChecked(calendarCall'[d]) /\ PeopleChecked(calendarCall'[d], team')
      BY <1>1, <1>2, <1>3, <2>2, CallGoesOn
    <2>4. CalendarTypeOK'
      BY <1>3, <2>1, <2>3 DEF CalendarInv, CalendarTypeOK
    <2>5. EventsSound'
      BY <2>1 DEF EventsSound
    <2>. QED
      BY <1>3, <2>1, <2>3, <2>4, <2>5 DEF CalendarInv
  <1>. QED
    BY <1>4, <1>5 DEF DeleteRow

LEMMA ReadAnswerSteps ==
  ASSUME CalendarInv, NEW c \in Calls, ReadAnswer(c)
  PROVE  CalendarInv'
  <1>. PICK r \in CalendarCalls : r = calendarCall[c]
    BY CallOf
  <1>. PICK n : n = IF r.by = sheet.owner THEN [NoCalendarCall EXCEPT !.phase = "reload", !.kind = r.kind] ELSE NoCalendarCall
    OBVIOUS
  <1>1. n \in CalendarCalls /\ DatesChecked(n) /\ PeopleChecked(n, team)
    BY Zenon, CallOver
  <1>2. calendarCall' = [calendarCall EXCEPT ![c] = n]
    BY DEF ReadAnswer, AnswerPage
  <1>3. sheet' \in Sheets
    BY DEF ReadAnswer, CalendarInv, CalendarTypeOK
  <1>4. UNCHANGED <<team, leaving, meeting, untoldOf, told, doubted, strayed, crossed>>
    BY DEF ReadAnswer
  <1>. QED
    BY <1>1, <1>2, <1>3, <1>4, OnlyACall

\* A call that ends with an error.
LEMMA FailingCall ==
  ASSUME CalendarInv, NEW c \in Calls, Failing(c)
  PROVE  /\ sheet' \in Sheets
         /\ \E n \in CalendarCalls : DatesChecked(n) /\ PeopleChecked(n, team) /\ calendarCall' = [calendarCall EXCEPT ![c] = n]
  <1>. PICK n \in CalendarCalls : n = NoCalendarCall
    BY CalendarTypes
  <1>1. calendarCall' = [calendarCall EXCEPT ![c] = n]
    BY DEF Failing, EndedCall
  <1>2. sheet' \in Sheets
    BY PageWaitsFor DEF Failing
  <1>. QED
    BY <1>1, <1>2, NoCallSound

LEMMA CalendarCallFailsSteps ==
  ASSUME CalendarInv, NEW c \in Calls, CalendarCallFails(c)
  PROVE  CalendarInv'
  <1>1. Failing(c) /\ doubted \subseteq doubted' /\ UNCHANGED <<team, leaving, meeting, untoldOf, told, strayed, crossed>>
    BY DEF CalendarCallFails
  <1>2. sheet' \in Sheets
    BY <1>1, FailingCall
  <1>. PICK n \in CalendarCalls : DatesChecked(n) /\ PeopleChecked(n, team) /\ calendarCall' = [calendarCall EXCEPT ![c] = n]
    BY <1>1, FailingCall
  <1>. QED
    BY <1>1, <1>2, OnlyACall

LEMMA NoticesTyped ==
  ASSUME NEW c \in Calls, NEW i \in Nat, NEW p \in SUBSET Colleagues, NEW word \in {"added", "removed"}
  PROVE  {[call |-> c, id |-> i, user |-> u, word |-> word] : u \in p} \in SUBSET Notices
  BY DEF Notices

\* The notices of a call say of its users what it has made so.
LEMMA NoticesSay ==
  ASSUME CalendarInv, NEW c \in Calls
  PROVE  /\ NoticesOf(c) \subseteq Notices
         /\ \A n \in NoticesOf(c) :
               /\ n.id = calendarCall[c].id /\ n.user # calendarCall[c].by
               /\ n.word = "added" => n.user \in calendarCall[c].ids \ calendarCall[c].before.assignees
               /\ n.word # "added" => n.user \in calendarCall[c].before.assignees \ calendarCall[c].ids
         /\ \A u \in Colleagues \ {calendarCall[c].by} :
               (u \in calendarCall[c].ids <=> u \in calendarCall[c].before.assignees)
                 \/ \E n \in NoticesOf(c) : n.user = u /\ n.id = calendarCall[c].id
  <1>. PICK r \in CalendarCalls : r = calendarCall[c]
    BY CallOf
  <1>. PICK i \in Nat, new \in SUBSET Colleagues, old \in SUBSET Colleagues :
         i = r.id /\ new = r.ids \ r.before.assignees /\ old = r.before.assignees \ r.ids
    BY DEF CalendarCalls, CallPhases, EventRows
  <1>. PICK by : by = r.by
    OBVIOUS
  <1>. PICK A : A = {[call |-> c, id |-> i, user |-> u, word |-> "added"] : u \in new \ {by}}
    OBVIOUS
  <1>. PICK R : R = {[call |-> c, id |-> i, user |-> u, word |-> "removed"] : u \in old \ {by}}
    OBVIOUS
  <1>1. NoticesOf(c) = A \cup R
    BY DEF NoticesOf
  <1>2. A \subseteq Notices /\ R \subseteq Notices
    <2>1. new \ {by} \in SUBSET Colleagues /\ old \ {by} \in SUBSET Colleagues
      OBVIOUS
    <2>. QED
      BY <2>1, NoticesTyped
  <1>3. \A n \in A : n.id = i /\ n.user # by /\ n.word = "added" /\ n.user \in new
    OBVIOUS
  <1>4. \A n \in R : n.id = i /\ n.user # by /\ n.word = "removed" /\ n.user \in old
    OBVIOUS
  <1>5. ASSUME NEW u \in Colleagues, u # by
        PROVE  (u \in r.ids <=> u \in r.before.assignees) \/ \E n \in A \cup R : n.user = u /\ n.id = i
    <2>1. CASE u \in new
      <3>. PICK n : n = [call |-> c, id |-> i, user |-> u, word |-> "added"]
        OBVIOUS
      <3>1. n \in A /\ n.user = u /\ n.id = i
        BY <1>5, <2>1
      <3>. QED
        BY <3>1
    <2>2. CASE u \in old
      <3>. PICK n : n = [call |-> c, id |-> i, user |-> u, word |-> "removed"]
        OBVIOUS
      <3>1. n \in R /\ n.user = u /\ n.id = i
        BY <1>5, <2>2
      <3>. QED
        BY <3>1
    <2>. QED
      BY <2>1, <2>2
  <1>. QED
    BY <1>1, <1>2, <1>3, <1>4, <1>5

LEMMA CallWipes ==
  ASSUME NEW r \in CalendarCalls
  PROVE  /\ r.wipes \in SUBSET Colleagues /\ r.ids \in SUBSET Colleagues /\ r.outrun \in SUBSET Colleagues
         /\ r.before.assignees \in SUBSET Colleagues
  BY DEF CalendarCalls, CallPhases, EventRows

\* Neither the rows to be deleted nor the statement at which a replacement
\* has arrived bear on what the call has checked.
LEMMA CallRewiped ==
  ASSUME NEW r \in CalendarCalls, NEW rows \in SUBSET Colleagues, NEW members, NEW n,
         DatesChecked(r), PeopleChecked(r, members), n = [r EXCEPT !.wipes = rows]
  PROVE  n \in CalendarCalls /\ DatesChecked(n) /\ PeopleChecked(n, members)
  <1>1. n \in CalendarCalls
    BY DEF CalendarCalls, CallPhases
  <1>2. n.phase = r.phase /\ n.kind = r.kind /\ n.start = r.start /\ n.end = r.end
    BY DEF CalendarCalls, CallPhases
  <1>3. n.assigns = r.assigns /\ n.ids = r.ids /\ n.before = r.before /\ n.outrun = r.outrun
    BY DEF CalendarCalls, CallPhases
  <1>. QED
    BY <1>1, <1>2, <1>3 DEF DatesChecked, PeopleChecked, Together, Ordered

LEMMA CallEmptied ==
  ASSUME NEW r \in CalendarCalls, NEW rows \in SUBSET Colleagues, NEW p \in {"wiping", "wiped"},
         r.phase \in {"assign", "wiping"}, DatesChecked(r), PeopleChecked(r, team)
  PROVE  \E n \in CalendarCalls :
            n = [r EXCEPT !.phase = p, !.wipes = rows] /\ DatesChecked(n) /\ PeopleChecked(n, team)
  <1>. PICK n : n = [r EXCEPT !.phase = p, !.wipes = rows]
    OBVIOUS
  <1>1. n \in CalendarCalls
    BY DEF CalendarCalls, CallPhases
  <1>2. n.phase = p /\ n.assigns = r.assigns /\ n.ids = r.ids /\ n.outrun = r.outrun
    BY DEF CalendarCalls, CallPhases
  <1>3. DatesChecked(n) /\ PeopleChecked(n, team)
    BY <1>1, <1>2 DEF DatesChecked, PeopleChecked
  <1>. QED
    BY Zenon, <1>1, <1>3

LEMMA CallHeld ==
  ASSUME NEW r \in CalendarCalls, r.phase = "wiping"
  PROVE  [r EXCEPT !.phase = "wiped"] = [r EXCEPT !.phase = "wiped", !.wipes = r.wipes]
  BY DEF CalendarCalls, CallPhases

LEMMA CallNotifies ==
  ASSUME NEW r \in CalendarCalls, NEW e \in EventRows, NEW n,
         n = [r EXCEPT !.phase = "notify", !.ids = {}, !.before = e, !.outrun = {}]
  PROVE  n \in CalendarCalls /\ n.phase = "notify" /\ n.ids = {}
  BY DEF CalendarCalls, CallPhases

\* Rows that are gone concern no other call's ids, nor what it has checked.
LEMMA RowsGone ==
  ASSUME CalendarInv, NEW rows
  PROVE  /\ Gone(rows) \in [Calls -> CalendarCalls]
         /\ \A d \in Calls : DatesChecked(Gone(rows)[d]) /\ PeopleChecked(Gone(rows)[d], team)
  <1>1. ASSUME NEW d \in Calls
        PROVE  Gone(rows)[d] \in CalendarCalls /\ DatesChecked(Gone(rows)[d]) /\ PeopleChecked(Gone(rows)[d], team)
    <2>1. /\ calendarCall[d] \in CalendarCalls
          /\ DatesChecked(calendarCall[d]) /\ PeopleChecked(calendarCall[d], team)
      BY CallOf
    <2>2. calendarCall[d].wipes \ rows \in SUBSET Colleagues
      BY <2>1, CallWipes
    <2>3. Gone(rows)[d] = [calendarCall[d] EXCEPT !.wipes = calendarCall[d].wipes \ rows]
      BY Zenon DEF Gone
    <2>. QED
      BY Zenon, <2>1, <2>2, <2>3, CallRewiped
  <1>2. Gone(rows) = [d \in Calls |-> Gone(rows)[d]]
    BY DEF Gone
  <1>. QED
    BY <1>1, <1>2

LEMMA ReplacedCalls ==
  ASSUME CalendarInv, NEW c \in Calls, calendarCall' = Replaced(c), team' = team
  PROVE  /\ calendarCall' \in [Calls -> CalendarCalls]
         /\ \A d \in Calls : DatesChecked(calendarCall'[d]) /\ PeopleChecked(calendarCall'[d], team')
  <1>. PICK g \in [Calls -> CalendarCalls] :
         /\ g = Gone(calendarCall[c].wipes)
         /\ \A d \in Calls : DatesChecked(g[d]) /\ PeopleChecked(g[d], team)
    BY RowsGone
  <1>. PICK noEvent \in EventRows : noEvent = NoEvent
    BY CalendarTypes
  <1>. PICK n : n = [g[c] EXCEPT !.phase = "notify", !.ids = {}, !.before = noEvent, !.outrun = {}]
    OBVIOUS
  <1>1. n \in CalendarCalls /\ n.phase = "notify" /\ n.ids = {}
    <2>1. g[c] \in CalendarCalls
      OBVIOUS
    <2>. QED
      BY Zenon, <2>1, CallNotifies
  <1>2. calendarCall' = [g EXCEPT ![c] = n]
    BY DEF Replaced
  <1>3. DatesChecked(n) /\ PeopleChecked(n, team)
    BY <1>1 DEF DatesChecked, PeopleChecked
  <1>4. \A d \in Calls : calendarCall'[d] = IF d = c THEN n ELSE g[d]
    BY <1>2
  <1>. QED
    BY <1>1, <1>2, <1>3, <1>4

\* Nothing but the calls changes.
LEMMA OthersStay ==
  ASSUME CalendarInv, UNCHANGED <<team, leaving, meeting, untoldOf, sheet, told, doubted, strayed, crossed>>,
         calendarCall' \in [Calls -> CalendarCalls],
         \A d \in Calls : DatesChecked(calendarCall'[d]) /\ PeopleChecked(calendarCall'[d], team')
  PROVE  CalendarInv'
  <1>1. CalendarTypeOK' /\ EventsSound'
    BY DEF CalendarInv, CalendarTypeOK, EventsSound
  <1>2. \A u \in Colleagues : Knows(u)' <=> Knows(u)
    BY DEF Knows, Awaits
  <1>. QED
    BY <1>1, <1>2 DEF CalendarInv

LEMMA EmptyListSteps ==
  ASSUME CalendarInv, NEW c \in Calls, EmptyList(c) \/ HoldRows(c)
  PROVE  CalendarInv'
  <1>1. /\ calendarCall[c] \in CalendarCalls
        /\ DatesChecked(calendarCall[c]) /\ PeopleChecked(calendarCall[c], team)
    BY CallOf
  <1>2. \E p \in {"wiping", "wiped"}, rows \in SUBSET Colleagues :
          /\ calendarCall[c].phase \in {"assign", "wiping"}
          /\ calendarCall' = [calendarCall EXCEPT ![c] = [calendarCall[c] EXCEPT !.phase = p, !.wipes = rows]]
    <2>1. CASE EmptyList(c)
      <3>1. Rowed(c) \in SUBSET Colleagues
        BY MeetingOf DEF Rowed
      <3>. PICK p \in {"wiping", "wiped"} : p = IF Held(c, Rowed(c)) THEN "wiping" ELSE "wiped"
        OBVIOUS
      <3>2. /\ calendarCall[c].phase = "assign"
            /\ calendarCall' = [calendarCall EXCEPT ![c] = [calendarCall[c] EXCEPT !.phase = p, !.wipes = Rowed(c)]]
        BY <2>1 DEF EmptyList, At, CalendarInv, CalendarTypeOK
      <3>. QED
        BY Zenon, <3>1, <3>2
    <2>2. CASE HoldRows(c)
      <3>1. calendarCall[c].phase = "wiping" /\ calendarCall[c].wipes \in SUBSET Colleagues
        BY <1>1, <2>2, CallWipes DEF HoldRows, At
      <3>2. calendarCall' = [calendarCall EXCEPT ![c] = [calendarCall[c] EXCEPT !.phase = "wiped"]]
        BY <2>2 DEF HoldRows, Goes, CalendarInv, CalendarTypeOK
      <3>3. [calendarCall[c] EXCEPT !.phase = "wiped"]
              = [calendarCall[c] EXCEPT !.phase = "wiped", !.wipes = calendarCall[c].wipes]
        BY Zenon, <1>1, <3>1, CallHeld
      <3>. QED
        BY Zenon, <3>1, <3>2, <3>3
    <2>. QED
      BY Zenon, <2>1, <2>2
  <1>. PICK p \in {"wiping", "wiped"}, rows \in SUBSET Colleagues :
          /\ calendarCall[c].phase \in {"assign", "wiping"}
          /\ calendarCall' = [calendarCall EXCEPT ![c] = [calendarCall[c] EXCEPT !.phase = p, !.wipes = rows]]
    BY Zenon, <1>2
  <1>3. \E n \in CalendarCalls : /\ n = [calendarCall[c] EXCEPT !.phase = p, !.wipes = rows]
                                 /\ DatesChecked(n) /\ PeopleChecked(n, team)
    BY Zenon, <1>1, CallEmptied
  <1>. PICK n \in CalendarCalls : /\ n = [calendarCall[c] EXCEPT !.phase = p, !.wipes = rows]
                                  /\ DatesChecked(n) /\ PeopleChecked(n, team)
    BY Zenon, <1>3
  <1>4. sheet' \in Sheets /\ UNCHANGED <<team, leaving, meeting, untoldOf, told, doubted, strayed, crossed>>
    BY DEF EmptyList, HoldRows, CalendarInv, CalendarTypeOK
  <1>. QED
    BY <1>4, OnlyACall

\* The list is filled again: those in it are the ones asked for and the rows
\* that the call did not see, and those of the latter are doubted.
LEMMA ReplaceSteps ==
  ASSUME CalendarInv, NEW c \in Calls, Replace(c)
  PROVE  CalendarInv'
  <1>. PICK r \in CalendarCalls : r = calendarCall[c]
    BY CallOf
  <1>. PICK m \in EventRows : m = meeting
    BY MeetingOf
  <1>. PICK ids \in SUBSET Colleagues, was \in SUBSET Colleagues, out \in SUBSET Colleagues, wipes \in SUBSET Colleagues :
         ids = r.ids /\ was = r.before.assignees /\ out = r.outrun /\ wipes = r.wipes
    BY CallWipes
  <1>. PICK unseen \in SUBSET Colleagues : unseen = m.assignees \ wipes
    BY DEF EventRows
  <1>. PICK all \in SUBSET Colleagues : all = unseen \cup ids
    OBVIOUS
  <1>1. PICK gone : /\ gone \subseteq leaving \cap wipes \cap ids
                    /\ leaving' = leaving \ gone
                    /\ told' = (IF r.by \in ids THEN told \cup {r.by} ELSE told \ {r.by}) \ gone
                    /\ doubted' = doubted \cup Differ(was, m.assignees) \cup Pending(r.id) \cup unseen \cup gone
    BY DEF Replace
  <1>2. /\ r.phase = "wiped" /\ m.there /\ m.id = r.id /\ PeopleChecked(r, team)
        /\ UNCHANGED <<team, sheet, crossed>> /\ calendarCall' = Replaced(c)
    BY CallOf DEF Replace, At, Found
  <1>3. meeting' = [m EXCEPT !.assignees = all]
    BY DEF Replace
  <1>4. /\ meeting' \in EventRows /\ meeting'.id = m.id /\ meeting'.there = m.there /\ meeting'.assignees = all
        /\ meeting'.start = m.start /\ meeting'.end = m.end
    BY <1>3 DEF EventRows
  <1>5. untoldOf' = untoldOf \cup NoticesOf(c) /\ strayed' = (strayed \cup out) \cap all
    BY DEF Replace
  <1>6. /\ doubted \subseteq doubted' /\ Differ(was, m.assignees) \subseteq doubted'
        /\ unseen \subseteq doubted' /\ gone \subseteq doubted'
        /\ \A x \in untoldOf : x.id = r.id => x.user \in doubted'
    BY <1>1 DEF Pending
  <1>8. /\ NoticesOf(c) \subseteq Notices
        /\ \A x \in NoticesOf(c) : /\ x.id = r.id /\ x.user # r.by
                                   /\ x.word = "added" => x.user \in ids
                                   /\ x.word # "added" => x.user \notin ids
        /\ \A u \in Colleagues \ {r.by} :
              (u \in ids <=> u \in was) \/ \E x \in NoticesOf(c) : x.user = u /\ x.id = r.id
    BY NoticesSay
  <1>10. /\ calendarCall' \in [Calls -> CalendarCalls]
         /\ \A d \in Calls : DatesChecked(calendarCall'[d]) /\ PeopleChecked(calendarCall'[d], team')
    BY <1>2, ReplacedCalls
  <1>11. CalendarTypeOK'
    BY <1>1, <1>2, <1>4, <1>5, <1>8, <1>10 DEF CalendarInv, CalendarTypeOK
  <1>12. EventsSound'
    <2>1. ids \subseteq team \cup strayed'
      BY <1>2, <1>5 DEF PeopleChecked
    <2>2. unseen \subseteq team \cup leaving' \cup strayed'
      BY <1>1, <1>5 DEF CalendarInv, EventsSound
    <2>. QED
      BY <1>2, <1>4, <2>1, <2>2 DEF CalendarInv, EventsSound
  <1>13. \A x \in untoldOf' : x.id <= meeting'.id
    <2>1. \A x \in untoldOf : x.id <= m.id
      BY DEF CalendarInv
    <2>2. m.id \in Nat
      BY DEF EventRows
    <2>3. \A x \in NoticesOf(c) : x.id <= m.id
      <3>1. \A x \in NoticesOf(c) : x.id = m.id
        BY <1>2, <1>8
      <3>. QED
        BY <2>2, <3>1
    <2>4. meeting'.id = m.id
      BY <1>4
    <2>. QED
      BY <1>5, <2>1, <2>3, <2>4
  <1>14. ASSUME NEW u \in Colleagues, u \notin doubted' PROVE Knows(u)'
    <2>1. u \notin doubted /\ (u \in was <=> u \in m.assignees) /\ (u \in all <=> u \in ids) /\ u \notin gone
      BY <1>6, <1>14 DEF Differ
    <2>2. Awaits(u) = {}
      BY <1>2, <1>6, <1>14 DEF Awaits
    <2>3. u \in told <=> u \in m.assignees
      BY <1>2, <2>1, <2>2 DEF CalendarInv, Knows
    <2>4. Awaits(u)' \subseteq {x \in NoticesOf(c) : x.user = u}
      BY <1>4, <1>5, <2>2 DEF Awaits
    <2>5. ASSUME NEW x \in Awaits(u)' PROVE x.word = "added" <=> u \in ids
      <3>1. x \in NoticesOf(c) /\ x.user = u
        BY <2>4
      <3>2. (x.word = "added" => x.user \in ids) /\ (x.word # "added" => x.user \notin ids)
        BY <1>8, <3>1
      <3>. QED
        BY <3>1, <3>2
    <2>6. ASSUME Awaits(u)' = {} PROVE u \in told' <=> u \in ids
      <3>1. CASE u = r.by
        BY <1>1, <2>1, <3>1
      <3>2. CASE u # r.by
        <4>1. u \in ids <=> u \in was
          BY <1>2, <1>4, <1>5, <1>8, <2>6, <3>2 DEF Awaits
        <4>2. u \in told' <=> u \in told
          BY <1>1, <2>1, <3>2
        <4>. QED
          BY <2>1, <2>3, <4>1, <4>2
      <3>. QED
        BY <3>1, <3>2
    <2>. QED
      BY <1>4, <2>1, <2>5, <2>6 DEF Knows
  <1>15. team' \cap leaving' = {}
    BY <1>1, <1>2 DEF CalendarInv
  <1>. QED
    BY <1>10, <1>11, <1>12, <1>13, <1>14, <1>15 DEF CalendarInv

LEMMA ReplaceNoneSteps ==
  ASSUME CalendarInv, NEW c \in Calls, ReplaceNone(c)
  PROVE  CalendarInv'
  <1>1. /\ UNCHANGED <<team, leaving, meeting, untoldOf, sheet, told, doubted, strayed, crossed>>
        /\ calendarCall' = Replaced(c)
    BY DEF ReplaceNone
  <1>. QED
    BY <1>1, ReplacedCalls, OthersStay

\* One notice less.
LEMMA NoticeGone ==
  ASSUME CalendarInv, NEW n \in untoldOf, untoldOf' = untoldOf \ {n},
         UNCHANGED <<team, leaving, meeting, strayed, crossed>>, doubted \subseteq doubted', sheet' \in Sheets,
         /\ calendarCall' \in [Calls -> CalendarCalls]
         /\ \A d \in Calls : DatesChecked(calendarCall'[d]) /\ PeopleChecked(calendarCall'[d], team'),
         meeting.there => \A u \in Colleagues \ doubted' : Knows(u)'
  PROVE  CalendarInv'
  <1>1. CalendarTypeOK'
    BY DEF CalendarInv, CalendarTypeOK
  <1>2. EventsSound'
    BY DEF CalendarInv, EventsSound
  <1>3. \A x \in untoldOf' : x.id <= meeting'.id
    BY DEF CalendarInv
  <1>. QED
    BY <1>1, <1>2, <1>3 DEF CalendarInv

LEMMA NoticeReachesSteps ==
  ASSUME CalendarInv, NEW n \in untoldOf, NoticeReaches(n)
  PROVE  CalendarInv'
  <1>1. /\ untoldOf' = untoldOf \ {n}
        /\ UNCHANGED <<team, leaving, meeting, calendarCall, sheet, doubted, strayed, crossed>>
        /\ told' = IF n.id # meeting.id THEN told ELSE IF n.word = "added" THEN told \cup {n.user} ELSE told \ {n.user}
    BY DEF NoticeReaches
  <1>2. ASSUME meeting.there, NEW u \in Colleagues \ doubted PROVE Knows(u)'
    <2>1. Knows(u)
      BY <1>2 DEF CalendarInv
    <2>2. Awaits(u)' = Awaits(u) \ {n}
      BY <1>1 DEF Awaits
    <2>3. ASSUME Awaits(u)' = {} PROVE u \in told' <=> u \in meeting.assignees
      <3>1. CASE n \in Awaits(u)
        <4>1. n.user = u /\ n.id = meeting.id /\ (n.word = "added" <=> u \in meeting.assignees)
          BY <2>1, <3>1 DEF Knows, Awaits
        <4>. QED
          BY <1>1, <4>1
      <3>2. CASE n \notin Awaits(u)
        <4>1. u \in told <=> u \in meeting.assignees
          BY <2>1, <2>2, <2>3, <3>2 DEF Knows
        <4>2. n.id # meeting.id \/ n.user # u
          BY <3>2 DEF Awaits
        <4>. QED
          BY <1>1, <4>1, <4>2
      <3>. QED
        BY <3>1, <3>2
    <2>. QED
      BY <1>1, <2>1, <2>2, <2>3 DEF Knows
  <1>3. sheet' \in Sheets
    BY <1>1 DEF CalendarInv, CalendarTypeOK
  <1>4. /\ calendarCall' \in [Calls -> CalendarCalls]
        /\ \A d \in Calls : DatesChecked(calendarCall'[d]) /\ PeopleChecked(calendarCall'[d], team')
    BY <1>1 DEF CalendarInv, CalendarTypeOK
  <1>. QED
    BY <1>1, <1>2, <1>3, <1>4, NoticeGone

LEMMA NoticeFailsSteps ==
  ASSUME CalendarInv, NEW n \in untoldOf, NoticeFails(n)
  PROVE  CalendarInv'
  <1>1. /\ untoldOf' = untoldOf \ {n} /\ UNCHANGED <<team, leaving, meeting, told, strayed, crossed>>
        /\ doubted \subseteq doubted'
        /\ n.id = meeting.id => n.user \in doubted'
    BY DEF NoticeFails
  <1>2. n.call \in Calls
    BY DEF CalendarInv, CalendarTypeOK, Notices
  <1>3. /\ sheet' \in Sheets
        /\ calendarCall' \in [Calls -> CalendarCalls]
        /\ \A d \in Calls : DatesChecked(calendarCall'[d]) /\ PeopleChecked(calendarCall'[d], team')
    <2>1. CASE Failing(n.call)
      <3>1. sheet' \in Sheets
        BY <1>2, <2>1, FailingCall
      <3>. PICK z \in CalendarCalls :
             DatesChecked(z) /\ PeopleChecked(z, team) /\ calendarCall' = [calendarCall EXCEPT ![n.call] = z]
        BY <1>2, <2>1, FailingCall
      <3>2. PeopleChecked(z, team')
        BY <1>1
      <3>. QED
        BY <1>1, <1>2, <3>1, <3>2, CallGoesOn
    <2>2. CASE UNCHANGED <<calendarCall, sheet>>
      BY <1>1, <2>2 DEF CalendarInv, CalendarTypeOK
    <2>. QED
      BY <2>1, <2>2 DEF NoticeFails
  <1>4. ASSUME meeting.there, NEW u \in Colleagues \ doubted' PROVE Knows(u)'
    <2>1. n.id # meeting.id \/ n.user # u
      BY <1>1, <1>4
    <2>2. Awaits(u)' = Awaits(u)
      BY <1>1, <2>1 DEF Awaits
    <2>3. Knows(u)
      BY <1>1, <1>4 DEF CalendarInv
    <2>. QED
      BY <1>1, <2>2, <2>3 DEF Knows
  <1>. QED
    BY <1>1, <1>3, <1>4, NoticeGone

\* A call that was about to write has its user removed under it.
LEMMA Outrun ==
  ASSUME NEW r \in CalendarCalls, DatesChecked(r), PeopleChecked(r, team), NEW u \in Colleagues, NEW n,
         n = IF r.phase \in {"write", "assign", "wiping", "wiped"} /\ u \in r.ids
             THEN [r EXCEPT !.outrun = r.outrun \cup {u}] ELSE r
  PROVE  n \in CalendarCalls /\ DatesChecked(n) /\ PeopleChecked(n, team \ {u})
  <1>1. CASE r.phase \in {"write", "assign", "wiping", "wiped"} /\ u \in r.ids
    <2>. PICK out \in SUBSET Colleagues : out = r.outrun \cup {u}
      BY DEF CalendarCalls, CallPhases
    <2>1. n = [r EXCEPT !.outrun = out]
      BY <1>1
    <2>2. /\ n \in CalendarCalls /\ n.phase = r.phase /\ n.kind = r.kind /\ n.start = r.start /\ n.end = r.end
          /\ n.assigns = r.assigns /\ n.ids = r.ids /\ n.before = r.before /\ n.outrun = out
      BY <2>1 DEF CalendarCalls, CallPhases
    <2>3. DatesChecked(n)
      BY <2>2 DEF DatesChecked, Together, Ordered
    <2>4. PeopleChecked(n, team \ {u})
      BY <2>2 DEF PeopleChecked
    <2>. QED
      BY <2>2, <2>3, <2>4
  <1>2. CASE ~(r.phase \in {"write", "assign", "wiping", "wiped"} /\ u \in r.ids)
    <2>1. n = r
      BY <1>2
    <2>2. PeopleChecked(r, team \ {u})
      BY <1>2 DEF PeopleChecked
    <2>. QED
      BY <2>1, <2>2
  <1>. QED
    BY <1>1, <1>2

LEMMA RemoveFromTeamSteps ==
  ASSUME CalendarInv, NEW u \in Colleagues, RemoveFromTeam(u)
  PROVE  CalendarInv'
  <1>1. /\ leaving = {} /\ u \in team /\ team' = team \ {u} /\ leaving' = {u}
        /\ UNCHANGED <<meeting, untoldOf, sheet, told, doubted, strayed, crossed>>
    BY DEF RemoveFromTeam
  <1>2. ASSUME NEW c \in Calls
        PROVE  /\ calendarCall'[c] \in CalendarCalls
               /\ DatesChecked(calendarCall'[c]) /\ PeopleChecked(calendarCall'[c], team')
    <2>. PICK r \in CalendarCalls : r = calendarCall[c]
      BY CallOf
    <2>. PICK n : n = IF r.phase \in {"write", "assign", "wiping", "wiped"} /\ u \in r.ids
                      THEN [r EXCEPT !.outrun = r.outrun \cup {u}] ELSE r
      OBVIOUS
    <2>1. calendarCall'[c] = n
      BY DEF RemoveFromTeam, Assigning
    <2>2. DatesChecked(r) /\ PeopleChecked(r, team)
      BY CallOf
    <2>3. n \in CalendarCalls /\ DatesChecked(n) /\ PeopleChecked(n, team \ {u})
      BY <2>2, Outrun
    <2>. QED
      BY <1>1, <2>1, <2>3
  <1>3. calendarCall' = [c \in Calls |-> calendarCall'[c]]
    BY DEF RemoveFromTeam
  <1>4. calendarCall' \in [Calls -> CalendarCalls]
    BY <1>2, <1>3
  <1>5. CalendarTypeOK'
    BY <1>1, <1>4 DEF CalendarInv, CalendarTypeOK
  <1>6. EventsSound'
    BY <1>1 DEF CalendarInv, EventsSound
  <1>7. \A w \in Colleagues : Knows(w)' <=> Knows(w)
    BY <1>1 DEF Knows, Awaits
  <1>. QED
    BY <1>1, <1>2, <1>5, <1>6, <1>7 DEF CalendarInv

\* The last part of a removal: nobody who leaves is a member, so that the
\* rows and what is known of them change for nobody else.
LEMMA RemoveAssigneesSteps ==
  ASSUME CalendarInv, RemoveAssignees
  PROVE  CalendarInv'
  <1>. PICK m \in EventRows : m = meeting
    BY MeetingOf
  <1>. PICK rest \in SUBSET Colleagues : rest = m.assignees \ leaving
    BY DEF EventRows
  <1>1. /\ leaving' = {} /\ told' = told \ leaving /\ strayed' = strayed \ leaving
        /\ calendarCall' = Gone(leaving) /\ UNCHANGED <<team, untoldOf, sheet, crossed>>
    BY DEF RemoveAssignees
  <1>2. meeting' = [m EXCEPT !.assignees = rest]
    BY DEF RemoveAssignees
  <1>3. /\ meeting' \in EventRows /\ meeting'.id = m.id /\ meeting'.there = m.there /\ meeting'.assignees = rest
        /\ meeting'.start = m.start /\ meeting'.end = m.end
    BY <1>2 DEF EventRows
  <1>4. doubted \subseteq doubted' /\ \A x \in untoldOf : x.user \in leaving => x.user \in doubted'
    BY DEF RemoveAssignees
  <1>. PICK g \in [Calls -> CalendarCalls] :
         g = Gone(leaving) /\ \A c \in Calls : DatesChecked(g[c]) /\ PeopleChecked(g[c], team)
    BY RowsGone
  <1>5. CalendarTypeOK'
    BY <1>1, <1>3 DEF CalendarInv, CalendarTypeOK
  <1>6. EventsSound'
    BY <1>1, <1>3 DEF CalendarInv, EventsSound
  <1>7. ASSUME m.there, NEW u \in Colleagues, u \notin doubted' PROVE Knows(u)'
    <2>1. Knows(u)
      BY <1>4, <1>7 DEF CalendarInv
    <2>2. Awaits(u)' = Awaits(u)
      BY <1>1, <1>3 DEF Awaits
    <2>3. CASE u \in leaving
      <3>1. Awaits(u) = {}
        BY <1>4, <1>7, <2>3 DEF Awaits
      <3>2. u \notin told' /\ u \notin meeting'.assignees
        BY <1>1, <1>3, <2>3
      <3>. QED
        BY <2>2, <3>1, <3>2 DEF Knows
    <2>4. CASE u \notin leaving
      <3>1. (u \in told' <=> u \in told) /\ (u \in meeting'.assignees <=> u \in meeting.assignees)
        BY <1>1, <1>3, <2>4
      <3>. QED
        BY <2>1, <2>2, <3>1 DEF Knows
    <2>. QED
      BY <2>3, <2>4
  <1>8. \A c \in Calls : DatesChecked(calendarCall'[c]) /\ PeopleChecked(calendarCall'[c], team')
    BY <1>1
  <1>9. \A x \in untoldOf' : x.id <= meeting'.id
    BY <1>1, <1>3 DEF CalendarInv
  <1>. QED
    BY <1>1, <1>3, <1>5, <1>6, <1>7, <1>8, <1>9 DEF CalendarInv

LEMMA TeamSteps ==
  ASSUME CalendarInv, RemovalEndsEarly \/ \E u \in Colleagues : AddToTeam(u)
  PROVE  CalendarInv'
  <1>1. UNCHANGED <<meeting, calendarCall, untoldOf, sheet, told, doubted, crossed>>
    BY DEF RemovalEndsEarly, AddToTeam
  <1>2. team \subseteq team' /\ team' \subseteq Colleagues /\ leaving' = {}
    BY DEF RemovalEndsEarly, AddToTeam, CalendarInv, CalendarTypeOK
  <1>3. CalendarTypeOK'
    BY <1>1, <1>2 DEF CalendarInv, CalendarTypeOK
  <1>4. meeting'.assignees \subseteq team' \cup leaving' \cup strayed'
    BY <1>1 DEF RemovalEndsEarly, AddToTeam, CalendarInv, EventsSound
  <1>5. EventsSound'
    BY <1>1, <1>4 DEF CalendarInv, EventsSound
  <1>6. \A w \in Colleagues : Knows(w)' <=> Knows(w)
    BY <1>1 DEF Knows, Awaits
  <1>7. \A c \in Calls : DatesChecked(calendarCall'[c]) /\ PeopleChecked(calendarCall'[c], team')
    BY <1>1, <1>2 DEF CalendarInv, PeopleChecked
  <1>. QED
    BY <1>1, <1>2, <1>3, <1>5, <1>6, <1>7 DEF CalendarInv

LEMMA CalendarSteps == CalendarInv /\ [CalendarNext]_calendar => CalendarInv'
  <1>. SUFFICES ASSUME CalendarInv, [CalendarNext]_calendar PROVE CalendarInv'
    OBVIOUS
  <1>1. CASE OpenDay \/ OpenEvent \/ CloseDrawer
    BY <1>1, DrawerSteps
  <1>2. ASSUME NEW c \in Calls,
               SaveForm(c) \/ DeleteShown(c) \/ CalendarReloaded(c) \/ CallDirectly(c) \/ GuardCall(c) \/ CheckAssignees(c)
        PROVE  CalendarInv'
    BY <1>2, SaveFormSteps, DeleteShownSteps, CalendarReloadedSteps, CallDirectlySteps, GuardCallSteps, CheckAssigneesSteps
  <1>3. ASSUME NEW c \in Calls,
               WriteNew(c) \/ WriteDates(c) \/ DeleteRow(c) \/ Replace(c) \/ CalendarCallFails(c) \/ ReadAnswer(c)
        PROVE  CalendarInv'
    BY <1>3, WriteNewSteps, WriteDatesSteps, DeleteRowSteps, ReplaceSteps, CalendarCallFailsSteps, ReadAnswerSteps
  <1>8. ASSUME NEW c \in Calls, EmptyList(c) \/ HoldRows(c) \/ ReplaceNone(c) PROVE CalendarInv'
    BY <1>8, EmptyListSteps, ReplaceNoneSteps
  <1>4. ASSUME NEW n \in untoldOf, NoticeReaches(n) \/ NoticeFails(n) PROVE CalendarInv'
    BY <1>4, NoticeReachesSteps, NoticeFailsSteps
  <1>5. ASSUME NEW u \in Colleagues, RemoveFromTeam(u) \/ AddToTeam(u) PROVE CalendarInv'
    BY <1>5, RemoveFromTeamSteps, TeamSteps
  <1>6. CASE RemoveAssignees \/ RemovalEndsEarly
    BY <1>6, RemoveAssigneesSteps, TeamSteps
  <1>7. CASE UNCHANGED calendar
    <2>1. sheet' \in Sheets
      BY <1>7 DEF calendar, CalendarInv, CalendarTypeOK
    <2>. QED
      BY <1>7, <2>1, OnlyThePage DEF calendar
  <1>. QED
    BY <1>1, <1>2, <1>3, <1>4, <1>5, <1>6, <1>7, <1>8 DEF CalendarNext

LEMMA CalendarAlwaysSound == CalendarSpec => []CalendarInv
  BY CalendarInitHolds, CalendarSteps, PTL DEF CalendarSpec

\* An event does not end before it starts, unless the date that was not sent
\* has changed since it was checked, and those assigned are members of the
\* project, are being removed from it, or were removed in the middle of the call.
THEOREM EventsSoundAlways == CalendarSpec => []EventsSound
  <1>1. CalendarInv => EventsSound
    BY DEF CalendarInv
  <1>. QED
    BY <1>1, CalendarAlwaysSound, PTL

\* With nothing on its way to them, the members who are assigned know it, and
\* the others do not think so, through any number of changes, except of those
\* told by two calls that overlapped, about whom a call has failed, or whose
\* row a call did not see that emptied the list.
THEOREM AssigneesKnowAlways == CalendarSpec => []AssigneesKnow
  <1>1. ASSUME CalendarInv PROVE AssigneesKnow
    <2>1. ASSUME NEW u \in team \ doubted, meeting.there, \A n \in untoldOf : n.user # u
          PROVE  u \in told <=> u \in meeting.assignees
      <3>1. Knows(u)
        BY <1>1, <2>1 DEF CalendarInv, CalendarTypeOK
      <3>2. Awaits(u) = {}
        BY <2>1 DEF Awaits
      <3>. QED
        BY <3>1, <3>2 DEF Knows
    <2>. QED
      BY <2>1 DEF AssigneesKnow
  <1>. QED
    BY <1>1, CalendarAlwaysSound, PTL
=============================================================================
