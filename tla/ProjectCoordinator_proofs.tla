----------------------- MODULE ProjectCoordinator_proofs -----------------------
(***************************************************************************)
(* Theorems about ProjectCoordinator, for any finite number of operations  *)
(* and any projects, resources and coordinator objects.                    *)
(***************************************************************************)
EXTENDS ProjectCoordinator, FiniteSetTheorems, TLAPS

-----------------------------------------------------------------------------
(* Data: initial segments, and the front of a queue without repetitions.   *)

\* A downward closed set of positions is an initial segment.
LEMMA InitialSegment ==
    ASSUME NEW len \in Nat, NEW S \in SUBSET (1..len),
           \A i \in S : \A j \in 1..i : j \in S
    PROVE  \E n \in 0..len : S = 1..n
<1>1. CASE S = 1..len
  BY <1>1
<1>2. CASE S # 1..len
  <2> DEFINE Missing == {i \in 1..len : i \notin S}
  <2>0. PICK i \in 1..len : i \notin S
    BY <1>2
  <2>1. Missing \subseteq Nat /\ Missing # {}
    BY <2>0
  <2>2. PICK x \in Missing : \A y \in Missing : ~ (<<y, x>> \in OpToRel(<, Nat))
    BY <2>1, WFMin, NatLessThanWellFounded
  <2>3. \A y \in Missing : ~ (y < x)
    BY <2>1, <2>2 DEF OpToRel
  <2>4. ASSUME NEW k \in S PROVE k < x
    <3>1. x \in 1..len /\ k \in 1..len /\ x \notin S
      OBVIOUS
    <3>2. x \notin 1..k
      BY <3>1
    <3>3. QED BY <3>1, <3>2
  <2>5. \A k \in 1..len : k < x => k \in S
    BY <2>3
  <2>6. x \in 1..len /\ S \subseteq 1..len
    OBVIOUS
  <2>7. S = 1..(x - 1)
    <3>1. \A k \in S : k \in 1..(x - 1)
      BY <2>4, <2>6
    <3>2. \A k \in 1..(x - 1) : k \in S
      BY <2>5, <2>6
    <3>3. QED BY <3>1, <3>2
  <2>8. QED BY <2>6, <2>7
<1>3. QED BY <1>1, <1>2

\* An initial segment of the positions 1..n has n elements.
LEMMA SegmentSize ==
    ASSUME NEW n \in Nat
    PROVE  IsFiniteSet(1..n) /\ Cardinality(1..n) = n
BY FS_Interval

\* The first n entries of an injective queue are n.
LEMMA FrontSize ==
    ASSUME NEW T, NEW w \in Seq(T), NEW n \in 0..Len(w),
           \A i, j \in DOMAIN w : w[i] = w[j] => i = j,
           NEW F, F = {w[i] : i \in 1..n}
    PROVE  IsFiniteSet(F) /\ Cardinality(F) = n
<1> DEFINE f == [i \in 1..n |-> w[i]]
<1>1. DOMAIN w = 1..Len(w) /\ Len(w) \in Nat
  OBVIOUS
<1>2. f \in Bijection(1..n, F)
  <2>1. f \in [1..n -> F]
    OBVIOUS
  <2>2. \A a, b \in 1..n : f[a] = f[b] => a = b
    BY <1>1
  <2>3. \A t \in F : \E s \in 1..n : f[s] = t
    OBVIOUS
  <2>4. QED BY <2>1, <2>2, <2>3 DEF Bijection, Injection, Surjection, IsInjective
<1>3. ExistsBijection(1..n, F)
  BY <1>2 DEF ExistsBijection
<1>4. IsFiniteSet(1..n) /\ Cardinality(1..n) = n /\ n \in Nat
  BY SegmentSize, <1>1
<1>5. QED BY <1>3, <1>4, FS_Bijection
-----------------------------------------------------------------------------
(* The inductive invariant.                                                *)

\* Operations that a coordinator has let in.
Holders(c) ==
    {p \in Operations : ops[p].coordinator = c /\ ops[p].pc \notin {"idle", "queued"}}

Readers(c) == {p \in Holders(c) : ~Exclusive(p)}

\* Operations in the chain of promises of resource k.
Chain(k) ==
    {p \in Operations : /\ ops[p].pc \in {"waitResource", "running"}
                        /\ ~Exclusive(p) /\ ops[p].job.resource = k}

\* What an operation carries fits the phase it is in.
OpsConsistent ==
    \A p \in Operations :
      /\ ops[p].pc = "idle" => ops[p] = IdleOp
      /\ ops[p].pc # "idle" =>
           /\ ops[p].job \in Jobs /\ ops[p].coordinator \in Coordinators
           /\ projects[ops[p].job.project] = ops[p].coordinator
      /\ ops[p].pc \in {"waitResource", "leaving"} => ~Exclusive(p)
      /\ ops[p].previous # None => ops[p].pc = "waitResource"

\* No two projects share a coordinator, and the map holds none that is idle.
MapConsistent ==
    /\ \A i, j \in Projects :
         projects[i] # None /\ projects[i] = projects[j] => i = j
    /\ \A j \in Projects : projects[j] # None => Holders(projects[j]) # {}

\* The counter and the flag of a coordinator are those of its holders.
CountsHolders ==
    \A c \in Coordinators :
      /\ coordinators[c].readerCount = Cardinality(Readers(c))
      /\ coordinators[c].writerActive <=> \E p \in Holders(c) : Exclusive(p)
      /\ \A p \in Holders(c) : Exclusive(p) => Holders(c) = {p}

\* The queue of a coordinator has everyone who waits for it, once, and is empty
\* unless somebody has been let in.
QueueHoldsWaiters ==
    \A c \in Coordinators :
      LET w == coordinators[c].waiters IN
      /\ \A i, j \in DOMAIN w : w[i] = w[j] => i = j
      /\ \A p \in Operations :
           (\E i \in DOMAIN w : w[i] = p)
             <=> ops[p].pc = "queued" /\ ops[p].coordinator = c
      /\ w # <<>> => Holders(c) # {}

ProjectInv ==
    /\ TypeOK
    /\ OpsConsistent
    /\ MapConsistent
    /\ CountsHolders
    /\ QueueHoldsWaiters

\* rank numbers the members of each chain in the order in which they joined:
\* who waits for nobody is the first, the tail is the last, and nobody stands
\* between an operation and the one it waits for.
RanksChain(k, rank) ==
    /\ tails[k] = None => Chain(k) = {}
    /\ tails[k] # None => tails[k] \in Chain(k)
    /\ \A p \in Chain(k) :
         /\ ops[p].previous # None => ops[p].previous \in Chain(k)
         /\ \A q \in Chain(k) \ {p} :
              /\ rank[p] # rank[q]
              /\ ops[p].previous = None => rank[p] < rank[q]
              /\ tails[k] = p => rank[q] < rank[p]
              /\ ops[p].previous = q =>
                   /\ rank[q] < rank[p]
                   /\ \A s \in Chain(k) : ~ (rank[q] < rank[s] /\ rank[s] < rank[p])

ChainsOrdered ==
    \E rank \in [Operations -> Nat] : \A k \in Resources : RanksChain(k, rank)

CoordinatorInv == ProjectInv /\ ChainsOrdered

-----------------------------------------------------------------------------
(* Each step preserves ProjectInv.                                         *)

\* A job is shared or exclusive, and a shared one names a resource.
LEMMA JobShape ==
    ASSUME NEW job \in Jobs
    PROVE  /\ job.mode \in {"shared", "exclusive"}
           /\ job.project \in Projects
           /\ job.mode = "shared" => job.resource \in Resources
BY DEF Jobs

\* A coordinator the map does not hold is as good as new and used by nobody.
LEMMA UnusedCoordinator ==
    ASSUME ProjectInv, NEW c \in Coordinators, \A j \in Projects : projects[j] # c
    PROVE  /\ coordinators[c] = NewCoordinator
           /\ \A p \in Operations : ops[p].coordinator # c
<1>1. \A p \in Operations : ops[p].coordinator # c
  BY JobShape, NoneIsNoValue DEF ProjectInv, OpsConsistent, IdleOp
<1>2. Readers(c) = {} /\ Holders(c) = {}
  BY <1>1 DEF Readers, Holders
<1>3. coordinators[c].readerCount = 0
  BY <1>2, FS_EmptySet DEF ProjectInv, CountsHolders
<1>4. ~coordinators[c].writerActive
  BY <1>2 DEF ProjectInv, CountsHolders
<1>5. coordinators[c].waiters = <<>>
  BY <1>2 DEF ProjectInv, QueueHoldsWaiters
<1>6. coordinators[c] \in Coordinator
  BY DEF ProjectInv, TypeOK
<1>7. QED BY <1>1, <1>3, <1>4, <1>5, <1>6 DEF Coordinator, NewCoordinator

\* A step inside the project lock: nobody arrives at a coordinator or leaves it.
LEMMA InsideProject ==
    ASSUME ProjectInv, TypeOK', OpsConsistent',
           UNCHANGED <<projects, coordinators>>,
           \A p \in Operations :
             /\ ops'[p].job = ops[p].job
             /\ ops'[p].coordinator = ops[p].coordinator
             /\ ops'[p].pc \in {"idle", "queued"} <=> ops[p].pc \in {"idle", "queued"}
             /\ ops'[p].pc = "queued" <=> ops[p].pc = "queued"
    PROVE  ProjectInv'
<1>1. \A c \in Coordinators : Holders(c)' = Holders(c) /\ Readers(c)' = Readers(c)
  BY DEF Holders, Readers, Exclusive
<1>2. \A p \in Operations : Exclusive(p)' <=> Exclusive(p)
  BY DEF Exclusive
<1>3. MapConsistent'
  <2>1. \A j \in Projects : projects[j] # None => projects[j] \in Coordinators
    BY DEF ProjectInv, TypeOK
  <2>2. QED BY <1>1, <2>1 DEF ProjectInv, MapConsistent
<1>4. CountsHolders'
  <2> SUFFICES ASSUME NEW c \in Coordinators
               PROVE  /\ coordinators'[c].readerCount = Cardinality(Readers(c)')
                      /\ coordinators'[c].writerActive
                           <=> \E p \in Holders(c)' : Exclusive(p)'
                      /\ \A p \in Holders(c)' : Exclusive(p)' => Holders(c)' = {p}
    BY DEF CountsHolders
  <2>1. Holders(c)' = Holders(c) /\ Readers(c)' = Readers(c)
    BY <1>1
  <2>2. \A p \in Holders(c) : Exclusive(p)' <=> Exclusive(p)
    BY <1>2 DEF Holders
  <2>3. QED BY <2>1, <2>2 DEF ProjectInv, CountsHolders
<1>5. QueueHoldsWaiters'
  BY <1>1 DEF ProjectInv, QueueHoldsWaiters
<1>6. QED BY <1>3, <1>4, <1>5 DEF ProjectInv

\* Joining the chain of a resource leaves the project lock as it is.
LEMMA ProjectEnterResource ==
    ASSUME ProjectInv, NEW p \in Operations, EnterResource(p)
    PROVE  ProjectInv'
<1>1. ops[p].job.resource \in Resources
  BY JobShape DEF ProjectInv, OpsConsistent, EnterResource, Exclusive
<1>2. TypeOK'
  <2>1. PICK n : n = [ops[p] EXCEPT !.pc = "waitResource", !.previous = tails[ops[p].job.resource]]
    OBVIOUS
  <2>2. ops' = [ops EXCEPT ![p] = n]
    BY <2>1 DEF ProjectInv, TypeOK, EnterResource
  <2>3. ops' \in [Operations ->
           [pc: {"idle", "queued", "granted", "waitResource", "running", "leaving"}, job: Jobs \cup {NoJob},
            coordinator: Coordinators \cup {None}, previous: Operations \cup {None}]]
    <3>1. tails[ops[p].job.resource] \in Operations \cup {None}
      BY <1>1 DEF ProjectInv, TypeOK
    <3>2. ops[p] \in [pc: {"idle", "queued", "granted", "waitResource", "running", "leaving"},
                      job: Jobs \cup {NoJob}, coordinator: Coordinators \cup {None},
                      previous: Operations \cup {None}]
      BY DEF ProjectInv, TypeOK
    <3>3. n \in [pc: {"idle", "queued", "granted", "waitResource", "running", "leaving"},
                 job: Jobs \cup {NoJob}, coordinator: Coordinators \cup {None},
                 previous: Operations \cup {None}]
      BY <2>1, <3>1, <3>2
    <3>4. QED BY <2>2, <3>3 DEF ProjectInv, TypeOK
  <2>4. QED BY <1>1, <2>3 DEF ProjectInv, TypeOK, EnterResource
<1>3. OpsConsistent'
  BY <1>1 DEF ProjectInv, TypeOK, OpsConsistent, EnterResource, Exclusive, IdleOp
<1>4. QED BY <1>2, <1>3, InsideProject DEF ProjectInv, TypeOK, EnterResource

\* Beginning to run leaves the project lock as it is.
LEMMA ProjectRun ==
    ASSUME ProjectInv, NEW p \in Operations, Run(p)
    PROVE  ProjectInv'
<1>1. TypeOK'
  BY DEF ProjectInv, TypeOK, Run
<1>2. OpsConsistent'
  BY DEF ProjectInv, TypeOK, OpsConsistent, Run, Exclusive, IdleOp
<1>3. QED BY <1>1, <1>2, InsideProject DEF ProjectInv, TypeOK, Run

\* Leaving the chain of a resource leaves the project lock as it is.
LEMMA ProjectLeaveResource ==
    ASSUME ProjectInv, NEW p \in Operations, LeaveResource(p)
    PROVE  ProjectInv'
<1>1. \A q \in Operations :
        ops'[q] = IF q = p THEN [ops[p] EXCEPT !.pc = "leaving"]
                  ELSE IF ops[q].previous = p THEN [ops[q] EXCEPT !.previous = None]
                  ELSE ops[q]
  BY DEF LeaveResource
<1>2. TypeOK'
  BY DEF ProjectInv, TypeOK, LeaveResource, TailsAfter
<1>3. OpsConsistent'
  BY <1>1 DEF ProjectInv, TypeOK, OpsConsistent, LeaveResource, Exclusive, IdleOp
<1>4. UNCHANGED <<projects, coordinators>> /\ ops[p].pc = "running"
  BY DEF LeaveResource
<1>5. QED BY <1>1, <1>2, <1>3, <1>4, InsideProject DEF ProjectInv, TypeOK

\* getProject finds the coordinator of the project, or one that is as new.
LEMMA FoundCoordinator ==
    ASSUME ProjectInv, NEW job \in Jobs, NEW c \in Coordinators,
           GetProject(job.project, c)
    PROVE  /\ Found(job.project, c) = coordinators[c]
           /\ \A j \in Projects : projects[j] = c => j = job.project
           /\ projects[job.project] \in {None, c}
<1>1. CASE projects[job.project] = None
  <2>1. \A j \in Projects : projects[j] # c
    BY <1>1 DEF GetProject, InUse
  <2>2. QED BY <1>1, <2>1, UnusedCoordinator DEF Found
<1>2. CASE projects[job.project] # None
  BY <1>2, JobShape DEF GetProject, Found, ProjectInv, MapConsistent
<1>3. QED BY <1>1, <1>2

\* readerCount can count the readers, and is zero when there are none.
LEMMA HoldersFinite ==
    ASSUME NEW c
    PROVE  /\ IsFiniteSet(Holders(c)) /\ IsFiniteSet(Readers(c))
           /\ Cardinality(Readers(c)) \in Nat
           /\ Cardinality(Readers(c)) = 0 <=> Readers(c) = {}
BY FiniteOperations, FS_Subset, FS_EmptySet, FS_CardinalityType DEF Holders, Readers

\* acquireShared and acquireExclusive count or queue the caller, never both.
LEMMA ProjectCall ==
    ASSUME ProjectInv, NEW p \in Operations, NEW job \in Jobs,
           NEW c \in Coordinators, Call(p, job, c)
    PROVE  ProjectInv'
<1> DEFINE C == coordinators[c]
           granted == IF job.mode = "shared" THEN ReadsAtOnce(C) ELSE WritesAtOnce(C)
<1>1. /\ Found(job.project, c) = C
      /\ \A j \in Projects : projects[j] = c => j = job.project
      /\ projects[job.project] \in {None, c}
  BY FoundCoordinator DEF Call
<1>2. /\ ops[p] = IdleOp
      /\ projects' = [projects EXCEPT ![job.project] = c]
      /\ tails' = tails
      /\ coordinators' = [coordinators EXCEPT ![c] =
             IF ~granted THEN [C EXCEPT !.waiters = Append(@, p)]
             ELSE IF job.mode = "shared" THEN [C EXCEPT !.readerCount = @ + 1]
             ELSE [C EXCEPT !.writerActive = TRUE]]
      /\ ops' = [ops EXCEPT ![p] =
             [pc |-> IF granted THEN "granted" ELSE "queued",
              job |-> job, coordinator |-> c, previous |-> None]]
  BY <1>1 DEF Call, ProjectInv, OpsConsistent
<1>3. /\ job.mode \in {"shared", "exclusive"} /\ job.project \in Projects
      /\ C \in Coordinator /\ c # None /\ p # None
  BY JobShape, NoneIsNoValue DEF ProjectInv, TypeOK
<1>4. /\ Exclusive(p)' <=> job.mode = "exclusive"
      /\ \A q \in Operations \ {p} : Exclusive(q)' <=> Exclusive(q)
  BY <1>2 DEF Exclusive, ProjectInv, TypeOK
<1>5. TypeOK'
  <2>1. coordinators' \in [Coordinators -> Coordinator]
    <3>1. [C EXCEPT !.waiters = Append(@, p)] \in Coordinator
      <4>1. C.waiters \in Seq(Operations)
        BY <1>3 DEF Coordinator
      <4>2. Append(C.waiters, p) \in Seq(Operations)
        BY <4>1
      <4>3. QED BY <1>3, <4>2 DEF Coordinator
    <3>2. [C EXCEPT !.readerCount = @ + 1] \in Coordinator
      BY <1>3 DEF Coordinator
    <3>3. [C EXCEPT !.writerActive = TRUE] \in Coordinator
      BY <1>3 DEF Coordinator
    <3>4. coordinators \in [Coordinators -> Coordinator]
      BY DEF ProjectInv, TypeOK
    <3>5. QED BY <1>2, <3>1, <3>2, <3>3, <3>4
  <2>2. ops' \in [Operations ->
         [pc: {"idle", "queued", "granted", "waitResource", "running", "leaving"},
          job: Jobs \cup {NoJob},
          coordinator: Coordinators \cup {None},
          previous: Operations \cup {None}]]
    BY <1>2 DEF ProjectInv, TypeOK
  <2>3. projects' \in [Projects -> Coordinators \cup {None}]
    BY <1>2 DEF ProjectInv, TypeOK
  <2>4. QED BY <1>2, <2>1, <2>2, <2>3 DEF ProjectInv, TypeOK
<1>6. OpsConsistent'
  <2> SUFFICES ASSUME NEW q \in Operations
               PROVE  /\ ops'[q].pc = "idle" => ops'[q] = IdleOp
                      /\ ops'[q].pc # "idle" =>
                           /\ ops'[q].job \in Jobs /\ ops'[q].coordinator \in Coordinators
                           /\ projects'[ops'[q].job.project] = ops'[q].coordinator
                      /\ ops'[q].pc \in {"waitResource", "leaving"} => ~Exclusive(q)'
                      /\ ops'[q].previous # None => ops'[q].pc = "waitResource"
    BY DEF OpsConsistent
  <2>1. CASE q = p
    BY <1>2, <1>3, <2>1 DEF ProjectInv, TypeOK
  <2>2. CASE q # p
    <3>1. ops'[q] = ops[q] /\ (Exclusive(q)' <=> Exclusive(q))
      BY <1>2, <1>4, <2>2 DEF ProjectInv, TypeOK
    <3>2. ops[q].pc # "idle" =>
            projects'[ops[q].job.project] = projects[ops[q].job.project]
      BY <1>1, <1>2, NoneIsNoValue, JobShape DEF ProjectInv, TypeOK, OpsConsistent
    <3>3. QED BY <3>1, <3>2 DEF ProjectInv, OpsConsistent
  <2>3. QED BY <2>1, <2>2
<1>7. \A d \in Coordinators :
        Holders(d)' = IF d = c /\ granted THEN Holders(d) \cup {p} ELSE Holders(d)
  BY <1>2, <1>3 DEF Holders, IdleOp, ProjectInv, TypeOK
<1>8. p \notin Holders(c)
  BY <1>2 DEF Holders, IdleOp
<1>20. \A d \in Coordinators \ {c} :
         /\ coordinators'[d] = coordinators[d]
         /\ Holders(d)' = Holders(d) /\ Readers(d)' = Readers(d)
  <2> SUFFICES ASSUME NEW d \in Coordinators \ {c}
               PROVE  /\ coordinators'[d] = coordinators[d]
                      /\ Holders(d)' = Holders(d) /\ Readers(d)' = Readers(d)
    OBVIOUS
  <2>1. Holders(d)' = Holders(d) /\ p \notin Holders(d)
    BY <1>2, <1>7 DEF Holders, IdleOp
  <2>2. \A q \in Holders(d) : Exclusive(q)' <=> Exclusive(q)
    BY <1>4, <2>1 DEF Holders
  <2>3. QED BY <1>2, <2>1, <2>2 DEF Readers, ProjectInv, TypeOK
<1>21. \A q \in Holders(c) : q # p /\ (Exclusive(q)' <=> Exclusive(q))
  BY <1>4, <1>8 DEF Holders
<1>9. CASE ~granted
  <2>1. Holders(c) # {}
    BY <1>3, <1>9, HoldersFinite
    DEF ReadsAtOnce, WritesAtOnce, ProjectInv, CountsHolders, QueueHoldsWaiters,
        Readers, Coordinator
  <2>2. MapConsistent'
    BY <1>1, <1>2, <1>3, <1>7, <1>9, <2>1 DEF ProjectInv, TypeOK, MapConsistent
  <2>2a. coordinators'[c] = [C EXCEPT !.waiters = Append(C.waiters, p)]
    BY <1>2, <1>9 DEF ProjectInv, TypeOK
  <2>2b. Holders(c)' = Holders(c) /\ Readers(c)' = Readers(c)
    BY <1>7, <1>9, <1>21 DEF Readers
  <2>3. CountsHolders'
    <3> SUFFICES ASSUME NEW d \in Coordinators
                 PROVE  /\ coordinators'[d].readerCount = Cardinality(Readers(d)')
                        /\ coordinators'[d].writerActive
                             <=> \E q \in Holders(d)' : Exclusive(q)'
                        /\ \A q \in Holders(d)' : Exclusive(q)' => Holders(d)' = {q}
      BY DEF CountsHolders
    <3>1. CASE d # c
      <4>1. \A q \in Holders(d) : q # p /\ (Exclusive(q)' <=> Exclusive(q))
        BY <1>2, <1>4, <3>1 DEF Holders, IdleOp
      <4>2. QED BY <3>1, <4>1, <1>20 DEF ProjectInv, CountsHolders
    <3>2. CASE d = c
      <4>1. /\ coordinators'[d].readerCount = C.readerCount
            /\ coordinators'[d].writerActive = C.writerActive
        BY <1>3, <2>2a, <3>2 DEF Coordinator
      <4>2. QED BY <3>2, <4>1, <2>2b, <1>21 DEF ProjectInv, CountsHolders
    <3>3. QED BY <3>1, <3>2
  <2>4. QueueHoldsWaiters'
    <3> SUFFICES ASSUME NEW d \in Coordinators
                 PROVE  LET w == coordinators'[d].waiters IN
                        /\ \A i, j \in DOMAIN w : w[i] = w[j] => i = j
                        /\ \A q \in Operations :
                             (\E i \in DOMAIN w : w[i] = q)
                               <=> ops'[q].pc = "queued" /\ ops'[q].coordinator = d
                        /\ w # <<>> => Holders(d)' # {}
      BY DEF QueueHoldsWaiters
    <3>0. \A q \in Operations \ {p} : ops'[q] = ops[q]
      BY <1>2 DEF ProjectInv, TypeOK
    <3>p. /\ ops'[p].pc = "queued" /\ ops'[p].coordinator = c
          /\ ops[p].pc = "idle" /\ ops[p].coordinator = None
      BY <1>2, <1>9 DEF ProjectInv, TypeOK, IdleOp
    <3>1. CASE d # c
      BY <3>1, <1>3, <1>20, <3>0, <3>p DEF ProjectInv, QueueHoldsWaiters
    <3>2. CASE d = c
      <4> DEFINE w == C.waiters
      <4>1. /\ coordinators'[d].waiters = Append(w, p) /\ w \in Seq(Operations)
        BY <1>3, <2>2a, <3>2 DEF Coordinator
      <4>2. /\ DOMAIN w = 1..Len(w) /\ Len(w) \in Nat
            /\ DOMAIN Append(w, p) = 1..(Len(w) + 1)
            /\ \A i \in 1..Len(w) : Append(w, p)[i] = w[i]
            /\ Append(w, p)[Len(w) + 1] = p
        BY <4>1
      <4>3. \A q \in Operations :
              (\E i \in DOMAIN w : w[i] = q) <=> ops[q].pc = "queued" /\ ops[q].coordinator = c
        BY DEF ProjectInv, QueueHoldsWaiters
      <4>4. \A i \in DOMAIN w : w[i] # p
        BY <4>3, <3>p
      <4>5. \A i, j \in DOMAIN w : w[i] = w[j] => i = j
        BY DEF ProjectInv, QueueHoldsWaiters
      <4> HIDE DEF w
      <4>6. \A i, j \in DOMAIN Append(w, p) : Append(w, p)[i] = Append(w, p)[j] => i = j
        BY <4>2, <4>4, <4>5
      <4>7. ASSUME NEW q \in Operations
            PROVE  (\E i \in DOMAIN Append(w, p) : Append(w, p)[i] = q)
                     <=> ops'[q].pc = "queued" /\ ops'[q].coordinator = d
        <5>1. CASE q = p
          BY <5>1, <4>2, <3>p, <3>2
        <5>2. CASE q # p
          <6>1. (\E i \in DOMAIN Append(w, p) : Append(w, p)[i] = q)
                  <=> (\E i \in DOMAIN w : w[i] = q)
            BY <5>2, <4>2
          <6>2. QED BY <5>2, <6>1, <4>3, <3>0, <3>2
        <5>3. QED BY <5>1, <5>2
      <4>8. QED BY <4>1, <4>6, <4>7, <2>1, <2>2b, <3>2
    <3>3. QED BY <3>1, <3>2
  <2>5. QED BY <1>5, <1>6, <2>2, <2>3, <2>4 DEF ProjectInv
<1>10. CASE granted
  <2>1. MapConsistent'
    BY <1>1, <1>2, <1>3, <1>7, <1>10 DEF ProjectInv, TypeOK, MapConsistent
  <2>2a. /\ coordinators'[c] = IF job.mode = "shared" THEN [C EXCEPT !.readerCount = @ + 1]
                                ELSE [C EXCEPT !.writerActive = TRUE]
         /\ ~C.writerActive
         /\ job.mode = "exclusive" => C.readerCount = 0
    BY <1>2, <1>3, <1>10 DEF ProjectInv, TypeOK, ReadsAtOnce, WritesAtOnce
  <2>2b. Holders(c)' = Holders(c) \cup {p} /\ \A q \in Holders(c) : ~Exclusive(q)
    BY <1>7, <1>10, <2>2a DEF ProjectInv, CountsHolders
  <2>2. CountsHolders'
    <3> SUFFICES ASSUME NEW d \in Coordinators
                 PROVE  /\ coordinators'[d].readerCount = Cardinality(Readers(d)')
                        /\ coordinators'[d].writerActive
                             <=> \E q \in Holders(d)' : Exclusive(q)'
                        /\ \A q \in Holders(d)' : Exclusive(q)' => Holders(d)' = {q}
      BY DEF CountsHolders
    <3>1. CASE d # c
      <4>1. \A q \in Holders(d) : q # p /\ (Exclusive(q)' <=> Exclusive(q))
        BY <1>2, <1>4, <3>1 DEF Holders, IdleOp
      <4>2. QED BY <3>1, <4>1, <1>20 DEF ProjectInv, CountsHolders
    <3>2. CASE d = c /\ job.mode = "shared"
      <4>1. Readers(c)' = Readers(c) \cup {p} /\ p \notin Readers(c)
        BY <1>4, <1>21, <2>2b, <3>2 DEF Readers
      <4>2. Cardinality(Readers(c)') = Cardinality(Readers(c)) + 1
        BY <4>1, HoldersFinite, FS_AddElement
      <4>3. /\ coordinators'[c].readerCount = Cardinality(Readers(c)) + 1
            /\ coordinators'[c].writerActive = FALSE
        BY <1>3, <2>2a, <3>2 DEF Coordinator, ProjectInv, CountsHolders
      <4>4. QED BY <1>4, <1>21, <2>2b, <3>2, <4>2, <4>3
    <3>3. CASE d = c /\ job.mode = "exclusive"
      <4>1. Holders(c) = {}
        <5>1. Readers(c) = Holders(c)
          BY <2>2b DEF Readers
        <5>2. QED BY <3>3, <2>2a, <5>1, HoldersFinite DEF ProjectInv, CountsHolders
      <4>2. Holders(c)' = {p} /\ Readers(c)' = {} /\ Readers(c) = {}
        BY <1>4, <2>2b, <3>3, <4>1 DEF Readers
      <4>3. /\ coordinators'[c].readerCount = 0
            /\ coordinators'[c].writerActive = TRUE
        BY <1>3, <2>2a, <3>3 DEF Coordinator
      <4>4. QED BY <1>4, <3>3, <4>2, <4>3, FS_EmptySet
    <3>4. QED BY <1>3, <3>1, <3>2, <3>3
  <2>3. QueueHoldsWaiters'
    BY <1>2, <1>3, <1>7, <1>10
    DEF ProjectInv, TypeOK, QueueHoldsWaiters, Coordinator, IdleOp
  <2>4. QED BY <1>5, <1>6, <2>1, <2>2, <2>3 DEF ProjectInv
<1>11. QED BY <1>9, <1>10

\* What drain() lets in is an initial segment of the queue.
LEMMA DrainShape ==
    ASSUME NEW C \in Coordinator
    PROVE  \E n \in 0..Len(C.waiters) :
             /\ Drained(C) = 1..n /\ Cardinality(Drained(C)) = n
             /\ n = 0 <=> C.writerActive \/ C.readerCount > 0 \/ C.waiters = <<>>
             /\ n > 0 => \/ n = 1 /\ Exclusive(C.waiters[1])
                         \/ \A i \in 1..n : ~Exclusive(C.waiters[i])
<1> DEFINE w == C.waiters
<1>1. w \in Seq(Operations) /\ Len(w) \in Nat /\ DOMAIN w = 1..Len(w)
  BY DEF Coordinator
<1>2. CASE C.writerActive \/ C.readerCount > 0 \/ w = <<>>
  <2>1. Drained(C) = 1..0
    BY <1>2 DEF Drained
  <2>2. Cardinality(1..0) = 0
    BY SegmentSize
  <2>3. QED BY <1>1, <1>2, <2>1, <2>2
<1>3. CASE ~ (C.writerActive \/ C.readerCount > 0 \/ w = <<>>)
  <2>1. 1 \in 1..Len(w)
    BY <1>1, <1>3
  <2>2. CASE Exclusive(w[1])
    <3>1. Drained(C) = 1..1
      BY <1>3, <2>2 DEF Drained
    <3>2. Cardinality(1..1) = 1
      BY SegmentSize
    <3>3. QED BY <1>3, <2>1, <2>2, <3>1, <3>2
  <2>3. CASE ~Exclusive(w[1])
    <3>1. Drained(C) = LeadingReaders(C)
      BY <1>3, <2>3 DEF Drained
    <3>2. /\ LeadingReaders(C) \in SUBSET (1..Len(w))
          /\ \A i \in LeadingReaders(C) : \A j \in 1..i : j \in LeadingReaders(C)
      <4>1. LeadingReaders(C) \in SUBSET (1..Len(w))
        BY <1>1 DEF LeadingReaders
      <4>2. ASSUME NEW i \in LeadingReaders(C), NEW j \in 1..i
            PROVE  j \in LeadingReaders(C)
        <5>1. i \in 1..Len(w) /\ \A m \in 1..i : ~Exclusive(w[m])
          BY <1>1 DEF LeadingReaders
        <5>2. j \in 1..Len(w) /\ \A m \in 1..j : m \in 1..i
          BY <1>1, <5>1
        <5>3. QED BY <1>1, <5>1, <5>2 DEF LeadingReaders
      <4>3. QED BY <4>1, <4>2
    <3>3. PICK n \in 0..Len(w) : LeadingReaders(C) = 1..n
      <4> HIDE DEF w
      <4>1. QED BY <1>1, <3>2, InitialSegment
    <3>4. 1 \in LeadingReaders(C)
      BY <1>1, <2>1, <2>3 DEF LeadingReaders
    <3>5. n \in Nat /\ n > 0
      BY <1>1, <3>3, <3>4
    <3>6. Cardinality(1..n) = n
      BY <3>5, SegmentSize
    <3>7. \A i \in 1..n : ~Exclusive(w[i])
      <4>1. \A i \in LeadingReaders(C) : i \in 1..i /\ \A j \in 1..i : ~Exclusive(w[j])
        BY <1>1 DEF LeadingReaders
      <4>2. QED BY <3>3, <4>1
    <3>8. QED BY <1>3, <3>1, <3>3, <3>5, <3>6, <3>7
  <2>4. QED BY <2>2, <2>3
<1>4. QED BY <1>2, <1>3

\* What a coordinator is left with when p has been released, before the drain.
LEMMA ReleaseLeavesHolders ==
    ASSUME ProjectInv, NEW p \in Operations, NEW c \in Coordinators, p \in Holders(c)
    PROVE  LET R == ReleasedBy(p, coordinators[c])
               left == Holders(c) \ {p}
           IN  /\ R \in Coordinator /\ R.waiters = coordinators[c].waiters
               /\ ~R.writerActive /\ R.readerCount = Cardinality(left)
               /\ IsFiniteSet(left) /\ Cardinality(left) \in Nat
               /\ Cardinality(left) = 0 <=> left = {}
               /\ \A q \in left : ~Exclusive(q)
               /\ Readers(c) \ {p} = left
<1> DEFINE C == coordinators[c]
           R == ReleasedBy(p, C)
           w == C.waiters
<1>2. C \in Coordinator /\ w \in Seq(Operations)
  BY DEF ProjectInv, TypeOK, Coordinator
<1>3. /\ \A q \in Holders(c) \ {p} : ~Exclusive(q)
      /\ Readers(c) \ {p} = Holders(c) \ {p}
      /\ Exclusive(p) => Holders(c) = {p}
  <2>1. \A q \in Holders(c) : Exclusive(q) => Holders(c) = {q}
    BY DEF ProjectInv, CountsHolders
  <2>2. \A q \in Holders(c) \ {p} : ~Exclusive(q)
    BY <2>1
  <2>3. QED BY <2>1, <2>2 DEF Readers
<1>4. R = [readerCount |-> Cardinality(Holders(c) \ {p}), writerActive |-> FALSE,
           waiters |-> w]
  <2>1. CASE Exclusive(p)
    <3>1. Holders(c) \ {p} = {} /\ Readers(c) = {}
      BY <1>3, <2>1 DEF Readers
    <3>2. C.readerCount = 0 /\ Cardinality(Holders(c) \ {p}) = 0
      BY <3>1, FS_EmptySet DEF ProjectInv, CountsHolders
    <3>3. QED BY <1>2, <2>1, <3>2 DEF ReleasedBy, Coordinator
  <2>2. CASE ~Exclusive(p)
    <3>1. p \in Readers(c) /\ \A q \in Holders(c) : ~Exclusive(q)
      BY <1>3, <2>2 DEF Readers
    <3>2. ~C.writerActive /\ C.readerCount = Cardinality(Readers(c))
      BY <3>1 DEF ProjectInv, CountsHolders
    <3>3. Cardinality(Readers(c) \ {p}) = Cardinality(Readers(c)) - 1
      BY <3>1, HoldersFinite, FS_RemoveElement
    <3>4. QED BY <1>2, <1>3, <2>2, <3>2, <3>3 DEF ReleasedBy, Coordinator
  <2>3. QED BY <2>1, <2>2
<1>5. IsFiniteSet(Holders(c) \ {p}) /\ Cardinality(Holders(c) \ {p}) \in Nat
      /\ (Cardinality(Holders(c) \ {p}) = 0 <=> Holders(c) \ {p} = {})
  BY HoldersFinite, FS_Subset, FS_EmptySet, FS_CardinalityType
<1>6. R \in Coordinator /\ R.waiters = w /\ ~R.writerActive
      /\ R.readerCount = Cardinality(Holders(c) \ {p})
  BY <1>2, <1>4, <1>5 DEF Coordinator
<1>7. QED BY <1>3, <1>5, <1>6

\* Whom the release of p lets in has been waiting for the coordinator of p.
LEMMA WokenAreQueued ==
    ASSUME ProjectInv, NEW p \in Operations, LeaveProject(p)
    PROVE  \E woken \in SUBSET Operations :
             /\ \A q \in woken : /\ ops[q].pc = "queued"
                                  /\ ops[q].coordinator = ops[p].coordinator
             /\ ops' = [q \in Operations |->
                          IF q = p THEN IdleOp
                          ELSE IF q \in woken THEN [ops[q] EXCEPT !.pc = "granted"]
                          ELSE ops[q]]
<1>1. PICK c \in Coordinators : c = ops[p].coordinator
  BY DEF LeaveProject, ProjectInv, OpsConsistent
<1> DEFINE w == coordinators[c].waiters
           R == ReleasedBy(p, coordinators[c])
<1>2. w \in Seq(Operations) /\ DOMAIN w = 1..Len(w) /\ coordinators[c] \in Coordinator
  BY DEF ProjectInv, TypeOK, Coordinator
<1>3. R.waiters = w
  BY <1>2 DEF ReleasedBy, Coordinator
<1>4. Drained(R) \subseteq DOMAIN w
  BY <1>2, <1>3 DEF Drained, LeadingReaders
<1>5. \A i \in DOMAIN w : /\ w[i] \in Operations
                          /\ ops[w[i]].pc = "queued" /\ ops[w[i]].coordinator = c
  BY <1>2 DEF ProjectInv, QueueHoldsWaiters
<1> DEFINE woken == {R.waiters[i] : i \in Drained(R)}
<1>6. ops' = [q \in Operations |->
               IF q = p THEN IdleOp
               ELSE IF q \in woken THEN [ops[q] EXCEPT !.pc = "granted"] ELSE ops[q]]
  BY <1>1 DEF LeaveProject
<1> HIDE DEF w, R
<1>7. woken \in SUBSET Operations /\ \A q \in woken :
        ops[q].pc = "queued" /\ ops[q].coordinator = c
  BY <1>3, <1>4, <1>5
<1> HIDE DEF woken
<1>8. QED BY <1>1, <1>6, <1>7

\* Release and drain keep the counter, the flag, the queue and the map in step.
LEMMA ProjectLeaveProject ==
    ASSUME ProjectInv, NEW p \in Operations, LeaveProject(p)
    PROVE  ProjectInv'
<1>1. PICK c \in Coordinators, j \in Projects :
        /\ c = ops[p].coordinator /\ j = ops[p].job.project /\ projects[j] = c
        /\ p \in Holders(c) /\ c # None
  BY JobShape, NoneIsNoValue
  DEF LeaveProject, ProjectInv, OpsConsistent, Holders
<1> DEFINE C == coordinators[c]
           R == ReleasedBy(p, C)
           w == C.waiters
           D == AfterDrain(R)
<1>2. /\ C \in Coordinator /\ w \in Seq(Operations)
      /\ Len(w) \in Nat /\ DOMAIN w = 1..Len(w)
  BY DEF ProjectInv, TypeOK, Coordinator
<1>3. /\ R \in Coordinator /\ R.waiters = w /\ ~R.writerActive
      /\ R.readerCount = Cardinality(Holders(c) \ {p})
      /\ IsFiniteSet(Holders(c) \ {p}) /\ Cardinality(Holders(c) \ {p}) \in Nat
      /\ Cardinality(Holders(c) \ {p}) = 0 <=> Holders(c) \ {p} = {}
      /\ \A q \in Holders(c) \ {p} : ~Exclusive(q)
      /\ Readers(c) \ {p} = Holders(c) \ {p}
  BY <1>1, ReleaseLeavesHolders
<1>7. PICK n \in 0..Len(w) :
        /\ Drained(R) = 1..n /\ Cardinality(Drained(R)) = n
        /\ n = 0 <=> Holders(c) \ {p} # {} \/ w = <<>>
        /\ n > 0 => \/ n = 1 /\ Exclusive(w[1])
                    \/ \A i \in 1..n : ~Exclusive(w[i])
  <2> HIDE DEF R, w
  <2>1. QED BY <1>3, DrainShape
<1> DEFINE W == {w[i] : i \in 1..n}
           writer == n > 0 /\ Exclusive(w[1])
<1>8. D = [readerCount |-> IF writer THEN Cardinality(Holders(c) \ {p})
                           ELSE Cardinality(Holders(c) \ {p}) + n,
           writerActive |-> writer, waiters |-> SubSeq(w, n + 1, Len(w))]
  BY <1>3, <1>7 DEF AfterDrain
<1>9. /\ coordinators' = [coordinators EXCEPT ![c] = D]
      /\ projects' = [projects EXCEPT ![j] = IF IsIdle(D) THEN None ELSE c]
      /\ ops' = [q \in Operations |->
                   IF q = p THEN IdleOp
                   ELSE IF q \in W THEN [ops[q] EXCEPT !.pc = "granted"] ELSE ops[q]]
      /\ tails' = tails
  <2>1. {R.waiters[i] : i \in Drained(R)} = W
    BY <1>3, <1>7
  <2>2. /\ coordinators' = [coordinators EXCEPT ![c] = D]
        /\ tails' = tails
    BY <1>1 DEF LeaveProject
  <2>3. projects' = [projects EXCEPT ![j] = IF IsIdle(D) THEN None ELSE c]
    <3> HIDE DEF D
    <3>1. projects' = [projects EXCEPT ![j] = IF IsIdle(D) /\ @ = c THEN None ELSE @]
      BY <1>1 DEF LeaveProject, D
    <3>2. QED BY <1>1, <3>1
  <2>4. ops' = [q \in Operations |->
                 IF q = p THEN IdleOp
                 ELSE IF q \in W THEN [ops[q] EXCEPT !.pc = "granted"] ELSE ops[q]]
    <3> HIDE DEF W
    <3>1. ops' = [q \in Operations |->
                   IF q = p THEN IdleOp
                   ELSE IF q \in {R.waiters[i] : i \in Drained(R)}
                        THEN [ops[q] EXCEPT !.pc = "granted"] ELSE ops[q]]
      BY <1>1 DEF LeaveProject
    <3>2. QED BY <2>1, <3>1
  <2>5. QED BY <2>2, <2>3, <2>4
<1>10. \A q \in Operations : (\E i \in DOMAIN w : w[i] = q)
                               <=> ops[q].pc = "queued" /\ ops[q].coordinator = c
  BY DEF ProjectInv, QueueHoldsWaiters
<1>11. \A a, b \in DOMAIN w : w[a] = w[b] => a = b
  BY DEF ProjectInv, QueueHoldsWaiters
<1>12. /\ 1..n \subseteq 1..Len(w) /\ n \in Nat /\ n <= Len(w)
       /\ W \subseteq Operations
       /\ \A q \in W : q # p /\ ops[q].pc = "queued" /\ ops[q].coordinator = c
  <2>1. 1..n \subseteq 1..Len(w) /\ n \in Nat /\ n <= Len(w)
    BY <1>2
  <2>2. W \subseteq Operations
    BY <1>2, <2>1
  <2>3. ops[p].pc # "queued"
    BY <1>1 DEF Holders
  <2>4. QED BY <1>2, <1>10, <2>1, <2>2, <2>3
<1>13. IsFiniteSet(W) /\ Cardinality(W) = n
  <2>1. W = {w[i] : i \in 1..n}
    OBVIOUS
  <2> HIDE DEF w, W
  <2>2. QED BY <1>2, <1>11, <2>1, FrontSize
<1>14. D \in Coordinator
  <2>1. SubSeq(w, n + 1, Len(w)) \in Seq(Operations)
    BY <1>2, <1>12
  <2>2. QED BY <1>3, <1>8, <1>12, <2>1 DEF Coordinator
<1>15. TypeOK'
  <2>1. coordinators' \in [Coordinators -> Coordinator]
    <3> HIDE DEF D
    <3>1. QED BY <1>9, <1>14 DEF ProjectInv, TypeOK
  <2>2. projects' \in [Projects -> Coordinators \cup {None}]
    <3> HIDE DEF D
    <3>1. QED BY <1>9 DEF ProjectInv, TypeOK
  <2>3. ops' \in [Operations ->
         [pc: {"idle", "queued", "granted", "waitResource", "running", "leaving"},
          job: Jobs \cup {NoJob},
          coordinator: Coordinators \cup {None},
          previous: Operations \cup {None}]]
    <3> HIDE DEF W
    <3>1. QED BY <1>9 DEF ProjectInv, TypeOK, IdleOp
  <2>4. QED BY <1>9, <2>1, <2>2, <2>3 DEF ProjectInv, TypeOK
<1> HIDE DEF W, D, R
<1>16. \A q \in Operations :
         /\ q = p => ops'[q] = IdleOp
         /\ q \in W => ops'[q] = [ops[q] EXCEPT !.pc = "granted"]
         /\ q # p /\ q \notin W => ops'[q] = ops[q]
         /\ q # p => /\ Exclusive(q)' <=> Exclusive(q)
                     /\ ops'[q].coordinator = ops[q].coordinator
                     /\ ops'[q].job = ops[q].job
                     /\ ops'[q].previous = ops[q].previous
         /\ q \in W => ops'[q].pc = "granted"
  BY <1>9, <1>12 DEF Exclusive, ProjectInv, TypeOK
<1>22. /\ ops'[p].pc = "idle" /\ ops'[p].coordinator = None
       /\ \A q \in Operations \ {p} :
            /\ ops'[q].coordinator = ops[q].coordinator
            /\ ops'[q].pc = IF q \in W THEN "granted" ELSE ops[q].pc
       /\ p \notin W /\ W \subseteq Operations
       /\ \A q \in W : ops[q].pc = "queued" /\ ops[q].coordinator = c
  <2>1. ops'[p].pc = "idle" /\ ops'[p].coordinator = None
    <3>1. ops'[p] = IdleOp
      BY <1>9
    <3>2. QED BY <3>1 DEF IdleOp
  <2>2. /\ p \notin W /\ W \subseteq Operations
        /\ \A q \in W : ops[q].pc = "queued" /\ ops[q].coordinator = c
    BY <1>12
  <2>3. ASSUME NEW q \in Operations \ {p}
        PROVE  /\ ops'[q].coordinator = ops[q].coordinator
               /\ ops'[q].pc = IF q \in W THEN "granted" ELSE ops[q].pc
    BY <1>16
  <2>4. QED BY <2>1, <2>2, <2>3
<1>23. /\ D.readerCount = IF n > 0 /\ Exclusive(w[1]) THEN Cardinality(Holders(c) \ {p})
                          ELSE Cardinality(Holders(c) \ {p}) + n
       /\ D.writerActive \in BOOLEAN
       /\ D.writerActive <=> n > 0 /\ Exclusive(w[1])
       /\ D.waiters = SubSeq(w, n + 1, Len(w))
  BY <1>8, <1>14 DEF Coordinator
<1> HIDE DEF w, writer
<1>17. /\ Holders(c)' = (Holders(c) \ {p}) \cup W
       /\ \A d \in Coordinators \ {c} :
            /\ coordinators'[d] = coordinators[d]
            /\ Holders(d)' = Holders(d) /\ Readers(d)' = Readers(d)
            /\ \A q \in Holders(d) : Exclusive(q)' <=> Exclusive(q)
  <2>1. Holders(c)' = (Holders(c) \ {p}) \cup W
    BY <1>1, <1>22 DEF Holders
  <2>2. ASSUME NEW d \in Coordinators \ {c}
        PROVE  /\ coordinators'[d] = coordinators[d]
               /\ Holders(d)' = Holders(d) /\ Readers(d)' = Readers(d)
               /\ \A q \in Holders(d) : Exclusive(q)' <=> Exclusive(q)
    <3>1. coordinators'[d] = coordinators[d]
      BY <1>9 DEF ProjectInv, TypeOK
    <3>2. Holders(d)' = Holders(d) /\ p \notin Holders(d)
      BY <1>1, <1>22, NoneIsNoValue DEF Holders
    <3>3. \A q \in Holders(d) : Exclusive(q)' <=> Exclusive(q)
      BY <1>16, <3>2 DEF Holders
    <3>4. QED BY <3>1, <3>2, <3>3 DEF Readers
  <2>3. QED BY <2>1, <2>2
<1>18. coordinators'[c] = D
  BY <1>9 DEF ProjectInv, TypeOK
<1>19. \A q \in (Holders(c) \ {p}) \cup W : Exclusive(q)' <=> Exclusive(q)
  BY <1>12, <1>16 DEF Holders
<1>20. CountsHolders'
  <2> SUFFICES ASSUME NEW d \in Coordinators
               PROVE  /\ coordinators'[d].readerCount = Cardinality(Readers(d)')
                      /\ coordinators'[d].writerActive
                           <=> \E q \in Holders(d)' : Exclusive(q)'
                      /\ \A q \in Holders(d)' : Exclusive(q)' => Holders(d)' = {q}
    BY DEF CountsHolders
  <2>1. CASE d # c
    BY <2>1, <1>17 DEF ProjectInv, CountsHolders
  <2>2. CASE d = c /\ n = 0
    <3>1. W = {}
      BY <2>2 DEF W
    <3>2. Holders(c)' = Holders(c) \ {p} /\ Readers(c)' = Holders(c) \ {p}
      BY <1>3, <1>17, <1>19, <3>1 DEF Readers
    <3>3. D.readerCount = Cardinality(Holders(c) \ {p}) /\ ~D.writerActive
      BY <1>3, <1>23, <2>2
    <3>4. QED BY <1>3, <1>18, <1>19, <2>2, <3>2, <3>3
  <2>3. CASE d = c /\ n > 0 /\ Exclusive(w[1])
    <3>1. n = 1
      BY <1>7, <1>12, <2>3
    <3>2. PICK e \in W : e = w[1] /\ Holders(c)' = {e}
      BY <1>7, <1>17, <3>1 DEF W
    <3>3. Exclusive(e)'
      BY <1>19, <2>3, <3>2
    <3>4. Readers(c)' = {}
      BY <3>2, <3>3 DEF Readers
    <3>5. D.readerCount = 0 /\ D.writerActive
      <4>1. Holders(c) \ {p} = {}
        BY <1>7, <2>3
      <4>2. QED BY <1>3, <1>23, <2>3, <4>1
    <3>6. QED BY <1>18, <2>3, <3>2, <3>3, <3>4, <3>5, FS_EmptySet
  <2>4. CASE d = c /\ n > 0 /\ ~Exclusive(w[1])
    <3>1. \A i \in 1..n : ~Exclusive(w[i])
      BY <1>7, <1>12, <2>4
    <3>2. Holders(c)' = W /\ \A q \in W : ~Exclusive(q)
      BY <1>7, <1>17, <2>4, <3>1 DEF W
    <3>3. Readers(c)' = W
      BY <1>19, <3>2 DEF Readers
    <3>4. D.readerCount = n /\ ~D.writerActive
      <4>1. Holders(c) \ {p} = {}
        BY <1>7, <2>4
      <4>2. QED BY <1>3, <1>12, <1>23, <2>4, <4>1
    <3>5. QED BY <1>13, <1>18, <1>19, <2>4, <3>2, <3>3, <3>4
  <2>5. QED BY <1>12, <2>1, <2>2, <2>3, <2>4
<1>21. QueueHoldsWaiters'
  <2> SUFFICES ASSUME NEW d \in Coordinators
               PROVE  LET v == coordinators'[d].waiters IN
                      /\ \A a, b \in DOMAIN v : v[a] = v[b] => a = b
                      /\ \A q \in Operations :
                           (\E i \in DOMAIN v : v[i] = q)
                             <=> ops'[q].pc = "queued" /\ ops'[q].coordinator = d
                      /\ v # <<>> => Holders(d)' # {}
    BY DEF QueueHoldsWaiters
  <2>1. CASE d # c
    <3>1. \A q \in Operations : (ops'[q].pc = "queued" /\ ops'[q].coordinator = d)
                                  <=> (ops[q].pc = "queued" /\ ops[q].coordinator = d)
      BY <1>1, <1>22, <2>1, NoneIsNoValue
    <3>2. QED BY <2>1, <1>17, <3>1 DEF ProjectInv, QueueHoldsWaiters
  <2>2. CASE d = c
    <3> DEFINE v == SubSeq(w, n + 1, Len(w))
    <3>1. /\ coordinators'[d].waiters = v
          /\ DOMAIN v = 1..(Len(w) - n)
          /\ \A i \in 1..(Len(w) - n) : v[i] = w[n + i] /\ n + i \in 1..Len(w)
      BY <1>2, <1>12, <1>18, <1>23, <2>2
    <3>2. v # <<>> => w # <<>>
      BY <1>2, <1>12
    <3>3. \A q \in Operations : (ops'[q].pc = "queued" /\ ops'[q].coordinator = c)
                                  <=> (ops[q].pc = "queued" /\ ops[q].coordinator = c
                                        /\ q \notin W)
      <4>1. ops[p].pc # "queued"
        BY <1>1 DEF Holders
      <4>2. QED BY <1>22, <4>1
    <3> HIDE DEF v
    <3>4. ASSUME NEW a \in DOMAIN v, NEW b \in DOMAIN v, v[a] = v[b]
          PROVE  a = b
      <4>1. n + a \in DOMAIN w /\ n + b \in DOMAIN w /\ w[n + a] = w[n + b]
        BY <1>2, <3>1, <3>4
      <4>2. a \in Int /\ b \in Int /\ n \in Int /\ n + a = n + b
        BY <1>11, <1>12, <3>1, <4>1
      <4>3. QED BY <4>2
    <3>5. ASSUME NEW q \in Operations
          PROVE  (\E i \in DOMAIN v : v[i] = q)
                   <=> ops'[q].pc = "queued" /\ ops'[q].coordinator = c
      <4>1. ASSUME NEW i \in DOMAIN v, v[i] = q PROVE q \notin W
        <5>1. n + i \in 1..Len(w) /\ w[n + i] = q /\ n + i \notin 1..n
          BY <1>2, <1>12, <3>1, <4>1
        <5>2. QED BY <1>2, <1>11, <1>12, <5>1 DEF W
      <4>2. ASSUME NEW i \in DOMAIN w, w[i] = q, q \notin W
            PROVE  \E m \in DOMAIN v : v[m] = q
        <5>1. i \in 1..Len(w) /\ i > n
          BY <1>2, <1>12, <4>2 DEF W
        <5>2. i - n \in 1..(Len(w) - n) /\ n + (i - n) = i
          BY <1>2, <1>12, <5>1
        <5>3. QED BY <3>1, <4>2, <5>2
      <4>3. (\E i \in DOMAIN v : v[i] = q) => \E i \in DOMAIN w : w[i] = q
        BY <1>2, <3>1
      <4>4. QED BY <1>10, <3>3, <4>1, <4>2, <4>3
    <3>6. w # <<>> => Holders(c)' # {}
      <4>1. CASE n = 0
        BY <1>7, <1>17, <4>1
      <4>2. CASE n > 0
        <5>1. w[1] \in W
          BY <1>12, <4>2 DEF W
        <5>2. QED BY <1>17, <5>1
      <4>3. QED BY <1>12, <4>1, <4>2
    <3>7. QED BY <2>2, <3>1, <3>2, <3>4, <3>5, <3>6
  <2>3. QED BY <2>1, <2>2
<1>24. IsIdle(D) <=> Holders(c)' = {} /\ D.waiters = <<>>
  <2>1. /\ D.readerCount = Cardinality(Readers(c)')
        /\ D.writerActive <=> \E q \in Holders(c)' : Exclusive(q)'
    BY <1>18, <1>20 DEF CountsHolders
  <2>2. IsFiniteSet(Readers(c)') /\ (Cardinality(Readers(c)') = 0 <=> Readers(c)' = {})
    <3>1. IsFiniteSet(Operations)
      BY FiniteOperations
    <3>2. Readers(c)' \subseteq Operations
      BY DEF Readers, Holders
    <3>3. QED BY <3>1, <3>2, FS_Subset, FS_EmptySet
  <2>3. Readers(c)' = {q \in Holders(c)' : ~Exclusive(q)'}
    BY DEF Readers
  <2>4. (Readers(c)' = {} /\ ~ \E q \in Holders(c)' : Exclusive(q)') <=> Holders(c)' = {}
    BY <2>3
  <2>5. QED BY <2>1, <2>2, <2>4 DEF IsIdle
<1>25. IsIdle(D) => \A q \in Operations : ops'[q].pc # "idle" => ops'[q].coordinator # c
  <2> SUFFICES ASSUME IsIdle(D), NEW q \in Operations,
                      ops'[q].pc # "idle", ops'[q].coordinator = c
               PROVE  FALSE
    OBVIOUS
  <2>1. CASE ops'[q].pc = "queued"
    <3>1. \E i \in DOMAIN D.waiters : D.waiters[i] = q
      BY <1>18, <1>21, <2>1 DEF QueueHoldsWaiters
    <3>2. QED BY <1>24, <3>1
  <2>2. CASE ops'[q].pc # "queued"
    BY <1>24, <2>2 DEF Holders
  <2>3. QED BY <2>1, <2>2
<1>26. /\ \A i \in Projects \ {j} : projects'[i] = projects[i]
       /\ projects'[j] = IF IsIdle(D) THEN None ELSE c
  BY <1>9 DEF ProjectInv, TypeOK
<1>27. \A i \in Projects \ {j} : projects[i] # c
  BY <1>1 DEF ProjectInv, MapConsistent
<1>28. MapConsistent'
  <2>1. \A i, k \in Projects : projects'[i] # None /\ projects'[i] = projects'[k] => i = k
    BY <1>1, <1>26, <1>27 DEF ProjectInv, MapConsistent
  <2>2. ASSUME NEW i \in Projects, projects'[i] # None
        PROVE  Holders(projects[i])' # {}
    <3>1. PICK d \in Coordinators : d = projects'[i]
      BY <2>2, <1>15 DEF TypeOK
    <3>2. CASE i # j
      <4>1. d # c /\ d = projects[i] /\ Holders(d)' = Holders(d)
        BY <3>1, <3>2, <1>17, <1>26, <1>27
      <4>2. Holders(d) # {}
        BY <2>2, <3>1, <4>1 DEF ProjectInv, MapConsistent, Holders
      <4>3. QED BY <3>1, <4>1, <4>2 DEF Holders
    <3>3. CASE i = j
      <4>1. d = c /\ ~IsIdle(D)
        BY <2>2, <3>1, <3>3, <1>26
      <4>2. Holders(c)' # {}
        BY <4>1, <1>18, <1>21, <1>24 DEF QueueHoldsWaiters
      <4>3. QED BY <3>1, <4>1, <4>2 DEF Holders
    <3>4. QED BY <3>2, <3>3
  <2>3. QED BY <2>1, <2>2 DEF MapConsistent
<1>29. OpsConsistent'
  <2> SUFFICES ASSUME NEW q \in Operations
               PROVE  /\ ops'[q].pc = "idle" => ops'[q] = IdleOp
                      /\ ops'[q].pc # "idle" =>
                           /\ ops'[q].job \in Jobs /\ ops'[q].coordinator \in Coordinators
                           /\ projects'[ops'[q].job.project] = ops'[q].coordinator
                      /\ ops'[q].pc \in {"waitResource", "leaving"} => ~Exclusive(q)'
                      /\ ops'[q].previous # None => ops'[q].pc = "waitResource"
    BY DEF OpsConsistent
  <2>1. CASE q = p
    BY <2>1, <1>9 DEF IdleOp
  <2>2. CASE q # p
    <3>1. /\ ops'[q].job = ops[q].job /\ ops'[q].previous = ops[q].previous
          /\ Exclusive(q)' <=> Exclusive(q)
          /\ ops'[q].coordinator = ops[q].coordinator
      BY <2>2, <1>16
    <3>2. ops'[q].pc # "idle" => ops[q].pc # "idle"
      BY <2>2, <1>22
    <3>3. ops'[q].pc # "idle" =>
            projects'[ops'[q].job.project] = ops'[q].coordinator
      <4> SUFFICES ASSUME ops'[q].pc # "idle"
                   PROVE  projects'[ops'[q].job.project] = ops'[q].coordinator
        OBVIOUS
      <4>1. /\ projects[ops[q].job.project] = ops[q].coordinator
            /\ ops[q].job.project \in Projects
        BY <3>2, JobShape DEF ProjectInv, OpsConsistent
      <4>2. CASE ops[q].job.project = j
        BY <4>1, <4>2, <1>1, <1>25, <1>26, <3>1
      <4>3. CASE ops[q].job.project # j
        BY <4>1, <4>3, <1>26, <3>1
      <4>4. QED BY <4>2, <4>3
    <3>4. CASE q \in W
      <4>1. ops'[q].pc = "granted" /\ ops[q].pc = "queued"
        BY <1>22, <2>2, <3>4
      <4>2. QED BY <3>1, <3>3, <4>1 DEF ProjectInv, OpsConsistent
    <3>5. CASE q \notin W
      <4>1. ops'[q] = ops[q]
        BY <1>16, <2>2, <3>5
      <4>2. QED BY <3>1, <3>3, <4>1 DEF ProjectInv, OpsConsistent
    <3>6. QED BY <3>4, <3>5
  <2>3. QED BY <2>1, <2>2
<1>30. QED BY <1>15, <1>20, <1>21, <1>28, <1>29 DEF ProjectInv

\* Both maps are empty at first.
LEMMA ProjectInit == Init => ProjectInv
<1> SUFFICES ASSUME Init PROVE ProjectInv
  OBVIOUS
<1>1. \A c \in Coordinators : Holders(c) = {} /\ Readers(c) = {}
  BY DEF Init, Holders, Readers, IdleOp
<1>2. /\ \A j \in Projects : projects[j] = None
      /\ \A c \in Coordinators : coordinators[c] = NewCoordinator
      /\ \A p \in Operations : ops[p] = IdleOp
  BY DEF Init
<1>3. TypeOK
  BY DEF Init, TypeOK, IdleOp, NewCoordinator, Coordinator
<1>4. OpsConsistent
  BY <1>2 DEF OpsConsistent, IdleOp
<1>5. MapConsistent
  BY <1>2 DEF MapConsistent
<1>6. CountsHolders
  <2>1. \A c \in Coordinators :
          coordinators[c].readerCount = 0 /\ ~coordinators[c].writerActive
    BY <1>2 DEF NewCoordinator
  <2>2. QED BY <1>1, <2>1, FS_EmptySet DEF CountsHolders
<1>7. QueueHoldsWaiters
  BY <1>2 DEF QueueHoldsWaiters, NewCoordinator, IdleOp
<1>8. QED BY <1>3, <1>4, <1>5, <1>6, <1>7 DEF ProjectInv

\* A step in which nothing changes.
LEMMA ProjectStutter == ProjectInv /\ UNCHANGED vars => ProjectInv'
<1> SUFFICES ASSUME ProjectInv, UNCHANGED vars PROVE ProjectInv'
  OBVIOUS
<1>1. TypeOK' /\ OpsConsistent'
  BY DEF vars, ProjectInv, TypeOK, OpsConsistent, Exclusive
<1>2. QED BY <1>1, InsideProject DEF vars

\* Each of the five steps, or none.
LEMMA ProjectNext == ProjectInv /\ [Next]_vars => ProjectInv'
<1> SUFFICES ASSUME ProjectInv, [Next]_vars PROVE ProjectInv'
  OBVIOUS
<1>1. ASSUME NEW p \in Operations, NEW job \in Jobs, NEW c \in Coordinators,
             Call(p, job, c)
      PROVE  ProjectInv'
  BY <1>1, ProjectCall
<1>2. ASSUME NEW p \in Operations, EnterResource(p) PROVE ProjectInv'
  BY <1>2, ProjectEnterResource
<1>3. ASSUME NEW p \in Operations, Run(p) PROVE ProjectInv'
  BY <1>3, ProjectRun
<1>4. ASSUME NEW p \in Operations, LeaveResource(p) PROVE ProjectInv'
  BY <1>4, ProjectLeaveResource
<1>5. ASSUME NEW p \in Operations, LeaveProject(p) PROVE ProjectInv'
  BY <1>5, ProjectLeaveProject
<1>6. CASE UNCHANGED vars
  BY <1>6, ProjectStutter
<1>7. QED BY <1>1, <1>2, <1>3, <1>4, <1>5, <1>6 DEF Next, Proceed

\* The counter, the flag, the queue and the map agree with the operations.
THEOREM ProjectInvariant == Spec => []ProjectInv
BY ProjectInit, ProjectNext, PTL DEF Spec

\* The coordinator objects, the two maps and the operations keep their shape:
\* the counter of readers never falls below zero.
THEOREM TypeCorrect == Spec => []TypeOK
<1>1. ProjectInv => TypeOK
  BY DEF ProjectInv
<1>2. QED BY <1>1, ProjectInvariant, PTL

\* An operation's coordinator is the one the map has for its project, so that
\* the deletion of idle coordinators never splits a project between two.
THEOREM CoordinatorStaysInMap == Spec => []CoordinatorOfProject
<1>1. ProjectInv => CoordinatorOfProject
  BY DEF ProjectInv, OpsConsistent, CoordinatorOfProject
<1>2. QED BY <1>1, ProjectInvariant, PTL

-----------------------------------------------------------------------------
(* The chain of promises of each resource.                                 *)

\* A step that leaves the chains alone.
LEMMA ChainsUntouched ==
    ASSUME ChainsOrdered, tails' = tails,
           \A k \in Resources : Chain(k)' = Chain(k),
           \A k \in Resources : \A p \in Chain(k) : ops'[p].previous = ops[p].previous
    PROVE  ChainsOrdered'
<1>1. PICK rank \in [Operations -> Nat] : \A k \in Resources : RanksChain(k, rank)
  BY DEF ChainsOrdered
<1>2. ASSUME NEW k \in Resources PROVE RanksChain(k, rank)'
  <2>1. RanksChain(k, rank)
    BY <1>1
  <2>2. Chain(k)' = Chain(k) /\ \A p \in Chain(k) : ops'[p].previous = ops[p].previous
    OBVIOUS
  <2>3. QED BY <2>1, <2>2 DEF RanksChain
<1>3. QED BY <1>1, <1>2 DEF ChainsOrdered

\* A new caller has not joined a chain yet.
LEMMA ChainsCall ==
    ASSUME ProjectInv, ChainsOrdered, NEW p \in Operations, NEW job \in Jobs,
           NEW c \in Coordinators, Call(p, job, c)
    PROVE  ChainsOrdered'
<1>1. ops[p].pc = "idle" /\ ops'[p].pc \in {"granted", "queued"} /\ tails' = tails
  BY DEF Call, ProjectInv, TypeOK
<1>2. \A q \in Operations \ {p} : ops'[q] = ops[q]
  BY DEF Call, ProjectInv, TypeOK
<1>3. \A k \in Resources : Chain(k)' = Chain(k) /\ p \notin Chain(k)
  BY <1>1, <1>2 DEF Chain, Exclusive
<1>4. \A k \in Resources : \A q \in Chain(k) : ops'[q].previous = ops[q].previous
  BY <1>2, <1>3 DEF Chain
<1>5. QED BY <1>1, <1>3, <1>4, ChainsUntouched

\* Who runs keeps its place in the chain.
LEMMA ChainsRun ==
    ASSUME ProjectInv, ChainsOrdered, NEW p \in Operations, Run(p)
    PROVE  ChainsOrdered'
<1>1. \A q \in Operations : /\ ops'[q].job = ops[q].job
                            /\ ops'[q].previous = ops[q].previous
                            /\ q # p => ops'[q] = ops[q]
  BY DEF Run, ProjectInv, TypeOK
<1>2. /\ ops'[p].pc = "running" /\ tails' = tails
      /\ ~Exclusive(p) => ops[p].pc = "waitResource"
  BY DEF Run, ProjectInv, TypeOK
<1>3. \A k \in Resources : Chain(k)' = Chain(k)
  BY <1>1, <1>2 DEF Chain, Exclusive
<1>4. \A k \in Resources : \A q \in Chain(k) : ops'[q].previous = ops[q].previous
  BY <1>1 DEF Chain
<1>5. QED BY <1>2, <1>3, <1>4, ChainsUntouched

\* Who leaves the project, and whom it wakes, are in no chain.
LEMMA ChainsLeaveProject ==
    ASSUME ProjectInv, ChainsOrdered, NEW p \in Operations, LeaveProject(p)
    PROVE  ChainsOrdered'
<1>1. tails' = tails /\ (ops[p].pc = "leaving" \/ (ops[p].pc = "running" /\ Exclusive(p)))
  <2>1. tails' = tails
    BY DEF LeaveProject
  <2>2. ops[p].pc = "leaving" \/ (ops[p].pc = "running" /\ Exclusive(p))
    BY DEF LeaveProject
  <2>3. QED BY <2>1, <2>2
<1>2. PICK woken \in SUBSET Operations :
        /\ \A q \in woken : ops[q].pc = "queued"
        /\ ops' = [q \in Operations |->
                     IF q = p THEN IdleOp
                     ELSE IF q \in woken THEN [ops[q] EXCEPT !.pc = "granted"]
                     ELSE ops[q]]
  BY WokenAreQueued
<1>3. ops'[p].pc = "idle"
  <2>1. ops'[p] = IdleOp
    BY <1>2
  <2>2. QED BY <2>1 DEF IdleOp
<1>4. ASSUME NEW q \in Operations \ {p}
      PROVE  /\ ops'[q].job = ops[q].job /\ ops'[q].previous = ops[q].previous
             /\ ops'[q].pc \in {"waitResource", "running"}
                  => ops'[q].pc = ops[q].pc
             /\ ops[q].pc \in {"waitResource", "running"}
                  => ops'[q].pc = ops[q].pc
  <2>1. CASE q \in woken
    BY <1>2, <2>1 DEF ProjectInv, TypeOK
  <2>2. CASE q \notin woken
    BY <1>2, <2>2
  <2>3. QED BY <2>1, <2>2
<1>5. \A k \in Resources : Chain(k)' = Chain(k) /\ p \notin Chain(k)
  BY <1>1, <1>3, <1>4 DEF Chain, Exclusive
<1>6. \A k \in Resources : \A q \in Chain(k) : ops'[q].previous = ops[q].previous
  BY <1>4, <1>5 DEF Chain
<1>7. QED BY <1>1, <1>5, <1>6, ChainsUntouched

\* Who joins the chain of a resource becomes its tail, behind everyone in it.
LEMMA ChainsEnterResource ==
    ASSUME ProjectInv, ChainsOrdered, NEW p \in Operations, EnterResource(p)
    PROVE  ChainsOrdered'
<1>1. PICK rank \in [Operations -> Nat] : \A k \in Resources : RanksChain(k, rank)
  BY DEF ChainsOrdered
<1>2. PICK k \in Resources : k = ops[p].job.resource
  BY JobShape DEF ProjectInv, OpsConsistent, EnterResource, Exclusive
<1>3. PICK t \in Operations \cup {None} : t = tails[k]
  BY DEF ProjectInv, TypeOK
<1> DEFINE r == IF t = None THEN 0 ELSE rank[t] + 1
           rank2 == [rank EXCEPT ![p] = r]
<1>4. /\ ops[p].pc = "granted" /\ ops'[p].pc = "waitResource" /\ ops'[p].previous = t
      /\ \A q \in Operations : ops'[q].job = ops[q].job
      /\ \A q \in Operations \ {p} : ops'[q] = ops[q]
      /\ ~Exclusive(p) /\ tails' = [tails EXCEPT ![k] = p]
  BY <1>2, <1>3 DEF EnterResource, ProjectInv, TypeOK
<1>5. /\ Chain(k)' = Chain(k) \cup {p}
      /\ \A m \in Resources \ {k} : Chain(m)' = Chain(m)
      /\ \A m \in Resources : p \notin Chain(m)
  BY <1>2, <1>4 DEF Chain, Exclusive
<1>6. /\ r \in Nat /\ rank2 \in [Operations -> Nat] /\ rank2[p] = r
      /\ \A q \in Operations \ {p} : rank2[q] = rank[q]
      /\ \A q \in Operations : rank[q] \in Nat
  <2>1. r \in Nat
    BY NoneIsNoValue
  <2>2. QED BY <2>1
<1>7. /\ t = None => Chain(k) = {} /\ r = 0
      /\ t # None => t \in Chain(k) /\ r = rank[t] + 1
                      /\ \A q \in Chain(k) \ {t} : rank[q] < rank[t]
  BY <1>1, <1>3 DEF RanksChain
<1>8. \A m \in Resources : Chain(m) \subseteq Operations
  BY DEF Chain
<1> HIDE DEF r, rank2
<1>9. \A q \in Chain(k) : rank2[q] < r
  BY <1>5, <1>6, <1>7, <1>8
<1>10. ASSUME NEW m \in Resources \ {k} PROVE RanksChain(m, rank2)'
  <2>1. /\ tails'[m] = tails[m] /\ Chain(m)' = Chain(m) /\ RanksChain(m, rank)
        /\ \A q \in Chain(m) : rank2[q] = rank[q] /\ ops'[q].previous = ops[q].previous
    BY <1>1, <1>4, <1>5, <1>6, <1>8 DEF ProjectInv, TypeOK
  <2>2. QED BY <2>1 DEF RanksChain
<1>11. RanksChain(k, rank2)'
  <2>1. /\ tails'[k] = p /\ p # None /\ Chain(k)' = Chain(k) \cup {p}
        /\ RanksChain(k, rank) /\ p \notin Chain(k)
        /\ \A q \in Chain(k) : /\ rank2[q] = rank[q] /\ rank[q] < r
                               /\ ops'[q].previous = ops[q].previous
    BY <1>1, <1>4, <1>5, <1>6, <1>8, <1>9, NoneIsNoValue DEF ProjectInv, TypeOK
  <2>2. ASSUME NEW a \in Chain(k) \cup {p}
        PROVE  /\ ops'[a].previous # None => ops'[a].previous \in Chain(k) \cup {p}
               /\ \A q \in (Chain(k) \cup {p}) \ {a} :
                    /\ rank2[a] # rank2[q]
                    /\ ops'[a].previous = None => rank2[a] < rank2[q]
                    /\ tails'[k] = a => rank2[q] < rank2[a]
                    /\ ops'[a].previous = q =>
                         /\ rank2[q] < rank2[a]
                         /\ \A s \in Chain(k) \cup {p} :
                              ~ (rank2[q] < rank2[s] /\ rank2[s] < rank2[a])
    <3>0. \A q \in Chain(k) : rank[q] \in Nat /\ q \in Operations
      BY <1>6, <1>8
    <3>1. CASE a = p
      BY <3>1, <1>3, <1>4, <1>6, <1>7, <2>1, <3>0
    <3>2. CASE a \in Chain(k)
      <4>1. /\ ops[a].previous # None => ops[a].previous \in Chain(k)
            /\ \A q \in Chain(k) \ {a} :
              /\ rank[a] # rank[q]
              /\ ops[a].previous = None => rank[a] < rank[q]
              /\ ops[a].previous = q =>
                   /\ rank[q] < rank[a]
                   /\ \A s \in Chain(k) : ~ (rank[q] < rank[s] /\ rank[s] < rank[a])
        BY <2>1, <3>2 DEF RanksChain
      <4>2. ops'[a].previous # p
        BY <2>1, <3>2, <4>1
      <4>3. QED BY <3>2, <1>6, <2>1, <3>0, <4>1, <4>2
    <3>3. QED BY <3>1, <3>2
  <2>3. QED BY <2>1, <2>2 DEF RanksChain
<1>12. QED BY <1>6, <1>10, <1>11 DEF ChainsOrdered

\* Who leaves a chain has been its first; the next of the chain follows it.
LEMMA ChainsLeaveResource ==
    ASSUME ProjectInv, ChainsOrdered, NEW p \in Operations, LeaveResource(p)
    PROVE  ChainsOrdered'
<1>1. PICK rank \in [Operations -> Nat] : \A k \in Resources : RanksChain(k, rank)
  BY DEF ChainsOrdered
<1>2. PICK k \in Resources : k = ops[p].job.resource
  BY JobShape DEF ProjectInv, OpsConsistent, LeaveResource, Exclusive
<1>3. /\ ops[p].pc = "running" /\ ops[p].previous = None /\ p \in Chain(k)
      /\ ~Exclusive(p) /\ p # None
  BY <1>2, NoneIsNoValue DEF LeaveResource, ProjectInv, OpsConsistent, Chain
<1>4. /\ ops'[p].pc = "leaving"
      /\ \A q \in Operations : ops'[q].job = ops[q].job
      /\ \A q \in Operations \ {p} :
           /\ ops'[q].pc = ops[q].pc
           /\ ops'[q].previous = IF ops[q].previous = p THEN None ELSE ops[q].previous
  BY DEF LeaveResource, ProjectInv, TypeOK
<1>5. \A m \in Resources : tails'[m] = IF tails[m] = p THEN None ELSE tails[m]
  BY DEF LeaveResource, TailsAfter
<1>6. \A m \in Resources : Chain(m)' = Chain(m) \ {p}
  BY <1>4 DEF Chain, Exclusive
<1>7. /\ \A m \in Resources \ {k} : p \notin Chain(m)
      /\ \A m \in Resources : Chain(m) \subseteq Operations
  BY <1>2 DEF Chain
<1>8. \A q \in Operations : rank[q] \in Nat
  OBVIOUS
<1>9. \A q \in Chain(k) \ {p} : rank[p] < rank[q]
  BY <1>1, <1>3 DEF RanksChain
<1>10. ASSUME NEW m \in Resources PROVE RanksChain(m, rank)'
  <2>1. RanksChain(m, rank)
    BY <1>1
  <2>2. tails'[m] = None => Chain(m) \ {p} = {}
    <3>1. CASE tails[m] = p
      <4>1. p \in Chain(m)
        BY <2>1, <3>1, <1>3 DEF RanksChain
      <4>2. \A q \in Chain(m) \ {p} : rank[q] < rank[p] /\ rank[p] < rank[q]
        BY <2>1, <3>1, <4>1, <1>3 DEF RanksChain
      <4>3. \A q \in Chain(m) \ {p} : rank[q] \in Nat /\ rank[p] \in Nat
        BY <1>7, <1>8
      <4>4. QED BY <4>2, <4>3
    <3>2. CASE tails[m] # p
      BY <2>1, <3>2, <1>5 DEF RanksChain
    <3>3. QED BY <3>1, <3>2
  <2>3. tails'[m] # None => tails'[m] \in Chain(m) \ {p}
    BY <2>1, <1>3, <1>5 DEF RanksChain
  <2>4. ASSUME NEW a \in Chain(m) \ {p}
        PROVE  /\ ops'[a].previous # None => ops'[a].previous \in Chain(m) \ {p}
               /\ \A q \in (Chain(m) \ {p}) \ {a} :
                    /\ rank[a] # rank[q]
                    /\ ops'[a].previous = None => rank[a] < rank[q]
                    /\ tails'[m] = a => rank[q] < rank[a]
                    /\ ops'[a].previous = q =>
                         /\ rank[q] < rank[a]
                         /\ \A s \in Chain(m) \ {p} : ~ (rank[q] < rank[s] /\ rank[s] < rank[a])
    <3>1. /\ ops'[a].previous = IF ops[a].previous = p THEN None ELSE ops[a].previous
          /\ tails'[m] = a => tails[m] = a
          /\ a \in Operations /\ a # None
      BY <1>4, <1>5, <1>7, NoneIsNoValue
    <3>2. ops'[a].previous # None => ops'[a].previous \in Chain(m) \ {p}
      BY <2>1, <3>1 DEF RanksChain
    <3>3. ASSUME NEW q \in (Chain(m) \ {p}) \ {a}
          PROVE  /\ rank[a] # rank[q]
                 /\ tails'[m] = a => rank[q] < rank[a]
                 /\ ops'[a].previous = q =>
                      /\ rank[q] < rank[a]
                      /\ \A s \in Chain(m) \ {p} : ~ (rank[q] < rank[s] /\ rank[s] < rank[a])
      <4>1. q \in Operations /\ q # None
        BY <1>7, NoneIsNoValue
      <4>2. QED BY <2>1, <3>1, <4>1 DEF RanksChain
    <3>4. ASSUME NEW q \in (Chain(m) \ {p}) \ {a}, ops'[a].previous = None
          PROVE  rank[a] < rank[q]
      <4>1. CASE ops[a].previous = None
        BY <2>1, <4>1 DEF RanksChain
      <4>2. CASE ops[a].previous = p
        <5>1. p \in Chain(m) /\ m = k
          BY <2>1, <4>2, <1>3, <1>7 DEF RanksChain
        <5>2. ~ (rank[p] < rank[q] /\ rank[q] < rank[a])
          BY <2>1, <4>2, <5>1, <1>3 DEF RanksChain
        <5>3. rank[p] < rank[q] /\ rank[a] # rank[q]
          BY <1>9, <3>3, <5>1
        <5>4. rank[a] \in Nat /\ rank[q] \in Nat /\ rank[p] \in Nat
          BY <1>7, <1>8
        <5>5. QED BY <5>2, <5>3, <5>4
      <4>3. QED BY <3>1, <3>4, <4>1, <4>2
    <3>5. QED BY <3>2, <3>3, <3>4
  <2>5. Chain(m)' = Chain(m) \ {p}
    BY <1>6
  <2>6. QED BY <2>2, <2>3, <2>4, <2>5 DEF RanksChain
<1>11. QED BY <1>1, <1>10 DEF ChainsOrdered

\* There are no chains at first.
LEMMA ChainsInit == Init => ChainsOrdered
<1> SUFFICES ASSUME Init PROVE ChainsOrdered
  OBVIOUS
<1> DEFINE rank == [p \in Operations |-> 0]
<1>1. rank \in [Operations -> Nat]
  OBVIOUS
<1>2. \A k \in Resources : Chain(k) = {} /\ tails[k] = None
  BY DEF Init, Chain, IdleOp
<1>3. \A k \in Resources : RanksChain(k, rank)
  BY <1>2 DEF RanksChain
<1>4. QED BY <1>1, <1>3 DEF ChainsOrdered

\* Each of the five steps keeps the chains in order.
LEMMA ChainsNext == CoordinatorInv /\ [Next]_vars => ChainsOrdered'
<1> SUFFICES ASSUME ProjectInv, ChainsOrdered, [Next]_vars PROVE ChainsOrdered'
  BY DEF CoordinatorInv
<1>1. ASSUME NEW p \in Operations, NEW job \in Jobs, NEW c \in Coordinators,
             Call(p, job, c)
      PROVE  ChainsOrdered'
  BY <1>1, ChainsCall
<1>2. ASSUME NEW p \in Operations, EnterResource(p) PROVE ChainsOrdered'
  BY <1>2, ChainsEnterResource
<1>3. ASSUME NEW p \in Operations, Run(p) PROVE ChainsOrdered'
  BY <1>3, ChainsRun
<1>4. ASSUME NEW p \in Operations, LeaveResource(p) PROVE ChainsOrdered'
  BY <1>4, ChainsLeaveResource
<1>5. ASSUME NEW p \in Operations, LeaveProject(p) PROVE ChainsOrdered'
  BY <1>5, ChainsLeaveProject
<1>6. CASE UNCHANGED vars
  <2>1. \A k \in Resources : Chain(k)' = Chain(k)
    BY <1>6 DEF vars, Chain, Exclusive
  <2>2. QED BY <1>6, <2>1, ChainsUntouched DEF vars
<1>7. QED BY <1>1, <1>2, <1>3, <1>4, <1>5, <1>6 DEF Next, Proceed

\* The locks of the projects and the chains of the resources are in order.
THEOREM CoordinatorInvariant == Spec => []CoordinatorInv
<1>1. Init => CoordinatorInv
  BY ProjectInit, ChainsInit DEF CoordinatorInv
<1>2. CoordinatorInv /\ [Next]_vars => CoordinatorInv'
  BY ProjectNext, ChainsNext DEF CoordinatorInv
<1>3. QED BY <1>1, <1>2, PTL DEF Spec

-----------------------------------------------------------------------------
(* What follows from the invariant.                                        *)

\* No wake-up is lost: behind every queue and every chain there is an operation
\* that has been let in, whose release goes on with it.
THEOREM NoLostWakeUp == Spec => []WaitersHaveAHolder
<1>1. CoordinatorInv => WaitersHaveAHolder
  <2> SUFFICES ASSUME CoordinatorInv PROVE WaitersHaveAHolder
    OBVIOUS
  <2>1. ASSUME NEW c \in Coordinators, coordinators[c].waiters # <<>>
        PROVE  \E p \in Operations :
                 ops[p].coordinator = c /\ ops[p].pc \notin {"idle", "queued"}
    BY <2>1 DEF CoordinatorInv, ProjectInv, QueueHoldsWaiters, Holders
  <2>2. ASSUME NEW p \in Operations, ops[p].previous # None
        PROVE  ops[ops[p].previous].pc \in {"waitResource", "running"}
    <3>1. PICK k \in Resources : k = ops[p].job.resource /\ p \in Chain(k)
      <4>1. ops[p].pc = "waitResource" /\ ~Exclusive(p) /\ ops[p].job \in Jobs
        BY <2>2 DEF CoordinatorInv, ProjectInv, OpsConsistent
      <4>2. ops[p].job.resource \in Resources
        BY <4>1, JobShape DEF Exclusive
      <4>3. QED BY <4>1, <4>2 DEF Chain
    <3>2. ops[p].previous \in Chain(k)
      BY <2>2, <3>1 DEF CoordinatorInv, ChainsOrdered, RanksChain
    <3>3. QED BY <3>2 DEF Chain
  <2>3. QED BY <2>1, <2>2 DEF WaitersHaveAHolder
<1>2. QED BY <1>1, CoordinatorInvariant, PTL

\* The two maps hold nothing for projects and resources nobody works on.
THEOREM MapsForget == Spec => []NothingLeaks
<1>1. CoordinatorInv => NothingLeaks
  <2> SUFFICES ASSUME CoordinatorInv, \A p \in Operations : ops[p].pc = "idle"
               PROVE  /\ \A j \in Projects : projects[j] = None
                      /\ \A k \in Resources : tails[k] = None
    BY DEF NothingLeaks
  <2>1. /\ \A c \in Coordinators : Holders(c) = {}
        /\ \A k \in Resources : Chain(k) = {}
    BY DEF Holders, Chain
  <2>2. \A j \in Projects : projects[j] # None => projects[j] \in Coordinators
    BY DEF CoordinatorInv, ProjectInv, TypeOK
  <2>3. QED BY <2>1, <2>2
             DEF CoordinatorInv, ProjectInv, MapConsistent, ChainsOrdered, RanksChain
<1>2. QED BY <1>1, CoordinatorInvariant, PTL

\* Both maps fit the operations under way.
THEOREM MapsAlwaysFit == Spec => []MapsFit
<1>1. CoordinatorOfProject /\ NothingLeaks => MapsFit
  BY DEF MapsFit
<1>2. QED BY <1>1, CoordinatorStaysInMap, MapsForget, PTL

\* Two operations whose jobs conflict are never let in together.
LEMMA NoConflict ==
    ASSUME CoordinatorInv, NEW p \in Operations, Run(p),
           NEW q \in Operations, ops[q].pc = "running"
    PROVE  ~Conflict(ops[p].job, ops[q].job)
<1>1. /\ ops[p].pc \in {"granted", "waitResource"}
      /\ Exclusive(p) \/ (ops[p].pc = "waitResource" /\ ops[p].previous = None)
      /\ p # q
  BY DEF Run, CoordinatorInv, ProjectInv, OpsConsistent
<1>2. /\ ops[p].job \in Jobs /\ ops[q].job \in Jobs
      /\ projects[ops[p].job.project] = ops[p].coordinator
      /\ projects[ops[q].job.project] = ops[q].coordinator
      /\ ops[p].coordinator \in Coordinators
  BY <1>1 DEF CoordinatorInv, ProjectInv, OpsConsistent
<1>3. CASE ops[p].job.project = ops[q].job.project
           /\ "exclusive" \in {ops[p].job.mode, ops[q].job.mode}
  <2>1. PICK c \in Coordinators : c = ops[p].coordinator
    BY <1>2
  <2>2. p \in Holders(c) /\ q \in Holders(c) /\ (Exclusive(p) \/ Exclusive(q))
    BY <1>1, <1>2, <1>3, <2>1 DEF Holders, Exclusive
  <2>3. QED BY <1>1, <2>2 DEF CoordinatorInv, ProjectInv, CountsHolders
<1>4. CASE /\ ops[p].job.mode = "shared" /\ ops[q].job.mode = "shared"
           /\ ops[p].job.resource = ops[q].job.resource
  <2>1. PICK k \in Resources : k = ops[p].job.resource
    BY <1>2, <1>4, JobShape
  <2>2. p \in Chain(k) /\ q \in Chain(k)
    BY <1>1, <1>4, <2>1 DEF Chain, Exclusive
  <2>3. ops[p].previous = None /\ ops[q].previous = None
    BY <1>1, <1>4 DEF Exclusive, CoordinatorInv, ProjectInv, OpsConsistent
  <2>4. PICK rank \in [Operations -> Nat] : RanksChain(k, rank)
    BY DEF CoordinatorInv, ChainsOrdered
  <2>5. rank[p] < rank[q] /\ rank[q] < rank[p]
    BY <1>1, <2>2, <2>3, <2>4 DEF RanksChain
  <2>6. rank[p] \in Nat /\ rank[q] \in Nat
    OBVIOUS
  <2>7. QED BY <2>5, <2>6
<1>5. QED BY <1>3, <1>4 DEF Conflict

\* Every step of the coordinator is a step its callers expect, or none.
LEMMA AccessStep ==
    ASSUME CoordinatorInv, [Next]_vars
    PROVE  [Access!Next]_([p \in Operations |-> Seen(p)])
<1> DEFINE work == [p \in Operations |-> Seen(p)]
           NoWork == [stage |-> "idle", job |-> NoJob]
<1>0. \A p \in Operations : work[p] = Seen(p)
  OBVIOUS
<1>a. /\ Access!Jobs = Jobs /\ Access!NoJob = NoJob
      /\ \A a, b : Access!Conflict(a, b) <=> Conflict(a, b)
  BY DEF Access!Jobs, Jobs, Access!NoJob, NoJob, Access!Conflict, Conflict
<1>1. ASSUME NEW p \in Operations, \A q \in Operations \ {p} : Seen(q)' = Seen(q)
      PROVE  work' = [work EXCEPT ![p] = Seen(p)']
  BY <1>1
<1>2. ASSUME NEW p \in Operations, NEW job \in Jobs, NEW c \in Coordinators,
             Call(p, job, c)
      PROVE  Access!Next
  <2>1. /\ ops[p].pc = "idle" /\ ops'[p].pc \in {"granted", "queued"}
        /\ ops'[p].job = job
        /\ \A q \in Operations \ {p} : ops'[q] = ops[q]
    BY <1>2 DEF Call, CoordinatorInv, ProjectInv, TypeOK
  <2>2. Seen(p) = NoWork /\ Seen(p)' = [stage |-> "waiting", job |-> job]
    BY <2>1 DEF Seen
  <2>3. \A q \in Operations \ {p} : Seen(q)' = Seen(q)
    BY <2>1 DEF Seen
  <2>4. work' = [work EXCEPT ![p] = [stage |-> "waiting", job |-> job]]
    BY <1>1, <2>2, <2>3
  <2>5. work[p].stage = "idle"
    BY <2>2
  <2>6. QED BY <1>a, <2>4, <2>5 DEF Access!Next, Access!Ask
<1>3. ASSUME NEW p \in Operations, Run(p) PROVE Access!Next
  <2>1. /\ ops[p].pc \in {"granted", "waitResource"} /\ ops'[p].pc = "running"
        /\ ops'[p].job = ops[p].job
        /\ \A q \in Operations \ {p} : ops'[q] = ops[q]
    BY <1>3 DEF Run, CoordinatorInv, ProjectInv, TypeOK
  <2>2. /\ Seen(p) = [stage |-> "waiting", job |-> ops[p].job]
        /\ Seen(p)' = [stage |-> "running", job |-> ops[p].job]
    BY <2>1 DEF Seen
  <2>3. \A q \in Operations \ {p} : Seen(q)' = Seen(q)
    BY <2>1 DEF Seen
  <2>4. work' = [work EXCEPT ![p].stage = "running"]
    <3>1. work' = [work EXCEPT ![p] = Seen(p)']
      BY <1>1, <2>3
    <3>2. Seen(p)' = [Seen(p) EXCEPT !.stage = "running"]
      BY <2>2
    <3>3. work[p] = Seen(p)
      OBVIOUS
    <3>4. QED BY <3>1, <3>2, <3>3
  <2>5. \A q \in Operations : Seen(q).stage = "running" =>
          ops[q].pc = "running" /\ Seen(q).job = ops[q].job
    BY DEF Seen
  <2>6. \A q \in Operations :
          work[q].stage = "running" => ~Conflict(work[p].job, work[q].job)
    BY <1>0, <1>3, <2>2, <2>5, NoConflict
  <2>7. work[p].stage = "waiting"
    BY <2>2
  <2>8. Access!Begin(p)
    BY <1>a, <2>4, <2>6, <2>7 DEF Access!Begin
  <2>9. QED BY <2>8 DEF Access!Next
<1>4. ASSUME NEW p \in Operations, Seen(p).stage = "running", Seen(p)' = NoWork,
             \A q \in Operations \ {p} : Seen(q)' = Seen(q)
      PROVE  Access!Next
  <2>1. work' = [work EXCEPT ![p] = NoWork]
    BY <1>1, <1>4
  <2>2. work[p].stage = "running"
    BY <1>4
  <2>3. Access!End(p)
    BY <1>a, <2>1, <2>2 DEF Access!End
  <2>4. QED BY <2>3 DEF Access!Next
<1>5. ASSUME \A q \in Operations : Seen(q)' = Seen(q) PROVE work' = work
  BY <1>5
<1>6. ASSUME NEW p \in Operations, EnterResource(p) PROVE work' = work
  <2>1. /\ ops[p].pc = "granted" /\ ops'[p].pc = "waitResource"
        /\ ops'[p].job = ops[p].job
        /\ \A q \in Operations \ {p} : ops'[q] = ops[q]
    BY <1>6 DEF EnterResource, CoordinatorInv, ProjectInv, TypeOK
  <2>2. \A q \in Operations : Seen(q)' = Seen(q)
    BY <2>1 DEF Seen
  <2>3. QED BY <1>5, <2>2
<1>7. ASSUME NEW p \in Operations, LeaveResource(p) PROVE Access!Next
  <2>1. /\ ops[p].pc = "running" /\ ops'[p].pc = "leaving"
        /\ \A q \in Operations \ {p} : ops'[q].pc = ops[q].pc /\ ops'[q].job = ops[q].job
    BY <1>7 DEF LeaveResource, CoordinatorInv, ProjectInv, TypeOK
  <2>2. /\ Seen(p).stage = "running" /\ Seen(p)' = NoWork
        /\ \A q \in Operations \ {p} : Seen(q)' = Seen(q)
    BY <2>1 DEF Seen
  <2>3. QED BY <1>4, <2>2
<1>8. ASSUME NEW p \in Operations, LeaveProject(p) PROVE Access!Next \/ work' = work
  <2>1. ops[p].pc = "leaving" \/ ops[p].pc = "running"
    BY <1>8 DEF LeaveProject
  <2>2. PICK woken \in SUBSET Operations :
          /\ \A q \in woken : ops[q].pc = "queued"
          /\ ops' = [q \in Operations |->
                       IF q = p THEN IdleOp
                       ELSE IF q \in woken THEN [ops[q] EXCEPT !.pc = "granted"]
                       ELSE ops[q]]
    BY <1>8, WokenAreQueued DEF CoordinatorInv
  <2>3. ASSUME NEW q \in Operations \ {p} PROVE Seen(q)' = Seen(q)
    <3>1. CASE q \in woken
      <4>1. /\ ops[q].pc = "queued" /\ ops'[q].pc = "granted"
            /\ ops'[q].job = ops[q].job
        BY <2>2, <3>1 DEF CoordinatorInv, ProjectInv, TypeOK
      <4>2. QED BY <4>1 DEF Seen
    <3>2. CASE q \notin woken
      <4>1. ops'[q] = ops[q]
        BY <2>2, <3>2
      <4>2. QED BY <4>1 DEF Seen
    <3>3. QED BY <3>1, <3>2
  <2>4. Seen(p)' = NoWork
    <3>1. ops'[p] = IdleOp
      BY <2>2
    <3>2. QED BY <3>1 DEF Seen, IdleOp
  <2>5. CASE ops[p].pc = "leaving"
    <3>1. Seen(p) = NoWork
      BY <2>5 DEF Seen
    <3>2. QED BY <1>5, <2>3, <2>4, <3>1
  <2>6. CASE ops[p].pc = "running"
    <3>1. Seen(p).stage = "running"
      BY <2>6 DEF Seen
    <3>2. QED BY <1>4, <2>3, <2>4, <3>1
  <2>7. QED BY <2>1, <2>5, <2>6
<1>9. CASE UNCHANGED vars
  <2>1. \A q \in Operations : Seen(q)' = Seen(q)
    BY <1>9 DEF vars, Seen
  <2>2. QED BY <1>5, <2>1
<1>10. QED BY <1>2, <1>3, <1>6, <1>7, <1>8, <1>9 DEF Next, Proceed

\* The coordinator implements what its callers rely on: an exclusive operation
\* runs alone in its project, and no two run on one resource together.
THEOREM CoordinatorImplementsAccess == Spec => ImplementsAccess
<1>1. Init => Access!Init
  BY DEF Init, Access!Init, Access!NoJob, NoJob, Seen, IdleOp
<1>2. CoordinatorInv /\ [Next]_vars => [Access!Next]_([p \in Operations |-> Seen(p)])
  BY AccessStep
<1>3. QED BY <1>1, <1>2, CoordinatorInvariant, PTL DEF Spec, ImplementsAccess, Access!Spec

\* A release lets in the front of the queue of its coordinator, and nobody else.
LEMMA DrainLetsInTheFront ==
    ASSUME ProjectInv, NEW p \in Operations, LeaveProject(p),
           NEW c \in Coordinators, c = ops[p].coordinator
    PROVE  \E n \in 0..Len(coordinators[c].waiters) :
             /\ coordinators'[c].waiters =
                  SubSeq(coordinators[c].waiters, n + 1, Len(coordinators[c].waiters))
             /\ \A q \in Operations :
                  ops'[q].pc = "granted" /\ ops[q].pc # "granted" =>
                    \E m \in 1..n : coordinators[c].waiters[m] = q
<1> DEFINE C == coordinators[c]
           w == C.waiters
           R == ReleasedBy(p, C)
           D == AfterDrain(R)
           woken == {R.waiters[i] : i \in Drained(R)}
<1>1. p \in Holders(c)
  <2>1. ops[p].pc \in {"running", "leaving"}
    BY DEF LeaveProject
  <2>2. QED BY <2>1 DEF Holders
<1>2. R \in Coordinator /\ R.waiters = w
  BY <1>1, ReleaseLeavesHolders
<1>3. PICK n \in 0..Len(w) : Drained(R) = 1..n /\ Cardinality(Drained(R)) = n
  <2> HIDE DEF R, w
  <2>1. QED BY <1>2, DrainShape
<1>4. D.waiters = SubSeq(w, n + 1, Len(w))
  BY <1>2, <1>3 DEF AfterDrain
<1>5. coordinators' = [coordinators EXCEPT ![c] = D]
  BY DEF LeaveProject
<1>6. coordinators'[c] = D
  <2> HIDE DEF D
  <2>1. QED BY <1>5 DEF ProjectInv, TypeOK
<1>7. ops' = [q \in Operations |->
               IF q = p THEN IdleOp
               ELSE IF q \in woken THEN [ops[q] EXCEPT !.pc = "granted"] ELSE ops[q]]
  BY DEF LeaveProject
<1>8. \A q \in woken : \E m \in 1..n : w[m] = q
  BY <1>2, <1>3
<1> HIDE DEF woken, D, R, w
<1>9. ASSUME NEW q \in Operations, ops'[q].pc = "granted", ops[q].pc # "granted"
      PROVE  q \in woken
  <2>1. CASE q = p
    <3>1. ops'[q] = IdleOp
      BY <1>7, <2>1
    <3>2. QED BY <1>9, <3>1 DEF IdleOp
  <2>2. CASE q # p /\ q \notin woken
    BY <1>7, <1>9, <2>2
  <2>3. QED BY <2>1, <2>2
<1>10. QED BY <1>4, <1>6, <1>8, <1>9 DEF w

\* Only its release lets in whoever waits for a coordinator.
LEMMA GrantedByRelease ==
    ASSUME ProjectInv, Next, NEW c \in Coordinators, NEW q \in Operations,
           ops[q].pc # "granted", ops'[q].pc = "granted", ops'[q].coordinator = c,
           NEW i \in DOMAIN coordinators[c].waiters, Exclusive(coordinators[c].waiters[i])
    PROVE  \E p \in Operations : LeaveProject(p) /\ ops[p].coordinator = c
<1>1. PICK p \in Operations :
        (\E job \in Jobs, d \in Coordinators : Call(p, job, d)) \/ Proceed(p)
  BY DEF Next
<1>2. ASSUME NEW job \in Jobs, NEW d \in Coordinators, Call(p, job, d) PROVE FALSE
  <2>1. Found(job.project, d) = coordinators[d]
    BY <1>2, FoundCoordinator DEF Call
  <2>2. /\ q = p /\ d = c
        /\ IF job.mode = "shared" THEN ReadsAtOnce(coordinators[d])
                                  ELSE WritesAtOnce(coordinators[d])
    BY <1>2, <2>1 DEF Call, ProjectInv, TypeOK
  <2>3. CASE job.mode = "shared"
    BY <2>2, <2>3 DEF ReadsAtOnce
  <2>4. CASE job.mode # "shared"
    <3>1. coordinators[c].waiters = <<>>
      BY <2>2, <2>4 DEF WritesAtOnce
    <3>2. QED BY <3>1
  <2>5. QED BY <2>3, <2>4
<1>3. CASE EnterResource(p)
  BY <1>3 DEF EnterResource, ProjectInv, TypeOK
<1>4. CASE Run(p)
  BY <1>4 DEF Run, ProjectInv, TypeOK
<1>5. CASE LeaveResource(p)
  BY <1>5 DEF LeaveResource, ProjectInv, TypeOK
<1>6. CASE LeaveProject(p)
  <2>1. PICK woken \in SUBSET Operations :
          /\ \A r \in woken : /\ ops[r].pc = "queued"
                              /\ ops[r].coordinator = ops[p].coordinator
          /\ ops' = [r \in Operations |->
                       IF r = p THEN IdleOp
                       ELSE IF r \in woken THEN [ops[r] EXCEPT !.pc = "granted"]
                       ELSE ops[r]]
    BY <1>6, WokenAreQueued
  <2>2. q # p
    <3>1. q = p => ops'[q] = IdleOp
      BY <2>1
    <3>2. QED BY <3>1 DEF IdleOp
  <2>3. q \in woken /\ ops'[q].coordinator = ops[q].coordinator
    BY <2>1, <2>2 DEF ProjectInv, TypeOK
  <2>4. QED BY <1>6, <2>1, <2>3
<1>7. QED BY <1>1, <1>2, <1>3, <1>4, <1>5, <1>6 DEF Proceed

\* The queue is fair to writers: who is let in while a writer stays behind in the
\* queue has been in front of it.
THEOREM WritersAreNotOvertaken == Spec => WriterNotOvertaken
<1>1. ASSUME ProjectInv, [Next]_vars, NEW c \in Coordinators,
             NEW i \in DOMAIN coordinators[c].waiters,
             Exclusive(coordinators[c].waiters[i]),
             \E m \in DOMAIN coordinators'[c].waiters :
               coordinators'[c].waiters[m] = coordinators[c].waiters[i],
             NEW q \in Operations,
             ops'[q].pc = "granted" /\ ops'[q].coordinator = c /\ ops[q].pc # "granted"
      PROVE  \E m \in 1..i : coordinators[c].waiters[m] = q
  <2> DEFINE w == coordinators[c].waiters
  <2>1. Next
    BY <1>1 DEF vars
  <2>2. PICK p \in Operations : LeaveProject(p) /\ ops[p].coordinator = c
    BY <1>1, <2>1, GrantedByRelease
  <2>3. PICK n \in 0..Len(w) :
          /\ coordinators'[c].waiters = SubSeq(w, n + 1, Len(w))
          /\ \E m \in 1..n : w[m] = q
    BY <1>1, <2>2, DrainLetsInTheFront
  <2>4. /\ w \in Seq(Operations) /\ DOMAIN w = 1..Len(w) /\ Len(w) \in Nat
        /\ \A a, b \in DOMAIN w : w[a] = w[b] => a = b
    BY <1>1 DEF ProjectInv, TypeOK, Coordinator, QueueHoldsWaiters
  <2>5. PICK m \in DOMAIN SubSeq(w, n + 1, Len(w)) : SubSeq(w, n + 1, Len(w))[m] = w[i]
    BY <1>1, <2>3
  <2>6. i \in 1..Len(w)
    BY <1>1, <2>4
  <2> HIDE DEF w
  <2>7. m \in 1..(Len(w) - n) /\ w[n + m] = w[i] /\ n + m \in 1..Len(w)
    BY <2>3, <2>4, <2>5
  <2>8. n + m = i
    BY <2>4, <2>6, <2>7
  <2>9. \A k \in 1..n : k \in 1..i
    BY <2>3, <2>4, <2>7, <2>8
  <2>10. QED BY <2>3, <2>9 DEF w
<1> DEFINE A == \A c \in Coordinators :
         LET before == coordinators[c].waiters
             after  == coordinators'[c].waiters
         IN  \A i \in DOMAIN before :
               (Exclusive(before[i]) /\ \E m \in DOMAIN after : after[m] = before[i])
                 => \A p \in Operations :
                      (ops'[p].pc = "granted" /\ ops'[p].coordinator = c
                         /\ ops[p].pc # "granted")
                        => \E m \in 1..i : before[m] = p
<1>2. ProjectInv /\ [Next]_vars => [A]_vars
  BY <1>1
<1>3. QED BY <1>2, ProjectInvariant, PTL DEF Spec, WriterNotOvertaken
=============================================================================
