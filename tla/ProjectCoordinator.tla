-------------------------- MODULE ProjectCoordinator --------------------------
(***************************************************************************)
(* ProjectResourceCoordinator and KeyedCoordinator of                      *)
(* src/backend/src/realtime/field-lock-manager.ts: a readers-writer lock   *)
(* per project whose waiters queue in arrival order, and a chain of        *)
(* promises per resource.  JavaScript runs between two awaits without      *)
(* interruption, so one action is the code from one await to the next; a   *)
(* resolved promise lets its operation go on some time later.              *)
(***************************************************************************)
EXTENDS Integers, Sequences, FiniteSets, ResourceJobs

CONSTANTS
    Operations,     \* calls of withProject and withProjectResource under way
    Coordinators    \* ProjectCoordinator objects

ASSUME NoneIsNoValue == None \notin Operations \cup Projects \cup Resources \cup Coordinators
ASSUME FiniteOperations == IsFiniteSet(Operations)

VARIABLES
    projects,       \* Map from project id to coordinator
    coordinators,   \* the fields of every coordinator object
    tails,          \* Map from resource key to the last operation of its chain
    ops             \* where each operation is

vars == <<projects, coordinators, tails, ops>>

-----------------------------------------------------------------------------
Coordinator == [readerCount: Nat, writerActive: BOOLEAN, waiters: Seq(Operations)]

NewCoordinator == [readerCount |-> 0, writerActive |-> FALSE, waiters |-> <<>>]

IdleOp == [pc |-> "idle", job |-> NoJob, coordinator |-> None, previous |-> None]

Exclusive(p) == ops[p].job.mode = "exclusive"

\* Variant with the fault of a reader that does not look at the queue.
IgnoresQueue(c) == ~c.writerActive

\* acquireShared succeeds at once.
ReadsAtOnce(c) ==
    /\ ~c.writerActive
    /\ \A i \in DOMAIN c.waiters : ~Exclusive(c.waiters[i])

\* Variant with the fault of a writer that does not wait for the readers.
IgnoresReaders(c) == ~c.writerActive /\ c.waiters = <<>>

\* acquireExclusive succeeds at once.
WritesAtOnce(c) ==
    /\ ~c.writerActive
    /\ c.readerCount = 0
    /\ c.waiters = <<>>

\* Variant with the fault of a coordinator forgotten while operations wait.
NobodyActive(c) == ~c.writerActive /\ c.readerCount <= 1

IsIdle(c) == ~c.writerActive /\ c.readerCount = 0 /\ c.waiters = <<>>

\* Positions of the readers at the front of the queue.
LeadingReaders(c) ==
    {i \in DOMAIN c.waiters : \A j \in 1..i : ~Exclusive(c.waiters[j])}

\* Positions of the waiters that drain() lets in: the writer at the front of
\* the queue, or else the readers there.
Drained(c) ==
    IF c.writerActive \/ c.readerCount > 0 \/ c.waiters = <<>> THEN {}
    ELSE IF Exclusive(c.waiters[1]) THEN {1}
    ELSE LeadingReaders(c)

AfterDrain(c) ==
    LET n == Cardinality(Drained(c))
        writer == n > 0 /\ Exclusive(c.waiters[1])
    IN  [readerCount |-> IF writer THEN c.readerCount ELSE c.readerCount + n,
         writerActive |-> c.writerActive \/ writer,
         waiters |-> SubSeq(c.waiters, n + 1, Len(c.waiters))]

\* releaseShared or releaseExclusive, before it drains the queue.
ReleasedBy(p, c) ==
    IF Exclusive(p) THEN [c EXCEPT !.writerActive = FALSE]
                    ELSE [c EXCEPT !.readerCount = @ - 1]

\* release() of KeyedCoordinator forgets the chain if nobody has joined it.
TailsAfter(p) ==
    [k \in Resources |-> IF tails[k] = p THEN None ELSE tails[k]]

-----------------------------------------------------------------------------
InUse(c) ==
    \/ \E j \in Projects : projects[j] = c
    \/ \E p \in Operations : ops[p].coordinator = c

\* getProject: the project's coordinator c, a new one if the map has none.
GetProject(j, c) ==
    IF projects[j] = None THEN ~InUse(c) ELSE projects[j] = c

Found(j, c) == IF projects[j] = None THEN NewCoordinator ELSE coordinators[c]

\* getProject and acquireShared or acquireExclusive, up to the first await.
Call(p, job, c) ==
    LET found   == Found(job.project, c)
        granted == IF job.mode = "shared" THEN ReadsAtOnce(found)
                                          ELSE WritesAtOnce(found)
    IN  /\ ops[p].pc = "idle"
        /\ GetProject(job.project, c)
        /\ projects' = [projects EXCEPT ![job.project] = c]
        /\ coordinators' = [coordinators EXCEPT ![c] =
             IF ~granted THEN [found EXCEPT !.waiters = Append(@, p)]
             ELSE IF job.mode = "shared" THEN [found EXCEPT !.readerCount = @ + 1]
             ELSE [found EXCEPT !.writerActive = TRUE]]
        /\ ops' = [ops EXCEPT ![p] =
             [pc |-> IF granted THEN "granted" ELSE "queued",
              job |-> job, coordinator |-> c, previous |-> None]]
        /\ UNCHANGED tails

\* KeyedCoordinator.acquire: the operation joins the chain of its resource.
EnterResource(p) ==
    LET k == ops[p].job.resource
    IN  /\ ops[p].pc = "granted"
        /\ ~Exclusive(p)
        /\ ops' = [ops EXCEPT ![p].pc = "waitResource", ![p].previous = tails[k]]
        /\ tails' = [tails EXCEPT ![k] = p]
        /\ UNCHANGED <<projects, coordinators>>

\* The awaited promise is resolved: the operation passed by the caller begins.
Run(p) ==
    /\ \/ ops[p].pc = "granted" /\ Exclusive(p)
       \/ ops[p].pc = "waitResource" /\ ops[p].previous = None
    /\ ops' = [ops EXCEPT ![p].pc = "running"]
    /\ UNCHANGED <<projects, coordinators, tails>>

\* The operation returns or throws: the promise the next of the chain awaits is
\* resolved, then the project lock is released after another await.
LeaveResource(p) ==
    /\ ops[p].pc = "running"
    /\ ~Exclusive(p)
    /\ ops' = [q \in Operations |->
                 IF q = p THEN [ops[p] EXCEPT !.pc = "leaving"]
                 ELSE IF ops[q].previous = p THEN [ops[q] EXCEPT !.previous = None]
                 ELSE ops[q]]
    /\ tails' = TailsAfter(p)
    /\ UNCHANGED <<projects, coordinators>>

\* The finally block of runProject or runProjectResource: release, drain, and
\* forget the coordinator if it is idle and still the one of the map.
LeaveProject(p) ==
    LET c        == ops[p].coordinator
        j        == ops[p].job.project
        released == ReleasedBy(p, coordinators[c])
        drained  == AfterDrain(released)
        woken    == {released.waiters[i] : i \in Drained(released)}
    IN  /\ \/ ops[p].pc = "running" /\ Exclusive(p)
           \/ ops[p].pc = "leaving"
        /\ coordinators' = [coordinators EXCEPT ![c] = drained]
        /\ projects' = [projects EXCEPT
                          ![j] = IF IsIdle(drained) /\ @ = c THEN None ELSE @]
        /\ ops' = [q \in Operations |->
                     IF q = p THEN IdleOp
                     ELSE IF q \in woken THEN [ops[q] EXCEPT !.pc = "granted"]
                     ELSE ops[q]]
        /\ UNCHANGED tails

-----------------------------------------------------------------------------
Init ==
    /\ projects = [j \in Projects |-> None]
    /\ coordinators = [c \in Coordinators |-> NewCoordinator]
    /\ tails = [k \in Resources |-> None]
    /\ ops = [p \in Operations |-> IdleOp]

Proceed(p) ==
    \/ EnterResource(p)
    \/ Run(p)
    \/ LeaveResource(p)
    \/ LeaveProject(p)

Next ==
    \E p \in Operations :
      \/ \E job \in Jobs, c \in Coordinators : Call(p, job, c)
      \/ Proceed(p)

Spec == Init /\ [][Next]_vars

\* The event loop runs every continuation whose promise is resolved, and the
\* operations given to the coordinator settle.
LiveSpec == Spec /\ \A p \in Operations : WF_vars(Proceed(p))

-----------------------------------------------------------------------------
(* What must hold of the coordinator.                                      *)

TypeOK ==
    /\ projects \in [Projects -> Coordinators \cup {None}]
    /\ coordinators \in [Coordinators -> Coordinator]
    /\ tails \in [Resources -> Operations \cup {None}]
    /\ ops \in [Operations ->
         [pc: {"idle", "queued", "granted", "waitResource", "running", "leaving"},
          job: Jobs \cup {NoJob},
          coordinator: Coordinators \cup {None},
          previous: Operations \cup {None}]]

\* The refinement mapping: what a caller of the coordinator can tell.
Seen(p) ==
    IF ops[p].pc \in {"idle", "leaving"} THEN [stage |-> "idle", job |-> NoJob]
    ELSE [stage |-> IF ops[p].pc = "running" THEN "running" ELSE "waiting",
          job |-> ops[p].job]

Access == INSTANCE ResourceAccess WITH work <- [p \in Operations |-> Seen(p)]

\* The coordinator implements the exclusion its callers rely on: a membership
\* change runs alone in its project, and two edits of a resource never overlap.
ImplementsAccess == Access!Spec

\* An operation never works with a coordinator the map has dropped, which would
\* let a later caller in beside it through a fresh one.
CoordinatorOfProject ==
    \A p \in Operations : ops[p].pc # "idle" =>
      projects[ops[p].job.project] = ops[p].coordinator

\* No lost wake-up: whoever waits, waits for somebody who will release.
WaitersHaveAHolder ==
    /\ \A c \in Coordinators : coordinators[c].waiters # <<>> =>
         \E p \in Operations :
           /\ ops[p].coordinator = c
           /\ ops[p].pc \notin {"idle", "queued"}
    /\ \A p \in Operations : ops[p].previous # None =>
         ops[ops[p].previous].pc \in {"waitResource", "running"}

\* Nothing is left behind: with no operation under way both maps are empty.
NothingLeaks ==
    (\A p \in Operations : ops[p].pc = "idle") =>
      /\ \A j \in Projects : projects[j] = None
      /\ \A k \in Resources : tails[k] = None

\* The two maps fit what is under way: they forget nothing that is in use and
\* keep nothing that is not.
MapsFit == CoordinatorOfProject /\ NothingLeaks

\* Nobody who comes after a waiting writer gets the project before it.
WriterNotOvertaken ==
    [][\A c \in Coordinators :
         LET before == coordinators[c].waiters
             after  == coordinators'[c].waiters
         IN  \A i \in DOMAIN before :
               (Exclusive(before[i]) /\ \E m \in DOMAIN after : after[m] = before[i])
                 => \A p \in Operations :
                      (ops'[p].pc = "granted" /\ ops'[p].coordinator = c
                         /\ ops[p].pc # "granted")
                        => \E m \in 1..i : before[m] = p]_vars

\* Neither readers nor writers starve, and no chain of promises blocks.
EveryOperationRuns ==
    \A p \in Operations :
      ops[p].pc \in {"queued", "granted", "waitResource"} ~> ops[p].pc = "running"
=============================================================================
