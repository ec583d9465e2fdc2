---------------------------- MODULE ResourceAccess ----------------------------
(***************************************************************************)
(* What the services of the backend rely on when they wrap their work in   *)
(* withProject or withProjectResource                                      *)
(* (src/backend/src/realtime/field-lock-manager.ts): an exclusive          *)
(* operation runs alone in its project, and two operations on one resource *)
(* never run together.                                                     *)
(***************************************************************************)
EXTENDS ResourceJobs

CONSTANT Operations

VARIABLE work      \* what each operation asks for, and whether it has it

Init == work = [p \in Operations |-> [stage |-> "idle", job |-> NoJob]]

Ask(p, job) ==
    /\ work[p].stage = "idle"
    /\ work' = [work EXCEPT ![p] = [stage |-> "waiting", job |-> job]]

Begin(p) ==
    /\ work[p].stage = "waiting"
    /\ \A q \in Operations :
         work[q].stage = "running" => ~Conflict(work[p].job, work[q].job)
    /\ work' = [work EXCEPT ![p].stage = "running"]

End(p) ==
    /\ work[p].stage = "running"
    /\ work' = [work EXCEPT ![p] = [stage |-> "idle", job |-> NoJob]]

Next ==
    \E p \in Operations :
      \/ \E job \in Jobs : Ask(p, job)
      \/ Begin(p)
      \/ End(p)

Spec == Init /\ [][Next]_work
=============================================================================
