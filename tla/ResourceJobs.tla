----------------------------- MODULE ResourceJobs -----------------------------
(* What a caller of withProject (an exclusive job) or withProjectResource    *)
(* (a shared job) asks for.                                                  *)
CONSTANTS Projects, Resources, None

Jobs ==
    [mode: {"shared"}, project: Projects, resource: Resources]
      \cup [mode: {"exclusive"}, project: Projects, resource: {None}]

NoJob == [mode |-> "none", project |-> None, resource |-> None]

\* Two jobs that must not run together.
Conflict(a, b) ==
    \/ a.project = b.project /\ "exclusive" \in {a.mode, b.mode}
    \/ a.mode = "shared" /\ b.mode = "shared" /\ a.resource = b.resource
=============================================================================
