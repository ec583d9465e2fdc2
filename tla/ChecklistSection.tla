--------------------------- MODULE ChecklistSection ---------------------------
(***************************************************************************)
(* One section of a project's evaluation check list                        *)
(* (evaluation-checklist-items.service.ts) and the notification that it    *)
(* has reached 100%.  update and remove read the section, change a row     *)
(* and decide from what they read, with the change applied in memory,      *)
(* whether it was this change that completed the section.  The read and    *)
(* the write are two statements: tests of isChecked take no lock at all,   *)
(* edits of a label and deletions exclude each other per item only.  The   *)
(* notification comes after the write, and may fail when that stands.      *)
(***************************************************************************)
EXTENDS Integers, FiniteSets

CONSTANTS Rows, Raters, MaxRows     \* identifiers; members at work; the cap

VARIABLES row,         \* the rows of the section: isChecked of each
          given,       \* identifiers used so far
          turn,        \* per member, the request under way
          announced    \* what the last step told, and what the section was and became

checklist == <<row, given, turn, announced>>

(* computeSectionPercent is 100: not for no rows; rounding reaches 100 early *)
(* only above the cap of 50 rows.                                            *)
Complete(rows) == DOMAIN rows # {} /\ \A i \in DOMAIN rows : rows[i]

NoTurn == [phase |-> "none"]
AtTurn(m, phase) == turn[m].phase = phase

Undecided == [told |-> FALSE, failed |-> FALSE, before |-> FALSE, after |-> FALSE, now |-> FALSE,
              between |-> {}, since |-> {}]

(* Whoever has read and not yet written has this happen in between, and      *)
(* whoever has written and not yet told the others has it happen since.      *)
Between(m, kind) ==
    [n \in Raters |-> CASE n # m /\ AtTurn(n, "read") -> [turn[n] EXCEPT !.between = @ \cup kind]
                       [] n # m /\ AtTurn(n, "telling") -> [turn[n] EXCEPT !.since = @ \cup kind]
                       [] OTHER -> turn[n]]

-----------------------------------------------------------------------------
(* findById, then findMany: the section as update and remove see it. *)
ReadSection(m) ==
    /\ AtTurn(m, "none")
    /\ \E i \in DOMAIN row, op \in {"check", "uncheck", "label", "remove"} :
          turn' = [turn EXCEPT ![m] = [phase |-> "read", op |-> op, row |-> i, seen |-> row, between |-> {}]]
    /\ announced' = Undecided
    /\ UNCHANGED <<row, given>>

(* The row after a request: a label leaves isChecked as the row has it now.  *)
After(r) == IF r.op = "check" THEN TRUE ELSE IF r.op = "uncheck" THEN FALSE ELSE row[r.row]

\* Variant with the fault of a section compared with itself.
CompletesNow(seen, patched) == Complete(patched)

(* notifySectionIfJustCompleted: the decision, and what is left to do.  *)
JustCompleted(seen, patched) == ~Complete(seen) /\ Complete(patched)

Decide(m, patched, kind) ==
    LET r == turn[m]
        tells == JustCompleted(r.seen, patched)
    IN  /\ turn' = [Between(m, kind) EXCEPT ![m] =
               IF tells THEN [phase |-> "telling", before |-> Complete(row), after |-> Complete(row'),
                              between |-> r.between, since |-> {}]
               ELSE NoTurn]
        /\ announced' = IF tells THEN Undecided
                        ELSE [Undecided EXCEPT !.before = Complete(row), !.after = Complete(row'),
                                               !.now = Complete(row'), !.between = r.between]

(* What an update does to a section: it may close a row or open one again.   *)
Effect(r) == CASE r.op = "check" -> {"closed"} [] r.op = "uncheck" -> {"opened"} [] OTHER -> {}

UpdateRow(m) ==
    /\ AtTurn(m, "read") /\ turn[m].op # "remove" /\ turn[m].row \in DOMAIN row
    /\ LET i == turn[m].row IN
       /\ row' = [row EXCEPT ![i] = After(turn[m])]
       /\ Decide(m, [j \in DOMAIN turn[m].seen |-> IF j = i THEN row'[i] ELSE turn[m].seen[j]], Effect(turn[m]))
    /\ UNCHANGED given

(* A row that is gone counts as removed by this request. *)
RemoveRow(m) ==
    /\ AtTurn(m, "read") /\ turn[m].op = "remove"
    /\ row' = [j \in DOMAIN row \ {turn[m].row} |-> row[j]]
    /\ Decide(m, [j \in DOMAIN turn[m].seen \ {turn[m].row} |-> turn[m].seen[j]], {"removed"})
    /\ UNCHANGED given

(* The notifications of the others.  One of the reads before them may fail,  *)
(* or some of them: the request ends with an error, the row stays as it was  *)
(* written, and nobody tries again, for the section is complete by then.     *)
TellOthers(m) ==
    LET r == turn[m] IN
    /\ AtTurn(m, "telling")
    /\ \E told, failed \in BOOLEAN :
          /\ told \/ failed
          /\ announced' = [told |-> told, failed |-> failed, before |-> r.before, after |-> r.after,
                           now |-> Complete(row), between |-> r.between, since |-> r.since]
    /\ turn' = [turn EXCEPT ![m] = NoTurn]
    /\ UNCHANGED <<row, given>>

(* create: one Serializable transaction; a full section is a 400.  Which new *)
(* identifier the row gets makes no difference.                              *)
CreateRow(m) ==
    /\ AtTurn(m, "none") /\ Cardinality(DOMAIN row) < MaxRows /\ given # Rows
    /\ LET i == CHOOSE j \in Rows : j \notin given
       IN  /\ row' = [j \in DOMAIN row \cup {i} |-> IF j = i THEN FALSE ELSE row[j]]
           /\ given' = given \cup {i}
    /\ turn' = Between(m, {"opened"})
    /\ announced' = Undecided

(* Refused, or failed before the row is written. *)
FailTurn(m) ==
    /\ AtTurn(m, "read")
    /\ turn' = [turn EXCEPT ![m] = NoTurn]
    /\ announced' = Undecided
    /\ UNCHANGED <<row, given>>

-----------------------------------------------------------------------------
ChecklistInit ==
    /\ row = [i \in {} |-> FALSE] /\ given = {}
    /\ turn = [m \in Raters |-> NoTurn]
    /\ announced = Undecided

ChecklistNext == \E m \in Raters :
    ReadSection(m) \/ UpdateRow(m) \/ RemoveRow(m) \/ TellOthers(m) \/ CreateRow(m) \/ FailTurn(m)

ChecklistSpec == ChecklistInit /\ [][ChecklistNext]_checklist

-----------------------------------------------------------------------------
(* The others are told that the section is complete exactly when a change    *)
(* completes it, but for what happens between this request's read and its    *)
(* write, and for an error after the write: a completion goes unannounced    *)
(* only if somebody changed the section meanwhile or the notification failed *)
(* (and then nobody is told of it any more); it is announced twice only if   *)
(* somebody closed or removed a row; and anyone who is told finds the        *)
(* section complete, unless somebody opened or removed a row since the read. *)
CompletionAnnounced ==
    /\ ~announced.told /\ ~announced.before /\ announced.after => announced.between # {} \/ announced.failed
    /\ announced.told /\ announced.before => announced.between \cap {"closed", "removed"} # {}
    /\ announced.told /\ ~announced.now =>
          (announced.between \cup announced.since) \cap {"opened", "removed"} # {}
=============================================================================
