------------------------------ MODULE BoardCopy ------------------------------
(***************************************************************************)
(* The Kanban page of one browser (kanban.tsx, KanbanBoard.tsx) and its    *)
(* copy of the board (tasksReducer.ts), fed by its own gestures, by the    *)
(* answers to its requests and by the events of the backend.               *)
(*                                                                         *)
(* The board itself is ColumnBoard, which TaskBoard implements: a request  *)
(* commits one of its changes.  After that the backend emits task:moved,   *)
(* reads the task again, and emits task:created or task:updated; other     *)
(* requests interleave between any two of these.  A socket delivers events *)
(* in the order of emission; answers to requests travel on their own.      *)
(*                                                                         *)
(* Bounds: this browser has one request in flight, everybody else another; *)
(* no new request starts while more than MaxQueue events wait for this     *)
(* browser, nor on a page that has lost track of the board (inexact).      *)
(***************************************************************************)
EXTENDS ColumnBoard, FiniteSets

CONSTANTS None,     \* no task, no column
          Turn,     \* the place of each column in the enum TaskStatus
          MaxQueue

ASSUME NoneAssumption ==
    /\ None \notin Tasks /\ None \notin Columns /\ None \notin Nat
    /\ None \notin [status : Columns, index : Nat] /\ None \notin [Columns -> Seq(Tasks)]

VARIABLES copy,     \* the reducer's state: cards in the order of the array
          drag,     \* the gesture in progress: drag_origin and what it began with
          call,     \* requests: this browser's and somebody else's
          events,   \* emitted and not yet delivered to this browser
          inexact   \* history: something happened that the copy does not follow

vars == <<board, copy, drag, call, events, inexact>>

Callers == {"me", "other"}

-----------------------------------------------------------------------------
(* tasksReducer.ts.  A column is shown in the order of its ranks, cards with *)
(* one rank in the order of the array (byRank, a stable sort).               *)
Shown(s, c) == {k \in DOMAIN s : s[k].status = c}
Above(s, k) == {j \in Shown(s, s[k].status) :
                  s[j].rank < s[k].rank \/ (s[j].rank = s[k].rank /\ j < k)}

(* selectColumnTasks, for every column. *)
View(s) ==
    [c \in Columns |->
        [i \in 1 .. Cardinality(Shown(s, c)) |->
            s[CHOOSE k \in Shown(s, c) : Cardinality(Above(s, k)) = i - 1].task]]

InCopy(s, t) == \E k \in DOMAIN s : s[k].task = t
Index(s, t) == CHOOSE k \in DOMAIN s : s[k].task = t
PlaceOf(s, t) == [status |-> s[Index(s, t)].status, index |-> Cardinality(Above(s, Index(s, t)))]

ReindexStatus(s, c) ==
    [k \in DOMAIN s |-> IF s[k].status = c THEN [s[k] EXCEPT !.rank = Cardinality(Above(s, k))] ELSE s[k]]

TaskCreated(s, card) ==
    IF InCopy(s, card.task) THEN s ELSE ReindexStatus(Append(s, card), card.status)

TaskUpdated(s, card) ==
    IF ~InCopy(s, card.task) THEN s
    ELSE LET k == Index(s, card.task)
             next == [s EXCEPT ![k] = card]
         IN  IF card.status = s[k].status THEN next
             ELSE ReindexStatus(ReindexStatus(next, s[k].status), card.status)

\* Variant with the fault of positions that count the moved card.
TaskMovedCounted(s, t, c, i) ==
    IF ~InCopy(s, t) THEN s
    ELSE LET k == Index(s, t)
         IN  [j \in DOMAIN s |->
                IF j = k THEN [s[j] EXCEPT !.status = c, !.rank = i]
                ELSE IF s[j].status = c
                     THEN [s[j] EXCEPT !.rank = Cardinality(Above(s, j))
                                               + (IF Cardinality(Above(s, j)) >= i THEN 1 ELSE 0)]
                ELSE s[j]]

(* The destination without the card, the card put in at the clamped index,   *)
(* and both columns numbered afresh.                                         *)
TaskMoved(s, t, c, i) ==
    IF ~InCopy(s, t) THEN s
    ELSE LET k == Index(s, t)
             Rest(j) == Above(s, j) \ {k}
             at == IF i > Cardinality(Shown(s, c) \ {k}) THEN Cardinality(Shown(s, c) \ {k}) ELSE i
         IN  [j \in DOMAIN s |->
                IF j = k THEN [s[j] EXCEPT !.status = c, !.rank = at]
                ELSE IF s[j].status = c
                     THEN [s[j] EXCEPT !.rank = Cardinality(Rest(j)) + (IF Cardinality(Rest(j)) >= at THEN 1 ELSE 0)]
                ELSE IF s[j].status = s[k].status THEN [s[j] EXCEPT !.rank = Cardinality(Rest(j))]
                ELSE s[j]]

TaskDeleted(s, t) ==
    IF ~InCopy(s, t) THEN s
    ELSE ReindexStatus(RemoveAt(s, Index(s, t)), s[Index(s, t)].status)

(* The handlers of the four events. *)
Applied(s, e) ==
    CASE e.type = "created" -> TaskCreated(s, e.card)
      [] e.type = "updated" -> TaskUpdated(s, e.card)
      [] e.type = "moved"   -> TaskMoved(s, e.card.task, e.card.status, e.card.rank)
      [] e.type = "deleted" -> TaskDeleted(s, e.card.task)

-----------------------------------------------------------------------------
(* The backend's side: where a card is, and the rows of GET /tasks. *)
OnBoard(t) == t \in Card(board)
Where(t) == LET c == CHOOSE c \in Columns : t \in ToSet(board[c])
            IN  [task |-> t, status |-> c, rank |-> (CHOOSE i \in DOMAIN board[c] : board[c][i] = t) - 1]

(* The rows of GET /tasks, ordered by status, then by rank. *)
Precedes(a, b) == IF a.status = b.status THEN a.rank < b.rank ELSE Turn[a.status] < Turn[b.status]
Listed(rows) ==
    {s \in [1 .. Cardinality(rows) -> rows] :
        ToSet(s) = rows /\ \A i, j \in DOMAIN s : i < j => Precedes(s[i], s[j])}
Rows == Listed({Where(t) : t \in Card(board)})

NoCall == [op |-> "none"]
NoDrag == [task |-> None]

At(who, phase) == call[who].op # "none" /\ call[who].phase = phase
Clamped(t, c, i) == IF i = None \/ i > Len(Others(board, c, t)) THEN Len(Others(board, c, t)) ELSE i

(* Things that change the board or the copy and are not over. *)
Quiet == \A who \in Callers : call[who] = NoCall
AllQuiet == Quiet /\ events = <<>> /\ drag = NoDrag

(* A request: its change, and what the copy showed before this browser's own *)
(* optimistic change, None as soon as anything else has reached the copy.    *)
NewCall(op, t, c, i, from, before) ==
    [op |-> op, phase |-> "sent", task |-> t, status |-> c, rank |-> i, committed |-> FALSE,
     card |-> None, from |-> from, before |-> before]

(* What other requests and gestures may be under way makes the outcome of    *)
(* this one uncertain for the copy.                                          *)
Begin(who, new, overlap) ==
    /\ ~inexact /\ call[who] = NoCall /\ Len(events) <= MaxQueue
    /\ call' = [call EXCEPT ![who] = new]
    /\ inexact' = (inexact \/ overlap)
Busy(who) == events # <<>> \/ \E w \in Callers \ {who} : call[w] # NoCall

(* A new task has an id that is in use nowhere. *)
Unused(t, who) ==
    /\ ~OnBoard(t) /\ ~InCopy(copy, t)
    /\ call[who] # NoCall => call[who].task # t
    /\ \A k \in DOMAIN events : events[k].card.task # t

(* Somebody else's request: a person on another browser or a machine. *)
OtherAsks == \E t \in Tasks :
    /\ \/ /\ Unused(t, "me")
          /\ \E c \in Columns, i \in 0..1 :
                Begin("other", NewCall("create", t, c, i, None, None), Busy("other") \/ drag # NoDrag)
       \/ /\ OnBoard(t)
          /\ \/ \E c \in Columns, i \in {0, 1} :
                   Begin("other", NewCall("update", t, c, i, None, None), Busy("other") \/ drag # NoDrag)
             \/ Begin("other", NewCall("update", t, None, None, None, None), Busy("other") \/ drag # NoDrag)
             \/ Begin("other", NewCall("delete", t, None, None, None, None), Busy("other") \/ drag # NoDrag)
    /\ UNCHANGED <<board, copy, drag, events>>

(* The transaction: createAs, moveTask or removeAs.  A create above other    *)
(* cards is followed inexactly: task_created appends the card and sorts by   *)
(* rank, which leaves it below the card whose rank it got.                   *)
Commit(who) ==
    /\ At(who, "sent")
    /\ LET r == call[who]
           c == IF r.status # None \/ ~OnBoard(r.task) THEN r.status ELSE Where(r.task).status
           i == Clamped(r.task, c, r.rank)
           moving == \/ r.status # None /\ r.status # Where(r.task).status
                     \/ r.rank # None /\ r.rank # Where(r.task).rank
       IN  \/ /\ r.op = "create"
              /\ Insert(r.task, c, i)
              /\ inexact' = (inexact \/ i < Len(board[c]))
              /\ call' = [call EXCEPT ![who].phase = "written", ![who].committed = TRUE]
           \/ /\ r.op = "update" /\ OnBoard(r.task) /\ moving
              /\ Move(r.task, c, i)
              /\ call' = [call EXCEPT ![who].phase = "moved", ![who].committed = TRUE,
                                      ![who].card = [task |-> r.task, status |-> c, rank |-> i]]
              /\ UNCHANGED inexact
           \/ /\ r.op = "update" /\ OnBoard(r.task) /\ ~moving
              /\ call' = [call EXCEPT ![who].phase = "written"]
              /\ UNCHANGED <<board, inexact>>
           \/ /\ r.op = "delete"
              /\ TakeOut(r.task)
              /\ call' = [call EXCEPT ![who].phase = "deleted", ![who].committed = TRUE,
                                      ![who].card = [task |-> r.task, status |-> None, rank |-> 0]]
              /\ UNCHANGED inexact
    /\ UNCHANGED <<copy, drag, events>>

Emit(type, card) == events' = Append(events, [type |-> type, card |-> card])

(* The continuation of a move's transaction emits task:moved. *)
EmitMoved(who) ==
    /\ At(who, "moved")
    /\ Emit("moved", call[who].card)
    /\ call' = [call EXCEPT ![who].phase = "written", ![who].card = None]
    /\ UNCHANGED <<board, copy, drag, inexact>>

(* findByIdForProject; the task may be gone again, a 404 after the commit.   *)
ReadBack(who) ==
    /\ At(who, "written") /\ OnBoard(call[who].task)
    /\ call' = [call EXCEPT ![who].phase = "read", ![who].card = Where(call[who].task)]
    /\ UNCHANGED <<board, copy, drag, events, inexact>>

Answered(who) == IF who = "me" THEN [call EXCEPT ![who].phase = "answered", ![who].before = None] ELSE [call EXCEPT ![who] = NoCall]

EmitResult(who) ==
    /\ call[who].op # "none"
    /\ \/ call[who].phase = "read" /\ Emit(IF call[who].op = "create" THEN "created" ELSE "updated", call[who].card)
       \/ call[who].phase = "deleted" /\ Emit("deleted", call[who].card)
    /\ call' = Answered(who)
    /\ UNCHANGED <<board, copy, drag, inexact>>

(* A conflict, a validation, a notification that cannot be written: the      *)
(* request fails before its commit or between the commit and its event.      *)
Fail(who) ==
    /\ At(who, "sent") \/ At(who, "written")
    /\ \E answer \in IF who = "me" THEN {"409", "error"} ELSE {"error"} :
          /\ call' = IF who = "me" THEN [call EXCEPT ![who].phase = answer, ![who].committed = FALSE] ELSE [call EXCEPT ![who] = NoCall]
          /\ inexact' = (inexact \/ (call[who].committed /\ (call[who].op = "create" \/ answer = "error")))
    /\ UNCHANGED <<board, copy, drag, events>>

-----------------------------------------------------------------------------
(* Whatever reaches the copy from elsewhere disturbs what was begun before.  *)

Deliver ==
    /\ events # <<>>
    /\ copy' = Applied(copy, Head(events))
    /\ events' = Tail(events)
    /\ call' = IF call["me"] = NoCall THEN call ELSE [call EXCEPT !["me"].before = None]
    /\ drag' = IF drag = NoDrag THEN drag ELSE [drag EXCEPT !.before = None]
    /\ UNCHANGED <<board, inexact>>

(* handleDragStart. *)
DragStart == \E t \in Tasks :
    /\ ~inexact /\ drag = NoDrag /\ call["me"] = NoCall /\ InCopy(copy, t)
    /\ drag' = [task |-> t, from |-> PlaceOf(copy, t), before |-> View(copy)]
    /\ inexact' = (inexact \/ Busy("me"))
    /\ UNCHANGED <<board, copy, call, events>>

(* handleDragOver: the card is shown in another column it crosses. *)
DragOver ==
    /\ drag # NoDrag /\ InCopy(copy, drag.task)
    /\ \E c \in Columns \ {PlaceOf(copy, drag.task).status} :
          \E i \in 0 .. Cardinality(Shown(copy, c)) : copy' = TaskMoved(copy, drag.task, c, i)
    /\ UNCHANGED <<board, drag, call, events, inexact>>

(* restoreOrigin: handleDragCancel, and handleDragEnd outside every target.  *)
DragCancel ==
    /\ drag # NoDrag
    /\ copy' = TaskMoved(copy, drag.task, drag.from.status, drag.from.index)
    /\ drag' = NoDrag
    /\ UNCHANGED <<board, call, events, inexact>>

(* handleDragEnd on the slot where the gesture began: nothing is dispatched. *)
DropAtOrigin ==
    /\ drag # NoDrag /\ InCopy(copy, drag.task)
    /\ drag.from.index <= Cardinality(Shown(copy, drag.from.status) \ {Index(copy, drag.task)})
    /\ drag' = NoDrag
    /\ inexact' = (inexact \/ View(copy) # drag.before)
    /\ UNCHANGED <<board, copy, call, events>>

(* handleDragEnd, handleMoveTask: shown at once, one PATCH of status and rank. *)
Drop ==
    /\ drag # NoDrag /\ InCopy(copy, drag.task)
    /\ \E c \in Columns : \E i \in 0 .. Cardinality(Shown(copy, c) \ {Index(copy, drag.task)}) :
          /\ [status |-> c, index |-> i] # drag.from
          /\ copy' = TaskMoved(copy, drag.task, c, i)
          /\ call' = [call EXCEPT !["me"] = NewCall("update", drag.task, c, i, drag.from, drag.before)]
    /\ drag' = NoDrag
    /\ UNCHANGED <<board, events, inexact>>

(* handleDeleteTask: the card disappears at once. *)
DeleteTask == \E t \in Tasks :
    /\ drag = NoDrag /\ InCopy(copy, t)
    /\ LET card == copy[Index(copy, t)]
           exact == card.rank = PlaceOf(copy, t).index
       IN  Begin("me", NewCall("delete", t, None, None, card, IF exact THEN View(copy) ELSE None), Busy("me"))
    /\ copy' = TaskDeleted(copy, t)
    /\ UNCHANGED <<board, drag, events>>

(* handleSubmitDrawer: a new card at the end of its column, or a change of   *)
(* status without a rank; both are shown when they are answered.             *)
SubmitDrawer ==
    /\ drag = NoDrag
    /\ \E t \in Tasks, c \in Columns :
          \/ /\ Unused(t, "other")
             /\ Begin("me", NewCall("create", t, c, Cardinality(Shown(copy, c)), None, None), Busy("me"))
          \/ /\ InCopy(copy, t)
             /\ Begin("me", NewCall("update", t, c, None, None, None), Busy("me"))
    /\ UNCHANGED <<board, copy, drag, events>>

(* The answers.  A move shown before needs nothing more; a drawer applies    *)
(* the position it is told.                                                  *)
Done == call' = [call EXCEPT !["me"] = NoCall]
Succeed ==
    /\ At("me", "answered")
    /\ LET r == call["me"] IN
       copy' = CASE r.op = "create" -> TaskCreated(copy, r.card)
                 [] r.op = "update" /\ r.from = None -> TaskMoved(copy, r.task, r.card.status, r.card.rank)
                 [] OTHER -> copy
    /\ Done
    /\ UNCHANGED <<board, drag, events, inexact>>

\* Variant with the fault of a deleted card that is only created again.
RollBackByCreating(s, r) ==
    CASE r.op = "update" /\ r.from # None -> TaskMoved(s, r.task, r.from.status, r.from.index)
      [] r.op = "delete" -> TaskCreated(s, r.from)
      [] OTHER -> s

(* The rollbacks of handleMoveTask and handleDeleteTask. *)
RollBack(s, r) ==
    CASE r.op = "update" /\ r.from # None -> TaskMoved(s, r.task, r.from.status, r.from.index)
      [] r.op = "delete" -> TaskMoved(TaskCreated(s, r.from), r.task, r.from.status, r.from.rank)
      [] OTHER -> s
RolledBack ==
    /\ At("me", "error") \/ (At("me", "409") /\ call["me"].op \in {"create", "delete"})
    /\ copy' = RollBack(copy, call["me"])
    /\ Done
    /\ UNCHANGED <<board, drag, events, inexact>>

(* A 409 to a move or a drawer reloads the board: GET /tasks, and later its  *)
(* answer replaces the copy, with whatever it has been told meanwhile.       *)
Reload ==
    /\ At("me", "409") /\ call["me"].op = "update"
    /\ \E rows \in Rows :
          call' = [call EXCEPT !["me"] = [NewCall("reload", None, None, None, None, None)
                                          EXCEPT !.phase = "loaded", !.card = rows]]
    /\ inexact' = Busy("me")
    /\ UNCHANGED <<board, copy, drag, events>>
TasksLoaded ==
    /\ At("me", "loaded")
    /\ copy' = call["me"].card
    /\ Done
    /\ UNCHANGED <<board, drag, events, inexact>>

-----------------------------------------------------------------------------
PageInit ==
    /\ Init
    /\ copy = <<>> /\ drag = NoDrag
    /\ call = [who \in Callers |-> NoCall]
    /\ events = <<>> /\ inexact = FALSE

PageNext ==
    \/ OtherAsks
    \/ \E who \in Callers : Commit(who) \/ EmitMoved(who) \/ ReadBack(who) \/ EmitResult(who) \/ Fail(who)
    \/ Deliver
    \/ DragStart \/ DragOver \/ DragCancel \/ DropAtOrigin \/ Drop
    \/ DeleteTask \/ SubmitDrawer
    \/ Succeed \/ RolledBack \/ Reload \/ TasksLoaded

PageSpec == PageInit /\ [][PageNext]_vars

-----------------------------------------------------------------------------
(* Once everything is answered and delivered, the page shows the board,      *)
(* whatever was dragged, dropped, saved, deleted, refused or reloaded: unless *)
(* two changes overlapped, a request failed after its commit, a card was     *)
(* created above others, or a card was dropped where it came from.           *)
CopyFollowsBoard == AllQuiet /\ ~inexact => View(copy) = board

(* A cancelled gesture and a refused move or deletion leave the page as it   *)
(* was before ("reproduces the pre-drag arrangement exactly"), provided      *)
(* nothing else reached the copy; a card that is deleted must have had the   *)
(* rank of its position.                                                     *)
UndoneIsUndone ==
    [][ /\ DragCancel /\ drag.before # None => View(copy') = drag.before
        /\ RolledBack /\ call["me"].before # None => View(copy') = call["me"].before ]_vars
=============================================================================
