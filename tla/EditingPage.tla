-------------------------------- MODULE EditingPage --------------------------------
(***************************************************************************)
(* Editing the label of an item of the evaluation checklist: the lease     *)
(* hook of a row (useFieldLock.ts), the row's editing, saving and          *)
(* cancelling (ChecklistItemRow.tsx) and the one editingId of the page     *)
(* (evaluation-checklist.tsx), against a server that grants, renews and    *)
(* takes back leases (FieldLocks has the server in full).                  *)
(*                                                                         *)
(* The messages of one socket arrive in order in both directions and are   *)
(* lost with it; a save is a request of its own, unordered with them.      *)
(* What a page emits while it is disconnected is sent when it connects.    *)
(***************************************************************************)
EXTENDS Integers, Sequences, FiniteSets

CONSTANTS Pages, Labels,          \* browser tabs; rows of the checklist
          MaxLeases, MaxSockets,  \* leases granted, connections of a tab
          MaxWaiting              \* messages waiting in one direction

ASSUME EditingBounds == IsFiniteSet(Labels) /\ MaxLeases \in Nat /\ MaxSockets \in Nat

VARIABLES lease,     \* server: per row, the lease: its socket and its token
          granted,   \* leases granted so far
          view,      \* per tab: number of its socket, connected or not, the editingId
          up, down,  \* messages of the current socket
          field      \* per tab and row: what useFieldLock and ChecklistItemRow hold

editing == <<lease, granted, view, up, down, field>>

NoLease == [socket |-> <<>>, token |-> 0]
NoItem == "none"
Socket(t) == <<t, view[t].socket>>
FreshRow == [lock |-> <<>>, token |-> 0, draft |-> "label", kept |-> FALSE,
             save |-> "no", with |-> 0, asked |-> FALSE]

LockedByOther(t, i) == field[t][i].lock # <<>> /\ field[t][i].lock # Socket(t)
EmitUp(t, m) == up' = [up EXCEPT ![t] = Append(@, m)]
Room(t) == Len(up[t]) < MaxWaiting

(* The page after the effects of a render: a row that is being edited        *)
(* without its lease stops and keeps its draft; a row that is not edited     *)
(* and keeps nothing shows the item's label.                                 *)
\* Variant with the fault of a row without the effect that notices a lost lease.
RenderOnly(t, rows, item, socket) ==
    /\ view' = [view EXCEPT ![t].editing = item, ![t].socket = socket[1], ![t].connected = socket[2]]
    /\ field' = [field EXCEPT ![t] = [i \in Labels |->
                  IF i # item /\ ~rows[i].kept THEN [rows[i] EXCEPT !.draft = "label"] ELSE rows[i]]]

Render(t, rows, item, socket) ==
    LET without(i) == rows[i].token = 0 \/ rows[i].lock \notin {<<>>, <<t, socket[1]>>}
        stops == item # NoItem /\ without(item)
        stays == IF stops THEN NoItem ELSE item
    IN
    /\ view' = [view EXCEPT ![t].editing = stays, ![t].socket = socket[1], ![t].connected = socket[2]]
    /\ field' = [field EXCEPT ![t] = [i \in Labels |->
                  IF stops /\ i = item THEN [rows[i] EXCEPT !.kept = TRUE]
                  ELSE IF i # stays /\ ~rows[i].kept THEN [rows[i] EXCEPT !.draft = "label"]
                  ELSE rows[i]]]
Show(t, rows, item) == Render(t, rows, item, <<view[t].socket, view[t].connected>>)

-----------------------------------------------------------------------------
(* The fate of the label in a row that is left by Enter or by a click on     *)
(* another row (commit): a label that did not change needs no request.       *)
SavedOnLeave(r) ==
    IF r.save # "no" \/ r.token = 0 THEN r
    ELSE [r EXCEPT !.with = r.token, !.save = IF r.draft = "label" THEN "done" ELSE "sent"]

(* startEdit: asks for the lease; the field opens when it is granted.  The   *)
(* click takes the focus from the field that is open, which is saved.        *)
StartEdit(t, i) ==
    LET open == view[t].editing IN
    /\ open # i /\ ~LockedByOther(t, i) /\ ~field[t][i].asked /\ Room(t)
    /\ EmitUp(t, [m |-> "lock", item |-> i, token |-> 0])
    /\ field' = [field EXCEPT ![t] = [j \in Labels |->
                  IF j = i THEN [field[t][j] EXCEPT !.asked = TRUE]
                  ELSE IF j = open THEN SavedOnLeave(field[t][j]) ELSE field[t][j]]]
    /\ UNCHANGED <<lease, granted, view, down>>
Type(t) ==
    /\ view[t].editing # NoItem
    /\ field' = [field EXCEPT ![t][view[t].editing].draft = "typed"]
    /\ UNCHANGED <<lease, granted, view, up, down>>

CommitLabel(t) ==
    LET i == view[t].editing IN
    /\ i # NoItem /\ SavedOnLeave(field[t][i]) # field[t][i]
    /\ field' = [field EXCEPT ![t][i] = SavedOnLeave(field[t][i])]
    /\ UNCHANGED <<lease, granted, view, up, down>>

(* release and onStopEdit: the page has one editingId. *)
Stop(t, rows, i) ==
    /\ EmitUp(t, [m |-> "unlock", item |-> i, token |-> 0])
    /\ Show(t, [rows EXCEPT ![i].lock = <<>>, ![i].token = 0], NoItem)
Cancel(t) ==
    LET i == view[t].editing IN
    /\ i # NoItem /\ Room(t)
    /\ Stop(t, [field[t] EXCEPT ![i].kept = FALSE, ![i].draft = "label"], i)
    /\ UNCHANGED <<lease, granted, down>>

(* The answer to the save: withValidatedLease admits only the lease's token. *)
Patch(t, i, admitted) ==
    /\ field[t][i].save = "sent"
    /\ admitted => lease[i] # NoLease /\ lease[i].token = field[t][i].with
    /\ field' = [field EXCEPT ![t][i].save = IF admitted THEN "done" ELSE "failed"]
    /\ UNCHANGED <<lease, granted, view, up, down>>
Settle(t, i) ==
    /\ field[t][i].save \in {"done", "failed"} /\ Room(t)
    /\ LET rows == [field[t] EXCEPT ![i].save = "no", ![i].with = 0] IN
       IF field[t][i].save = "done" THEN Stop(t, [rows EXCEPT ![i].draft = "label"], i)
       ELSE Show(t, rows, view[t].editing) /\ UNCHANGED up
    /\ UNCHANGED <<lease, granted, down>>

Renew(t, i) ==
    /\ field[t][i].token # 0 /\ view[t].connected /\ Room(t)
    /\ \A n \in DOMAIN up[t] : up[t][n].m # "renew"
    /\ EmitUp(t, [m |-> "renew", item |-> i, token |-> field[t][i].token])
    /\ UNCHANGED <<lease, granted, view, down, field>>

-----------------------------------------------------------------------------
(* The server: one message at a time.  Everybody in the project's room hears *)
(* of a lease that is granted or ends, before the asker has the answer.      *)
Sent(ms) ==
    /\ \A u \in Pages : Len(down[u]) < MaxWaiting
    /\ down' = [u \in Pages |-> IF view[u].connected THEN down[u] \o ms[u] ELSE down[u]]
ToAll(m) == [u \in Pages |-> <<m>>]
To(t, m) == [u \in Pages |-> IF u = t THEN <<m>> ELSE <<>>]
Message(what, i, socket, token) == [m |-> what, item |-> i, socket |-> socket, token |-> token]
LeaseEnded(i) == Message("unlocked", i, <<>>, 0)

Received(t, what) ==
    /\ view[t].connected /\ up[t] # <<>> /\ Head(up[t]).m = what
    /\ up' = [up EXCEPT ![t] = Tail(@)]
    /\ UNCHANGED <<view, field>>

(* acquire: a new lease, the same one again, or who holds it (nobody, if the *)
(* asker is no member any more; here also beyond the bound on leases).       *)
ServeLock(t) ==
    /\ Received(t, "lock")
    /\ LET i == Head(up[t]).item
           mine == lease[i].socket = Socket(t)
           token == IF mine THEN lease[i].token ELSE granted + 1
       IN
       IF mine \/ (lease[i] = NoLease /\ granted < MaxLeases)
       THEN /\ lease' = [lease EXCEPT ![i] = [socket |-> Socket(t), token |-> token]]
            /\ granted' = IF mine THEN granted ELSE token
            /\ Sent([u \in Pages |-> ToAll(Message("locked", i, Socket(t), 0))[u]
                                     \o To(t, Message("answer", i, Socket(t), token))[u]])
       ELSE /\ Sent(To(t, Message("answer", i, lease[i].socket, 0)))
            /\ UNCHANGED <<lease, granted>>
ServeUnlock(t) ==
    /\ Received(t, "unlock")
    /\ LET i == Head(up[t]).item IN
       IF lease[i].socket = Socket(t)
       THEN lease' = [lease EXCEPT ![i] = NoLease] /\ Sent(ToAll(LeaseEnded(i)))
       ELSE UNCHANGED <<lease, down>>
    /\ UNCHANGED granted
ServeRenew(t) ==
    /\ Received(t, "renew")
    /\ LET m == Head(up[t]) IN
       IF lease[m.item] = [socket |-> Socket(t), token |-> m.token] THEN UNCHANGED down
       ELSE Sent(To(t, Message("refused", m.item, <<>>, 0)))
    /\ UNCHANGED <<lease, granted>>
ServeQuery(t) ==
    /\ Received(t, "query")
    /\ LET i == Head(up[t]).item IN Sent(To(t, Message("query", i, lease[i].socket, 0)))
    /\ UNCHANGED <<lease, granted>>

(* A lease runs out, or the server notices that its socket is gone.  The     *)
(* third way it ends is left out: of a member who is removed the sockets     *)
(* leave the room before the others hear of it, and the page is left for the *)
(* list of projects (AuthenticatedLayout) without hearing of the lease.      *)
EndLease(i) ==
    /\ lease[i] # NoLease
    /\ lease' = [lease EXCEPT ![i] = NoLease]
    /\ Sent(ToAll(LeaseEnded(i)))
    /\ UNCHANGED <<granted, view, up, field>>

-----------------------------------------------------------------------------
(* The hook's listeners and answers. *)
Heard(t, m) ==
    LET i == m.item  r == field[t][i] IN
    CASE m.m = "locked"   -> Show(t, [field[t] EXCEPT ![i].lock = m.socket], view[t].editing)
      [] m.m = "unlocked" -> Show(t, [field[t] EXCEPT ![i] = [r EXCEPT !.lock = <<>>, !.token = 0]],
                                  view[t].editing)
      [] m.m = "query"    -> Show(t, [field[t] EXCEPT ![i] = [r EXCEPT !.lock = m.socket,
                                        !.token = IF m.socket = Socket(t) THEN @ ELSE 0]], view[t].editing)
      [] m.m = "refused"  -> Show(t, [field[t] EXCEPT ![i] = [r EXCEPT !.lock = <<>>, !.token = 0]],
                                  view[t].editing)
      [] m.m = "answer" /\ m.token = 0 ->
            Show(t, [field[t] EXCEPT ![i] = [r EXCEPT !.lock = m.socket, !.token = 0, !.asked = FALSE]],
                 view[t].editing)
      [] OTHER ->    \* granted: this field opens, and one that is open loses the focus
            Show(t, [j \in Labels |->
                        IF j = i THEN [r EXCEPT !.lock = m.socket, !.token = m.token, !.asked = FALSE, !.kept = FALSE]
                        ELSE IF j = view[t].editing THEN SavedOnLeave(field[t][j]) ELSE field[t][j]], i)
HearLease(t) ==
    /\ down[t] # <<>> /\ down' = [down EXCEPT ![t] = Tail(@)]
    /\ Heard(t, Head(down[t]))
    /\ UNCHANGED <<lease, granted, up>>

(* The socket closes: what was on its way is lost, an answer never comes.    *)
LoseSocket(t) ==
    /\ view[t].connected
    /\ up' = [up EXCEPT ![t] = <<>>] /\ down' = [down EXCEPT ![t] = <<>>]
    /\ Render(t, [i \in Labels |-> [field[t][i] EXCEPT !.lock = <<>>, !.token = 0, !.asked = FALSE]],
              view[t].editing, <<view[t].socket, FALSE>>)
    /\ UNCHANGED <<lease, granted>>
\* Every row asks, in the order of the page, which is any.
PageOrders == {order \in [1..Cardinality(Labels) -> Labels] : \A i \in Labels : \E n \in DOMAIN order : order[n] = i}
OpenSocket(t) ==
    /\ ~view[t].connected /\ view[t].socket < MaxSockets
    /\ \E order \in PageOrders :
          up' = [up EXCEPT ![t] = @ \o [n \in DOMAIN order |-> [m |-> "query", item |-> order[n], token |-> 0]]]
    /\ Render(t, field[t], view[t].editing, <<view[t].socket + 1, TRUE>>)
    /\ UNCHANGED <<lease, granted, down>>

-----------------------------------------------------------------------------
EditingInit ==
    /\ lease = [i \in Labels |-> NoLease] /\ granted = 0
    /\ view = [t \in Pages |-> [socket |-> 1, connected |-> TRUE, editing |-> NoItem]]
    /\ up = [t \in Pages |-> <<>>] /\ down = [t \in Pages |-> <<>>]
    /\ field = [t \in Pages |-> [i \in Labels |-> FreshRow]]

EditingNext ==
    \/ \E t \in Pages :
          \/ Type(t) \/ CommitLabel(t) \/ Cancel(t) \/ HearLease(t) \/ LoseSocket(t) \/ OpenSocket(t)
          \/ ServeLock(t) \/ ServeUnlock(t) \/ ServeRenew(t) \/ ServeQuery(t)
    \/ \E t \in Pages, i \in Labels :
          StartEdit(t, i) \/ Renew(t, i) \/ Patch(t, i, TRUE) \/ Patch(t, i, FALSE) \/ Settle(t, i)
    \/ \E i \in Labels : EndLease(i)

EditingSpec == EditingInit /\ [][EditingNext]_editing

-----------------------------------------------------------------------------
(* A field that is open holds the lease the server has given to this socket, *)
(* as soon as the tab has heard everything the server had to say.            *)
EditorHoldsLease ==
    \A t \in Pages :
        view[t].connected /\ down[t] = <<>> /\ view[t].editing # NoItem
            => lease[view[t].editing] = [socket |-> Socket(t), token |-> field[t][view[t].editing].token]
=============================================================================
