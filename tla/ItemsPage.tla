--------------------------------- MODULE ItemsPage ---------------------------------
(***************************************************************************)
(* A page that lists check boxes: the evaluation checklist                 *)
(* (evaluation-checklist.tsx) or the items of one discovery block          *)
(* (discovery_.$discoveryBlockId.edit.tsx), against the rows of the        *)
(* backend.  Four things write to the list, in any order: what the user    *)
(* clicks (shown before the backend has answered), the answers, the events *)
(* of useLiveItemSync, and the loader, which runs again after each success *)
(* (useSafeRouterInvalidate).                                              *)
(*                                                                         *)
(* A row counts its changes, so that the properties can tell an older      *)
(* reading from a later one.  The code has no such number.  Labels, leases *)
(* (EditingPage), the cap and the order of rows are left out.              *)
(***************************************************************************)
EXTENDS Integers, Sequences

CONSTANTS Slots,      \* requests under way, this page's and other members'
          MaxIds,     \* items ever
          MaxOrders,  \* requests in a behaviour
          MaxWire     \* events on their way to the page

Ids == 1..MaxIds

VARIABLES style,      \* which of the two pages it is: "checklist" or "block"
          stock,      \* backend: per item, whether it has a row, isChecked, and its changes so far
          listed,     \* page: per item, isChecked of each of its entries in the list
          order,      \* requests under way
          orders,     \* requests so far
          wire,       \* events emitted and not yet delivered
          loading,    \* the loader: not running, asked, or with its answer on the way
          shown,      \* history: per item, the change that the list shows
          skipped,     \* history: per item, the latest change that did not get into the list
          spoiled     \* history: items put back after the list had moved on

itemlist == <<style, stock, listed, order, orders, wire, loading, shown, skipped, spoiled>>

NoOrder == [op |-> "none", mine |-> FALSE, id |-> 0, phase |-> "none"]
NotLoading == [at |-> "none", stock |-> <<>>]
Larger(a, b) == IF a > b THEN a ELSE b
HasRow(i) == stock[i].is = "there"

Mine(o) == order[o].op # "none" /\ order[o].mine
Touch(os, items) == [o \in Slots |-> IF os[o].op # "none" /\ os[o].mine /\ os[o].id \in items
                                     THEN [os[o] EXCEPT !.touched = TRUE] ELSE os[o]]

(* Change n of item i gets into the list; or it does not.                    *)
Gets(i, n) ==
    /\ shown' = [shown EXCEPT ![i] = n]
    /\ skipped' = [skipped EXCEPT ![i] = IF shown[i] > n THEN Larger(@, shown[i]) ELSE @]
Skips(i, n) ==
    /\ skipped' = [skipped EXCEPT ![i] = Larger(@, n)]
    /\ UNCHANGED shown

\* Variant with the fault of an answer appended without a look at the list.
AddedBlindly(i, on) == [listed EXCEPT ![i] = Append(@, on)]

(* The three ways in which answers and events change the list.               *)
Added(i, on) == IF listed[i] = <<>> THEN [listed EXCEPT ![i] = <<on>>] ELSE listed
Changed(i, on) == [listed EXCEPT ![i] = [n \in DOMAIN @ |-> on]]
Removed(i) == [listed EXCEPT ![i] = <<>>]

-----------------------------------------------------------------------------
(* A request is sent; those of the page say what its list showed before.     *)
AskBackend(o, op, mine, i, on) ==
    /\ order[o] = NoOrder /\ orders < MaxOrders
    /\ orders' = orders + 1
    /\ order' = [order EXCEPT ![o] =
          [op |-> op, mine |-> mine, id |-> i, on |-> on, phase |-> "sent", change |-> 0,
           before |-> IF mine /\ i # 0 THEN Head(listed[i]) ELSE FALSE,
           touched |-> mine /\ i # 0 /\ \E p \in Slots : Mine(p) /\ order[p].id = i]]
    /\ UNCHANGED <<style, stock, wire, loading, shown, skipped, spoiled>>

(* handleCreate, handleAddItem: shown when the backend has answered. *)
HandleAddItem(o) == AskBackend(o, "create", TRUE, 0, FALSE) /\ UNCHANGED listed
(* handleUpdate, handleToggleItem: shown at once. *)
HandleUpdate(o, i) ==
    /\ listed[i] # <<>>
    /\ AskBackend(o, "update", TRUE, i, ~Head(listed[i]))
    /\ listed' = Changed(i, ~Head(listed[i]))
(* handleDelete of the checklist is shown at once, handleRemoveItem is not.  *)
HandleDelete(o, i) ==
    /\ listed[i] # <<>>
    /\ AskBackend(o, "delete", TRUE, i, FALSE)
    /\ listed' = IF style = "checklist" THEN Removed(i) ELSE listed
(* Another member, on a page of his own. *)
OtherAsks(o) ==
    /\ \/ AskBackend(o, "create", FALSE, 0, FALSE)
       \/ \E i \in Ids :
             /\ HasRow(i)
             /\ AskBackend(o, "update", FALSE, i, ~stock[i].on) \/ AskBackend(o, "delete", FALSE, i, FALSE)
    /\ UNCHANGED listed

-----------------------------------------------------------------------------
(* The backend: the access guard finds the row, then the row is written.     *)
(* The checklist's deletions of one item are one after the other, under the  *)
(* item's lock.                                                              *)
Waits == UNCHANGED <<style, listed, orders, loading, spoiled>>
FindById(o) ==
    LET r == order[o] IN
    /\ r.phase = "sent"
    /\ style = "checklist" /\ r.op = "delete" =>
          \A p \in Slots : ~(order[p].op = "delete" /\ order[p].phase = "found" /\ order[p].id = r.id)
    /\ order' = [order EXCEPT ![o].phase = IF r.op = "create" \/ HasRow(r.id) THEN "found" ELSE "absent",
                              ![o].change = IF r.op = "create" THEN 0 ELSE stock[r.id].n]
    /\ UNCHANGED <<stock, wire, shown, skipped>> /\ Waits

Write(o) ==
    LET r == order[o] IN
    /\ r.phase = "found"
    /\ IF r.op = "create"
       THEN \E i \in Ids :
              /\ \A j \in Ids : (stock[j].is = "unborn") => i <= j
              /\ stock[i].is = "unborn"
              /\ stock' = [stock EXCEPT ![i] = [is |-> "there", on |-> FALSE, n |-> 1]]
              /\ order' = [order EXCEPT ![o].phase = "written", ![o].id = i, ![o].change = 1]
       ELSE IF HasRow(r.id)
       THEN /\ stock' = [stock EXCEPT ![r.id] = [is |-> IF r.op = "delete" THEN "gone" ELSE @.is,
                                                 on |-> IF r.op = "update" THEN r.on ELSE @.on, n |-> @.n + 1]]
            /\ order' = [order EXCEPT ![o].phase = "written", ![o].change = stock[r.id].n + 1]
       ELSE /\ order' = [order EXCEPT ![o].phase = IF r.op = "delete" THEN "written" ELSE "absent",
                                      ![o].change = stock[r.id].n]
            /\ UNCHANGED stock
    /\ UNCHANGED <<wire, shown, skipped>> /\ Waits

Ended(o, phase) == order' = [order EXCEPT ![o] = IF @.mine THEN [@ EXCEPT !.phase = phase] ELSE NoOrder]

(* The change is told to the project's room, after the notifications and the *)
(* status of the block have been seen to.                                    *)
EmitChange(o) ==
    /\ order[o].phase = "written" /\ Len(wire) < MaxWire
    /\ wire' = Append(wire, [op |-> order[o].op, id |-> order[o].id, change |-> order[o].change,
                             on |-> order[o].op = "update" /\ order[o].on])
    /\ Ended(o, "told")
    /\ UNCHANGED <<stock, shown, skipped>> /\ Waits

(* A refusal or a failure; one after the write leaves a change nobody hears  *)
(* of.  A new item of the checklist is told at once.                         *)
Fail(o) ==
    LET r == order[o] IN
    /\ \/ r.phase \in {"sent", "found"} /\ UNCHANGED <<shown, skipped>>
       \/ r.phase = "written" /\ ~(style = "checklist" /\ r.op = "create") /\ Skips(r.id, r.change)
    /\ Ended(o, "failed")
    /\ UNCHANGED <<stock, wire>> /\ Waits

-----------------------------------------------------------------------------
(* safeInvalidateRouter: the loader runs, or runs again, or the one that is  *)
(* under way is taken for it (the router decides).                           *)
Invalidate ==
    \/ loading' = [NotLoading EXCEPT !.at = "asked"]
    \/ loading.at = "answered" /\ UNCHANGED loading

Forget(o) == [order EXCEPT ![o] = NoOrder]
Succeeds(o) ==
    LET r == order[o] IN
    /\ Invalidate
    /\ CASE r.op = "create" /\ listed[r.id] = <<>> ->
              listed' = Added(r.id, FALSE) /\ Gets(r.id, r.change) /\ order' = Touch(Forget(o), {r.id})
         [] r.op = "create" /\ listed[r.id] # <<>> ->
              listed' = Added(r.id, FALSE) /\ UNCHANGED <<shown, skipped>> /\ order' = Forget(o)
         [] r.op = "delete" /\ style = "block" ->
              listed' = Removed(r.id) /\ Gets(r.id, r.change) /\ order' = Touch(Forget(o), {r.id})
         [] OTHER -> UNCHANGED <<listed, shown, skipped>> /\ order' = Forget(o)
    /\ UNCHANGED spoiled

(* The list is put back as it was; history: after it had moved on.           *)
PutBack(o) ==
    LET r == order[o] IN
    /\ order' = Forget(o)
    /\ CASE r.op = "update" -> listed' = Changed(r.id, r.before)
         [] r.op = "delete" /\ style = "checklist" -> listed' = [listed EXCEPT ![r.id] = Append(@, r.before)]
         [] OTHER -> UNCHANGED listed
    /\ spoiled' = IF r.touched /\ r.op # "create" THEN spoiled \cup {r.id} ELSE spoiled
    /\ UNCHANGED <<loading, shown, skipped>>

(* The answer; one that is lost counts as a failure.  To the page of a block *)
(* an item that is gone is as good as deleted.                               *)
HandleAnswer(o) ==
    /\ Mine(o)
    /\ \/ order[o].phase = "told" /\ Succeeds(o)
       \/ order[o].phase = "absent" /\ style = "block" /\ order[o].op = "delete" /\ Succeeds(o)
       \/ order[o].phase = "absent" /\ ~(style = "block" /\ order[o].op = "delete") /\ PutBack(o)
       \/ order[o].phase \in {"failed", "told"} /\ PutBack(o)
    /\ UNCHANGED <<style, stock, orders, wire>>
OtherAnswer(o) ==
    /\ order[o].phase = "absent" /\ ~order[o].mine
    /\ order' = Forget(o)
    /\ UNCHANGED <<stock, wire, shown, skipped>> /\ Waits

(* useLiveItemSync: handleCreated, handleUpdated, handleDeleted. *)
HearItem ==
    /\ wire # <<>> /\ wire' = Tail(wire)
    /\ LET e == Head(wire) IN
       /\ order' = Touch(order, {e.id})
       /\ CASE e.op = "create" /\ listed[e.id] # <<>> -> UNCHANGED <<listed, shown, skipped, spoiled>>
            [] e.op = "create" /\ listed[e.id] = <<>> ->
                 listed' = Added(e.id, e.on) /\ Gets(e.id, e.change) /\ UNCHANGED spoiled
            [] e.op = "update" /\ listed[e.id] = <<>> -> Skips(e.id, e.change) /\ UNCHANGED <<listed, spoiled>>
            [] e.op = "update" /\ listed[e.id] # <<>> ->
                 listed' = Changed(e.id, e.on) /\ Gets(e.id, e.change) /\ UNCHANGED spoiled
            [] OTHER -> listed' = Removed(e.id) /\ Gets(e.id, e.change) /\ spoiled' = spoiled \ {e.id}
    /\ UNCHANGED <<style, stock, orders, loading>>

(* The connection is lost, with what was on its way: the page does not       *)
(* reload when it is back.                                                   *)
LoseEvents ==
    /\ wire # <<>> /\ wire' = <<>>
    /\ skipped' = [i \in Ids |-> LET lost == {wire[k].change : k \in {k \in DOMAIN wire : wire[k].id = i}}
                                IN CHOOSE n \in lost \cup {skipped[i]} : \A l \in lost \cup {skipped[i]} : n >= l]
    /\ UNCHANGED <<style, stock, listed, order, orders, loading, shown, spoiled>>

(* The loader reads the rows; its answer replaces the list. *)
LoaderReads ==
    /\ loading.at = "asked"
    /\ loading' = [at |-> "answered", stock |-> stock]
    /\ UNCHANGED <<style, stock, listed, order, orders, wire, shown, skipped, spoiled>>
LoaderFails ==
    /\ loading.at = "asked" /\ loading' = NotLoading
    /\ UNCHANGED <<style, stock, listed, order, orders, wire, shown, skipped, spoiled>>
LoaderAnswers ==
    LET read == loading.stock IN
    /\ loading.at = "answered" /\ loading' = NotLoading
    /\ listed' = [i \in Ids |-> IF read[i].is = "there" THEN <<read[i].on>> ELSE <<>>]
    /\ shown' = [i \in Ids |-> read[i].n]
    /\ skipped' = [i \in Ids |-> IF shown[i] > read[i].n THEN Larger(skipped[i], shown[i]) ELSE skipped[i]]
    /\ spoiled' = {}
    /\ order' = Touch(order, Ids)
    /\ UNCHANGED <<style, stock, orders, wire>>

-----------------------------------------------------------------------------
ItemsInit ==
    /\ style \in {"checklist", "block"}
    /\ stock = [i \in Ids |-> IF i = 1 THEN [is |-> "there", on |-> FALSE, n |-> 1]
                              ELSE [is |-> "unborn", on |-> FALSE, n |-> 0]]
    /\ listed = [i \in Ids |-> IF i = 1 THEN <<FALSE>> ELSE <<>>]
    /\ shown = [i \in Ids |-> stock[i].n] /\ skipped = [i \in Ids |-> 0] /\ spoiled = {}
    /\ order = [o \in Slots |-> NoOrder] /\ orders = 0 /\ wire = <<>> /\ loading = NotLoading

ItemsNext ==
    \/ \E o \in Slots :
          \/ HandleAddItem(o) \/ OtherAsks(o) \/ \E i \in Ids : HandleUpdate(o, i) \/ HandleDelete(o, i)
          \/ FindById(o) \/ Write(o) \/ EmitChange(o) \/ Fail(o) \/ HandleAnswer(o) \/ OtherAnswer(o)
    \/ HearItem \/ LoseEvents \/ LoaderReads \/ LoaderFails \/ LoaderAnswers

ItemsSpec == ItemsInit /\ [][ItemsNext]_itemlist

-----------------------------------------------------------------------------
(* When nothing is under way the list has each item of the backend once, as  *)
(* it is, and no other: whichever of an answer, an event and a reload came   *)
(* first.  The exceptions are those the code lives with: a change that was   *)
(* never told, was lost, came before the item or was overtaken by an older   *)
(* reading, and an item put back although the list had moved on.             *)
ListFollowsItems ==
    (\A o \in Slots : order[o] = NoOrder) /\ wire = <<>> /\ loading = NotLoading
        => \A i \in Ids : skipped[i] <= shown[i] /\ i \notin spoiled
              => listed[i] = IF HasRow(i) THEN <<stock[i].on>> ELSE <<>>
=============================================================================
