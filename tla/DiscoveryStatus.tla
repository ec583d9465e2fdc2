---------------------------- MODULE DiscoveryStatus ----------------------------
(***************************************************************************)
(* The discovery blocks of one project and their check lists               *)
(* (discovery-blocks.service.ts, discovery-block-items.service.ts).        *)
(*                                                                         *)
(* A change of an item is one statement, or one Serializable transaction   *)
(* that counts first; after it, in a transaction of its own,               *)
(* recalculateStatus reads the items and writes the status of the block.   *)
(* Postgres refuses a Serializable update of a row that somebody changed   *)
(* after the transaction took its snapshot, and nobody tries again         *)
(* (PrismaService.transaction).                                            *)
(*                                                                         *)
(* Two Serializable counts that both insert cannot both commit.  Editing   *)
(* leases (FieldLocks) and membership are not repeated here.               *)
(***************************************************************************)
EXTENDS Integers, FiniteSets

CONSTANTS Blocks, Items,        \* identifiers, each given to at most one row
          Editors,              \* requests under way at a time
          MaxBlocks, MaxItems   \* per project, per block

VARIABLES status,     \* discovery_block: the blocks that exist and their status
          item,       \* discovery_block_item: the items that exist
          used,       \* identifiers given so far
          edit,       \* per editor, its request
          unsettled   \* history: blocks of which a recalculation did not happen

discovery == <<status, item, used, edit, unsettled>>

ItemsOf(b) == {i \in DOMAIN item : item[i].block = b}

(* computeDiscoveryBlockStatus *)
StatusOf(b) ==
    LET checked == {i \in ItemsOf(b) : item[i].isChecked}
    IN  IF checked = {} THEN "NOT_STARTED"
        ELSE IF checked = ItemsOf(b) THEN "COMPLETED" ELSE "IN_PROGRESS"

NoEdit == [phase |-> "none"]
In(e, phase) == edit[e].phase = phase
Finish(e) == edit' = [edit EXCEPT ![e] = NoEdit]

(* The access guard has found the block, and the item if there is one.       *)
Ask(e, op, b, i, checked) ==
    edit' = [edit EXCEPT ![e] = [op |-> op, phase |-> "guarded", block |-> b, item |-> i,
                                 isChecked |-> checked, seen |-> 0, will |-> "none", doomed |-> FALSE]]

(* A new identifier; which one makes no difference. *)
NewId(ids) == {id \in ids \ used : id = CHOOSE other \in ids : other \notin used}

AskBlock(e) ==
    /\ In(e, "none")
    /\ \/ \E b \in NewId(Blocks) : Ask(e, "createBlock", b, b, FALSE) /\ used' = used \cup {b}
       \/ \E b \in DOMAIN status, op \in {"updateBlock", "removeBlock"} : Ask(e, op, b, b, FALSE) /\ UNCHANGED used
    /\ UNCHANGED <<status, item, unsettled>>
AskItem(e) ==
    /\ In(e, "none")
    /\ \E b \in DOMAIN status :
          \/ \E i \in NewId(Items) : Ask(e, "createItem", b, i, FALSE) /\ used' = used \cup {i}
          \/ \E i \in ItemsOf(b), checked \in BOOLEAN : Ask(e, "updateItem", b, i, checked) /\ UNCHANGED used
          \/ \E i \in ItemsOf(b) : Ask(e, "removeItem", b, i, FALSE) /\ UNCHANGED used
    /\ UNCHANGED <<status, item, unsettled>>

(* create: count, then insert, in one Serializable transaction. *)
IsCreate(r) == r.op \in {"createBlock", "createItem"}
Full(r) == r.seen >= IF r.op = "createBlock" THEN MaxBlocks ELSE MaxItems
Count(e) ==
    /\ In(e, "guarded") /\ IsCreate(edit[e])
    /\ edit' = [edit EXCEPT ![e].phase = "counted",
                            ![e].seen = Cardinality(IF edit[e].op = "createBlock" THEN DOMAIN status
                                                                         ELSE ItemsOf(edit[e].block))]
    /\ UNCHANGED <<status, item, used, unsettled>>

(* The transactions that a committed insert of r invalidates. *)
SameCount(r, s) == s.phase = "counted" /\ s.op = r.op /\ (r.op = "createItem" => s.block = r.block)
Insert(e) ==
    /\ In(e, "counted") /\ ~Full(edit[e]) /\ ~edit[e].doomed
    /\ LET r == edit[e]
           doomed == [f \in Editors |-> IF SameCount(r, edit[f]) THEN [edit[f] EXCEPT !.doomed = TRUE] ELSE edit[f]]
       IN  \/ /\ r.op = "createBlock"
              /\ status' = [b \in DOMAIN status \cup {r.block} |-> IF b = r.block THEN "NOT_STARTED" ELSE status[b]]
              /\ edit' = [doomed EXCEPT ![e] = NoEdit]
              /\ UNCHANGED item
           \/ /\ r.op = "createItem" /\ r.block \in DOMAIN status
              /\ item' = [i \in DOMAIN item \cup {r.item} |->
                             IF i = r.item THEN [block |-> r.block, isChecked |-> FALSE] ELSE item[i]]
              /\ edit' = [doomed EXCEPT ![e].phase = "changed"]
              /\ UNCHANGED status
    /\ UNCHANGED <<used, unsettled>>

(* update and remove of an item; an item that is gone is a 404, or already   *)
(* removed.                                                                  *)
UpdateItem(e) ==
    /\ In(e, "guarded") /\ edit[e].op = "updateItem" /\ edit[e].item \in DOMAIN item
    /\ item' = [item EXCEPT ![edit[e].item].isChecked = edit[e].isChecked]
    /\ edit' = [edit EXCEPT ![e].phase = "changed"]
    /\ UNCHANGED <<status, used, unsettled>>
RemoveItem(e) ==
    /\ In(e, "guarded") /\ edit[e].op = "removeItem"
    /\ item' = [i \in DOMAIN item \ {edit[e].item} |-> item[i]]
    /\ edit' = [edit EXCEPT ![e].phase = "changed"]
    /\ UNCHANGED <<status, used, unsettled>>

\* Variant with the fault of a recalculation at the default isolation level.
RewrittenNever(b, e) == edit

(* What is said of the other transactions when the row of b is written.      *)
Rewritten(b, e) ==
    [f \in Editors |->
        IF f # e /\ In(f, "recalculating") /\ edit[f].block = b
        THEN [edit[f] EXCEPT !.doomed = TRUE] ELSE edit[f]]

UpdateBlock(e) ==
    /\ In(e, "guarded") /\ edit[e].op = "updateBlock" /\ edit[e].block \in DOMAIN status
    /\ edit' = [Rewritten(edit[e].block, e) EXCEPT ![e] = NoEdit]
    /\ UNCHANGED <<status, item, used, unsettled>>
RemoveBlock(e) ==
    /\ In(e, "guarded") /\ edit[e].op = "removeBlock"
    /\ status' = [b \in DOMAIN status \ {edit[e].block} |-> status[b]]
    /\ item' = [i \in DOMAIN item \ ItemsOf(edit[e].block) |-> item[i]]
    /\ Finish(e)
    /\ UNCHANGED <<used, unsettled>>

(* recalculateStatus *)
ReadItems(e) ==
    /\ In(e, "changed")
    /\ edit' = [edit EXCEPT ![e].phase = "recalculating", ![e].will = StatusOf(edit[e].block), ![e].doomed = FALSE]
    /\ UNCHANGED <<status, item, used, unsettled>>
WriteStatus(e) ==
    /\ In(e, "recalculating") /\ ~edit[e].doomed /\ edit[e].block \in DOMAIN status
    /\ status' = [status EXCEPT ![edit[e].block] = edit[e].will]
    /\ edit' = [Rewritten(edit[e].block, e) EXCEPT ![e] = NoEdit]
    /\ UNCHANGED <<item, used, unsettled>>

(* A request fails: an access guard, a cap, a conflict, or the database.      *)
FailEdit(e) ==
    /\ ~In(e, "none")
    /\ unsettled' = IF edit[e].phase \in {"changed", "recalculating"} THEN unsettled \cup {edit[e].block} ELSE unsettled
    /\ Finish(e)
    /\ UNCHANGED <<status, item, used>>

-----------------------------------------------------------------------------
DiscoveryInit ==
    /\ status = [b \in {} |-> "NOT_STARTED"] /\ item = [i \in {} |-> {}]
    /\ used = {} /\ unsettled = {}
    /\ edit = [e \in Editors |-> NoEdit]

DiscoveryNext == \E e \in Editors :
    \/ AskBlock(e) \/ AskItem(e) \/ Count(e) \/ Insert(e)
    \/ UpdateItem(e) \/ RemoveItem(e) \/ UpdateBlock(e) \/ RemoveBlock(e)
    \/ ReadItems(e) \/ WriteStatus(e) \/ FailEdit(e)

DiscoverySpec == DiscoveryInit /\ [][DiscoveryNext]_discovery

-----------------------------------------------------------------------------
(* A block shows the progress of its check list once nobody is changing it,  *)
(* however the changes and the recalculations of several members interleave; *)
(* it is left with another status only by a recalculation that did not       *)
(* happen.  (It is not always the stale one that is refused: one that read   *)
(* before a change may be committed while the one that read it fails.)       *)
StatusFollowsItems ==
    \A b \in DOMAIN status \ unsettled :
        (\A e \in Editors : edit[e].phase \in {"changed", "recalculating"} => edit[e].block # b)
            => status[b] = StatusOf(b)
=============================================================================
