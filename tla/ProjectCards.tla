------------------------------- MODULE ProjectCards -------------------------------
(***************************************************************************)
(* The row of one project and the pages of the members who manage it: the  *)
(* card of the project (ProjectCard.tsx on projects.tsx), where its name   *)
(* and description are edited and it is deleted, and its settings, where   *)
(* it is finished, archived and deleted (ProjectStatusSection.tsx and      *)
(* DangerZoneSection.tsx).  Both show what the last load of the router     *)
(* read; the events of the project make every page load again              *)
(* (AuthenticatedLayout.tsx).                                              *)
(*                                                                         *)
(* A change of the name or the description carries the updatedAt it was    *)
(* based on; a change of the status or of isArchived carries nothing.      *)
(* updatedAt is taken to differ after each write (it has milliseconds).    *)
(* Roles and members are ProjectLife's: here the managers stay what they   *)
(* are.  A name stands for a name with its description, and typing the     *)
(* name again to confirm a deletion is left out.                           *)
(***************************************************************************)
EXTENDS Integers, Sequences

CONSTANTS Desks,       \* pages, each of another OWNER or ADMIN of the project
          Owning,      \* the page of its owner
          Titles,      \* names
          MaxEdits,    \* writes of the row in a behaviour
          MaxRumors    \* events on their way to one page

ASSUME TitlesAssumption == Titles # {}

VARIABLES venture,     \* the row: name, finished, archived, and updatedAt as a number (0: deleted)
          desk,        \* per page: which it is, showArchived, the row it shows, the card's mode and form
          patch,       \* per page and operation: the request under way
          rumor,       \* per page: events on their way
          refetch,     \* per page: the load under way
          behind       \* history: pages that missed a change, or whose load was lost

cards == <<venture, desk, patch, rumor, refetch, behind>>

Toggles == {"finish", "archive"}
Patches == {"details", "delete"} \cup Toggles
Deleted == [name |-> CHOOSE t \in Titles : TRUE, finished |-> FALSE, archived |-> FALSE, at |-> 0]
NoPatch == [phase |-> "none"]
NoLoad == [at |-> "none"]

Free(p, op) == patch[p][op] = NoPatch
Sends(p, op, r) == patch' = [patch EXCEPT ![p][op] = r]
Phase(p, op, phase) == patch' = [patch EXCEPT ![p][op].phase = phase]

(* What the projects page shows of the project: no card once it is gone, or  *)
(* archived and not asked for.                                               *)
HasCard(d) == d.at = "projects" /\ d.sees.at # 0 /\ (d.sees.archived => d.all)

(* The components of a page that is left, and a card that is not shown any   *)
(* more, forget their state: an answer that comes later finds nobody.        *)
Plain(d) == [d EXCEPT !.mode = "view", !.base = 0, !.filled = Deleted.name]
Unheard(rs) == [op \in Patches |-> IF rs[op] = NoPatch THEN NoPatch ELSE [rs[op] EXCEPT !.here = FALSE]]

-----------------------------------------------------------------------------
(* The user.  The form takes the name, and the card the updatedAt, from what *)
(* is shown when it is opened.                                               *)
Elsewhere(p) ==
    /\ desk[p].at = "projects" => desk[p].sees.at # 0
    /\ desk' = [desk EXCEPT ![p] = [Plain(@) EXCEPT !.all = FALSE,
                                       !.at = IF desk[p].at = "projects" THEN "settings" ELSE "projects"]]
    /\ patch' = [patch EXCEPT ![p] = Unheard(@)]
    /\ UNCHANGED <<venture, rumor, refetch, behind>>
SetShowArchived(p) ==
    /\ desk[p].at = "projects" /\ desk[p].sees.archived
    /\ desk' = [desk EXCEPT ![p] = IF @.all THEN [Plain(@) EXCEPT !.all = FALSE] ELSE [@ EXCEPT !.all = TRUE]]
    /\ patch' = IF desk[p].all THEN [patch EXCEPT ![p] = Unheard(@)] ELSE patch
    /\ UNCHANGED <<venture, rumor, refetch, behind>>
Touching(p, d) == desk' = [desk EXCEPT ![p] = d] /\ UNCHANGED <<venture, patch, rumor, refetch, behind>>
OpenEditing(p) ==
    /\ HasCard(desk[p]) /\ desk[p].mode = "view"
    /\ Touching(p, [desk[p] EXCEPT !.mode = "editing", !.base = desk[p].sees.at, !.filled = desk[p].sees.name])
HandleCancelEditing(p) ==
    /\ desk[p].mode \in {"editing", "conflict"} /\ Free(p, "details")
    /\ Touching(p, Plain(desk[p]))
OpenConfirm(p) ==
    /\ p = Owning /\ HasCard(desk[p]) /\ desk[p].mode = "view"
    /\ Touching(p, [desk[p] EXCEPT !.mode = "confirming"])
HandleCancelConfirm(p) ==
    /\ desk[p].mode = "confirming"
    /\ Touching(p, Plain(desk[p]))

\* Variant with the fault of an updatedAt read when the form is sent.
LiveBase(d) == d.sees.at

(* The updatedAt a change is based on. *)
EditingBase(d) == d.base

Asks(p, op, to) ==
    /\ Free(p, op)
    /\ Sends(p, op, [phase |-> "sent", here |-> TRUE, page |-> desk[p].at, to |-> to,
                     base |-> EditingBase(desk[p]), filled |-> desk[p].filled, previous |-> Deleted.name])
    /\ UNCHANGED <<venture, rumor, refetch, behind>>
HandleSubmitDetails(p) ==
    /\ desk[p].mode \in {"editing", "conflict"}
    /\ \E t \in Titles : Asks(p, "details", t)
    /\ desk' = [desk EXCEPT ![p].mode = "editing"]
HandleToggle(p, op) ==
    /\ desk[p].at = "settings" /\ desk[p].sees.at # 0
    /\ Asks(p, op, IF op = "finish" THEN ~desk[p].sees.finished ELSE ~desk[p].sees.archived)
    /\ UNCHANGED desk
(* handleConfirmAction of the card, handleDeleteProject of the settings.     *)
HandleDeleteProject(p) ==
    /\ p = Owning
    /\ desk[p].mode = "confirming" \/ (desk[p].at = "settings" /\ desk[p].sees.at # 0)
    /\ Asks(p, "delete", FALSE)
    /\ UNCHANGED desk

-----------------------------------------------------------------------------
(* The backend: the row is read, written, and the change is told.            *)
Backend == UNCHANGED <<desk, refetch>>
ReadPrevious(p, op) ==
    /\ patch[p][op].phase = "sent"
    /\ IF venture.at = 0 THEN Phase(p, op, "refused")
       ELSE Sends(p, op, [patch[p][op] EXCEPT !.phase = "read", !.previous = venture.name])
    /\ UNCHANGED <<venture, rumor, behind>> /\ Backend

\* Variant with the fault of an update that does not look at updatedAt.
AnyVersion(r) == venture.at # 0

(* The row that updateDetails writes: that of the updatedAt it was sent.     *)
SameVersion(r) == venture.at # 0 /\ venture.at = r.base

WriteDetails(p) ==
    LET r == patch[p]["details"] IN
    /\ r.phase = "read"
    /\ IF SameVersion(r)
       THEN /\ venture.at <= MaxEdits
            /\ venture' = [venture EXCEPT !.name = r.to, !.at = @ + 1]
            /\ Phase(p, "details", "written")
       ELSE Phase(p, "details", "stale") /\ UNCHANGED venture
    /\ UNCHANGED <<rumor, behind>> /\ Backend
WriteToggle(p, op) ==
    LET r == patch[p][op] IN
    /\ r.phase = "read"
    /\ IF venture.at # 0
       THEN /\ venture.at <= MaxEdits
            /\ venture' = [venture EXCEPT !.finished = IF op = "finish" THEN r.to ELSE @,
                                          !.archived = IF op = "archive" THEN r.to ELSE @, !.at = @ + 1]
            /\ Phase(p, op, "written")
       ELSE Phase(p, op, "refused") /\ UNCHANGED venture
    /\ UNCHANGED <<rumor, behind>> /\ Backend
WriteDelete(p) ==
    /\ patch[p]["delete"].phase = "read"
    /\ venture' = Deleted
    /\ Phase(p, "delete", IF venture.at = 0 THEN "refused" ELSE "written")
    /\ UNCHANGED <<rumor, behind>> /\ Backend

\* Variant with the fault of an edit told to nobody but its author.
ToAuthor(p, op) == IF op = "delete" THEN Desks \ {p} ELSE IF op = "details" THEN {p} ELSE Desks

(* emitToProject: everybody in the project's room, without who deleted it.   *)
Audience(p, op) == IF op = "delete" THEN Desks \ {p} ELSE Desks
EmitUpdated(p, op) ==
    /\ patch[p][op].phase = "written"
    /\ \A q \in Audience(p, op) : Len(rumor[q]) < MaxRumors
    /\ rumor' = [q \in Desks |-> IF q \in Audience(p, op) THEN Append(rumor[q], op = "delete") ELSE rumor[q]]
    /\ Phase(p, op, "told")
    /\ UNCHANGED <<venture, behind>> /\ Backend

(* An edit tells the other members by a notification first, and its event is *)
(* not sent when one of those fails; it does not if the name was the same.   *)
NotifyFails(p) ==
    LET r == patch[p]["details"] IN
    /\ r.phase = "written" /\ r.to # r.previous
    /\ behind' = Desks
    /\ Phase(p, "details", "failed")
    /\ UNCHANGED <<venture, rumor>> /\ Backend
(* Any other failure: of a read or a write, of a notification after the      *)
(* event of a toggle, or of the connection before the answer.                *)
RequestBreaks(p, op) ==
    /\ patch[p][op].phase \in {"sent", "read", "told"}
    /\ behind' = IF op = "delete" /\ patch[p][op].phase = "told" THEN behind \cup {p} ELSE behind
    /\ Phase(p, op, "failed")
    /\ UNCHANGED <<venture, rumor>> /\ Backend

-----------------------------------------------------------------------------
(* safeInvalidateRouter: the load starts, starts again, or the one that has  *)
(* its answer under way is taken for it (the router decides).                *)
Revalidate(p) ==
    \/ refetch' = [refetch EXCEPT ![p] = [at |-> "asked"]] /\ UNCHANGED behind
    \/ refetch[p].at = "answered" /\ behind' = behind \cup {p} /\ UNCHANGED refetch

(* The answers.  The card goes back to its view once an edit is saved, and   *)
(* shows a conflict to who edited an earlier row; the settings of a deleted  *)
(* project are left.  The buttons stay disabled until the page has loaded.   *)
PatchSucceeds(p, op) ==
    LET r == patch[p][op] IN
    /\ r.phase = "told"
    /\ Revalidate(p) /\ Phase(p, op, "reloading")
    /\ desk' = CASE op = "details" /\ r.here -> [desk EXCEPT ![p] = Plain(@)]
                 [] op = "delete" /\ r.page = "settings" /\ desk[p].at = "settings" ->
                      [desk EXCEPT ![p] = [Plain(@) EXCEPT !.at = "projects"]]
                 [] OTHER -> desk
    /\ UNCHANGED <<venture, rumor>>
PatchRefused(p, op) ==
    LET r == patch[p][op] IN
    /\ r.phase \in {"refused", "stale", "failed"}
    /\ Sends(p, op, NoPatch)
    /\ desk' = IF r.phase = "stale" /\ r.here THEN [desk EXCEPT ![p].mode = "conflict"] ELSE desk
    /\ UNCHANGED <<venture, rumor, refetch, behind>>

(* The events: invalidate, and leaveDeadProject for who is in the settings.  *)
HearProject(p) ==
    /\ rumor[p] # <<>> /\ rumor' = [rumor EXCEPT ![p] = Tail(@)]
    /\ Revalidate(p)
    /\ IF Head(rumor[p]) /\ desk[p].at = "settings"
       THEN desk' = [desk EXCEPT ![p].at = "projects"] /\ patch' = [patch EXCEPT ![p] = Unheard(@)]
       ELSE UNCHANGED <<desk, patch>>
    /\ UNCHANGED venture
LoseRumors(p) ==
    /\ rumor[p] # <<>> /\ rumor' = [rumor EXCEPT ![p] = <<>>]
    /\ behind' = behind \cup {p}
    /\ UNCHANGED <<venture, desk, patch, refetch>>

(* The loader reads the row (findAll, findById); its answer is shown.        *)
LoadReads(p) ==
    /\ refetch[p].at = "asked"
    /\ refetch' = [refetch EXCEPT ![p] = [at |-> "answered", row |-> venture]]
    /\ behind' = behind \ {p}
    /\ UNCHANGED <<venture, desk, patch, rumor>>

Loaded(p, d) ==
    LET hidden == d.at = "projects" /\ ~HasCard(d)
        ends == {op \in Patches : patch[p][op].phase = "reloading"}
        plain == hidden \/ ("delete" \in ends /\ patch[p]["delete"].here /\ patch[p]["delete"].page = "projects")
    IN  /\ desk' = [desk EXCEPT ![p] = IF plain THEN Plain(d) ELSE d]
        /\ patch' = [patch EXCEPT ![p] = LET rs == [op \in Patches |-> IF op \in ends THEN NoPatch ELSE @[op]]
                                         IN  IF hidden THEN Unheard(rs) ELSE rs]
        /\ refetch' = [refetch EXCEPT ![p] = NoLoad]
        /\ UNCHANGED <<venture, rumor>>
LoadAnswers(p) ==
    /\ refetch[p].at = "answered"
    /\ Loaded(p, [desk[p] EXCEPT !.sees = refetch[p].row])
    /\ UNCHANGED behind
LoadFails(p) ==
    /\ refetch[p].at # "none"
    /\ Loaded(p, desk[p])
    /\ behind' = behind \cup {p}

-----------------------------------------------------------------------------
CardsInit ==
    /\ venture = [Deleted EXCEPT !.at = 1]
    /\ desk = [p \in Desks |-> [at |-> "projects", all |-> FALSE, sees |-> venture, mode |-> "view",
                                base |-> 0, filled |-> Deleted.name]]
    /\ patch = [p \in Desks |-> [op \in Patches |-> NoPatch]]
    /\ rumor = [p \in Desks |-> <<>>] /\ refetch = [p \in Desks |-> NoLoad] /\ behind = {}

CardsNext == \E p \in Desks :
    \/ Elsewhere(p) \/ SetShowArchived(p) \/ OpenEditing(p) \/ HandleCancelEditing(p)
    \/ OpenConfirm(p) \/ HandleCancelConfirm(p) \/ HandleSubmitDetails(p) \/ HandleDeleteProject(p)
    \/ WriteDetails(p) \/ WriteDelete(p) \/ NotifyFails(p)
    \/ \E op \in Toggles : HandleToggle(p, op) \/ WriteToggle(p, op)
    \/ \E op \in Patches : \/ ReadPrevious(p, op) \/ EmitUpdated(p, op) \/ RequestBreaks(p, op)
                           \/ PatchSucceeds(p, op) \/ PatchRefused(p, op)
    \/ HearProject(p) \/ LoseRumors(p) \/ LoadReads(p) \/ LoadAnswers(p) \/ LoadFails(p)

CardsSpec == CardsInit /\ [][CardsNext]_cards

-----------------------------------------------------------------------------
(* A saved edit replaces the name that its author had before him when he     *)
(* opened the form, and no other: however many edits, toggles, events and    *)
(* reloads came in between, nobody's change is overwritten unseen.           *)
EditsKeepOthers ==
    [][\A p \in Desks : patch[p]["details"].phase = "read" /\ patch'[p]["details"].phase = "written"
          => venture.name = patch[p]["details"].filled]_cards

(* Once nothing is under way a page shows the project as it is, or no more   *)
(* when it was deleted; unless the page missed a change or its load was lost.*)
CardsFollowProject ==
    \A p \in Desks :
        /\ rumor[p] = <<>> /\ refetch[p] = NoLoad /\ p \notin behind
        /\ \A q \in Desks, op \in Patches :
              patch[q][op].phase # "written" /\ (op = "delete" => patch[q][op].phase # "told")
        => desk[p].sees = venture
=============================================================================
