------------------------------- MODULE Calendar -------------------------------
(***************************************************************************)
(* The calendar: an event with its dates and the members assigned to it    *)
(* (calendar-events.service.ts, calendar-assignee.service.ts), the page of *)
(* one member (calendar.tsx, EventForm.tsx) and the calls of all others.   *)
(* An event is changed by several statements in a row.  Only the last two  *)
(* share a transaction, READ COMMITTED: it empties the list and fills it   *)
(* again.  Who is told is decided from what the first one read.  Labels,   *)
(* titles and notes are left out: of a label it matters that a call may be *)
(* refused for one, see CalendarCallFails.                                 *)
(***************************************************************************)
EXTENDS Integers, FiniteSets

CONSTANTS Colleagues,   \* those who may be members of the project
          Days, MaxEvents,      \* bounds: dates, and events in the course of a behaviour,
          MaxCalls              \* and requests handled at a time

ASSUME CalendarBounds == Days \subseteq Nat \ {0} /\ {MaxEvents, MaxCalls} \subseteq Nat

VARIABLES team,         \* rows of project_member
          leaving,      \* whom a removal has taken out, and not yet his assignments
          meeting,      \* the event, with the number of events there have been
          calendarCall, \* per request where it is, and what it has read
          untoldOf,     \* notices on their way
          sheet,        \* the page of one member
          told,         \* history: those who know themselves assigned
          doubted,      \* history: those who may have been told something else
          strayed,      \* history: those assigned while they were removed
          crossed       \* history: a date was checked against one that has changed

calendar == <<team, leaving, meeting, calendarCall, untoldOf, sheet, told, doubted, strayed, crossed>>

Calls == 1..MaxCalls

NoEvent == [id |-> 0, there |-> FALSE, start |-> 0, end |-> 0, assignees |-> {}]
NoCalendarCall ==
    [phase |-> "none", kind |-> "update", by |-> "nobody", id |-> 0, start |-> 0, end |-> 0,
     assigns |-> FALSE, ids |-> {}, before |-> NoEvent, outrun |-> {}, wipes |-> {}]

CalendarInit ==
    /\ team = Colleagues /\ leaving = {} /\ meeting = NoEvent
    /\ calendarCall = [c \in Calls |-> NoCalendarCall] /\ untoldOf = {}
    /\ sheet \in [owner: Colleagues, drawer: {"closed"}, shows: {0}, waits: {{}}]
    /\ told = {} /\ doubted = {} /\ strayed = {} /\ crossed = FALSE

FreeCall(c) == calendarCall[c].phase = "none" /\ \A n \in untoldOf : n.call # c
FirstFree(c) == FreeCall(c) /\ \A d \in Calls : d < c => ~FreeCall(d)
SentCall(c, call) == calendarCall' = [calendarCall EXCEPT ![c] = [call EXCEPT !.phase = "guard"]]

-----------------------------------------------------------------------------
(* The page, which is the owner's.  Its form starts from the list that the   *)
(* loader read last, however long ago that is by then, and sends all its     *)
(* fields: any dates in order and any members.                               *)

OpenDay ==
    /\ sheet.drawer = "closed" /\ sheet' = [sheet EXCEPT !.drawer = "create"]
    /\ UNCHANGED <<team, leaving, meeting, calendarCall, untoldOf, told, doubted, strayed, crossed>>

OpenEvent ==
    /\ sheet.drawer = "closed" /\ meeting.there /\ sheet' = [sheet EXCEPT !.drawer = "edit", !.shows = meeting.id]
    /\ UNCHANGED <<team, leaving, meeting, calendarCall, untoldOf, told, doubted, strayed, crossed>>

(* A drawer can be left while its form is being saved. *)
Closed == [sheet EXCEPT !.drawer = "closed", !.shows = 0, !.waits = {}]
CloseDrawer ==
    /\ sheet.drawer # "closed" /\ sheet' = Closed
    /\ UNCHANGED <<team, leaving, meeting, calendarCall, untoldOf, told, doubted, strayed, crossed>>

FilledDates == {d \in [start: Days, end: Days] : d.start <= d.end}
FilledMembers == SUBSET Colleagues

PageWaits(kinds) == \E c \in sheet.waits : calendarCall[c].kind \in kinds
OfPage == [NoCalendarCall EXCEPT !.by = sheet.owner, !.id = sheet.shows]

SaveForm(c) ==
    /\ FirstFree(c) /\ sheet.drawer # "closed" /\ ~PageWaits({"create", "edit"})
    /\ \E d \in FilledDates, ids \in FilledMembers :
          SentCall(c, [OfPage EXCEPT !.kind = sheet.drawer, !.start = d.start, !.end = d.end,
                                     !.assigns = TRUE, !.ids = ids])
    /\ sheet' = [sheet EXCEPT !.waits = @ \cup {c}]
    /\ UNCHANGED <<team, leaving, meeting, untoldOf, told, doubted, strayed, crossed>>

DeleteShown(c) ==
    /\ FirstFree(c) /\ sheet.drawer = "edit" /\ ~PageWaits({"delete"})
    /\ SentCall(c, [OfPage EXCEPT !.kind = "delete"])
    /\ sheet' = [sheet EXCEPT !.waits = @ \cup {c}]
    /\ UNCHANGED <<team, leaving, meeting, untoldOf, told, doubted, strayed, crossed>>

(* The answer to a call of the page.  After a success the loader runs again, *)
(* and then the drawer is closed, whatever it shows by now.                  *)
EndedCall(c) == [calendarCall EXCEPT ![c] = NoCalendarCall]
AnswerPage(c) ==
    LET r == calendarCall[c]
        reload == [NoCalendarCall EXCEPT !.phase = "reload", !.kind = r.kind]
    IN  [calendarCall EXCEPT ![c] = IF r.by = sheet.owner THEN reload ELSE NoCalendarCall]

CalendarReloaded(c) ==
    /\ calendarCall[c].phase = "reload" /\ calendarCall' = EndedCall(c) /\ sheet' = Closed
    /\ UNCHANGED <<team, leaving, meeting, untoldOf, told, doubted, strayed, crossed>>

(* Calls of all others: pages of theirs, and programs that send one field.   *)
CallDirectly(c) ==
    /\ FirstFree(c) /\ meeting.there
    /\ \E u \in Colleagues \ {sheet.owner} :
          LET call == [NoCalendarCall EXCEPT !.by = u, !.id = meeting.id] IN
          \/ \E d \in Days : SentCall(c, [call EXCEPT !.start = d]) \/ SentCall(c, [call EXCEPT !.end = d])
          \/ \E ids \in SUBSET Colleagues : SentCall(c, [call EXCEPT !.assigns = TRUE, !.ids = ids])
          \/ SentCall(c, [call EXCEPT !.kind = "delete"])
    /\ UNCHANGED <<team, leaving, meeting, untoldOf, sheet, told, doubted, strayed, crossed>>

-----------------------------------------------------------------------------
(* create(), update() and remove(), from one await to the next.              *)
At(c, phase) == calendarCall[c].phase = phase
Goes(c, phase) == calendarCall' = [calendarCall EXCEPT ![c].phase = phase]
Found(c) == meeting.there /\ meeting.id = calendarCall[c].id

\* Variant with the fault of checking only the dates that were sent.
SentOnly(r, old) == [start |-> r.start, end |-> IF r.end = 0 THEN r.start ELSE r.end]

(* The dates as they will end up in the row: those sent, and those read.     *)
Together(r, old) ==
    [start |-> IF r.start = 0 THEN old.start ELSE r.start, end |-> IF r.end = 0 THEN old.end ELSE r.end]

(* findById() as a guard, and assertValidDateRange().                        *)
GuardCall(c) ==
    LET r == calendarCall[c] IN
    /\ At(c, "guard") /\ r.by \in team
    /\ r.kind # "create" => Found(c)
    /\ r.kind # "delete" => Together(r, meeting).start <= Together(r, meeting).end
    /\ calendarCall' = [calendarCall EXCEPT ![c].phase = IF r.assigns THEN "members" ELSE "write",
                                            ![c].before = IF r.kind = "create" THEN NoEvent ELSE meeting]
    /\ UNCHANGED <<team, leaving, meeting, untoldOf, sheet, told, doubted, strayed, crossed>>

\* Variant with the fault of taking the ids as they come.
AnyIds(c) == TRUE

AssigneesAreMembers(c) == calendarCall[c].ids \subseteq team

CheckAssignees(c) ==
    /\ At(c, "members") /\ AssigneesAreMembers(c) /\ Goes(c, "write")
    /\ UNCHANGED <<team, leaving, meeting, untoldOf, sheet, told, doubted, strayed, crossed>>

(* One event at a time, with the next number. *)
WriteNew(c) ==
    LET r == calendarCall[c] IN
    /\ At(c, "write") /\ r.kind = "create" /\ ~meeting.there /\ meeting.id < MaxEvents
    /\ meeting' = [id |-> meeting.id + 1, there |-> TRUE, start |-> r.start, end |-> r.end, assignees |-> {}]
    /\ calendarCall' = [calendarCall EXCEPT ![c].phase = "assign", ![c].id = meeting.id + 1,
                                            ![c].start = 0, ![c].end = 0]
    /\ told' = {} /\ doubted' = {} /\ strayed' = {} /\ crossed' = FALSE
    /\ UNCHANGED <<team, leaving, untoldOf, sheet>>

WriteDates(c) ==
    LET r == calendarCall[c] IN
    /\ At(c, "write") /\ r.kind \in {"edit", "update"} /\ Found(c)
    /\ meeting' = [meeting EXCEPT !.start = Together(r, meeting).start, !.end = Together(r, meeting).end]
    /\ crossed' = IF r.start # 0 /\ r.end # 0 THEN FALSE
                  ELSE crossed \/ Together(r, r.before) # Together(r, meeting)
    /\ calendarCall' = [calendarCall EXCEPT ![c].phase = IF r.assigns THEN "assign" ELSE "read",
                                            ![c].start = 0, ![c].end = 0,
                                            ![c].before = [NoEvent EXCEPT !.assignees = r.before.assignees]]
    /\ UNCHANGED <<team, leaving, untoldOf, sheet, told, doubted, strayed>>

(* Somebody else may have deleted it already, which is as good. *)
DeleteRow(c) ==
    /\ At(c, "write") /\ calendarCall[c].kind = "delete"
    /\ meeting' = IF Found(c) THEN [NoEvent EXCEPT !.id = meeting.id] ELSE meeting
    /\ calendarCall' = AnswerPage(c)
    /\ UNCHANGED <<team, leaving, untoldOf, sheet, told, doubted, strayed, crossed>>

\* Variant with the fault of telling only those who are added.
OnlyAdded(c) ==
    LET r == calendarCall[c] IN
    {[call |-> c, id |-> r.id, user |-> u, word |-> "added"] : u \in r.ids \ (r.before.assignees \cup {r.by})}

(* notifyNewAssignees() and notifyRemovedAssignees(): the difference to what *)
(* the guard read, without the one who acts.                                 *)
NoticesOf(c) ==
    LET r == calendarCall[c]
        Of(word, people) == {[call |-> c, id |-> r.id, user |-> u, word |-> word] : u \in people \ {r.by}}
    IN  Of("added", r.ids \ r.before.assignees) \cup Of("removed", r.before.assignees \ r.ids)

Differ(a, b) == (a \ b) \cup (b \ a)

(* replaceAssignees(), first statement: it deletes the rows it sees, which   *)
(* are those committed.  If another call has deleted one of them it waits    *)
(* for that one's end, and then finds the row gone.                          *)
Rowed(c) == IF Found(c) THEN meeting.assignees ELSE {}
Held(c, rows) == \E d \in Calls \ {c} : At(d, "wiped") /\ Found(d) /\ calendarCall[d].wipes \cap rows # {}

EmptyList(c) ==
    /\ At(c, "assign")
    /\ calendarCall' = [calendarCall EXCEPT ![c].phase = IF Held(c, Rowed(c)) THEN "wiping" ELSE "wiped",
                                            ![c].wipes = Rowed(c)]
    /\ UNCHANGED <<team, leaving, meeting, untoldOf, sheet, told, doubted, strayed, crossed>>

HoldRows(c) ==
    /\ At(c, "wiping") /\ ~Held(c, calendarCall[c].wipes) /\ Goes(c, "wiped")
    /\ UNCHANGED <<team, leaving, meeting, untoldOf, sheet, told, doubted, strayed, crossed>>

(* Rows that are gone, for those who wait for them too. *)
Gone(rows) == [d \in Calls |-> [calendarCall[d] EXCEPT !.wipes = @ \ rows]]
Replaced(c) == [Gone(calendarCall[c].wipes) EXCEPT ![c].phase = "notify", ![c].ids = {}, ![c].before = NoEvent,
                                                   ![c].outrun = {}]
Pending(id) == {n.user : n \in {m \in untoldOf : m.id = id}}

(* Second statement, and the commit.  The insert fails when the event is     *)
(* gone, and on a row of the same person that the first one did not see.     *)
(* Rows that it did not see of others stay.  A removal that waited for a row *)
(* which is put back by this does not find the new one.                      *)
Replace(c) ==
    LET r == calendarCall[c]
        unseen == meeting.assignees \ r.wipes
    IN
    /\ At(c, "wiped") /\ Found(c) /\ r.ids \cap unseen = {}
    /\ meeting' = [meeting EXCEPT !.assignees = unseen \cup r.ids]
    /\ untoldOf' = untoldOf \cup NoticesOf(c)
    /\ calendarCall' = Replaced(c)
    /\ \E gone \in {{}, leaving \cap r.wipes \cap r.ids} :
          /\ leaving' = leaving \ gone
          /\ told' = (IF r.by \in r.ids THEN told \cup {r.by} ELSE told \ {r.by}) \ gone
          /\ doubted' = doubted \cup Differ(r.before.assignees, meeting.assignees) \cup Pending(r.id)
                          \cup unseen \cup gone
    /\ strayed' = (strayed \cup r.outrun) \cap (unseen \cup r.ids)
    /\ UNCHANGED <<team, sheet, crossed>>

(* Nothing to insert: that the event is gone is noticed by the read only.    *)
(* What is told of it until then is left out, as it concerns no event.       *)
ReplaceNone(c) ==
    /\ At(c, "wiped") /\ ~Found(c) /\ calendarCall[c].ids = {} /\ calendarCall' = Replaced(c)
    /\ UNCHANGED <<team, leaving, meeting, untoldOf, sheet, told, doubted, strayed, crossed>>

(* A notice reaches its user; one about an event that is gone says nothing.  *)
NoticeReaches(n) ==
    /\ untoldOf' = untoldOf \ {n}
    /\ told' = IF n.id # meeting.id THEN told ELSE IF n.word = "added" THEN told \cup {n.user} ELSE told \ {n.user}
    /\ UNCHANGED <<team, leaving, meeting, calendarCall, sheet, doubted, strayed, crossed>>

(* An error ends the call.  What it has written by then stays, of which its  *)
(* user is not told, and the form stays open.                                *)
Failing(c) ==
    /\ calendarCall' = EndedCall(c) /\ sheet' = [sheet EXCEPT !.waits = @ \ {c}]

CalendarCallFails(c) ==
    /\ calendarCall[c].phase \in {"guard", "members", "write", "assign", "wiping", "wiped", "notify", "read"}
    /\ At(c, "notify") => \A n \in untoldOf : n.call # c
    /\ Failing(c)
    /\ doubted' = IF At(c, "notify") THEN doubted \cup {calendarCall[c].by} ELSE doubted
    /\ UNCHANGED <<team, leaving, meeting, untoldOf, told, strayed, crossed>>

(* One notice that fails ends the call, the others are still on their way.   *)
NoticeFails(n) ==
    /\ untoldOf' = untoldOf \ {n}
    /\ IF At(n.call, "notify") THEN Failing(n.call) ELSE UNCHANGED <<calendarCall, sheet>>
    /\ doubted' = IF n.id = meeting.id THEN doubted \cup {n.user, calendarCall[n.call].by} ELSE doubted
    /\ UNCHANGED <<team, leaving, meeting, told, strayed, crossed>>

(* findById() for the answer. *)
ReadAnswer(c) ==
    /\ calendarCall[c].phase \in {"notify", "read"} /\ \A n \in untoldOf : n.call # c
    /\ calendarCall[c].by \in team /\ Found(c)
    /\ calendarCall' = AnswerPage(c)
    /\ UNCHANGED <<team, leaving, meeting, untoldOf, sheet, told, doubted, strayed, crossed>>

-----------------------------------------------------------------------------
(* removeMember() and addMember(), one at a time.  Whoever is removed is told *)
(* that, and so has nothing to do with the event from there on.              *)

Assigning(c) == calendarCall[c].phase \in {"write", "assign", "wiping", "wiped"}
RemoveFromTeam(u) ==
    /\ leaving = {} /\ u \in team \ {sheet.owner} /\ team' = team \ {u} /\ leaving' = {u}
    /\ calendarCall' = [c \in Calls |-> IF Assigning(c) /\ u \in calendarCall[c].ids
                                        THEN [calendarCall[c] EXCEPT !.outrun = @ \cup {u}] ELSE calendarCall[c]]
    /\ UNCHANGED <<meeting, untoldOf, sheet, told, doubted, strayed, crossed>>

(* Waits, as the replacement does, for a row that another call has deleted.  *)
RemoveAssignees ==
    /\ leaving # {} /\ leaving' = {}
    /\ \A c \in Calls : At(c, "wiped") /\ Found(c) => calendarCall[c].wipes \cap leaving = {}
    /\ calendarCall' = Gone(leaving)
    /\ meeting' = [meeting EXCEPT !.assignees = @ \ leaving]
    /\ told' = told \ leaving /\ strayed' = strayed \ leaving
    /\ doubted' = doubted \cup {n.user : n \in {m \in untoldOf : m.user \in leaving}}
    /\ UNCHANGED <<team, untoldOf, sheet, crossed>>

RemovalEndsEarly ==
    /\ leaving # {} /\ leaving' = {}
    /\ strayed' = strayed \cup (leaving \cap meeting.assignees)
    /\ UNCHANGED <<team, meeting, calendarCall, untoldOf, sheet, told, doubted, crossed>>

AddToTeam(u) ==
    /\ leaving = {} /\ u \notin team /\ team' = team \cup {u} /\ strayed' = strayed \ {u}
    /\ UNCHANGED <<leaving, meeting, calendarCall, untoldOf, sheet, told, doubted, crossed>>

CalendarNext ==
    \/ OpenDay \/ OpenEvent \/ CloseDrawer
    \/ \E c \in Calls :
          \/ SaveForm(c) \/ DeleteShown(c) \/ CalendarReloaded(c) \/ CallDirectly(c)
          \/ GuardCall(c) \/ CheckAssignees(c) \/ WriteNew(c) \/ WriteDates(c) \/ DeleteRow(c)
          \/ EmptyList(c) \/ HoldRows(c) \/ Replace(c) \/ ReplaceNone(c) \/ CalendarCallFails(c) \/ ReadAnswer(c)
    \/ \E n \in untoldOf : NoticeReaches(n) \/ NoticeFails(n)
    \/ \E u \in Colleagues : RemoveFromTeam(u) \/ AddToTeam(u)
    \/ RemoveAssignees \/ RemovalEndsEarly

CalendarSpec == CalendarInit /\ [][CalendarNext]_calendar

-----------------------------------------------------------------------------
(* An event does not end before it starts, also when a call sends one of the *)
(* dates, unless the other has changed since it was checked; and those       *)
(* assigned to it are members of the project, except whom a removal took out *)
(* in the middle of the call, or left behind when it failed: for as long as  *)
(* the row is there, also when another call did not see it.                  *)
EventsSound ==
    /\ meeting.there /\ ~crossed => meeting.start <= meeting.end
    /\ meeting.assignees \subseteq team \cup leaving \cup strayed

(* With nothing on its way to them, the members who are assigned to an event *)
(* know it, and those who are not do not think so: the notices agree with    *)
(* the rows, through any number of changes.  Not claimed of anyone who was   *)
(* told by two calls that overlapped, about whom one failed, or whose row a  *)
(* call did not see that emptied the list while another filled it: he may be *)
(* told that he is removed, and stays assigned.                              *)
AssigneesKnow ==
    \A u \in team \ doubted :
        meeting.there /\ (\A n \in untoldOf : n.user # u) => (u \in told <=> u \in meeting.assignees)
=============================================================================
