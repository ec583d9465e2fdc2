------------------------- MODULE NotificationBell --------------------------
(***************************************************************************)
(* The notifications of one user: their rows (notifications.service.ts),   *)
(* the events about them and the bells of the user's tabs                  *)
(* (NotificationBell.tsx), which fetch the whole list when they appear and *)
(* on every (re)connection, and follow events in between.                  *)
(*                                                                         *)
(* A change is committed, then announced to every connected tab, then      *)
(* answered; other changes may come between these steps.  What a           *)
(* notification says, its link and the toasts are left out.                *)
(***************************************************************************)
EXTENDS Integers, Sequences

CONSTANTS Bells,        \* tabs with a bell
          MaxNotes,     \* notifications created
          MaxFetches    \* fetches of one bell at a time

VARIABLES stored,       \* the table: "none" yet, "unread", "read" or "gone"
          untold,       \* created, not yet announced
          post,         \* events on their way to each tab
          bell,         \* per tab: connected or not, its list, its fetches
          ask,          \* per tab, a request under way
          doubtful      \* history: bells that may not know

bells == <<stored, untold, post, bell, ask, doubtful>>

Notes == 1..MaxNotes
Created == {n \in Notes : stored[n] # "none"}
Stored == {n \in Notes : stored[n] \in {"unread", "read"}}

Fetches == 1..MaxFetches

(* A list, as how often it shows each notification as unread and as read.    *)
Unlisted == [unread |-> 0, read |-> 0]
NoteRows == [n \in Notes |-> [unread |-> IF stored[n] = "unread" THEN 1 ELSE 0,
                             read |-> IF stored[n] = "read" THEN 1 ELSE 0]]
Listed(t) == {n \in Notes : bell[t].list[n] # Unlisted}
Unread(t) == {n \in Notes : bell[t].list[n].unread > 0}

NoFetch == [at |-> "none", page |-> [n \in Notes |-> Unlisted], clean |-> FALSE]
NoAsk == [op |-> "none", id |-> 0, at |-> "none", cover |-> {}, late |-> FALSE]
Deliver(event) == [t \in Bells |-> IF bell[t].online THEN Append(post[t], event) ELSE post[t]]

-----------------------------------------------------------------------------
(* create, called by the other services. *)
CreateNote == \E n \in Notes :
    /\ stored[n] = "none" /\ \A m \in Notes : m < n => stored[m] # "none"
    /\ stored' = [stored EXCEPT ![n] = "unread"] /\ untold' = untold \cup {n}
    /\ UNCHANGED <<post, bell, ask, doubtful>>
AnnounceNew(n) ==
    /\ n \in untold /\ untold' = untold \ {n}
    /\ post' = Deliver([op |-> "new", id |-> n, cover |-> {}, late |-> stored[n] # "unread"])
    /\ UNCHANGED <<stored, bell, ask, doubtful>>

-----------------------------------------------------------------------------
(* The buttons of the bell. *)
AskAbout(t, op, id) ==
    /\ ask[t] = NoAsk
    /\ ask' = [ask EXCEPT ![t] = [NoAsk EXCEPT !.op = op, !.id = id, !.at = "sent"]]
    /\ UNCHANGED <<stored, untold, post, bell, doubtful>>
HandleMarkAsRead(t) == \E n \in Unread(t) : AskAbout(t, "read", n)
HandleDeleteNote(t) == \E n \in Listed(t) : AskAbout(t, "deleted", n)
HandleMarkAllAsRead(t) == Unread(t) # {} /\ AskAbout(t, "read-all", 0)
HandleDeleteAll(t) == Listed(t) # {} /\ AskAbout(t, "deleted-all", 0)

(* findOwnedOrThrow, of the requests about one notification. *)
FindOwned(t) ==
    /\ ask[t].at = "sent" /\ ask[t].id \in Stored
    /\ ask' = [ask EXCEPT ![t].at = "found"]
    /\ UNCHANGED <<stored, untold, post, bell, doubtful>>

(* The change; one that finds the row gone fails, or is as good as done. *)
ChangeOne(t) ==
    /\ ask[t].at = "found"
    /\ ask[t].op = "read" => ask[t].id \in Stored
    /\ stored' = [stored EXCEPT ![ask[t].id] = IF ask[t].op = "read" THEN "read" ELSE "gone"]
    /\ ask' = [ask EXCEPT ![t].at = "changed"]
    /\ UNCHANGED <<untold, post, bell, doubtful>>
ChangeAll(t) ==
    /\ ask[t].at = "sent" /\ ask[t].op \in {"read-all", "deleted-all"}
    /\ stored' = [n \in Notes |-> IF n \notin Stored THEN stored[n]
                                 ELSE IF ask[t].op = "read-all" THEN "read" ELSE "gone"]
    /\ ask' = [ask EXCEPT ![t].at = "changed", ![t].cover = Created]
    /\ UNCHANGED <<untold, post, bell, doubtful>>
AnnounceChange(t) ==
    /\ ask[t].at = "changed"
    /\ post' = Deliver([op |-> ask[t].op, id |-> ask[t].id, cover |-> ask[t].cover, late |-> FALSE])
    /\ ask' = [ask EXCEPT ![t].at = "answered"]
    /\ UNCHANGED <<stored, untold, bell, doubtful>>

-----------------------------------------------------------------------------
(* What an event, or the answer to an own request, does to a list: a new one *)
(* is put in front, whether the list has it or not.                          *)
RowAfter(e, n, row) ==
    CASE e.op = "new" /\ n = e.id -> [row EXCEPT !.unread = @ + 1]
      [] e.op = "read-all" \/ (e.op = "read" /\ n = e.id) -> [unread |-> 0, read |-> row.unread + row.read]
      [] e.op = "deleted-all" \/ (e.op = "deleted" /\ n = e.id) -> Unlisted
      [] OTHER -> row
ListAfter(e, list) == [n \in Notes |-> RowAfter(e, n, list[n])]

(* Doubt comes from a change of all rows that reaches a bell with a newer    *)
(* one, and from the news of a row that has been changed since.  A page read *)
(* and still to come must not take back what is applied now.                 *)
Overreaches(e, t) == e.op \in {"read-all", "deleted-all"} /\ ~(Listed(t) \subseteq e.cover)
Reviewed(e, f) == [f EXCEPT !.clean = @ /\ ListAfter(e, f.page) = f.page]
Apply(t, e) ==
    /\ bell' = [bell EXCEPT ![t].list = ListAfter(e, @),
                            ![t].fetches = [k \in Fetches |-> Reviewed(e, bell[t].fetches[k])]]
    /\ doubtful' = IF e.late \/ Overreaches(e, t) THEN doubtful \cup {t} ELSE doubtful
HearNote(t) ==
    /\ post[t] # <<>> /\ post' = [post EXCEPT ![t] = Tail(@)]
    /\ Apply(t, Head(post[t]))
    /\ UNCHANGED <<stored, untold, ask>>
Succeeded(t) ==
    /\ ask[t].at = "answered" /\ ask' = [ask EXCEPT ![t] = NoAsk]
    /\ Apply(t, ask[t])
    /\ UNCHANGED <<stored, untold, post>>
FailAsk(t) ==
    /\ ask[t].at \in {"sent", "found", "answered"} /\ ask' = [ask EXCEPT ![t] = NoAsk]
    /\ UNCHANGED <<stored, untold, post, bell, doubtful>>

-----------------------------------------------------------------------------
(* refetch: sent, read from the table, and put in the place of the list.  A  *)
(* page is clean if it is read while the tab is connected and no news of one *)
(* of its rows are still to come, and as long as nothing is applied or lost  *)
(* that it does not show.                                                    *)
SentFetch == [NoFetch EXCEPT !.at = "sent"]

ServeFetch(t) == \E k \in Fetches :
    /\ bell[t].fetches[k].at = "sent"
    /\ LET clean == bell[t].online /\ untold = {} /\ \A i \in DOMAIN post[t] : post[t][i].op # "new"
       IN  bell' = [bell EXCEPT ![t].fetches[k] = [at |-> "read", page |-> NoteRows, clean |-> clean]]
    /\ UNCHANGED <<stored, untold, post, ask, doubtful>>
LandFetch(t) == \E k \in Fetches :
    /\ bell[t].fetches[k].at = "read"
    /\ bell' = [bell EXCEPT ![t].list = bell[t].fetches[k].page, ![t].fetches[k] = NoFetch]
    /\ doubtful' = IF bell[t].fetches[k].clean THEN doubtful \ {t} ELSE doubtful \cup {t}
    /\ UNCHANGED <<stored, untold, post, ask>>
FailFetch(t) == \E k \in Fetches :
    /\ bell[t].fetches[k] # NoFetch
    /\ bell' = [bell EXCEPT ![t].fetches[k] = NoFetch]
    /\ doubtful' = doubtful \cup {t}
    /\ UNCHANGED <<stored, untold, post, ask>>

(* Socket.io loses what is announced while a tab is disconnected. *)
DropConnection(t) ==
    /\ bell[t].online
    /\ bell' = [bell EXCEPT ![t].online = FALSE,
                            ![t].fetches = [k \in Fetches |-> [bell[t].fetches[k] EXCEPT !.clean = FALSE]]]
    /\ post' = [post EXCEPT ![t] = <<>>]
    /\ UNCHANGED <<stored, untold, ask, doubtful>>

\* Variant with the fault of a bell that does not fetch on reconnection.
MountOnly(t, k) == bell[t].fetches

(* On connection, with the fetch of the mounting still under way or not.     *)
Refetched(t, k) == [bell[t].fetches EXCEPT ![k] = SentFetch]
ConnectAgain(t) == \E k \in Fetches :
    /\ ~bell[t].online /\ bell[t].fetches[k] = NoFetch
    /\ bell' = [bell EXCEPT ![t].online = TRUE, ![t].fetches = Refetched(t, k)]
    /\ doubtful' = doubtful \ {t}
    /\ UNCHANGED <<stored, untold, post, ask>>

-----------------------------------------------------------------------------
BellsInit ==
    /\ stored = [n \in Notes |-> "none"] /\ untold = {} /\ doubtful = {}
    /\ post = [t \in Bells |-> <<>>] /\ ask = [t \in Bells |-> NoAsk]
    /\ bell = [t \in Bells |-> [online |-> FALSE, list |-> NoFetch.page,
                               fetches |-> [k \in Fetches |-> IF k = 1 THEN SentFetch ELSE NoFetch]]]

BellsNext ==
    \/ CreateNote \/ \E n \in untold : AnnounceNew(n)
    \/ \E t \in Bells :
          \/ HandleMarkAsRead(t) \/ HandleDeleteNote(t) \/ HandleMarkAllAsRead(t) \/ HandleDeleteAll(t)
          \/ FindOwned(t) \/ ChangeOne(t) \/ ChangeAll(t) \/ AnnounceChange(t)
          \/ HearNote(t) \/ Succeeded(t) \/ FailAsk(t)
          \/ ServeFetch(t) \/ LandFetch(t) \/ FailFetch(t)
          \/ DropConnection(t) \/ ConnectAgain(t)

BellsSpec == BellsInit /\ [][BellsNext]_bells

-----------------------------------------------------------------------------
(* A connected bell with no fetch, event or news under way lists every       *)
(* notification once, as it is in the table, whatever the tabs did and       *)
(* whatever it missed while it was disconnected.  In doubt are bells whose   *)
(* last fetch failed or crossed an event, those a change of all rows reached *)
(* together with a newer notification, and those that heard of a             *)
(* notification after its change.                                            *)
BellShowsRows ==
    \A t \in Bells :
        bell[t].online /\ (\A k \in Fetches : bell[t].fetches[k] = NoFetch)
            /\ post[t] = <<>> /\ untold = {} /\ (\A u \in Bells : ask[u].at # "changed")
        => t \in doubtful \/ bell[t].list = NoteRows
=============================================================================
