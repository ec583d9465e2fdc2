------------------------------- MODULE ChatReads -------------------------------
(***************************************************************************)
(* One conversation, one of its readers with several tabs, and the         *)
(* reader's watermark (chat.service.ts, chat.tsx, useLiveItemSync.ts).     *)
(*                                                                         *)
(* Messages are numbered in their order (createdAt, id), which need not be *)
(* the order in which they are committed or announced.  They are written   *)
(* by other members, one's own are never unread.                           *)
(*                                                                         *)
(* Bound: all messages fit on the page that a tab fetches (older ones      *)
(* count as read without having been shown).                               *)
(***************************************************************************)
EXTENDS Integers, Sequences, FiniteSetsExt

CONSTANTS Tabs, Last        \* messages are 1..Last

ASSUME LastNumber == Last \in Nat

VARIABLES posted,      \* how far each message has come
          watermark,   \* chat_read_state: the newest read message, 0 for no row
          tab,         \* per tab, the conversation as it shows it
          feed,        \* events on their way to each tab
          marking,     \* PATCH /chat/read requests under way
          seen,        \* history: messages shown by some tab
          excused      \* history: messages some tab may not come to show

chat == <<posted, watermark, tab, feed, marking, seen, excused>>

Messages == 1..Last
There == {m \in Messages : posted[m] \in {"committed", "announced"}}
Open(t) == tab[t].at # "elsewhere"

Post(m, from, to) == posted[m] = from /\ posted' = [posted EXCEPT ![m] = to]
Emit(event) == feed' = [t \in Tabs |-> IF tab[t].online THEN Append(feed[t], event) ELSE feed[t]]

-----------------------------------------------------------------------------
(* create: the row gets its time, is committed, and is announced. *)
Stamp(m) ==
    /\ Post(m, "unwritten", "stamped")
    /\ UNCHANGED <<watermark, tab, feed, marking, seen, excused>>
Commit(m) ==
    /\ Post(m, "stamped", "committed")
    /\ excused' = IF \E n \in Messages : n > m /\ posted[n] \in {"committed", "announced", "deleted"}
                  THEN excused \cup {m} ELSE excused
    /\ UNCHANGED <<watermark, tab, feed, marking, seen>>
Announce(m) ==
    /\ Post(m, "committed", "announced")
    /\ Emit([kind |-> "created", id |-> m])
    /\ excused' = excused \cup {n \in Messages : n < m /\ posted[n] = "committed"}
                          \cup {n \in {m} : \E t \in Tabs : Open(t) /\ ~tab[t].online}
    /\ UNCHANGED <<watermark, tab, marking, seen>>
DeleteMessage(m) ==
    /\ Post(m, "announced", "deleted")
    /\ Emit([kind |-> "deleted", id |-> m])
    /\ UNCHANGED <<watermark, tab, marking, seen, excused>>

-----------------------------------------------------------------------------
(* The chat page: the conversation is selected, its newest page fetched and  *)
(* put in the place of whatever had arrived meanwhile, and marked read up to *)
(* the newest message fetched.                                               *)
Select(t) ==
    /\ ~Open(t)
    /\ tab' = [tab EXCEPT ![t].at = "loading"]
    /\ UNCHANGED <<posted, watermark, feed, marking, seen, excused>>
FindAll(t) ==
    /\ tab[t].at = "loading"
    /\ tab' = [tab EXCEPT ![t].at = "answered", ![t].page = There]
    /\ UNCHANGED <<posted, watermark, feed, marking, seen, excused>>
Land(t) ==
    /\ tab[t].at = "answered"
    /\ LET page == tab[t].page IN
       /\ tab' = [tab EXCEPT ![t].at = "reading", ![t].shown = page, ![t].page = {}]
       /\ seen' = seen \cup page
       /\ marking' = marking \cup {m \in page : m = Max(page)}
    /\ UNCHANGED <<posted, watermark, feed, excused>>
LeaveChat(t) ==
    /\ Open(t)
    /\ tab' = [tab EXCEPT ![t].at = "elsewhere", ![t].shown = {}, ![t].page = {}]
    /\ UNCHANGED <<posted, watermark, feed, marking, seen, excused>>

(* handleCreated with chat.tsx's onRemoteCreate, and handleDeleted; nothing  *)
(* while another conversation is selected.                                   *)
HearMessage(t) ==
    /\ feed[t] # <<>>
    /\ feed' = [feed EXCEPT ![t] = Tail(@)]
    /\ LET event == Head(feed[t])
           new == event.kind = "created" /\ Open(t) /\ event.id \notin tab[t].shown
       IN  /\ tab' = [tab EXCEPT ![t].shown = IF new THEN @ \cup {event.id}
                                              ELSE IF event.kind = "deleted" THEN @ \ {event.id} ELSE @]
           /\ marking' = IF new THEN marking \cup {event.id} ELSE marking
           /\ IF new /\ tab[t].at # "reading"
              THEN excused' = excused \cup 1..event.id /\ UNCHANGED seen
              ELSE seen' = (IF new THEN seen \cup {event.id} ELSE seen) /\ UNCHANGED excused
    /\ UNCHANGED <<posted, watermark>>

(* The connection is lost with what was on its way; the page does not fetch  *)
(* the conversation again when it is back.                                   *)
Disconnect(t) ==
    /\ tab[t].online
    /\ tab' = [tab EXCEPT ![t].online = FALSE]
    /\ feed' = [feed EXCEPT ![t] = <<>>]
    /\ excused' = IF Open(t) THEN excused \cup {feed[t][i].id : i \in DOMAIN feed[t]} ELSE excused
    /\ UNCHANGED <<posted, watermark, marking, seen>>
Reconnect(t) ==
    /\ ~tab[t].online
    /\ tab' = [tab EXCEPT ![t].online = TRUE]
    /\ UNCHANGED <<posted, watermark, feed, marking, seen, excused>>

\* Variant with the fault of a watermark at the server's own "now".
MarkNow(m) == Max(There \cup {m})

(* markRead: the last request to arrive decides, and may never arrive.       *)
Marked(m) == m
MarkRead(m) ==
    /\ m \in marking
    /\ marking' = marking \ {m}
    /\ watermark' \in {watermark, Marked(m)}
    /\ UNCHANGED <<posted, tab, feed, seen, excused>>

-----------------------------------------------------------------------------
ChatInit ==
    /\ posted = [m \in Messages |-> "unwritten"] /\ watermark = 0
    /\ tab = [t \in Tabs |-> [at |-> "elsewhere", online |-> TRUE, page |-> {}, shown |-> {}]]
    /\ feed = [t \in Tabs |-> <<>>]
    /\ marking = {} /\ seen = {} /\ excused = {}

ChatNext ==
    \/ \E m \in Messages : Stamp(m) \/ Commit(m) \/ Announce(m) \/ DeleteMessage(m) \/ MarkRead(m)
    \/ \E t \in Tabs :
          Select(t) \/ FindAll(t) \/ Land(t) \/ LeaveChat(t) \/ HearMessage(t) \/ Disconnect(t) \/ Reconnect(t)

ChatSpec == ChatInit /\ [][ChatNext]_chat

-----------------------------------------------------------------------------
(* A message is marked read only when some tab has shown it, however the     *)
(* fetches, the live messages and the marks of the tabs interleave; but for  *)
(* four ways to lose sight of one: it is committed, or announced, after a    *)
(* newer one; it is announced while an open conversation is disconnected; or *)
(* it, or a newer one, arrives and is marked read while the page is still    *)
(* being fetched.                                                            *)
ReadWasShown ==
    \A m \in There : m <= watermark => m \in seen \cup excused
=============================================================================
