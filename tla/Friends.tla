-------------------------------- MODULE Friends --------------------------------
(***************************************************************************)
(* Two people, the two directional rows of user_relationship between them  *)
(* (user-relationships.service.ts), and what the Friends page of each      *)
(* shows of the other (friends.tsx, useFriendsRealtime.ts, friendsApi.ts). *)
(*                                                                         *)
(* Every operation is one Serializable transaction; what it tells the      *)
(* other side is sent afterwards and may fail, and a page applies answers  *)
(* and events when they arrive, some of them after another request, and    *)
(* some never: an answer is lost, a read after it fails.                   *)
(*                                                                         *)
(* Bound: a page has one request at a time, until the backend is done with *)
(* it, and MaxNews events to come.                                         *)
(***************************************************************************)
EXTENDS Integers, Sequences

CONSTANTS Pair,       \* the two people
          MaxNews

ASSUME PairAssumption == \E u, v \in Pair : u # v /\ Pair = {u, v}

VARIABLES relation,   \* the row of each towards the other
          page,       \* how each page shows the other
          errand,     \* the request of each page
          news,       \* events on their way to each page
          profiles,   \* profiles being fetched, and the status they will get
          agreed,     \* history: who wants the friendship, by what they did last
          missed      \* history: whose page has missed something

friends == <<relation, page, errand, news, profiles, agreed, missed>>

Other(u) == CHOOSE v \in Pair : v # u

(* deriveFriendshipStatus of the rows that findAll shows to u, where         *)
(* maskCounterpartBlocks has replaced the other's BLOCKED.                   *)
Masked(status) == IF status = "BLOCKED" THEN "ACCEPTED" ELSE status
Derived(r, u) ==
    LET mine == r[u]
        theirs == Masked(r[Other(u)])
    IN  CASE mine = "BLOCKED" -> "BLOCKED"
          [] mine = "ACCEPTED" /\ theirs = "ACCEPTED" -> "ACCEPTED"
          [] mine = "ACCEPTED" /\ theirs = "PENDING_APPROVAL" -> "PENDING_OUTGOING"
          [] mine = "PENDING_APPROVAL" /\ theirs = "ACCEPTED" -> "PENDING_INCOMING"
          [] OTHER -> "NONE"

NoErrand == [op |-> "none", phase |-> "none", got |-> "NONE"]
On(u, phase) == errand[u].phase = phase
Result(u, phase, got) == errand' = [errand EXCEPT ![u].phase = phase, ![u].got = got]

-----------------------------------------------------------------------------
(* What the panel of the other offers (ProfilePanel): the buttons depend on  *)
(* the status the page shows.  "load" is a reload of the tab: it connects    *)
(* again and reads the rows.                                                 *)
Offers(status) ==
    CASE status = "NONE" -> {"create", "block"}
      [] status = "PENDING_INCOMING" -> {"accept", "remove", "block"}
      [] status = "PENDING_OUTGOING" -> {"remove", "block"}
      [] status = "ACCEPTED" -> {"remove", "block"}
      [] status = "BLOCKED" -> {"unblock"}

NewErrand(u, op) == errand' = [errand EXCEPT ![u] = [NoErrand EXCEPT !.op = op, !.phase = "sent"]]
Click(u) ==
    /\ errand[u] = NoErrand
    /\ \E op \in Offers(page[u]) : NewErrand(u, op)
    /\ UNCHANGED <<relation, page, news, profiles, agreed, missed>>
Load(u) ==
    /\ errand[u] = NoErrand /\ NewErrand(u, "load")
    /\ page' = [page EXCEPT ![u] = "NONE"]
    /\ news' = [news EXCEPT ![u] = <<>>] /\ profiles' = [profiles EXCEPT ![u] = {}]
    /\ UNCHANGED <<relation, agreed, missed>>

(* An event is on its way to u's page, or a profile for it: it is applied    *)
(* after whatever u does now.  An answer is, that is of before what the      *)
(* other does now.                                                           *)
Coming(u) == errand[Other(u)].phase \in {"received", "accepted"} \/ news[u] # <<>> \/ profiles[u] # {}
Underway(u) == errand[u].phase \in {"received", "accepted", "committed", "read"}

(* u's own page misses what u does if something older is coming, or it was   *)
(* done on a page that had missed something.  The other's page misses it if  *)
(* something older comes, the rows now say something else and nobody tells   *)
(* (of a removal or a block there is no event), or the other blocks u and is *)
(* told that u accepts an old request, which the page shows as a friendship. *)
Misses(u, rows, tell) ==
    [v \in Pair |->
        \/ missed[v] \/ Coming(v)
        \/ /\ v # u
           /\ \/ Underway(v) \/ (tell = "accepted" /\ relation[v] = "BLOCKED")
              \/ tell = "nothing" /\ Derived(rows, v) # Derived(relation, v)]

(* A committed change: tells the other side, or nobody.                      *)
Committed(u, rows, tell, want) ==
    /\ relation' = rows
    /\ Result(u, IF tell = "nothing" THEN "committed" ELSE tell, "NONE")
    /\ agreed' = want
    /\ missed' = Misses(u, rows, tell)
    /\ UNCHANGED <<page, news, profiles>>

(* create: a request, silently nothing for somebody who is blocked.          *)
Create(u) ==
    /\ On(u, "sent") /\ errand[u].op = "create"
    /\ LET v == Other(u) IN
       /\ relation[u] # "BLOCKED" /\ relation[v] # "ACCEPTED"
       /\ \/ /\ relation[v] = "BLOCKED" /\ missed' = [missed EXCEPT ![u] = TRUE]
             /\ Result(u, "committed", "NONE")
             /\ UNCHANGED <<relation, page, news, profiles, agreed>>
          \/ /\ relation[v] # "BLOCKED"
             /\ Committed(u, [x \in Pair |-> IF relation[x] # "NONE" THEN relation[x]
                                            ELSE IF x = u THEN "ACCEPTED" ELSE "PENDING_APPROVAL"],
                          "received", [agreed EXCEPT ![u] = TRUE])

\* Variant with the fault of an unblocked row that stays without a counterpart.
UnblockedKeeping(u) == [relation EXCEPT ![u] = "ACCEPTED"]

(* Nothing left on the other side to be friends with: the row goes too.      *)
Unblocked(u) ==
    [relation EXCEPT ![u] = IF relation[Other(u)] \in {"NONE", "BLOCKED"} THEN "NONE" ELSE "ACCEPTED"]

(* update, to ACCEPTED (accept, unblock) and to BLOCKED. *)
Update(u) ==
    /\ On(u, "sent")
    /\ \/ /\ errand[u].op \in {"accept", "unblock"} /\ relation[u] = "PENDING_APPROVAL"
          /\ Committed(u, [relation EXCEPT ![u] = "ACCEPTED"], "accepted", [agreed EXCEPT ![u] = TRUE])
       \/ /\ errand[u].op \in {"accept", "unblock"} /\ relation[u] = "BLOCKED"
          /\ Committed(u, Unblocked(u), "nothing", [agreed EXCEPT ![u] = relation[Other(u)] \notin {"NONE", "BLOCKED"}])
       \/ /\ errand[u].op = "block" /\ relation[u] # "BLOCKED"
          /\ Committed(u, [relation EXCEPT ![u] = "BLOCKED"], "nothing", [agreed EXCEPT ![u] = FALSE])

(* remove: both rows, but for those that block. *)
RemoveBoth(u) ==
    /\ On(u, "sent") /\ errand[u].op = "remove"
    /\ Committed(u, [x \in Pair |-> IF relation[x] = "BLOCKED" THEN "BLOCKED" ELSE "NONE"], "nothing", [x \in Pair |-> FALSE])

(* The notification is written and the event emitted, or that fails.         *)
Tell(u) ==
    /\ On(u, "received") \/ On(u, "accepted")
    /\ Len(news[Other(u)]) < MaxNews
    /\ \/ news' = [news EXCEPT ![Other(u)] = Append(@, errand[u].phase)] /\ UNCHANGED missed
       \/ missed' = [missed EXCEPT ![Other(u)] = TRUE] /\ UNCHANGED news
    /\ Result(u, "committed", "NONE")
    /\ UNCHANGED <<relation, page, profiles, agreed>>

(* Refused by a condition above, or failed before it committed: the page     *)
(* stays as it was, and empty if it was to load.                             *)
Refuse(u) ==
    /\ On(u, "sent") /\ errand' = [errand EXCEPT ![u] = NoErrand]
    /\ missed' = [missed EXCEPT ![u] = @ \/ errand[u].op = "load"]
    /\ UNCHANGED <<relation, page, news, profiles, agreed>>

\* Variant with the fault of an unblocked person taken for a friend.
AssumeFriends(u) ==
    LET asked == IF errand[u].op = "unblock" THEN "ACCEPTED" ELSE Derived(relation, u)
    IN  Result(u, "read", asked)

(* The reads of a visit and of handleUnblock, which derives the status anew. *)
DeriveAnew(u) == Result(u, "read", Derived(relation, u))
ReadRows(u) ==
    /\ \/ On(u, "sent") /\ errand[u].op = "load"
       \/ On(u, "committed") /\ errand[u].op = "unblock"
    /\ DeriveAnew(u)
    /\ missed' = [missed EXCEPT ![u] = @ /\ Coming(u)]
    /\ UNCHANGED <<relation, page, news, profiles, agreed>>

(* The request was carried out, or the rows were read, and the page does not *)
(* learn it: the answer is lost, or the read after an unblock fails.  It     *)
(* shows an error and stays as it was; a visit drops the entry if only its   *)
(* profile cannot be read.                                                   *)
LoseAnswer(u) ==
    /\ On(u, "committed") \/ On(u, "read")
    /\ errand' = [errand EXCEPT ![u] = NoErrand]
    /\ \/ UNCHANGED page
       \/ errand[u].op = "load" /\ page' = [page EXCEPT ![u] = "NONE"]
    /\ missed' = [missed EXCEPT ![u] = TRUE]
    /\ UNCHANGED <<relation, news, profiles, agreed>>

-----------------------------------------------------------------------------
(* The page applies the answer (setStatus, removeFromList): what the request *)
(* asked for, or what was read.                                              *)
Asked(op) ==
    CASE op = "create" -> "PENDING_OUTGOING" [] op = "accept" -> "ACCEPTED"
      [] op = "block" -> "BLOCKED" [] op = "remove" -> "NONE"
Reply(u) ==
    /\ \/ /\ On(u, "committed") /\ errand[u].op # "unblock"
          /\ page' = [page EXCEPT ![u] = Asked(errand[u].op)]
          /\ profiles' = [profiles EXCEPT ![u] = IF errand[u].op = "create" THEN @ \cup {"PENDING_OUTGOING"} ELSE @]
       \/ /\ On(u, "read")
          /\ page' = [page EXCEPT ![u] = errand[u].got]
          /\ UNCHANGED profiles
    /\ errand' = [errand EXCEPT ![u] = NoErrand]
    /\ UNCHANGED <<relation, news, agreed, missed>>

(* handleRequestReceived fetches a profile, handleRequestAccepted changes a  *)
(* friend of the list.                                                       *)
Hear(u) ==
    /\ news[u] # <<>>
    /\ news' = [news EXCEPT ![u] = Tail(@)]
    /\ \/ /\ Head(news[u]) = "received"
          /\ profiles' = [profiles EXCEPT ![u] = @ \cup {"PENDING_INCOMING"}]
          /\ UNCHANGED page
       \/ /\ Head(news[u]) = "accepted"
          /\ page' = [page EXCEPT ![u] = IF @ = "NONE" THEN @ ELSE "ACCEPTED"]
          /\ UNCHANGED profiles
    /\ UNCHANGED <<relation, errand, agreed, missed>>

(* A profile arrives: an incoming request is added if nothing is shown, an   *)
(* outgoing one replaces what is shown.                                      *)
ShowProfile(u) == \E status \in profiles[u] :
    /\ profiles' = [profiles EXCEPT ![u] = @ \ {status}]
    /\ page' = [page EXCEPT ![u] = IF status = "PENDING_OUTGOING" \/ @ = "NONE" THEN status ELSE @]
    /\ UNCHANGED <<relation, errand, news, agreed, missed>>

(* The fetch of a profile fails: "a manual refresh will pick it up".         *)
LoseProfile(u) == \E status \in profiles[u] :
    /\ profiles' = [profiles EXCEPT ![u] = @ \ {status}]
    /\ missed' = [missed EXCEPT ![u] = @ \/ page[u] = "NONE"]
    /\ UNCHANGED <<relation, page, errand, news, agreed>>

-----------------------------------------------------------------------------
FriendsInit ==
    /\ relation = [u \in Pair |-> "NONE"] /\ page = [u \in Pair |-> "NONE"]
    /\ errand = [u \in Pair |-> NoErrand]
    /\ news = [u \in Pair |-> <<>>] /\ profiles = [u \in Pair |-> {}]
    /\ agreed = [u \in Pair |-> FALSE] /\ missed = [u \in Pair |-> FALSE]

FriendsNext == \E u \in Pair :
    \/ Click(u) \/ Load(u) \/ Create(u) \/ Update(u) \/ RemoveBoth(u) \/ Tell(u) \/ Refuse(u)
    \/ ReadRows(u) \/ Reply(u) \/ LoseAnswer(u) \/ Hear(u) \/ ShowProfile(u) \/ LoseProfile(u)

FriendsSpec == FriendsInit /\ [][FriendsNext]_friends

-----------------------------------------------------------------------------
(* Nobody becomes a friend, or is owed an answer, alone: whoever accepts or  *)
(* waits has a counterpart, and two are friends only when each has asked,    *)
(* accepted or unblocked since the last removal and the own last block.      *)
FriendshipAgreed ==
    /\ \A u \in Pair : relation[u] = "ACCEPTED" => relation[Other(u)] # "NONE" /\ agreed[u]
    /\ \A u \in Pair : relation[u] = "PENDING_APPROVAL" => relation[Other(u)] \in {"ACCEPTED", "BLOCKED"}

(* Once nothing is under way, a page shows the relationship of the rows,     *)
(* unless it missed a change (Misses), an event or an answer, and has not    *)
(* read the rows since with nothing older on its way.  So requests of both   *)
(* sides may cross; a page is wrong only for a reason named there.           *)
PageShowsRows ==
    \A u \in Pair :
        (\A v \in Pair : errand[v] = NoErrand /\ news[v] = <<>> /\ profiles[v] = {}) /\ ~missed[u]
            => page[u] = Derived(relation, u)

(* The two together: what both sides have agreed to, and see.                *)
FriendshipShown == FriendshipAgreed /\ PageShowsRows

(* "A block must stay unobservable from the blocked side ... looking exactly *)
(* like it did before the block" (friendsApi.ts).                            *)
BlockIsUnobservable ==
    [][\A u \in Pair : relation[u] # "BLOCKED" /\ relation'[u] = "BLOCKED"
          => Derived(relation', Other(u)) = Derived(relation, Other(u))]_friends
=============================================================================
