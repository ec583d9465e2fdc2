----------------------------- MODULE BrowserSession -----------------------------
(***************************************************************************)
(* One browser tab: its session (auth.ts, authState.ts, apiClient.ts) and  *)
(* its realtime connection (realtimeSocket.ts), against the refresh        *)
(* families and WebSocket tickets of the auth service.                     *)
(*                                                                         *)
(* A session is a refresh family; its tokens are not told apart            *)
(* (RefreshFamilies does that).  The cookies are the browser's, shared by  *)
(* its tabs, and change when an answer arrives.  currentSession of auth.ts *)
(* and the state of AuthSessionResource are always set together, and are   *)
(* one variable here, in which anonymous, unavailable and not yet known    *)
(* are all 0.  A generation is kept as what it is compared for: whether    *)
(* the attempt under way is of the current one.                            *)
(*                                                                         *)
(* Bound: sessions are 1..MaxSessions.                                     *)
(***************************************************************************)
EXTENDS Integers, FiniteSets

CONSTANTS Users, MaxSessions

VARIABLES owner,     \* per session opened so far, the user it belongs to
          alive,     \* sessions that are not revoked
          cookie,    \* the session of the browser's cookies, or 0
          current,   \* the session this tab works with, or 0
          refresh,   \* POST /auth/refresh under way: one at a time
          form,      \* a sign-in or sign-out under way
          link,      \* the realtime connection
          left,      \* history: sessions this tab has signed out of
          late       \* history: those with a refresh under way at that time

browser == <<owner, alive, cookie, current, refresh, form, link, left, late>>

Opened == DOMAIN owner
Idle == [phase |-> "none"]
NoAttempt == [phase |-> "none", as |-> 0, fresh |-> FALSE]

-----------------------------------------------------------------------------
(* realtimeSocket.ts, as functions of link: whether there is a socket and    *)
(* whether it is desired, as whom it is connected, the reconnect timer and   *)
(* the attempt under way (connectInFlight).                                  *)
ScheduleReconnect(k) == [k EXCEPT !.timer = @ \/ (k.desired /\ k.as = 0)]
EnsureConnected(k) ==
    IF k.desired /\ k.socket /\ k.as = 0 /\ k.attempt = NoAttempt
    THEN [k EXCEPT !.timer = FALSE, !.attempt = [phase |-> "asking", as |-> 0, fresh |-> TRUE]]
    ELSE k

(* socket.disconnect(): a connection ends with a "disconnect" event, one     *)
(* that is being made ends silently, and the attempt waits for its timeout.  *)
Cut(k) ==
    LET cut == [k EXCEPT !.as = 0, !.attempt.phase = IF @ = "joining" THEN "aborted" ELSE @]
    IN  IF k.as # 0 THEN ScheduleReconnect(cut) ELSE cut

NextGeneration(k) == [k EXCEPT !.attempt.fresh = FALSE]

\* Variant with the fault of an attempt that a reset leaves current.
SameGeneration(k) == EnsureConnected(Cut([k EXCEPT !.desired = TRUE, !.timer = FALSE]))

ResetSocket(k) == EnsureConnected(Cut([NextGeneration(k) EXCEPT !.desired = TRUE, !.timer = FALSE]))
DisconnectSocket(k) == Cut([NextGeneration(k) EXCEPT !.desired = FALSE, !.timer = FALSE])

\* Variant with the fault of an attempt that ends without another to come.
EndsQuietly(k) == [k EXCEPT !.attempt = NoAttempt]

(* The attempt is over, its "finally" included. *)
Finished(k) == ScheduleReconnect([k EXCEPT !.attempt = NoAttempt])

(* publishAuthSession and applySession: what a published session does to it. *)
Applied(k, s) ==
    IF s = 0 THEN DisconnectSocket(k)
    ELSE IF current = 0 \/ owner[current] # owner[s] THEN ResetSocket(k) ELSE k
Publish(s) == current' = s /\ link' = Applied(link, s)

-----------------------------------------------------------------------------
(* refreshSession, shared by whoever asks: resolve, and requests that have   *)
(* no session or were answered 401.                                          *)
Csrf == IF current # 0 THEN current ELSE cookie
Refreshing == refresh.phase # "none"
SendRefresh == refresh' = [phase |-> "sent", csrf |-> Csrf, cookie |-> cookie]

Resolve ==
    /\ ~Refreshing
    /\ \/ Csrf # 0 /\ SendRefresh /\ UNCHANGED <<current, link>>
       \/ Csrf = 0 /\ Publish(0) /\ UNCHANGED refresh
    /\ UNCHANGED <<owner, alive, cookie, form, left, late>>

(* The service answers with the session, 401 (0), or an error (-1). *)
Rotated(r) ==
    IF r.cookie = 0 THEN 0 ELSE IF r.csrf # r.cookie THEN -1 ELSE IF r.cookie \in alive THEN r.cookie ELSE 0
ServeRefresh ==
    /\ refresh.phase = "sent"
    /\ \E got \in {Rotated(refresh), -1} : refresh' = [phase |-> "answered", got |-> got]
    /\ UNCHANGED <<owner, alive, cookie, current, form, link, left, late>>

(* What a ticket request that waited for the refresh does next. *)
Resumed(k, s) ==
    IF k.attempt.phase # "refreshing" THEN k
    ELSE IF s = 0 THEN Finished(k) ELSE [k EXCEPT !.attempt.phase = "requested", !.attempt.as = s]
RefreshReply ==
    /\ refresh.phase = "answered"
    /\ LET s == IF refresh.got = -1 THEN 0 ELSE refresh.got
       IN  current' = s /\ link' = Resumed(Applied(link, s), s)
    /\ cookie' = IF refresh.got = -1 THEN cookie ELSE refresh.got
    /\ refresh' = Idle
    /\ UNCHANGED <<owner, alive, form, left, late>>

-----------------------------------------------------------------------------
(* Signing in (SigninForm, CreateAccountForm) and out (UserMenu).            *)
SignIn ==
    /\ form = Idle /\ current = 0
    /\ form' = [phase |-> "entering"]
    /\ UNCHANGED <<owner, alive, cookie, current, refresh, link, left, late>>
OpenSession(u) ==
    /\ Cardinality(Opened) < MaxSessions
    /\ owner' = [s \in 1..(Cardinality(Opened) + 1) |-> IF s \in Opened THEN owner[s] ELSE u]
    /\ alive' = alive \cup {Cardinality(Opened) + 1}
ServeSignIn(u) ==
    /\ form.phase = "entering" /\ OpenSession(u)
    /\ form' = [phase |-> "entered", session |-> Cardinality(Opened) + 1]
    /\ UNCHANGED <<cookie, current, refresh, link, left, late>>
Entered ==
    /\ form.phase = "entered"
    /\ current' = form.session /\ link' = ResetSocket(Applied(link, form.session))
    /\ cookie' = form.session /\ form' = Idle
    /\ UNCHANGED <<owner, alive, refresh, left, late>>

SignOut ==
    /\ form = Idle /\ current # 0
    /\ form' = [phase |-> "leaving", csrf |-> current, cookie |-> cookie]
    /\ UNCHANGED <<owner, alive, cookie, current, refresh, link, left, late>>
ServeSignOut ==
    /\ form.phase = "leaving" /\ form.cookie \in {0, form.csrf}
    /\ alive' = alive \ {form.cookie}
    /\ form' = [phase |-> "left", session |-> form.csrf]
    /\ UNCHANGED <<owner, cookie, current, refresh, link, left, late>>

\* Variant with the fault of a sign-out that only the service hears of.
KeepsSession == UNCHANGED <<current, link>>

GoesAnonymous == Publish(0)
Left ==
    /\ form.phase = "left"
    /\ GoesAnonymous
    /\ cookie' = 0 /\ form' = Idle
    /\ left' = left \cup {form.session}
    /\ late' = IF Refreshing THEN late \cup {form.session} ELSE late
    /\ UNCHANGED <<owner, alive, refresh>>
FormFails ==
    /\ form.phase \in {"entering", "leaving"}
    /\ form' = Idle
    /\ UNCHANGED <<owner, alive, cookie, current, refresh, link, left, late>>

(* Profile changes set the state again; a request of the pages that ends in  *)
(* a 401 drops it, however long after.                                       *)
PatchUser ==
    /\ current # 0
    /\ link' = ResetSocket(link)
    /\ UNCHANGED <<owner, alive, cookie, current, refresh, form, left, late>>
EndSession ==
    /\ Publish(0)
    /\ UNCHANGED <<owner, alive, cookie, refresh, form, left, late>>

(* Other tabs of the browser, other devices, administrators. *)
OtherTab ==
    /\ \/ (\E u \in Users : OpenSession(u)) /\ cookie' = Cardinality(Opened) + 1
       \/ cookie # 0 /\ alive' = alive \ {cookie} /\ cookie' = 0 /\ UNCHANGED owner
    /\ UNCHANGED <<current, refresh, form, link, left, late>>
Revoke(s) ==
    /\ s \in alive /\ alive' = alive \ {s}
    /\ UNCHANGED <<owner, cookie, current, refresh, form, link, left, late>>

-----------------------------------------------------------------------------
(* getRealtimeSocket, called by pages, and by callbacks they left behind.    *)
Want ==
    /\ link' = EnsureConnected([link EXCEPT !.socket = TRUE, !.desired = TRUE])
    /\ UNCHANGED <<owner, alive, cookie, current, refresh, form, left, late>>

(* The ticket is asked for with bearerFetch, which needs a session.          *)
AwaitRefresh ==
    \/ /\ Refreshing \/ Csrf # 0
       /\ link' = [link EXCEPT !.attempt.phase = "refreshing"]
       /\ (IF Refreshing THEN UNCHANGED refresh ELSE SendRefresh)
       /\ UNCHANGED current
    \/ /\ ~Refreshing /\ Csrf = 0
       /\ current' = 0 /\ link' = Finished(DisconnectSocket(link))
       /\ UNCHANGED refresh
RequestWith(s) ==
    /\ link' = [link EXCEPT !.attempt.phase = "requested", !.attempt.as = s]
    /\ UNCHANGED <<current, refresh>>
AskTicket ==
    /\ link.attempt.phase = "asking"
    /\ (IF current # 0 THEN RequestWith(current) ELSE AwaitRefresh)
    /\ UNCHANGED <<owner, alive, cookie, form, left, late>>

(* IssueWebSocketTicket, or a 401 for an access token that has expired.      *)
ServeTicket ==
    /\ link.attempt.phase = "requested"
    /\ \/ link.attempt.as \in alive /\ link' = [link EXCEPT !.attempt.phase = "granted"] /\ UNCHANGED <<current, refresh>>
       \/ (IF current \notin {0, link.attempt.as} THEN RequestWith(current) ELSE AwaitRefresh)
    /\ UNCHANGED <<owner, alive, cookie, form, left, late>>

(* A ticket of an earlier generation is not used. *)
TicketArrives ==
    /\ link.attempt.phase = "granted"
    /\ link' = IF link.desired /\ link.attempt.fresh THEN [link EXCEPT !.attempt.phase = "joining"] ELSE Finished(link)
    /\ UNCHANGED <<owner, alive, cookie, current, refresh, form, left, late>>

(* ConsumeWebSocketTicket admits the connection; it is rejected, or times    *)
(* out, or the request before it failed.                                     *)
Join ==
    /\ link.attempt.phase = "joining" /\ link.attempt.as \in alive
    /\ link' = [link EXCEPT !.as = link.attempt.as, !.attempt = NoAttempt]
    /\ UNCHANGED <<owner, alive, cookie, current, refresh, form, left, late>>
AttemptFails ==
    /\ link.attempt.phase \in {"requested", "joining", "aborted"}
    /\ link' = Finished(link)
    /\ UNCHANGED <<owner, alive, cookie, current, refresh, form, left, late>>

(* The connection is lost, or replaced before its ticket's session ends.     *)
LoseConnection ==
    /\ link.as # 0
    /\ link' \in {ScheduleReconnect([link EXCEPT !.as = 0]), EnsureConnected(Cut(NextGeneration(link)))}
    /\ UNCHANGED <<owner, alive, cookie, current, refresh, form, left, late>>
TimerFires ==
    /\ link.timer
    /\ link' = EnsureConnected([link EXCEPT !.timer = FALSE])
    /\ UNCHANGED <<owner, alive, cookie, current, refresh, form, left, late>>

-----------------------------------------------------------------------------
BrowserInit ==
    /\ owner = <<>> /\ alive = {} /\ cookie = 0 /\ current = 0
    /\ refresh = Idle /\ form = Idle
    /\ link = [socket |-> FALSE, desired |-> FALSE, as |-> 0, timer |-> FALSE, attempt |-> NoAttempt]
    /\ left = {} /\ late = {}

BrowserNext ==
    \/ Resolve \/ ServeRefresh \/ RefreshReply
    \/ SignIn \/ (\E u \in Users : ServeSignIn(u)) \/ Entered
    \/ SignOut \/ ServeSignOut \/ Left \/ FormFails \/ PatchUser \/ EndSession
    \/ OtherTab \/ (\E s \in Opened : Revoke(s))
    \/ Want \/ AskTicket \/ ServeTicket \/ TicketArrives
    \/ Join \/ AttemptFails \/ LoseConnection \/ TimerFires

BrowserSpec == BrowserInit /\ [][BrowserNext]_browser

-----------------------------------------------------------------------------
(* The realtime connection is that of the user the tab shows, whatever       *)
(* tickets, refreshes and sign-ins were under way when that user changed.    *)
ConnectedAsShown == link.as # 0 => current # 0 /\ owner[link.as] = owner[current]

(* A tab that wants a connection is never left without one for good: an      *)
(* attempt is under way, or a timer will start one.                          *)
NeverStranded ==
    link.socket /\ link.desired /\ link.as = 0 => link.timer \/ link.attempt # NoAttempt

(* Both: a tab has the connection it should have, or is about to.            *)
ConnectionFollowsSession == ConnectedAsShown /\ NeverStranded

(* A session that the tab signed out of does not come back, unless a refresh *)
(* was under way when it did.                                                *)
SignedOutStaysOut == current \in left => current \in late
=============================================================================
