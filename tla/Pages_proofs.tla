----------------------------- MODULE Pages_proofs -----------------------------
(***************************************************************************)
(* Proofs about the pages of the browser: its session and realtime         *)
(* connection (BrowserSession), the search field (SearchSuggestions), the  *)
(* settings of an account (AccountSettings), the conversations of the chat *)
(* (ChatReads) and the bell (NotificationBell), for any number of          *)
(* sessions, phrases, devices, tabs, messages, notifications and requests  *)
(* under way.                                                              *)
(***************************************************************************)
EXTENDS BrowserSession, SearchSuggestions, AccountSettings, ChatReads, NotificationBell,
        FiniteSetTheorems, SequenceTheorems, TLAPS

-----------------------------------------------------------------------------
(* The realtime connection, as a function of what it was.                  *)

Attempts(S) == [phase: {"none", "asking", "refreshing", "requested", "granted", "joining", "aborted"},
                as: S \cup {0}, fresh: BOOLEAN]

Links(S) == [socket: BOOLEAN, desired: BOOLEAN, as: S \cup {0}, timer: BOOLEAN, attempt: Attempts(S)]

\* Something will come of it: it is not wanted, there is one, or one is coming.
Provided(k) == k.socket /\ k.desired /\ k.as = 0 => k.timer \/ k.attempt # NoAttempt

\* No attempt has fields left of an earlier one; and as whom an attempt goes on.
Tidy(k) == k.attempt.phase = "none" => k.attempt = NoAttempt
Counts(k) == k.attempt.phase = "joining" \/ (k.attempt.phase \in {"requested", "granted"} /\ k.attempt.fresh)

\* What Schedule changes, and what it leaves alone.
LEMMA ScheduleMoves ==
    ASSUME NEW S, NEW k \in Links(S), Tidy(k)
    PROVE  LET j == ScheduleReconnect(k) IN
           /\ j \in Links(S) /\ Provided(j) /\ Tidy(j)
           /\ j.as = k.as /\ j.attempt = k.attempt /\ j.socket = k.socket /\ j.desired = k.desired
<1>1. PICK j : j = ScheduleReconnect(k)
  OBVIOUS
<1>2. /\ j \in Links(S) /\ j.timer = (k.timer \/ (k.desired /\ k.as = 0))
      /\ j.as = k.as /\ j.attempt = k.attempt /\ j.socket = k.socket /\ j.desired = k.desired
  BY <1>1 DEF ScheduleReconnect, Links
<1>3. QED BY <1>1, <1>2 DEF Provided, Tidy

\* What Ensure changes, and what it leaves alone.
LEMMA EnsureMoves ==
    ASSUME NEW S, NEW k \in Links(S), Tidy(k)
    PROVE  LET j == EnsureConnected(k) IN
           /\ j \in Links(S) /\ Provided(j) /\ Tidy(j)
           /\ j.as = k.as /\ j.socket = k.socket /\ j.desired = k.desired
           /\ j.attempt = k.attempt \/ (j.attempt.phase = "asking" /\ k.as = 0)
<1>1. PICK j : j = EnsureConnected(k)
  OBVIOUS
<1>2. PICK a : a = [phase |-> "asking", as |-> 0, fresh |-> TRUE]
  OBVIOUS
<1>3. a \in Attempts(S) /\ a.phase = "asking" /\ a # NoAttempt
  BY <1>2 DEF Attempts, NoAttempt
<1>4. CASE k.desired /\ k.socket /\ k.as = 0 /\ k.attempt = NoAttempt
  <2>1. j = [k EXCEPT !.timer = FALSE, !.attempt = a]
    BY <1>1, <1>2, <1>4 DEF EnsureConnected
  <2>2. /\ j \in Links(S) /\ j.attempt = a /\ j.as = k.as /\ j.socket = k.socket /\ j.desired = k.desired
    BY <1>3, <2>1 DEF Links
  <2>3. QED BY <1>1, <1>3, <1>4, <2>2 DEF Provided, Tidy
<1>5. CASE ~(k.desired /\ k.socket /\ k.as = 0 /\ k.attempt = NoAttempt)
  <2>1. j = k
    BY <1>1, <1>5 DEF EnsureConnected
  <2>2. QED BY <1>1, <1>5, <2>1 DEF Provided
<1>6. QED BY <1>4, <1>5

\* What Cut changes, and what it leaves alone.
LEMMA CutMoves ==
    ASSUME NEW S, NEW k \in Links(S), Tidy(k)
    PROVE  LET j == Cut(k) IN
           /\ j \in Links(S) /\ Tidy(j) /\ (Provided(k) => Provided(j)) /\ j.as = 0
           /\ j.socket = k.socket /\ j.desired = k.desired /\ j.attempt.as = k.attempt.as
           /\ j.attempt.fresh = k.attempt.fresh /\ j.attempt.phase # "joining"
           /\ j.attempt.phase = "none" => k.attempt.phase = "none"
<1>1. PICK ph : ph = IF k.attempt.phase = "joining" THEN "aborted" ELSE k.attempt.phase
  OBVIOUS
<1>2. PICK a : a = [k.attempt EXCEPT !.phase = ph]
  OBVIOUS
<1>3. k.attempt \in Attempts(S)
  BY DEF Links
<1>4. a \in Attempts(S) /\ a.phase = ph /\ a.as = k.attempt.as /\ a.fresh = k.attempt.fresh
  BY <1>1, <1>2, <1>3 DEF Attempts
<1>5. PICK c : c = [k EXCEPT !.as = 0, !.attempt = a]
  OBVIOUS
<1>6. /\ c \in Links(S) /\ c.as = 0 /\ c.attempt = a /\ c.socket = k.socket /\ c.desired = k.desired
      /\ c.timer = k.timer
  BY <1>4, <1>5 DEF Links
<1>7. /\ Tidy(c) /\ c.attempt.phase # "joining"
      /\ c.attempt.phase = "none" => k.attempt.phase = "none" /\ c.attempt = k.attempt
  <2>1. ph # "joining" /\ (ph = "none" => k.attempt.phase = "none")
    BY <1>1
  <2>2. ph = "none" => a = k.attempt
    BY <1>1, <1>2, <1>3 DEF Attempts
  <2>3. QED BY <1>4, <1>6, <2>1, <2>2 DEF Tidy
<1>8. Cut(k) = IF k.as # 0 THEN ScheduleReconnect(c) ELSE c
  BY <1>1, <1>2, <1>5 DEF Cut
<1>9. CASE k.as # 0
  BY <1>4, <1>6, <1>7, <1>8, <1>9, ScheduleMoves
<1>10. CASE k.as = 0
  <2>1. Provided(k) => Provided(c)
    BY <1>6, <1>7, <1>10 DEF Provided, Tidy, NoAttempt
  <2>2. QED BY <1>4, <1>6, <1>7, <1>8, <1>10, <2>1
<1>11. QED BY <1>9, <1>10

\* What Generation changes, and what it leaves alone.
LEMMA GenerationMoves ==
    ASSUME NEW S, NEW k \in Links(S), Tidy(k)
    PROVE  LET j == NextGeneration(k) IN
           /\ j \in Links(S) /\ Tidy(j) /\ (Provided(k) => Provided(j))
           /\ j.as = k.as /\ j.socket = k.socket /\ j.desired = k.desired /\ j.timer = k.timer
           /\ j.attempt.as = k.attempt.as /\ ~j.attempt.fresh /\ j.attempt.phase = k.attempt.phase
<1>1. PICK a : a = [k.attempt EXCEPT !.fresh = FALSE]
  OBVIOUS
<1>2. k.attempt \in Attempts(S)
  BY DEF Links
<1>3. a \in Attempts(S) /\ a.phase = k.attempt.phase /\ a.as = k.attempt.as /\ a.fresh = FALSE
  BY <1>1, <1>2 DEF Attempts
<1>4. PICK j : j = NextGeneration(k)
  OBVIOUS
<1>5. /\ j \in Links(S) /\ j.as = k.as /\ j.attempt = a /\ j.socket = k.socket /\ j.desired = k.desired
      /\ j.timer = k.timer
  BY <1>1, <1>3, <1>4 DEF Links, NextGeneration
<1>6. a.phase = "none" => a = NoAttempt
  <2>1. a.phase = "none" => k.attempt = NoAttempt
    BY <1>3 DEF Tidy
  <2>2. k.attempt = NoAttempt => a.phase = "none" /\ a.as = 0 /\ a.fresh = FALSE
    BY <1>3 DEF NoAttempt
  <2>3. QED BY <1>3, <2>1, <2>2 DEF NoAttempt, Attempts
<1>7. a = NoAttempt => k.attempt = NoAttempt
  BY <1>3 DEF Tidy, NoAttempt
<1>8. QED BY <1>3, <1>4, <1>5, <1>6, <1>7 DEF Tidy, Provided

\* What Reset changes, and what it leaves alone.
LEMMA ResetMoves ==
    ASSUME NEW S, NEW k \in Links(S), Tidy(k)
    PROVE  LET j == ResetSocket(k) IN j \in Links(S) /\ Tidy(j) /\ Provided(j) /\ j.as = 0 /\ ~Counts(j)
<1>1. PICK g : g = NextGeneration(k)
  OBVIOUS
<1>2. g \in Links(S) /\ Tidy(g) /\ ~g.attempt.fresh
  BY <1>1, GenerationMoves
<1>3. PICK f : f = [g EXCEPT !.desired = TRUE, !.timer = FALSE]
  OBVIOUS
<1>4. f \in Links(S) /\ Tidy(f) /\ ~f.attempt.fresh
  <2>1. g \in Links(S) /\ Tidy(g)
    BY <1>2
  <2>2. f \in Links(S) /\ f.attempt = g.attempt /\ f.as = g.as /\ f.socket = g.socket /\ f.desired = TRUE
    BY <1>3, <2>1 DEF Links
  <2>3. QED BY <1>2, <2>1, <2>2 DEF Tidy
<1>5. PICK c : c = Cut(f)
  OBVIOUS
<1>6. c \in Links(S) /\ Tidy(c) /\ c.as = 0 /\ ~c.attempt.fresh /\ c.attempt.phase # "joining"
  BY <1>4, <1>5, CutMoves
<1>7. PICK j : j = EnsureConnected(c)
  OBVIOUS
<1>8. /\ j \in Links(S) /\ Tidy(j) /\ Provided(j) /\ j.as = 0
      /\ j.attempt = c.attempt \/ j.attempt.phase = "asking"
  BY <1>6, <1>7, EnsureMoves
<1>9. ResetSocket(k) = j
  BY <1>1, <1>3, <1>5, <1>7 DEF ResetSocket
<1>10. QED BY <1>6, <1>8, <1>9 DEF Counts

\* What DisconnectSocket changes, and what it leaves alone.
LEMMA DisconnectSocketMoves ==
    ASSUME NEW S, NEW k \in Links(S), Tidy(k)
    PROVE  LET j == DisconnectSocket(k) IN
           j \in Links(S) /\ Tidy(j) /\ Provided(j) /\ j.as = 0 /\ ~Counts(j) /\ ~j.desired
<1>1. PICK g : g = NextGeneration(k)
  OBVIOUS
<1>2. g \in Links(S) /\ Tidy(g) /\ ~g.attempt.fresh
  BY <1>1, GenerationMoves
<1>3. PICK f : f = [g EXCEPT !.desired = FALSE, !.timer = FALSE]
  OBVIOUS
<1>4. f \in Links(S) /\ Tidy(f) /\ ~f.attempt.fresh /\ f.desired = FALSE
  <2>1. g \in Links(S) /\ Tidy(g)
    BY <1>2
  <2>2. f \in Links(S) /\ f.attempt = g.attempt /\ f.as = g.as /\ f.socket = g.socket /\ f.desired = FALSE
    BY <1>3, <2>1 DEF Links
  <2>3. QED BY <1>2, <2>1, <2>2 DEF Tidy
<1>5. PICK c : c = Cut(f)
  OBVIOUS
<1>6. c \in Links(S) /\ Tidy(c) /\ c.as = 0 /\ ~c.attempt.fresh /\ c.attempt.phase # "joining" /\ ~c.desired
  BY <1>4, <1>5, CutMoves
<1>7. DisconnectSocket(k) = c
  BY <1>1, <1>3, <1>5 DEF DisconnectSocket
<1>8. QED BY <1>6, <1>7 DEF Counts, Provided

\* What Finished changes, and what it leaves alone.
LEMMA FinishedMoves ==
    ASSUME NEW S, NEW k \in Links(S)
    PROVE  LET j == Finished(k) IN j \in Links(S) /\ Tidy(j) /\ Provided(j) /\ j.as = k.as /\ ~Counts(j)
<1>1. PICK n : n = [k EXCEPT !.attempt = NoAttempt]
  OBVIOUS
<1>2. n \in Links(S) /\ n.attempt = NoAttempt /\ n.as = k.as
  BY <1>1 DEF Links, Attempts, NoAttempt
<1>3. Tidy(n)
  BY <1>2 DEF Tidy
<1>4. PICK j : j = ScheduleReconnect(n)
  OBVIOUS
<1>5. j \in Links(S) /\ Tidy(j) /\ Provided(j) /\ j.as = k.as /\ j.attempt = NoAttempt
  BY <1>2, <1>3, <1>4, ScheduleMoves
<1>6. QED BY <1>1, <1>4, <1>5 DEF Finished, Counts, NoAttempt

\* An attempt that goes on, for whom it was.
LEMMA PhaseMoves ==
    ASSUME NEW S, NEW k \in Links(S), k.attempt.phase # "none",
           NEW ph \in {"refreshing", "requested", "granted", "joining"}, NEW j, j = [k EXCEPT !.attempt.phase = ph]
    PROVE  /\ j \in Links(S) /\ Tidy(j) /\ Provided(j) /\ j.as = k.as /\ j.socket = k.socket /\ j.desired = k.desired
           /\ j.attempt.phase = ph /\ j.attempt.as = k.attempt.as /\ j.attempt.fresh = k.attempt.fresh
<1>1. k.attempt \in Attempts(S)
  BY DEF Links
<1>2. PICK a : a = [k.attempt EXCEPT !.phase = ph]
  OBVIOUS
<1>3. a \in Attempts(S) /\ a.phase = ph /\ a.as = k.attempt.as /\ a.fresh = k.attempt.fresh /\ a # NoAttempt
  BY <1>1, <1>2 DEF Attempts, NoAttempt
<1>4. j = [k EXCEPT !.attempt = a]
  BY <1>2 DEF Links
<1>5. j \in Links(S) /\ j.as = k.as /\ j.attempt = a /\ j.socket = k.socket /\ j.desired = k.desired
  BY <1>3, <1>4 DEF Links
<1>6. QED BY <1>3, <1>5 DEF Tidy, Provided

\* The attempt is replaced.
LEMMA AttemptSet ==
    ASSUME NEW S, NEW k \in Links(S), NEW a \in Attempts(S), a.phase # "none", NEW j, j = [k EXCEPT !.attempt = a]
    PROVE  j \in Links(S) /\ Tidy(j) /\ Provided(j) /\ j.as = k.as /\ j.attempt = a
<1>1. a # NoAttempt
  BY DEF NoAttempt
<1>2. j \in Links(S) /\ j.as = k.as /\ j.attempt = a
  BY DEF Links
<1>3. QED BY <1>1, <1>2 DEF Tidy, Provided

-----------------------------------------------------------------------------
(* The session of the tab.                                                 *)

\* The link is fit for a tab that works with session s.
Fit(k, s) ==
    /\ k \in Links(Opened) /\ Tidy(k) /\ Provided(k)
    /\ k.as # 0 => s # 0 /\ owner[k.as] = owner[s]
    /\ Counts(k) => s # 0 /\ k.attempt.as \in Opened /\ owner[k.attempt.as] = owner[s]

\* What is under way names sessions that were opened.
SessionsKnown ==
    /\ Cardinality(Opened) \in Nat /\ Opened = 1..Cardinality(Opened)
    /\ cookie \in Opened \cup {0} /\ current \in Opened \cup {0} /\ left \subseteq Opened
    /\ refresh.phase = "sent" => refresh.cookie \in Opened \cup {0}
    /\ refresh.phase = "answered" => refresh.got \in Opened \cup {0, -1}
    /\ form.phase \in {"entered", "left"} => form.session \in Opened
    /\ form.phase = "leaving" => form.csrf \in Opened

\* A session that was signed out of, and with no refresh under way, is named by
\* nothing that could bring it back.
LeftBehind(s) ==
    /\ cookie # s /\ current # s
    /\ refresh.phase = "sent" => refresh.cookie # s
    /\ refresh.phase = "answered" => refresh.got # s
    /\ form.phase = "entered" => form.session # s

BrowserInv ==
    /\ SessionsKnown
    /\ Fit(link, current)
    /\ \A s \in left \ late : LeftBehind(s)

\* The initial states satisfy BrowserInv.
LEMMA BrowserInitially == BrowserInit => BrowserInv
<1> SUFFICES ASSUME BrowserInit PROVE BrowserInv
  OBVIOUS
<1>1. Opened = {} /\ Cardinality(Opened) = 0
  BY FS_EmptySet DEF BrowserInit, Opened
<1>2. SessionsKnown
  BY <1>1 DEF BrowserInit, SessionsKnown, Idle
<1>3. Fit(link, current)
  <2>1. NoAttempt \in Attempts(Opened) /\ NoAttempt.phase = "none"
    BY DEF NoAttempt, Attempts
  <2>2. /\ link \in Links(Opened) /\ link.attempt = NoAttempt /\ link.as = 0 /\ link.desired = FALSE
    BY <2>1 DEF BrowserInit, Links
  <2>3. QED BY <2>1, <2>2 DEF Fit, Tidy, Provided, Counts
<1>4. QED BY <1>2, <1>3 DEF BrowserInv, BrowserInit

\* What a published session leaves of the link.
LEMMA AppliedFits ==
    ASSUME Fit(link, current), current \in Opened \cup {0}, NEW s \in Opened \cup {0}
    PROVE  Fit(Applied(link, s), s)
<1>1. link \in Links(Opened) /\ Tidy(link)
  BY DEF Fit
<1>2. CASE s = 0
  BY <1>1, <1>2, DisconnectSocketMoves DEF Applied, Fit
<1>3. CASE s # 0 /\ (current = 0 \/ owner[current] # owner[s])
  BY <1>1, <1>3, ResetMoves DEF Applied, Fit
<1>4. CASE s # 0 /\ ~(current = 0 \/ owner[current] # owner[s])
  BY <1>4 DEF Applied, Fit
<1>5. QED BY <1>2, <1>3, <1>4

\* Sessions are numbered as they are opened.
LEMMA OpenMoves ==
    ASSUME SessionsKnown, NEW u, OpenSession(u), NEW n, n = Cardinality(Opened) + 1
    PROVE  /\ n \in Opened' /\ n \notin Opened /\ Opened \subseteq Opened' /\ Opened' = Opened \cup {n}
           /\ Cardinality(Opened)' \in Nat /\ Opened' = 1..Cardinality(Opened)'
           /\ \A s \in Opened : owner'[s] = owner[s]
<1>1. PICK c \in Nat : c = Cardinality(Opened)
  BY DEF SessionsKnown
<1>2. c \in Nat /\ n \in Nat /\ n = c + 1 /\ Opened = 1..c
  BY <1>1 DEF SessionsKnown
<1>a. 1..n = 1..c \cup {n} /\ n \in 1..n /\ n \notin 1..c
  BY <1>2
<1>3. owner' = [s \in 1..n |-> IF s \in Opened THEN owner[s] ELSE u]
  BY <1>1, <1>2 DEF OpenSession
<1>4. Opened' = 1..n
  BY <1>3 DEF Opened
<1>5. Cardinality(Opened)' = n /\ n \in Nat
  <2>1. Cardinality(1..n) = n
    BY <1>1, <1>2, FS_Interval
  <2>2. QED BY <1>2, <1>4, <2>1
<1>6. n \in Opened' /\ n \notin Opened /\ Opened \subseteq Opened' /\ Opened' = Opened \cup {n}
  BY <1>2, <1>a, <1>4
<1>7. \A s \in Opened : owner'[s] = owner[s]
  BY <1>2, <1>a, <1>3
<1>8. QED BY <1>4, <1>5, <1>6, <1>7

\* A session that opens leaves the connection fitting.
LEMMA OpenFits ==
    ASSUME SessionsKnown, Fit(link, current), NEW u, OpenSession(u), UNCHANGED <<link, current>>
    PROVE  Fit(link, current)'
<1>1. Opened \subseteq Opened' /\ \A s \in Opened : owner'[s] = owner[s]
  BY OpenMoves
<1>2. link \in Links(Opened)' /\ (link.as # 0 => link.as \in Opened) /\ current \in Opened \cup {0}
  BY <1>1 DEF Fit, Links, Attempts, SessionsKnown
<1>3. Tidy(link)' /\ Provided(link)' /\ Counts(link)' = Counts(link)
  BY DEF Fit, Tidy, Provided, Counts
<1>4. QED BY <1>1, <1>2, <1>3 DEF Fit

\* The steps of the ticket.
LEMMA AwaitFits ==
    ASSUME SessionsKnown, Fit(link, current), link.attempt.phase \in {"asking", "requested"}, UNCHANGED owner, AwaitRefresh
    PROVE  Fit(link, current)' /\ current' \in {current, 0}
<1>1. link \in Links(Opened) /\ Tidy(link)
  BY DEF Fit
<1>2. CASE link' = [link EXCEPT !.attempt.phase = "refreshing"] /\ UNCHANGED current
  <2>1. /\ link' \in Links(Opened) /\ Tidy(link') /\ Provided(link') /\ link'.as = link.as
        /\ link'.attempt.phase = "refreshing"
    <3>1. PICK ph : ph = "refreshing"
      OBVIOUS
    <3>2. ph \in {"refreshing", "requested", "granted", "joining"} /\ link.attempt.phase # "none"
      BY <3>1
    <3>3. link' = [link EXCEPT !.attempt.phase = ph]
      BY <1>2, <3>1
    <3>4. QED BY <1>1, <3>1, <3>2, <3>3, PhaseMoves
  <2>2. Fit(link', current)
    BY <2>1 DEF Fit, Counts
  <2>3. QED BY <1>2, <2>2 DEF Fit, Opened, Links, Attempts
<1>3. CASE current' = 0 /\ link' = Finished(DisconnectSocket(link))
  <2>1. PICK d : d = DisconnectSocket(link)
    OBVIOUS
  <2>2. d \in Links(Opened) /\ d.as = 0
    BY <1>1, <2>1, DisconnectSocketMoves
  <2>3. /\ link' \in Links(Opened) /\ Tidy(link') /\ Provided(link') /\ link'.as = 0 /\ ~Counts(link')
    BY <1>3, <2>1, <2>2, FinishedMoves
  <2>4. Fit(link', 0)
    BY <2>3 DEF Fit
  <2>5. QED BY <1>3, <2>4 DEF Fit, Opened, Links, Attempts
<1>4. QED BY <1>2, <1>3 DEF AwaitRefresh

\* An attempt that asks for its ticket leaves the connection fitting.
LEMMA RequestFits ==
    ASSUME SessionsKnown, Fit(link, current), link.attempt.phase \in {"asking", "requested"}, UNCHANGED owner,
           current # 0, RequestWith(current)
    PROVE  Fit(link, current)' /\ UNCHANGED <<current, refresh>>
<1>1. link \in Links(Opened) /\ current \in Opened
  BY DEF Fit, SessionsKnown
<1>2. /\ link' \in Links(Opened) /\ Tidy(link') /\ Provided(link') /\ link'.as = link.as /\ link'.attempt.as = current
  <2>1. link.attempt.phase # "none" /\ link' = [link EXCEPT !.attempt.phase = "requested", !.attempt.as = current]
    BY DEF RequestWith
  <2>2. PICK b : b = [link.attempt EXCEPT !.phase = "requested", !.as = current]
    OBVIOUS
  <2>3. link' = [link EXCEPT !.attempt = b]
    BY <1>1, <2>1, <2>2 DEF Links
  <2>4. b \in Attempts(Opened) /\ b.phase = "requested" /\ b.as = current
    BY <1>1, <2>2 DEF Links, Attempts
  <2>5. QED BY <1>1, <2>3, <2>4, AttemptSet
<1>3. Fit(link', current)
  BY <1>1, <1>2 DEF Fit
<1>4. QED BY <1>3 DEF RequestWith, Fit, Opened, Links, Attempts

\* A link that is fit stays fit when nothing else moves.
LEMMA FitNext ==
    ASSUME UNCHANGED owner, NEW j, NEW s, Fit(j, s), link' = j, current' = s
    PROVE  Fit(link, current)'
BY DEF Fit, Opened, Links, Attempts

\* Only the link moves.
LEMMA LinkStep ==
    ASSUME BrowserInv, Fit(link', current), UNCHANGED <<owner, alive, cookie, current, refresh, form, left, late>>
    PROVE  BrowserInv'
<1>1. SessionsKnown'
  BY DEF BrowserInv, SessionsKnown, Opened
<1>2. Fit(link, current)'
  BY FitNext
<1>3. (\A s \in left \ late : LeftBehind(s))'
  BY DEF BrowserInv, LeftBehind
<1>4. QED BY <1>1, <1>2, <1>3 DEF BrowserInv

\* getRealtimeSocket.
LEMMA WantStep ==
    ASSUME BrowserInv, Want
    PROVE  BrowserInv'
<1>1. link \in Links(Opened) /\ Tidy(link) /\ Fit(link, current)
  BY DEF BrowserInv, Fit
<1>2. PICK w : w = [link EXCEPT !.socket = TRUE, !.desired = TRUE]
  OBVIOUS
<1>3. w \in Links(Opened) /\ Tidy(w) /\ w.as = link.as /\ w.attempt = link.attempt
  BY <1>1, <1>2 DEF Links, Tidy
<1>4. PICK j : j = EnsureConnected(w)
  OBVIOUS
<1>5. /\ j \in Links(Opened) /\ Provided(j) /\ Tidy(j) /\ j.as = link.as
      /\ j.attempt = link.attempt \/ j.attempt.phase = "asking"
  BY <1>3, <1>4, EnsureMoves
<1>6. Fit(j, current)
  BY <1>1, <1>5 DEF Fit, Counts
<1>7. QED BY <1>2, <1>4, <1>6, LinkStep DEF Want

\* A ticket that is used, or dropped as one of an earlier generation.
LEMMA TicketArrivesStep ==
    ASSUME BrowserInv, TicketArrives
    PROVE  BrowserInv'
<1>1. link \in Links(Opened) /\ Tidy(link) /\ Fit(link, current) /\ link.attempt.phase = "granted"
  BY DEF BrowserInv, Fit, TicketArrives
<1>2. CASE link.desired /\ link.attempt.fresh
  <2>1. PICK ph : ph = "joining"
    OBVIOUS
  <2>2. ph \in {"refreshing", "requested", "granted", "joining"} /\ link.attempt.phase # "none"
    BY <1>1, <2>1
  <2>3. link' = [link EXCEPT !.attempt.phase = ph]
    BY <1>2, <2>1 DEF TicketArrives
  <2>4. link' \in Links(Opened) /\ Tidy(link') /\ Provided(link') /\ link'.as = link.as /\ link'.attempt.as = link.attempt.as
    BY <1>1, <2>2, <2>3, PhaseMoves
  <2>5. Fit(link', current)
    BY <1>1, <1>2, <2>4 DEF Fit, Counts
  <2>6. QED BY <2>5, LinkStep DEF TicketArrives
<1>3. CASE ~(link.desired /\ link.attempt.fresh)
  <2>1. link' = Finished(link)
    BY <1>3 DEF TicketArrives
  <2>2. link' \in Links(Opened) /\ Tidy(link') /\ Provided(link') /\ link'.as = link.as /\ ~Counts(link')
    BY <1>1, <2>1, FinishedMoves
  <2>3. Fit(link', current)
    BY <1>1, <2>2 DEF Fit
  <2>4. QED BY <2>3, LinkStep DEF TicketArrives
<1>4. QED BY <1>2, <1>3

\* The connection is made, as whom its ticket was issued to.
LEMMA JoinStep ==
    ASSUME BrowserInv, Join
    PROVE  BrowserInv'
<1>1. link \in Links(Opened) /\ Fit(link, current) /\ Counts(link) /\ SessionsKnown
  BY DEF BrowserInv, Fit, Join, Counts
<1>2. link.attempt.as \in Opened /\ current # 0 /\ owner[link.attempt.as] = owner[current]
  BY <1>1 DEF Fit
<1>3. link.attempt.as # 0
  BY <1>1, <1>2 DEF SessionsKnown
<1>4. PICK a : a = link.attempt.as
  OBVIOUS
<1>5. link' = [link EXCEPT !.as = a, !.attempt = NoAttempt]
  BY <1>4 DEF Join
<1>6. NoAttempt \in Attempts(Opened) /\ NoAttempt.phase = "none"
  BY DEF NoAttempt, Attempts
<1>7. link' \in Links(Opened) /\ link'.as = a /\ link'.attempt = NoAttempt
  BY <1>1, <1>2, <1>4, <1>5, <1>6 DEF Links
<1>8. Fit(link', current)
  BY <1>2, <1>3, <1>4, <1>6, <1>7 DEF Fit, Tidy, Provided, Counts
<1>9. QED BY <1>8, LinkStep DEF Join

\* An attempt ends without a connection.
LEMMA AttemptFailsStep ==
    ASSUME BrowserInv, AttemptFails
    PROVE  BrowserInv'
<1>1. link \in Links(Opened) /\ Fit(link, current) /\ link' = Finished(link)
  BY DEF BrowserInv, Fit, AttemptFails
<1>2. link' \in Links(Opened) /\ Tidy(link') /\ Provided(link') /\ link'.as = link.as /\ ~Counts(link')
  BY <1>1, FinishedMoves
<1>3. Fit(link', current)
  BY <1>1, <1>2 DEF Fit
<1>4. QED BY <1>3, LinkStep DEF AttemptFails

\* A connection is lost, or replaced.
LEMMA LoseConnectionStep ==
    ASSUME BrowserInv, LoseConnection
    PROVE  BrowserInv'
<1>1. link \in Links(Opened) /\ Tidy(link) /\ Fit(link, current) /\ link.as # 0
  BY DEF BrowserInv, Fit, LoseConnection
<1>2. Fit(link', current)
  <2>1. CASE link' = ScheduleReconnect([link EXCEPT !.as = 0])
    <3>1. PICK c : c = [link EXCEPT !.as = 0]
      OBVIOUS
    <3>2. c \in Links(Opened) /\ Tidy(c) /\ c.as = 0 /\ c.attempt = link.attempt
      BY <1>1, <3>1 DEF Links, Tidy
    <3>3. link' \in Links(Opened) /\ Provided(link') /\ Tidy(link') /\ link'.as = 0 /\ link'.attempt = link.attempt
      BY <2>1, <3>1, <3>2, ScheduleMoves
    <3>4. QED BY <1>1, <3>3 DEF Fit, Counts
  <2>2. CASE link' = EnsureConnected(Cut(NextGeneration(link)))
    <3>1. PICK g : g = NextGeneration(link)
      OBVIOUS
    <3>2. g \in Links(Opened) /\ Tidy(g) /\ ~g.attempt.fresh
      BY <1>1, <3>1, GenerationMoves
    <3>3. PICK c : c = Cut(g)
      OBVIOUS
    <3>4. c \in Links(Opened) /\ Tidy(c) /\ c.as = 0 /\ ~c.attempt.fresh /\ c.attempt.phase # "joining"
      BY <3>2, <3>3, CutMoves
    <3>5. /\ link' \in Links(Opened) /\ Provided(link') /\ Tidy(link') /\ link'.as = 0
          /\ link'.attempt = c.attempt \/ link'.attempt.phase = "asking"
      BY <2>2, <3>1, <3>3, <3>4, EnsureMoves
    <3>6. QED BY <3>4, <3>5 DEF Fit, Counts
  <2>3. QED BY <2>1, <2>2 DEF LoseConnection
<1>3. QED BY <1>2, LinkStep DEF LoseConnection

\* The reconnect timer.
LEMMA TimerFiresStep ==
    ASSUME BrowserInv, TimerFires
    PROVE  BrowserInv'
<1>1. link \in Links(Opened) /\ Tidy(link) /\ Fit(link, current)
  BY DEF BrowserInv, Fit
<1>2. PICK w : w = [link EXCEPT !.timer = FALSE]
  OBVIOUS
<1>3. w \in Links(Opened) /\ Tidy(w) /\ w.as = link.as /\ w.attempt = link.attempt
  BY <1>1, <1>2 DEF Links, Tidy
<1>4. PICK j : j = EnsureConnected(w)
  OBVIOUS
<1>5. /\ j \in Links(Opened) /\ Provided(j) /\ Tidy(j) /\ j.as = link.as
      /\ j.attempt = link.attempt \/ j.attempt.phase = "asking"
  BY <1>3, <1>4, EnsureMoves
<1>6. Fit(j, current)
  BY <1>1, <1>5 DEF Fit, Counts
<1>7. QED BY <1>2, <1>4, <1>6, LinkStep DEF TimerFires

\* A change of the profile resets the connection.
LEMMA PatchUserStep ==
    ASSUME BrowserInv, PatchUser
    PROVE  BrowserInv'
<1>1. link \in Links(Opened) /\ Tidy(link) /\ link' = ResetSocket(link)
  BY DEF BrowserInv, Fit, PatchUser
<1>2. link' \in Links(Opened) /\ Tidy(link') /\ Provided(link') /\ link'.as = 0 /\ ~Counts(link')
  BY <1>1, ResetMoves
<1>3. Fit(link', current)
  BY <1>2 DEF Fit
<1>4. QED BY <1>3, LinkStep DEF PatchUser

\* The link and the tab's session stay as they are.
LEMMA FitStays ==
    ASSUME BrowserInv, UNCHANGED <<owner, current, link>>
    PROVE  Fit(link, current)'
BY FitNext DEF BrowserInv

\* resolve, of a tab that may have a session.
LEMMA ResolveStep ==
    ASSUME BrowserInv, Resolve
    PROVE  BrowserInv'
<1>1. SessionsKnown'
  BY DEF BrowserInv, SessionsKnown, Opened, Resolve, SendRefresh, Publish
<1>2. Fit(link, current)'
  <2>1. CASE UNCHANGED <<current, link>>
    BY <2>1, FitStays DEF Resolve
  <2>2. CASE Publish(0)
    <3>1. Fit(Applied(link, 0), 0)
      BY AppliedFits DEF BrowserInv, SessionsKnown
    <3>2. QED BY <2>2, <3>1, FitNext DEF Publish, Resolve
  <2>3. QED BY <2>1, <2>2 DEF Resolve
<1>3. ASSUME NEW s \in left \ late PROVE LeftBehind(s)'
  <2>1. LeftBehind(s) /\ s # 0
    BY DEF BrowserInv, SessionsKnown
  <2>2. QED BY <2>1 DEF LeftBehind, Resolve, SendRefresh, Publish, Refreshing
<1>4. QED BY <1>1, <1>2, <1>3 DEF BrowserInv, Resolve

\* The service answers a refresh.
LEMMA ServeRefreshStep ==
    ASSUME BrowserInv, ServeRefresh
    PROVE  BrowserInv'
<1>1. PICK got \in {Rotated(refresh), -1} : refresh' = [phase |-> "answered", got |-> got]
  BY DEF ServeRefresh
<1>2. got \in {0, -1, refresh.cookie} /\ refresh.phase = "sent"
  BY <1>1 DEF Rotated, ServeRefresh
<1>3. SessionsKnown'
  BY <1>1, <1>2 DEF BrowserInv, SessionsKnown, Opened, ServeRefresh
<1>4. Fit(link, current)'
  BY FitStays DEF ServeRefresh
<1>5. ASSUME NEW s \in left \ late PROVE LeftBehind(s)'
  <2>1. LeftBehind(s) /\ s # 0 /\ s # -1
    BY DEF BrowserInv, SessionsKnown
  <2>2. QED BY <1>1, <1>2, <2>1 DEF LeftBehind, ServeRefresh
<1>6. QED BY <1>3, <1>4, <1>5 DEF BrowserInv, ServeRefresh

\* A ticket request that waited goes on as the session that came.
LEMMA ResumedFits ==
    ASSUME NEW k, NEW s \in Opened \cup {0}, Fit(k, s)
    PROVE  Fit(Resumed(k, s), s)
<1>1. k \in Links(Opened)
  BY DEF Fit
<1>2. CASE k.attempt.phase # "refreshing"
  BY <1>2 DEF Resumed
<1>3. CASE k.attempt.phase = "refreshing" /\ s = 0
  <2>1. PICK j : j = Finished(k)
    OBVIOUS
  <2>2. j \in Links(Opened) /\ Tidy(j) /\ Provided(j) /\ j.as = k.as /\ ~Counts(j)
    BY <1>1, <2>1, FinishedMoves
  <2>3. Fit(j, s)
    BY <2>2 DEF Fit
  <2>4. QED BY <1>3, <2>1, <2>3 DEF Resumed
<1>4. CASE k.attempt.phase = "refreshing" /\ s # 0
  <2>1. PICK b : b = [k.attempt EXCEPT !.phase = "requested", !.as = s]
    OBVIOUS
  <2>2. b \in Attempts(Opened) /\ b.phase = "requested" /\ b.as = s
    BY <1>1, <2>1 DEF Links, Attempts
  <2>3. PICK j : j = [k EXCEPT !.attempt = b]
    OBVIOUS
  <2>4. j \in Links(Opened) /\ Tidy(j) /\ Provided(j) /\ j.as = k.as /\ j.attempt = b
    BY <1>1, <2>2, <2>3, AttemptSet
  <2>5. Resumed(k, s) = j
    BY <1>1, <1>4, <2>1, <2>3 DEF Resumed, Links
  <2>6. Fit(j, s)
    BY <1>4, <2>2, <2>4 DEF Fit, Counts
  <2>7. QED BY <2>5, <2>6
<1>5. QED BY <1>2, <1>3, <1>4

\* The answer arrives, and the session is published.
LEMMA RefreshReplyStep ==
    ASSUME BrowserInv, RefreshReply
    PROVE  BrowserInv'
<1>1. PICK s : s = IF refresh.got = -1 THEN 0 ELSE refresh.got
  OBVIOUS
<1>2. s \in Opened \cup {0} /\ current' = s /\ link' = Resumed(Applied(link, s), s)
  BY <1>1 DEF BrowserInv, SessionsKnown, RefreshReply
<1>3. SessionsKnown'
  BY <1>2 DEF BrowserInv, SessionsKnown, Opened, RefreshReply, Idle
<1>4. Fit(link, current)'
  <2>1. Fit(Applied(link, s), s)
    BY <1>2, AppliedFits DEF BrowserInv, SessionsKnown
  <2>2. Fit(Resumed(Applied(link, s), s), s)
    BY <1>2, <2>1, ResumedFits
  <2>3. QED BY <1>2, <2>2, FitNext DEF RefreshReply
<1>5. ASSUME NEW o \in left \ late PROVE LeftBehind(o)'
  <2>1. LeftBehind(o) /\ o # 0
    BY DEF BrowserInv, SessionsKnown
  <2>2. QED BY <1>1, <1>2, <2>1 DEF LeftBehind, RefreshReply, Idle
<1>6. QED BY <1>3, <1>4, <1>5 DEF BrowserInv, RefreshReply

\* A form is sent, or answered without effect on the tab.
LEMMA FormsStep ==
    ASSUME BrowserInv, SignIn \/ SignOut \/ ServeSignOut \/ FormFails
    PROVE  BrowserInv'
<1>1. UNCHANGED <<owner, cookie, current, refresh, link, left, late>> /\ form'.phase \in {"entering", "leaving", "left", "none"}
  BY DEF SignIn, SignOut, ServeSignOut, FormFails, Idle
<1>2. (form'.phase = "leaving" => form'.csrf \in Opened) /\ (form'.phase = "left" => form'.session \in Opened)
  BY DEF SignIn, SignOut, ServeSignOut, FormFails, Idle, BrowserInv, SessionsKnown
<1>3. SessionsKnown'
  BY <1>1, <1>2 DEF BrowserInv, SessionsKnown, Opened
<1>4. Fit(link, current)'
  BY <1>1, FitStays
<1>5. (\A s \in left \ late : LeftBehind(s))'
  BY <1>1 DEF BrowserInv, LeftBehind
<1>6. QED BY <1>3, <1>4, <1>5 DEF BrowserInv

\* A session is opened by the form, or in another tab.
LEMMA OpenStep ==
    ASSUME BrowserInv, NEW u, OpenSession(u), NEW n, n = Cardinality(Opened) + 1,
           UNCHANGED <<current, refresh, link, left, late>>,
           \/ cookie' = n /\ UNCHANGED form
           \/ UNCHANGED cookie /\ form' = [phase |-> "entered", session |-> n]
    PROVE  BrowserInv'
<1>1. /\ n \in Opened' /\ n \notin Opened /\ Opened \subseteq Opened'
      /\ Cardinality(Opened)' \in Nat /\ Opened' = 1..Cardinality(Opened)'
  BY OpenMoves DEF BrowserInv
<1>2. SessionsKnown'
  BY <1>1 DEF BrowserInv, SessionsKnown
<1>3. Fit(link, current)'
  BY OpenFits DEF BrowserInv
<1>4. ASSUME NEW s \in left \ late PROVE LeftBehind(s)'
  <2>1. LeftBehind(s) /\ s # n
    BY <1>1 DEF BrowserInv, SessionsKnown
  <2>2. QED BY <2>1 DEF LeftBehind
<1>5. QED BY <1>2, <1>3, <1>4 DEF BrowserInv

\* The answer to a sign-in arrives.
LEMMA EnteredStep ==
    ASSUME BrowserInv, Entered
    PROVE  BrowserInv'
<1>1. PICK s : s = form.session
  OBVIOUS
<1>2. s \in Opened /\ current' = s /\ link' = ResetSocket(Applied(link, s)) /\ cookie' = s
  BY <1>1 DEF BrowserInv, SessionsKnown, Entered
<1>3. SessionsKnown'
  BY <1>2 DEF BrowserInv, SessionsKnown, Opened, Entered, Idle
<1>4. Fit(link, current)'
  <2>1. PICK k : k = Applied(link, s)
    OBVIOUS
  <2>2. Fit(k, s)
    BY <1>2, <2>1, AppliedFits DEF BrowserInv, SessionsKnown
  <2>3. PICK j : j = ResetSocket(k)
    OBVIOUS
  <2>4. j \in Links(Opened) /\ Tidy(j) /\ Provided(j) /\ j.as = 0 /\ ~Counts(j)
    BY <2>2, <2>3, ResetMoves DEF Fit
  <2>5. Fit(j, s)
    BY <2>4 DEF Fit
  <2>6. QED BY <1>2, <2>1, <2>3, <2>5, FitNext DEF Entered
<1>5. ASSUME NEW o \in left \ late PROVE LeftBehind(o)'
  <2>1. LeftBehind(o)
    BY DEF BrowserInv
  <2>2. QED BY <1>1, <1>2, <2>1 DEF LeftBehind, Entered, Idle
<1>6. QED BY <1>3, <1>4, <1>5 DEF BrowserInv, Entered

\* The tab drops its session.
LEMMA EndSessionStep ==
    ASSUME BrowserInv, EndSession
    PROVE  BrowserInv'
<1>1. SessionsKnown'
  BY DEF BrowserInv, SessionsKnown, Opened, EndSession, Publish
<1>2. Fit(link, current)'
  <2>1. Fit(Applied(link, 0), 0)
    BY AppliedFits DEF BrowserInv, SessionsKnown
  <2>2. QED BY <2>1, FitNext DEF EndSession, Publish
<1>3. ASSUME NEW s \in left \ late PROVE LeftBehind(s)'
  <2>1. LeftBehind(s) /\ s # 0
    BY DEF BrowserInv, SessionsKnown
  <2>2. QED BY <2>1 DEF LeftBehind, EndSession, Publish
<1>4. QED BY <1>1, <1>2, <1>3 DEF BrowserInv, EndSession

\* The tab has signed out: a session joins those that are left.
LEMMA LeftStep ==
    ASSUME BrowserInv, Left
    PROVE  BrowserInv'
<1>1. current' = 0 /\ cookie' = 0 /\ link' = Applied(link, 0) /\ form.session \in Opened
  BY DEF BrowserInv, SessionsKnown, Left, GoesAnonymous, Publish
<1>2. SessionsKnown'
  BY <1>1 DEF BrowserInv, SessionsKnown, Opened, Left, Idle
<1>3. Fit(link, current)'
  <2>1. Fit(Applied(link, 0), 0)
    BY AppliedFits DEF BrowserInv, SessionsKnown
  <2>2. QED BY <1>1, <2>1, FitNext DEF Left
<1>4. ASSUME NEW s \in left' \ late' PROVE LeftBehind(s)'
  <2>1. s # 0 /\ refresh' = refresh /\ form' = Idle
    BY <1>1 DEF BrowserInv, SessionsKnown, Left
  <2>2. CASE s \in left \ late
    BY <1>1, <2>1, <2>2 DEF BrowserInv, LeftBehind, Idle
  <2>3. CASE s \notin left \ late
    <3>1. refresh.phase = "none"
      BY <2>3 DEF Left, Refreshing
    <3>2. QED BY <1>1, <2>1, <3>1 DEF LeftBehind, Idle
  <2>4. QED BY <2>2, <2>3
<1>5. QED BY <1>2, <1>3, <1>4 DEF BrowserInv

\* What other tabs, devices and administrators do.
LEMMA OthersStep ==
    ASSUME BrowserInv, OtherTab \/ \E s \in Opened : Revoke(s)
    PROVE  BrowserInv'
<1>1. CASE \E u \in Users : OpenSession(u) /\ cookie' = Cardinality(Opened) + 1 /\ OtherTab
  <2>1. PICK u \in Users : OpenSession(u) /\ cookie' = Cardinality(Opened) + 1
    BY <1>1
  <2>2. QED BY <1>1, <2>1, OpenStep DEF OtherTab
<1>2. CASE UNCHANGED <<owner, current, refresh, form, link, left, late>> /\ cookie' \in {0, cookie}
  <2>1. SessionsKnown'
    BY <1>2 DEF BrowserInv, SessionsKnown, Opened
  <2>2. Fit(link, current)'
    BY <1>2, FitStays
  <2>3. ASSUME NEW s \in left \ late PROVE LeftBehind(s)'
    <3>1. LeftBehind(s) /\ s # 0
      BY DEF BrowserInv, SessionsKnown
    <3>2. QED BY <1>2, <3>1 DEF LeftBehind
  <2>4. QED BY <1>2, <2>1, <2>2, <2>3 DEF BrowserInv
<1>3. QED BY <1>1, <1>2 DEF OtherTab, Revoke

\* The ticket is asked for, or its request is answered.
LEMMA TicketStep ==
    ASSUME BrowserInv, AskTicket \/ ServeTicket
    PROVE  BrowserInv'
<1>1. SessionsKnown /\ Fit(link, current) /\ link \in Links(Opened) /\ UNCHANGED <<owner, cookie, form, left, late>>
  BY DEF BrowserInv, Fit, AskTicket, ServeTicket
<1>2. CASE AwaitRefresh /\ link.attempt.phase \in {"asking", "requested"}
  <2>1. Fit(link, current)' /\ current' \in {current, 0}
    BY <1>1, <1>2, AwaitFits
  <2>2. refresh' = refresh \/ (refresh' = [phase |-> "sent", csrf |-> Csrf, cookie |-> cookie])
    BY <1>2 DEF AwaitRefresh, SendRefresh
  <2>3. SessionsKnown'
    BY <1>1, <2>1, <2>2 DEF SessionsKnown, Opened
  <2>4. ASSUME NEW s \in left \ late PROVE LeftBehind(s)'
    <3>1. LeftBehind(s) /\ s # 0
      BY DEF BrowserInv, SessionsKnown
    <3>2. QED BY <1>1, <2>1, <2>2, <3>1 DEF LeftBehind
  <2>5. QED BY <1>1, <2>1, <2>3, <2>4 DEF BrowserInv
<1>3. ASSUME Fit(link, current)', UNCHANGED <<current, refresh>> PROVE BrowserInv'
  <2>1. SessionsKnown'
    BY <1>1, <1>3 DEF SessionsKnown, Opened
  <2>2. (\A s \in left \ late : LeftBehind(s))'
    BY <1>1, <1>3 DEF BrowserInv, LeftBehind
  <2>3. QED BY <1>3, <2>1, <2>2 DEF BrowserInv
<1>4. CASE RequestWith(current) /\ current # 0 /\ link.attempt.phase \in {"asking", "requested"}
  BY <1>1, <1>3, <1>4, RequestFits
<1>5. CASE link' = [link EXCEPT !.attempt.phase = "granted"] /\ link.attempt.phase = "requested" /\ UNCHANGED <<current, refresh>>
  <2>1. PICK ph : ph = "granted"
    OBVIOUS
  <2>2. ph \in {"refreshing", "requested", "granted", "joining"} /\ link.attempt.phase # "none"
    BY <1>5, <2>1
  <2>3. link' = [link EXCEPT !.attempt.phase = ph]
    BY <1>5, <2>1
  <2>4. /\ link' \in Links(Opened) /\ Tidy(link') /\ Provided(link') /\ link'.as = link.as /\ link'.attempt.as = link.attempt.as
        /\ link'.attempt.phase = ph /\ link'.attempt.fresh = link.attempt.fresh
    BY <1>1, <2>2, <2>3, PhaseMoves
  <2>5. Fit(link', current)
    BY <1>1, <1>5, <2>1, <2>4 DEF Fit, Counts
  <2>6. Fit(link, current)'
    BY <1>1, <1>5, <2>5, FitNext
  <2>7. QED BY <1>3, <1>5, <2>6
<1>6. QED BY <1>2, <1>4, <1>5 DEF AskTicket, ServeTicket

\* Every step of the tab and of those around it keeps the invariant.
LEMMA BrowserStep == BrowserInv /\ [BrowserNext]_browser => BrowserInv'
<1> SUFFICES ASSUME BrowserInv, [BrowserNext]_browser PROVE BrowserInv'
  OBVIOUS
<1>1. CASE Want \/ TicketArrives \/ Join \/ AttemptFails \/ LoseConnection \/ TimerFires \/ PatchUser
  BY <1>1, WantStep, TicketArrivesStep, JoinStep, AttemptFailsStep, LoseConnectionStep, TimerFiresStep, PatchUserStep
<1>2. CASE AskTicket \/ ServeTicket
  BY <1>2, TicketStep
<1>3. CASE Resolve \/ ServeRefresh \/ RefreshReply
  BY <1>3, ResolveStep, ServeRefreshStep, RefreshReplyStep
<1>4. CASE SignIn \/ SignOut \/ ServeSignOut \/ FormFails
  BY <1>4, FormsStep
<1>5. CASE \E u \in Users : ServeSignIn(u)
  BY <1>5, OpenStep DEF ServeSignIn
<1>6. CASE Entered \/ EndSession \/ Left
  BY <1>6, EnteredStep, EndSessionStep, LeftStep
<1>7. CASE OtherTab \/ \E s \in Opened : Revoke(s)
  BY <1>7, OthersStep
<1>8. CASE UNCHANGED browser
  <2>1. Fit(link, current)'
    BY <1>8, FitStays DEF browser
  <2>2. SessionsKnown'
    BY <1>8 DEF browser, BrowserInv, SessionsKnown, Opened
  <2>3. (\A s \in left \ late : LeftBehind(s))'
    BY <1>8 DEF browser, BrowserInv, LeftBehind
  <2>4. QED BY <2>1, <2>2, <2>3 DEF BrowserInv
<1>9. QED BY <1>1, <1>2, <1>3, <1>4, <1>5, <1>6, <1>7, <1>8 DEF BrowserNext

(* The tab's connection, what waits for it and what it may be resumed with   *)
(* fit its session in every reachable state (auth.ts, realtimeSocket.ts).    *)
THEOREM BrowserInvariant == BrowserSpec => []BrowserInv
BY BrowserInitially, BrowserStep, PTL DEF BrowserSpec

(* A realtime connection is that of the user the tab shows                   *)
(* (realtimeSocket.ts resetRealtimeSocket, authState.ts applySession).       *)
THEOREM ConnectionsOfTheShown == BrowserSpec => []ConnectedAsShown
<1>1. BrowserInv => ConnectedAsShown
  BY DEF BrowserInv, Fit, ConnectedAsShown
<1>2. QED BY <1>1, BrowserInvariant, PTL

(* A wanted connection is there, being made, or about to be tried again      *)
(* (realtimeSocket.ts scheduleReconnect and the finally of its attempt).     *)
THEOREM ConnectionsKeepComing == BrowserSpec => []NeverStranded
<1>1. BrowserInv => NeverStranded
  BY DEF BrowserInv, Fit, Provided, NeverStranded
<1>2. QED BY <1>1, BrowserInvariant, PTL

(* A tab has the connection it should have, or is about to: Connection-      *)
(* FollowsSession, for any number of sessions and users.                     *)
THEOREM SessionsKeepConnections == BrowserSpec => []ConnectionFollowsSession
BY ConnectionsOfTheShown, ConnectionsKeepComing, PTL DEF ConnectionFollowsSession

(* A session that was signed out of comes back only by a refresh that was    *)
(* under way (auth.ts logout against refreshAfterUnauthorized).              *)
THEOREM SignedOutSessionsStayOut == BrowserSpec => []SignedOutStaysOut
<1>1. BrowserInv => SignedOutStaysOut
  BY DEF BrowserInv, LeftBehind, SignedOutStaysOut
<1>2. QED BY <1>1, BrowserInvariant, PTL

-----------------------------------------------------------------------------
(* The search field.                                                       *)

AnswerTo(p) == [phrase |-> p, hits |-> p \in matched]

\* A request that is not dropped, and a timer that runs, are for the phrase in the field.
FieldAsked ==
    /\ searches \subseteq [phrase : Searchable, hits : BOOLEAN, at : {"sent", "served"}, live : BOOLEAN]
    /\ \A r \in searches : /\ r.live => Visible /\ r.phrase = entry.phrase
                           /\ r.at = "served" => r.hits = (r.phrase \in matched)
    /\ debounce # NoPhrase => Visible /\ debounce = entry.phrase

\* What is remembered as answered has its answer; the open panel waits or has been answered.
FieldAnswered ==
    /\ unanswered \in BOOLEAN
    /\ unanswered \/ panel.fetched \notin Searchable \/ panel.results = AnswerTo(panel.fetched)
    /\ Visible /\ ~panel.loading => unanswered \/ panel.fetched = entry.phrase

SearchInv == FieldAsked /\ FieldAnswered

\* The initial states satisfy SearchInv.
LEMMA SearchInitially == SearchInit => SearchInv
<1> SUFFICES ASSUME SearchInit PROVE SearchInv
  OBVIOUS
<1>1. entry.open = FALSE
  BY DEF SearchInit
<1>2. searches = {} /\ debounce = NoPhrase /\ unanswered = FALSE /\ panel.fetched = NoPhrase
  BY DEF SearchInit
<1>3. NoPhrase \notin Searchable
  BY SearchableAssumption
<1>4. QED BY <1>1, <1>2, <1>3 DEF SearchInv, FieldAsked, FieldAnswered, Visible

\* The effects of a render.
LEMMA RenderedKeeps ==
    ASSUME SearchInv, NEW p, NEW o \in BOOLEAN, Rendered(p, o), UNCHANGED <<matched, unanswered>>
    PROVE  SearchInv'
<1>1. entry' = [phrase |-> p, open |-> o]
  BY DEF Rendered
<1>2. CASE p = entry.phrase /\ o = entry.open
  <2>1. UNCHANGED <<panel, debounce, searches>>
    BY <1>2 DEF Rendered
  <2>2. QED BY <1>1, <1>2, <2>1 DEF SearchInv, FieldAsked, FieldAnswered, Visible, AnswerTo
<1>3. CASE ~(p = entry.phrase /\ o = entry.open)
  <2>1. PICK short : short = (p \notin Searchable)
    OBVIOUS
  <2>2. PICK asks : asks = (~(p \notin Searchable) /\ o /\ panel.fetched # p)
    OBVIOUS
  <2>3. /\ panel' = [fetched |-> IF short THEN NoPhrase ELSE panel.fetched,
                     results |-> IF short THEN NoResults ELSE panel.results, loading |-> asks]
        /\ debounce' = IF asks THEN p ELSE NoPhrase
        /\ searches' = {[r EXCEPT !.live = FALSE] : r \in searches}
    BY <1>3, <2>1, <2>2 DEF Rendered
  <2>4. FieldAsked'
    <3>1. debounce' # NoPhrase => Visible' /\ debounce' = entry'.phrase
      BY <1>1, <2>2, <2>3 DEF Visible
    <3>2. ASSUME NEW n \in searches'
          PROVE  /\ n \in [phrase : Searchable, hits : BOOLEAN, at : {"sent", "served"}, live : BOOLEAN]
                 /\ ~n.live /\ (n.at = "served" => n.hits = (n.phrase \in matched'))
      <4>1. PICK r \in searches : n = [r EXCEPT !.live = FALSE]
        BY <2>3
      <4>2. r \in [phrase : Searchable, hits : BOOLEAN, at : {"sent", "served"}, live : BOOLEAN]
        BY DEF SearchInv, FieldAsked
      <4>3. n \in [phrase : Searchable, hits : BOOLEAN, at : {"sent", "served"}, live : BOOLEAN] /\ n.live = FALSE
            /\ n.at = r.at /\ n.hits = r.hits /\ n.phrase = r.phrase
        BY <4>1, <4>2
      <4>4. QED BY <4>3 DEF SearchInv, FieldAsked
    <3>3. QED BY <3>1, <3>2 DEF FieldAsked
  <2>5. FieldAnswered'
    <3>1. panel'.fetched \in Searchable => panel'.fetched = panel.fetched /\ panel'.results = panel.results
      BY <2>3, SearchableAssumption
    <3>2. Visible' /\ ~panel'.loading => panel'.fetched = p
      BY <1>1, <2>1, <2>2, <2>3 DEF Visible
    <3>3. QED BY <1>1, <3>1, <3>2 DEF SearchInv, FieldAnswered, AnswerTo
  <2>6. QED BY <2>4, <2>5 DEF SearchInv
<1>4. QED BY <1>2, <1>3

\* Every step of the field keeps the invariant.
LEMMA SearchStep == SearchInv /\ [SearchNext]_searching => SearchInv'
<1> SUFFICES ASSUME SearchInv, [SearchNext]_searching PROVE SearchInv'
  OBVIOUS
<1> USE DEF SearchInv
<1>1. ASSUME UNCHANGED <<matched, entry, panel, debounce, searches, unanswered>> PROVE SearchInv'
  BY <1>1 DEF FieldAsked, FieldAnswered, Visible, AnswerTo
<1>2. CASE (\E p \in Phrases : TypePhrase(p)) \/ FocusField \/ ClosePanel \/ HandleSubmit
  BY <1>2, RenderedKeeps DEF TypePhrase, FocusField, ClosePanel, HandleSubmit
<1>3. CASE ArriveAt \/ \E p \in Phrases \cup {NoPhrase} : GoTo(p)
  BY <1>1, <1>3, RenderedKeeps DEF ArriveAt, GoTo
<1>4. CASE TimeOut
  <2>1. PICK n : n = [phrase |-> debounce, hits |-> FALSE, at |-> "sent", live |-> TRUE]
    OBVIOUS
  <2>2. debounce' = NoPhrase /\ searches' = searches \cup {n} /\ UNCHANGED <<matched, entry, panel, unanswered>>
    BY <1>4, <2>1 DEF TimeOut
  <2>3. debounce \in Searchable /\ Visible /\ debounce = entry.phrase
    BY <1>4 DEF TimeOut, FieldAsked, Visible
  <2>4. /\ n \in [phrase : Searchable, hits : BOOLEAN, at : {"sent", "served"}, live : BOOLEAN]
        /\ n.phrase = entry.phrase /\ n.at # "served"
    <3>1. n.phrase = debounce /\ n.at = "sent"
      BY <2>1
    <3>2. n \in [phrase : Searchable, hits : BOOLEAN, at : {"sent", "served"}, live : BOOLEAN]
      BY <2>1, <2>3
    <3>3. QED BY <2>3, <3>1, <3>2
  <2>5. FieldAsked'
    BY <2>2, <2>3, <2>4 DEF FieldAsked, Visible
  <2>6. FieldAnswered'
    BY <2>2 DEF FieldAnswered, Visible, AnswerTo
  <2>7. QED BY <2>5, <2>6
<1>5. ASSUME NEW r \in searches, ServeSearch(r) PROVE SearchInv'
  <2>1. PICK n : n = [r EXCEPT !.at = "served", !.hits = r.phrase \in matched]
    OBVIOUS
  <2>2. searches' = (searches \ {r}) \cup {n} /\ UNCHANGED <<matched, entry, panel, debounce, unanswered>>
    BY <1>5, <2>1 DEF ServeSearch
  <2>3. r \in [phrase : Searchable, hits : BOOLEAN, at : {"sent", "served"}, live : BOOLEAN]
    BY DEF FieldAsked
  <2>4. n \in [phrase : Searchable, hits : BOOLEAN, at : {"sent", "served"}, live : BOOLEAN]
        /\ n.phrase = r.phrase /\ n.live = r.live /\ n.hits = (n.phrase \in matched)
    <3>1. PICK h \in BOOLEAN : h = (r.phrase \in matched)
      <4>1. (r.phrase \in matched) \in BOOLEAN
        OBVIOUS
      <4>2. QED BY <4>1
    <3>2. n = [r EXCEPT !.at = "served", !.hits = h]
      BY <2>1, <3>1
    <3>3. n \in [phrase : Searchable, hits : BOOLEAN, at : {"sent", "served"}, live : BOOLEAN]
      BY <2>3, <3>2
    <3>4. n.phrase = r.phrase /\ n.live = r.live /\ n.hits = h
      BY <2>3, <3>2
    <3>5. QED BY <3>1, <3>3, <3>4
  <2>5. FieldAsked'
    BY <2>2, <2>4 DEF FieldAsked, Visible
  <2>6. FieldAnswered'
    BY <2>2 DEF FieldAnswered, Visible, AnswerTo
  <2>7. QED BY <2>5, <2>6
<1>6. ASSUME NEW r \in searches, SearchAnswer(r) PROVE SearchInv'
  <2>1. r.phrase \in Searchable /\ r.hits = (r.phrase \in matched) /\ (r.live => Visible /\ r.phrase = entry.phrase)
    BY <1>6 DEF SearchAnswer, FieldAsked
  <2>2. searches' \subseteq searches /\ UNCHANGED <<matched, entry, debounce>>
    BY <1>6 DEF SearchAnswer
  <2>3. FieldAsked'
    BY <2>2 DEF FieldAsked, Visible
  <2>4. FieldAnswered'
    <3>1. CASE r.live
      <4>1. panel' = [fetched |-> r.phrase, loading |-> FALSE, results |-> AnswerTo(r.phrase)] /\ unanswered' = FALSE
        BY <1>6, <2>1, <3>1 DEF SearchAnswer, Wanted, AnswerTo
      <4>2. QED BY <2>1, <2>2, <3>1, <4>1 DEF FieldAnswered, Visible, AnswerTo
    <3>2. CASE ~r.live
      BY <1>6, <2>2, <3>2 DEF FieldAnswered, Visible, AnswerTo, SearchAnswer, Wanted
    <3>3. QED BY <3>1, <3>2
  <2>5. QED BY <2>3, <2>4
<1>7. ASSUME NEW r \in searches, SearchFails(r) PROVE SearchInv'
  <2>1. searches' \subseteq searches /\ UNCHANGED <<matched, entry, debounce>>
    BY <1>7 DEF SearchFails
  <2>2. FieldAsked'
    BY <2>1 DEF FieldAsked, Visible
  <2>3. FieldAnswered'
    BY <1>7, <2>1 DEF FieldAnswered, Visible, AnswerTo, SearchFails
  <2>4. QED BY <2>2, <2>3
<1>8. CASE UNCHANGED searching
  BY <1>1, <1>8 DEF searching
<1>9. QED BY <1>2, <1>3, <1>4, <1>5, <1>6, <1>7, <1>8 DEF SearchNext

(* Requests that are not dropped, the timer and what is remembered as        *)
(* answered are for the phrase in the field (SearchBar.tsx).                 *)
THEOREM SearchInvariant == SearchSpec => []SearchInv
BY SearchInitially, SearchStep, PTL DEF SearchSpec

(* The open panel shows the answer to what is typed, in whatever order the   *)
(* requests are answered (SearchBar.tsx, fetchedTermRef and the debounce).   *)
THEOREM PanelAnswersField == SearchSpec => []SuggestionsAnswerField
<1>1. SearchInv => SuggestionsAnswerField
  BY DEF SearchInv, FieldAnswered, SuggestionsAnswerField, Visible, AnswerTo
<1>2. QED BY <1>1, SearchInvariant, PTL

-----------------------------------------------------------------------------
(* The settings of an account.                                             *)

ProfileNames == Names \cup {0, -1}
ProfileRows == [name : ProfileNames, picture : Int]
SettingsRequests ==
    [op : {"upload", "rename", "remove", "close"}, own : BOOLEAN, name : ProfileNames,
     phase : {"sent", "store", "write", "clean", "done", "failed", "reload", "loaded"},
     old : Int, key : Int, row : ProfileRows]
SettingsTasks == {NoTask} \cup SettingsRequests

SettingsTypes ==
    /\ made \in Nat /\ objects \subseteq 1..made
    /\ account \in [there : BOOLEAN, name : ProfileNames, picture : Int]
    /\ header \in ProfileRows /\ disturbed \in BOOLEAN
    /\ renewal \in [at : {"none", "read"}, row : ProfileRows, clean : BOOLEAN]
    /\ task \in [Senders -> SettingsTasks]

Busy(s) == task[s].phase # "none"
Uploads(s) == task[s].phase = "write" /\ task[s].op = "upload"

\* The picture that is, and those that are about to be, are in the store, and
\* nobody is about to delete them.
PicturesKept ==
    /\ account.picture \in objects \cup {NoPicture, External}
    /\ \A s \in Senders : Uploads(s) =>
          /\ task[s].key \in objects /\ task[s].key # account.picture
          /\ \A t \in Senders : Busy(t) => task[t].old # task[s].key
          /\ \A t \in Senders \ {s} : Uploads(t) => task[t].key # task[s].key
    /\ \A s \in Senders :
          /\ task[s].phase = "clean" => task[s].old \notin {NoPicture, account.picture}
          /\ task[s].phase = "store" => task[s].op = "upload"
          /\ task[s].phase = "write" => task[s].op \in {"upload", "remove"}
          /\ Busy(s) => task[s].old \in 1..made \cup {NoPicture, External}
          /\ Busy(s) /\ task[s].op # "upload" => task[s].key = NoPicture

\* A change of the page that was made and is not answered.
Unheard(s, op) == Busy(s) /\ task[s].op = op /\ task[s].own /\ task[s].phase \in {"clean", "done"}

\* The header shows the row, but for what the page is about to hear.
HeaderFollows ==
    /\ SignedIn /\ account.there /\ ~disturbed =>
          /\ header.picture = account.picture \/ \E s \in Senders : Unheard(s, "upload")
          /\ header.name = account.name \/ \E s \in Senders : Unheard(s, "rename")
          /\ \A s \in Senders : /\ Unheard(s, "upload") => task[s].row.picture = account.picture
                                /\ Unheard(s, "rename") => task[s].row.name = account.name
    /\ renewal.at = "read" /\ renewal.clean => renewal.row = Profile
    /\ \A s, t \in Senders : Busy(s) /\ Busy(t) /\ task[s].own /\ task[t].own /\ task[s].op = task[t].op => s = t
    /\ \A s \in Senders : Busy(s) /\ task[s].own => task[s].op # "remove"

SettingsInv == SettingsTypes /\ PicturesKept /\ HeaderFollows

\* The initial states satisfy SettingsInv.
LEMMA SettingsInitially == AccountsInit => SettingsInv
<1> SUFFICES ASSUME AccountsInit PROVE SettingsInv
  OBVIOUS
<1>1. /\ account.there \in BOOLEAN /\ account.name = 0 /\ account.picture \in {NoPicture, External, 1}
      /\ account \in [there : BOOLEAN, name : ProfileNames, picture : Int]
  <2>1. account \in [there : {TRUE}, name : {0}, picture : {NoPicture, External, 1}]
    BY DEF AccountsInit
  <2>2. account.there \in BOOLEAN /\ account.name = 0 /\ account.picture \in {NoPicture, External, 1}
    BY <2>1
  <2>3. account \in [there : BOOLEAN, name : ProfileNames, picture : Int]
    <3>1. NoPicture \in Int /\ External \in Int /\ 0 \in ProfileNames
      BY DEF ProfileNames, NoPicture, External
    <3>2. PICK p \in {NoPicture, External, 1} : account = [there |-> TRUE, name |-> 0, picture |-> p]
      BY <2>1
    <3>3. p \in Int /\ TRUE \in BOOLEAN
      BY <3>1
    <3>4. QED BY <3>1, <3>2, <3>3
  <2>4. QED BY <2>2, <2>3
<1>2. Profile \in ProfileRows /\ header = Profile
  BY <1>1 DEF AccountsInit, Profile, ProfileRows
<1>3. renewal \in [at : {"none", "read"}, row : ProfileRows, clean : BOOLEAN] /\ renewal.at = "none"
  BY DEF AccountsInit, NoRefresh, SignedOut, ProfileRows, ProfileNames, NoPicture
<1>4. \A s \in Senders : task[s] = NoTask /\ ~Busy(s) /\ task[s].phase = "none"
  BY DEF AccountsInit, Busy, NoTask
<1>5. SettingsTypes
  <2>1. task \in [Senders -> SettingsTasks]
    BY DEF AccountsInit, SettingsTasks
  <2>2. made \in Nat /\ objects \subseteq 1..made /\ disturbed \in BOOLEAN
    <3>1. made = 1 /\ objects = {1} /\ disturbed = FALSE
      BY DEF AccountsInit
    <3>2. made \in Nat /\ objects \subseteq 1..made
      BY <3>1
    <3>3. disturbed \in BOOLEAN
      BY <3>1
    <3>4. QED BY <3>2, <3>3
  <2>3. QED BY <1>1, <1>2, <1>3, <2>1, <2>2 DEF SettingsTypes
<1>6. PicturesKept
  BY <1>1, <1>4 DEF PicturesKept, AccountsInit, Uploads
<1>7. HeaderFollows
  BY <1>2, <1>3, <1>4 DEF HeaderFollows, Profile, Unheard
<1>8. QED BY <1>5, <1>6, <1>7 DEF SettingsInv

\* What a request under way is.
LEMMA BusyIs ==
    ASSUME SettingsTypes, NEW s \in Senders, task[s].phase # "none"
    PROVE  task[s] \in SettingsRequests /\ Busy(s)
BY DEF SettingsTypes, SettingsTasks, NoTask, Busy

\* A request goes on, or ends, without a picture in its hands.
LEMMA PicturesStay ==
    ASSUME SettingsInv, NEW s \in Senders, NEW n, task' = [task EXCEPT ![s] = n],
           UNCHANGED <<account.picture, objects, made>>,
           n.phase \notin {"clean", "store", "write"},
           n.phase # "none" => /\ n.old \in 1..made \cup {NoPicture, External}
                               /\ \A t \in Senders : Uploads(t) => n.old # task[t].key
                               /\ n.op # "upload" => n.key = NoPicture
    PROVE  PicturesKept'
<1>1. task'[s] = n /\ \A t \in Senders \ {s} : task'[t] = task[t]
  BY DEF SettingsInv, SettingsTypes
<1>2. ~Uploads(s)' /\ \A t \in Senders \ {s} : Uploads(t)' = Uploads(t) /\ Busy(t)' = Busy(t)
  BY <1>1 DEF Uploads, Busy
<1>3. Busy(s)' = (n.phase # "none")
  BY <1>1 DEF Busy
<1>4. (account.picture \in objects \cup {NoPicture, External})'
  BY DEF SettingsInv, PicturesKept
<1>5. ASSUME NEW u \in Senders, Uploads(u)'
      PROVE  /\ task'[u].key \in objects' /\ task'[u].key # account'.picture
             /\ \A t \in Senders : Busy(t)' => task'[t].old # task'[u].key
             /\ \A t \in Senders \ {u} : Uploads(t)' => task'[t].key # task'[u].key
  <2>1. u # s /\ Uploads(u) /\ task'[u] = task[u]
    BY <1>1, <1>2, <1>5
  <2>2. /\ task[u].key \in objects /\ task[u].key # account.picture
        /\ \A t \in Senders : Busy(t) => task[t].old # task[u].key
        /\ \A t \in Senders \ {u} : Uploads(t) => task[t].key # task[u].key
    BY <2>1 DEF SettingsInv, PicturesKept
  <2>3. ASSUME NEW t \in Senders, Busy(t)' PROVE task'[t].old # task'[u].key
    <3>1. CASE t = s
      BY <1>1, <1>3, <2>1, <2>3, <3>1
    <3>2. CASE t # s
      BY <1>1, <1>2, <2>1, <2>2, <2>3, <3>2
    <3>3. QED BY <3>1, <3>2
  <2>4. ASSUME NEW t \in Senders \ {u}, Uploads(t)' PROVE task'[t].key # task'[u].key
    BY <1>1, <1>2, <2>1, <2>2, <2>4
  <2>5. QED BY <2>1, <2>2, <2>3, <2>4
<1>6. ASSUME NEW u \in Senders
      PROVE  /\ task'[u].phase = "clean" => task'[u].old \notin {NoPicture, account'.picture}
             /\ task'[u].phase = "store" => task'[u].op = "upload"
             /\ task'[u].phase = "write" => task'[u].op \in {"upload", "remove"}
             /\ Busy(u)' => task'[u].old \in 1..made' \cup {NoPicture, External}
             /\ Busy(u)' /\ task'[u].op # "upload" => task'[u].key = NoPicture
  BY <1>1, <1>2, <1>3 DEF SettingsInv, PicturesKept
<1>7. QED BY <1>4, <1>5, <1>6 DEF PicturesKept

\* A request goes on, or ends, that tells the page nothing.
LEMMA HeaderStays ==
    ASSUME SettingsInv, NEW s \in Senders, NEW n, task' = [task EXCEPT ![s] = n],
           UNCHANGED <<account, renewal>>, header' \in {header, SignedOut}, disturbed' \in BOOLEAN,
           disturbed => disturbed',
           n.phase # "none" => Busy(s) /\ n.op = task[s].op /\ n.own = task[s].own,
           ~disturbed' /\ task[s].phase \in {"clean", "done"} /\ task[s].own
              => n.phase \in {"clean", "done"} /\ n.row = task[s].row,
           n.phase \in {"clean", "done"} /\ n.own /\ n.op \in {"upload", "rename"} => task[s].phase \in {"clean", "done"}
    PROVE  HeaderFollows'
<1>1. task'[s] = n /\ \A t \in Senders \ {s} : task'[t] = task[t]
  BY DEF SettingsInv, SettingsTypes
<1>2. \A t \in Senders \ {s}, op \in {"upload", "rename"} : Unheard(t, op)' = Unheard(t, op)
  BY <1>1 DEF Unheard, Busy
<1>3. \A t \in Senders : Busy(t)' => Busy(t) /\ task'[t].op = task[t].op /\ task'[t].own = task[t].own
  BY <1>1 DEF Busy
<1>4. ASSUME ~disturbed', NEW op \in {"upload", "rename"}
      PROVE  /\ Unheard(s, op) => Unheard(s, op)' /\ task'[s].row = task[s].row
             /\ Unheard(s, op)' => Unheard(s, op) /\ task'[s].row = task[s].row
  <2>1. Unheard(s, op) => Unheard(s, op)' /\ task'[s].row = task[s].row
    BY <1>1, <1>4 DEF Unheard, Busy
  <2>2. Unheard(s, op)' => Unheard(s, op)
    BY <1>1, <1>3, <1>4 DEF Unheard, Busy
  <2>3. QED BY <2>1, <2>2
<1>5. SignedIn' => SignedIn /\ header' = header
  BY DEF SignedIn, SignedOut
<1>6. ASSUME SignedIn', account'.there, ~disturbed'
      PROVE  /\ header'.picture = account'.picture \/ \E t \in Senders : Unheard(t, "upload")'
             /\ header'.name = account'.name \/ \E t \in Senders : Unheard(t, "rename")'
             /\ \A t \in Senders : /\ Unheard(t, "upload")' => task'[t].row.picture = account'.picture
                                   /\ Unheard(t, "rename")' => task'[t].row.name = account'.name
  <2>1. SignedIn /\ header' = header /\ account' = account /\ account.there /\ ~disturbed
    BY <1>5, <1>6
  <2>2. \A t \in Senders, op \in {"upload", "rename"} :
           (Unheard(t, op)' <=> Unheard(t, op)) /\ (Unheard(t, op) => task'[t].row = task[t].row)
    BY <1>1, <1>2, <1>4, <1>6
  <2>3. QED BY <2>1, <2>2 DEF SettingsInv, HeaderFollows
<1>7. (renewal.at = "read" /\ renewal.clean => renewal.row = Profile)'
  BY DEF SettingsInv, HeaderFollows, Profile
<1>8. \A u, t \in Senders : Busy(u)' /\ Busy(t)' /\ task'[u].own /\ task'[t].own /\ task'[u].op = task'[t].op => u = t
  BY <1>3 DEF SettingsInv, HeaderFollows
<1>9. \A t \in Senders : Busy(t)' /\ task'[t].own => task'[t].op # "remove"
  BY <1>3 DEF SettingsInv, HeaderFollows
<1>10. QED BY <1>6, <1>7, <1>8, <1>9 DEF HeaderFollows

\* One request moves, and no type is broken.
LEMMA TypesMove ==
    ASSUME SettingsTypes, NEW s \in Senders, NEW n \in SettingsTasks, task' = [task EXCEPT ![s] = n],
           UNCHANGED <<account, objects, made, renewal>>, header' \in ProfileRows, disturbed' \in BOOLEAN
    PROVE  SettingsTypes'
BY DEF SettingsTypes, SettingsTasks, SettingsRequests, ProfileRows, ProfileNames, Names

\* A signed-out session is shown as nobody.
LEMMA SignedOutIs == SignedOut \in ProfileRows /\ NoTask.phase = "none" /\ NoTask \in SettingsTasks
BY DEF SignedOut, ProfileRows, ProfileNames, NoPicture, NoTask, SettingsTasks

\* A request is over, and the header is what it was or the session has ended.
LEMMA AnsweredStep ==
    ASSUME SettingsInv, NEW s \in Senders, AccountDeleted(s) \/ Refused(s) \/ OtherDeviceAnswered(s) \/ Reloaded(s)
    PROVE  SettingsInv'
<1>1. /\ task' = [task EXCEPT ![s] = NoTask] /\ UNCHANGED <<account, objects, made, renewal, disturbed>>
      /\ header' \in {header, SignedOut}
  BY DEF AccountDeleted, Refused, OtherDeviceAnswered, Reloaded
<1>2. header' = SignedOut \/ ~(task[s].phase \in {"clean", "done"} /\ task[s].own)
  BY DEF AccountDeleted, Refused, OtherDeviceAnswered, Reloaded
<1>3. SettingsTypes'
  BY <1>1, SignedOutIs, TypesMove DEF SettingsInv, SettingsTypes
<1>4. PicturesKept'
  BY <1>1, SignedOutIs, PicturesStay
<1>5. HeaderFollows'
  <2>1. CASE ~(task[s].phase \in {"clean", "done"} /\ task[s].own)
    BY <1>1, <2>1, SignedOutIs, HeaderStays DEF SettingsInv, SettingsTypes
  <2>2. CASE header' = SignedOut
    <3>1. ~SignedIn'
      BY <2>2 DEF SignedIn, SignedOut
    <3>2. task'[s] = NoTask /\ \A t \in Senders \ {s} : task'[t] = task[t]
      BY <1>1 DEF SettingsInv, SettingsTypes
    <3>3. \A t \in Senders : Busy(t)' => Busy(t) /\ task'[t].op = task[t].op /\ task'[t].own = task[t].own
      BY <3>2, SignedOutIs DEF Busy
    <3>4. (renewal.at = "read" /\ renewal.clean => renewal.row = Profile)'
      BY <1>1 DEF SettingsInv, HeaderFollows, Profile
    <3>5. \A u, t \in Senders : Busy(u)' /\ Busy(t)' /\ task'[u].own /\ task'[t].own /\ task'[u].op = task'[t].op => u = t
      BY <3>3 DEF SettingsInv, HeaderFollows
    <3>6. \A t \in Senders : Busy(t)' /\ task'[t].own => task'[t].op # "remove"
      BY <3>3 DEF SettingsInv, HeaderFollows
    <3>7. QED BY <3>1, <3>4, <3>5, <3>6 DEF HeaderFollows
  <2>3. QED BY <1>2, <2>1, <2>2
<1>6. QED BY <1>3, <1>4, <1>5 DEF SettingsInv

\* A request is refused, or fails between its steps.
LEMMA FailTaskStep ==
    ASSUME SettingsInv, NEW s \in Senders, FailTask(s)
    PROVE  SettingsInv'
<1>1. task[s] \in SettingsRequests /\ Busy(s)
  BY BusyIs DEF SettingsInv, FailTask
<1>2. PICK n : n = [task[s] EXCEPT !.phase = "failed"]
  OBVIOUS
<1>3. /\ n \in SettingsRequests /\ n.phase = "failed" /\ n.op = task[s].op /\ n.own = task[s].own /\ n.old = task[s].old
      /\ n.key = task[s].key
  BY <1>1, <1>2 DEF SettingsRequests
<1>4. task' = [task EXCEPT ![s] = n] /\ UNCHANGED <<account, objects, made, renewal, header>>
  BY <1>1, <1>2 DEF FailTask, Served
<1>5. disturbed' = (disturbed \/ task[s].phase \in {"clean", "done"})
  BY DEF FailTask
<1>6. disturbed' \in BOOLEAN /\ (disturbed => disturbed') /\ (~disturbed' => task[s].phase \notin {"clean", "done"})
  BY <1>5 DEF SettingsInv, SettingsTypes
<1>7. SettingsTypes'
  BY <1>3, <1>4, <1>6, TypesMove DEF SettingsInv, SettingsTypes, SettingsTasks
<1>8. PicturesKept'
  <2>1. n.old \in 1..made \cup {NoPicture, External} /\ (n.op # "upload" => n.key = NoPicture)
    BY <1>1, <1>3 DEF SettingsInv, PicturesKept
  <2>2. \A t \in Senders : Uploads(t) => n.old # task[t].key
    BY <1>1, <1>3 DEF SettingsInv, PicturesKept
  <2>3. n.phase \notin {"clean", "store", "write"} /\ UNCHANGED <<account.picture, objects, made>>
    BY <1>3, <1>4
  <2>4. QED BY <1>4, <2>1, <2>2, <2>3, PicturesStay
<1>9. HeaderFollows'
  BY <1>1, <1>3, <1>4, <1>6, HeaderStays DEF SettingsInv
<1>10. QED BY <1>7, <1>8, <1>9 DEF SettingsInv

\* getMe of the loader.
LEMMA GetMeStep ==
    ASSUME SettingsInv, NEW s \in Senders, GetMe(s)
    PROVE  SettingsInv'
<1>1. task[s] \in SettingsRequests /\ Busy(s)
  BY BusyIs DEF SettingsInv, GetMe
<1>2. PICK n : n = [task[s] EXCEPT !.phase = "loaded", !.row = Profile]
  OBVIOUS
<1>3. Profile \in ProfileRows
  BY DEF Profile, ProfileRows, SettingsInv, SettingsTypes
<1>4. /\ n \in SettingsRequests /\ n.phase = "loaded" /\ n.op = task[s].op /\ n.own = task[s].own /\ n.old = task[s].old
      /\ n.key = task[s].key
  BY <1>1, <1>2, <1>3 DEF SettingsRequests
<1>5. task' = [task EXCEPT ![s] = n] /\ UNCHANGED <<account, objects, made, renewal, header, disturbed>>
  BY <1>1, <1>2 DEF GetMe
<1>6. SettingsTypes'
  BY <1>4, <1>5, TypesMove DEF SettingsInv, SettingsTypes, SettingsTasks
<1>7. PicturesKept'
  <2>1. n.old \in 1..made \cup {NoPicture, External} /\ (n.op # "upload" => n.key = NoPicture)
    BY <1>1, <1>4 DEF SettingsInv, PicturesKept
  <2>2. \A t \in Senders : Uploads(t) => n.old # task[t].key
    BY <1>1, <1>4 DEF SettingsInv, PicturesKept
  <2>3. n.phase \notin {"clean", "store", "write"} /\ UNCHANGED <<account.picture, objects, made>>
    BY <1>4, <1>5
  <2>4. QED BY <1>5, <2>1, <2>2, <2>3, PicturesStay
<1>8. HeaderFollows'
  <2>1. task[s].phase = "reload" /\ disturbed \in BOOLEAN
    BY DEF GetMe, SettingsInv, SettingsTypes
  <2>2. QED BY <1>1, <1>4, <1>5, <2>1, HeaderStays
<1>9. QED BY <1>6, <1>7, <1>8 DEF SettingsInv

\* The old object is deleted.
LEMMA DeleteObjectStep ==
    ASSUME SettingsInv, NEW s \in Senders, DeleteObject(s)
    PROVE  SettingsInv'
<1>1. task[s] \in SettingsRequests /\ Busy(s) /\ task[s].phase = "clean" /\ task[s].old \notin {NoPicture, account.picture}
  BY BusyIs DEF SettingsInv, DeleteObject, PicturesKept
<1>2. PICK n : n = [task[s] EXCEPT !.phase = "done"]
  OBVIOUS
<1>3. /\ n \in SettingsRequests /\ n.phase = "done" /\ n.op = task[s].op /\ n.own = task[s].own /\ n.old = task[s].old
      /\ n.key = task[s].key /\ n.row = task[s].row
  BY <1>1, <1>2 DEF SettingsRequests
<1>4. /\ task' = [task EXCEPT ![s] = n] /\ UNCHANGED <<account, made, renewal, header, disturbed>>
      /\ objects' = objects \ {task[s].old}
  BY <1>1, <1>2 DEF DeleteObject, Served
<1>5. task'[s] = n /\ \A t \in Senders \ {s} : task'[t] = task[t]
  BY <1>4 DEF SettingsInv, SettingsTypes
<1>6. SettingsTypes'
  BY <1>3, <1>4 DEF SettingsInv, SettingsTypes, SettingsTasks
<1>7. PicturesKept'
  <2>1. \A t \in Senders : Busy(t)' => Busy(t) /\ task'[t].op = task[t].op /\ task'[t].old = task[t].old /\ task'[t].key = task[t].key
    BY <1>1, <1>3, <1>5 DEF Busy
  <2>2. \A t \in Senders : Uploads(t)' => t # s /\ Uploads(t) /\ task'[t] = task[t]
    BY <1>3, <1>5 DEF Uploads
  <2>3. ASSUME NEW u \in Senders, Uploads(u)'
        PROVE  /\ task'[u].key \in objects' /\ task'[u].key # account'.picture
               /\ \A t \in Senders : Busy(t)' => task'[t].old # task'[u].key
               /\ \A t \in Senders \ {u} : Uploads(t)' => task'[t].key # task'[u].key
    BY <1>1, <1>4, <2>1, <2>2, <2>3 DEF SettingsInv, PicturesKept
  <2>4. (account.picture \in objects \cup {NoPicture, External})'
    BY <1>1, <1>4 DEF SettingsInv, PicturesKept
  <2>5. ASSUME NEW u \in Senders
        PROVE  /\ task'[u].phase = "clean" => task'[u].old \notin {NoPicture, account'.picture}
               /\ task'[u].phase = "store" => task'[u].op = "upload"
               /\ task'[u].phase = "write" => task'[u].op \in {"upload", "remove"}
               /\ Busy(u)' => task'[u].old \in 1..made' \cup {NoPicture, External}
               /\ Busy(u)' /\ task'[u].op # "upload" => task'[u].key = NoPicture
    BY <1>3, <1>4, <1>5, <2>1 DEF SettingsInv, PicturesKept
  <2>6. QED BY <2>3, <2>4, <2>5 DEF PicturesKept
<1>8. HeaderFollows'
  <2>1. disturbed \in BOOLEAN
    BY DEF SettingsInv, SettingsTypes
  <2>2. QED BY <1>1, <1>3, <1>4, <2>1, HeaderStays
<1>9. QED BY <1>6, <1>7, <1>8 DEF SettingsInv

\* A request begins.
LEMMA RequestedStep ==
    ASSUME SettingsInv, NEW s \in Senders, NEW op \in {"upload", "rename", "remove", "close"}, NEW own \in BOOLEAN,
           NEW name \in ProfileNames, Requested(s, op, own, name), own => op # "remove"
    PROVE  SettingsInv'
<1>1. PICK n : n = [op |-> op, own |-> own, name |-> name, phase |-> "sent",
                    old |-> NoPicture, key |-> NoPicture, row |-> SignedOut]
  OBVIOUS
<1>2. n.op = op /\ n.own = own /\ n.phase = "sent" /\ n.old = NoPicture /\ n.key = NoPicture
  BY <1>1
<1>3. n \in SettingsRequests
  <2>1. NoPicture \in Int
    BY DEF NoPicture
  <2>2. QED BY <1>1, <2>1, SignedOutIs DEF SettingsRequests
<1>4. task' = [task EXCEPT ![s] = n] /\ UNCHANGED <<account, objects, made, renewal, header, disturbed>> /\ task[s] = NoTask
  BY <1>1 DEF Requested
<1>5. SettingsTypes'
  BY <1>3, <1>4, TypesMove DEF SettingsInv, SettingsTypes, SettingsTasks
<1>6. PicturesKept'
  <2>1. \A t \in Senders : Uploads(t) => NoPicture # task[t].key
    BY DEF SettingsInv, SettingsTypes, PicturesKept, NoPicture
  <2>2. QED BY <1>2, <1>4, <2>1, PicturesStay
<1>7. HeaderFollows'
  <2>1. task'[s] = n /\ \A t \in Senders \ {s} : task'[t] = task[t]
    BY <1>4 DEF SettingsInv, SettingsTypes
  <2>2. ~Busy(s) /\ ~Unheard(s, "upload") /\ ~Unheard(s, "rename")
    BY <1>4, SignedOutIs DEF Busy, Unheard
  <2>3. ~Unheard(s, "upload")' /\ ~Unheard(s, "rename")'
    BY <1>2, <2>1 DEF Unheard
  <2>4. \A t \in Senders : \A o \in {"upload", "rename"} : Unheard(t, o)' = Unheard(t, o)
    BY <2>1, <2>2, <2>3 DEF Unheard, Busy
  <2>5. (renewal.at = "read" /\ renewal.clean => renewal.row = Profile)'
    BY <1>4 DEF SettingsInv, HeaderFollows, Profile
  <2>6. SignedIn' = SignedIn
    BY <1>4 DEF SignedIn, SignedOut
  <2>7. ASSUME SignedIn', account'.there, ~disturbed'
        PROVE  /\ header'.picture = account'.picture \/ \E t \in Senders : Unheard(t, "upload")'
               /\ header'.name = account'.name \/ \E t \in Senders : Unheard(t, "rename")'
               /\ \A t \in Senders : /\ Unheard(t, "upload")' => task'[t].row.picture = account'.picture
                                     /\ Unheard(t, "rename")' => task'[t].row.name = account'.name
    BY <1>4, <2>1, <2>2, <2>4, <2>6, <2>7 DEF SettingsInv, HeaderFollows
  <2>8. ASSUME NEW u \in Senders, NEW t \in Senders, Busy(u)', Busy(t)', task'[u].own, task'[t].own,
               task'[u].op = task'[t].op
        PROVE  u = t
    <3>1. own => \A o \in Senders : ~(task[o].op = op /\ task[o].own)
      BY DEF Requested
    <3>2. CASE u = s \/ t = s
      BY <1>2, <2>1, <2>8, <3>1, <3>2
    <3>3. CASE u # s /\ t # s
      BY <2>1, <2>8, <3>3 DEF SettingsInv, HeaderFollows, Busy
    <3>4. QED BY <3>2, <3>3
  <2>9. \A t \in Senders : Busy(t)' /\ task'[t].own => task'[t].op # "remove"
    BY <1>2, <2>1 DEF SettingsInv, HeaderFollows, Busy
  <2>10. QED BY <2>5, <2>7, <2>8, <2>9 DEF HeaderFollows
<1>8. QED BY <1>5, <1>6, <1>7 DEF SettingsInv

\* The page and other devices send their requests.
LEMMA SendersStep ==
    ASSUME SettingsInv, NEW s \in Senders,
           HandleUpload(s) \/ HandleSaveChanges(s) \/ HandleDeleteAccount(s) \/ OtherDevice(s)
    PROVE  SettingsInv'
<1>1. 0 \in ProfileNames /\ Names \subseteq ProfileNames
  BY DEF ProfileNames
<1>2. CASE HandleUpload(s) \/ HandleDeleteAccount(s)
  BY <1>1, <1>2, RequestedStep DEF HandleUpload, HandleDeleteAccount
<1>3. CASE HandleSaveChanges(s)
  BY <1>1, <1>3, RequestedStep DEF HandleSaveChanges
<1>4. CASE OtherDevice(s)
  BY <1>1, <1>4, RequestedStep DEF OtherDevice
<1>5. QED BY <1>2, <1>3, <1>4

\* The picture there is, is read.
LEMMA FindUserStep ==
    ASSUME SettingsInv, NEW s \in Senders, FindUser(s)
    PROVE  SettingsInv'
<1>1. task[s] \in SettingsRequests /\ Busy(s) /\ task[s].phase = "sent" /\ task[s].op \in {"upload", "remove"}
  BY BusyIs DEF SettingsInv, FindUser
<1>2. PICK ph : ph = CASE task[s].op = "upload" -> "store"
                       [] task[s].op = "remove" /\ account.picture = NoPicture -> "done"
                       [] OTHER -> "write"
  OBVIOUS
<1>3. ph \in {"store", "done", "write"} /\ (ph = "write" => task[s].op = "remove") /\ (ph = "store" => task[s].op = "upload") /\ (ph = "done" => task[s].op = "remove")
  BY <1>1, <1>2
<1>4. PICK n : n = [task[s] EXCEPT !.old = account.picture, !.phase = ph]
  OBVIOUS
<1>5. account.picture \in Int
  BY DEF SettingsInv, SettingsTypes
<1>6. /\ n \in SettingsRequests /\ n.phase = ph /\ n.op = task[s].op /\ n.own = task[s].own /\ n.old = account.picture
      /\ n.key = task[s].key
  BY <1>1, <1>3, <1>4, <1>5 DEF SettingsRequests
<1>7. task' = [task EXCEPT ![s] = n]
  BY <1>1, <1>2, <1>4 DEF FindUser
<1>8. UNCHANGED <<account, objects, made, renewal, header, disturbed>>
  BY DEF FindUser, Served
<1>9. task'[s] = n /\ \A t \in Senders \ {s} : task'[t] = task[t]
  BY <1>7 DEF SettingsInv, SettingsTypes
<1>10. SettingsTypes'
  BY <1>6, <1>7, <1>8, TypesMove DEF SettingsInv, SettingsTypes, SettingsTasks
<1>11. PicturesKept'
  <2>1. \A t \in Senders : Uploads(t)' => t # s /\ Uploads(t) /\ task'[t] = task[t]
    BY <1>3, <1>6, <1>9 DEF Uploads
  <2>2. \A t \in Senders \ {s} : Busy(t)' = Busy(t)
    BY <1>9 DEF Busy
  <2>3. ASSUME NEW u \in Senders, Uploads(u)'
        PROVE  /\ task'[u].key \in objects' /\ task'[u].key # account'.picture
               /\ \A t \in Senders : Busy(t)' => task'[t].old # task'[u].key
               /\ \A t \in Senders \ {u} : Uploads(t)' => task'[t].key # task'[u].key
    BY <1>6, <1>8, <1>9, <2>1, <2>2, <2>3 DEF SettingsInv, PicturesKept
  <2>4. (account.picture \in objects \cup {NoPicture, External})'
    BY <1>8 DEF SettingsInv, PicturesKept
  <2>5. account.picture \in 1..made \cup {NoPicture, External}
    BY DEF SettingsInv, SettingsTypes, PicturesKept
  <2>6. ASSUME NEW u \in Senders
        PROVE  /\ task'[u].phase = "clean" => task'[u].old \notin {NoPicture, account'.picture}
               /\ task'[u].phase = "store" => task'[u].op = "upload"
               /\ task'[u].phase = "write" => task'[u].op \in {"upload", "remove"}
               /\ Busy(u)' => task'[u].old \in 1..made' \cup {NoPicture, External}
               /\ Busy(u)' /\ task'[u].op # "upload" => task'[u].key = NoPicture
    <3>1. CASE u = s
      BY <1>1, <1>3, <1>6, <1>8, <1>9, <2>5, <3>1 DEF SettingsInv, PicturesKept
    <3>2. CASE u # s
      BY <1>8, <1>9, <2>2, <3>2 DEF SettingsInv, PicturesKept
    <3>3. QED BY <3>1, <3>2
  <2>7. QED BY <2>3, <2>4, <2>6 DEF PicturesKept
<1>12. HeaderFollows'
  <2>1. disturbed \in BOOLEAN
    BY DEF SettingsInv, SettingsTypes
  <2>2. QED BY <1>1, <1>3, <1>6, <1>7, <1>8, <2>1, HeaderStays
<1>13. QED BY <1>10, <1>11, <1>12 DEF SettingsInv

\* The new picture is stored, under a key of its own.
LEMMA UploadObjectStep ==
    ASSUME SettingsInv, NEW s \in Senders, UploadObject(s)
    PROVE  SettingsInv'
<1>1. task[s] \in SettingsRequests /\ Busy(s) /\ task[s].phase = "store"
  BY BusyIs DEF SettingsInv, UploadObject
<1>2. PICK k : k = made + 1
  OBVIOUS
<1>3. /\ k \in Nat /\ k \notin 1..made /\ k \notin {NoPicture, External} /\ made' = k /\ objects' = objects \cup {k}
      /\ made \in Nat /\ objects \subseteq 1..made /\ 1..made \subseteq 1..k /\ k \in 1..k
  BY <1>2 DEF SettingsInv, SettingsTypes, UploadObject, NewKey, NoPicture, External
<1>4. PICK n : n = [task[s] EXCEPT !.key = k, !.phase = "write"]
  OBVIOUS
<1>5. /\ n \in SettingsRequests /\ n.phase = "write" /\ n.op = task[s].op /\ n.own = task[s].own /\ n.old = task[s].old
      /\ n.key = k
  <2>1. k \in Int
    BY <1>3
  <2>2. QED BY <1>1, <1>4, <2>1 DEF SettingsRequests
<1>6. task' = [task EXCEPT ![s] = n] /\ UNCHANGED <<account, renewal, header, disturbed>>
  BY <1>1, <1>2, <1>4 DEF UploadObject, NewKey, Served
<1>7. task'[s] = n /\ \A t \in Senders \ {s} : task'[t] = task[t]
  BY <1>6 DEF SettingsInv, SettingsTypes
<1>8. SettingsTypes'
  BY <1>3, <1>5, <1>6 DEF SettingsInv, SettingsTypes, SettingsTasks
<1>9. task[s].op = "upload"
  BY <1>1 DEF SettingsInv, PicturesKept
<1>10. PicturesKept'
  <2>1. \A t \in Senders \ {s} : Busy(t)' = Busy(t) /\ Uploads(t)' = Uploads(t)
    BY <1>7 DEF Busy, Uploads
  <2>2. ~Uploads(s)
    BY <1>1 DEF Uploads
  <2>3. \A t \in Senders : Busy(t)' => Busy(t) /\ task'[t].old = task[t].old /\ task[t].old # k
    BY <1>1, <1>3, <1>5, <1>7, <2>1 DEF SettingsInv, PicturesKept
  <2>4. account.picture # k /\ (account.picture \in objects \cup {NoPicture, External})'
    BY <1>3, <1>6 DEF SettingsInv, PicturesKept
  <2>5. ASSUME NEW u \in Senders, Uploads(u)'
        PROVE  /\ task'[u].key \in objects' /\ task'[u].key # account'.picture
               /\ \A t \in Senders : Busy(t)' => task'[t].old # task'[u].key
               /\ \A t \in Senders \ {u} : Uploads(t)' => task'[t].key # task'[u].key
    <3>1. \A t \in Senders \ {s} : Uploads(t) => task[t].key \in objects /\ task[t].key # k
      BY <1>3 DEF SettingsInv, PicturesKept
    <3>2. CASE u = s
      BY <1>3, <1>5, <1>6, <1>7, <2>1, <2>3, <2>4, <3>1, <3>2
    <3>3. CASE u # s
      <4>1. Uploads(u) /\ task'[u] = task[u]
        BY <1>7, <2>1, <2>5, <3>3
      <4>2. task'[u].key \in objects' /\ task'[u].key # account'.picture
        BY <1>3, <1>6, <4>1 DEF SettingsInv, PicturesKept
      <4>3. \A t \in Senders : Busy(t)' => task'[t].old # task'[u].key
        BY <2>3, <4>1 DEF SettingsInv, PicturesKept
      <4>4. ASSUME NEW t \in Senders \ {u}, Uploads(t)' PROVE task'[t].key # task'[u].key
        <5>1. CASE t = s
          BY <1>5, <1>7, <3>1, <3>3, <4>1, <5>1
        <5>2. CASE t # s
          BY <1>7, <2>1, <4>1, <4>4, <5>2 DEF SettingsInv, PicturesKept
        <5>3. QED BY <5>1, <5>2
      <4>5. QED BY <4>2, <4>3, <4>4
    <3>4. QED BY <3>2, <3>3
  <2>6. ASSUME NEW u \in Senders
        PROVE  /\ task'[u].phase = "clean" => task'[u].old \notin {NoPicture, account'.picture}
               /\ task'[u].phase = "store" => task'[u].op = "upload"
               /\ task'[u].phase = "write" => task'[u].op \in {"upload", "remove"}
               /\ Busy(u)' => task'[u].old \in 1..made' \cup {NoPicture, External}
               /\ Busy(u)' /\ task'[u].op # "upload" => task'[u].key = NoPicture
    <3>1. CASE u = s
      BY <1>1, <1>3, <1>5, <1>6, <1>7, <1>9, <3>1 DEF SettingsInv, PicturesKept
    <3>2. CASE u # s
      BY <1>3, <1>6, <1>7, <2>1, <3>2 DEF SettingsInv, PicturesKept
    <3>3. QED BY <3>1, <3>2
  <2>7. QED BY <2>4, <2>5, <2>6 DEF PicturesKept
<1>11. HeaderFollows'
  <2>1. disturbed \in BOOLEAN
    BY DEF SettingsInv, SettingsTypes
  <2>2. QED BY <1>1, <1>5, <1>6, <2>1, HeaderStays
<1>12. QED BY <1>8, <1>10, <1>11 DEF SettingsInv

\* The row is changed.
LEMMA WritesMoves ==
    ASSUME SettingsInv, NEW s \in Senders, task[s].phase # "none",
           NEW changed \in [there : BOOLEAN, name : ProfileNames, picture : Int], NEW ph \in {"clean", "done"},
           Writes(s, changed, ph),
           task[s].op \in {"upload", "remove"} => changed.name = account.name,
           task[s].op = "rename" => changed.picture = account.picture,
           task[s].op = "close" => ~changed.there
    PROVE  /\ SettingsTypes' /\ HeaderFollows'
           /\ \E n \in SettingsRequests : /\ task' = [task EXCEPT ![s] = n] /\ n.phase = ph /\ n.op = task[s].op
                                          /\ n.old = task[s].old /\ n.key = task[s].key
<1>1. task[s] \in SettingsRequests /\ Busy(s)
  BY BusyIs DEF SettingsInv
<1>2. PICK row : row = [name |-> changed.name, picture |-> changed.picture]
  OBVIOUS
<1>3. row \in ProfileRows /\ row.name = changed.name /\ row.picture = changed.picture
  BY <1>2 DEF ProfileRows
<1>4. PICK n : n = [task[s] EXCEPT !.phase = ph, !.row = row]
  OBVIOUS
<1>5. /\ n \in SettingsRequests /\ n.phase = ph /\ n.op = task[s].op /\ n.own = task[s].own /\ n.old = task[s].old
      /\ n.key = task[s].key /\ n.row = row
  BY <1>1, <1>3, <1>4 DEF SettingsRequests
<1>6. task' = [task EXCEPT ![s] = n]
  BY <1>1, <1>2, <1>4 DEF Writes
<1>7. account.there /\ account' = changed /\ UNCHANGED <<objects, made, header>> /\ renewal' = [renewal EXCEPT !.clean = FALSE]
  BY DEF Writes, Served
<1>8. task'[s] = n /\ \A t \in Senders \ {s} : task'[t] = task[t]
  BY <1>6 DEF SettingsInv, SettingsTypes
<1>9. disturbed' \in BOOLEAN /\ (~disturbed' => ~disturbed /\ task[s].own)
  BY DEF Writes, SettingsInv, SettingsTypes
<1>10. renewal' \in [at : {"none", "read"}, row : ProfileRows, clean : BOOLEAN] /\ renewal'.clean = FALSE
  BY <1>7 DEF SettingsInv, SettingsTypes
<1>11. SettingsTypes'
  BY <1>5, <1>6, <1>7, <1>9, <1>10 DEF SettingsInv, SettingsTypes, SettingsTasks
<1>12. \A t \in Senders : Busy(t)' => Busy(t) /\ task'[t].op = task[t].op /\ task'[t].own = task[t].own
  BY <1>1, <1>5, <1>8 DEF Busy
<1>13. ASSUME SignedIn', account'.there, ~disturbed'
       PROVE  /\ header'.picture = account'.picture \/ \E t \in Senders : Unheard(t, "upload")'
              /\ header'.name = account'.name \/ \E t \in Senders : Unheard(t, "rename")'
              /\ \A t \in Senders : /\ Unheard(t, "upload")' => task'[t].row.picture = account'.picture
                                    /\ Unheard(t, "rename")' => task'[t].row.name = account'.name
  <2>1. SignedIn /\ account.there /\ ~disturbed /\ task[s].own
    BY <1>7, <1>9, <1>13 DEF SignedIn, SignedOut
  <2>2. task[s].op \in {"upload", "rename"}
    BY <1>1, <1>7, <1>13, <2>1 DEF SettingsRequests, SettingsInv, HeaderFollows
  <2>3. PICK op \in {"upload", "rename"} : op = task[s].op
    BY <2>2
  <2>4. Unheard(s, op)' /\ \A t \in Senders \ {s} : ~Unheard(t, op)'
    <3>1. Unheard(s, op)'
      BY <1>1, <1>5, <1>8, <2>1, <2>3 DEF Unheard, Busy
    <3>2. ASSUME NEW t \in Senders \ {s}, Unheard(t, op)' PROVE FALSE
      <4>1. Busy(t) /\ task[t].op = op /\ task[t].own
        BY <1>8, <1>12, <3>2 DEF Unheard
      <4>2. QED BY <1>1, <2>1, <2>3, <4>1 DEF SettingsInv, HeaderFollows
    <3>3. QED BY <3>1, <3>2
  <2>5. CASE task[s].op = "upload"
    <3>1. ~Unheard(s, "rename") /\ ~Unheard(s, "rename")' /\ \A t \in Senders \ {s} : Unheard(t, "rename")' = Unheard(t, "rename")
      BY <1>5, <1>8, <2>5 DEF Unheard, Busy
    <3>2. /\ header.name = account.name \/ \E t \in Senders : Unheard(t, "rename")
          /\ \A t \in Senders : Unheard(t, "rename") => task[t].row.name = account.name
      BY <2>1 DEF SettingsInv, HeaderFollows
    <3>3. task'[s].row.picture = account'.picture
      BY <1>3, <1>5, <1>7, <1>8
    <3>4. QED BY <1>7, <1>8, <2>3, <2>4, <2>5, <3>1, <3>2, <3>3
  <2>6. CASE task[s].op = "rename"
    <3>1. ~Unheard(s, "upload") /\ ~Unheard(s, "upload")' /\ \A t \in Senders \ {s} : Unheard(t, "upload")' = Unheard(t, "upload")
      BY <1>5, <1>8, <2>6 DEF Unheard, Busy
    <3>2. /\ header.picture = account.picture \/ \E t \in Senders : Unheard(t, "upload")
          /\ \A t \in Senders : Unheard(t, "upload") => task[t].row.picture = account.picture
      BY <2>1 DEF SettingsInv, HeaderFollows
    <3>3. task'[s].row.name = account'.name
      BY <1>3, <1>5, <1>7, <1>8
    <3>4. QED BY <1>7, <1>8, <2>3, <2>4, <2>6, <3>1, <3>2, <3>3
  <2>7. QED BY <2>2, <2>5, <2>6
<1>14. \A u, t \in Senders : Busy(u)' /\ Busy(t)' /\ task'[u].own /\ task'[t].own /\ task'[u].op = task'[t].op => u = t
  BY <1>12 DEF SettingsInv, HeaderFollows
<1>15. \A t \in Senders : Busy(t)' /\ task'[t].own => task'[t].op # "remove"
  BY <1>12 DEF SettingsInv, HeaderFollows
<1>16. HeaderFollows'
  BY <1>10, <1>13, <1>14, <1>15 DEF HeaderFollows
<1>17. QED BY <1>5, <1>6, <1>11, <1>16

\* A new name, and the end of the account, leave the pictures.
LEMMA RowChangedStep ==
    ASSUME SettingsInv, NEW s \in Senders, UpdateName(s) \/ RemoveAccount(s)
    PROVE  SettingsInv'
<1>1. task[s] \in SettingsRequests /\ Busy(s) /\ task[s].phase = "sent" /\ task[s].op \in {"rename", "close"}
  BY BusyIs DEF SettingsInv, UpdateName, RemoveAccount
<1>2. account \in [there : BOOLEAN, name : ProfileNames, picture : Int]
  BY DEF SettingsInv, SettingsTypes
<1>3. PICK ph : ph = "done"
  OBVIOUS
<1>4. PICK changed : /\ Writes(s, changed, ph)
                     /\ \/ task[s].op = "rename" /\ changed = [account EXCEPT !.name = task[s].name]
                        \/ task[s].op = "close" /\ changed = [account EXCEPT !.there = FALSE]
  BY <1>3 DEF UpdateName, RemoveAccount
<1>5. /\ changed \in [there : BOOLEAN, name : ProfileNames, picture : Int] /\ changed.picture = account.picture
      /\ task[s].op = "close" => ~changed.there
  BY <1>1, <1>2, <1>4 DEF SettingsRequests
<1>6. /\ SettingsTypes' /\ HeaderFollows'
      /\ \E n \in SettingsRequests : /\ task' = [task EXCEPT ![s] = n] /\ n.phase = ph /\ n.op = task[s].op
                                     /\ n.old = task[s].old /\ n.key = task[s].key
  BY <1>1, <1>3, <1>4, <1>5, WritesMoves
<1>7. PicturesKept'
  <2>1. PICK n \in SettingsRequests : /\ task' = [task EXCEPT ![s] = n] /\ n.phase = ph /\ n.op = task[s].op
                                      /\ n.old = task[s].old /\ n.key = task[s].key
    BY <1>6
  <2>2. UNCHANGED <<account.picture, objects, made>>
    BY <1>4, <1>5 DEF Writes
  <2>3. /\ n.old \in 1..made \cup {NoPicture, External} /\ (n.op # "upload" => n.key = NoPicture)
        /\ \A t \in Senders : Uploads(t) => n.old # task[t].key
    BY <1>1, <2>1 DEF SettingsInv, PicturesKept
  <2>4. QED BY <1>3, <2>1, <2>2, <2>3, PicturesStay
<1>8. QED BY <1>6, <1>7 DEF SettingsInv

\* The row names another picture, or none.
LEMMA UpdatePictureStep ==
    ASSUME SettingsInv, NEW s \in Senders, UpdatePicture(s)
    PROVE  SettingsInv'
<1>1. task[s] \in SettingsRequests /\ Busy(s) /\ task[s].phase = "write" /\ task[s].op \in {"upload", "remove"}
  BY BusyIs DEF SettingsInv, UpdatePicture, PicturesKept
<1>2. account \in [there : BOOLEAN, name : ProfileNames, picture : Int]
  BY DEF SettingsInv, SettingsTypes
<1>3. PICK ph : ph = IF task[s].old = NoPicture THEN "done" ELSE "clean"
  OBVIOUS
<1>4. PICK changed : changed = [account EXCEPT !.picture = task[s].key]
  OBVIOUS
<1>5. Writes(s, changed, ph) /\ ph \in {"clean", "done"} /\ (ph = "clean" => task[s].old # NoPicture)
  BY <1>3, <1>4 DEF UpdatePicture
<1>6. /\ changed \in [there : BOOLEAN, name : ProfileNames, picture : Int] /\ changed.picture = task[s].key
      /\ changed.name = account.name
  BY <1>1, <1>2, <1>4 DEF SettingsRequests
<1>7. /\ SettingsTypes' /\ HeaderFollows'
      /\ \E n \in SettingsRequests : /\ task' = [task EXCEPT ![s] = n] /\ n.phase = ph /\ n.op = task[s].op
                                     /\ n.old = task[s].old /\ n.key = task[s].key
  BY <1>1, <1>5, <1>6, WritesMoves
<1>8. PICK n \in SettingsRequests : /\ task' = [task EXCEPT ![s] = n] /\ n.phase = ph /\ n.op = task[s].op
                                    /\ n.old = task[s].old /\ n.key = task[s].key
  BY <1>7
<1>9. account'.picture = task[s].key /\ UNCHANGED <<objects, made>>
  BY <1>5, <1>6 DEF Writes
<1>10. task'[s] = n /\ \A t \in Senders \ {s} : task'[t] = task[t]
  BY <1>8 DEF SettingsInv, SettingsTypes
<1>11. /\ \A t \in Senders \ {s} : Busy(t)' = Busy(t) /\ Uploads(t)' = Uploads(t)
       /\ \A t \in Senders : Busy(t)' => Busy(t) /\ task'[t].op = task[t].op /\ task'[t].old = task[t].old /\ task'[t].key = task[t].key
       /\ ~Uploads(s)'
  BY <1>1, <1>5, <1>8, <1>10 DEF Busy, Uploads
<1>12. task[s].op = "upload" => Uploads(s)
  BY <1>1 DEF Uploads
<1>13. task[s].op = "remove" => task[s].key = NoPicture
  BY <1>1 DEF SettingsInv, PicturesKept
<1>14. /\ task[s].key \in objects \cup {NoPicture, External}
       /\ \A t \in Senders : Busy(t) => task[t].old # task[s].key \/ task[s].key = NoPicture
       /\ \A t \in Senders \ {s} : Uploads(t) => task[t].key # task[s].key
  BY <1>1, <1>12, <1>13 DEF SettingsInv, SettingsTypes, PicturesKept, NoPicture
<1>15. PicturesKept'
  <2>1. (account.picture \in objects \cup {NoPicture, External})'
    BY <1>9, <1>14
  <2>2. ASSUME NEW u \in Senders, Uploads(u)'
        PROVE  /\ task'[u].key \in objects' /\ task'[u].key # account'.picture
               /\ \A t \in Senders : Busy(t)' => task'[t].old # task'[u].key
               /\ \A t \in Senders \ {u} : Uploads(t)' => task'[t].key # task'[u].key
    <3>1. u # s /\ Uploads(u) /\ task'[u] = task[u]
      BY <1>10, <1>11, <2>2
    <3>2. task'[u].key \in objects' /\ task'[u].key # account'.picture
      BY <1>9, <1>14, <3>1 DEF SettingsInv, PicturesKept
    <3>3. \A t \in Senders : Busy(t)' => task'[t].old # task'[u].key
      BY <1>11, <3>1 DEF SettingsInv, PicturesKept
    <3>4. \A t \in Senders \ {u} : Uploads(t)' => task'[t].key # task'[u].key
      BY <1>10, <1>11, <3>1 DEF SettingsInv, PicturesKept
    <3>5. QED BY <3>2, <3>3, <3>4
  <2>3. ASSUME NEW u \in Senders
        PROVE  /\ task'[u].phase = "clean" => task'[u].old \notin {NoPicture, account'.picture}
               /\ task'[u].phase = "store" => task'[u].op = "upload"
               /\ task'[u].phase = "write" => task'[u].op \in {"upload", "remove"}
               /\ Busy(u)' => task'[u].old \in 1..made' \cup {NoPicture, External}
               /\ Busy(u)' /\ task'[u].op # "upload" => task'[u].key = NoPicture
    <3>1. CASE u = s
      BY <1>1, <1>5, <1>8, <1>9, <1>10, <1>14, <3>1 DEF SettingsInv, PicturesKept
    <3>2. CASE u # s
      <4>1. task[u].phase = "clean" => Busy(u)
        BY DEF Busy
      <4>2. QED BY <1>9, <1>10, <1>11, <1>14, <3>2, <4>1 DEF SettingsInv, PicturesKept
    <3>3. QED BY <3>1, <3>2
  <2>4. QED BY <2>1, <2>2, <2>3 DEF PicturesKept
<1>16. QED BY <1>7, <1>15 DEF SettingsInv

\* The session is patched with what was saved.
LEMMA SavedStep ==
    ASSUME SettingsInv, NEW s \in Senders, UploadOrNameSaved(s)
    PROVE  SettingsInv'
<1>1. /\ task[s] \in SettingsRequests /\ Busy(s) /\ task[s].phase = "done" /\ task[s].own
      /\ task[s].op \in {"upload", "rename"}
  <2>1. task[s] \in SettingsRequests /\ Busy(s) /\ task[s].phase = "done" /\ task[s].own /\ task[s].op # "close"
    BY BusyIs DEF SettingsInv, UploadOrNameSaved
  <2>2. QED BY <2>1 DEF SettingsRequests, SettingsInv, HeaderFollows
<1>2. PICK n : n = [task[s] EXCEPT !.phase = "reload"]
  OBVIOUS
<1>3. /\ n \in SettingsRequests /\ n.phase = "reload" /\ n.op = task[s].op /\ n.own = task[s].own /\ n.old = task[s].old
      /\ n.key = task[s].key
  BY <1>1, <1>2 DEF SettingsRequests
<1>4. task' = [task EXCEPT ![s] = n] /\ UNCHANGED <<account, objects, made, renewal, disturbed>>
  BY <1>1, <1>2 DEF UploadOrNameSaved
<1>5. task'[s] = n /\ \A t \in Senders \ {s} : task'[t] = task[t]
  BY <1>4 DEF SettingsInv, SettingsTypes
<1>6. header' = IF SignedIn THEN Patched(task[s]) ELSE header
  BY DEF UploadOrNameSaved
<1>7. task[s].row \in ProfileRows /\ header \in ProfileRows
  BY <1>1 DEF SettingsRequests, SettingsInv, SettingsTypes
<1>8. /\ Patched(task[s]) \in ProfileRows
      /\ task[s].op = "upload" => Patched(task[s]).picture = task[s].row.picture /\ Patched(task[s]).name = header.name
      /\ task[s].op = "rename" => Patched(task[s]).name = task[s].row.name /\ Patched(task[s]).picture = header.picture
  BY <1>7 DEF Patched, ProfileRows
<1>9. SettingsTypes'
  <2>1. header' \in ProfileRows
    BY <1>6, <1>7, <1>8
  <2>2. QED BY <1>3, <1>4, <2>1, TypesMove DEF SettingsInv, SettingsTypes, SettingsTasks
<1>10. PicturesKept'
  <2>1. n.old \in 1..made \cup {NoPicture, External} /\ (n.op # "upload" => n.key = NoPicture)
    BY <1>1, <1>3 DEF SettingsInv, PicturesKept
  <2>2. \A t \in Senders : Uploads(t) => n.old # task[t].key
    BY <1>1, <1>3 DEF SettingsInv, PicturesKept
  <2>3. n.phase \notin {"clean", "store", "write"} /\ UNCHANGED <<account.picture, objects, made>>
    BY <1>3, <1>4
  <2>4. QED BY <1>4, <2>1, <2>2, <2>3, PicturesStay
<1>11. \A t \in Senders : Busy(t)' => Busy(t) /\ task'[t].op = task[t].op /\ task'[t].own = task[t].own
  BY <1>1, <1>3, <1>5 DEF Busy
<1>12. ASSUME SignedIn', account'.there, ~disturbed'
       PROVE  /\ header'.picture = account'.picture \/ \E t \in Senders : Unheard(t, "upload")'
              /\ header'.name = account'.name \/ \E t \in Senders : Unheard(t, "rename")'
              /\ \A t \in Senders : /\ Unheard(t, "upload")' => task'[t].row.picture = account'.picture
                                    /\ Unheard(t, "rename")' => task'[t].row.name = account'.name
  <2>1. SignedIn /\ account.there /\ ~disturbed /\ header' = Patched(task[s])
    BY <1>4, <1>6, <1>12 DEF SignedIn, SignedOut
  <2>2. /\ header.picture = account.picture \/ \E t \in Senders : Unheard(t, "upload")
        /\ header.name = account.name \/ \E t \in Senders : Unheard(t, "rename")
        /\ \A t \in Senders : /\ Unheard(t, "upload") => task[t].row.picture = account.picture
                              /\ Unheard(t, "rename") => task[t].row.name = account.name
    BY <2>1 DEF SettingsInv, HeaderFollows
  <2>3. \A op \in {"upload", "rename"} : /\ ~Unheard(s, op)'
                                         /\ \A t \in Senders \ {s} : Unheard(t, op)' = Unheard(t, op)
    BY <1>3, <1>5 DEF Unheard, Busy
  <2>4. CASE task[s].op = "upload"
    <3>1. Unheard(s, "upload") /\ ~Unheard(s, "rename")
      BY <1>1, <2>4 DEF Unheard
    <3>2. header'.picture = account'.picture
      BY <1>4, <1>8, <2>1, <2>2, <2>4, <3>1
    <3>3. header'.name = account'.name \/ \E t \in Senders : Unheard(t, "rename")'
      BY <1>4, <1>8, <2>1, <2>2, <2>3, <2>4, <3>1
    <3>4. \A t \in Senders : /\ Unheard(t, "upload")' => task'[t].row.picture = account'.picture
                             /\ Unheard(t, "rename")' => task'[t].row.name = account'.name
      BY <1>4, <1>5, <2>2, <2>3
    <3>5. QED BY <3>2, <3>3, <3>4
  <2>5. CASE task[s].op = "rename"
    <3>1. Unheard(s, "rename") /\ ~Unheard(s, "upload")
      BY <1>1, <2>5 DEF Unheard
    <3>2. header'.name = account'.name
      BY <1>4, <1>8, <2>1, <2>2, <2>5, <3>1
    <3>3. header'.picture = account'.picture \/ \E t \in Senders : Unheard(t, "upload")'
      BY <1>4, <1>8, <2>1, <2>2, <2>3, <2>5, <3>1
    <3>4. \A t \in Senders : /\ Unheard(t, "upload")' => task'[t].row.picture = account'.picture
                             /\ Unheard(t, "rename")' => task'[t].row.name = account'.name
      BY <1>4, <1>5, <2>2, <2>3
    <3>5. QED BY <3>2, <3>3, <3>4
  <2>6. QED BY <1>1, <2>4, <2>5
<1>13. (renewal.at = "read" /\ renewal.clean => renewal.row = Profile)'
  BY <1>4 DEF SettingsInv, HeaderFollows, Profile
<1>14. \A u, t \in Senders : Busy(u)' /\ Busy(t)' /\ task'[u].own /\ task'[t].own /\ task'[u].op = task'[t].op => u = t
  BY <1>11 DEF SettingsInv, HeaderFollows
<1>15. \A t \in Senders : Busy(t)' /\ task'[t].own => task'[t].op # "remove"
  BY <1>11 DEF SettingsInv, HeaderFollows
<1>16. HeaderFollows'
  BY <1>12, <1>13, <1>14, <1>15 DEF HeaderFollows
<1>17. QED BY <1>9, <1>10, <1>16 DEF SettingsInv

\* Only the refresh of the session, the header and what it can know of move.
LEMMA RenewalStep ==
    ASSUME SettingsInv, RefreshRead \/ RefreshPublished \/ UNCHANGED profilePage
    PROVE  SettingsInv'
<1>1. UNCHANGED <<account, objects, made, task>>
  BY DEF RefreshRead, RefreshPublished, profilePage
<1>2. Profile \in ProfileRows /\ SignedOut \in ProfileRows
  BY SignedOutIs DEF Profile, ProfileRows, SettingsInv, SettingsTypes
<1>3. /\ header' \in ProfileRows /\ disturbed' \in BOOLEAN
      /\ renewal' \in [at : {"none", "read"}, row : ProfileRows, clean : BOOLEAN]
  <2>1. CASE RefreshRead
    BY <1>2, <2>1 DEF RefreshRead, SettingsInv, SettingsTypes
  <2>2. CASE RefreshPublished
    <3>1. header' \in ProfileRows /\ renewal' = NoRefresh
      BY <1>2, <2>2 DEF RefreshPublished, SettingsInv, SettingsTypes
    <3>2. disturbed' \in BOOLEAN
      BY <2>2 DEF RefreshPublished, SettingsInv, SettingsTypes
    <3>3. NoRefresh \in [at : {"none", "read"}, row : ProfileRows, clean : BOOLEAN]
      BY <1>2 DEF NoRefresh
    <3>4. QED BY <3>1, <3>2, <3>3
  <2>3. CASE UNCHANGED profilePage
    BY <2>3 DEF profilePage, SettingsInv, SettingsTypes
  <2>4. QED BY <2>1, <2>2, <2>3
<1>4. SettingsTypes'
  BY <1>1, <1>3 DEF SettingsInv, SettingsTypes
<1>5. PicturesKept'
  BY <1>1 DEF SettingsInv, PicturesKept, Uploads, Busy
<1>6. \A t \in Senders : Busy(t)' = Busy(t) /\ Unheard(t, "upload")' = Unheard(t, "upload") /\ Unheard(t, "rename")' = Unheard(t, "rename")
  BY <1>1 DEF Busy, Unheard
<1>7. (renewal.at = "read" /\ renewal.clean => renewal.row = Profile)'
  <2>1. CASE RefreshRead
    BY <2>1 DEF RefreshRead, Profile
  <2>2. CASE RefreshPublished
    BY <2>2 DEF RefreshPublished, NoRefresh
  <2>3. CASE UNCHANGED profilePage
    BY <2>3 DEF profilePage, Profile, SettingsInv, HeaderFollows
  <2>4. QED BY <2>1, <2>2, <2>3
<1>8. ASSUME SignedIn', account'.there, ~disturbed'
      PROVE  /\ header'.picture = account'.picture \/ \E t \in Senders : Unheard(t, "upload")
             /\ header'.name = account'.name \/ \E t \in Senders : Unheard(t, "rename")
             /\ \A t \in Senders : /\ Unheard(t, "upload") => task[t].row.picture = account.picture
                                   /\ Unheard(t, "rename") => task[t].row.name = account.name
  <2>1. CASE UNCHANGED <<header, disturbed>>
    BY <1>1, <1>8, <2>1 DEF SettingsInv, HeaderFollows, SignedIn, SignedOut
  <2>2. CASE RefreshPublished
    <3>1. header' # SignedOut
      BY <1>8 DEF SignedIn, SignedOut
    <3>2. header' = renewal.row /\ SignedIn /\ renewal.at = "read" /\ renewal.clean
      BY <1>8, <2>2, <3>1 DEF RefreshPublished, SignedIn
    <3>3. header' = Profile
      BY <3>2 DEF SettingsInv, HeaderFollows
    <3>4. header'.picture = account'.picture /\ header'.name = account'.name
      BY <1>1, <3>3 DEF Profile
    <3>5. ~disturbed \/ \A t \in Senders : ~Unheard(t, "upload") /\ ~Unheard(t, "rename")
      BY <1>8, <2>2, SignedOutIs DEF RefreshPublished, Unheard, Busy
    <3>6. QED BY <1>1, <1>8, <3>2, <3>4, <3>5 DEF SettingsInv, HeaderFollows
  <2>3. QED BY <2>1, <2>2 DEF RefreshRead, profilePage
<1>9. HeaderFollows'
  <2>1. \A u, t \in Senders : Busy(u)' /\ Busy(t)' /\ task'[u].own /\ task'[t].own /\ task'[u].op = task'[t].op => u = t
    BY <1>1, <1>6 DEF SettingsInv, HeaderFollows
  <2>2. \A t \in Senders : Busy(t)' /\ task'[t].own => task'[t].op # "remove"
    BY <1>1, <1>6 DEF SettingsInv, HeaderFollows
  <2>3. QED BY <1>1, <1>6, <1>7, <1>8, <2>1, <2>2 DEF HeaderFollows
<1>10. QED BY <1>4, <1>5, <1>9 DEF SettingsInv

\* Every step of the page, the services and the other devices keeps the invariant.
LEMMA SettingsStep == SettingsInv /\ [AccountsNext]_profilePage => SettingsInv'
<1> SUFFICES ASSUME SettingsInv, [AccountsNext]_profilePage PROVE SettingsInv'
  OBVIOUS
<1>1. ASSUME NEW s \in Senders, HandleUpload(s) \/ HandleSaveChanges(s) \/ HandleDeleteAccount(s) \/ OtherDevice(s)
      PROVE  SettingsInv'
  BY <1>1, SendersStep
<1>2. ASSUME NEW s \in Senders, FindUser(s) \/ UploadObject(s) \/ UpdatePicture(s) \/ UpdateName(s) \/ RemoveAccount(s)
      PROVE  SettingsInv'
  BY <1>2, FindUserStep, UploadObjectStep, UpdatePictureStep, RowChangedStep
<1>3. ASSUME NEW s \in Senders, DeleteObject(s) \/ FailTask(s) \/ GetMe(s) \/ UploadOrNameSaved(s) PROVE SettingsInv'
  BY <1>3, DeleteObjectStep, FailTaskStep, GetMeStep, SavedStep
<1>4. ASSUME NEW s \in Senders, AccountDeleted(s) \/ Refused(s) \/ OtherDeviceAnswered(s) \/ Reloaded(s) PROVE SettingsInv'
  BY <1>4, AnsweredStep
<1>5. CASE RefreshRead \/ RefreshPublished \/ UNCHANGED profilePage
  BY <1>5, RenewalStep
<1>6. QED BY <1>1, <1>2, <1>3, <1>4, <1>5 DEF AccountsNext

(* Pictures in use or about to be are kept, and the header differs from the  *)
(* row only by what is about to be heard (users.service.ts uploadAvatar,     *)
(* user-settings.tsx).                                                       *)
THEOREM SettingsInvariant == AccountsSpec => []SettingsInv
BY SettingsInitially, SettingsStep, PTL DEF AccountsSpec

(* The picture that the row names is in the object store (users.service.ts   *)
(* uploadAvatar and removeAvatar, which delete what they found at first).    *)
THEOREM AvatarsServed == AccountsSpec => []AvatarServed
<1>1. SettingsInv => AvatarServed
  BY DEF SettingsInv, PicturesKept, AvatarServed, Pictures, NoPicture, External
<1>2. QED BY <1>1, SettingsInvariant, PTL

(* With no request of the pages under way the header shows the row           *)
(* (user-settings.tsx:142 and 231 patch the session's user).                 *)
THEOREM HeadersShowAccounts == AccountsSpec => []HeaderShowsAccount
<1>1. SettingsInv => HeaderShowsAccount
  <2> SUFFICES ASSUME SettingsInv, SignedIn, account.there, \A s \in Senders : task[s] = NoTask, ~disturbed
               PROVE  header = Profile
    BY DEF HeaderShowsAccount
  <2>1. \A s \in Senders : ~Unheard(s, "upload") /\ ~Unheard(s, "rename")
    BY SignedOutIs DEF Unheard, Busy
  <2>2. header.picture = account.picture /\ header.name = account.name
    BY <2>1 DEF SettingsInv, HeaderFollows
  <2>3. header \in ProfileRows
    BY DEF SettingsInv, SettingsTypes
  <2>4. QED BY <2>2, <2>3 DEF ProfileRows, Profile
<1>2. QED BY <1>1, SettingsInvariant, PTL

(* An account is shown as it is, its picture to everybody and the rest in    *)
(* its own header: AccountShown, for any pictures, names and devices.        *)
THEOREM AccountsShownAsTheyAre == AccountsSpec => []AccountShown
BY AvatarsServed, HeadersShowAccounts, PTL DEF AccountShown

-----------------------------------------------------------------------------
(* The conversation and its watermark.                                     *)

ChatEvents == [kind: {"created", "deleted"}, id: Messages]
ChatTabs == [at: {"elsewhere", "loading", "answered", "reading"}, online: BOOLEAN,
             page: SUBSET Messages, shown: SUBSET Messages]

ChatTypeOK ==
    /\ posted \in [Messages -> {"unwritten", "stamped", "committed", "announced", "deleted"}]
    /\ watermark \in 0..Last
    /\ tab \in [Tabs -> ChatTabs]
    /\ feed \in [Tabs -> Seq(ChatEvents)]
    /\ marking \subseteq Messages
    /\ seen \subseteq Messages
    /\ excused \subseteq Messages

Arrived(m) == posted[m] \in {"committed", "announced", "deleted"}
Told(m) == posted[m] \in {"announced", "deleted"}
Noticed == seen \cup excused

\* A message that is not announced when a newer one is has been lost sight of.
Overtaken == \A m, n \in Messages : posted[m] = "committed" /\ Told(n) /\ m < n => m \in excused

\* What is marked, or about to be, is a message that has come; whatever is
\* older and still there was noticed.
MarksSound ==
    \A w \in Messages : w \in marking \/ w = watermark =>
        /\ Arrived(w)
        /\ \A m \in There : m <= w => m \in Noticed

\* The events on their way to a tab are of messages that were announced, in
\* the order of the messages except for those that were overtaken.
FeedSound(t) ==
    \A i \in DOMAIN feed[t] :
        /\ Told(feed[t][i].id)
        /\ \A j \in 1..(i - 1) : feed[t][i].kind = "created" /\ feed[t][i].id <= feed[t][j].id
                                   => feed[t][i].id \in excused

\* A page on its way, and an open conversation: what was announced is there,
\* was noticed, or will be heard of.
SoundTab(b, q) ==
    /\ b.at # "answered" => b.page = {}
    /\ b.shown \subseteq Noticed
    /\ \A p \in b.page : Arrived(p) /\ \A m \in There : m <= p => m \in b.page \cup Noticed
    /\ b.at \in {"answered", "reading"} =>
          \A m \in Messages : posted[m] = "announced" =>
              \/ m \in b.page \cup Noticed
              \/ \E i \in DOMAIN q : q[i].kind = "created" /\ q[i].id = m
TabSound(t) == SoundTab(tab[t], feed[t])

ChatInv ==
    /\ ChatTypeOK /\ Overtaken /\ MarksSound
    /\ \A t \in Tabs : FeedSound(t) /\ TabSound(t)

LEMMA ChatNumbers == Messages \subseteq Nat /\ \A m \in Messages : m >= 1 /\ m <= Last /\ 1..m \subseteq Messages
  BY LastNumber DEF Messages

LEMMA ChatInitHolds == ChatInit => ChatInv
  <1>. SUFFICES ASSUME ChatInit PROVE ChatInv
    OBVIOUS
  <1>1. ChatTypeOK
    BY LastNumber DEF ChatInit, ChatTypeOK, ChatTabs
  <1>2. Overtaken
    BY DEF ChatInit, Overtaken
  <1>3. MarksSound
    BY ChatNumbers DEF ChatInit, MarksSound
  <1>4. \A t \in Tabs : FeedSound(t)
    BY DEF ChatInit, FeedSound
  <1>5. \A t \in Tabs : TabSound(t)
    BY DEF ChatInit, TabSound, SoundTab
  <1>. QED
    BY <1>1, <1>2, <1>3, <1>4, <1>5 DEF ChatInv

\* One event more, one event less.
LEMMA EventAppended ==
  ASSUME NEW q \in Seq(ChatEvents), NEW e \in ChatEvents, NEW s, s = Append(q, e)
  PROVE  /\ s \in Seq(ChatEvents) /\ Len(s) = Len(q) + 1 /\ Len(q) \in Nat /\ s[Len(s)] = e
         /\ DOMAIN q = 1..Len(q) /\ DOMAIN s = 1..(Len(q) + 1)
         /\ \A i \in DOMAIN q : s[i] = q[i]
  OBVIOUS
LEMMA EventHeard ==
  ASSUME NEW q \in Seq(ChatEvents), q # <<>>, NEW s, s = Tail(q)
  PROVE  /\ s \in Seq(ChatEvents) /\ Len(q) \in Nat \ {0} /\ Head(q) = q[1] /\ Head(q) \in ChatEvents
         /\ DOMAIN q = 1..Len(q) /\ DOMAIN s = 1..(Len(q) - 1)
         /\ \A i \in DOMAIN s : s[i] = q[i + 1]
  OBVIOUS

LEMMA FeedOf ==
  ASSUME ChatTypeOK, NEW t \in Tabs
  PROVE  feed[t] \in Seq(ChatEvents) /\ \A i \in DOMAIN feed[t] : feed[t][i] \in ChatEvents /\ feed[t][i].id \in Messages
  <1>. PICK q \in Seq(ChatEvents) : q = feed[t]
    BY DEF ChatTypeOK
  <1>. SUFFICES ASSUME NEW i \in DOMAIN q PROVE q[i] \in ChatEvents /\ q[i].id \in Messages
    OBVIOUS
  <1>1. q[i] \in ChatEvents
    OBVIOUS
  <1>. QED
    BY <1>1 DEF ChatEvents

\* An event of a message that is announced, and of which no event is on its
\* way, is sound at the end of a feed.
LEMMA FeedGrows ==
  ASSUME ChatTypeOK, NEW t \in Tabs, FeedSound(t), NEW e \in ChatEvents,
         feed'[t] = feed[t] \/ feed'[t] = Append(feed[t], e),
         Told(e.id)', \A m \in Messages : Told(m) => Told(m)',
         excused \subseteq excused',
         \A n \in Messages : Told(n) /\ e.kind = "created" /\ e.id <= n => e.id \in excused'
  PROVE  FeedSound(t)' /\ feed'[t] \in Seq(ChatEvents)
  <1>. PICK q \in Seq(ChatEvents) : q = feed[t]
    BY DEF ChatTypeOK
  <1>0. \A i \in DOMAIN q : q[i].id \in Messages
    BY FeedOf
  <1>1. CASE feed'[t] = q
    BY <1>0, <1>1 DEF FeedSound
  <1>2. CASE feed'[t] = Append(q, e)
    <2>. PICK s : s = Append(q, e)
      OBVIOUS
    <2>1. /\ s \in Seq(ChatEvents) /\ Len(s) = Len(q) + 1 /\ Len(q) \in Nat /\ s[Len(s)] = e
          /\ DOMAIN q = 1..Len(q) /\ DOMAIN s = 1..(Len(q) + 1)
          /\ \A i \in DOMAIN q : s[i] = q[i]
      BY EventAppended
    <2>2. ASSUME NEW i \in DOMAIN s
          PROVE  /\ Told(s[i].id)'
                 /\ \A j \in 1..(i - 1) : s[i].kind = "created" /\ s[i].id <= s[j].id => s[i].id \in excused'
      <3>1. CASE i \in DOMAIN q
        <4>1. s[i] = q[i] /\ \A j \in 1..(i - 1) : s[j] = q[j]
          BY <2>1, <3>1
        <4>. QED
          BY <1>0, <3>1, <4>1 DEF FeedSound
      <3>2. CASE i \notin DOMAIN q
        <4>1. i = Len(s) /\ s[i] = e
          BY <2>1, <3>2
        <4>2. \A j \in 1..(i - 1) : j \in DOMAIN q /\ s[j] = q[j]
          BY <2>1, <4>1
        <4>3. \A j \in 1..(i - 1) : Told(s[j].id) /\ s[j].id \in Messages
          BY <1>0, <4>2 DEF FeedSound
        <4>. QED
          BY <4>1, <4>3
      <3>. QED
        BY <3>1, <3>2
    <2>. QED
      BY <1>2, <2>1, <2>2 DEF FeedSound
  <1>. QED
    BY <1>1, <1>2

\* What a message's step changes of it.
LEMMA PostOnly ==
  ASSUME ChatTypeOK, NEW m \in Messages, NEW from, NEW to \in {"stamped", "committed", "announced", "deleted"},
         Post(m, from, to)
  PROVE  /\ posted' \in [Messages -> {"unwritten", "stamped", "committed", "announced", "deleted"}]
         /\ posted[m] = from /\ posted'[m] = to
         /\ \A n \in Messages : n # m => posted'[n] = posted[n]
  BY DEF ChatTypeOK, Post

LEMMA StampSteps ==
  ASSUME ChatInv, NEW m \in Messages, Stamp(m)
  PROVE  ChatInv'
  <1>1. /\ posted' \in [Messages -> {"unwritten", "stamped", "committed", "announced", "deleted"}]
        /\ posted[m] = "unwritten" /\ posted'[m] = "stamped"
        /\ \A n \in Messages : n # m => posted'[n] = posted[n]
    BY PostOnly DEF Stamp, ChatInv
  <1>2. UNCHANGED <<watermark, tab, feed, marking, seen, excused>>
    BY DEF Stamp
  <1>3. \A n \in Messages : /\ (Told(n)' <=> Told(n)) /\ (Arrived(n)' <=> Arrived(n)) /\ (n \in There' <=> n \in There)
                            /\ \A at \in {"committed", "announced"} : posted'[n] = at <=> posted[n] = at
    BY <1>1 DEF Told, Arrived, There
  <1>4. ChatTypeOK'
    BY <1>1, <1>2 DEF ChatInv, ChatTypeOK
  <1>5. Overtaken'
    BY <1>2, <1>3 DEF ChatInv, Overtaken
  <1>6. MarksSound'
    BY <1>2, <1>3 DEF ChatInv, MarksSound, Noticed, There
  <1>7. ASSUME NEW t \in Tabs PROVE FeedSound(t)'
    <2>1. \A i \in DOMAIN feed[t] : feed[t][i].id \in Messages
      BY FeedOf DEF ChatInv
    <2>. QED
      BY <1>2, <1>3, <2>1 DEF ChatInv, FeedSound
  <1>8. ASSUME NEW t \in Tabs PROVE TabSound(t)'
    <2>1. tab[t].page \subseteq Messages /\ There \subseteq Messages /\ There' = There
      BY <1>3 DEF ChatInv, ChatTypeOK, ChatTabs, There
    <2>2. TabSound(t)
      BY DEF ChatInv
    <2>. QED
      BY <1>2, <1>3, <2>1, <2>2 DEF TabSound, SoundTab, Noticed
  <1>. QED
    BY <1>4, <1>5, <1>6, <1>7, <1>8 DEF ChatInv

LEMMA CommitSteps ==
  ASSUME ChatInv, NEW m \in Messages, Commit(m)
  PROVE  ChatInv'
  <1>1. /\ posted' \in [Messages -> {"unwritten", "stamped", "committed", "announced", "deleted"}]
        /\ posted[m] = "stamped" /\ posted'[m] = "committed"
        /\ \A n \in Messages : n # m => posted'[n] = posted[n]
    BY PostOnly DEF Commit, ChatInv
  <1>2. UNCHANGED <<watermark, tab, feed, marking, seen>>
    BY DEF Commit
  <1>3. /\ \A n \in Messages : (Told(n)' <=> Told(n)) /\ (Arrived(n) => Arrived(n)')
        /\ \A n \in Messages : n \in There' <=> (n = m \/ n \in There)
        /\ ~Arrived(m) /\ There' \subseteq Messages
        /\ \A n \in Messages : posted'[n] = "announced" <=> posted[n] = "announced"
    BY <1>1 DEF Told, Arrived, There
  <1>4. /\ excused \subseteq excused' /\ excused' \subseteq Messages
        /\ \A n \in Messages : n > m /\ Arrived(n) => m \in excused'
    BY DEF Commit, ChatInv, ChatTypeOK, Arrived
  <1>5. Noticed \subseteq Noticed' /\ \A n \in Messages : n >= m /\ Arrived(n) => m \in Noticed'
    <2>1. ASSUME NEW n \in Messages, n >= m, Arrived(n) PROVE n > m
      <3>1. n # m
        BY <1>3, <2>1
      <3>2. n \in Nat /\ m \in Nat
        BY ChatNumbers
      <3>. QED
        BY <2>1, <3>1, <3>2
    <2>2. Noticed \subseteq Noticed' /\ excused' \subseteq Noticed'
      BY <1>2, <1>4 DEF Noticed
    <2>. QED
      BY <1>4, <2>1, <2>2
  <1>6. ChatTypeOK'
    BY <1>1, <1>2, <1>4 DEF ChatInv, ChatTypeOK
  <1>7. Overtaken'
    <2>. SUFFICES ASSUME NEW k \in Messages, NEW n \in Messages, posted'[k] = "committed", Told(n)', k < n
                  PROVE  k \in excused'
      BY DEF Overtaken
    <2>1. Told(n) /\ Arrived(n)
      BY <1>3 DEF Told, Arrived
    <2>2. CASE k = m
      BY <1>4, <2>1, <2>2, ChatNumbers
    <2>3. CASE k # m
      BY <1>1, <1>4, <2>1, <2>3 DEF ChatInv, Overtaken
    <2>. QED
      BY <2>2, <2>3
  <1>8. MarksSound'
    <2>. SUFFICES ASSUME NEW w \in Messages, w \in marking \/ w = watermark
                  PROVE  Arrived(w)' /\ \A k \in There' : k <= w => k \in Noticed'
      BY <1>2 DEF MarksSound
    <2>1. Arrived(w) /\ \A k \in There : k <= w => k \in Noticed
      BY DEF ChatInv, MarksSound
    <2>. QED
      BY <1>3, <1>5, <2>1, ChatNumbers
  <1>9. ASSUME NEW t \in Tabs PROVE FeedSound(t)'
    <2>1. \A i \in DOMAIN feed[t] : feed[t][i].id \in Messages
      BY FeedOf DEF ChatInv
    <2>. QED
      BY <1>2, <1>3, <1>4, <2>1 DEF ChatInv, FeedSound
  <1>10. ASSUME NEW t \in Tabs PROVE TabSound(t)'
    <2>1. tab[t].page \subseteq Messages
      BY DEF ChatInv, ChatTypeOK, ChatTabs
    <2>2. TabSound(t)
      BY DEF ChatInv
    <2>4. \A p \in tab[t].page : Arrived(p)' /\ \A k \in There' : k <= p => k \in tab[t].page \cup Noticed'
      BY <1>3, <1>5, <2>1, <2>2, ChatNumbers DEF TabSound, SoundTab
    <2>. QED
      BY <1>2, <1>3, <1>5, <2>2, <2>4 DEF TabSound, SoundTab
  <1>. QED
    BY <1>6, <1>7, <1>8, <1>9, <1>10 DEF ChatInv

\* An event that is emitted reaches the tabs that are connected.
LEMMA Emitted ==
  ASSUME ChatTypeOK, NEW e \in ChatEvents, Emit(e)
  PROVE  /\ feed' \in [Tabs -> Seq(ChatEvents)]
         /\ \A t \in Tabs : feed'[t] = IF tab[t].online THEN Append(feed[t], e) ELSE feed[t]
  <1>1. \A t \in Tabs : feed'[t] = IF tab[t].online THEN Append(feed[t], e) ELSE feed[t]
    BY DEF Emit
  <1>2. ASSUME NEW t \in Tabs PROVE feed'[t] \in Seq(ChatEvents)
    <2>. PICK q \in Seq(ChatEvents) : q = feed[t]
      BY DEF ChatTypeOK
    <2>1. Append(q, e) \in Seq(ChatEvents)
      OBVIOUS
    <2>. QED
      BY <1>1, <2>1
  <1>3. feed' = [t \in Tabs |-> feed'[t]]
    BY DEF Emit
  <1>. QED
    BY <1>1, <1>2, <1>3

\* What was on its way to a tab still is.
LEMMA EventsKept ==
  ASSUME ChatTypeOK, NEW t \in Tabs, NEW e \in ChatEvents,
         feed'[t] = feed[t] \/ feed'[t] = Append(feed[t], e)
  PROVE  \A i \in DOMAIN feed[t] : i \in DOMAIN feed'[t] /\ feed'[t][i] = feed[t][i]
  <1>. PICK q \in Seq(ChatEvents) : q = feed[t]
    BY DEF ChatTypeOK
  <1>. PICK s : s = Append(q, e)
    OBVIOUS
  <1>1. DOMAIN q = 1..Len(q) /\ DOMAIN s = 1..(Len(q) + 1) /\ Len(q) \in Nat /\ \A i \in DOMAIN q : s[i] = q[i]
    BY EventAppended
  <1>. QED
    BY <1>1

LEMMA AnnounceSteps ==
  ASSUME ChatInv, NEW m \in Messages, Announce(m)
  PROVE  ChatInv'
  <1>1. /\ posted' \in [Messages -> {"unwritten", "stamped", "committed", "announced", "deleted"}]
        /\ posted[m] = "committed" /\ posted'[m] = "announced"
        /\ \A n \in Messages : n # m => posted'[n] = posted[n]
    BY PostOnly DEF Announce, ChatInv
  <1>2. UNCHANGED <<watermark, tab, marking, seen>>
    BY DEF Announce
  <1>. PICK e \in ChatEvents : e = [kind |-> "created", id |-> m]
    BY DEF ChatEvents
  <1>3. /\ feed' \in [Tabs -> Seq(ChatEvents)]
        /\ \A t \in Tabs : feed'[t] = IF tab[t].online THEN Append(feed[t], e) ELSE feed[t]
    BY Emitted DEF Announce, ChatInv
  <1>4. /\ \A n \in Messages : (Told(n)' <=> n = m \/ Told(n)) /\ (Arrived(n)' <=> Arrived(n))
        /\ There' = There /\ There \subseteq Messages /\ ~Told(m)
        /\ \A n \in Messages : n # m => (posted'[n] = "announced" <=> posted[n] = "announced")
    BY <1>1 DEF Told, Arrived, There
  <1>5. /\ excused \subseteq excused' /\ excused' \subseteq Messages
        /\ \A n \in Messages : n < m /\ posted[n] = "committed" => n \in excused'
        /\ \A t \in Tabs : Open(t) /\ ~tab[t].online => m \in excused'
    BY DEF Announce, ChatInv, ChatTypeOK
  <1>6. Noticed \subseteq Noticed' /\ excused' \subseteq Noticed'
    BY <1>2, <1>5 DEF Noticed
  <1>7. ChatTypeOK'
    BY <1>1, <1>2, <1>3, <1>5 DEF ChatInv, ChatTypeOK
  <1>8. Overtaken'
    <2>. SUFFICES ASSUME NEW k \in Messages, NEW n \in Messages, posted'[k] = "committed", Told(n)', k < n
                  PROVE  k \in excused'
      BY DEF Overtaken
    <2>1. k # m /\ posted[k] = "committed"
      BY <1>1
    <2>2. CASE n = m
      BY <1>5, <2>1, <2>2
    <2>3. CASE n # m
      BY <1>4, <1>5, <2>1, <2>3 DEF ChatInv, Overtaken
    <2>. QED
      BY <2>2, <2>3
  <1>9. MarksSound'
    BY <1>2, <1>4, <1>6 DEF ChatInv, MarksSound
  <1>10. ASSUME NEW t \in Tabs PROVE FeedSound(t)'
    <2>1. ASSUME NEW n \in Messages, Told(n), m <= n PROVE m \in excused'
      <3>1. n # m /\ m \in Nat /\ n \in Nat
        BY <1>4, <2>1, ChatNumbers
      <3>2. m < n
        BY <2>1, <3>1
      <3>. QED
        BY <1>1, <1>5, <2>1, <3>2 DEF ChatInv, Overtaken
    <2>2. e.id = m /\ e.kind = "created"
      OBVIOUS
    <2>3. Told(e.id)' /\ \A n \in Messages : Told(n) => Told(n)'
      BY <1>4, <2>2
    <2>4. feed'[t] = feed[t] \/ feed'[t] = Append(feed[t], e)
      BY <1>3
    <2>5. \A n \in Messages : Told(n) /\ e.kind = "created" /\ e.id <= n => e.id \in excused'
      BY <2>1, <2>2
    <2>6. ChatTypeOK /\ FeedSound(t)
      BY DEF ChatInv
    <2>. QED
      BY <1>5, <2>3, <2>4, <2>5, <2>6, FeedGrows
  <1>11. ASSUME NEW t \in Tabs PROVE TabSound(t)'
    <2>1. tab[t].page \subseteq Messages
      BY DEF ChatInv, ChatTypeOK, ChatTabs
    <2>2. TabSound(t)
      BY DEF ChatInv
    <2>4. \A p \in tab[t].page : Arrived(p)' /\ \A k \in There' : k <= p => k \in tab[t].page \cup Noticed'
      BY <1>4, <1>6, <2>1, <2>2 DEF TabSound, SoundTab
    <2>5. ASSUME NEW k \in Messages, posted'[k] = "announced", tab[t].at \in {"answered", "reading"}
          PROVE  \/ k \in tab[t].page \cup Noticed'
                 \/ \E i \in DOMAIN feed'[t] : feed'[t][i].kind = "created" /\ feed'[t][i].id = k
      <3>1. CASE k # m
        <4>1. posted[k] = "announced"
          BY <1>4, <2>5, <3>1
        <4>2. \/ k \in tab[t].page \cup Noticed
              \/ \E i \in DOMAIN feed[t] : feed[t][i].kind = "created" /\ feed[t][i].id = k
          BY <2>2, <2>5, <4>1 DEF TabSound, SoundTab
        <4>3. \A i \in DOMAIN feed[t] : i \in DOMAIN feed'[t] /\ feed'[t][i] = feed[t][i]
          BY <1>3, EventsKept DEF ChatInv
        <4>. QED
          BY <1>6, <4>2, <4>3
      <3>2. CASE k = m
        <4>1. CASE tab[t].online
          <5>. PICK q \in Seq(ChatEvents) : q = feed[t]
            BY DEF ChatInv, ChatTypeOK
          <5>. PICK s : s = Append(q, e)
            OBVIOUS
          <5>1. Len(s) \in DOMAIN s /\ s[Len(s)] = e
            BY EventAppended
          <5>2. feed'[t] = s
            BY <1>3, <4>1
          <5>. QED
            BY <3>2, <5>1, <5>2
        <4>2. CASE ~tab[t].online
          BY <1>5, <1>6, <2>5, <3>2, <4>2 DEF Open
        <4>. QED
          BY <4>1, <4>2
      <3>. QED
        BY <3>1, <3>2
    <2>. QED
      BY <1>2, <1>6, <2>2, <2>4, <2>5 DEF TabSound, SoundTab
  <1>. QED
    BY <1>7, <1>8, <1>9, <1>10, <1>11 DEF ChatInv

LEMMA DeleteMessageSteps ==
  ASSUME ChatInv, NEW m \in Messages, DeleteMessage(m)
  PROVE  ChatInv'
  <1>1. /\ posted' \in [Messages -> {"unwritten", "stamped", "committed", "announced", "deleted"}]
        /\ posted[m] = "announced" /\ posted'[m] = "deleted"
        /\ \A n \in Messages : n # m => posted'[n] = posted[n]
    BY PostOnly DEF DeleteMessage, ChatInv
  <1>2. UNCHANGED <<watermark, tab, marking, seen, excused>>
    BY DEF DeleteMessage
  <1>. PICK e \in ChatEvents : e = [kind |-> "deleted", id |-> m]
    BY DEF ChatEvents
  <1>3. /\ feed' \in [Tabs -> Seq(ChatEvents)]
        /\ \A t \in Tabs : feed'[t] = IF tab[t].online THEN Append(feed[t], e) ELSE feed[t]
    BY Emitted DEF DeleteMessage, ChatInv
  <1>4. /\ \A n \in Messages : (Told(n)' <=> Told(n)) /\ (Arrived(n)' <=> Arrived(n))
        /\ There' \subseteq There /\ There \subseteq Messages
        /\ \A n \in Messages : (posted'[n] = "announced" => posted[n] = "announced")
                              /\ (posted'[n] = "committed" => posted[n] = "committed")
    BY <1>1 DEF Told, Arrived, There
  <1>5. Noticed' = Noticed
    BY <1>2 DEF Noticed
  <1>6. ChatTypeOK'
    BY <1>1, <1>2, <1>3 DEF ChatInv, ChatTypeOK
  <1>7. Overtaken'
    BY <1>2, <1>4 DEF ChatInv, Overtaken
  <1>8. MarksSound'
    BY <1>2, <1>4, <1>5 DEF ChatInv, MarksSound
  <1>9. ASSUME NEW t \in Tabs PROVE FeedSound(t)'
    <2>1. e.id = m /\ e.kind = "deleted"
      OBVIOUS
    <2>2. Told(e.id)' /\ \A n \in Messages : Told(n) => Told(n)'
      BY <1>1, <1>4, <2>1 DEF Told
    <2>3. feed'[t] = feed[t] \/ feed'[t] = Append(feed[t], e)
      BY <1>3
    <2>4. \A n \in Messages : Told(n) /\ e.kind = "created" /\ e.id <= n => e.id \in excused'
      BY <2>1
    <2>5. ChatTypeOK /\ FeedSound(t) /\ excused \subseteq excused'
      BY <1>2 DEF ChatInv
    <2>. QED
      BY <2>2, <2>3, <2>4, <2>5, FeedGrows
  <1>10. ASSUME NEW t \in Tabs PROVE TabSound(t)'
    <2>1. tab[t].page \subseteq Messages
      BY DEF ChatInv, ChatTypeOK, ChatTabs
    <2>2. TabSound(t)
      BY DEF ChatInv
    <2>4. \A p \in tab[t].page : Arrived(p)' /\ \A k \in There' : k <= p => k \in tab[t].page \cup Noticed'
      BY <1>4, <1>5, <2>1, <2>2 DEF TabSound, SoundTab
    <2>5. \A i \in DOMAIN feed[t] : i \in DOMAIN feed'[t] /\ feed'[t][i] = feed[t][i]
      BY <1>3, EventsKept DEF ChatInv
    <2>. QED
      BY <1>2, <1>4, <1>5, <2>2, <2>4, <2>5 DEF TabSound, SoundTab
  <1>. QED
    BY <1>6, <1>7, <1>8, <1>9, <1>10 DEF ChatInv

\* A tab changes, and hears of nothing.
LEMMA TabChanges ==
  ASSUME ChatInv, NEW t \in Tabs, NEW n \in ChatTabs, tab' = [tab EXCEPT ![t] = n],
         UNCHANGED <<posted, watermark, feed, excused>>,
         seen \subseteq seen', seen' \subseteq Messages,
         SoundTab(n, feed[t])', marking' \subseteq Messages, MarksSound'
  PROVE  ChatInv'
  <1>1. tab' \in [Tabs -> ChatTabs] /\ tab'[t] = n /\ \A u \in Tabs : u # t => tab'[u] = tab[u]
    BY DEF ChatInv, ChatTypeOK
  <1>2. Noticed \subseteq Noticed' /\ There' = There
    BY DEF Noticed, There
  <1>3. ASSUME NEW u \in Tabs PROVE TabSound(u)'
    <2>1. CASE u = t
      BY <1>1, <2>1 DEF TabSound
    <2>2. CASE u # t
      <3>1. tab'[u] = tab[u] /\ TabSound(u)
        BY <1>1, <2>2 DEF ChatInv
      <3>. QED
        BY <1>2, <3>1 DEF TabSound, SoundTab, Arrived
    <2>. QED
      BY <2>1, <2>2
  <1>4. ASSUME NEW u \in Tabs PROVE FeedSound(u)'
    BY DEF ChatInv, FeedSound, Told
  <1>5. ChatTypeOK'
    BY <1>1 DEF ChatInv, ChatTypeOK
  <1>6. Overtaken'
    BY DEF ChatInv, Overtaken, Told
  <1>. QED
    BY <1>3, <1>4, <1>5, <1>6 DEF ChatInv

\* One that marks nothing either.
LEMMA TabOnly ==
  ASSUME ChatInv, NEW t \in Tabs, NEW n \in ChatTabs, tab' = [tab EXCEPT ![t] = n],
         UNCHANGED <<posted, watermark, feed, marking, seen, excused>>, SoundTab(n, feed[t])
  PROVE  ChatInv'
  <1>1. SoundTab(n, feed[t])'
    BY DEF SoundTab, Noticed, There, Arrived
  <1>2. MarksSound' /\ marking' \subseteq Messages /\ seen' \subseteq Messages
    BY DEF ChatInv, ChatTypeOK, MarksSound, Noticed, There, Arrived
  <1>. QED
    BY <1>1, <1>2, TabChanges

LEMMA TabOf ==
  ASSUME ChatInv, NEW t \in Tabs
  PROVE  tab[t] \in ChatTabs /\ SoundTab(tab[t], feed[t])
  BY DEF ChatInv, ChatTypeOK, TabSound

LEMMA SelectSteps ==
  ASSUME ChatInv, NEW t \in Tabs, Select(t)
  PROVE  ChatInv'
  <1>. PICK b \in ChatTabs : b = tab[t]
    BY TabOf
  <1>. PICK n : n = [b EXCEPT !.at = "loading"]
    OBVIOUS
  <1>1. n \in ChatTabs /\ n.at = "loading" /\ n.page = b.page /\ n.shown = b.shown
    BY DEF ChatTabs
  <1>2. tab' = [tab EXCEPT ![t] = n]
    BY DEF Select
  <1>3. b.at = "elsewhere" /\ SoundTab(b, feed[t])
    BY TabOf DEF Select, Open
  <1>4. SoundTab(n, feed[t])
    BY <1>1, <1>3 DEF SoundTab
  <1>. QED
    BY <1>1, <1>2, <1>4, TabOnly DEF Select

LEMMA FindAllSteps ==
  ASSUME ChatInv, NEW t \in Tabs, FindAll(t)
  PROVE  ChatInv'
  <1>. PICK b \in ChatTabs : b = tab[t]
    BY TabOf
  <1>. PICK page \in SUBSET Messages : page = There
    BY DEF There
  <1>. PICK n : n = [b EXCEPT !.at = "answered", !.page = page]
    OBVIOUS
  <1>1. n \in ChatTabs /\ n.at = "answered" /\ n.page = page /\ n.shown = b.shown
    BY DEF ChatTabs
  <1>2. tab' = [tab EXCEPT ![t] = n]
    BY DEF FindAll
  <1>3. b.at = "loading" /\ SoundTab(b, feed[t])
    BY TabOf DEF FindAll
  <1>4. \A m \in Messages : posted[m] = "announced" => m \in page
    BY DEF There
  <1>5. \A p \in page : Arrived(p)
    BY DEF There, Arrived
  <1>6. SoundTab(n, feed[t])
    BY <1>1, <1>3, <1>4, <1>5 DEF SoundTab
  <1>. QED
    BY <1>1, <1>2, <1>6, TabOnly DEF FindAll

LEMMA LandSteps ==
  ASSUME ChatInv, NEW t \in Tabs, Land(t)
  PROVE  ChatInv'
  <1>. PICK b \in ChatTabs : b = tab[t]
    BY TabOf
  <1>. PICK page \in SUBSET Messages : page = b.page
    BY DEF ChatTabs
  <1>. PICK n : n = [b EXCEPT !.at = "reading", !.shown = page, !.page = {}]
    OBVIOUS
  <1>1. n \in ChatTabs /\ n.at = "reading" /\ n.page = {} /\ n.shown = page
    BY DEF ChatTabs
  <1>2. tab' = [tab EXCEPT ![t] = n]
    BY DEF Land
  <1>3. b.at = "answered" /\ SoundTab(b, feed[t])
    BY TabOf DEF Land
  <1>4. seen' = seen \cup page /\ marking \subseteq marking' /\ marking' \subseteq marking \cup page
    BY DEF Land
  <1>5. UNCHANGED <<posted, watermark, feed, excused>>
    BY DEF Land
  <1>6. Noticed' = Noticed \cup page /\ There' = There /\ \A m \in Messages : Arrived(m)' <=> Arrived(m)
    BY <1>4, <1>5 DEF Noticed, There, Arrived
  <1>7. SoundTab(n, feed[t])'
    <2>1. \A m \in Messages : posted[m] = "announced" =>
              m \in Noticed' \/ \E i \in DOMAIN feed[t] : feed[t][i].kind = "created" /\ feed[t][i].id = m
      BY <1>3, <1>6 DEF SoundTab
    <2>. QED
      BY <1>1, <1>5, <1>6, <2>1 DEF SoundTab
  <1>8. MarksSound'
    <2>. SUFFICES ASSUME NEW w \in Messages, w \in marking' \/ w = watermark
                  PROVE  Arrived(w) /\ \A m \in There : m <= w => m \in Noticed \cup page
      BY <1>5, <1>6 DEF MarksSound
    <2>1. CASE w \in marking \/ w = watermark
      BY <2>1 DEF ChatInv, MarksSound
    <2>2. CASE w \in page
      BY <1>3, <2>2 DEF SoundTab
    <2>. QED
      BY <1>4, <2>1, <2>2
  <1>9. seen' \subseteq Messages /\ marking' \subseteq Messages /\ seen \subseteq seen'
    BY <1>4 DEF ChatInv, ChatTypeOK
  <1>. QED
    BY <1>1, <1>2, <1>5, <1>7, <1>8, <1>9, TabChanges

LEMMA LeaveChatSteps ==
  ASSUME ChatInv, NEW t \in Tabs, LeaveChat(t)
  PROVE  ChatInv'
  <1>. PICK b \in ChatTabs : b = tab[t]
    BY TabOf
  <1>. PICK n : n = [b EXCEPT !.at = "elsewhere", !.shown = {}, !.page = {}]
    OBVIOUS
  <1>1. n \in ChatTabs /\ n.at = "elsewhere" /\ n.page = {} /\ n.shown = {}
    BY DEF ChatTabs
  <1>2. tab' = [tab EXCEPT ![t] = n]
    BY DEF LeaveChat
  <1>3. SoundTab(n, feed[t])
    BY <1>1 DEF SoundTab
  <1>. QED
    BY <1>1, <1>2, <1>3, TabOnly DEF LeaveChat

LEMMA ReconnectSteps ==
  ASSUME ChatInv, NEW t \in Tabs, Reconnect(t)
  PROVE  ChatInv'
  <1>. PICK b \in ChatTabs : b = tab[t]
    BY TabOf
  <1>. PICK n : n = [b EXCEPT !.online = TRUE]
    OBVIOUS
  <1>1. n \in ChatTabs /\ n.at = b.at /\ n.page = b.page /\ n.shown = b.shown
    BY DEF ChatTabs
  <1>2. tab' = [tab EXCEPT ![t] = n]
    BY DEF Reconnect
  <1>3. SoundTab(n, feed[t])
    BY <1>1, TabOf DEF SoundTab
  <1>. QED
    BY <1>1, <1>2, <1>3, TabOnly DEF Reconnect

\* A tab hears of an event, or of no more: its own feed and what it shows
\* change, and what was noticed grows.
LEMMA TabHears ==
  ASSUME ChatInv, NEW t \in Tabs, NEW n \in ChatTabs, NEW q \in Seq(ChatEvents),
         tab' = [tab EXCEPT ![t] = n], feed' = [feed EXCEPT ![t] = q],
         UNCHANGED <<posted, watermark>>,
         seen \subseteq seen', seen' \subseteq Messages, excused \subseteq excused', excused' \subseteq Messages,
         SoundTab(n, q)', FeedSound(t)', marking' \subseteq Messages, MarksSound'
  PROVE  ChatInv'
  <1>1. tab' \in [Tabs -> ChatTabs] /\ tab'[t] = n /\ \A u \in Tabs : u # t => tab'[u] = tab[u]
    BY DEF ChatInv, ChatTypeOK
  <1>2. feed' \in [Tabs -> Seq(ChatEvents)] /\ feed'[t] = q /\ \A u \in Tabs : u # t => feed'[u] = feed[u]
    BY DEF ChatInv, ChatTypeOK
  <1>3. Noticed \subseteq Noticed' /\ There' = There
    BY DEF Noticed, There
  <1>4. ASSUME NEW u \in Tabs PROVE TabSound(u)'
    <2>1. CASE u = t
      BY <1>1, <1>2, <2>1 DEF TabSound
    <2>2. CASE u # t
      <3>1. tab'[u] = tab[u] /\ feed'[u] = feed[u] /\ TabSound(u)
        BY <1>1, <1>2, <2>2 DEF ChatInv
      <3>. QED
        BY <1>3, <3>1 DEF TabSound, SoundTab, Arrived
    <2>. QED
      BY <2>1, <2>2
  <1>5. ASSUME NEW u \in Tabs PROVE FeedSound(u)'
    <2>1. CASE u = t
      BY <2>1
    <2>2. CASE u # t
      <3>1. feed'[u] = feed[u] /\ FeedSound(u)
        BY <1>2, <2>2 DEF ChatInv
      <3>. QED
        BY <3>1 DEF FeedSound, Told
    <2>. QED
      BY <2>1, <2>2
  <1>6. ChatTypeOK'
    BY <1>1, <1>2 DEF ChatInv, ChatTypeOK
  <1>7. Overtaken'
    BY DEF ChatInv, Overtaken, Told
  <1>. QED
    BY <1>4, <1>5, <1>6, <1>7 DEF ChatInv

LEMMA DisconnectSteps ==
  ASSUME ChatInv, NEW t \in Tabs, Disconnect(t)
  PROVE  ChatInv'
  <1>. PICK b \in ChatTabs : b = tab[t]
    BY TabOf
  <1>. PICK n : n = [b EXCEPT !.online = FALSE]
    OBVIOUS
  <1>0. <<>> \in Seq(ChatEvents)
    OBVIOUS
  <1>. PICK q \in Seq(ChatEvents) : q = <<>>
    BY <1>0
  <1>1. n \in ChatTabs /\ n.at = b.at /\ n.page = b.page /\ n.shown = b.shown
    BY DEF ChatTabs
  <1>2. tab' = [tab EXCEPT ![t] = n] /\ feed' = [feed EXCEPT ![t] = q]
    BY DEF Disconnect
  <1>3. UNCHANGED <<posted, watermark, marking, seen>>
    BY DEF Disconnect
  <1>4. \A i \in DOMAIN feed[t] : feed[t][i].id \in Messages
    BY FeedOf DEF ChatInv
  <1>5. /\ excused \subseteq excused' /\ excused' \subseteq Messages
        /\ b.at # "elsewhere" => \A i \in DOMAIN feed[t] : feed[t][i].id \in excused'
    BY <1>4 DEF Disconnect, Open, ChatInv, ChatTypeOK
  <1>6. Noticed \subseteq Noticed' /\ excused' \subseteq Noticed' /\ There' = There /\ \A m \in Messages : Arrived(m)' <=> Arrived(m)
    BY <1>3, <1>5 DEF Noticed, There, Arrived
  <1>7. SoundTab(b, feed[t])
    BY TabOf
  <1>8. SoundTab(n, q)'
    <2>1. ASSUME b.at \in {"answered", "reading"}, NEW m \in Messages, posted[m] = "announced"
          PROVE  m \in b.page \cup Noticed'
      BY <1>5, <1>6, <1>7, <2>1 DEF SoundTab
    <2>. QED
      BY <1>1, <1>3, <1>6, <1>7, <2>1 DEF SoundTab, Arrived
  <1>9. FeedSound(t)'
    <2>1. feed'[t] = <<>>
      BY <1>2 DEF ChatInv, ChatTypeOK
    <2>. QED
      BY <2>1 DEF FeedSound
  <1>10. MarksSound'
    BY <1>3, <1>6 DEF ChatInv, MarksSound, Arrived
  <1>11. marking' \subseteq Messages /\ seen \subseteq seen' /\ seen' \subseteq Messages
    BY <1>3 DEF ChatInv, ChatTypeOK
  <1>. QED
    BY <1>1, <1>2, <1>3, <1>5, <1>8, <1>9, <1>10, <1>11, TabHears

LEMMA MarkReadSteps ==
  ASSUME ChatInv, NEW m \in Messages, MarkRead(m)
  PROVE  ChatInv'
  <1>1. UNCHANGED <<posted, tab, feed, seen, excused>>
    BY DEF MarkRead
  <1>2. m \in marking /\ marking' \subseteq marking /\ watermark' \in {watermark, m}
    BY DEF MarkRead, Marked
  <1>3. ChatTypeOK'
    BY <1>1, <1>2, LastNumber DEF ChatInv, ChatTypeOK, Messages
  <1>4. MarksSound'
    <2>1. \A w \in Messages : w \in marking' \/ w = watermark' => w \in marking \/ w = watermark
      BY <1>2
    <2>. QED
      BY <1>1, <2>1 DEF ChatInv, MarksSound, Noticed, There, Arrived
  <1>5. \A t \in Tabs : FeedSound(t)' /\ TabSound(t)'
    BY <1>1 DEF ChatInv, FeedSound, TabSound, SoundTab, Noticed, There, Arrived, Told
  <1>6. Overtaken'
    BY <1>1 DEF ChatInv, Overtaken, Told
  <1>. QED
    BY <1>3, <1>4, <1>5, <1>6 DEF ChatInv

LEMMA HearMessageSteps ==
  ASSUME ChatInv, NEW t \in Tabs, HearMessage(t)
  PROVE  ChatInv'
  <1>. PICK b \in ChatTabs : b = tab[t]
    BY TabOf
  <1>. PICK old \in Seq(ChatEvents) : old = feed[t]
    BY DEF ChatInv, ChatTypeOK
  <1>. PICK q : q = Tail(old)
    OBVIOUS
  <1>1. old # <<>> /\ UNCHANGED <<posted, watermark>>
    BY DEF HearMessage
  <1>2. /\ q \in Seq(ChatEvents) /\ Len(old) \in Nat \ {0} /\ Head(old) = old[1] /\ Head(old) \in ChatEvents
        /\ DOMAIN old = 1..Len(old) /\ DOMAIN q = 1..(Len(old) - 1)
        /\ \A i \in DOMAIN q : q[i] = old[i + 1]
    BY <1>1, EventHeard
  <1>. PICK e \in ChatEvents : e = old[1]
    BY <1>2
  <1>. PICK m \in Messages : m = e.id
    BY DEF ChatEvents
  <1>. PICK new \in BOOLEAN : new <=> e.kind = "created" /\ b.at # "elsewhere" /\ m \notin b.shown
    OBVIOUS
  <1>. PICK shown \in SUBSET Messages :
         shown = IF new THEN b.shown \cup {m} ELSE IF e.kind = "deleted" THEN b.shown \ {m} ELSE b.shown
    BY DEF ChatTabs
  <1>. PICK n : n = [b EXCEPT !.shown = shown]
    OBVIOUS
  <1>3. n \in ChatTabs /\ n.at = b.at /\ n.page = b.page /\ n.shown = shown
    BY DEF ChatTabs
  <1>4. tab' = [tab EXCEPT ![t] = n] /\ feed' = [feed EXCEPT ![t] = q]
    BY <1>2 DEF HearMessage, Open
  <1>5. marking' = IF new THEN marking \cup {m} ELSE marking
    BY <1>2 DEF HearMessage, Open
  <1>6. /\ seen' = IF new /\ b.at = "reading" THEN seen \cup {m} ELSE seen
        /\ excused' = IF new /\ b.at # "reading" THEN excused \cup 1..m ELSE excused
    BY <1>2 DEF HearMessage, Open
  <1>7. 1..m \subseteq Messages /\ m \in 1..m
    BY ChatNumbers
  <1>8. /\ seen \subseteq seen' /\ seen' \subseteq Messages /\ excused \subseteq excused' /\ excused' \subseteq Messages
        /\ Noticed \subseteq Noticed'
        /\ new => m \in Noticed'
    BY <1>6, <1>7 DEF ChatInv, ChatTypeOK, Noticed
  <1>9. There' = There /\ There \subseteq Messages /\ \A k \in Messages : Arrived(k)' <=> Arrived(k)
    BY <1>1 DEF There, Arrived
  <1>10. SoundTab(b, old) /\ FeedSound(t)
    BY TabOf DEF ChatInv
  <1>11. shown \subseteq Noticed'
    BY <1>8, <1>10 DEF SoundTab
  <1>12. Told(m) /\ Arrived(m)
    <2>1. Told(m)
      BY <1>2, <1>10 DEF FeedSound
    <2>. QED
      BY <2>1 DEF Told, Arrived
  <1>13. SoundTab(n, q)'
    <2>1. ASSUME b.at \in {"answered", "reading"}, NEW k \in Messages, posted[k] = "announced",
                 k \notin b.page \cup Noticed'
          PROVE  \E i \in DOMAIN q : q[i].kind = "created" /\ q[i].id = k
      <3>1. k \notin b.page \cup Noticed
        BY <1>8, <2>1
      <3>. PICK i \in DOMAIN old : old[i].kind = "created" /\ old[i].id = k
        BY <1>10, <2>1, <3>1 DEF SoundTab
      <3>2. i # 1
        <4>1. ASSUME i = 1 PROVE FALSE
          <5>1. e.kind = "created" /\ k = m
            BY <4>1
          <5>2. ~new
            BY <1>8, <2>1, <5>1
          <5>3. m \in b.shown
            BY <2>1, <5>1, <5>2
          <5>. QED
            BY <1>10, <3>1, <5>1, <5>3 DEF SoundTab
        <4>. QED
          BY <4>1
      <3>3. i - 1 \in DOMAIN q /\ q[i - 1] = old[i]
        BY <1>2, <3>2
      <3>. QED
        BY <3>3
    <2>2. \A p \in b.page : Arrived(p)' /\ \A k \in There' : k <= p => k \in b.page \cup Noticed'
      <3>1. b.page \subseteq Messages
        BY DEF ChatTabs
      <3>. QED
        BY <1>8, <1>9, <1>10, <3>1 DEF SoundTab
    <2>3. b.at # "answered" => b.page = {}
      BY <1>10 DEF SoundTab
    <2>. QED
      BY <1>1, <1>3, <1>11, <2>1, <2>2, <2>3 DEF SoundTab
  <1>14. FeedSound(t)'
    <2>1. feed'[t] = q
      BY <1>4 DEF ChatInv, ChatTypeOK
    <2>2. ASSUME NEW i \in DOMAIN q
          PROVE  /\ Told(q[i].id)'
                 /\ \A j \in 1..(i - 1) : q[i].kind = "created" /\ q[i].id <= q[j].id => q[i].id \in excused'
      <3>1. i + 1 \in DOMAIN old /\ q[i] = old[i + 1]
        BY <1>2
      <3>2. \A j \in 1..(i - 1) : j + 1 \in 1..((i + 1) - 1) /\ q[j] = old[j + 1]
        BY <1>2
      <3>3. Told(old[i + 1].id)' <=> Told(old[i + 1].id)
        BY <1>1 DEF Told
      <3>4. Told(q[i].id)'
        BY <1>10, <3>1, <3>3 DEF FeedSound
      <3>5. ASSUME NEW j \in 1..(i - 1), q[i].kind = "created", q[i].id <= q[j].id PROVE q[i].id \in excused'
        <4>1. old[i + 1].kind = "created" /\ old[i + 1].id <= old[j + 1].id /\ j + 1 \in 1..((i + 1) - 1)
          BY <3>1, <3>2, <3>5
        <4>2. old[i + 1].id \in excused
          BY <1>10, <3>1, <4>1 DEF FeedSound
        <4>. QED
          BY <1>8, <3>1, <4>2
      <3>. QED
        BY <3>4, <3>5
    <2>. QED
      BY <2>1, <2>2 DEF FeedSound
  <1>15. MarksSound'
    <2>. SUFFICES ASSUME NEW w \in Messages, w \in marking' \/ w = watermark
                  PROVE  Arrived(w) /\ \A k \in There : k <= w => k \in Noticed'
      BY <1>1, <1>9 DEF MarksSound
    <2>1. CASE w \in marking \/ w = watermark
      BY <1>8, <2>1 DEF ChatInv, MarksSound
    <2>2. CASE new /\ w = m
      <3>1. ASSUME NEW k \in There, k <= m PROVE k \in Noticed'
        <4>1. CASE b.at # "reading"
          <5>1. k \in 1..m
            BY <1>9, <3>1, ChatNumbers
          <5>. QED
            BY <1>6, <2>2, <4>1, <5>1 DEF Noticed
        <4>2. CASE b.at = "reading"
          <5>1. k \in Messages /\ (k = m \/ k < m)
            BY <1>9, <3>1, ChatNumbers
          <5>2. CASE k = m
            BY <1>8, <2>2, <5>2
          <5>3. CASE k < m /\ posted[k] = "committed"
            <6>1. k \in excused
              BY <1>12, <5>1, <5>3 DEF ChatInv, Overtaken
            <6>. QED
              BY <1>8, <6>1 DEF Noticed
          <5>4. CASE k < m /\ posted[k] = "announced"
            <6>1. b.page = {}
              BY <1>10, <4>2 DEF SoundTab
            <6>2. CASE k \in Noticed
              BY <1>8, <6>2
            <6>3. CASE k \notin Noticed
              <7>. PICK i \in DOMAIN old : old[i].kind = "created" /\ old[i].id = k
                BY <1>10, <4>2, <5>1, <5>4, <6>1, <6>3 DEF SoundTab
              <7>1. i # 1 /\ k <= old[1].id
                <8>1. old[1].id = m /\ k \in Nat /\ m \in Nat
                  BY <5>1, ChatNumbers
                <8>. QED
                  BY <5>4, <8>1
              <7>2. 1 \in 1..(i - 1)
                BY <1>2, <7>1
              <7>3. k \in excused
                BY <1>10, <7>1, <7>2 DEF FeedSound
              <7>. QED
                BY <1>8, <7>3 DEF Noticed
            <6>. QED
              BY <6>2, <6>3
          <5>. QED
            BY <3>1, <5>1, <5>2, <5>3, <5>4 DEF There
        <4>. QED
          BY <4>1, <4>2
      <3>. QED
        BY <1>12, <2>2, <3>1
    <2>. QED
      BY <1>5, <2>1, <2>2
  <1>16. marking' \subseteq Messages
    BY <1>5 DEF ChatInv, ChatTypeOK
  <1>. QED
    BY <1>1, <1>2, <1>3, <1>4, <1>8, <1>13, <1>14, <1>15, <1>16, TabHears

LEMMA ChatSteps == ChatInv /\ [ChatNext]_chat => ChatInv'
  <1>. SUFFICES ASSUME ChatInv, [ChatNext]_chat PROVE ChatInv'
    OBVIOUS
  <1>1. CASE UNCHANGED chat
    BY <1>1 DEF chat, ChatInv, ChatTypeOK, Overtaken, MarksSound, FeedSound, TabSound, SoundTab, Noticed, There,
                Arrived, Told
  <1>2. CASE ChatNext
    BY <1>2, StampSteps, CommitSteps, AnnounceSteps, DeleteMessageSteps, MarkReadSteps, SelectSteps, FindAllSteps,
       LandSteps, LeaveChatSteps, HearMessageSteps, DisconnectSteps, ReconnectSteps DEF ChatNext
  <1>. QED
    BY <1>1, <1>2

\* A message counts as read only when some tab has shown it, or it was lost
\* sight of in one of the four ways that excused records (markRead in
\* chat.service.ts, chat.tsx): for any number of tabs and messages, however
\* fetches, live messages and marks interleave.
THEOREM ReadWasShownAlways == ChatSpec => []ReadWasShown
  <1>1. ChatInv => ReadWasShown
    <2>. SUFFICES ASSUME ChatInv, NEW m \in There, m <= watermark PROVE m \in seen \cup excused
      BY DEF ReadWasShown
    <2>1. m \in Messages /\ watermark \in Messages
      BY ChatNumbers, LastNumber DEF There, ChatInv, ChatTypeOK, Messages
    <2>. QED
      BY <2>1 DEF ChatInv, MarksSound, Noticed
  <1>. QED
    BY <1>1, ChatInitHolds, ChatSteps, PTL DEF ChatSpec

-----------------------------------------------------------------------------
(* The bell: what a list may say of the table, given what is on its way.    *)
(* The operators take the table s, what is not announced U, the changes not *)
(* announced C and the events p of one tab.                                 *)

NoteList == [Notes -> [unread: Nat, read: Nat]]
Notices == [op: {"new", "read", "read-all", "deleted", "deleted-all"},
            id: Notes \cup {0}, cover: SUBSET Notes, late: BOOLEAN]
Once == [unread |-> 1, read |-> 0]
Seen == [unread |-> 0, read |-> 1]

\* What an event says of a notification, and that it is so.
Reads(e, n) == (e.op = "read" /\ e.id = n) \/ (e.op = "read-all" /\ n \in e.cover)
Deletes(e, n) == (e.op = "deleted" /\ e.id = n) \/ (e.op = "deleted-all" /\ n \in e.cover)
TrueOf(s, e) == \A n \in Notes : /\ Reads(e, n) => s[n] \in {"read", "gone"}
                                 /\ Deletes(e, n) => s[n] = "gone"

\* An event after the i-th of p will say it.
WillRead(C, p, i, n) == (\E e \in C : Reads(e, n)) \/ \E j \in DOMAIN p : j > i /\ Reads(p[j], n)
WillDelete(C, p, i, n) == (\E e \in C : Deletes(e, n)) \/ \E j \in DOMAIN p : j > i /\ Deletes(p[j], n)

\* A row of a list is right, or will be put right by an event after the i-th.
Right(s, C, p, i, n, row) ==
    /\ row \in {Unlisted, Once, Seen}
    /\ row # Unlisted => s[n] # "none"
    /\ row # Unlisted /\ s[n] = "gone" => WillDelete(C, p, i, n)
    /\ row = Once /\ s[n] = "read" => WillRead(C, p, i, n)
    /\ row = Seen => s[n] # "unread"

\* The news of a notification are still to come.
News(e, n) == e.op = "new" /\ e.id = n
Coming(U, p, n) == n \in U \/ \E i \in DOMAIN p : News(p[i], n)

\* A list that the events on their way will make equal to the table.
Faithful(s, U, C, p, L) == \A n \in Notes :
    /\ Right(s, C, p, 0, n, L[n])
    /\ Coming(U, p, n) => L[n] = Unlisted
    /\ L[n] = Unlisted => Coming(U, p, n) \/ s[n] \in {"none", "gone"}

\* The events on their way are true, and news come once.
PostSound(s, U, C, p) == \A i \in DOMAIN p :
    /\ TrueOf(s, p[i])
    /\ p[i].late => p[i].op = "new"
    /\ p[i].op = "new" =>
          /\ p[i].id \in Notes \ U /\ s[p[i].id] # "none"
          /\ \A j \in DOMAIN p : News(p[j], p[i].id) => j = i
          /\ ~p[i].late => Right(s, C, p, i, p[i].id, Once)

\* The table moves on, each change with an announcement to come.
Moves(s, U, C, s2, U2, C2) ==
    /\ C \subseteq C2 /\ U \subseteq U2
    /\ \A n \in Notes : n \in U2 \ U => s[n] = "none"
    /\ \A n \in Notes :
          \/ s2[n] = s[n]
          \/ s[n] = "none" /\ s2[n] = "unread" /\ n \in U2
          \/ s[n] \in {"unread", "read"} /\ s2[n] = "read" /\ \E e \in C2 : Reads(e, n)
          \/ s[n] # "none" /\ s2[n] = "gone" /\ \E e \in C2 : Deletes(e, n)

\* What is said of the table stays true as it moves on.
LEMMA MovesKeepTrue ==
    ASSUME NEW s, NEW U, NEW C, NEW s2, NEW U2, NEW C2, Moves(s, U, C, s2, U2, C2), NEW e, TrueOf(s, e)
    PROVE  TrueOf(s2, e)
BY DEF Moves, TrueOf

\* So does a row.
LEMMA MovesKeepRight ==
    ASSUME NEW s, NEW U, NEW C, NEW s2, NEW U2, NEW C2, Moves(s, U, C, s2, U2, C2),
           NEW p, NEW i, NEW n \in Notes, NEW row, Right(s, C, p, i, n, row)
    PROVE  Right(s2, C2, p, i, n, row)
<1>1. row # Unlisted => s2[n] # "none"
  BY DEF Moves, Right
<1>2. row = Seen => s2[n] # "unread"
  <2>1. Seen # Unlisted
    BY DEF Seen, Unlisted
  <2>2. QED BY <2>1 DEF Moves, Right
<1>3. ASSUME row # Unlisted, s2[n] = "gone" PROVE WillDelete(C2, p, i, n)
  BY <1>3 DEF Moves, Right, WillDelete
<1>4. ASSUME row = Once, s2[n] = "read" PROVE WillRead(C2, p, i, n)
  <2>1. Once # Unlisted
    BY DEF Once, Unlisted
  <2>2. QED BY <1>4, <2>1 DEF Moves, Right, WillRead
<1>5. QED BY <1>1, <1>2, <1>3, <1>4 DEF Right

LEMMA MovesKeepPost ==
    ASSUME NEW s, NEW U, NEW C, NEW s2, NEW U2, NEW C2, Moves(s, U, C, s2, U2, C2),
           NEW p, PostSound(s, U, C, p)
    PROVE  PostSound(s2, U2, C2, p)
<1> SUFFICES ASSUME NEW i \in DOMAIN p
             PROVE  /\ TrueOf(s2, p[i])
                    /\ p[i].late => p[i].op = "new"
                    /\ p[i].op = "new" =>
                          /\ p[i].id \in Notes \ U2 /\ s2[p[i].id] # "none"
                          /\ \A j \in DOMAIN p : News(p[j], p[i].id) => j = i
                          /\ ~p[i].late => Right(s2, C2, p, i, p[i].id, Once)
  BY DEF PostSound
<1>1. TrueOf(s2, p[i])
  BY MovesKeepTrue DEF PostSound
<1>2. ASSUME p[i].op = "new" PROVE p[i].id \in Notes \ U2 /\ s2[p[i].id] # "none"
  BY <1>2 DEF PostSound, Moves
<1>3. ASSUME p[i].op = "new", ~p[i].late PROVE Right(s2, C2, p, i, p[i].id, Once)
  <2>1. p[i].id \in Notes /\ Right(s, C, p, i, p[i].id, Once)
    BY <1>3 DEF PostSound
  <2>2. QED BY <2>1, MovesKeepRight
<1>4. QED BY <1>1, <1>2, <1>3 DEF PostSound

LEMMA MovesKeepLists ==
    ASSUME NEW s, NEW U, NEW C, NEW s2, NEW U2, NEW C2, Moves(s, U, C, s2, U2, C2),
           NEW p, PostSound(s, U, C, p), NEW L, Faithful(s, U, C, p, L)
    PROVE  Faithful(s2, U2, C2, p, L)
<1> SUFFICES ASSUME NEW n \in Notes
             PROVE  /\ Right(s2, C2, p, 0, n, L[n])
                    /\ Coming(U2, p, n) => L[n] = Unlisted
                    /\ L[n] = Unlisted => Coming(U2, p, n) \/ s2[n] \in {"none", "gone"}
  BY DEF Faithful
<1>1. Right(s2, C2, p, 0, n, L[n])
  BY MovesKeepRight DEF Faithful
<1>2. Coming(U2, p, n) => L[n] = Unlisted
  BY DEF Coming, Faithful, Right, Moves
<1>3. L[n] = Unlisted => Coming(U2, p, n) \/ s2[n] \in {"none", "gone"}
  BY DEF Coming, Faithful, Moves
<1>4. QED BY <1>1, <1>2, <1>3

-----------------------------------------------------------------------------
(* An event is put behind the others.                                       *)

\* Nothing that was to come is less so, if what is no longer in C is in p.
LEMMA AppendKeepsRight ==
    ASSUME NEW s, NEW C, NEW C2, NEW p \in Seq(Notices), NEW e \in Notices, NEW i \in Nat, i <= Len(p),
           \A a \in C \ C2 : \A n \in Notes : (Reads(a, n) => Reads(e, n)) /\ (Deletes(a, n) => Deletes(e, n)),
           NEW n \in Notes, NEW row, Right(s, C, p, i, n, row)
    PROVE  Right(s, C2, Append(p, e), i, n, row)
<1> DEFINE q == Append(p, e)
<1>1. /\ Len(q) = Len(p) + 1 /\ q[Len(p) + 1] = e /\ DOMAIN q = 1..(Len(p) + 1) /\ DOMAIN p = 1..Len(p)
      /\ \A j \in DOMAIN p : j \in DOMAIN q /\ q[j] = p[j]
  BY AppendProperties
<1> HIDE DEF q
<1>2. Len(p) + 1 \in DOMAIN q /\ Len(p) + 1 > i
  BY <1>1
<1>3. WillDelete(C, p, i, n) => WillDelete(C2, q, i, n)
  BY <1>1, <1>2 DEF WillDelete
<1>4. WillRead(C, p, i, n) => WillRead(C2, q, i, n)
  BY <1>1, <1>2 DEF WillRead
<1>5. QED BY <1>3, <1>4 DEF Right, q

\* A change is announced.
LEMMA AppendChange ==
    ASSUME NEW s, NEW U, NEW C, NEW C2, NEW p \in Seq(Notices), NEW e \in Notices,
           \A a \in C \ C2 : \A n \in Notes : (Reads(a, n) => Reads(e, n)) /\ (Deletes(a, n) => Deletes(e, n)),
           e.op # "new", ~e.late, TrueOf(s, e), PostSound(s, U, C, p)
    PROVE  /\ PostSound(s, U, C2, Append(p, e))
           /\ \A L : Faithful(s, U, C, p, L) => Faithful(s, U, C2, Append(p, e), L)
<1> DEFINE q == Append(p, e)
<1>1. /\ Len(p) \in Nat /\ q[Len(p) + 1] = e /\ DOMAIN q = 1..(Len(p) + 1) /\ DOMAIN p = 1..Len(p)
      /\ \A j \in DOMAIN p : j \in DOMAIN q /\ q[j] = p[j]
  BY AppendProperties
<1>2. \A i \in DOMAIN q : i \in DOMAIN p \/ q[i] = e
  BY <1>1
<1>3. \A i \in DOMAIN p : i \in Nat /\ i <= Len(p)
  BY <1>1
<1>4. \A i \in Nat, n \in Notes : \A row : i <= Len(p) /\ Right(s, C, p, i, n, row) => Right(s, C2, q, i, n, row)
  BY AppendKeepsRight
<1>5. \A n : Coming(U, p, n) <=> Coming(U, q, n)
  BY <1>1, <1>2 DEF Coming, News
<1> HIDE DEF q
<1>6. ASSUME NEW L, Faithful(s, U, C, p, L) PROVE Faithful(s, U, C2, q, L)
  <2> SUFFICES ASSUME NEW n \in Notes
               PROVE  /\ Right(s, C2, q, 0, n, L[n])
                      /\ Coming(U, q, n) => L[n] = Unlisted
                      /\ L[n] = Unlisted => Coming(U, q, n) \/ s[n] \in {"none", "gone"}
    BY DEF Faithful
  <2>1. Right(s, C, p, 0, n, L[n]) /\ 0 \in Nat /\ 0 <= Len(p)
    BY <1>1, <1>6 DEF Faithful
  <2>2. Right(s, C2, q, 0, n, L[n])
    BY <1>4, <2>1
  <2>3. QED BY <1>5, <1>6, <2>2 DEF Faithful
<1>7. PostSound(s, U, C2, q)
  <2> SUFFICES ASSUME NEW i \in DOMAIN q
               PROVE  /\ TrueOf(s, q[i])
                      /\ q[i].late => q[i].op = "new"
                      /\ q[i].op = "new" =>
                            /\ q[i].id \in Notes \ U /\ s[q[i].id] # "none"
                            /\ \A j \in DOMAIN q : News(q[j], q[i].id) => j = i
                            /\ ~q[i].late => Right(s, C2, q, i, q[i].id, Once)
    BY DEF PostSound
  <2>1. CASE q[i] = e
    BY <2>1
  <2>2. CASE q[i] # e
    <3>1. i \in DOMAIN p /\ q[i] = p[i]
      BY <1>1, <1>2, <2>2
    <3>2. TrueOf(s, q[i]) /\ (q[i].late => q[i].op = "new")
      BY <3>1 DEF PostSound
    <3>3. ASSUME q[i].op = "new" PROVE q[i].id \in Notes \ U /\ s[q[i].id] # "none"
      BY <3>1, <3>3 DEF PostSound
    <3>4. ASSUME q[i].op = "new", NEW j \in DOMAIN q, News(q[j], q[i].id) PROVE j = i
      BY <1>1, <1>2, <3>1, <3>4 DEF PostSound, News
    <3>5. ASSUME q[i].op = "new", ~q[i].late PROVE Right(s, C2, q, i, q[i].id, Once)
      BY <1>3, <1>4, <3>1, <3>3, <3>5 DEF PostSound
    <3>6. QED BY <3>2, <3>3, <3>4, <3>5
  <2>3. QED BY <2>1, <2>2
<1>8. QED BY <1>6, <1>7 DEF q

\* A notification is announced.
LEMMA AppendNews ==
    ASSUME NEW s, NEW U, NEW C, NEW p \in Seq(Notices), NEW e \in Notices,
           e.op = "new", e.id \in Notes, e.id \in U, s[e.id] # "none", ~e.late => s[e.id] = "unread",
           PostSound(s, U, C, p)
    PROVE  /\ PostSound(s, U \ {e.id}, C, Append(p, e))
           /\ \A L : Faithful(s, U, C, p, L) => Faithful(s, U \ {e.id}, C, Append(p, e), L)
<1> DEFINE q == Append(p, e)
           V == U \ {e.id}
<1>1. /\ Len(p) \in Nat /\ q[Len(p) + 1] = e /\ DOMAIN q = 1..(Len(p) + 1) /\ DOMAIN p = 1..Len(p)
      /\ \A j \in DOMAIN p : j \in DOMAIN q /\ q[j] = p[j]
  BY AppendProperties
<1>2. \A i \in DOMAIN q : i \in DOMAIN p \/ i = Len(p) + 1
  BY <1>1
<1>3. \A i \in DOMAIN p : i \in Nat /\ i <= Len(p)
  BY <1>1
<1>4. \A i \in Nat, n \in Notes : \A row : i <= Len(p) /\ Right(s, C, p, i, n, row) => Right(s, C, q, i, n, row)
  BY AppendKeepsRight
<1>5. \A n : Coming(U, p, n) <=> Coming(V, q, n)
  <2>1. Len(p) + 1 \in DOMAIN q /\ q[Len(p) + 1] = e
    BY <1>1
  <2>2. QED BY <1>1, <1>2, <2>1 DEF Coming, News
<1> HIDE DEF q
<1>6. ASSUME NEW L, Faithful(s, U, C, p, L) PROVE Faithful(s, V, C, q, L)
  <2> SUFFICES ASSUME NEW n \in Notes
               PROVE  /\ Right(s, C, q, 0, n, L[n])
                      /\ Coming(V, q, n) => L[n] = Unlisted
                      /\ L[n] = Unlisted => Coming(V, q, n) \/ s[n] \in {"none", "gone"}
    BY DEF Faithful
  <2>1. Right(s, C, p, 0, n, L[n]) /\ 0 \in Nat /\ 0 <= Len(p)
    BY <1>1, <1>6 DEF Faithful
  <2>2. Right(s, C, q, 0, n, L[n])
    BY <1>4, <2>1
  <2>3. QED BY <1>5, <1>6, <2>2 DEF Faithful
<1>7. PostSound(s, V, C, q)
  <2> SUFFICES ASSUME NEW i \in DOMAIN q
               PROVE  /\ TrueOf(s, q[i])
                      /\ q[i].late => q[i].op = "new"
                      /\ q[i].op = "new" =>
                            /\ q[i].id \in Notes \ V /\ s[q[i].id] # "none"
                            /\ \A j \in DOMAIN q : News(q[j], q[i].id) => j = i
                            /\ ~q[i].late => Right(s, C, q, i, q[i].id, Once)
    BY DEF PostSound
  <2>0. \A j \in DOMAIN p : ~News(p[j], e.id)
    BY DEF PostSound, News
  <2>1. CASE i = Len(p) + 1
    <3>1. q[i] = e
      BY <1>1, <2>1
    <3>2. TrueOf(s, e)
      BY DEF TrueOf, Reads, Deletes
    <3>3. ASSUME NEW j \in DOMAIN q, News(q[j], e.id) PROVE j = i
      BY <1>1, <1>2, <2>0, <2>1, <3>3
    <3>4. ~e.late => Right(s, C, q, i, e.id, Once)
      BY DEF Right, Once, Seen
    <3>5. QED BY <3>1, <3>2, <3>3, <3>4
  <2>2. CASE i \in DOMAIN p
    <3>1. q[i] = p[i]
      BY <1>1, <2>2
    <3>2. TrueOf(s, q[i]) /\ (q[i].late => q[i].op = "new")
      BY <2>2, <3>1 DEF PostSound
    <3>3. ASSUME q[i].op = "new" PROVE q[i].id \in Notes \ V /\ s[q[i].id] # "none" /\ q[i].id # e.id
      BY <2>0, <2>2, <3>1, <3>3 DEF PostSound, News
    <3>4. ASSUME q[i].op = "new", NEW j \in DOMAIN q, News(q[j], q[i].id) PROVE j = i
      <4>1. j \in DOMAIN p
        BY <1>1, <1>2, <3>3, <3>4 DEF News
      <4>2. QED BY <1>1, <2>2, <3>1, <3>4, <4>1 DEF PostSound
    <3>5. ASSUME q[i].op = "new", ~q[i].late PROVE Right(s, C, q, i, q[i].id, Once)
      BY <1>3, <1>4, <2>2, <3>1, <3>3, <3>5 DEF PostSound
    <3>6. QED BY <3>2, <3>3, <3>4, <3>5
  <2>3. QED BY <1>2, <2>1, <2>2
<1>8. QED BY <1>6, <1>7 DEF q

-----------------------------------------------------------------------------
(* An event is applied, and is no longer to come.                           *)

\* What becomes of the rows that a right list has.
LEMMA RowsAfter ==
    ASSUME NEW e \in Notices, NEW n \in Notes
    PROVE  /\ News(e, n) => RowAfter(e, n, Unlisted) = Once
           /\ e.op = "new" /\ ~News(e, n) => \A row : RowAfter(e, n, row) = row
           /\ e.op = "read-all" \/ Reads(e, n) =>
                 /\ RowAfter(e, n, Unlisted) = Unlisted
                 /\ RowAfter(e, n, Once) = Seen /\ RowAfter(e, n, Seen) = Seen
           /\ e.op = "deleted-all" \/ Deletes(e, n) => \A row : RowAfter(e, n, row) = Unlisted
           /\ e.op \in {"read", "deleted"} /\ ~Reads(e, n) /\ ~Deletes(e, n) => \A row : RowAfter(e, n, row) = row
           /\ Once # Unlisted /\ Seen # Unlisted /\ Once # Seen
BY DEF RowAfter, News, Reads, Deletes, Unlisted, Once, Seen, Notices

\* A change that is true of the table, applied to a list that it covers.
LEMMA ApplyChange ==
    ASSUME NEW s, NEW U, NEW C, NEW p, NEW L, Faithful(s, U, C, p, L),
           NEW e \in Notices, e.op # "new", TrueOf(s, e),
           \A n \in Notes : e.op \in {"read-all", "deleted-all"} /\ L[n] # Unlisted /\ n \notin e.cover
                               => RowAfter(e, n, L[n]) = L[n]
    PROVE  /\ Faithful(s, U, C, p, ListAfter(e, L))
           /\ \A n \in Notes : /\ Reads(e, n) => ListAfter(e, L)[n] # Once
                               /\ Deletes(e, n) => ListAfter(e, L)[n] = Unlisted
<1> DEFINE M == ListAfter(e, L)
<1>1. \A n \in Notes : M[n] = RowAfter(e, n, L[n])
  BY DEF ListAfter
<1> HIDE DEF M
<1> SUFFICES ASSUME NEW n \in Notes
             PROVE  /\ Right(s, C, p, 0, n, M[n])
                    /\ Coming(U, p, n) => M[n] = Unlisted
                    /\ M[n] = Unlisted => Coming(U, p, n) \/ s[n] \in {"none", "gone"}
                    /\ Reads(e, n) => M[n] # Once
                    /\ Deletes(e, n) => M[n] = Unlisted
  BY DEF Faithful, M
<1>2. /\ M[n] = RowAfter(e, n, L[n])
      /\ Right(s, C, p, 0, n, L[n]) /\ L[n] \in {Unlisted, Once, Seen}
      /\ Coming(U, p, n) => L[n] = Unlisted
      /\ L[n] = Unlisted => Coming(U, p, n) \/ s[n] \in {"none", "gone"}
  BY <1>1 DEF Faithful, Right
<1>3. /\ Reads(e, n) => s[n] \in {"read", "gone"}
      /\ Deletes(e, n) => s[n] = "gone"
  BY DEF TrueOf
<1>4. e.op \in {"read", "deleted", "read-all", "deleted-all"}
  BY DEF Notices
<1>5. ~(Reads(e, n) /\ Deletes(e, n))
  BY DEF Reads, Deletes
<1>6. CASE M[n] = L[n]
  <2>1. Reads(e, n) => M[n] # Once
    BY <1>2, <1>6, RowsAfter
  <2>2. Deletes(e, n) => M[n] = Unlisted
    BY <1>2, RowsAfter
  <2>3. QED BY <1>2, <1>6, <2>1, <2>2
<1>7. CASE M[n] # L[n]
  <2>1. Reads(e, n) \/ Deletes(e, n)
    <3>1. CASE e.op \in {"read", "deleted"}
      BY <1>2, <1>7, <3>1, RowsAfter
    <3>2. CASE e.op \in {"read-all", "deleted-all"}
      <4>1. L[n] # Unlisted
        BY <1>2, <1>7, <3>2, RowsAfter
      <4>2. n \in e.cover
        BY <1>2, <1>7, <3>2, <4>1
      <4>3. QED BY <3>2, <4>2 DEF Reads, Deletes
    <3>3. QED BY <1>4, <3>1, <3>2
  <2>2. CASE Reads(e, n)
    <3>1. L[n] = Once /\ M[n] = Seen
      BY <1>2, <1>7, <2>2, RowsAfter
    <3>2. Right(s, C, p, 0, n, Seen)
      BY <1>2, <1>3, <2>2, <3>1, RowsAfter DEF Right
    <3>3. QED BY <1>2, <1>5, <2>2, <3>1, <3>2, RowsAfter
  <2>3. CASE Deletes(e, n)
    <3>1. M[n] = Unlisted
      BY <1>2, <2>3, RowsAfter
    <3>2. Right(s, C, p, 0, n, Unlisted)
      BY RowsAfter DEF Right
    <3>3. QED BY <1>3, <1>5, <2>3, <3>1, <3>2, RowsAfter
  <2>4. QED BY <2>1, <2>2, <2>3
<1>8. QED BY <1>6, <1>7

\* The events after the first one.
LEMMA TailOf ==
    ASSUME NEW p \in Seq(Notices), p # <<>>
    PROVE  /\ Tail(p) \in Seq(Notices) /\ Head(p) \in Notices /\ Head(p) = p[1] /\ 1 \in DOMAIN p
           /\ \A j \in DOMAIN Tail(p) : j \in Nat /\ j > 0 /\ j + 1 \in DOMAIN p /\ Tail(p)[j] = p[j + 1]
           /\ \A j \in DOMAIN p : j \in Nat /\ (j = 1 \/ (j - 1 \in DOMAIN Tail(p) /\ p[j] = Tail(p)[j - 1]))
<1>1. /\ Tail(p) \in Seq(Notices) /\ Head(p) \in Notices /\ Head(p) = p[1]
      /\ Len(Tail(p)) = Len(p) - 1 /\ Len(p) \in Nat \ {0}
      /\ \A j \in 1..Len(Tail(p)) : Tail(p)[j] = p[j + 1]
  BY HeadTailProperties, EmptySeq
<1>2. DOMAIN p = 1..Len(p) /\ DOMAIN Tail(p) = 1..Len(Tail(p))
  BY <1>1
<1>3. QED BY <1>1, <1>2

\* What was still to come after a later event still is; and after the first
\* one, what that one does not say.
LEMMA TailKeepsRight ==
    ASSUME NEW s, NEW C, NEW p \in Seq(Notices), p # <<>>, NEW n \in Notes, NEW row
    PROVE  /\ \A i \in DOMAIN p : Right(s, C, p, i, n, row) => Right(s, C, Tail(p), i - 1, n, row)
           /\ /\ Right(s, C, p, 0, n, row)
              /\ Reads(Head(p), n) => row # Once
              /\ Deletes(Head(p), n) => row = Unlisted
              => Right(s, C, Tail(p), 0, n, row)
<1> DEFINE q == Tail(p)
<1>1. /\ Head(p) = p[1]
      /\ \A j \in DOMAIN p : j \in Nat /\ (j = 1 \/ (j - 1 \in DOMAIN q /\ p[j] = q[j - 1]))
  BY TailOf
<1> HIDE DEF q
<1>2. ASSUME NEW i \in DOMAIN p, Right(s, C, p, i, n, row) PROVE Right(s, C, q, i - 1, n, row)
  <2>1. \A j \in DOMAIN p : j > i => j - 1 \in DOMAIN q /\ p[j] = q[j - 1] /\ j - 1 > i - 1
    BY <1>1
  <2>2. WillDelete(C, p, i, n) => WillDelete(C, q, i - 1, n)
    BY <2>1 DEF WillDelete
  <2>3. WillRead(C, p, i, n) => WillRead(C, q, i - 1, n)
    BY <2>1 DEF WillRead
  <2>4. QED BY <1>2, <2>2, <2>3 DEF Right
<1>3. ASSUME Right(s, C, p, 0, n, row), Reads(Head(p), n) => row # Once, Deletes(Head(p), n) => row = Unlisted
      PROVE  Right(s, C, q, 0, n, row)
  <2>1. \A j \in DOMAIN p : p[j] = Head(p) \/ (j - 1 \in DOMAIN q /\ p[j] = q[j - 1])
    BY <1>1
  <2>2. \A j \in DOMAIN q : j > 0
    BY TailOf DEF q
  <2>3. row # Unlisted /\ WillDelete(C, p, 0, n) => WillDelete(C, q, 0, n)
    BY <1>3, <2>1, <2>2 DEF WillDelete
  <2>4. row = Once /\ WillRead(C, p, 0, n) => WillRead(C, q, 0, n)
    BY <1>3, <2>1, <2>2 DEF WillRead
  <2>5. QED BY <1>3, <2>3, <2>4 DEF Right
<1>4. QED BY <1>2, <1>3 DEF q

LEMMA TailKeepsPost ==
    ASSUME NEW s, NEW U, NEW C, NEW p \in Seq(Notices), p # <<>>, PostSound(s, U, C, p)
    PROVE  PostSound(s, U, C, Tail(p))
<1> DEFINE q == Tail(p)
<1>1. \A j \in DOMAIN q : j \in Nat /\ j > 0 /\ j + 1 \in DOMAIN p /\ q[j] = p[j + 1]
  BY TailOf
<1>2. \A j \in DOMAIN p, n \in Notes : \A row : Right(s, C, p, j, n, row) => Right(s, C, q, j - 1, n, row)
  BY TailKeepsRight
<1> HIDE DEF q
<1>3. ASSUME NEW i \in DOMAIN q
      PROVE  /\ TrueOf(s, q[i])
             /\ q[i].late => q[i].op = "new"
             /\ q[i].op = "new" =>
                   /\ q[i].id \in Notes \ U /\ s[q[i].id] # "none"
                   /\ \A j \in DOMAIN q : News(q[j], q[i].id) => j = i
                   /\ ~q[i].late => Right(s, C, q, i, q[i].id, Once)
  <2>1. PICK k \in DOMAIN p : k = i + 1 /\ q[i] = p[k] /\ i \in Nat
    BY <1>1
  <2>2. /\ TrueOf(s, p[k])
        /\ p[k].late => p[k].op = "new"
        /\ p[k].op = "new" =>
              /\ p[k].id \in Notes \ U /\ s[p[k].id] # "none"
              /\ \A j \in DOMAIN p : News(p[j], p[k].id) => j = k
              /\ ~p[k].late => Right(s, C, p, k, p[k].id, Once)
    BY DEF PostSound
  <2>3. ASSUME p[k].op = "new", NEW j \in DOMAIN q, News(q[j], p[k].id) PROVE j = i
    BY <1>1, <2>1, <2>2, <2>3
  <2>4. ASSUME p[k].op = "new", ~p[k].late PROVE Right(s, C, q, i, p[k].id, Once)
    <3>1. Right(s, C, q, k - 1, p[k].id, Once)
      BY <1>2, <2>2, <2>4
    <3>2. k - 1 = i
      BY <2>1
    <3>3. QED BY <3>1, <3>2
  <2>5. QED BY <2>1, <2>2, <2>3, <2>4
<1>4. QED BY <1>3 DEF PostSound, q

\* A change that a list already shows is no longer to come.
LEMMA TailKeepsList ==
    ASSUME NEW s, NEW U, NEW C, NEW p \in Seq(Notices), p # <<>>, NEW L, Faithful(s, U, C, p, L),
           Head(p).op # "new",
           \A n \in Notes : /\ Reads(Head(p), n) => L[n] # Once
                            /\ Deletes(Head(p), n) => L[n] = Unlisted
    PROVE  Faithful(s, U, C, Tail(p), L)
<1>1. \A n \in Notes : Coming(U, p, n) <=> Coming(U, Tail(p), n)
  <2>1. /\ Head(p) = p[1]
        /\ \A j \in DOMAIN Tail(p) : j + 1 \in DOMAIN p /\ Tail(p)[j] = p[j + 1]
        /\ \A j \in DOMAIN p : j = 1 \/ (j - 1 \in DOMAIN Tail(p) /\ p[j] = Tail(p)[j - 1])
    BY TailOf
  <2>2. ASSUME NEW n \in Notes, NEW i \in DOMAIN p, News(p[i], n) PROVE \E j \in DOMAIN Tail(p) : News(Tail(p)[j], n)
    <3>1. i # 1
      BY <2>1, <2>2 DEF News
    <3>2. QED BY <2>1, <2>2, <3>1
  <2>3. ASSUME NEW n \in Notes, NEW j \in DOMAIN Tail(p), News(Tail(p)[j], n) PROVE \E i \in DOMAIN p : News(p[i], n)
    BY <2>1, <2>3
  <2>4. QED BY <2>2, <2>3 DEF Coming
<1>2. \A n \in Notes : Right(s, C, Tail(p), 0, n, L[n])
  BY TailKeepsRight DEF Faithful
<1>3. QED BY <1>1, <1>2 DEF Faithful

\* News that are not late are put in front of a list that does not have them.
LEMMA ApplyNews ==
    ASSUME NEW s, NEW U, NEW C, NEW p \in Seq(Notices), p # <<>>, PostSound(s, U, C, p),
           NEW L, Faithful(s, U, C, p, L), Head(p).op = "new", ~Head(p).late
    PROVE  Faithful(s, U, C, Tail(p), ListAfter(Head(p), L))
<1> DEFINE e == Head(p)
           q == Tail(p)
           M == ListAfter(e, L)
<1>1. /\ e \in Notices /\ e = p[1] /\ 1 \in DOMAIN p
      /\ \A j \in DOMAIN q : j \in Nat /\ j > 0 /\ j + 1 \in DOMAIN p /\ q[j] = p[j + 1]
      /\ \A j \in DOMAIN p : j \in Nat /\ (j = 1 \/ (j - 1 \in DOMAIN q /\ p[j] = q[j - 1]))
  BY TailOf
<1>2. \A n \in Notes : M[n] = RowAfter(e, n, L[n])
  BY DEF ListAfter
<1>3. /\ e.id \in Notes \ U /\ s[e.id] # "none"
      /\ \A j \in DOMAIN p : News(p[j], e.id) => j = 1
      /\ Right(s, C, p, 1, e.id, Once)
  BY <1>1 DEF PostSound
<1>4. e.op = "new"
  OBVIOUS
<1>5. \A n \in Notes : Right(s, C, p, 0, n, L[n]) /\ ~Reads(e, n) /\ ~Deletes(e, n) => Right(s, C, q, 0, n, L[n])
  BY TailKeepsRight
<1>6. Right(s, C, q, 0, e.id, Once)
  <2>1. Right(s, C, q, 1 - 1, e.id, Once)
    BY <1>1, <1>3, TailKeepsRight
  <2>2. QED BY <2>1
<1> HIDE DEF e, q, M
<1> SUFFICES ASSUME NEW n \in Notes
             PROVE  /\ Right(s, C, q, 0, n, M[n])
                    /\ Coming(U, q, n) => M[n] = Unlisted
                    /\ M[n] = Unlisted => Coming(U, q, n) \/ s[n] \in {"none", "gone"}
  BY DEF Faithful, e, q, M
<1>7. CASE n = e.id
  <2>1. Coming(U, p, n) /\ News(e, n)
    BY <1>1, <1>4, <1>7 DEF Coming, News
  <2>2. M[n] = Once
    BY <1>1, <1>2, <2>1, RowsAfter DEF Faithful
  <2>3. ~Coming(U, q, n)
    BY <1>1, <1>3, <1>7 DEF Coming
  <2>4. QED BY <1>1, <1>6, <1>7, <2>2, <2>3, RowsAfter
<1>8. CASE n # e.id
  <2>1. M[n] = L[n]
    BY <1>1, <1>2, <1>4, <1>8, RowsAfter DEF News
  <2>2. Coming(U, p, n) <=> Coming(U, q, n)
    BY <1>1, <1>8 DEF Coming, News
  <2>3. Right(s, C, q, 0, n, L[n])
    BY <1>4, <1>5 DEF Faithful, Reads, Deletes
  <2>4. QED BY <2>1, <2>2, <2>3 DEF Faithful
<1>9. QED BY <1>7, <1>8

-----------------------------------------------------------------------------
(* The invariant of the bells.                                              *)

BellRecords == [online: BOOLEAN, list: NoteList,
                fetches: [Fetches -> [at: {"none", "sent", "read"}, page: NoteList, clean: BOOLEAN]]]
Asks == [op: {"none", "read", "read-all", "deleted", "deleted-all"}, id: Notes \cup {0},
         at: {"none", "sent", "found", "changed", "answered"}, cover: SUBSET Notes, late: {FALSE}]

\* The changes that no tab has been told of.
Pending == {ask[u] : u \in {v \in Bells : ask[v].at = "changed"}}

\* A request is about one notification or all, and what it has changed is so.
AskSound(s, a) ==
    /\ a.at # "none" => a.op # "none"
    /\ a.at # "none" /\ a.op \in {"read", "deleted"} => a.id \in Notes
    /\ a.at # "none" /\ a.op \in {"read-all", "deleted-all"} => a.id = 0
    /\ a.at = "found" => a.op \in {"read", "deleted"} /\ s[a.id] # "none"
    /\ a.at \in {"changed", "answered"} => TrueOf(s, a)

\* The pages that are clean are right or will be, and so is the list of a
\* connected bell that fetches nothing and is not in doubt.
BellSound(t, s, U, C, p, b, D) ==
    /\ PostSound(s, U, C, p)
    /\ ~b.online => p = <<>>
    /\ \A k \in Fetches : b.fetches[k].clean =>
          b.online /\ b.fetches[k].at = "read" /\ Faithful(s, U, C, p, b.fetches[k].page)
    /\ b.online /\ (\A k \in Fetches : b.fetches[k].at = "none") /\ t \notin D => Faithful(s, U, C, p, b.list)

BellTypes ==
    /\ stored \in [Notes -> {"none", "unread", "read", "gone"}] /\ untold \subseteq Created
    /\ post \in [Bells -> Seq(Notices)] /\ bell \in [Bells -> BellRecords]
    /\ ask \in [Bells -> Asks] /\ doubtful \subseteq Bells

BellInv ==
    /\ BellTypes
    /\ \A t \in Bells : AskSound(stored, ask[t])
    /\ \A t \in Bells : BellSound(t, stored, untold, Pending, post[t], bell[t], doubtful)

LEMMA BellInitial == BellsInit => BellInv
<1> SUFFICES ASSUME BellsInit PROVE BellInv
  OBVIOUS
<1>1. NoFetch.page \in NoteList /\ NoFetch.page = [n \in Notes |-> Unlisted]
  BY DEF NoFetch, NoteList, Unlisted
<1>2. /\ NoFetch.at = "none" /\ NoFetch.clean = FALSE /\ SentFetch.at = "sent" /\ SentFetch.clean = FALSE
      /\ NoFetch \in [at: {"none", "sent", "read"}, page: NoteList, clean: BOOLEAN]
      /\ SentFetch \in [at: {"none", "sent", "read"}, page: NoteList, clean: BOOLEAN]
  BY <1>1 DEF NoFetch, SentFetch
<1>3. NoAsk \in Asks /\ NoAsk.at = "none"
  BY DEF NoAsk, Asks
<1>4. \A t \in Bells : /\ bell[t].online = FALSE /\ bell[t].list = NoFetch.page
                       /\ bell[t].fetches = [k \in Fetches |-> IF k = 1 THEN SentFetch ELSE NoFetch]
                       /\ post[t] = <<>> /\ ask[t] = NoAsk
  BY DEF BellsInit
<1>5. BellTypes
  <2>1. [k \in Fetches |-> IF k = 1 THEN SentFetch ELSE NoFetch]
            \in [Fetches -> [at: {"none", "sent", "read"}, page: NoteList, clean: BOOLEAN]]
    BY <1>2
  <2>2. bell \in [Bells -> BellRecords]
    BY <1>1, <2>1 DEF BellsInit, BellRecords
  <2>3. ask \in [Bells -> Asks]
    BY <1>3 DEF BellsInit
  <2>4. post \in [Bells -> Seq(Notices)]
    BY EmptySeq DEF BellsInit
  <2>5. QED BY <2>2, <2>3, <2>4 DEF BellsInit, BellTypes
<1>6. \A t \in Bells : AskSound(stored, ask[t])
  BY <1>3, <1>4 DEF AskSound
<1>7. ASSUME NEW t \in Bells PROVE BellSound(t, stored, untold, Pending, post[t], bell[t], doubtful)
  <2>1. PostSound(stored, untold, Pending, <<>>)
    BY DEF PostSound
  <2>2. \A k \in Fetches : bell[t].fetches[k].clean = FALSE
    BY <1>2, <1>4
  <2>3. QED BY <1>4, <2>1, <2>2 DEF BellSound
<1>8. QED BY <1>5, <1>6, <1>7 DEF BellInv

-----------------------------------------------------------------------------
(* What the steps do to one tab.                                            *)

LEMMA BellMoves ==
    ASSUME NEW s, NEW U, NEW C, NEW s2, NEW U2, NEW C2, Moves(s, U, C, s2, U2, C2),
           NEW t, NEW p, NEW b, NEW D, BellSound(t, s, U, C, p, b, D)
    PROVE  BellSound(t, s2, U2, C2, p, b, D)
<1>1. PostSound(s, U, C, p)
  BY DEF BellSound
<1>2. PostSound(s2, U2, C2, p)
  BY <1>1, MovesKeepPost
<1>3. \A L : Faithful(s, U, C, p, L) => Faithful(s2, U2, C2, p, L)
  BY <1>1, MovesKeepLists
<1>4. QED BY <1>2, <1>3 DEF BellSound

\* A tab is told, or is not connected.
LEMMA BellIsTold ==
    ASSUME NEW s, NEW U, NEW C, NEW U2, NEW C2, NEW t, NEW p, NEW q, NEW b, NEW D,
           BellSound(t, s, U, C, p, b, D), ~b.online => q = p,
           b.online => /\ PostSound(s, U2, C2, q)
                       /\ \A L : Faithful(s, U, C, p, L) => Faithful(s, U2, C2, q, L)
    PROVE  BellSound(t, s, U2, C2, q, b, D)
<1>1. PostSound(s, U2, C2, <<>>)
  BY DEF PostSound
<1>2. QED BY <1>1 DEF BellSound

\* The types of what is applied.
LEMMA AppliedTypes ==
    ASSUME NEW e \in Notices, NEW L \in NoteList
    PROVE  ListAfter(e, L) \in NoteList
<1>1. ASSUME NEW n \in Notes, NEW row \in [unread: Nat, read: Nat]
      PROVE  RowAfter(e, n, row) \in [unread: Nat, read: Nat]
  BY DEF RowAfter, Unlisted, Notices
<1>2. QED BY <1>1 DEF ListAfter, NoteList

LEMMA ReviewedIs ==
    ASSUME NEW e, NEW f \in [at: {"none", "sent", "read"}, page: NoteList, clean: BOOLEAN]
    PROVE  /\ Reviewed(e, f) \in [at: {"none", "sent", "read"}, page: NoteList, clean: BOOLEAN]
           /\ Reviewed(e, f).at = f.at /\ Reviewed(e, f).page = f.page
           /\ Reviewed(e, f).clean <=> f.clean /\ ListAfter(e, f.page) = f.page
<1> DEFINE c == f.clean /\ ListAfter(e, f.page) = f.page
<1>1. c \in BOOLEAN
  OBVIOUS
<1>2. Reviewed(e, f) = [f EXCEPT !.clean = c]
  BY DEF Reviewed
<1>3. c <=> f.clean /\ ListAfter(e, f.page) = f.page
  OBVIOUS
<1> HIDE DEF c
<1>4. QED BY <1>1, <1>2, <1>3

\* A page that an event of news changes is not clean any more.
LEMMA NewsChangePages ==
    ASSUME NEW s, NEW U, NEW C, NEW p, NEW L, Faithful(s, U, C, p, L),
           NEW e \in Notices, e.op = "new", e.id \in Notes, Coming(U, p, e.id)
    PROVE  ListAfter(e, L) # L
<1>1. L[e.id] = Unlisted
  BY DEF Faithful
<1>2. ListAfter(e, L)[e.id] = Once
  BY <1>1, RowsAfter DEF ListAfter, News
<1>3. QED BY <1>1, <1>2, RowsAfter

\* The answer to a request is applied.
LEMMA BellIsAnswered ==
    ASSUME NEW s, NEW U, NEW C, NEW p, NEW b \in BellRecords, NEW D, NEW t,
           BellSound(t, s, U, C, p, b, D), NEW e \in Notices, e.op # "new", TrueOf(s, e),
           NEW b2, b2.online = b.online, b2.list = ListAfter(e, b.list),
           b2.fetches = [k \in Fetches |-> Reviewed(e, b.fetches[k])],
           NEW D2, t \in D => t \in D2,
           t \notin D2 => \A n \in Notes : e.op \in {"read-all", "deleted-all"} /\ b.list[n] # Unlisted => n \in e.cover
    PROVE  BellSound(t, s, U, C, p, b2, D2)
<1>1. \A k \in Fetches : /\ b2.fetches[k].at = b.fetches[k].at /\ b2.fetches[k].page = b.fetches[k].page
                         /\ b2.fetches[k].clean => b.fetches[k].clean
  BY ReviewedIs DEF BellRecords
<1>2. ASSUME b2.online, \A k \in Fetches : b2.fetches[k].at = "none", t \notin D2
      PROVE  Faithful(s, U, C, p, b2.list)
  <2>1. Faithful(s, U, C, p, b.list)
    BY <1>1, <1>2 DEF BellSound
  <2>2. \A n \in Notes : e.op \in {"read-all", "deleted-all"} /\ b.list[n] # Unlisted /\ n \notin e.cover
                            => RowAfter(e, n, b.list[n]) = b.list[n]
    BY <1>2
  <2>3. QED BY <2>1, <2>2, ApplyChange
<1>3. QED BY <1>1, <1>2 DEF BellSound

\* An event is heard.
LEMMA BellHears ==
    ASSUME NEW s, NEW U, NEW C, NEW p \in Seq(Notices), p # <<>>, NEW b \in BellRecords, NEW D, NEW t,
           BellSound(t, s, U, C, p, b, D),
           NEW b2, b2.online = b.online, b2.list = ListAfter(Head(p), b.list),
           b2.fetches = [k \in Fetches |-> Reviewed(Head(p), b.fetches[k])],
           NEW D2, t \in D => t \in D2, t \notin D2 => ~Head(p).late,
           t \notin D2 => \A n \in Notes : Head(p).op \in {"read-all", "deleted-all"} /\ b.list[n] # Unlisted
                                              => n \in Head(p).cover
    PROVE  BellSound(t, s, U, C, Tail(p), b2, D2)
<1> DEFINE e == Head(p)
<1>0. e \in Notices /\ 1 \in DOMAIN p /\ e = p[1]
  BY TailOf
<1>1. \A k \in Fetches : /\ b2.fetches[k].at = b.fetches[k].at /\ b2.fetches[k].page = b.fetches[k].page
                         /\ b2.fetches[k].clean => b.fetches[k].clean /\ ListAfter(e, b.fetches[k].page) = b.fetches[k].page
  BY ReviewedIs DEF BellRecords
<1>2. PostSound(s, U, C, p) /\ TrueOf(s, e) /\ (e.op = "new" => e.id \in Notes /\ Coming(U, p, e.id))
  BY <1>0 DEF BellSound, PostSound, Coming, News
<1>3. PostSound(s, U, C, Tail(p))
  BY <1>2, TailKeepsPost
<1>4. b2.online
  BY DEF BellSound
<1>5. ASSUME NEW k \in Fetches, b2.fetches[k].clean
      PROVE  b2.fetches[k].at = "read" /\ Faithful(s, U, C, Tail(p), b2.fetches[k].page)
  <2> DEFINE g == b.fetches[k].page
  <2>1. b2.fetches[k].at = "read" /\ b2.fetches[k].page = g /\ Faithful(s, U, C, p, g) /\ ListAfter(e, g) = g
    BY <1>1, <1>5 DEF BellSound
  <2> HIDE DEF g
  <2>2. e.op # "new"
    BY <1>0, <1>2, <2>1, NewsChangePages
  <2>3. \A n \in Notes : RowAfter(e, n, g[n]) = g[n]
    BY <2>1 DEF ListAfter
  <2>4. \A n \in Notes : /\ Reads(e, n) => g[n] # Once
                         /\ Deletes(e, n) => g[n] = Unlisted
    BY <1>0, <1>2, <2>1, <2>2, <2>3, ApplyChange
  <2>5. QED BY <2>1, <2>2, <2>4, TailKeepsList
<1>6. ASSUME \A k \in Fetches : b2.fetches[k].at = "none", t \notin D2
      PROVE  Faithful(s, U, C, Tail(p), b2.list)
  <2> DEFINE L == b.list
  <2>1. Faithful(s, U, C, p, L)
    BY <1>1, <1>4, <1>6 DEF BellSound
  <2> HIDE DEF L
  <2>2. CASE e.op = "new"
    <3>1. Faithful(s, U, C, Tail(p), ListAfter(e, L))
      BY <1>2, <1>6, <2>1, <2>2, ApplyNews
    <3>2. QED BY <3>1 DEF L
  <2>3. CASE e.op # "new"
    <3>1. \A n \in Notes : e.op \in {"read-all", "deleted-all"} /\ L[n] # Unlisted /\ n \notin e.cover
                              => RowAfter(e, n, L[n]) = L[n]
      BY <1>6 DEF L
    <3>2. /\ Faithful(s, U, C, p, ListAfter(e, L))
          /\ \A n \in Notes : /\ Reads(e, n) => ListAfter(e, L)[n] # Once
                              /\ Deletes(e, n) => ListAfter(e, L)[n] = Unlisted
      BY <1>0, <1>2, <2>1, <2>3, <3>1, ApplyChange
    <3>3. Faithful(s, U, C, Tail(p), ListAfter(e, L))
      BY <2>3, <3>2, TailKeepsList
    <3>4. QED BY <3>3 DEF L
  <2>4. QED BY <2>2, <2>3
<1>7. QED BY <1>3, <1>4, <1>5, <1>6 DEF BellSound

\* What is read when no news are under way is right.
LEMMA RowsAreFaithful ==
    ASSUME NEW C, NEW p, stored \in [Notes -> {"none", "unread", "read", "gone"}],
           \A n \in Notes : ~Coming(untold, p, n)
    PROVE  NoteRows \in NoteList /\ Faithful(stored, untold, C, p, NoteRows)
<1>1. NoteRows \in NoteList
  BY DEF NoteRows, NoteList
<1>2. ASSUME NEW n \in Notes
      PROVE  /\ stored[n] = "unread" => NoteRows[n] = Once
             /\ stored[n] = "read" => NoteRows[n] = Seen
             /\ stored[n] \in {"none", "gone"} => NoteRows[n] = Unlisted
  BY DEF NoteRows, Once, Seen, Unlisted
<1>3. Once # Unlisted /\ Seen # Unlisted /\ Once # Seen
  BY DEF Once, Seen, Unlisted
<1>4. QED BY <1>1, <1>2, <1>3 DEF Faithful, Right

-----------------------------------------------------------------------------
(* The steps.                                                               *)

\* A request that has not changed anything, before or after, is not pending.
LEMMA SamePending ==
    ASSUME NEW t \in Bells, NEW x, ask \in [Bells -> Asks], ask' = [ask EXCEPT ![t] = x],
           ask[t].at # "changed", x.at # "changed"
    PROVE  Pending' = Pending
<1>1. \A u \in Bells : ask'[u] = IF u = t THEN x ELSE ask[u]
  OBVIOUS
<1>2. \A e : e \in Pending' <=> e \in Pending
  BY <1>1 DEF Pending
<1>3. QED BY <1>2

\* Nothing but a request moves.
LEMMA AskSteps ==
    ASSUME NEW t \in Bells, NEW x \in Asks, BellInv, ask' = [ask EXCEPT ![t] = x],
           ask[t].at # "changed", x.at # "changed", AskSound(stored, x),
           UNCHANGED <<stored, untold, post, bell, doubtful>>
    PROVE  BellInv'
<1>1. Pending' = Pending
  BY SamePending DEF BellInv, BellTypes
<1>2. BellTypes'
  BY DEF BellInv, BellTypes, Created
<1>3. \A u \in Bells : AskSound(stored', ask'[u])
  BY DEF BellInv, BellTypes
<1>4. \A u \in Bells : BellSound(u, stored', untold', Pending', post'[u], bell'[u], doubtful')
  BY <1>1 DEF BellInv
<1>5. QED BY <1>2, <1>3, <1>4 DEF BellInv

LEMMA AskingStep ==
    ASSUME BellInv, NEW t \in Bells, NEW op \in {"read", "deleted", "read-all", "deleted-all"},
           NEW id \in Notes \cup {0}, op \in {"read", "deleted"} => id \in Notes,
           op \in {"read-all", "deleted-all"} => id = 0, AskAbout(t, op, id)
    PROVE  BellInv'
<1> DEFINE x == [NoAsk EXCEPT !.op = op, !.id = id, !.at = "sent"]
<1>1. x \in Asks /\ x.at = "sent" /\ x.op = op /\ x.id = id
  BY DEF NoAsk, Asks
<1>2. ask[t].at = "none" /\ ask' = [ask EXCEPT ![t] = x] /\ UNCHANGED <<stored, untold, post, bell, doubtful>>
  BY DEF AskAbout, NoAsk
<1> HIDE DEF x
<1>3. AskSound(stored, x)
  BY <1>1 DEF AskSound
<1>4. QED BY <1>1, <1>2, <1>3, AskSteps

LEMMA FindStep ==
    ASSUME BellInv, NEW t \in Bells, FindOwned(t) PROVE BellInv'
<1> DEFINE x == [ask[t] EXCEPT !.at = "found"]
<1>1. ask[t] \in Asks /\ AskSound(stored, ask[t])
  BY DEF BellInv, BellTypes
<1>2. ask[t].at = "sent" /\ ask[t].id \in Stored /\ ask' = [ask EXCEPT ![t] = x]
      /\ UNCHANGED <<stored, untold, post, bell, doubtful>>
  BY DEF FindOwned
<1>3. x \in Asks /\ x.at = "found" /\ x.op = ask[t].op /\ x.id = ask[t].id
  BY <1>1 DEF Asks
<1> HIDE DEF x
<1>4. ask[t].op \in {"read", "deleted"} /\ stored[ask[t].id] # "none"
  <2>1. ask[t].id \in Notes /\ stored[ask[t].id] # "none"
    BY <1>2 DEF Stored
  <2>2. ask[t].id # 0
    BY <2>1 DEF Notes
  <2>3. QED BY <1>1, <1>2, <2>1, <2>2 DEF AskSound, Asks
<1>5. AskSound(stored, x)
  BY <1>1, <1>2, <1>3, <1>4 DEF AskSound
<1>6. QED BY <1>2, <1>3, <1>5, AskSteps

LEMMA FailStep ==
    ASSUME BellInv, NEW t \in Bells, FailAsk(t) PROVE BellInv'
<1>1. NoAsk \in Asks /\ NoAsk.at = "none" /\ AskSound(stored, NoAsk)
  BY DEF NoAsk, Asks, AskSound
<1>2. ask[t].at # "changed" /\ ask' = [ask EXCEPT ![t] = NoAsk] /\ UNCHANGED <<stored, untold, post, bell, doubtful>>
  BY DEF FailAsk
<1>3. QED BY <1>1, <1>2, AskSteps

LEMMA CreateStep ==
    ASSUME BellInv, CreateNote PROVE BellInv'
<1>1. PICK n \in Notes : /\ stored[n] = "none" /\ stored' = [stored EXCEPT ![n] = "unread"]
                         /\ untold' = untold \cup {n} /\ UNCHANGED <<post, bell, ask, doubtful>>
  BY DEF CreateNote
<1>2. \A m \in Notes : stored'[m] = IF m = n THEN "unread" ELSE stored[m]
  BY <1>1 DEF BellInv, BellTypes
<1>3. Pending' = Pending
  BY <1>1 DEF Pending
<1>4. Moves(stored, untold, Pending, stored', untold', Pending')
  BY <1>1, <1>2, <1>3 DEF Moves
<1>5. BellTypes'
  <2>1. stored' \in [Notes -> {"none", "unread", "read", "gone"}]
    BY <1>1 DEF BellInv, BellTypes
  <2>2. untold' \subseteq Created'
    BY <1>1, <1>2 DEF BellInv, BellTypes, Created
  <2>3. QED BY <1>1, <2>1, <2>2 DEF BellInv, BellTypes
<1>6. ASSUME NEW t \in Bells PROVE AskSound(stored', ask'[t])
  <2>1. TrueOf(stored, ask[t]) => TrueOf(stored', ask[t])
    BY <1>4, MovesKeepTrue
  <2>2. ask[t].at # "none" /\ ask[t].op \in {"read", "deleted"} => ask[t].id \in Notes
    BY DEF BellInv, AskSound
  <2>3. QED BY <1>1, <1>2, <2>1, <2>2 DEF BellInv, AskSound
<1>7. ASSUME NEW t \in Bells PROVE BellSound(t, stored', untold', Pending', post'[t], bell'[t], doubtful')
  <2>1. BellSound(t, stored, untold, Pending, post[t], bell[t], doubtful)
    BY DEF BellInv
  <2>2. BellSound(t, stored', untold', Pending', post[t], bell[t], doubtful)
    BY <1>4, <2>1, BellMoves
  <2>3. QED BY <1>1, <2>2
<1>8. QED BY <1>5, <1>6, <1>7 DEF BellInv

\* A request changes the table, and is pending.
LEMMA ChangeSteps ==
    ASSUME BellInv, NEW t \in Bells, NEW x \in Asks, ask' = [ask EXCEPT ![t] = x],
           ask[t].at # "changed", x.at = "changed", x.op = ask[t].op, x.id = ask[t].id, ask[t].at # "none",
           stored' \in [Notes -> {"none", "unread", "read", "gone"}], TrueOf(stored', x),
           \A n \in Notes : \/ stored'[n] = stored[n]
                            \/ stored[n] \in {"unread", "read"} /\ stored'[n] = "read" /\ Reads(x, n)
                            \/ stored[n] # "none" /\ stored'[n] = "gone" /\ Deletes(x, n),
           UNCHANGED <<untold, post, bell, doubtful>>
    PROVE  BellInv'
<1>1. \A u \in Bells : ask'[u] = IF u = t THEN x ELSE ask[u]
  BY DEF BellInv, BellTypes
<1>2. Pending \subseteq Pending' /\ x \in Pending'
  BY <1>1 DEF Pending
<1>3. Moves(stored, untold, Pending, stored', untold', Pending')
  BY <1>2 DEF Moves
<1>4. BellTypes'
  <2>1. untold' \subseteq Created'
    BY DEF BellInv, BellTypes, Created
  <2>2. QED BY <2>1 DEF BellInv, BellTypes
<1>5. ASSUME NEW u \in Bells PROVE AskSound(stored', ask'[u])
  <2>0. AskSound(stored, ask[u]) /\ AskSound(stored, ask[t])
    BY DEF BellInv
  <2>1. CASE u = t
    BY <1>1, <2>0, <2>1 DEF AskSound
  <2>2. CASE u # t
    <3>1. TrueOf(stored, ask[u]) => TrueOf(stored', ask[u])
      BY <1>3, MovesKeepTrue
    <3>2. \A n \in Notes : stored[n] # "none" => stored'[n] # "none"
      OBVIOUS
    <3>3. QED BY <1>1, <2>0, <2>2, <3>1, <3>2 DEF AskSound
  <2>3. QED BY <2>1, <2>2
<1>6. ASSUME NEW u \in Bells PROVE BellSound(u, stored', untold', Pending', post'[u], bell'[u], doubtful')
  <2>1. BellSound(u, stored, untold, Pending, post[u], bell[u], doubtful)
    BY DEF BellInv
  <2>2. BellSound(u, stored', untold', Pending', post[u], bell[u], doubtful)
    BY <1>3, <2>1, BellMoves
  <2>3. QED BY <2>2
<1>7. QED BY <1>4, <1>5, <1>6 DEF BellInv

LEMMA ChangeOneStep ==
    ASSUME BellInv, NEW t \in Bells, ChangeOne(t) PROVE BellInv'
<1> DEFINE x == [ask[t] EXCEPT !.at = "changed"]
<1>1. ask[t] \in Asks /\ AskSound(stored, ask[t]) /\ stored \in [Notes -> {"none", "unread", "read", "gone"}]
  BY DEF BellInv, BellTypes
<1>2. /\ ask[t].at = "found" /\ (ask[t].op = "read" => ask[t].id \in Stored)
      /\ stored' = [stored EXCEPT ![ask[t].id] = IF ask[t].op = "read" THEN "read" ELSE "gone"]
      /\ ask' = [ask EXCEPT ![t] = x] /\ UNCHANGED <<untold, post, bell, doubtful>>
  BY DEF ChangeOne
<1>3. x \in Asks /\ x.at = "changed" /\ x.op = ask[t].op /\ x.id = ask[t].id
  BY <1>1 DEF Asks
<1> HIDE DEF x
<1>4. x.op \in {"read", "deleted"} /\ x.id \in Notes /\ stored[x.id] # "none"
  BY <1>1, <1>2, <1>3 DEF AskSound
<1>5. stored' \in [Notes -> {"none", "unread", "read", "gone"}]
  BY <1>1, <1>2
<1>6. \A n \in Notes : stored'[n] = IF n # x.id THEN stored[n] ELSE IF x.op = "read" THEN "read" ELSE "gone"
  BY <1>1, <1>2, <1>3
<1>7. \A n \in Notes : \/ stored'[n] = stored[n]
                       \/ stored[n] \in {"unread", "read"} /\ stored'[n] = "read" /\ Reads(x, n)
                       \/ stored[n] # "none" /\ stored'[n] = "gone" /\ Deletes(x, n)
  <2>1. CASE x.op = "read"
    <3>1. stored[x.id] \in {"unread", "read"}
      BY <1>2, <1>3, <2>1 DEF Stored
    <3>2. Reads(x, x.id)
      BY <2>1 DEF Reads
    <3>3. QED BY <1>6, <2>1, <3>1, <3>2
  <2>2. CASE x.op = "deleted"
    <3>1. Deletes(x, x.id)
      BY <2>2 DEF Deletes
    <3>2. QED BY <1>4, <1>6, <2>2, <3>1
  <2>3. QED BY <1>4, <2>1, <2>2
<1>8. TrueOf(stored', x)
  BY <1>4, <1>6 DEF TrueOf, Reads, Deletes
<1>9. QED BY <1>2, <1>3, <1>5, <1>7, <1>8, ChangeSteps

LEMMA ChangeAllStep ==
    ASSUME BellInv, NEW t \in Bells, ChangeAll(t) PROVE BellInv'
<1> DEFINE x == [ask[t] EXCEPT !.at = "changed", !.cover = Created]
<1>1. ask[t] \in Asks /\ AskSound(stored, ask[t]) /\ stored \in [Notes -> {"none", "unread", "read", "gone"}]
  BY DEF BellInv, BellTypes
<1>2. /\ ask[t].at = "sent" /\ ask[t].op \in {"read-all", "deleted-all"}
      /\ stored' = [n \in Notes |-> IF n \notin Stored THEN stored[n]
                                   ELSE IF ask[t].op = "read-all" THEN "read" ELSE "gone"]
      /\ ask' = [ask EXCEPT ![t] = x] /\ UNCHANGED <<untold, post, bell, doubtful>>
  <2>1. ask' = [ask EXCEPT ![t].at = "changed", ![t].cover = Created]
    BY DEF ChangeAll
  <2>2. ask' = [ask EXCEPT ![t] = x]
    BY <2>1 DEF BellInv, BellTypes
  <2>3. QED BY <2>2 DEF ChangeAll
<1>3. x \in Asks /\ x.at = "changed" /\ x.op = ask[t].op /\ x.id = ask[t].id /\ x.cover = Created
  BY <1>1 DEF Asks, Created
<1> HIDE DEF x
<1>4. x.op \in {"read-all", "deleted-all"}
  BY <1>2, <1>3
<1>5. stored' \in [Notes -> {"none", "unread", "read", "gone"}]
  BY <1>1, <1>2
<1>6. \A n \in Notes : stored'[n] = IF n \notin Stored THEN stored[n] ELSE IF x.op = "read-all" THEN "read" ELSE "gone"
  BY <1>2, <1>3
<1>7. \A n \in Notes : n \in Stored => stored[n] \in {"unread", "read"} /\ n \in x.cover
  BY <1>3 DEF Stored, Created
<1>8. \A n \in Notes : \/ stored'[n] = stored[n]
                       \/ stored[n] \in {"unread", "read"} /\ stored'[n] = "read" /\ Reads(x, n)
                       \/ stored[n] # "none" /\ stored'[n] = "gone" /\ Deletes(x, n)
  <2>1. CASE x.op = "read-all"
    <3>1. \A n \in Notes : n \in Stored => Reads(x, n)
      BY <1>7, <2>1 DEF Reads
    <3>2. QED BY <1>6, <1>7, <2>1, <3>1
  <2>2. CASE x.op = "deleted-all"
    <3>1. \A n \in Notes : n \in Stored => Deletes(x, n)
      BY <1>7, <2>2 DEF Deletes
    <3>2. QED BY <1>6, <1>7, <2>2, <3>1
  <2>3. QED BY <1>4, <2>1, <2>2
<1>9. TrueOf(stored', x)
  BY <1>1, <1>3, <1>4, <1>6 DEF TrueOf, Reads, Deletes, Stored, Created
<1>10. QED BY <1>2, <1>3, <1>5, <1>8, <1>9, ChangeSteps

LEMMA AnnounceNewStep ==
    ASSUME BellInv, NEW n \in untold, AnnounceNew(n) PROVE BellInv'
<1> DEFINE e == [op |-> "new", id |-> n, cover |-> {}, late |-> stored[n] # "unread"]
<1>1. n \in Notes /\ stored[n] # "none"
  BY DEF BellInv, BellTypes, Created
<1>2. e \in Notices /\ e.op = "new" /\ e.id = n /\ (~e.late => stored[n] = "unread")
  BY <1>1 DEF Notices
<1>3. post' = Deliver(e) /\ untold' = untold \ {n} /\ UNCHANGED <<stored, bell, ask, doubtful>>
  BY DEF AnnounceNew
<1> HIDE DEF e
<1>4. \A t \in Bells : post'[t] = IF bell[t].online THEN Append(post[t], e) ELSE post[t]
  BY <1>3 DEF Deliver
<1>5. Pending' = Pending
  BY <1>3 DEF Pending
<1>6. BellTypes'
  <2>1. post' \in [Bells -> Seq(Notices)]
    BY <1>2, <1>3, AppendProperties DEF Deliver, BellInv, BellTypes
  <2>2. QED BY <1>3, <2>1 DEF BellInv, BellTypes, Created
<1>7. ASSUME NEW t \in Bells PROVE BellSound(t, stored, untold', Pending, post'[t], bell[t], doubtful)
  <2>1. BellSound(t, stored, untold, Pending, post[t], bell[t], doubtful) /\ post[t] \in Seq(Notices)
    BY DEF BellInv, BellTypes
  <2>2. PostSound(stored, untold, Pending, post[t])
    BY <2>1 DEF BellSound
  <2>3. /\ PostSound(stored, untold', Pending, Append(post[t], e))
        /\ \A L : Faithful(stored, untold, Pending, post[t], L)
                     => Faithful(stored, untold', Pending, Append(post[t], e), L)
    BY <1>1, <1>2, <1>3, <2>1, <2>2, AppendNews
  <2>4. QED BY <1>4, <2>1, <2>3, BellIsTold
<1>8. QED BY <1>3, <1>5, <1>6, <1>7 DEF BellInv

LEMMA AnnounceChangeStep ==
    ASSUME BellInv, NEW t \in Bells, AnnounceChange(t) PROVE BellInv'
<1> DEFINE e == [op |-> ask[t].op, id |-> ask[t].id, cover |-> ask[t].cover, late |-> FALSE]
           x == [ask[t] EXCEPT !.at = "answered"]
<1>1. ask[t] \in Asks /\ AskSound(stored, ask[t]) /\ ask[t].at = "changed"
  BY DEF BellInv, BellTypes, AnnounceChange
<1>2. /\ e.op = ask[t].op /\ e.id = ask[t].id /\ e.cover = ask[t].cover /\ e.late = FALSE
      /\ e.op \in {"read", "deleted", "read-all", "deleted-all"} /\ e \in Notices
  BY <1>1 DEF Notices, Asks, AskSound
<1>3. /\ x \in Asks /\ x.at = "answered" /\ x.op = ask[t].op /\ x.id = ask[t].id /\ x.cover = ask[t].cover
  BY <1>1 DEF Asks
<1>4. post' = Deliver(e) /\ ask' = [ask EXCEPT ![t] = x] /\ UNCHANGED <<stored, untold, bell, doubtful>>
  BY DEF AnnounceChange
<1> HIDE DEF e, x
<1>5. \A u \in Bells : post'[u] = IF bell[u].online THEN Append(post[u], e) ELSE post[u]
  BY <1>4 DEF Deliver
<1>6. \A u \in Bells : ask'[u] = IF u = t THEN x ELSE ask[u]
  BY <1>4 DEF BellInv, BellTypes
<1>7. \A n \in Notes : (Reads(ask[t], n) <=> Reads(e, n)) /\ (Deletes(ask[t], n) <=> Deletes(e, n))
                     /\ (Reads(ask[t], n) <=> Reads(x, n)) /\ (Deletes(ask[t], n) <=> Deletes(x, n))
  BY <1>2, <1>3 DEF Reads, Deletes
<1>8. TrueOf(stored, e) /\ TrueOf(stored, x)
  BY <1>1, <1>7 DEF AskSound, TrueOf
<1>9. \A a \in Pending \ Pending' : a = ask[t]
  BY <1>6 DEF Pending
<1>10. BellTypes'
  <2>1. post' \in [Bells -> Seq(Notices)]
    BY <1>2, <1>4, AppendProperties DEF Deliver, BellInv, BellTypes
  <2>2. QED BY <1>3, <1>4, <2>1 DEF BellInv, BellTypes, Created
<1>11. ASSUME NEW u \in Bells PROVE AskSound(stored, ask'[u])
  BY <1>1, <1>3, <1>6, <1>8 DEF BellInv, AskSound
<1>12. ASSUME NEW u \in Bells PROVE BellSound(u, stored, untold, Pending', post'[u], bell[u], doubtful)
  <2>1. BellSound(u, stored, untold, Pending, post[u], bell[u], doubtful) /\ post[u] \in Seq(Notices)
    BY DEF BellInv, BellTypes
  <2>2. PostSound(stored, untold, Pending, post[u])
    BY <2>1 DEF BellSound
  <2>3. \A a \in Pending \ Pending' : \A n \in Notes :
            (Reads(a, n) => Reads(e, n)) /\ (Deletes(a, n) => Deletes(e, n))
    BY <1>7, <1>9
  <2>4. /\ PostSound(stored, untold, Pending', Append(post[u], e))
        /\ \A L : Faithful(stored, untold, Pending, post[u], L)
                     => Faithful(stored, untold, Pending', Append(post[u], e), L)
    BY <1>2, <1>8, <2>1, <2>2, <2>3, AppendChange
  <2>5. QED BY <1>5, <2>1, <2>4, BellIsTold
<1>13. QED BY <1>4, <1>10, <1>11, <1>12 DEF BellInv

\* What one tab applies leaves the others alone.
LEMMA BellStays ==
    ASSUME NEW s, NEW U, NEW C, NEW t, NEW p, NEW b, NEW D, NEW D2, BellSound(t, s, U, C, p, b, D),
           t \in D => t \in D2
    PROVE  BellSound(t, s, U, C, p, b, D2)
BY DEF BellSound

\* What Apply does, to the tab and to the doubts.
LEMMA ApplyMoves ==
    ASSUME BellInv, NEW t \in Bells, NEW e \in Notices, Apply(t, e)
    PROVE  /\ bell' \in [Bells -> BellRecords] /\ doubtful' \subseteq Bells
           /\ \A u \in Bells : u # t => bell'[u] = bell[u]
           /\ bell'[t].online = bell[t].online /\ bell'[t].list = ListAfter(e, bell[t].list)
           /\ bell'[t].fetches = [k \in Fetches |-> Reviewed(e, bell[t].fetches[k])]
           /\ \A u \in Bells : u \in doubtful => u \in doubtful'
           /\ t \notin doubtful' => ~e.late /\ \A n \in Notes : e.op \in {"read-all", "deleted-all"}
                                                   /\ bell[t].list[n] # Unlisted => n \in e.cover
<1>1. bell \in [Bells -> BellRecords] /\ doubtful \subseteq Bells
  BY DEF BellInv, BellTypes
<1> DEFINE F == [k \in Fetches |-> Reviewed(e, bell[t].fetches[k])]
           M == ListAfter(e, bell[t].list)
<1>2. bell' = [bell EXCEPT ![t].list = M, ![t].fetches = F]
  BY DEF Apply
<1>3. M \in NoteList
  BY <1>1, AppliedTypes DEF BellRecords
<1>4. F \in [Fetches -> [at: {"none", "sent", "read"}, page: NoteList, clean: BOOLEAN]]
  BY <1>1, ReviewedIs DEF BellRecords
<1>5. /\ doubtful' \subseteq Bells /\ \A u \in Bells : u \in doubtful => u \in doubtful'
      /\ t \notin doubtful' => ~e.late /\ ~Overreaches(e, t)
  BY <1>1 DEF Apply
<1>6. ~Overreaches(e, t) => \A n \in Notes : e.op \in {"read-all", "deleted-all"}
                                                /\ bell[t].list[n] # Unlisted => n \in e.cover
  BY DEF Overreaches, Listed
<1> HIDE DEF F, M
<1>7. /\ bell' \in [Bells -> BellRecords] /\ \A u \in Bells : u # t => bell'[u] = bell[u]
      /\ bell'[t].online = bell[t].online /\ bell'[t].list = M /\ bell'[t].fetches = F
  BY <1>1, <1>2, <1>3, <1>4 DEF BellRecords
<1>8. QED BY <1>5, <1>6, <1>7 DEF F, M

LEMMA HearStep ==
    ASSUME BellInv, NEW t \in Bells, HearNote(t) PROVE BellInv'
<1> DEFINE e == Head(post[t])
<1>1. post[t] \in Seq(Notices) /\ post[t] # <<>> /\ e \in Notices /\ Tail(post[t]) \in Seq(Notices)
  BY TailOf DEF BellInv, BellTypes, HearNote
<1>2. Apply(t, e) /\ post' = [post EXCEPT ![t] = Tail(post[t])] /\ UNCHANGED <<stored, untold, ask>>
  BY DEF HearNote
<1>3. /\ bell' \in [Bells -> BellRecords] /\ doubtful' \subseteq Bells
      /\ \A u \in Bells : u # t => bell'[u] = bell[u]
      /\ bell'[t].online = bell[t].online /\ bell'[t].list = ListAfter(e, bell[t].list)
      /\ bell'[t].fetches = [k \in Fetches |-> Reviewed(e, bell[t].fetches[k])]
      /\ \A u \in Bells : u \in doubtful => u \in doubtful'
      /\ t \notin doubtful' => ~e.late /\ \A n \in Notes : e.op \in {"read-all", "deleted-all"}
                                              /\ bell[t].list[n] # Unlisted => n \in e.cover
  BY <1>1, <1>2, ApplyMoves
<1>4. post' \in [Bells -> Seq(Notices)] /\ \A u \in Bells : post'[u] = IF u = t THEN Tail(post[t]) ELSE post[u]
  BY <1>1, <1>2 DEF BellInv, BellTypes
<1>5. Pending' = Pending
  BY <1>2 DEF Pending
<1>6. BellTypes'
  BY <1>2, <1>3, <1>4 DEF BellInv, BellTypes, Created
<1>7. ASSUME NEW u \in Bells PROVE BellSound(u, stored, untold, Pending, post'[u], bell'[u], doubtful')
  <2>1. BellSound(u, stored, untold, Pending, post[u], bell[u], doubtful) /\ bell[u] \in BellRecords
    BY DEF BellInv, BellTypes
  <2>2. CASE u # t
    <3>1. BellSound(u, stored, untold, Pending, post[u], bell[u], doubtful')
      BY <1>3, <2>1, BellStays
    <3>2. QED BY <1>3, <1>4, <2>2, <3>1
  <2>3. CASE u = t
    <3>1. BellSound(t, stored, untold, Pending, Tail(post[t]), bell'[t], doubtful')
      BY <1>1, <1>3, <2>1, <2>3, BellHears
    <3>2. QED BY <1>4, <2>3, <3>1
  <2>4. QED BY <2>2, <2>3
<1>8. QED BY <1>2, <1>5, <1>6, <1>7 DEF BellInv

LEMMA SucceedStep ==
    ASSUME BellInv, NEW t \in Bells, Succeeded(t) PROVE BellInv'
<1> DEFINE a == ask[t]
           e == [op |-> a.op, id |-> a.id, cover |-> a.cover, late |-> a.late]
<1>1. a \in Asks /\ AskSound(stored, a) /\ a.at = "answered"
  BY DEF BellInv, BellTypes, Succeeded
<1>2. /\ ask' = [ask EXCEPT ![t] = NoAsk] /\ Apply(t, a) /\ UNCHANGED <<stored, untold, post>>
  BY DEF Succeeded
<1>3. /\ e \in Notices /\ e.op # "new" /\ e.late = FALSE
      /\ e.op = a.op /\ e.id = a.id /\ e.cover = a.cover /\ e.late = a.late
  BY <1>1 DEF Asks, Notices, AskSound
<1> HIDE DEF e
<1>4. Apply(t, e)
  <2>1. \A L : ListAfter(a, L) = ListAfter(e, L)
    BY <1>3 DEF ListAfter, RowAfter
  <2>2. \A f : Reviewed(a, f) = Reviewed(e, f)
    BY <2>1 DEF Reviewed
  <2>3. Overreaches(a, t) <=> Overreaches(e, t)
    BY <1>3 DEF Overreaches
  <2>4. QED BY <1>2, <1>3, <2>1, <2>2, <2>3 DEF Apply
<1>5. TrueOf(stored, e)
  BY <1>1, <1>3 DEF AskSound, TrueOf, Reads, Deletes
<1>6. /\ bell' \in [Bells -> BellRecords] /\ doubtful' \subseteq Bells
      /\ \A u \in Bells : u # t => bell'[u] = bell[u]
      /\ bell'[t].online = bell[t].online /\ bell'[t].list = ListAfter(e, bell[t].list)
      /\ bell'[t].fetches = [k \in Fetches |-> Reviewed(e, bell[t].fetches[k])]
      /\ \A u \in Bells : u \in doubtful => u \in doubtful'
      /\ t \notin doubtful' => ~e.late /\ \A n \in Notes : e.op \in {"read-all", "deleted-all"}
                                              /\ bell[t].list[n] # Unlisted => n \in e.cover
  BY <1>3, <1>4, ApplyMoves
<1>7. NoAsk \in Asks /\ NoAsk.at = "none" /\ AskSound(stored, NoAsk)
  BY DEF NoAsk, Asks, AskSound
<1>8. Pending' = Pending
  BY <1>1, <1>2, <1>7, SamePending DEF BellInv, BellTypes
<1>9. BellTypes'
  BY <1>2, <1>6, <1>7 DEF BellInv, BellTypes, Created
<1>10. \A u \in Bells : AskSound(stored, ask'[u])
  BY <1>2, <1>7 DEF BellInv, BellTypes
<1>11. ASSUME NEW u \in Bells PROVE BellSound(u, stored, untold, Pending, post[u], bell'[u], doubtful')
  <2>1. BellSound(u, stored, untold, Pending, post[u], bell[u], doubtful) /\ bell[u] \in BellRecords
    BY DEF BellInv, BellTypes
  <2>2. CASE u # t
    <3>1. BellSound(u, stored, untold, Pending, post[u], bell[u], doubtful')
      BY <1>6, <2>1, BellStays
    <3>2. QED BY <1>6, <2>2, <3>1
  <2>3. CASE u = t
    <3>1. BellSound(t, stored, untold, Pending, post[t], bell'[t], doubtful')
      BY <1>3, <1>5, <1>6, <2>1, <2>3, BellIsAnswered
    <3>2. QED BY <2>3, <3>1
  <2>4. QED BY <2>2, <2>3
<1>12. QED BY <1>2, <1>8, <1>9, <1>10, <1>11 DEF BellInv

\* A step of the fetches and the connection of one tab.
LEMMA FetchSteps ==
    ASSUME BellInv, NEW t \in Bells, NEW b \in BellRecords, bell' = [bell EXCEPT ![t] = b],
           NEW p \in Seq(Notices), post' = [post EXCEPT ![t] = p],
           doubtful' \subseteq Bells, \A u \in Bells : u # t /\ u \in doubtful => u \in doubtful',
           BellSound(t, stored, untold, Pending, p, b, doubtful'),
           UNCHANGED <<stored, untold, ask>>
    PROVE  BellInv'
<1>1. \A u \in Bells : /\ bell'[u] = IF u = t THEN b ELSE bell[u]
                       /\ post'[u] = IF u = t THEN p ELSE post[u]
  BY DEF BellInv, BellTypes
<1>2. Pending' = Pending
  BY DEF Pending
<1>3. BellTypes'
  BY DEF BellInv, BellTypes, Created
<1>4. ASSUME NEW u \in Bells PROVE BellSound(u, stored, untold, Pending, post'[u], bell'[u], doubtful')
  <2>1. CASE u # t
    <3>1. BellSound(u, stored, untold, Pending, post[u], bell[u], doubtful)
      BY DEF BellInv
    <3>2. BellSound(u, stored, untold, Pending, post[u], bell[u], doubtful')
      BY <2>1, <3>1, BellStays
    <3>3. QED BY <1>1, <2>1, <3>2
  <2>2. CASE u = t
    BY <1>1, <2>2
  <2>3. QED BY <2>1, <2>2
<1>5. QED BY <1>2, <1>3, <1>4 DEF BellInv

\* The types of one tab, for the steps of its fetches.
LEMMA BellParts ==
    ASSUME BellInv, NEW t \in Bells
    PROVE  /\ bell[t] \in BellRecords /\ post[t] \in Seq(Notices) /\ post = [post EXCEPT ![t] = post[t]]
           /\ bell \in [Bells -> BellRecords]
           /\ bell[t].fetches \in [Fetches -> [at: {"none", "sent", "read"}, page: NoteList, clean: BOOLEAN]]
           /\ BellSound(t, stored, untold, Pending, post[t], bell[t], doubtful)
           /\ NoFetch \in [at: {"none", "sent", "read"}, page: NoteList, clean: BOOLEAN]
           /\ SentFetch \in [at: {"none", "sent", "read"}, page: NoteList, clean: BOOLEAN]
           /\ NoFetch.at = "none" /\ NoFetch.clean = FALSE /\ SentFetch.at = "sent" /\ SentFetch.clean = FALSE
<1>1. NoFetch.page \in NoteList
  BY DEF NoFetch, NoteList, Unlisted
<1>2. QED BY <1>1 DEF BellInv, BellTypes, BellRecords, NoFetch, SentFetch

LEMMA ServeStep ==
    ASSUME BellInv, NEW t \in Bells, ServeFetch(t) PROVE BellInv'
<1> DEFINE c == bell[t].online /\ untold = {} /\ \A i \in DOMAIN post[t] : post[t][i].op # "new"
<1>1. PICK k \in Fetches : /\ bell[t].fetches[k].at = "sent"
                           /\ bell' = [bell EXCEPT ![t].fetches[k] = [at |-> "read", page |-> NoteRows, clean |-> c]]
                           /\ UNCHANGED <<stored, untold, post, ask, doubtful>>
  BY DEF ServeFetch
<1>2. c \in BOOLEAN
  OBVIOUS
<1>3. c => bell[t].online /\ \A n \in Notes : ~Coming(untold, post[t], n)
  BY DEF Coming, News
<1> HIDE DEF c
<1>4. c => bell[t].online /\ Faithful(stored, untold, Pending, post[t], NoteRows)
  BY <1>3, RowsAreFaithful DEF BellInv, BellTypes
<1>5. NoteRows \in NoteList
  BY DEF NoteRows, NoteList
<1>6. PICK g \in [at: {"none", "sent", "read"}, page: NoteList, clean: BOOLEAN] :
          g = [at |-> "read", page |-> NoteRows, clean |-> c]
  BY <1>2, <1>5
<1>7. g.at = "read" /\ g.page = NoteRows /\ g.clean = c
  BY <1>6
<1> DEFINE b == [bell[t] EXCEPT !.fetches = [@ EXCEPT ![k] = g]]
<1>8. b \in BellRecords /\ bell' = [bell EXCEPT ![t] = b]
  BY <1>1, <1>6, BellParts DEF BellRecords
<1>9. /\ b.online = bell[t].online /\ b.list = bell[t].list
      /\ \A j \in Fetches : b.fetches[j] = IF j = k THEN g ELSE bell[t].fetches[j]
  BY BellParts DEF BellRecords
<1> HIDE DEF b
<1>10. BellSound(t, stored, untold, Pending, post[t], b, doubtful)
  <2>0. /\ BellSound(t, stored, untold, Pending, post[t], bell[t], doubtful)
        /\ NoFetch.at = "none" /\ NoFetch.clean = FALSE /\ SentFetch.at = "sent" /\ SentFetch.clean = FALSE
    BY BellParts
  <2>1. ~b.online => post[t] = <<>>
    BY <1>9, <2>0 DEF BellSound
  <2>2. ASSUME NEW j \in Fetches, b.fetches[j].clean
        PROVE  b.online /\ b.fetches[j].at = "read" /\ Faithful(stored, untold, Pending, post[t], b.fetches[j].page)
    <3>1. CASE j = k
      BY <1>4, <1>7, <1>9, <2>2, <3>1
    <3>2. CASE j # k
      BY <1>9, <2>0, <2>2, <3>2 DEF BellSound
    <3>3. QED BY <3>1, <3>2
  <2>3. ~\A j \in Fetches : b.fetches[j].at = "none"
    BY <1>7, <1>9
  <2>4. QED BY <2>0, <2>1, <2>2, <2>3 DEF BellSound
<1>11. post[t] \in Seq(Notices) /\ post' = [post EXCEPT ![t] = post[t]]
  BY <1>1, BellParts
<1>12. doubtful' \subseteq Bells
  BY <1>1 DEF BellInv, BellTypes
<1>13. QED BY <1>1, <1>8, <1>10, <1>11, <1>12, FetchSteps

LEMMA LandStep ==
    ASSUME BellInv, NEW t \in Bells, LandFetch(t) PROVE BellInv'
<1>1. PICK k \in Fetches : /\ bell[t].fetches[k].at = "read"
                           /\ bell' = [bell EXCEPT ![t].list = bell[t].fetches[k].page, ![t].fetches[k] = NoFetch]
                           /\ doubtful' = IF bell[t].fetches[k].clean THEN doubtful \ {t} ELSE doubtful \cup {t}
                           /\ UNCHANGED <<stored, untold, post, ask>>
  BY DEF LandFetch
<1> DEFINE b == [bell[t] EXCEPT !.list = bell[t].fetches[k].page, !.fetches = [@ EXCEPT ![k] = NoFetch]]
<1>2. b \in BellRecords /\ bell' = [bell EXCEPT ![t] = b]
  BY <1>1, BellParts DEF BellRecords
<1>3. /\ b.online = bell[t].online /\ b.list = bell[t].fetches[k].page
      /\ \A j \in Fetches : b.fetches[j] = IF j = k THEN NoFetch ELSE bell[t].fetches[j]
  BY BellParts DEF BellRecords
<1> HIDE DEF b
<1>4. t \notin doubtful' => bell[t].fetches[k].clean
  BY <1>1
<1>5. BellSound(t, stored, untold, Pending, post[t], b, doubtful')
  <2>0. /\ BellSound(t, stored, untold, Pending, post[t], bell[t], doubtful)
        /\ NoFetch.at = "none" /\ NoFetch.clean = FALSE /\ SentFetch.at = "sent" /\ SentFetch.clean = FALSE
    BY BellParts
  <2>1. ~b.online => post[t] = <<>>
    BY <1>3, <2>0 DEF BellSound
  <2>2. ASSUME NEW j \in Fetches, b.fetches[j].clean
        PROVE  b.online /\ b.fetches[j].at = "read" /\ Faithful(stored, untold, Pending, post[t], b.fetches[j].page)
    <3>1. j # k /\ b.fetches[j] = bell[t].fetches[j]
      BY <1>3, <2>0, <2>2
    <3>2. QED BY <1>3, <2>0, <2>2, <3>1 DEF BellSound
  <2>3. t \notin doubtful' => Faithful(stored, untold, Pending, post[t], b.list)
    BY <1>3, <1>4, <2>0 DEF BellSound
  <2>4. QED BY <2>0, <2>1, <2>2, <2>3 DEF BellSound
<1>6. post[t] \in Seq(Notices) /\ post' = [post EXCEPT ![t] = post[t]]
  BY <1>1, BellParts
<1>7. doubtful' \subseteq Bells /\ \A u \in Bells : u # t /\ u \in doubtful => u \in doubtful'
  BY <1>1 DEF BellInv, BellTypes
<1>8. QED BY <1>1, <1>2, <1>5, <1>6, <1>7, FetchSteps

LEMMA FailFetchStep ==
    ASSUME BellInv, NEW t \in Bells, FailFetch(t) PROVE BellInv'
<1>1. PICK k \in Fetches : /\ bell' = [bell EXCEPT ![t].fetches[k] = NoFetch]
                           /\ doubtful' = doubtful \cup {t}
                           /\ UNCHANGED <<stored, untold, post, ask>>
  BY DEF FailFetch
<1> DEFINE b == [bell[t] EXCEPT !.fetches = [@ EXCEPT ![k] = NoFetch]]
<1>2. b \in BellRecords /\ bell' = [bell EXCEPT ![t] = b]
  BY <1>1, BellParts DEF BellRecords
<1>3. /\ b.online = bell[t].online
      /\ \A j \in Fetches : b.fetches[j] = IF j = k THEN NoFetch ELSE bell[t].fetches[j]
  BY BellParts DEF BellRecords
<1> HIDE DEF b
<1>4. BellSound(t, stored, untold, Pending, post[t], b, doubtful')
  <2>0. /\ BellSound(t, stored, untold, Pending, post[t], bell[t], doubtful)
        /\ NoFetch.at = "none" /\ NoFetch.clean = FALSE /\ SentFetch.at = "sent" /\ SentFetch.clean = FALSE
    BY BellParts
  <2>1. ~b.online => post[t] = <<>>
    BY <1>3, <2>0 DEF BellSound
  <2>2. ASSUME NEW j \in Fetches, b.fetches[j].clean
        PROVE  b.online /\ b.fetches[j].at = "read" /\ Faithful(stored, untold, Pending, post[t], b.fetches[j].page)
    <3>1. j # k /\ b.fetches[j] = bell[t].fetches[j]
      BY <1>3, <2>0, <2>2
    <3>2. QED BY <1>3, <2>0, <2>2, <3>1 DEF BellSound
  <2>3. t \in doubtful'
    BY <1>1
  <2>4. QED BY <2>0, <2>1, <2>2, <2>3 DEF BellSound
<1>5. post[t] \in Seq(Notices) /\ post' = [post EXCEPT ![t] = post[t]]
  BY <1>1, BellParts
<1>6. doubtful' \subseteq Bells /\ \A u \in Bells : u # t /\ u \in doubtful => u \in doubtful'
  BY <1>1 DEF BellInv, BellTypes
<1>7. QED BY <1>1, <1>2, <1>4, <1>5, <1>6, FetchSteps

LEMMA DropStep ==
    ASSUME BellInv, NEW t \in Bells, DropConnection(t) PROVE BellInv'
<1> DEFINE F == [k \in Fetches |-> [bell[t].fetches[k] EXCEPT !.clean = FALSE]]
           b == [bell[t] EXCEPT !.online = FALSE, !.fetches = F]
<1>1. /\ bell' = [bell EXCEPT ![t].online = FALSE, ![t].fetches = F]
      /\ post' = [post EXCEPT ![t] = <<>>] /\ UNCHANGED <<stored, untold, ask, doubtful>>
  BY DEF DropConnection
<1>2. /\ F \in [Fetches -> [at: {"none", "sent", "read"}, page: NoteList, clean: BOOLEAN]]
      /\ \A k \in Fetches : F[k].clean = FALSE
  BY BellParts
<1> HIDE DEF F
<1>3. b \in BellRecords /\ bell' = [bell EXCEPT ![t] = b] /\ b.online = FALSE /\ b.fetches = F
  BY <1>1, <1>2, BellParts DEF BellRecords
<1> HIDE DEF b
<1>4. BellSound(t, stored, untold, Pending, <<>>, b, doubtful')
  <2>1. PostSound(stored, untold, Pending, <<>>)
    BY DEF PostSound
  <2>2. QED BY <1>2, <1>3, <2>1 DEF BellSound
<1>5. <<>> \in Seq(Notices)
  BY EmptySeq
<1>6. doubtful' \subseteq Bells
  BY <1>1 DEF BellInv, BellTypes
<1>7. QED BY <1>1, <1>3, <1>4, <1>5, <1>6, FetchSteps

LEMMA ConnectStep ==
    ASSUME BellInv, NEW t \in Bells, ConnectAgain(t) PROVE BellInv'
<1>1. PICK k \in Fetches : /\ ~bell[t].online
                           /\ bell' = [bell EXCEPT ![t].online = TRUE, ![t].fetches = Refetched(t, k)]
                           /\ doubtful' = doubtful \ {t} /\ UNCHANGED <<stored, untold, post, ask>>
  BY DEF ConnectAgain
<1> DEFINE b == [bell[t] EXCEPT !.online = TRUE, !.fetches = Refetched(t, k)]
<1>2. /\ Refetched(t, k) \in [Fetches -> [at: {"none", "sent", "read"}, page: NoteList, clean: BOOLEAN]]
      /\ \A j \in Fetches : Refetched(t, k)[j] = IF j = k THEN SentFetch ELSE bell[t].fetches[j]
  BY BellParts DEF Refetched
<1>3. b \in BellRecords /\ bell' = [bell EXCEPT ![t] = b] /\ b.online = TRUE /\ b.fetches = Refetched(t, k)
  BY <1>1, <1>2, BellParts DEF BellRecords
<1> HIDE DEF b
<1>4. BellSound(t, stored, untold, Pending, post[t], b, doubtful')
  <2>1. ASSUME NEW j \in Fetches PROVE b.fetches[j].clean = FALSE
    <3>1. /\ BellSound(t, stored, untold, Pending, post[t], bell[t], doubtful) /\ SentFetch.clean = FALSE
          /\ bell[t].fetches \in [Fetches -> [at: {"none", "sent", "read"}, page: NoteList, clean: BOOLEAN]]
      BY BellParts
    <3>2. bell[t].fetches[j].clean = FALSE
      BY <1>1, <3>1 DEF BellSound
    <3>3. QED BY <1>2, <1>3, <3>1, <3>2
  <2>2. b.fetches[k].at = "sent"
    BY <1>2, <1>3, BellParts
  <2>3. PostSound(stored, untold, Pending, post[t])
    BY BellParts DEF BellSound
  <2>4. QED BY <1>3, <2>1, <2>2, <2>3 DEF BellSound
<1>5. post[t] \in Seq(Notices) /\ post' = [post EXCEPT ![t] = post[t]]
  BY <1>1, BellParts
<1>6. doubtful' \subseteq Bells /\ \A u \in Bells : u # t /\ u \in doubtful => u \in doubtful'
  BY <1>1 DEF BellInv, BellTypes
<1>7. QED BY <1>1, <1>3, <1>4, <1>5, <1>6, FetchSteps

LEMMA BellSteps ==
    ASSUME BellInv, [BellsNext]_bells PROVE BellInv'
<1>1. CASE CreateNote
  BY <1>1, CreateStep
<1>2. CASE \E n \in untold : AnnounceNew(n)
  BY <1>2, AnnounceNewStep
<1>3. ASSUME NEW t \in Bells,
             HandleMarkAsRead(t) \/ HandleDeleteNote(t) \/ HandleMarkAllAsRead(t) \/ HandleDeleteAll(t)
      PROVE  BellInv'
  <2>1. PICK op \in {"read", "deleted", "read-all", "deleted-all"}, id \in Notes \cup {0} :
            /\ op \in {"read", "deleted"} => id \in Notes
            /\ op \in {"read-all", "deleted-all"} => id = 0
            /\ AskAbout(t, op, id)
    BY <1>3 DEF HandleMarkAsRead, HandleDeleteNote, HandleMarkAllAsRead, HandleDeleteAll, Unread, Listed
  <2>2. QED BY <2>1, AskingStep
<1>4. ASSUME NEW t \in Bells, FindOwned(t) \/ ChangeOne(t) \/ ChangeAll(t) \/ AnnounceChange(t)
      PROVE  BellInv'
  BY <1>4, FindStep, ChangeOneStep, ChangeAllStep, AnnounceChangeStep
<1>5. ASSUME NEW t \in Bells, HearNote(t) \/ Succeeded(t) \/ FailAsk(t) PROVE BellInv'
  BY <1>5, HearStep, SucceedStep, FailStep
<1>6. ASSUME NEW t \in Bells, ServeFetch(t) \/ LandFetch(t) \/ FailFetch(t) PROVE BellInv'
  BY <1>6, ServeStep, LandStep, FailFetchStep
<1>7. ASSUME NEW t \in Bells, DropConnection(t) \/ ConnectAgain(t) PROVE BellInv'
  BY <1>7, DropStep, ConnectStep
<1>8. CASE UNCHANGED bells
  <2>1. Pending' = Pending
    BY <1>8 DEF bells, Pending
  <2>2. QED BY <1>8, <2>1 DEF bells, BellInv, BellTypes, Created
<1>9. QED BY <1>1, <1>2, <1>3, <1>4, <1>5, <1>6, <1>7, <1>8 DEF BellsNext

LEMMA FaithfulListsShowRows ==
    ASSUME BellInv PROVE BellShowsRows
<1> SUFFICES ASSUME NEW t \in Bells, bell[t].online, \A k \in Fetches : bell[t].fetches[k] = NoFetch,
                    post[t] = <<>>, untold = {}, \A u \in Bells : ask[u].at # "changed", t \notin doubtful
             PROVE  bell[t].list = NoteRows
  BY DEF BellShowsRows
<1>1. Faithful(stored, untold, Pending, <<>>, bell[t].list)
  <2>1. \A k \in Fetches : bell[t].fetches[k].at = "none"
    BY DEF NoFetch
  <2>2. BellSound(t, stored, untold, Pending, <<>>, bell[t], doubtful)
    BY BellParts
  <2>3. QED BY <2>1, <2>2 DEF BellSound
<1>2. Pending = {}
  BY DEF Pending
<1>3. bell[t].list \in NoteList /\ stored \in [Notes -> {"none", "unread", "read", "gone"}]
  BY DEF BellInv, BellTypes, BellRecords
<1>4. ASSUME NEW n \in Notes PROVE bell[t].list[n] = NoteRows[n]
  <2>1. /\ Right(stored, {}, <<>>, 0, n, bell[t].list[n])
        /\ bell[t].list[n] = Unlisted => stored[n] \in {"none", "gone"}
    BY <1>1, <1>2 DEF Faithful, Coming
  <2>2. \A j : ~WillRead({}, <<>>, 0, j) /\ ~WillDelete({}, <<>>, 0, j)
    BY DEF WillRead, WillDelete
  <2>3. /\ bell[t].list[n] \in {Unlisted, Once, Seen} /\ stored[n] \in {"none", "unread", "read", "gone"}
        /\ bell[t].list[n] = Once => stored[n] = "unread"
        /\ bell[t].list[n] = Seen => stored[n] = "read"
    BY <1>3, <2>1, <2>2, RowsAfter DEF Right, Once, Seen, Unlisted
  <2>4. QED BY <2>1, <2>3 DEF NoteRows, Once, Seen, Unlisted
<1>5. DOMAIN bell[t].list = Notes /\ DOMAIN NoteRows = Notes
  BY <1>3 DEF NoteList, NoteRows
<1>6. QED BY <1>3, <1>4 DEF NoteList, NoteRows

(* A connected bell with nothing under way shows the table, whatever         *)
(* happened, unless it is in doubt (NotificationBell.tsx, refetch and the    *)
(* listeners), for any number of tabs, notifications and fetches.            *)
THEOREM BellShowsRowsAlways == BellsSpec => []BellShowsRows
<1>1. BellsSpec => []BellInv
  <2>1. BellInv /\ [BellsNext]_bells => BellInv'
    BY BellSteps
  <2>2. QED BY <2>1, BellInitial, PTL DEF BellsSpec
<1>2. BellInv => BellShowsRows
  BY FaithfulListsShowRows
<1>3. QED BY <1>1, <1>2, PTL
=============================================================================
