--------------------------- MODULE RefreshFamilies ---------------------------
(***************************************************************************)
(* Refresh-token families of the Go auth service                           *)
(* (src/auth/internal/store/store.go, called by the handlers of            *)
(* src/auth/internal/server/server.go).                                    *)
(*                                                                         *)
(* A family is one device session of a user.  It owns a chain of refresh   *)
(* tokens: every rotation appends a token and points its predecessor at    *)
(* it.  PostgreSQL runs the statements at READ COMMITTED, so a rotation is *)
(* several steps here: the SELECT takes its statement snapshot, then waits *)
(* for the row lock on the family (FOR UPDATE OF f); when it gets the lock *)
(* the family row is re-read, the joined token row is NOT.  What a         *)
(* transaction writes becomes visible when it commits, so its writes are   *)
(* made in the committing step.                                            *)
(***************************************************************************)
EXTENDS Naturals, FiniteSets

CONSTANTS
    Families,         \* identifiers of refresh families
    Users,            \* account identifiers
    Owner,            \* Owner[f] is the user whose login creates family f
    Tokens,           \* identifiers of refresh-token rows (bounds the chains)
    Requests,         \* concurrent HTTP requests served by the auth service
    Grace,            \* refreshTokenGrace
    IdleTimeout,      \* cfg.RefreshIdleTTL
    AbsoluteTimeout,  \* cfg.RefreshAbsoluteTTL, longer than the idle one
    MaxTime,          \* bound on the clock
    None              \* SQL NULL

ASSUME OwnerAssumption == Owner \in [Families -> Users]
ASSUME TimesAssumption ==
    /\ Grace \in Nat /\ IdleTimeout \in Nat /\ AbsoluteTimeout \in Nat
    /\ MaxTime \in Nat
    /\ 0 < IdleTimeout /\ IdleTimeout < AbsoluteTimeout
ASSUME NoneAssumption == None \notin Families \cup Tokens \cup Requests

VARIABLES
    clock,     \* time.Now() and CURRENT_TIMESTAMP
    family,    \* table RefreshTokenFamily
    token,     \* table AuthRefreshToken
    lock,      \* holder of each family's row lock
    tx,        \* what each request is doing
    sent,      \* tokens that some response put in a cookie
    answer     \* the response sent by the current step, if any

vars == <<clock, family, token, lock, tx, sent, answer>>

-----------------------------------------------------------------------------
\* committedAt: when the row became visible to other transactions.  The login
\* reads the clock for the deadlines just before; the two are one tick here.
FamilyRow == [state: {"absent", "live", "revoked"}, committedAt: Nat,
              idleExpiresAt: Nat, absoluteExpiresAt: Nat]

TokenRow == [family: Families \cup {None}, issuedAt: Nat, expiresAt: Nat,
             graceExpiresAt: Nat, replacedBy: Tokens \cup {None},
             successor: Tokens \cup {None}]

NoFamilyRow == [state |-> "absent", committedAt |-> 0,
                idleExpiresAt |-> 0, absoluteExpiresAt |-> 0]

NoTokenRow == [family |-> None, issuedAt |-> 0, expiresAt |-> 0,
               graceExpiresAt |-> 0, replacedBy |-> None, successor |-> None]

\* A new row of AuthRefreshToken: current, never used.
NewTokenRow(f, now, expires) ==
    [family |-> f, issuedAt |-> now, expiresAt |-> expires,
     graceExpiresAt |-> 0, replacedBy |-> None, successor |-> None]

Phases == {"idle", "lockFamily", "decide", "revoking", "revokeOne", "mint"}

Tx == [pc: Phases, token: Tokens \cup {None}, row: TokenRow, csrf: BOOLEAN,
       now: Nat, targets: SUBSET Families, cleared: SUBSET Tokens]

IdleTx == [pc |-> "idle", token |-> None, row |-> NoTokenRow, csrf |-> FALSE,
           now |-> 0, targets |-> {}, cleared |-> {}]

\* A request that has read row, the row of token t, and goes on in phase pc.
Begun(pc, t, row, csrf) ==
    [IdleTx EXCEPT !.pc = pc, !.token = t, !.row = row, !.csrf = csrf]

Replies == {"rotated", "grace", "replay", "inactive", "csrf", "loggedOut",
            "loggedIn", "failed"}

NoAnswer == [req |-> None, kind |-> "none", token |-> None]

Reply(r, kind, t) == [req |-> r, kind |-> kind, token |-> t]

-----------------------------------------------------------------------------
\* The family a request works on.
FamilyOf(r) == tx[r].row.family

\* Rows of the chain that no later row replaces.
Heads(f) == {t \in Tokens : token[t].family = f /\ token[t].replacedBy = None}

\* Variant with the fault of a head query that forgets "replacedById" IS NULL.
LatestIssued(t, f) ==
    /\ token[t].family = f
    /\ \A u \in Tokens : token[u].family = f => token[u].issuedAt <= token[t].issuedAt

\* ORDER BY "issuedAt" DESC LIMIT 1 over the unreplaced rows.
IsHead(t, f) ==
    /\ t \in Heads(f)
    /\ \A u \in Heads(f) : token[u].issuedAt <= token[t].issuedAt

Classify(t, row, head, now) ==
    IF t = head /\ row.replacedBy = None THEN "current"
    ELSE IF row.replacedBy = head /\ row.graceExpiresAt > now THEN "grace"
    ELSE "replay"

\* Variant with the fault of an erasure one tick early.
EarlyExpiredSuccessors(now) ==
    {t \in Tokens : token[t].successor # None /\ token[t].graceExpiresAt <= now + 1}

\* Rows whose recovery ciphertext a rotation erases, in every family.
ExpiredSuccessors(now) ==
    {t \in Tokens : token[t].successor # None /\ token[t].graceExpiresAt <= now}

ClearSuccessors(rows, T) ==
    [t \in Tokens |-> IF t \in T THEN [rows[t] EXCEPT !.successor = None]
                                 ELSE rows[t]]

\* Variant with the fault of a predicate that forgets "revokedAt" IS NULL.
ActiveIfUnexpired(f, now) ==
    /\ family[f].state # "absent"
    /\ family[f].idleExpiresAt > now
    /\ family[f].absoluteExpiresAt > now

\* The family predicate of every query: not revoked, neither timeout passed.
Active(f, now) ==
    /\ family[f].state = "live"
    /\ family[f].idleExpiresAt > now
    /\ family[f].absoluteExpiresAt > now

Earlier(a, b) == IF a <= b THEN a ELSE b

\* Variant with the fault of a transaction that is never ended.
LeakedLocks(r) == lock

\* Commit or rollback gives back every row lock.
Released(r) == [f \in Families |-> IF lock[f] = r THEN None ELSE lock[f]]

Unused == {t \in Tokens : token[t].family = None}

\* The bound on chains: a request that may need a new row, because the token it
\* read is not replaced, starts only while there is a row for it and for every
\* such request under way.
RowsLeft ==
    Cardinality({r \in Requests : /\ tx[r].pc \in {"lockFamily", "decide"}
                                  /\ tx[r].row.replacedBy = None})
        < Cardinality(Unused)

Finish(r, kind, t) ==
    /\ tx' = [tx EXCEPT ![r] = IdleTx]
    /\ lock' = Released(r)
    /\ answer' = Reply(r, kind, t)

Continue(r, pc) ==
    /\ tx' = [tx EXCEPT ![r].pc = pc]
    /\ answer' = NoAnswer

-----------------------------------------------------------------------------
\* POST /auth/refresh.  The SELECT of the rotation reads the token row in its
\* statement snapshot; csrf says whether the header matches the family's hash.
RefreshRead(r, t, csrf) ==
    /\ tx[r].pc = "idle"
    /\ t \in sent
    /\ token[t].replacedBy = None => RowsLeft
    /\ tx' = [tx EXCEPT ![r] = Begun("lockFamily", t, token[t], csrf)]
    /\ answer' = NoAnswer
    /\ UNCHANGED <<clock, family, token, lock, sent>>

\* FOR UPDATE OF f is granted; the token row keeps its snapshot value.
LockFamily(r) ==
    /\ tx[r].pc = "lockFamily"
    /\ lock[FamilyOf(r)] = None
    /\ lock' = [lock EXCEPT ![FamilyOf(r)] = r]
    /\ tx' = [tx EXCEPT ![r].pc = "decide", ![r].now = clock]
    /\ answer' = NoAnswer
    /\ UNCHANGED <<clock, family, token, sent>>

\* The UPDATE that clears expired successors waits for rows another
\* transaction has cleared and not yet committed.
ClearGranted(r) ==
    /\ tx[r].pc = "decide"
    /\ \A q \in Requests \ {r} :
         tx[q].cleared \cap ExpiredSuccessors(tx[r].now) = {}

RejectInactive(r) ==
    /\ ClearGranted(r)
    /\ ~Active(FamilyOf(r), tx[r].now)
    /\ Finish(r, "inactive", None)
    /\ UNCHANGED <<clock, family, token, sent>>

RejectCSRF(r) ==
    /\ ClearGranted(r)
    /\ Active(FamilyOf(r), tx[r].now)
    /\ ~tx[r].csrf
    /\ Finish(r, "csrf", None)
    /\ UNCHANGED <<clock, family, token, sent>>

\* The checks have passed and the request's token is classified.
Decides(r, head, use) ==
    /\ ClearGranted(r)
    /\ Active(FamilyOf(r), tx[r].now)
    /\ tx[r].csrf
    /\ IsHead(head, FamilyOf(r))
    /\ Classify(tx[r].token, tx[r].row, head, tx[r].now) = use

\* The immediate predecessor inside its grace window is answered with the
\* current token, recovered from the ciphertext; nothing is committed.
AnswerGrace(r, head) ==
    /\ Decides(r, head, "grace")
    /\ tx[r].row.successor = head
    /\ token[head].expiresAt > tx[r].now
    /\ Finish(r, "grace", head)
    /\ sent' = sent \cup {head}
    /\ UNCHANGED <<clock, family, token>>

\* The inconsistencies the code guards against: no current token, a current
\* token that expired before its family, no ciphertext for a token in its grace
\* window, or the ciphertext of another token than the head.  The answer to each
\* is a rolled back transaction, as in Abort.
BrokenChain(r) ==
    /\ ClearGranted(r)
    /\ Active(FamilyOf(r), tx[r].now)
    /\ tx[r].csrf
    /\ \/ Heads(FamilyOf(r)) = {}
       \/ \E head \in Tokens :
            Decides(r, head, "grace") /\ tx[r].row.successor # head
       \/ \E head \in Tokens, use \in {"current", "grace"} :
            Decides(r, head, use) /\ token[head].expiresAt <= tx[r].now

\* The current token is replaced: new row, pointer and ciphertext in the old
\* row, idle deadline of the family, expired ciphertexts erased; one commit.
Rotate(r, head, new) ==
    LET now     == tx[r].now
        f       == FamilyOf(r)
        expires == Earlier(now + IdleTimeout, family[f].absoluteExpiresAt)
        cleared == ClearSuccessors(token, ExpiredSuccessors(now))
    IN  /\ Decides(r, head, "current")
        /\ token[head].expiresAt > now
        /\ new \in Unused
        /\ token' = [cleared EXCEPT
                       ![new] = NewTokenRow(f, now, expires),
                       ![head] = [@ EXCEPT !.replacedBy = new, !.successor = new,
                                           !.graceExpiresAt = now + Grace]]
        /\ family' = [family EXCEPT ![f].idleExpiresAt = expires]
        /\ Finish(r, "rotated", new)
        /\ sent' = sent \cup {new}
        /\ UNCHANGED clock

\* Variant with the fault of a replay that revokes its own family only.
StartReplayOfOne(r) ==
    /\ \E head \in Tokens : Decides(r, head, "replay")
    /\ tx' = [tx EXCEPT ![r].pc = "revoking",
                        ![r].cleared = ExpiredSuccessors(tx[r].now),
                        ![r].targets = {FamilyOf(r)}]
    /\ answer' = NoAnswer
    /\ UNCHANGED <<clock, family, token, lock, sent>>

\* A replay: the UPDATE that revokes every live family of the user begins.
StartReplay(r) ==
    /\ \E head \in Tokens : Decides(r, head, "replay")
    /\ tx' = [tx EXCEPT
                ![r].pc = "revoking",
                ![r].cleared = ExpiredSuccessors(tx[r].now),
                ![r].targets = {f \in Families :
                                  /\ Owner[f] = Owner[FamilyOf(r)]
                                  /\ family[f].state = "live"}]
    /\ answer' = NoAnswer
    /\ UNCHANGED <<clock, family, token, lock, sent>>

\* The UPDATE takes the row locks it needs one after another.
LockTarget(r, f) ==
    /\ tx[r].pc = "revoking"
    /\ f \in tx[r].targets
    /\ lock[f] = None
    /\ lock' = [lock EXCEPT ![f] = r]
    /\ answer' = NoAnswer
    /\ UNCHANGED <<clock, family, token, tx, sent>>

CommitReplay(r) ==
    /\ tx[r].pc = "revoking"
    /\ \A f \in tx[r].targets : lock[f] = r
    /\ family' = [f \in Families |->
                    IF f \in tx[r].targets
                      THEN [family[f] EXCEPT !.state = "revoked"]
                      ELSE family[f]]
    /\ token' = ClearSuccessors(token, tx[r].cleared)
    /\ Finish(r, "replay", None)
    /\ UNCHANGED <<clock, sent>>

-----------------------------------------------------------------------------
\* What GetRefreshFamily accepts: a current, unexpired token of an active family.
CurrentSession(t) ==
    /\ token[t].replacedBy = None
    /\ token[t].expiresAt > clock
    /\ Active(token[t].family, clock)

\* POST /auth/logout: GetRefreshFamily, then a separate UPDATE.
LogoutRead(r, t, csrf) ==
    /\ tx[r].pc = "idle"
    /\ t \in sent
    /\ IF CurrentSession(t) /\ csrf
         THEN /\ tx' = [tx EXCEPT ![r] = Begun("revokeOne", t, token[t], csrf)]
              /\ answer' = NoAnswer
         ELSE /\ answer' = Reply(r, IF CurrentSession(t) THEN "csrf" ELSE "inactive",
                                 None)
              /\ UNCHANGED tx
    /\ UNCHANGED <<clock, family, token, lock, sent>>

\* UPDATE ... WHERE "id" = $1 AND "revokedAt" IS NULL, once no one locks the
\* row; a zero row count is ErrNotFound.  A failed login ends here too.
RevokeFamily(r) ==
    LET f == FamilyOf(r)
    IN  /\ tx[r].pc = "revokeOne"
        /\ lock[f] = None
        /\ family' = [family EXCEPT
                        ![f].state = IF @ = "live" THEN "revoked" ELSE @]
        /\ Finish(r, IF tx[r].token \notin sent THEN "failed"
                     ELSE IF family[f].state = "live" THEN "loggedOut"
                     ELSE "inactive", None)
        /\ UNCHANGED <<clock, token, sent>>

\* A verified login or registration inserts the family and its first token.
CreateFamily(r, f, new) ==
    LET row == NewTokenRow(f, clock, clock + IdleTimeout)
    IN  /\ tx[r].pc = "idle"
        /\ family[f].state = "absent"
        /\ RowsLeft
        /\ new \in Unused
        /\ family' = [family EXCEPT ![f] =
                        [state |-> "live", committedAt |-> clock,
                         idleExpiresAt |-> clock + IdleTimeout,
                         absoluteExpiresAt |-> clock + AbsoluteTimeout]]
        /\ token' = [token EXCEPT ![new] = row]
        /\ tx' = [tx EXCEPT ![r] = Begun("mint", new, row, TRUE)]
        /\ answer' = NoAnswer
        /\ UNCHANGED <<clock, lock, sent>>

MintSucceeds(r) ==
    /\ tx[r].pc = "mint"
    /\ sent' = sent \cup {tx[r].token}
    /\ Finish(r, "loggedIn", tx[r].token)
    /\ UNCHANGED <<clock, family, token>>

\* createLogin revokes the family it has just created.
MintFails(r) ==
    /\ tx[r].pc = "mint"
    /\ IF CurrentSession(tx[r].token)
         THEN Continue(r, "revokeOne") /\ UNCHANGED lock
         ELSE Finish(r, "failed", None)
    /\ UNCHANGED <<clock, family, token, sent>>

-----------------------------------------------------------------------------
\* The request's context is cancelled, the database fails, a consistency check
\* fails (BrokenChain), or PostgreSQL picks the transaction as a deadlock
\* victim: everything is rolled back.
Abort(r) ==
    /\ tx[r].pc \in {"lockFamily", "decide", "revoking", "revokeOne"}
    /\ Finish(r, "failed", None)
    /\ UNCHANGED <<clock, family, token, sent>>

\* Requests q waits for, when it can do nothing but wait.
WaitsFor(q) ==
    CASE tx[q].pc \in {"lockFamily", "revokeOne"} -> {lock[FamilyOf(q)]} \ {None}
      [] tx[q].pc = "revoking" ->
           IF \E f \in tx[q].targets : lock[f] = None THEN {}
           ELSE {lock[f] : f \in tx[q].targets} \ {q}
      [] tx[q].pc = "decide" ->
           {p \in Requests \ {q} :
              tx[p].cleared \cap ExpiredSuccessors(tx[q].now) # {}}
      [] OTHER -> {}

\* PostgreSQL's deadlock detector finds r in a set of requests that wait only
\* for one another.
Deadlocked(r) ==
    \E S \in SUBSET Requests :
      /\ r \in S
      /\ \A q \in S : WaitsFor(q) # {} /\ WaitsFor(q) \subseteq S

BreakDeadlock(r) == Deadlocked(r) /\ Abort(r)

Tick ==
    /\ clock < MaxTime
    /\ clock' = clock + 1
    /\ answer' = NoAnswer
    /\ UNCHANGED <<family, token, lock, tx, sent>>

-----------------------------------------------------------------------------
Init ==
    /\ clock = 0
    /\ family = [f \in Families |-> NoFamilyRow]
    /\ token = [t \in Tokens |-> NoTokenRow]
    /\ lock = [f \in Families |-> None]
    /\ tx = [r \in Requests |-> IdleTx]
    /\ sent = {}
    /\ answer = NoAnswer

Decide(r) ==
    \/ RejectInactive(r)
    \/ RejectCSRF(r)
    \/ StartReplay(r)
    \/ \E head \in Tokens : AnswerGrace(r, head)
    \/ \E head \in Tokens, new \in Tokens : Rotate(r, head, new)

Start(r) ==
    \/ \E t \in Tokens, csrf \in BOOLEAN : RefreshRead(r, t, csrf)
    \/ \E t \in Tokens, csrf \in BOOLEAN : LogoutRead(r, t, csrf)
    \/ \E f \in Families, new \in Tokens : CreateFamily(r, f, new)

Step(r) ==
    \/ LockFamily(r)
    \/ Decide(r)
    \/ \E f \in Families : LockTarget(r, f)
    \/ CommitReplay(r)
    \/ RevokeFamily(r)
    \/ MintSucceeds(r)
    \/ MintFails(r)

Next ==
    \/ Tick
    \/ \E r \in Requests : Start(r) \/ Step(r) \/ Abort(r)

Spec == Init /\ [][Next]_vars

\* A started request goes on.  Row locks are granted in the order of their
\* queue, so a waiter is not passed over for ever: strong fairness for the
\* request's own steps; the deadlock detector always runs.
Fairness ==
    \A r \in Requests : SF_vars(Step(r)) /\ WF_vars(BreakDeadlock(r))

LiveSpec == Spec /\ Fairness
-----------------------------------------------------------------------------
(* What must hold of the sessions.                                         *)

\* Every table, lock and request has its type.
TypeOK ==
    /\ clock \in Nat
    /\ family \in [Families -> FamilyRow]
    /\ token \in [Tokens -> TokenRow]
    /\ lock \in [Families -> Requests \cup {None}]
    /\ tx \in [Requests -> Tx]
    /\ sent \in SUBSET Tokens
    /\ answer \in [req: Requests \cup {None}, kind: Replies \cup {"none"},
                   token: Tokens \cup {None}]

\* Concurrent rotations never fork a session: a family in the table has exactly
\* one current token, no token replaces two others, replacement stays inside
\* the family, and a recovery ciphertext holds the token that replaced the row.
LinearChains ==
    /\ \A f \in Families :
         family[f].state # "absent" => \E h \in Tokens : Heads(f) = {h}
    /\ \A t \in Tokens : token[t].replacedBy # None =>
         /\ token[t].family # None
         /\ token[token[t].replacedBy].family = token[t].family
         /\ \A u \in Tokens :
              token[u].replacedBy = token[t].replacedBy => u = t
    /\ \A t \in Tokens : token[t].successor \in {None, token[t].replacedBy}

\* The two copies of the idle deadline agree: introspection reads the family's
\* and rotation and logout also read the token's; neither outlives the
\* absolute lifetime.
HeadExpiresWithFamily ==
    \A f \in Families : \A t \in Heads(f) :
      /\ token[t].expiresAt = family[f].idleExpiresAt
      /\ family[f].idleExpiresAt <= family[f].absoluteExpiresAt

\* The rotation's own consistency errors (no current token, an expired one
\* in an active family, no ciphertext in the grace window, or another token's) never happen, although the
\* rows a request decides with may have been rotated or erased since it read them.
NoBrokenChain == \A r \in Requests : ~BrokenChain(r)

\* A session is one chain of tokens with one current token, whose deadline is
\* the session's, and every rotation finds it so.
ChainsIntact == LinearChains /\ HeadExpiresWithFamily /\ NoBrokenChain

\* A refresh answered as a replay has revoked every family of the user whose
\* login had committed before the request got its lock, although it only locks
\* and re-reads them one after another.
ReplayRevokesEveryFamily ==
    [][\A r \in Requests : answer' = Reply(r, "replay", None) =>
         \A f \in Families :
           (/\ Owner[f] = Owner[FamilyOf(r)]
            /\ family[f].state = "live"
            /\ family[f].committedAt < tx[r].now)
             => family'[f].state = "revoked"]_vars

RevokedStays ==
    \A f \in Families : family[f].state = "revoked" =>
        /\ family'[f] = family[f]
        /\ \A t \in Tokens : token'[t].family = f => token[t].family = f
        /\ answer'.kind \in {"rotated", "grace"}
             => token[tx[answer'.req].token].family # f

HeadHandedOut ==
    answer'.kind \in {"rotated", "grace"} =>
        LET t == answer'.token IN
        /\ token'[t].replacedBy = None
        /\ token'[t].expiresAt > tx[answer'.req].now
        /\ family'[token'[t].family].state = "live"

\* Revocation is final whatever was under way: a revoked family stays as it
\* is, gets no token, and no refresh is answered with one of its tokens.
NoRefreshAfterRevocation == [][RevokedStays]_vars

\* Whoever is answered gets the one token that works next: a rotation and the
\* concurrent requests answered from its grace window agree.
RefreshHandsOutTheHead == [][HeadHandedOut]_vars

\* The two together: a client is handed a token only by a session that is
\* alive, and then the one that works next; neither a late rotation nor its
\* retries undo a revocation.
RotationsSound == [][RevokedStays /\ HeadHandedOut]_vars

\* Every request is answered: rotations, logouts and replays that wait for
\* each other's row locks do not wait for ever.
Answered == \A r \in Requests : tx[r].pc # "idle" ~> tx[r].pc = "idle"

\* authentication-authorization.md 4.2: the immediately previous token is
\* tolerated for 5 seconds.  No request whose token was replaced by the
\* current one less than Grace ago is taken for a replay.
GraceToleratesConcurrentUse ==
    [][\A r \in Requests : answer' = Reply(r, "replay", None) =>
         LET row == token[tx[r].token] IN
         ~ (/\ row.replacedBy \in Heads(FamilyOf(r))
            /\ row.graceExpiresAt > tx[r].now)]_vars
=============================================================================
