-------------------------------- MODULE Identities --------------------------------
(***************************************************************************)
(* Which account a person is signed in to: sign-in with 42 and linking of  *)
(* a 42 account (oauth42.go, oauth.go), registration and sign-in with a    *)
(* password (server.go, store.go).  Every visit that changes accounts or   *)
(* identities is a database transaction of several statements under READ   *)
(* COMMITTED; what it inserts is not seen by others, but a unique key that *)
(* another open transaction has inserted makes an insert wait, and fail    *)
(* once that transaction has committed.                                    *)
(*                                                                         *)
(* A cycle of waiting transactions is broken by the database: Fails.       *)
(* Profile fields, rate limits and the family that a sign-in creates       *)
(* (RefreshFamilies) are left out.                                         *)
(***************************************************************************)
EXTENDS Integers, FiniteSets

CONSTANTS Visits,            \* slots for visits under way
          Subjects, Emails,  \* users of the provider, addresses
          MaxAccounts, MaxStarts

VARIABLES users,    \* User: per committed account, its unique email
          identity,       \* AuthIdentity: per committed (provider, subject), the account
          issued,      \* account identifiers given so far
          started,     \* sign-ins and links started so far
          states,      \* OAuthTransaction: those started and not consumed
          visit,       \* the visits under way
          gone         \* history: users deleted

identities == <<users, identity, issued, started, states, visit, gone>>

Away == [op |-> "none", phase |-> "none"]
Local(e) == <<"LOCAL", e>>
FortyTwo(s) == <<"FORTY_TWO", s>>

(* The identity that a visit is about. *)
KeyOf(v) == IF v.op \in {"register", "password"} THEN Local(v.email) ELSE FortyTwo(v.subject)

Step(q, phase) == visit' = [visit EXCEPT ![q].phase = phase]
Leave(q) == visit' = [visit EXCEPT ![q] = Away]

(* What other transactions hold: rows they inserted and rows they locked.    *)
Others(q) == {visit[d] : d \in Visits \ {q}}
Inserting(q, key) == \E v \in Others(q) : v.phase \in {"enrich", "commit"} /\ v.inserts /\ KeyOf(v) = key
EmailTaken(q, e) == \E v \in Others(q) : v.phase \in {"insert", "enrich", "commit"} /\ v.fresh /\ v.email = e
Locked(q, key) == \E v \in Others(q) : v.phase # "none" /\ key \in v.locks
UserLocked(q, u) ==
    \E v \in Others(q) : v.phase = "commit" /\ v.user = u /\ ~v.fresh
Referenced(q, u) ==
    \E v \in Others(q) : v.phase \in {"enrich", "commit"} /\ v.user = u /\ v.inserts

Visiting(q, v) ==
    visit' = [visit EXCEPT ![q] =
                [op |-> v.op, phase |-> v.phase, subject |-> v.subject, email |-> v.email, by |-> v.by,
                 user |-> 0, fresh |-> FALSE, inserts |-> FALSE, locks |-> {}]]

-----------------------------------------------------------------------------
(* handleFortyTwoStart and handleAccountLink: a state for the provider.      *)
Start(purpose, u) ==
    /\ started < MaxStarts /\ started' = started + 1
    /\ states' = states \cup {[no |-> started, purpose |-> purpose, by |-> u]}
    /\ UNCHANGED <<users, identity, issued, visit, gone>>
StartLogin == Start("login", 0)
StartLink(u) == u \in DOMAIN users /\ Start("link", u)

(* handleFortyTwoCallback: the state is consumed before the profile is       *)
(* fetched, so a visit that fails afterwards has to start again.             *)
Callback(q, st, s, e) ==
    /\ visit[q] = Away
    /\ states' = states \ {st}
    /\ \/ Visiting(q, [op |-> st.purpose, phase |-> "find", subject |-> s, email |-> e, by |-> st.by])
       \/ UNCHANGED visit    \* the provider does not answer, or a link without its user: 409
    /\ UNCHANGED <<users, identity, issued, started, gone>>
Register(q, e) ==
    /\ visit[q] = Away
    /\ Visiting(q, [op |-> "register", phase |-> "create", subject |-> "none", email |-> e, by |-> 0])
    /\ UNCHANGED <<users, identity, issued, started, states, gone>>

(* handleLogin: the credential is read, then the password verified.          *)
PasswordLogin(q, e) ==
    /\ visit[q] = Away /\ Local(e) \in DOMAIN identity
    /\ visit' = [visit EXCEPT ![q] = [op |-> "password", phase |-> "resolved", subject |-> "none", email |-> e,
                    by |-> 0, user |-> identity[Local(e)], fresh |-> FALSE, inserts |-> FALSE, locks |-> {}]]
    /\ UNCHANGED <<users, identity, issued, started, states, gone>>

-----------------------------------------------------------------------------
(* findIdentityUser for the 42 subject, FOR UPDATE of the identity.          *)
FindIdentity(q) ==
    LET v == visit[q]  key == FortyTwo(v.subject) IN
    /\ v.phase = "find" /\ ~Locked(q, key)
    /\ IF key \in DOMAIN identity
       THEN IF v.op = "link" /\ identity[key] # v.by THEN Leave(q)
            ELSE visit' = [visit EXCEPT ![q].phase = "enrich", ![q].user = identity[key], ![q].locks = {key}]
       ELSE IF v.op = "link"
            THEN visit' = [visit EXCEPT ![q].phase = "insert", ![q].user = v.by]
            ELSE Step(q, "by email")
    /\ UNCHANGED <<users, identity, issued, started, states, gone>>

(* "Automatic email linking deliberately considers LOCAL identities only."   *)
FindByEmail(q) ==
    LET v == visit[q]  key == Local(v.email) IN
    /\ v.phase = "by email" /\ ~Locked(q, key)
    /\ IF key \in DOMAIN identity
       THEN visit' = [visit EXCEPT ![q].phase = "insert", ![q].user = identity[key], ![q].locks = {key}]
       ELSE Step(q, "create")
    /\ UNCHANGED <<users, identity, issued, started, states, gone>>

\* Variant with the fault of a loser that answers with its provisional user.
ProvisionalWins(q) ==
    visit' = [visit EXCEPT ![q].phase = IF @ = "insert" THEN "resolved" ELSE "lookup"]

(* A unique key is taken: roll back, and look for the winner of a 42 sign-in. *)
Conflict(q) ==
    IF visit[q].op = "login"
    THEN visit' = [visit EXCEPT ![q] = [@ EXCEPT !.phase = "lookup", !.user = 0, !.fresh = FALSE, !.locks = {}]]
    ELSE Leave(q)

(* createFortyTwoUser, and the User of CreateLocalAccount.                   *)
CreateUser(q) ==
    LET v == visit[q] IN
    /\ v.phase = "create" /\ ~EmailTaken(q, v.email)
    /\ IF \E u \in DOMAIN users : users[u] = v.email
       THEN Conflict(q) /\ UNCHANGED issued
       ELSE /\ issued < MaxAccounts /\ issued' = issued + 1
            /\ visit' = [visit EXCEPT ![q].phase = "insert", ![q].user = issued + 1, ![q].fresh = TRUE]
    /\ UNCHANGED <<users, identity, started, states, gone>>

(* insertFortyTwoIdentity and the LOCAL identity of CreateLocalAccount.  The *)
(* reference to an account of others locks its row against deletion.         *)
InsertIdentity(q) ==
    LET v == visit[q] IN
    /\ v.phase = "insert" /\ ~Inserting(q, KeyOf(v))
    /\ ~v.fresh => ~\E w \in Others(q) : w.op = "link" /\ w.inserts /\ w.phase = "commit" /\ w.user = v.user
    /\ CASE KeyOf(v) \in DOMAIN identity                -> Conflict(q)
         [] KeyOf(v) \notin DOMAIN identity /\ ~v.fresh /\ v.user \notin DOMAIN users -> Leave(q)
         [] OTHER -> visit' = [visit EXCEPT ![q].phase = "enrich", ![q].inserts = TRUE]
    /\ UNCHANGED <<users, identity, issued, started, states, gone>>

(* enrichFortyTwoUser and updateFortyTwoIdentity.  A link that inserted      *)
(* first selects the user FOR UPDATE, which waits for all who refer to it.   *)
Enrich(q) ==
    LET v == visit[q] IN
    /\ v.phase = "enrich" /\ ~UserLocked(q, v.user)
    /\ v.op = "link" /\ v.inserts => ~Referenced(q, v.user)
    /\ IF v.fresh \/ v.user \in DOMAIN users THEN Step(q, "commit") ELSE Leave(q)
    /\ UNCHANGED <<users, identity, issued, started, states, gone>>

CommitVisit(q) ==
    LET v == visit[q] IN
    /\ v.phase = "commit"
    /\ users' = IF v.fresh THEN [u \in DOMAIN users \cup {v.user} |->
                                      IF u = v.user THEN v.email ELSE users[u]] ELSE users
    /\ identity' = IF v.inserts THEN [k \in DOMAIN identity \cup {KeyOf(v)} |->
                                      IF k = KeyOf(v) THEN v.user ELSE identity[k]] ELSE identity
    /\ IF v.op = "link" THEN Leave(q)
       ELSE visit' = [visit EXCEPT ![q] = [@ EXCEPT !.phase = "resolved", !.locks = {}]]
    /\ UNCHANGED <<issued, started, states, gone>>

(* findIdentityUserPool: the winner's account, after the loser's rollback.   *)
Lookup(q) ==
    LET v == visit[q] IN
    /\ v.phase = "lookup"
    /\ IF KeyOf(v) \in DOMAIN identity
       THEN visit' = [visit EXCEPT ![q].phase = "resolved", ![q].user = identity[KeyOf(v)]]
       ELSE Leave(q)
    /\ UNCHANGED <<users, identity, issued, started, states, gone>>

(* createLogin: the family refers to the account, or there is none.  An      *)
(* error in any statement, and the victim of a deadlock, rolls back.         *)
EndVisit(q) ==
    /\ visit[q] # Away
    /\ Leave(q)
    /\ UNCHANGED <<users, identity, issued, started, states, gone>>

(* An account goes, with its identities, unless a transaction holds a row of *)
(* it; its links that were started lose their user (ON DELETE SET NULL), and *)
(* the callback answers 409.                                                 *)
CloseAccount(u) ==
    /\ u \in DOMAIN users
    /\ \A q \in Visits :
          /\ visit[q].phase \in {"enrich", "commit"} => visit[q].user # u \/ (visit[q].phase = "enrich" /\ ~visit[q].inserts)
          /\ visit[q].phase # "none" => \A k \in visit[q].locks : identity[k] # u
    /\ users' = [w \in DOMAIN users \ {u} |-> users[w]]
    /\ identity' = [k \in {j \in DOMAIN identity : identity[j] # u} |-> identity[k]]
    /\ states' = {st \in states : st.by # u}
    /\ gone' = gone \cup {u}
    /\ UNCHANGED <<issued, started, visit>>

-----------------------------------------------------------------------------
IdentitiesInit ==
    /\ users = [u \in {} |-> 0] /\ identity = [k \in {} |-> 0] /\ issued = 0
    /\ started = 0 /\ states = {}
    /\ visit = [q \in Visits |-> Away] /\ gone = {}

IdentitiesNext ==
    \/ StartLogin \/ \E u \in 1..issued : StartLink(u) \/ CloseAccount(u)
    \/ \E q \in Visits :
          \/ \E e \in Emails : Register(q, e) \/ PasswordLogin(q, e)
          \/ \E st \in states, s \in Subjects, e \in Emails : Callback(q, st, s, e)
          \/ FindIdentity(q) \/ FindByEmail(q) \/ CreateUser(q) \/ InsertIdentity(q)
          \/ Enrich(q) \/ CommitVisit(q) \/ Lookup(q) \/ EndVisit(q)

IdentitiesSpec == IdentitiesInit /\ [][IdentitiesNext]_identities

-----------------------------------------------------------------------------
(* Who is signed in, or about to be, is signed in to the account that owns   *)
(* the identity he came with, never to one that a lost race has created and  *)
(* rolled back, nor to another's that was linked meanwhile.  And nobody is   *)
(* locked out: an account that exists has an identity to sign in with, so    *)
(* the loser of a race leaves no account behind that takes its e-mail        *)
(* address for ever.                                                         *)
IdentitiesOwned ==
    /\ \A q \in Visits : visit[q].phase = "resolved" =>
          \/ KeyOf(visit[q]) \in DOMAIN identity /\ identity[KeyOf(visit[q])] = visit[q].user
          \/ visit[q].user \in gone
    /\ \A u \in DOMAIN users : \E k \in DOMAIN identity : identity[k] = u
=============================================================================
