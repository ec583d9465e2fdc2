----------------------- MODULE RefreshFamilies_proofs ------------------------
(***************************************************************************)
(* Proofs about RefreshFamilies, for any families, tokens, requests and    *)
(* timeouts.                                                               *)
(***************************************************************************)
EXTENDS RefreshFamilies, TLAPS

\* Arithmetic and row updates, typed once.
LEMMA EarlierType ==
    ASSUME NEW a \in Nat, NEW b \in Nat
    PROVE  Earlier(a, b) \in Nat /\ Earlier(a, b) <= b
BY DEF Earlier

\* A row that is inserted has the columns of its table.
LEMMA NewTokenRowType ==
    ASSUME NEW f \in Families, NEW n \in Nat, NEW e \in Nat
    PROVE  NewTokenRow(f, n, e) \in TokenRow
BY DEF NewTokenRow, TokenRow

\* A handler that has not begun is a transaction of the model.
LEMMA IdleTxType == IdleTx \in Tx
BY DEF IdleTx, Tx, TokenRow, NoTokenRow, Phases

\* The record updates of a request under way.
LEMMA TxMoves ==
    ASSUME NEW x \in Tx, NEW pc \in Phases
    PROVE  LET y == [x EXCEPT !.pc = pc]
           IN  y \in Tx /\ y.token = x.token /\ y.row = x.row
BY DEF Tx

\* The record update of a request that gets its family's lock.
LEMMA TxLocks ==
    ASSUME NEW x \in Tx, NEW n \in Nat
    PROVE  LET y == [x EXCEPT !.pc = "decide", !.now = n]
           IN  y \in Tx /\ y.token = x.token /\ y.row = x.row
BY DEF Tx, Phases

\* What a request starts with.
LEMMA TxStarts ==
    ASSUME NEW pc \in Phases, NEW t \in Tokens, NEW row \in TokenRow,
           NEW csrf \in BOOLEAN
    PROVE  /\ Begun(pc, t, row, csrf) \in Tx
           /\ Begun(pc, t, row, csrf).token = t
           /\ Begun(pc, t, row, csrf).row = row
           /\ Begun(pc, t, row, csrf).targets = {}
           /\ Begun(pc, t, row, csrf).cleared = {}
BY IdleTxType DEF Begun, Tx, IdleTx

\* Erasing ciphertexts touches no other column.
LEMMA ClearSuccessorsKeeps ==
    ASSUME NEW rows \in [Tokens -> TokenRow], NEW T
    PROVE  /\ ClearSuccessors(rows, T) \in [Tokens -> TokenRow]
           /\ \A t \in Tokens :
                /\ ClearSuccessors(rows, T)[t].family = rows[t].family
                /\ ClearSuccessors(rows, T)[t].issuedAt = rows[t].issuedAt
                /\ ClearSuccessors(rows, T)[t].expiresAt = rows[t].expiresAt
                /\ ClearSuccessors(rows, T)[t].graceExpiresAt = rows[t].graceExpiresAt
                /\ ClearSuccessors(rows, T)[t].replacedBy = rows[t].replacedBy
                /\ ClearSuccessors(rows, T)[t].successor
                     = IF t \in T THEN None ELSE rows[t].successor
BY DEF ClearSuccessors, TokenRow

\* Ending a request keeps the types of everything it touches.
LEMMA FinishType ==
    ASSUME TypeOK, NEW r \in Requests, NEW k \in Replies,
           NEW t \in Tokens \cup {None}, Finish(r, k, t)
    PROVE  /\ tx' \in [Requests -> Tx]
           /\ lock' \in [Families -> Requests \cup {None}]
           /\ answer' \in [req: Requests \cup {None}, kind: Replies \cup {"none"},
                           token: Tokens \cup {None}]
BY IdleTxType DEF Finish, TypeOK, Released, Reply

-----------------------------------------------------------------------------
\* Tokens in cookies are rows of a family, and a request under way works on the
\* family of its token: without it the model's lookups would have no type.
KnownFamilies ==
    /\ \A t \in sent : token[t].family # None
    /\ \A r \in Requests : tx[r].pc # "idle" =>
         /\ tx[r].token # None
         /\ tx[r].row.family # None
         /\ token[tx[r].token].family = tx[r].row.family

TypedInv == TypeOK /\ KnownFamilies

Answers == [req: Requests \cup {None}, kind: Replies \cup {"none"},
            token: Tokens \cup {None}]

\* A request under way presents a token of a family that exists.
LEMMA BusyFamily ==
    ASSUME TypedInv, NEW r \in Requests, tx[r].pc # "idle"
    PROVE  /\ FamilyOf(r) \in Families
           /\ tx[r].token \in Tokens
           /\ token[tx[r].token].family = FamilyOf(r)
BY DEF TypedInv, KnownFamilies, TypeOK, FamilyOf, Tx, TokenRow

\* A step that moves no row to another family, ends requests or lets them
\* continue, and sends only tokens of known rows.
LEMMA KnownKept ==
    ASSUME TypedInv,
           \A t \in Tokens : token[t].family # None
                               => token'[t].family = token[t].family,
           \A t \in sent' : t \in sent \/ token'[t].family # None,
           \A q \in Requests : tx'[q].pc # "idle" =>
             /\ tx[q].pc # "idle"
             /\ tx'[q].token = tx[q].token
             /\ tx'[q].row = tx[q].row
    PROVE  KnownFamilies'
<1>1. \A t \in sent' : token'[t].family # None
  BY DEF TypedInv, KnownFamilies, TypeOK
<1>2. ASSUME NEW q \in Requests, tx'[q].pc # "idle"
      PROVE  /\ tx'[q].token # None
             /\ tx'[q].row.family # None
             /\ token'[tx'[q].token].family = tx'[q].row.family
  <2>1. /\ tx[q].token # None
        /\ tx[q].row.family # None
        /\ token[tx[q].token].family = tx[q].row.family
        /\ tx[q].token \in Tokens
    BY <1>2 DEF TypedInv, KnownFamilies, TypeOK, Tx
  <2>2. QED BY <1>2, <2>1
<1>3. QED BY <1>1, <1>2 DEF KnownFamilies

\* What the end of a request leaves of the requests.
LEMMA FinishTx ==
    ASSUME TypedInv, NEW r \in Requests, NEW k, NEW t, Finish(r, k, t)
    PROVE  \A q \in Requests : tx'[q].pc # "idle" =>
             /\ tx[q].pc # "idle"
             /\ tx'[q].token = tx[q].token
             /\ tx'[q].row = tx[q].row
BY DEF Finish, TypedInv, TypeOK, IdleTx

\* No response is one of the responses.
LEMMA NoAnswerType == NoAnswer \in Answers
BY DEF NoAnswer, Answers

\* The clock changes no row.
LEMMA TypedTick == ASSUME TypedInv, Tick PROVE TypedInv'
<1>1. TypeOK'
  BY NoAnswerType DEF Tick, TypedInv, TypeOK, Answers
<1>2. QED BY <1>1 DEF Tick, TypedInv, KnownFamilies

\* A refresh takes the row of the token it presents.
LEMMA TypedRefreshRead ==
    ASSUME TypedInv, NEW r \in Requests, NEW t \in Tokens, NEW csrf \in BOOLEAN,
           RefreshRead(r, t, csrf)
    PROVE  TypedInv'
<1> DEFINE x == Begun("lockFamily", t, token[t], csrf)
<1>1. x \in Tx /\ x.token = t /\ x.row = token[t]
  BY TxStarts DEF TypedInv, TypeOK, Phases
<1>3. tx' = [tx EXCEPT ![r] = x] /\ UNCHANGED <<clock, family, token, lock, sent>>
      /\ answer' = NoAnswer /\ t \in sent
  BY DEF RefreshRead
<1> HIDE DEF x
<1>4. TypeOK'
  BY <1>1, <1>3, NoAnswerType DEF TypedInv, TypeOK, Answers
<1>5. KnownFamilies'
  BY <1>1, <1>3, NoneAssumption DEF TypedInv, TypeOK, KnownFamilies
<1>6. QED BY <1>4, <1>5 DEF TypedInv

\* A logout takes the row of the token it presents.
LEMMA TypedLogoutRead ==
    ASSUME TypedInv, NEW r \in Requests, NEW t \in Tokens, NEW csrf \in BOOLEAN,
           LogoutRead(r, t, csrf)
    PROVE  TypedInv'
<1> DEFINE x == Begun("revokeOne", t, token[t], csrf)
<1>1. x \in Tx /\ x.token = t /\ x.row = token[t]
  BY TxStarts DEF TypedInv, TypeOK, Phases
<1>3. /\ tx' = [tx EXCEPT ![r] = x] \/ tx' = tx
      /\ answer' \in {NoAnswer, Reply(r, "csrf", None), Reply(r, "inactive", None)}
      /\ UNCHANGED <<clock, family, token, lock, sent>>
      /\ t \in sent
  BY DEF LogoutRead
<1> HIDE DEF x
<1>4. answer' \in Answers
  BY <1>3, NoAnswerType DEF Reply, Replies, Answers
<1>5. TypeOK'
  BY <1>1, <1>3, <1>4 DEF TypedInv, TypeOK, Answers
<1>6. KnownFamilies'
  BY <1>1, <1>3, NoneAssumption DEF TypedInv, TypeOK, KnownFamilies
<1>7. QED BY <1>5, <1>6 DEF TypedInv

\* A login inserts a family and its first token.
LEMMA TypedCreateFamily ==
    ASSUME TypedInv, NEW r \in Requests, NEW f \in Families, NEW new \in Tokens,
           CreateFamily(r, f, new)
    PROVE  TypedInv'
<1> DEFINE row == NewTokenRow(f, clock, clock + IdleTimeout)
           x == Begun("mint", new, row, TRUE)
           frow == [state |-> "live", committedAt |-> clock,
                    idleExpiresAt |-> clock + IdleTimeout,
                    absoluteExpiresAt |-> clock + AbsoluteTimeout]
<1>1. row \in TokenRow /\ row.family = f
  BY NewTokenRowType, TimesAssumption DEF TypedInv, TypeOK, NewTokenRow
<1>2. frow \in FamilyRow
  BY TimesAssumption DEF FamilyRow, TypedInv, TypeOK
<1>3. /\ family' = [family EXCEPT ![f] = frow]
      /\ token' = [token EXCEPT ![new] = row]
      /\ tx' = [tx EXCEPT ![r] = x]
      /\ answer' = NoAnswer
      /\ UNCHANGED <<clock, lock, sent>>
      /\ token[new].family = None
      /\ tx[r].pc = "idle"
  BY DEF CreateFamily, Unused
<1> HIDE DEF row, frow
<1>4. x \in Tx /\ x.token = new /\ x.row = row
  BY <1>1, IdleTxType DEF Begun, Tx, IdleTx, Phases
<1> HIDE DEF x
<1>6. TypeOK'
  BY <1>1, <1>2, <1>3, <1>4, NoAnswerType DEF TypedInv, TypeOK, Answers
<1>7. \A t \in Tokens : token[t].family # None => token'[t] = token[t]
  BY <1>3 DEF TypedInv, TypeOK
<1>8. \A t \in sent' : token'[t].family # None
  BY <1>3, <1>7 DEF TypedInv, TypeOK, KnownFamilies
<1>9. ASSUME NEW q \in Requests, tx'[q].pc # "idle"
      PROVE  /\ tx'[q].token # None
             /\ tx'[q].row.family # None
             /\ token'[tx'[q].token].family = tx'[q].row.family
  <2>1. CASE q = r
    BY <2>1, <1>1, <1>3, <1>4, NoneAssumption DEF TypedInv, TypeOK
  <2>2. CASE q # r
    <3>1. tx'[q] = tx[q]
      BY <2>2, <1>3 DEF TypedInv, TypeOK
    <3>2. tx[q].token \in Tokens /\ token[tx[q].token].family # None
          /\ tx[q].token # None /\ tx[q].row.family # None
          /\ token[tx[q].token].family = tx[q].row.family
      BY <1>9, <3>1 DEF TypedInv, KnownFamilies, TypeOK, Tx
    <3>3. QED BY <3>1, <3>2, <1>7
  <2>3. QED BY <2>1, <2>2
<1>10. QED BY <1>6, <1>8, <1>9 DEF TypedInv, KnownFamilies

\* Requests that end without writing: rejections, grace answers, aborts.
LEMMA TypedFinish ==
    ASSUME TypedInv, NEW r \in Requests, NEW k \in Replies,
           NEW t \in Tokens \cup {None}, Finish(r, k, t),
           UNCHANGED <<clock, family, token>>,
           sent' \subseteq sent \cup {u \in Tokens : token[u].family # None}
    PROVE  TypedInv'
<1>1. TypeOK'
  BY FinishType DEF TypedInv, TypeOK
<1>2. KnownFamilies'
  BY FinishTx, KnownKept
<1>3. QED BY <1>1, <1>2 DEF TypedInv

\* Getting the lock re-reads the clock.
LEMMA TypedLockFamily ==
    ASSUME TypedInv, NEW r \in Requests, LockFamily(r)
    PROVE  TypedInv'
<1> DEFINE x == [tx[r] EXCEPT !.pc = "decide", !.now = clock]
<1>1. x \in Tx /\ x.token = tx[r].token /\ x.row = tx[r].row
  BY TxLocks DEF TypedInv, TypeOK
<1>2. /\ tx' = [tx EXCEPT ![r] = x]
      /\ lock' = [lock EXCEPT ![FamilyOf(r)] = r]
      /\ answer' = NoAnswer
      /\ UNCHANGED <<clock, family, token, sent>>
      /\ tx[r].pc = "lockFamily"
  BY DEF LockFamily, TypedInv, TypeOK
<1> HIDE DEF x
<1>3. TypeOK'
  BY <1>1, <1>2, NoAnswerType DEF TypedInv, TypeOK, Answers
<1>4. KnownFamilies'
  BY <1>1, <1>2, KnownKept DEF TypedInv, TypeOK
<1>5. QED BY <1>3, <1>4 DEF TypedInv

\* A replay collects families that exist.
LEMMA TypedStartReplay ==
    ASSUME TypedInv, NEW r \in Requests, StartReplay(r)
    PROVE  TypedInv'
<1> DEFINE targets == {f \in Families : /\ Owner[f] = Owner[FamilyOf(r)]
                                        /\ family[f].state = "live"}
           cleared == ExpiredSuccessors(tx[r].now)
           x == [tx[r] EXCEPT !.pc = "revoking", !.cleared = cleared,
                              !.targets = targets]
<1>1. targets \in SUBSET Families /\ cleared \in SUBSET Tokens
  BY DEF ExpiredSuccessors
<1>2. /\ tx' = [tx EXCEPT ![r] = x]
      /\ answer' = NoAnswer
      /\ UNCHANGED <<clock, family, token, lock, sent>>
      /\ tx[r].pc = "decide"
  BY DEF StartReplay, Decides, ClearGranted, TypedInv, TypeOK
<1> HIDE DEF targets, cleared
<1>3. x \in Tx /\ x.token = tx[r].token /\ x.row = tx[r].row
  <2>1. tx[r] \in Tx
    BY DEF TypedInv, TypeOK
  <2>2. QED BY <1>1, <2>1 DEF Tx, Phases
<1> HIDE DEF x
<1>4. TypeOK'
  BY <1>2, <1>3, NoAnswerType DEF TypedInv, TypeOK, Answers
<1>5. KnownFamilies'
  BY <1>2, <1>3, KnownKept DEF TypedInv, TypeOK
<1>6. QED BY <1>4, <1>5 DEF TypedInv

\* What a rotation writes, by row: the new token, the replaced one, the others.
LEMMA RotateRows ==
    ASSUME TypedInv, NEW r \in Requests, NEW head \in Tokens, NEW new \in Tokens,
           Rotate(r, head, new)
    PROVE  LET f == FamilyOf(r)
               now == tx[r].now
               expires == Earlier(now + IdleTimeout, family[f].absoluteExpiresAt)
           IN  /\ f \in Families /\ now \in Nat /\ expires \in Nat
               /\ expires <= family[f].absoluteExpiresAt
               /\ head # new
               /\ token[head].family = f /\ token[head].replacedBy = None
               /\ token[new].family = None
               /\ token' \in [Tokens -> TokenRow]
               /\ token'[new] = NewTokenRow(f, now, expires)
               /\ token'[head].family = f
               /\ token'[head].replacedBy = new
               /\ token'[head].successor = new
               /\ token'[head].graceExpiresAt = now + Grace
               /\ \A t \in Tokens \ {head, new} :
                    /\ token'[t].family = token[t].family
                    /\ token'[t].expiresAt = token[t].expiresAt
                    /\ token'[t].replacedBy = token[t].replacedBy
                    /\ token'[t].graceExpiresAt = token[t].graceExpiresAt
                    /\ token'[t].successor =
                         IF t \in ExpiredSuccessors(now) THEN None
                         ELSE token[t].successor
<1> DEFINE f == FamilyOf(r)
           now == tx[r].now
           expires == Earlier(now + IdleTimeout, family[f].absoluteExpiresAt)
           cleared == ClearSuccessors(token, ExpiredSuccessors(now))
           row == NewTokenRow(f, now, expires)
<1>1. tx[r].pc # "idle"
  BY DEF Rotate, Decides, ClearGranted
<1>2. f \in Families /\ now \in Nat
  BY <1>1, BusyFamily DEF TypedInv, TypeOK, Tx
<1>3. expires \in Nat /\ expires <= family[f].absoluteExpiresAt
  <2>1. now + IdleTimeout \in Nat /\ family[f].absoluteExpiresAt \in Nat
    BY <1>2, TimesAssumption DEF TypedInv, TypeOK, FamilyRow
  <2>2. QED BY <2>1, EarlierType
<1>4. /\ token[head].family = f /\ token[head].replacedBy = None
      /\ token[new].family = None
      /\ token' = [cleared EXCEPT ![new] = row,
                     ![head] = [@ EXCEPT !.replacedBy = new, !.successor = new,
                                         !.graceExpiresAt = now + Grace]]
  BY DEF Rotate, Decides, IsHead, Heads, Unused
<1>5. head # new
  BY <1>2, <1>4, NoneAssumption
<1>6. row \in TokenRow
  BY <1>2, <1>3, NewTokenRowType
<1> HIDE DEF row, expires, now, f
<1>7. /\ cleared \in [Tokens -> TokenRow]
      /\ \A t \in Tokens :
           /\ cleared[t].family = token[t].family
           /\ cleared[t].expiresAt = token[t].expiresAt
           /\ cleared[t].graceExpiresAt = token[t].graceExpiresAt
           /\ cleared[t].replacedBy = token[t].replacedBy
           /\ cleared[t].successor =
                IF t \in ExpiredSuccessors(now) THEN None ELSE token[t].successor
  BY ClearSuccessorsKeeps DEF TypedInv, TypeOK
<1> HIDE DEF cleared
<1> DEFINE old == [cleared[head] EXCEPT !.replacedBy = new, !.successor = new,
                                        !.graceExpiresAt = now + Grace]
<1>8. /\ old \in TokenRow
      /\ old.family = f /\ old.replacedBy = new /\ old.successor = new
      /\ old.graceExpiresAt = now + Grace
  <2>1. cleared[head] \in TokenRow /\ cleared[head].family = f
    BY <1>4, <1>7
  <2>2. now + Grace \in Nat
    BY <1>2, TimesAssumption
  <2>3. QED BY <2>1, <2>2 DEF TokenRow
<1>9. token' = [cleared EXCEPT ![new] = row, ![head] = old]
  BY <1>4, <1>5, <1>7
<1> HIDE DEF old
<1>10. /\ token' \in [Tokens -> TokenRow]
       /\ token'[new] = row /\ token'[head] = old
       /\ \A t \in Tokens \ {head, new} : token'[t] = cleared[t]
  BY <1>5, <1>6, <1>7, <1>8, <1>9
<1>11. QED
  BY <1>2, <1>3, <1>4, <1>5, <1>7, <1>8, <1>10 DEF row, expires, now, f

\* A rotation inserts a token of the family it has locked.
LEMMA TypedRotate ==
    ASSUME TypedInv, NEW r \in Requests, NEW head \in Tokens, NEW new \in Tokens,
           Rotate(r, head, new)
    PROVE  TypedInv'
<1> DEFINE f == FamilyOf(r)
           expires == Earlier(tx[r].now + IdleTimeout, family[f].absoluteExpiresAt)
<1>1. /\ f \in Families /\ expires \in Nat /\ tx[r].now \in Nat
      /\ token' \in [Tokens -> TokenRow]
      /\ token'[new] = NewTokenRow(f, tx[r].now, expires)
      /\ \A t \in Tokens \ {new} : token'[t].family = token[t].family
      /\ token[new].family = None
  BY RotateRows
<1>2. /\ family' = [family EXCEPT ![f].idleExpiresAt = expires]
      /\ Finish(r, "rotated", new)
      /\ sent' = sent \cup {new}
      /\ clock' = clock
  BY DEF Rotate
<1>3. token'[new].family = f
  BY <1>1 DEF NewTokenRow
<1>4. [family[f] EXCEPT !.idleExpiresAt = expires] \in FamilyRow
  BY <1>1 DEF TypedInv, TypeOK, FamilyRow
<1> HIDE DEF f, expires
<1>5. family' \in [Families -> FamilyRow]
  BY <1>1, <1>2, <1>4 DEF TypedInv, TypeOK
<1>6. TypeOK'
  BY <1>1, <1>2, <1>5, FinishType DEF TypedInv, TypeOK, Replies
<1>7. KnownFamilies'
  BY <1>1, <1>2, <1>3, FinishTx, KnownKept, NoneAssumption DEF TypedInv, TypeOK
<1>8. QED BY <1>6, <1>7 DEF TypedInv

\* A replay keeps its targets while it locks them.
LEMMA TypedLockTarget ==
    ASSUME TypedInv, NEW r \in Requests, NEW f \in Families, LockTarget(r, f)
    PROVE  TypedInv'
<1>1. TypeOK'
  BY NoAnswerType DEF LockTarget, TypedInv, TypeOK, Answers
<1>2. QED BY <1>1 DEF LockTarget, TypedInv, KnownFamilies

\* A replay revokes families and erases ciphertexts.
LEMMA TypedCommitReplay ==
    ASSUME TypedInv, NEW r \in Requests, CommitReplay(r)
    PROVE  TypedInv'
<1>1. /\ token' \in [Tokens -> TokenRow]
      /\ \A t \in Tokens : token'[t].family = token[t].family
  BY ClearSuccessorsKeeps DEF CommitReplay, TypedInv, TypeOK
<1>2. family' \in [Families -> FamilyRow]
  <2>1. \A f \in Families : [family[f] EXCEPT !.state = "revoked"] \in FamilyRow
    BY DEF TypedInv, TypeOK, FamilyRow
  <2>2. QED BY <2>1 DEF CommitReplay, TypedInv, TypeOK
<1>3. Finish(r, "replay", None) /\ UNCHANGED <<clock, sent>>
  BY DEF CommitReplay
<1>4. TypeOK'
  BY <1>1, <1>2, <1>3, FinishType DEF TypedInv, TypeOK, Replies
<1>5. KnownFamilies'
  BY <1>1, <1>3, FinishTx, KnownKept DEF TypedInv, TypeOK
<1>6. QED BY <1>4, <1>5 DEF TypedInv

\* A logout revokes its family and erases ciphertexts.
LEMMA TypedRevokeFamily ==
    ASSUME TypedInv, NEW r \in Requests, RevokeFamily(r)
    PROVE  TypedInv'
<1>1. PICK k \in Replies : Finish(r, k, None)
  BY DEF RevokeFamily, Replies
<1>2. FamilyOf(r) \in Families
  BY BusyFamily DEF RevokeFamily
<1>3. \A s \in {"live", "absent", "revoked"} :
        [family[FamilyOf(r)] EXCEPT !.state = s] \in FamilyRow
  BY <1>2 DEF TypedInv, TypeOK, FamilyRow
<1>4. family[FamilyOf(r)].state \in {"live", "absent", "revoked"}
  BY <1>2 DEF TypedInv, TypeOK, FamilyRow
<1>5. family' \in [Families -> FamilyRow]
  BY <1>2, <1>3, <1>4 DEF RevokeFamily, TypedInv, TypeOK
<1>6. UNCHANGED <<clock, token, sent>>
  BY DEF RevokeFamily
<1>7. TypeOK'
  BY <1>1, <1>5, <1>6, FinishType DEF TypedInv, TypeOK
<1>8. KnownFamilies'
  BY <1>1, <1>6, FinishTx, KnownKept
<1>9. QED BY <1>7, <1>8 DEF TypedInv

\* A login ends with a session, or with its revocation.
LEMMA TypedMint ==
    ASSUME TypedInv, NEW r \in Requests, MintSucceeds(r) \/ MintFails(r)
    PROVE  TypedInv'
<1>1. /\ tx[r].token \in Tokens
      /\ token[tx[r].token].family \in Families
  BY BusyFamily DEF MintSucceeds, MintFails
<1>2. CASE MintSucceeds(r)
  BY <1>1, <1>2, TypedFinish, NoneAssumption DEF MintSucceeds, Replies
<1>3. CASE MintFails(r) /\ Finish(r, "failed", None)
  BY <1>3, TypedFinish DEF MintFails, Replies
<1>4. CASE MintFails(r) /\ Continue(r, "revokeOne") /\ UNCHANGED lock
  <2> DEFINE x == [tx[r] EXCEPT !.pc = "revokeOne"]
  <2>1. x \in Tx /\ x.token = tx[r].token /\ x.row = tx[r].row
    BY TxMoves DEF TypedInv, TypeOK, Phases
  <2>2. /\ tx' = [tx EXCEPT ![r] = x] /\ answer' = NoAnswer /\ tx[r].pc = "mint"
        /\ UNCHANGED <<clock, family, token, lock, sent>>
    BY <1>4 DEF MintFails, Continue
  <2> HIDE DEF x
  <2>3. TypeOK'
    BY <2>1, <2>2, NoAnswerType DEF TypedInv, TypeOK, Answers
  <2>4. KnownFamilies'
    BY <2>1, <2>2, KnownKept DEF TypedInv, TypeOK
  <2>5. QED BY <2>3, <2>4 DEF TypedInv
<1>5. QED BY <1>2, <1>3, <1>4 DEF MintFails

\* A refresh inside the grace window hands out a token of the family.
LEMMA TypedAnswer ==
    ASSUME TypedInv, NEW r \in Requests, NEW head \in Tokens,
           AnswerGrace(r, head)
    PROVE  TypedInv'
<1>1. token[head].family \in Families
  BY BusyFamily DEF AnswerGrace, Decides, ClearGranted, IsHead, Heads
<1>2. QED BY <1>1, TypedFinish, NoneAssumption DEF AnswerGrace, Replies

\* A rejected request changes nothing but its own progress.
LEMMA TypedReject ==
    ASSUME TypedInv, NEW r \in Requests,
           RejectInactive(r) \/ RejectCSRF(r) \/ Abort(r)
    PROVE  TypedInv'
BY TypedFinish DEF RejectInactive, RejectCSRF, Abort, Replies

\* Each step of a request, the clock and the deadlock detector.
LEMMA TypedNext == TypedInv /\ [Next]_vars => TypedInv'
<1> SUFFICES ASSUME TypedInv, [Next]_vars PROVE TypedInv'
  OBVIOUS
<1>1. CASE Tick
  BY <1>1, TypedTick
<1>2. ASSUME NEW r \in Requests, Start(r) PROVE TypedInv'
  BY <1>2, TypedRefreshRead, TypedLogoutRead, TypedCreateFamily DEF Start
<1>3. ASSUME NEW r \in Requests, Decide(r) PROVE TypedInv'
  BY <1>3, TypedReject, TypedStartReplay, TypedAnswer, TypedRotate DEF Decide
<1>4. ASSUME NEW r \in Requests, Step(r) PROVE TypedInv'
  BY <1>3, <1>4, TypedLockFamily, TypedLockTarget, TypedCommitReplay,
     TypedRevokeFamily, TypedMint DEF Step
<1>5. ASSUME NEW r \in Requests, Abort(r) PROVE TypedInv'
  BY <1>5, TypedReject
<1>6. CASE UNCHANGED vars
  BY <1>6 DEF vars, TypedInv, TypeOK, KnownFamilies
<1>7. QED BY <1>1, <1>2, <1>4, <1>5, <1>6 DEF Next

\* There are no sessions at first.
LEMMA TypedInit == Init => TypedInv
BY IdleTxType, NoAnswerType
DEF Init, TypedInv, TypeOK, KnownFamilies, NoFamilyRow, NoTokenRow, FamilyRow,
    TokenRow, Answers, IdleTx

\* Every table, lock and request of the auth service keeps its type.
THEOREM TypeCorrect == Spec => []TypeOK
<1>1. TypedInv => TypeOK
  BY DEF TypedInv
<1>2. QED BY <1>1, TypedInit, TypedNext, PTL DEF Spec

-----------------------------------------------------------------------------
\* The rows of a family exist only with it, beside what the chains promise.
RowsHaveFamily ==
    \A t \in Tokens :
      token[t].family # None => family[token[t].family].state # "absent"

\* A replay under way revokes families that exist.
TargetsExist ==
    \A r \in Requests : \A f \in tx[r].targets : family[f].state # "absent"

ChainInv ==
    /\ TypedInv
    /\ RowsHaveFamily
    /\ LinearChains
    /\ HeadExpiresWithFamily
    /\ TargetsExist

\* A step that changes no row's family, deadline or successor pointer (it may
\* erase ciphertexts), and no family's existence or deadlines.
LEMMA ChainKept ==
    ASSUME ChainInv,
           \A t \in Tokens : /\ token'[t].family = token[t].family
                             /\ token'[t].replacedBy = token[t].replacedBy
                             /\ token'[t].expiresAt = token[t].expiresAt
                             /\ token'[t].successor \in {None, token[t].successor},
           \A f \in Families :
             /\ (family'[f].state = "absent") <=> (family[f].state = "absent")
             /\ family'[f].idleExpiresAt = family[f].idleExpiresAt
             /\ family'[f].absoluteExpiresAt = family[f].absoluteExpiresAt
    PROVE  RowsHaveFamily' /\ LinearChains' /\ HeadExpiresWithFamily'
<1> USE DEF ChainInv, TypedInv, TypeOK
<1>1. \A f : Heads(f)' = Heads(f)
  BY DEF Heads
<1>2. RowsHaveFamily'
  BY NoneAssumption DEF RowsHaveFamily, TokenRow
<1>3. \A f \in Families :
        family'[f].state # "absent" => \E h \in Tokens : Heads(f)' = {h}
  BY <1>1 DEF LinearChains
<1>4. \A t \in Tokens : token'[t].replacedBy # None =>
        /\ token'[t].family # None
        /\ token'[token'[t].replacedBy].family = token'[t].family
        /\ \A u \in Tokens :
             token'[u].replacedBy = token'[t].replacedBy => u = t
  BY DEF LinearChains, TokenRow
<1>5. \A t \in Tokens : token'[t].successor \in {None, token'[t].replacedBy}
  BY DEF LinearChains
<1>6. HeadExpiresWithFamily'
  BY <1>1 DEF HeadExpiresWithFamily, Heads
<1>7. QED BY <1>2, <1>3, <1>4, <1>5, <1>6 DEF LinearChains

\* A login begins a chain of one token, with its family's deadline.
LEMMA ChainCreateFamily ==
    ASSUME ChainInv, NEW r \in Requests, NEW f \in Families, NEW new \in Tokens,
           CreateFamily(r, f, new)
    PROVE  RowsHaveFamily' /\ LinearChains' /\ HeadExpiresWithFamily'
<1> DEFINE expires == clock + IdleTimeout
<1>1. /\ token[new].family = None
      /\ family[f].state = "absent"
      /\ token' = [token EXCEPT ![new] = NewTokenRow(f, clock, expires)]
      /\ family'[f].state = "live"
      /\ family'[f].idleExpiresAt = expires
      /\ family'[f].absoluteExpiresAt = clock + AbsoluteTimeout
      /\ \A g \in Families \ {f} : family'[g] = family[g]
  BY DEF CreateFamily, Unused, ChainInv, TypedInv, TypeOK
<1>2. /\ token'[new].family = f /\ token'[new].replacedBy = None
      /\ token'[new].successor = None /\ token'[new].expiresAt = expires
      /\ \A t \in Tokens \ {new} : token'[t] = token[t]
  BY <1>1 DEF NewTokenRow, ChainInv, TypedInv, TypeOK
<1>3. expires <= clock + AbsoluteTimeout
  BY TimesAssumption DEF ChainInv, TypedInv, TypeOK
<1> HIDE DEF expires
<1>4. token[new].replacedBy = None
  BY <1>1 DEF ChainInv, LinearChains
<1>5. \A t \in Tokens : token[t].family # f
  BY <1>1, NoneAssumption DEF ChainInv, RowsHaveFamily, TypedInv, TypeOK, TokenRow
<1>6. \A t \in Tokens : token[t].replacedBy # new
  BY <1>1, NoneAssumption DEF ChainInv, LinearChains
<1>7. Heads(f)' = {new}
  BY <1>2, <1>5 DEF Heads
<1>8. \A g \in Families \ {f} : Heads(g)' = Heads(g)
  BY <1>1, <1>2, NoneAssumption DEF Heads
<1>9. RowsHaveFamily'
  BY <1>1, <1>2, NoneAssumption DEF ChainInv, RowsHaveFamily, TypedInv, TypeOK, TokenRow
<1>10. \A g \in Families :
         family'[g].state # "absent" => \E h \in Tokens : Heads(g)' = {h}
  BY <1>1, <1>7, <1>8 DEF ChainInv, LinearChains
<1>11. ASSUME NEW t \in Tokens, token'[t].replacedBy # None
       PROVE  /\ token'[t].family # None
              /\ token'[token'[t].replacedBy].family = token'[t].family
              /\ \A u \in Tokens :
                   token'[u].replacedBy = token'[t].replacedBy => u = t
  <2>1. t # new /\ token'[t] = token[t] /\ token[t].replacedBy \in Tokens \ {new}
    BY <1>2, <1>6, <1>11 DEF ChainInv, TypedInv, TypeOK, TokenRow
  <2>2. QED
    BY <1>2, <1>11, <2>1 DEF ChainInv, LinearChains
<1>12. \A t \in Tokens : token'[t].successor \in {None, token'[t].replacedBy}
  BY <1>2 DEF ChainInv, LinearChains
<1>13. HeadExpiresWithFamily'
  <2>1. \A t \in Heads(f)' : /\ token'[t].expiresAt = family'[f].idleExpiresAt
                             /\ family'[f].idleExpiresAt <= family'[f].absoluteExpiresAt
    BY <1>1, <1>2, <1>3, <1>7
  <2>2. ASSUME NEW g \in Families \ {f}, NEW t \in Heads(g)'
        PROVE  /\ token'[t].expiresAt = family'[g].idleExpiresAt
               /\ family'[g].idleExpiresAt <= family'[g].absoluteExpiresAt
    <3>1. t \in Heads(g) /\ t \in Tokens /\ t # new /\ family'[g] = family[g]
      BY <1>1, <1>8, <2>2, NoneAssumption DEF Heads
    <3>2. QED BY <1>2, <3>1 DEF ChainInv, HeadExpiresWithFamily
  <2>3. QED BY <2>1, <2>2 DEF HeadExpiresWithFamily
<1>14. QED BY <1>9, <1>10, <1>11, <1>12, <1>13 DEF LinearChains

\* The head of the family is the only one, and the new token takes its place.
LEMMA ChainRotate ==
    ASSUME ChainInv, NEW r \in Requests, NEW head \in Tokens, NEW new \in Tokens,
           Rotate(r, head, new)
    PROVE  RowsHaveFamily' /\ LinearChains' /\ HeadExpiresWithFamily'
<1>0. PICK f \in Families : f = FamilyOf(r)
  BY BusyFamily DEF Rotate, Decides, ClearGranted, ChainInv
<1> DEFINE now == tx[r].now
           expires == Earlier(now + IdleTimeout, family[f].absoluteExpiresAt)
<1>1. /\ f \in Families
      /\ expires <= family[f].absoluteExpiresAt
      /\ head # new
      /\ token[head].family = f /\ token[head].replacedBy = None
      /\ token[new].family = None
      /\ token'[new] = NewTokenRow(f, now, expires)
      /\ token'[head].family = f
      /\ token'[head].replacedBy = new
      /\ token'[head].successor = new
      /\ \A t \in Tokens \ {head, new} :
           /\ token'[t].family = token[t].family
           /\ token'[t].expiresAt = token[t].expiresAt
           /\ token'[t].replacedBy = token[t].replacedBy
           /\ token'[t].successor \in {None, token[t].successor}
  BY <1>0, RotateRows DEF ChainInv
<1>2. /\ token'[new].family = f /\ token'[new].replacedBy = None
      /\ token'[new].successor = None /\ token'[new].expiresAt = expires
  BY <1>1 DEF NewTokenRow
<1>3. /\ family[f].state = "live"
      /\ family'[f].state = "live"
      /\ family'[f].idleExpiresAt = expires
      /\ family'[f].absoluteExpiresAt = family[f].absoluteExpiresAt
      /\ \A g \in Families \ {f} : family'[g] = family[g]
  BY <1>0, <1>1 DEF Rotate, Decides, Active, ChainInv, TypedInv, TypeOK, FamilyRow
<1> HIDE DEF expires, now
<1>4. Heads(f) = {head}
  BY <1>1, <1>3 DEF ChainInv, LinearChains, Heads
<1>5. token[new].replacedBy = None
  BY <1>1 DEF ChainInv, LinearChains
<1>6. \A t \in Tokens : token[t].replacedBy # new
  BY <1>1, NoneAssumption DEF ChainInv, LinearChains
<1>7. Heads(f)' = {new}
  BY <1>1, <1>2, <1>4, NoneAssumption DEF Heads
<1>8. \A g \in Families \ {f} : Heads(g)' = Heads(g)
  BY <1>1, <1>2, NoneAssumption DEF Heads
<1>9. RowsHaveFamily'
  BY <1>1, <1>2, <1>3 DEF ChainInv, RowsHaveFamily, TypedInv, TypeOK, TokenRow
<1>10. \A g \in Families :
         family'[g].state # "absent" => \E h \in Tokens : Heads(g)' = {h}
  BY <1>3, <1>7, <1>8 DEF ChainInv, LinearChains
<1>11. ASSUME NEW t \in Tokens, token'[t].replacedBy # None
       PROVE  /\ token'[t].family # None
              /\ token'[token'[t].replacedBy].family = token'[t].family
              /\ \A u \in Tokens :
                   token'[u].replacedBy = token'[t].replacedBy => u = t
  <2>1. CASE t = head
    BY <1>1, <1>2, <1>6, <2>1, NoneAssumption
  <2>2. CASE t # head
    <3>1. /\ t # new /\ token[t].replacedBy # None
          /\ token[t].replacedBy \in Tokens \ {new}
          /\ token'[t].replacedBy = token[t].replacedBy
          /\ token'[t].family = token[t].family
      BY <1>1, <1>2, <1>6, <1>11, <2>2 DEF ChainInv, TypedInv, TypeOK, TokenRow
    <3>2. token'[token[t].replacedBy].family = token[token[t].replacedBy].family
      BY <1>1, <3>1
    <3>3. \A u \in Tokens : token'[u].replacedBy = token[t].replacedBy => u = t
      BY <1>1, <1>2, <3>1 DEF ChainInv, LinearChains
    <3>4. QED BY <3>1, <3>2, <3>3 DEF ChainInv, LinearChains
  <2>3. QED BY <2>1, <2>2
<1>12. \A t \in Tokens : token'[t].successor \in {None, token'[t].replacedBy}
  BY <1>1, <1>2 DEF ChainInv, LinearChains
<1>13. HeadExpiresWithFamily'
  <2>1. \A t \in Heads(f)' : /\ token'[t].expiresAt = family'[f].idleExpiresAt
                             /\ family'[f].idleExpiresAt <= family'[f].absoluteExpiresAt
    BY <1>1, <1>2, <1>3, <1>7
  <2>2. ASSUME NEW g \in Families \ {f}, NEW t \in Heads(g)'
        PROVE  /\ token'[t].expiresAt = family'[g].idleExpiresAt
               /\ family'[g].idleExpiresAt <= family'[g].absoluteExpiresAt
    <3>1. /\ t \in Heads(g) /\ t \in Tokens \ {head, new}
          /\ family'[g] = family[g]
      BY <1>1, <1>3, <1>8, <2>2, NoneAssumption DEF Heads
    <3>2. QED BY <1>1, <3>1 DEF ChainInv, HeadExpiresWithFamily
  <2>3. QED BY <2>1, <2>2 DEF HeadExpiresWithFamily
<1>14. QED BY <1>9, <1>10, <1>11, <1>12, <1>13 DEF LinearChains

\* A revocation neither moves nor replaces a token.
LEMMA ChainRevocations ==
    ASSUME ChainInv, NEW r \in Requests, CommitReplay(r) \/ RevokeFamily(r)
    PROVE  RowsHaveFamily' /\ LinearChains' /\ HeadExpiresWithFamily'
<1>1. CASE CommitReplay(r)
  <2>1. \A t \in Tokens :
          /\ token'[t].family = token[t].family
          /\ token'[t].replacedBy = token[t].replacedBy
          /\ token'[t].expiresAt = token[t].expiresAt
          /\ token'[t].successor \in {None, token[t].successor}
    BY <1>1, ClearSuccessorsKeeps DEF CommitReplay, ChainInv, TypedInv, TypeOK
  <2>2. \A f \in tx[r].targets : family[f].state # "absent"
    BY DEF ChainInv, TargetsExist
  <2>3. \A g \in Families :
          /\ (family'[g].state = "absent") <=> (family[g].state = "absent")
          /\ family'[g].idleExpiresAt = family[g].idleExpiresAt
          /\ family'[g].absoluteExpiresAt = family[g].absoluteExpiresAt
    BY <1>1, <2>2 DEF CommitReplay, ChainInv, TypedInv, TypeOK, FamilyRow
  <2>4. QED BY <2>1, <2>3, ChainKept
<1>2. CASE RevokeFamily(r)
  <2>1. PICK f \in Families : f = FamilyOf(r)
    BY <1>2, BusyFamily DEF RevokeFamily, ChainInv
  <2>2. /\ token' = token
        /\ family' = [family EXCEPT
                        ![f].state = IF @ = "live" THEN "revoked" ELSE @]
    BY <1>2, <2>1 DEF RevokeFamily
  <2>3. \A g \in Families :
          /\ (family'[g].state = "absent") <=> (family[g].state = "absent")
          /\ family'[g].idleExpiresAt = family[g].idleExpiresAt
          /\ family'[g].absoluteExpiresAt = family[g].absoluteExpiresAt
    BY <2>2 DEF ChainInv, TypedInv, TypeOK, FamilyRow
  <2>4. QED BY <2>2, <2>3, ChainKept
<1>3. QED BY <1>1, <1>2

\* The steps that write no table.
ReadOnly(r) ==
    \/ \E t \in Tokens, csrf \in BOOLEAN : RefreshRead(r, t, csrf)
    \/ \E t \in Tokens, csrf \in BOOLEAN : LogoutRead(r, t, csrf)
    \/ LockFamily(r) \/ RejectInactive(r) \/ RejectCSRF(r)
    \/ StartReplay(r) \/ MintSucceeds(r) \/ MintFails(r) \/ Abort(r)
    \/ \E head \in Tokens : AnswerGrace(r, head)
    \/ \E f \in Families : LockTarget(r, f)

Writing(r) ==
    \/ \E f \in Families, new \in Tokens : CreateFamily(r, f, new)
    \/ \E head \in Tokens, new \in Tokens : Rotate(r, head, new)
    \/ CommitReplay(r)
    \/ RevokeFamily(r)

\* Each step of a request writes session rows or does not.
LEMMA ReadOnlyOrWriting ==
    ASSUME NEW r \in Requests, Start(r) \/ Step(r) \/ Abort(r)
    PROVE  ReadOnly(r) \/ Writing(r)
BY DEF Start, Step, Decide, ReadOnly, Writing

\* A step that writes no session row leaves the tables alone.
LEMMA ReadOnlyTables ==
    ASSUME NEW r \in Requests, ReadOnly(r)
    PROVE  UNCHANGED <<clock, family, token>>
BY DEF ReadOnly, RefreshRead, LogoutRead, LockFamily, RejectInactive, RejectCSRF,
       StartReplay, MintSucceeds, MintFails, Abort, AnswerGrace,
       LockTarget

\* What each step does to the targets and the erased rows of the requests.
LEMMA TxSets ==
    ASSUME TypeOK, NEW r \in Requests, Start(r) \/ Step(r) \/ Abort(r),
           NEW q \in Requests
    PROVE  \/ tx'[q].targets = {} /\ tx'[q].cleared = {}
           \/ tx'[q].targets = tx[q].targets /\ tx'[q].cleared = tx[q].cleared
           \/ /\ StartReplay(q)
              /\ tx'[q].targets \subseteq {f \in Families : family[f].state = "live"}
              /\ tx'[q].cleared = ExpiredSuccessors(tx[q].now)
<1> USE DEF TypeOK, Tx
<1>1. ASSUME NEW k, NEW t, Finish(r, k, t)
      PROVE  \/ tx'[q].targets = {} /\ tx'[q].cleared = {}
             \/ tx'[q].targets = tx[q].targets /\ tx'[q].cleared = tx[q].cleared
  BY <1>1 DEF Finish, IdleTx
<1>2. CASE Start(r)
  <2>1. \A pc, t, row, csrf : /\ Begun(pc, t, row, csrf).targets = {}
                              /\ Begun(pc, t, row, csrf).cleared = {}
    BY DEF Begun, IdleTx
  <2>2. ASSUME NEW t \in Tokens, NEW csrf \in BOOLEAN,
               RefreshRead(r, t, csrf) \/ LogoutRead(r, t, csrf)
        PROVE  \/ tx'[q].targets = {} /\ tx'[q].cleared = {}
               \/ tx'[q].targets = tx[q].targets /\ tx'[q].cleared = tx[q].cleared
    BY <2>1, <2>2 DEF RefreshRead, LogoutRead
  <2>3. ASSUME NEW f \in Families, NEW new \in Tokens, CreateFamily(r, f, new)
        PROVE  \/ tx'[q].targets = {} /\ tx'[q].cleared = {}
               \/ tx'[q].targets = tx[q].targets /\ tx'[q].cleared = tx[q].cleared
    BY <2>1, <2>3 DEF CreateFamily
  <2>4. QED BY <1>2, <2>2, <2>3 DEF Start
<1>3. CASE StartReplay(r)
  <2>1. CASE q = r
    BY <1>3, <2>1 DEF StartReplay
  <2>2. CASE q # r
    BY <1>3, <2>2 DEF StartReplay
  <2>3. QED BY <2>1, <2>2
<1>4. CASE LockFamily(r) \/ (MintFails(r) /\ Continue(r, "revokeOne"))
           \/ \E f \in Families : LockTarget(r, f)
  BY <1>4 DEF LockFamily, Continue, LockTarget
<1>5. QED
  BY <1>1, <1>2, <1>3, <1>4
  DEF Step, Decide, Abort, RejectInactive, RejectCSRF, AnswerGrace,
      Rotate, CommitReplay, RevokeFamily, MintSucceeds, MintFails

\* No family leaves the table.
LEMMA FamiliesStay ==
    ASSUME TypedInv, [Next]_vars, NEW f \in Families, family[f].state # "absent"
    PROVE  family'[f].state # "absent"
<1> USE DEF TypedInv, TypeOK, FamilyRow
<1>1. CASE Tick \/ UNCHANGED vars
  BY <1>1 DEF Tick, vars
<1>2. ASSUME NEW r \in Requests, ReadOnly(r) PROVE family'[f].state # "absent"
  BY <1>2, ReadOnlyTables
<1>3. ASSUME NEW r \in Requests, NEW g \in Families, NEW new \in Tokens,
             CreateFamily(r, g, new)
      PROVE  family'[f].state # "absent"
  BY <1>3 DEF CreateFamily
<1>4. ASSUME NEW r \in Requests, NEW head \in Tokens, NEW new \in Tokens,
             Rotate(r, head, new)
      PROVE  family'[f].state # "absent"
  BY <1>4 DEF Rotate
<1>5. ASSUME NEW r \in Requests, CommitReplay(r) PROVE family'[f].state # "absent"
  BY <1>5 DEF CommitReplay
<1>6. ASSUME NEW r \in Requests, RevokeFamily(r) PROVE family'[f].state # "absent"
  BY <1>6 DEF RevokeFamily
<1>7. QED
  BY <1>1, <1>2, <1>3, <1>4, <1>5, <1>6, ReadOnlyOrWriting DEF Next, Writing

\* Each step keeps the chains linear and their deadlines equal.
LEMMA ChainNext == ChainInv /\ [Next]_vars => ChainInv'
<1> SUFFICES ASSUME ChainInv, [Next]_vars PROVE ChainInv'
  OBVIOUS
<1>1. TypedInv'
  BY TypedNext DEF ChainInv
<1>2. TargetsExist'
  <2> SUFFICES ASSUME NEW q \in Requests, NEW f \in tx'[q].targets
               PROVE  family'[f].state # "absent"
    BY DEF TargetsExist
  <2>1. f \in Families
    BY <1>1 DEF TypedInv, TypeOK, Tx
  <2>2. CASE UNCHANGED tx
    BY <2>1, <2>2, FamiliesStay DEF ChainInv, TargetsExist
  <2>3. ASSUME NEW r \in Requests, Start(r) \/ Step(r) \/ Abort(r)
        PROVE  family'[f].state # "absent"
    <3>1. family[f].state # "absent"
      BY <2>3, TxSets DEF ChainInv, TypedInv, TargetsExist
    <3>2. QED BY <2>1, <3>1, FamiliesStay DEF ChainInv
  <2>4. QED BY <2>2, <2>3 DEF Next, Tick, vars
<1>3. RowsHaveFamily' /\ LinearChains' /\ HeadExpiresWithFamily'
  <2>1. CASE UNCHANGED <<family, token>>
    BY <2>1, ChainKept
  <2>2. ASSUME NEW r \in Requests, Writing(r)
        PROVE  RowsHaveFamily' /\ LinearChains' /\ HeadExpiresWithFamily'
    BY <2>2, ChainCreateFamily, ChainRotate, ChainRevocations DEF Writing
  <2>3. QED
    BY <2>1, <2>2, ReadOnlyOrWriting, ReadOnlyTables DEF Next, Tick, vars
<1>4. QED BY <1>1, <1>2, <1>3 DEF ChainInv

\* There are no chains at first.
LEMMA ChainInit == Init => ChainInv
BY TypedInit
DEF Init, ChainInv, RowsHaveFamily, LinearChains, HeadExpiresWithFamily, Heads,
    TargetsExist, NoFamilyRow, NoTokenRow, IdleTx

\* However rotations, replays and logouts interleave, no session forks: every
\* family keeps exactly one current token at the end of one chain.
THEOREM ChainsStayLinear == Spec => []LinearChains
<1>1. ChainInv => LinearChains
  BY DEF ChainInv
<1>2. QED BY <1>1, ChainInit, ChainNext, PTL DEF Spec

\* The token's deadline and the family's are one, inside the absolute lifetime.
THEOREM DeadlinesAgree == Spec => []HeadExpiresWithFamily
<1>1. ChainInv => HeadExpiresWithFamily
  BY DEF ChainInv
<1>2. QED BY <1>1, ChainInit, ChainNext, PTL DEF Spec

-----------------------------------------------------------------------------
\* A replaced row has lost its ciphertext only after its grace window.
ErasedOnlyLate(row, now) ==
    /\ row.successor \in {None, row.replacedBy}
    /\ (row.replacedBy # None /\ row.successor = None) => row.graceExpiresAt <= now

\* The same of the snapshot a request decides with, at the time it got its lock.
GraceInv ==
    /\ ChainInv
    /\ \A t \in Tokens : ErasedOnlyLate(token[t], clock)
    /\ \A r \in Requests :
         /\ ErasedOnlyLate(tx[r].row, clock)
         /\ tx[r].pc = "decide" => /\ tx[r].now <= clock
                                   /\ ErasedOnlyLate(tx[r].row, tx[r].now)
         /\ \A t \in tx[r].cleared :
              token[t].replacedBy # None /\ token[t].graceExpiresAt <= clock


\* Where a request's snapshot comes from.
LEMMA TxRows ==
    ASSUME TypeOK, NEW r \in Requests, Start(r) \/ Step(r) \/ Abort(r),
           NEW q \in Requests
    PROVE  \/ tx'[q].row = NoTokenRow /\ tx'[q].pc # "decide"
           \/ \E t \in Tokens : tx'[q].row = token[t] /\ tx'[q].pc # "decide"
           \/ /\ \E f, n, e : tx'[q].row = NewTokenRow(f, n, e)
              /\ tx'[q].pc # "decide"
           \/ /\ tx'[q].row = tx[q].row
              /\ tx'[q].pc = "decide" =>
                   \/ tx'[q].now = clock
                   \/ tx[q].pc = "decide" /\ tx'[q].now = tx[q].now
<1> USE DEF TypeOK, Tx
<1>0. \A pc, t, row, csrf : /\ Begun(pc, t, row, csrf).row = row
                            /\ Begun(pc, t, row, csrf).pc = pc
  BY DEF Begun, IdleTx
<1>1. ASSUME NEW k, NEW t, Finish(r, k, t)
      PROVE  \/ tx'[q].row = NoTokenRow /\ tx'[q].pc # "decide"
             \/ tx'[q] = tx[q]
  BY <1>1 DEF Finish, IdleTx
<1>2. ASSUME NEW t \in Tokens, NEW csrf \in BOOLEAN,
             RefreshRead(r, t, csrf) \/ LogoutRead(r, t, csrf)
      PROVE  \/ tx'[q].row = token[t] /\ tx'[q].pc # "decide"
             \/ tx'[q] = tx[q]
  BY <1>0, <1>2 DEF RefreshRead, LogoutRead
<1>3. ASSUME NEW f \in Families, NEW new \in Tokens, CreateFamily(r, f, new)
      PROVE  \/ /\ \E g, n, e : tx'[q].row = NewTokenRow(g, n, e)
                /\ tx'[q].pc # "decide"
             \/ tx'[q] = tx[q]
  <2>1. CASE q = r
    <3>1. tx'[q] = Begun("mint", new, NewTokenRow(f, clock, clock + IdleTimeout), TRUE)
      BY <1>3, <2>1 DEF CreateFamily
    <3>2. tx'[q].row = NewTokenRow(f, clock, clock + IdleTimeout)
          /\ tx'[q].pc # "decide"
      BY <3>1 DEF Begun, IdleTx
    <3>3. QED BY <3>2
  <2>2. CASE q # r
    BY <1>3, <2>2 DEF CreateFamily
  <2>3. QED BY <2>1, <2>2
<1>4. CASE Start(r)
  BY <1>2, <1>3, <1>4 DEF Start
<1>5. CASE LockFamily(r) \/ StartReplay(r) \/ (MintFails(r) /\ Continue(r, "revokeOne"))
           \/ \E f \in Families : LockTarget(r, f)
  <2>1. CASE q = r
    BY <1>5, <2>1 DEF LockFamily, StartReplay, Continue, LockTarget
  <2>2. CASE q # r
    BY <1>5, <2>2 DEF LockFamily, StartReplay, Continue, LockTarget
  <2>3. QED BY <2>1, <2>2
<1>6. CASE Abort(r) \/ RejectInactive(r) \/ RejectCSRF(r)
           \/ CommitReplay(r) \/ RevokeFamily(r) \/ MintSucceeds(r)
           \/ (MintFails(r) /\ ~Continue(r, "revokeOne"))
           \/ \E h, n \in Tokens : AnswerGrace(r, h)
                                     \/ Rotate(r, h, n)
  <2>1. \E k, t : Finish(r, k, t)
    BY <1>6
    DEF Abort, RejectInactive, RejectCSRF, CommitReplay, RevokeFamily,
        MintSucceeds, MintFails, AnswerGrace, Rotate
  <2>2. QED BY <1>1, <2>1
<1>7. QED
  BY <1>4, <1>5, <1>6 DEF Step, Decide

\* The consistency errors of the rotation need a chain that never exists.
LEMMA BrokenChainDisabled ==
    ASSUME GraceInv, NEW r \in Requests
    PROVE  ~BrokenChain(r)
<1> SUFFICES ASSUME BrokenChain(r) PROVE FALSE
  OBVIOUS
<1>1. PICK f \in Families : f = FamilyOf(r)
  BY BusyFamily DEF BrokenChain, ClearGranted, GraceInv, ChainInv
<1>2. family[f].state # "absent"
  BY <1>1 DEF BrokenChain, Active
<1>3. Heads(f) # {}
  BY <1>2 DEF GraceInv, ChainInv, LinearChains
<1>. PICK head \in Tokens, use \in {"current", "grace"} :
          /\ Decides(r, head, use)
          /\ \/ use = "grace" /\ tx[r].row.successor # head
             \/ token[head].expiresAt <= tx[r].now
  BY <1>1, <1>3 DEF BrokenChain
<1>x. ~ (token[head].expiresAt <= tx[r].now)
  <2>1. head \in Heads(f) /\ token[head].expiresAt = family[f].idleExpiresAt
    BY <1>1 DEF Decides, IsHead, GraceInv, ChainInv, HeadExpiresWithFamily
  <2>2. family[f].idleExpiresAt > tx[r].now
    BY <1>1 DEF Decides, Active
  <2>3. family[f].idleExpiresAt \in Nat /\ tx[r].now \in Nat
    BY DEF GraceInv, ChainInv, TypedInv, TypeOK, FamilyRow, Tx
  <2>4. QED BY <2>1, <2>2, <2>3
<1>4. Decides(r, head, "grace") /\ tx[r].row.successor # head
  BY <1>x
<1>5. tx[r].row.replacedBy = head /\ tx[r].row.graceExpiresAt > tx[r].now
  BY <1>4 DEF Decides, Classify
<1>6. ErasedOnlyLate(tx[r].row, tx[r].now)
  BY <1>4 DEF GraceInv, Decides, ClearGranted
<1>7. head # None /\ tx[r].now \in Nat /\ tx[r].row.graceExpiresAt \in Nat
  BY NoneAssumption DEF GraceInv, ChainInv, TypedInv, TypeOK, Tx, TokenRow
<1>8. QED BY <1>4, <1>5, <1>6, <1>7 DEF ErasedOnlyLate

\* What a step does to a row's pointers: it is new or becomes replaced, or it
\* keeps them but for a ciphertext whose grace window is over.
RowAges(t) ==
    \/ token[t].replacedBy = None /\ token'[t].successor = token'[t].replacedBy
    \/ /\ token'[t].replacedBy = token[t].replacedBy
       /\ token'[t].graceExpiresAt = token[t].graceExpiresAt
       /\ \/ token'[t].successor = token[t].successor
          \/ /\ token'[t].successor = None
             /\ token[t].graceExpiresAt <= clock

\* No step lets a row of the table go back.
LEMMA RowsAge ==
    ASSUME GraceInv, NEW r \in Requests, ReadOnly(r) \/ Writing(r), NEW t \in Tokens
    PROVE  RowAges(t)
<1> USE DEF GraceInv, ChainInv, TypedInv, TypeOK
<1>1. CASE ReadOnly(r)
  BY <1>1, ReadOnlyTables DEF RowAges
<1>2. ASSUME NEW f \in Families, NEW new \in Tokens, CreateFamily(r, f, new)
      PROVE  RowAges(t)
  <2>1. token' = [token EXCEPT ![new] = NewTokenRow(f, clock, clock + IdleTimeout)]
        /\ token[new].family = None
    BY <1>2 DEF CreateFamily, Unused
  <2>2. token[new].replacedBy = None
    BY <2>1 DEF LinearChains
  <2>3. QED BY <2>1, <2>2 DEF RowAges, NewTokenRow
<1>3. ASSUME NEW head \in Tokens, NEW new \in Tokens, Rotate(r, head, new)
      PROVE  RowAges(t)
  <2>1. PICK f \in Families : f = FamilyOf(r)
    BY <1>3, BusyFamily DEF Rotate, Decides, ClearGranted
  <2> DEFINE expires == Earlier(tx[r].now + IdleTimeout, family[f].absoluteExpiresAt)
  <2>2. /\ token[head].replacedBy = None /\ token[new].family = None
        /\ token'[new] = NewTokenRow(f, tx[r].now, expires)
        /\ token'[head].replacedBy = new /\ token'[head].successor = new
        /\ \A u \in Tokens \ {head, new} :
             /\ token'[u].replacedBy = token[u].replacedBy
             /\ token'[u].graceExpiresAt = token[u].graceExpiresAt
             /\ token'[u].successor =
                  IF u \in ExpiredSuccessors(tx[r].now) THEN None
                  ELSE token[u].successor
    BY <1>3, <2>1, RotateRows
  <2>3. tx[r].now <= clock /\ tx[r].now \in Nat
    BY <1>3 DEF Rotate, Decides, ClearGranted, Tx
  <2> HIDE DEF expires
  <2>4. CASE t = head
    BY <2>2, <2>4 DEF RowAges
  <2>5. CASE t = new
    <3>1. token[new].replacedBy = None
      BY <2>2 DEF LinearChains
    <3>2. token'[new].replacedBy = None /\ token'[new].successor = None
      BY <2>2 DEF NewTokenRow
    <3>3. QED BY <2>5, <3>1, <3>2 DEF RowAges
  <2>6. CASE t \notin {head, new}
    <3>1. CASE t \in ExpiredSuccessors(tx[r].now)
      <4>1. token[t].graceExpiresAt <= clock
        BY <2>3, <3>1 DEF ExpiredSuccessors, TokenRow
      <4>2. QED BY <2>2, <2>6, <3>1, <4>1 DEF RowAges
    <3>2. CASE t \notin ExpiredSuccessors(tx[r].now)
      BY <2>2, <2>6, <3>2 DEF RowAges
    <3>3. QED BY <3>1, <3>2
  <2>7. QED BY <2>4, <2>5, <2>6
<1>4. CASE CommitReplay(r)
  BY <1>4, ClearSuccessorsKeeps DEF CommitReplay, RowAges
<1>5. CASE RevokeFamily(r)
  BY <1>5 DEF RevokeFamily, RowAges
<1>6. QED BY <1>1, <1>2, <1>3, <1>4, <1>5 DEF Writing

\* Each step keeps what is known of the recovery ciphertexts.
LEMMA GraceNext == GraceInv /\ [Next]_vars => GraceInv'
<1> SUFFICES ASSUME GraceInv, [Next]_vars PROVE GraceInv'
  OBVIOUS
<1>1. ChainInv'
  BY ChainNext DEF GraceInv
<1>2. clock \in Nat /\ clock' \in Nat /\ clock <= clock'
  <2>1. \A r \in Requests : Start(r) \/ Step(r) \/ Abort(r) => clock' = clock
    <3>1. \A r \in Requests : Writing(r) => clock' = clock
      BY DEF Writing, CreateFamily, Rotate, CommitReplay, RevokeFamily
    <3>2. QED BY <3>1, ReadOnlyOrWriting, ReadOnlyTables
  <2>2. QED BY <2>1 DEF Next, Tick, vars, GraceInv, ChainInv, TypedInv, TypeOK
<1>3. CASE UNCHANGED <<token, tx>>
  BY <1>1, <1>2, <1>3
  DEF GraceInv, ErasedOnlyLate, ChainInv, TypedInv, TypeOK, Tx, TokenRow
<1>4. ASSUME NEW r \in Requests, Start(r) \/ Step(r) \/ Abort(r)
      PROVE  GraceInv'
  <2>0. clock' = clock
    <3>1. \A q \in Requests : Writing(q) => clock' = clock
      BY DEF Writing, CreateFamily, Rotate, CommitReplay, RevokeFamily
    <3>2. QED BY <1>4, <3>1, ReadOnlyOrWriting, ReadOnlyTables
  <2>1. \A t \in Tokens : RowAges(t)
    BY <1>4, RowsAge, ReadOnlyOrWriting
  <2>2. \A t \in Tokens : ErasedOnlyLate(token'[t], clock')
    BY <2>0, <2>1 DEF RowAges, ErasedOnlyLate, GraceInv
  <2>3. ASSUME NEW q \in Requests
        PROVE  /\ ErasedOnlyLate(tx'[q].row, clock')
               /\ tx'[q].pc = "decide" =>
                    /\ tx'[q].now <= clock'
                    /\ ErasedOnlyLate(tx'[q].row, tx'[q].now)
    <3>1. ErasedOnlyLate(NoTokenRow, clock)
      BY DEF ErasedOnlyLate, NoTokenRow
    <3>2. \A f, n, e : ErasedOnlyLate(NewTokenRow(f, n, e), clock)
      BY DEF ErasedOnlyLate, NewTokenRow
    <3>3. TypeOK /\ clock <= clock
      BY <1>2 DEF GraceInv, ChainInv, TypedInv
    <3>4. QED BY <1>4, <2>0, <3>1, <3>2, <3>3, TxRows DEF GraceInv
  <2>4. ASSUME NEW q \in Requests, NEW t \in tx'[q].cleared
        PROVE  token'[t].replacedBy # None /\ token'[t].graceExpiresAt <= clock'
    <3>1. t \in Tokens
      BY <1>1 DEF ChainInv, TypedInv, TypeOK, Tx
    <3>2. token[t].replacedBy # None /\ token[t].graceExpiresAt <= clock
      <4>1. CASE t \in tx[q].cleared
        BY <4>1 DEF GraceInv
      <4>2. CASE t \notin tx[q].cleared
        <5>1. StartReplay(q) /\ tx'[q].cleared = ExpiredSuccessors(tx[q].now)
          BY <1>4, <2>4, <4>2, TxSets DEF GraceInv, ChainInv, TypedInv
        <5>2. tx[q].now <= clock
          BY <5>1 DEF GraceInv, StartReplay, Decides, ClearGranted
        <5>3. token[t].successor # None /\ token[t].graceExpiresAt <= tx[q].now
          BY <2>4, <5>1 DEF ExpiredSuccessors
        <5>4. token[t].replacedBy # None
          BY <3>1, <5>3 DEF GraceInv, ChainInv, LinearChains
        <5>5. token[t].graceExpiresAt \in Nat /\ tx[q].now \in Nat
          BY <3>1 DEF GraceInv, ChainInv, TypedInv, TypeOK, TokenRow, Tx
        <5>6. QED BY <1>2, <5>2, <5>3, <5>4, <5>5
      <4>3. QED BY <4>1, <4>2
    <3>3. QED BY <2>0, <2>1, <3>1, <3>2 DEF RowAges
  <2>5. QED BY <1>1, <2>2, <2>3, <2>4 DEF GraceInv
<1>5. QED BY <1>3, <1>4 DEF Next, Tick, vars

\* There are no ciphertexts at first.
LEMMA GraceInit == Init => GraceInv
BY ChainInit DEF GraceInv, Init, ErasedOnlyLate, NoTokenRow, IdleTx

\* The steps that answer a refresh with "rotated", "grace" or "replay", and which step gives which answer.
LEMMA RefreshAnswers ==
    ASSUME NEW r \in Requests, Start(r) \/ Step(r) \/ Abort(r)
    PROVE  \/ answer'.kind \notin {"rotated", "grace", "replay"}
          
           \/ CommitReplay(r) /\ answer' = Reply(r, "replay", None)
           \/ \E head \in Tokens :
                AnswerGrace(r, head) /\ answer' = Reply(r, "grace", head)
           \/ \E head \in Tokens, new \in Tokens :
                Rotate(r, head, new) /\ answer' = Reply(r, "rotated", new)
<1> DEFINE Other == answer'.kind \notin {"rotated", "grace", "replay"}
<1>1. ASSUME answer' = NoAnswer PROVE Other
  BY <1>1 DEF NoAnswer
<1>2. ASSUME NEW t, NEW k \in {"inactive", "csrf", "loggedOut", "loggedIn", "failed"},
             answer' = Reply(r, k, t)
      PROVE  Other
  BY <1>2 DEF Reply
<1> HIDE DEF Other
<1>3. CASE Start(r)
  <2>1. ASSUME NEW t \in Tokens, NEW csrf \in BOOLEAN, LogoutRead(r, t, csrf)
        PROVE  Other
    BY <1>1, <1>2, <2>1 DEF LogoutRead
  <2>2. QED
    BY <1>1, <1>3, <2>1 DEF Start, RefreshRead, CreateFamily, Other
<1>4. CASE \/ LockFamily(r) \/ StartReplay(r) \/ RejectInactive(r) \/ RejectCSRF(r)
           \/ MintSucceeds(r) \/ MintFails(r) \/ RevokeFamily(r) \/ Abort(r)
           \/ \E f \in Families : LockTarget(r, f)
  <2>1. Other
    BY <1>1, <1>2, <1>4
    DEF LockFamily, StartReplay, RejectInactive, RejectCSRF, MintSucceeds, MintFails,
        RevokeFamily, Abort, LockTarget, Finish, Continue
  <2>2. QED BY <2>1 DEF Other
<1>5. CASE CommitReplay(r) \/ (\E head \in Tokens : AnswerGrace(r, head))
           \/ \E head, new \in Tokens : Rotate(r, head, new)
  BY <1>5 DEF CommitReplay, AnswerGrace, Rotate, Finish
<1>6. QED BY <1>3, <1>4, <1>5 DEF Step, Decide

\* A rotation never meets a chain without a current token, nor a token inside
\* its grace window whose ciphertext is gone or belongs to another token.
THEOREM ChainsNeverBreak == Spec => []NoBrokenChain
<1>1. GraceInv => NoBrokenChain
  BY BrokenChainDisabled DEF NoBrokenChain
<1>2. QED BY <1>1, GraceInit, GraceNext, PTL DEF Spec

\* Chain, deadlines and rotations together: what a session's tokens promise.
THEOREM ChainsStayIntact == Spec => []ChainsIntact
<1>1. LinearChains /\ HeadExpiresWithFamily /\ NoBrokenChain => ChainsIntact
  BY DEF ChainsIntact
<1>2. QED BY <1>1, ChainsStayLinear, DeadlinesAgree, ChainsNeverBreak, PTL

-----------------------------------------------------------------------------
\* A replay under way has the families it must revoke among its targets: what
\* is committed later has a later time.
ReplayInv ==
    /\ GraceInv
    /\ \A r \in Requests : tx[r].pc = "revoking" =>
         /\ tx[r].now <= clock
         /\ \A f \in Families :
              (/\ Owner[f] = Owner[FamilyOf(r)]
               /\ family[f].state = "live"
               /\ family[f].committedAt < tx[r].now) => f \in tx[r].targets

\* A family that is live was live before, or has just been committed.
LEMMA LiveFamilies ==
    ASSUME TypedInv, [Next]_vars, NEW f \in Families, family'[f].state = "live"
    PROVE  /\ clock \in Nat /\ clock' \in Nat /\ clock <= clock'
           /\ \/ family'[f].committedAt = clock
              \/ /\ family[f].state = "live"
                 /\ family'[f].committedAt = family[f].committedAt
<1> USE DEF TypedInv, TypeOK, FamilyRow
<1>1. CASE Tick \/ UNCHANGED vars
  BY <1>1 DEF Tick, vars
<1>2. ASSUME NEW r \in Requests, ReadOnly(r) \/ Writing(r)
      PROVE  /\ clock' = clock
             /\ \/ family'[f].committedAt = clock
                \/ /\ family[f].state = "live"
                   /\ family'[f].committedAt = family[f].committedAt
  <2>1. CASE ReadOnly(r)
    BY <2>1, ReadOnlyTables
  <2>2. ASSUME NEW g \in Families, NEW new \in Tokens, CreateFamily(r, g, new)
        PROVE  /\ clock' = clock
               /\ \/ family'[f].committedAt = clock
                  \/ family'[f] = family[f]
    BY <2>2 DEF CreateFamily
  <2>3. ASSUME NEW head \in Tokens, NEW new \in Tokens, Rotate(r, head, new)
        PROVE  /\ clock' = clock
               /\ family'[f].state = family[f].state
               /\ family'[f].committedAt = family[f].committedAt
    BY <2>3 DEF Rotate
  <2>4. CASE CommitReplay(r)
    BY <2>4 DEF CommitReplay
  <2>5. CASE RevokeFamily(r)
    BY <2>5 DEF RevokeFamily
  <2>6. QED BY <1>2, <2>1, <2>2, <2>3, <2>4, <2>5 DEF Writing
<1>3. QED BY <1>1, <1>2, ReadOnlyOrWriting DEF Next

\* A request revokes since it began to, with the targets it then had.
LEMMA RevokingSince ==
    ASSUME TypeOK, NEW r \in Requests, Start(r) \/ Step(r) \/ Abort(r),
           NEW q \in Requests, tx'[q].pc = "revoking"
    PROVE  /\ tx'[q].now = tx[q].now
           /\ tx'[q].row = tx[q].row
           /\ \/ tx[q].pc = "revoking" /\ tx'[q].targets = tx[q].targets
              \/ /\ StartReplay(q)
                 /\ tx'[q].targets = {f \in Families :
                                       /\ Owner[f] = Owner[FamilyOf(q)]
                                       /\ family[f].state = "live"}
<1> USE DEF TypeOK, Tx
<1>1. ASSUME NEW k, NEW t, Finish(r, k, t) PROVE tx'[q] = tx[q]
  BY <1>1 DEF Finish, IdleTx
<1>2. ASSUME NEW t \in Tokens, NEW csrf \in BOOLEAN,
             RefreshRead(r, t, csrf) \/ LogoutRead(r, t, csrf)
      PROVE  tx'[q] = tx[q]
  <2>1. \A pc, row, c : Begun(pc, t, row, c).pc = pc
    BY DEF Begun, IdleTx
  <2>2. CASE q = r
    BY <1>2, <2>1, <2>2 DEF RefreshRead, LogoutRead
  <2>3. CASE q # r
    BY <1>2, <2>3 DEF RefreshRead, LogoutRead
  <2>4. QED BY <2>2, <2>3
<1>3. ASSUME NEW f \in Families, NEW new \in Tokens, CreateFamily(r, f, new)
      PROVE  tx'[q] = tx[q]
  <2>1. CASE q = r
    <3>1. tx'[q] = Begun("mint", new, NewTokenRow(f, clock, clock + IdleTimeout), TRUE)
      BY <1>3, <2>1 DEF CreateFamily
    <3>2. tx'[q].pc = "mint"
      BY <3>1 DEF Begun, IdleTx
    <3>3. QED BY <3>2
  <2>2. CASE q # r
    BY <1>3, <2>2 DEF CreateFamily
  <2>3. QED BY <2>1, <2>2
<1>4. CASE StartReplay(r)
  <2>1. CASE q = r
    BY <1>4, <2>1 DEF StartReplay
  <2>2. CASE q # r
    BY <1>4, <2>2 DEF StartReplay
  <2>3. QED BY <2>1, <2>2
<1>5. CASE LockFamily(r) \/ (MintFails(r) /\ Continue(r, "revokeOne"))
           \/ \E f \in Families : LockTarget(r, f)
  <2>1. tx'[q] = tx[q]
    BY <1>5 DEF LockFamily, Continue, LockTarget
  <2>2. QED BY <2>1
<1>6. CASE Start(r)
  <2>1. tx'[q] = tx[q]
    BY <1>2, <1>3, <1>6 DEF Start
  <2>2. QED BY <2>1
<1>7. CASE \E k, t : Finish(r, k, t)
  <2>1. tx'[q] = tx[q]
    BY <1>1, <1>7
  <2>2. QED BY <2>1
<1>8. QED
  BY <1>4, <1>5, <1>6, <1>7
  DEF Step, Decide, Abort, RejectInactive, RejectCSRF, AnswerGrace,
      Rotate, CommitReplay, RevokeFamily, MintSucceeds, MintFails

\* Each step keeps what a replay has locked and has yet to lock.
LEMMA ReplayNext == ReplayInv /\ [Next]_vars => ReplayInv'
<1> SUFFICES ASSUME ReplayInv, [Next]_vars PROVE ReplayInv'
  OBVIOUS
<1>1. GraceInv'
  BY GraceNext DEF ReplayInv
<1>2. TypedInv /\ TypeOK
  BY DEF ReplayInv, GraceInv, ChainInv, TypedInv
<1>3. ASSUME NEW q \in Requests, tx'[q].pc = "revoking"
      PROVE  /\ tx'[q].now = tx[q].now /\ tx[q].now \in Nat /\ tx[q].now <= clock
             /\ FamilyOf(q)' = FamilyOf(q)
             /\ \A f \in Families :
                  (/\ Owner[f] = Owner[FamilyOf(q)]
                   /\ family[f].state = "live"
                   /\ family[f].committedAt < tx[q].now) => f \in tx'[q].targets
  <2>1. tx[q].now \in Nat
    BY <1>2 DEF TypeOK, Tx
  <2>2. CASE UNCHANGED tx
    BY <1>3, <2>1, <2>2 DEF ReplayInv, FamilyOf
  <2>3. ASSUME NEW r \in Requests, Start(r) \/ Step(r) \/ Abort(r)
        PROVE  /\ tx'[q].now = tx[q].now /\ tx[q].now <= clock
               /\ FamilyOf(q)' = FamilyOf(q)
               /\ \A f \in Families :
                    (/\ Owner[f] = Owner[FamilyOf(q)]
                     /\ family[f].state = "live"
                     /\ family[f].committedAt < tx[q].now) => f \in tx'[q].targets
    <3>1. FamilyOf(q)' = FamilyOf(q) /\ tx'[q].now = tx[q].now
      BY <1>2, <1>3, <2>3, RevokingSince DEF FamilyOf
    <3>2. CASE tx[q].pc = "revoking" /\ tx'[q].targets = tx[q].targets
      BY <3>1, <3>2 DEF ReplayInv
    <3>3. CASE /\ StartReplay(q)
               /\ tx'[q].targets = {f \in Families :
                                     /\ Owner[f] = Owner[FamilyOf(q)]
                                     /\ family[f].state = "live"}
      <4>1. tx[q].now <= clock
        BY <3>3 DEF ReplayInv, GraceInv, StartReplay, Decides, ClearGranted
      <4>2. QED BY <3>1, <3>3, <4>1
    <3>4. QED BY <1>2, <1>3, <2>3, <3>2, <3>3, RevokingSince
  <2>4. QED BY <2>1, <2>2, <2>3 DEF Next, Tick, vars
<1>4. ASSUME NEW q \in Requests, tx'[q].pc = "revoking"
      PROVE  /\ tx'[q].now <= clock'
             /\ \A f \in Families :
                  (/\ Owner[f] = Owner[FamilyOf(q)']
                   /\ family'[f].state = "live"
                   /\ family'[f].committedAt < tx'[q].now) => f \in tx'[q].targets
  <2>1. clock \in Nat /\ clock' \in Nat /\ clock <= clock'
    <3>1. \A r \in Requests : Writing(r) => clock' = clock
      BY DEF Writing, CreateFamily, Rotate, CommitReplay, RevokeFamily
    <3>2. \A r \in Requests : Start(r) \/ Step(r) \/ Abort(r) => clock' = clock
      BY <3>1, ReadOnlyOrWriting, ReadOnlyTables
    <3>3. QED BY <1>2, <3>2 DEF Next, Tick, vars, TypeOK
  <2>2. ASSUME NEW f \in Families, Owner[f] = Owner[FamilyOf(q)'],
               family'[f].state = "live", family'[f].committedAt < tx'[q].now
        PROVE  f \in tx'[q].targets
    <3>1. family'[f].committedAt # clock
      BY <1>3, <1>4, <2>1, <2>2
    <3>2. family[f].state = "live" /\ family'[f].committedAt = family[f].committedAt
      BY <1>2, <2>2, <3>1, LiveFamilies
    <3>3. QED BY <1>3, <1>4, <2>2, <3>2
  <2>3. QED BY <1>3, <1>4, <2>1, <2>2
<1>5. QED BY <1>1, <1>4 DEF ReplayInv

\* There is no replay at first.
LEMMA ReplayInit == Init => ReplayInv
BY GraceInit DEF Init, ReplayInv, IdleTx

\* Whatever runs beside it, a refresh answered as a replay has revoked every
\* session of its user whose login had committed before it got its lock.
THEOREM ReplaysRevokeAll == Spec => ReplayRevokesEveryFamily
<1>1. ReplayInv /\ [Next]_vars =>
        [\A r \in Requests : answer' = Reply(r, "replay", None) =>
           \A f \in Families :
             (/\ Owner[f] = Owner[FamilyOf(r)]
              /\ family[f].state = "live"
              /\ family[f].committedAt < tx[r].now)
               => family'[f].state = "revoked"]_vars
  <2> SUFFICES ASSUME ReplayInv, [Next]_vars, ~UNCHANGED vars,
                      NEW r \in Requests, answer' = Reply(r, "replay", None),
                      NEW f \in Families, Owner[f] = Owner[FamilyOf(r)],
                      family[f].state = "live", family[f].committedAt < tx[r].now
               PROVE  family'[f].state = "revoked"
    OBVIOUS
  <2>1. ~Tick
    BY NoneAssumption DEF Tick, NoAnswer, Reply
  <2>2. PICK q \in Requests : Start(q) \/ Step(q) \/ Abort(q)
    BY <2>1 DEF Next
  <2>4. CommitReplay(q) /\ answer' = Reply(q, "replay", None)
    BY <2>2, RefreshAnswers DEF Reply
  <2>5. q = r
    BY <2>4 DEF Reply
  <2>6. f \in tx[r].targets
    BY <2>4, <2>5 DEF ReplayInv, CommitReplay
  <2>7. QED
    BY <2>4, <2>5, <2>6
    DEF CommitReplay, ReplayInv, GraceInv, ChainInv, TypedInv, TypeOK, FamilyRow
<1>2. QED
  BY <1>1, ReplayInit, ReplayNext, PTL DEF Spec, ReplayRevokesEveryFamily

-----------------------------------------------------------------------------
\* A refresh is answered with a token only while its family is active: the
\* family of the request's token, which the new token joins.
LEMMA AnsweredWhileActive ==
    ASSUME ChainInv, NEW r \in Requests, Start(r) \/ Step(r) \/ Abort(r),
           answer'.kind \in {"rotated", "grace"}
    PROVE  \E f \in Families :
             /\ answer'.req = r /\ token[tx[r].token].family = f
             /\ family[f].state = "live" /\ family'[f].state = "live"
             /\ answer'.token \in Tokens
             /\ token'[answer'.token].family = f
             /\ token'[answer'.token].replacedBy = None
             /\ token'[answer'.token].expiresAt > tx[r].now
<1> USE DEF ChainInv, TypedInv, TypeOK, FamilyRow
<1>1. ASSUME NEW head \in Tokens, AnswerGrace(r, head), answer' = Reply(r, "grace", head)
      PROVE  \E f \in Families :
               /\ answer'.req = r /\ token[tx[r].token].family = f
               /\ family[f].state = "live" /\ family'[f].state = "live"
               /\ answer'.token \in Tokens
               /\ token'[answer'.token].family = f
               /\ token'[answer'.token].replacedBy = None
               /\ token'[answer'.token].expiresAt > tx[r].now
  <2>1. PICK f \in Families : f = FamilyOf(r) /\ token[tx[r].token].family = f
    BY <1>1, BusyFamily DEF AnswerGrace, Decides, ClearGranted
  <2>2. /\ token[head].family = f /\ token[head].replacedBy = None
        /\ token[head].expiresAt > tx[r].now
        /\ family[f].state = "live" /\ token' = token /\ family' = family
    BY <1>1, <2>1 DEF AnswerGrace, Decides, IsHead, Heads, Active
  <2>3. answer'.req = r /\ answer'.token = head
    BY <1>1 DEF Reply
  <2>4. QED BY <2>1, <2>2, <2>3
<1>2. ASSUME NEW head \in Tokens, NEW new \in Tokens, Rotate(r, head, new),
             answer' = Reply(r, "rotated", new)
      PROVE  \E f \in Families :
               /\ answer'.req = r /\ token[tx[r].token].family = f
               /\ family[f].state = "live" /\ family'[f].state = "live"
               /\ answer'.token \in Tokens
               /\ token'[answer'.token].family = f
               /\ token'[answer'.token].replacedBy = None
               /\ token'[answer'.token].expiresAt > tx[r].now
  <2>1. PICK f \in Families : f = FamilyOf(r) /\ token[tx[r].token].family = f
    BY <1>2, BusyFamily DEF Rotate, Decides, ClearGranted
  <2> DEFINE expires == Earlier(tx[r].now + IdleTimeout, family[f].absoluteExpiresAt)
  <2>2. token'[new] = NewTokenRow(f, tx[r].now, expires)
    BY <1>2, <2>1, RotateRows
  <2>3. /\ family[f].state = "live" /\ family'[f].state = "live"
        /\ family[f].absoluteExpiresAt > tx[r].now
    BY <1>2, <2>1 DEF Rotate, Decides, Active
  <2>4. expires > tx[r].now
    <3>1. tx[r].now \in Nat
      BY DEF Tx
    <3>2. QED BY <2>3, <3>1, TimesAssumption DEF Earlier
  <2>5. answer'.req = r /\ answer'.token = new
    BY <1>2 DEF Reply
  <2> HIDE DEF expires
  <2>6. QED BY <2>1, <2>2, <2>3, <2>4, <2>5 DEF NewTokenRow
<1>3. ~(answer' = Reply(r, "replay", None))
  BY DEF Reply
<1>4. QED BY <1>1, <1>2, <1>3, RefreshAnswers

\* Whoever refreshes gets a token that is current and valid afterwards.
THEOREM RefreshesHandOutHeads == Spec => RefreshHandsOutTheHead
<1>1. ChainInv /\ [Next]_vars =>
        [answer'.kind \in {"rotated", "grace"} =>
           LET t == answer'.token IN
           /\ token'[t].replacedBy = None
           /\ token'[t].expiresAt > tx[answer'.req].now
           /\ family'[token'[t].family].state = "live"]_vars
  <2> SUFFICES ASSUME ChainInv, [Next]_vars, ~UNCHANGED vars,
                      answer'.kind \in {"rotated", "grace"}
               PROVE  /\ token'[answer'.token].replacedBy = None
                      /\ token'[answer'.token].expiresAt > tx[answer'.req].now
                      /\ family'[token'[answer'.token].family].state = "live"
    OBVIOUS
  <2>1. ~Tick
    BY DEF Tick, NoAnswer
  <2>2. PICK r \in Requests : Start(r) \/ Step(r) \/ Abort(r)
    BY <2>1 DEF Next
  <2>3. QED BY <2>2, AnsweredWhileActive
<1>2. QED BY <1>1, ChainInit, ChainNext, PTL DEF Spec, RefreshHandsOutTheHead, HeadHandedOut

\* A revoked family is left as it is and gets no token.
LEMMA RevokedFamilyStays ==
    ASSUME ChainInv, [Next]_vars, NEW f \in Families, family[f].state = "revoked"
    PROVE  /\ family'[f] = family[f]
           /\ \A t \in Tokens : token'[t].family = f => token[t].family = f
<1> USE DEF ChainInv, TypedInv, TypeOK, FamilyRow
<1>1. CASE Tick \/ UNCHANGED vars
  BY <1>1 DEF Tick, vars
<1>2. ASSUME NEW r \in Requests, ReadOnly(r)
      PROVE  family'[f] = family[f] /\ token' = token
  BY <1>2, ReadOnlyTables
<1>3. ASSUME NEW r \in Requests, NEW g \in Families, NEW new \in Tokens,
             CreateFamily(r, g, new)
      PROVE  /\ family'[f] = family[f]
             /\ \A t \in Tokens : token'[t].family = f => token[t].family = f
  <2>1. g # f /\ family'[f] = family[f]
        /\ token' = [token EXCEPT ![new] = NewTokenRow(g, clock, clock + IdleTimeout)]
    BY <1>3 DEF CreateFamily
  <2>2. QED BY <2>1 DEF NewTokenRow
<1>4. ASSUME NEW r \in Requests, NEW head \in Tokens, NEW new \in Tokens,
             Rotate(r, head, new)
      PROVE  /\ family'[f] = family[f]
             /\ \A t \in Tokens : token'[t].family = f => token[t].family = f
  <2>1. PICK g \in Families : g = FamilyOf(r)
    BY <1>4, BusyFamily DEF Rotate, Decides, ClearGranted
  <2>2. family[g].state = "live"
    BY <1>4, <2>1 DEF Rotate, Decides, Active
  <2>3. family'[f] = family[f]
    BY <1>4, <2>1, <2>2 DEF Rotate
  <2>4. \A t \in Tokens : t # new => token'[t].family = token[t].family
    BY <1>4, RotateRows
  <2>5. token'[new].family = g
    <3> DEFINE expires == Earlier(tx[r].now + IdleTimeout, family[g].absoluteExpiresAt)
    <3>1. token'[new] = NewTokenRow(g, tx[r].now, expires)
      BY <1>4, <2>1, RotateRows
    <3> HIDE DEF expires
    <3>2. QED BY <3>1 DEF NewTokenRow
  <2>6. QED BY <2>2, <2>3, <2>4, <2>5
<1>5. ASSUME NEW r \in Requests, CommitReplay(r)
      PROVE  /\ family'[f] = family[f]
             /\ \A t \in Tokens : token'[t].family = token[t].family
  BY <1>5, ClearSuccessorsKeeps DEF CommitReplay
<1>6. ASSUME NEW r \in Requests, RevokeFamily(r)
      PROVE  family'[f] = family[f] /\ token' = token
  <2>1. PICK g \in Families : g = FamilyOf(r)
    BY <1>6, BusyFamily DEF RevokeFamily
  <2>2. QED BY <1>6, <2>1 DEF RevokeFamily
<1>7. QED
  BY <1>1, <1>2, <1>3, <1>4, <1>5, <1>6, ReadOnlyOrWriting DEF Next, Writing

\* Revocation is final, whatever requests were under way when it committed.
THEOREM RevocationIsFinal == Spec => NoRefreshAfterRevocation
<1>1. ChainInv /\ [Next]_vars =>
        [\A f \in Families : family[f].state = "revoked" =>
           /\ family'[f] = family[f]
           /\ \A t \in Tokens : token'[t].family = f => token[t].family = f
           /\ answer'.kind \in {"rotated", "grace"}
                => token[tx[answer'.req].token].family # f]_vars
  <2> SUFFICES ASSUME ChainInv, [Next]_vars, ~UNCHANGED vars,
                      NEW f \in Families, family[f].state = "revoked"
               PROVE  /\ family'[f] = family[f]
                      /\ \A t \in Tokens : token'[t].family = f => token[t].family = f
                      /\ answer'.kind \in {"rotated", "grace"}
                           => token[tx[answer'.req].token].family # f
    OBVIOUS
  <2>1. ASSUME answer'.kind \in {"rotated", "grace"}
        PROVE  token[tx[answer'.req].token].family # f
    <3>1. ~Tick
      BY <2>1 DEF Tick, NoAnswer
    <3>2. PICK r \in Requests : Start(r) \/ Step(r) \/ Abort(r)
      BY <3>1 DEF Next
    <3>3. QED BY <2>1, <3>2, AnsweredWhileActive
  <2>2. QED BY <2>1, RevokedFamilyStays
<1>2. QED BY <1>1, ChainInit, ChainNext, PTL DEF Spec, NoRefreshAfterRevocation, RevokedStays

\* The two together: what a refresh hands out, and to whom it never does.
THEOREM RotationsAreSound == Spec => RotationsSound
BY RefreshesHandOutHeads, RevocationIsFinal, PTL DEF RotationsSound, NoRefreshAfterRevocation, RefreshHandsOutTheHead
=============================================================================
