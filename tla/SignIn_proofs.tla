------------------------------ MODULE SignIn_proofs ------------------------------
(***************************************************************************)
(* Proofs about what lets somebody in: the API tokens of a project         *)
(* (ApiTokens), the account that a person is signed in to (Identities) and *)
(* the keys that access tokens are checked with (SigningKeys), for any     *)
(* number of requests, tokens, people, accounts and versions of the key.   *)
(***************************************************************************)
EXTENDS ApiTokens, Identities, SigningKeys, FiniteSetTheorems, TLAPS

-----------------------------------------------------------------------------
(* API tokens.                                                             *)

RowStates == {"none", "live", "revoked"}

TokenRequests == [op: Changes \cup {"list", "use"}, key: Nat, waits: BOOLEAN,
                  tx: {"sent", "begun", "held", "done"}, ok: BOOLEAN,
                  old: SUBSET Keys, seen: [Keys -> RowStates]]

SettingsPages == [tokens: [Keys -> RowStates], load: {"due", "busy", "done", "failed"},
                  pending: {Nothing} \cup [op: {"revoke", "delete"}, key: Keys]]

TokensTypeOK ==
    /\ minted \in 0..MaxKeys
    /\ DOMAIN rows \subseteq 1..minted
    /\ rows \in [DOMAIN rows -> {"live", "revoked"}]
    /\ expired \subseteq Keys
    /\ known \subseteq Nat
    /\ call \in [Clients -> {NoRequest} \cup TokenRequests]
    /\ settings \in SettingsPages

\* A creation between its count and its commit, a transaction that has locked
\* a row, and a token that will never be accepted again.
Creating(c) == call[c].op = "create" /\ call[c].tx = "held"
Locking(c) == call[c].op \in {"use", "revoke", "delete"} /\ call[c].tx = "held"
Dead(k) ==
    /\ k \in 1..minted
    /\ k \in DOMAIN rows => rows[k] # "live"
    /\ \A c \in Clients : Creating(c) => call[c].key # k

LiveAt(old) == {k \in DOMAIN rows : rows[k] = "live" /\ k \notin old}

\* The advisory lock: one creation at a time is between its count and its
\* commit, and then there still is room for its token.
CapInv ==
    /\ \A c, d \in Clients : Creating(c) /\ Creating(d) => c = d
    /\ \A c \in Clients : Creating(c) =>
          /\ call[c].key \in 1..minted \ DOMAIN rows
          /\ Cardinality(LiveAt(call[c].old)) < Cap
    /\ \A c \in Clients : call[c].tx \in {"begun", "held"} => call[c].old \subseteq expired
    /\ \A c \in Clients : call[c].tx = "held" => call[c].op # "list"
    /\ TokensCapped

\* The row locks, and what the page may say of a token.
RevocationInv ==
    /\ \A c, d \in Clients : Locking(c) /\ Locking(d) /\ call[c].key = call[d].key => c = d
    /\ \A c \in Clients : Locking(c) =>
          /\ call[c].key \in DOMAIN rows
          /\ call[c].op # "delete" => rows[call[c].key] = "live"
    /\ \A k \in Keys : settings.tokens[k] = "revoked" => Dead(k)
    /\ \A c \in Clients :
          /\ call[c].op = "list" => \A k \in Keys : call[c].seen[k] = "revoked" => Dead(k)
          /\ call[c].op = "revoke" /\ call[c].ok => Dead(call[c].key)

TokensInv == TokensTypeOK /\ CapInv /\ RevocationInv

-----------------------------------------------------------------------------
\* The active tokens are among those a creation counts.
LEMMA LiveFinite ==
    ASSUME TokensTypeOK, NEW old PROVE IsFiniteSet(LiveAt(old)) /\ Cardinality(LiveAt(old)) \in Nat
<1>1. IsFiniteSet(1..minted)
  BY FS_Interval DEF TokensTypeOK
<1>2. LiveAt(old) \subseteq 1..minted
  BY DEF TokensTypeOK, LiveAt
<1>3. QED BY <1>1, <1>2, FS_Subset, FS_CardinalityType

\* Nothing is active before the first creation.
LEMMA TokensInitially == TokensInit => TokensInv
<1> SUFFICES ASSUME TokensInit PROVE TokensInv
  OBVIOUS
<1>1. TokensTypeOK
  BY TokenNumbers DEF TokensInit, TokensTypeOK, SettingsPages, NoRow, Nothing, RowStates
<1>2. TokensCapped
  <2>1. {k \in Keys : Active(k)} = {}
    BY DEF TokensInit, Active
  <2>2. QED BY <2>1, FS_EmptySet, TokenNumbers DEF TokensCapped
<1>3. QED
  BY <1>1, <1>2 DEF TokensInit, TokensInv, CapInv, RevocationInv, Creating, Locking, NoRequest, NoRow

\* A request whose transaction holds nothing afterwards: what its answer says
\* is true, and the rows are what they were.
LEMMA RequestKeeps ==
    ASSUME TokensInv, NEW c \in Clients, NEW r \in {NoRequest} \cup TokenRequests,
           call' = [call EXCEPT ![c] = r], UNCHANGED <<rows, expired>>,
           minted' \in minted..MaxKeys,
           r.tx # "held", r.tx = "begun" => r.old \subseteq expired,
           r.op = "list" => \A k \in Keys : r.seen[k] = "revoked" => Dead(k),
           r.op = "revoke" /\ r.ok => Dead(r.key),
           settings' \in SettingsPages, known' \subseteq Nat,
           \A k \in Keys : settings'.tokens[k] = "revoked" => Dead(k)
    PROVE  TokensInv'
<1> USE DEF TokensInv
<1>1. TokensTypeOK'
  BY TokenNumbers DEF TokensTypeOK
<1>2. \A d \in Clients : call'[d] = IF d = c THEN r ELSE call[d]
  BY DEF TokensTypeOK
<1>3. \A d \in Clients : (Creating(d)' => d # c /\ Creating(d)) /\ (Locking(d)' => d # c /\ Locking(d))
  BY <1>2 DEF Creating, Locking
<1>4. ASSUME NEW k, Dead(k) PROVE Dead(k)'
  BY <1>2, <1>3, <1>4 DEF Dead, TokensTypeOK
<1>5. CapInv'
  <2>1. \A d \in Clients : Creating(d)' => LiveAt(call[d].old)' = LiveAt(call[d].old)
    BY <1>2, <1>3 DEF LiveAt
  <2>2. TokensCapped'
    BY DEF CapInv, TokensCapped, Active
  <2>3. \A d \in Clients : Creating(d)' =>
            call'[d].key \in 1..minted' \ DOMAIN rows' /\ Cardinality(LiveAt(call[d].old)') < Cap
    BY <1>2, <1>3, <2>1 DEF CapInv, TokensTypeOK
  <2>4. QED BY <1>2, <1>3, <2>2, <2>3 DEF CapInv
<1>6. RevocationInv'
  <2>1. \A d \in Clients :
          /\ call'[d].op = "list" => \A k \in Keys : call'[d].seen[k] = "revoked" => Dead(k)
          /\ call'[d].op = "revoke" /\ call'[d].ok => Dead(call'[d].key)
    BY <1>2 DEF RevocationInv
  <2>2. \A d \in Clients :
          /\ call'[d].op = "list" => \A k \in Keys : call'[d].seen[k] = "revoked" => Dead(k)'
          /\ call'[d].op = "revoke" /\ call'[d].ok => Dead(call[d].key)'
    BY <1>4, <2>1 
  <2>3. QED BY <1>2, <1>3, <1>4, <2>2 DEF RevocationInv
<1>7. QED BY <1>1, <1>5, <1>6

\* What is sent says nothing yet.
LEMMA SendKeeps ==
    ASSUME TokensInv, NEW c \in Clients, NEW op \in Changes \cup {"list", "use"}, NEW key \in Nat,
           Send(c, op, key), settings' \in SettingsPages,
           \A k \in Keys : settings'.tokens[k] = settings.tokens[k]
    PROVE  TokensInv'
<1> DEFINE r == [op |-> op, key |-> key, waits |-> TRUE, tx |-> "sent", ok |-> FALSE, old |-> {}, seen |-> NoRow]
<1>1. r \in TokenRequests /\ call' = [call EXCEPT ![c] = r] /\ UNCHANGED <<rows, expired, minted, known>>
  BY DEF Send, TokenRequests, NoRow, RowStates
<1>2. \A k \in Keys : settings'.tokens[k] = "revoked" => Dead(k)
  BY DEF TokensInv, RevocationInv
<1>3. \A k \in Keys : r.seen[k] # "revoked"
  BY DEF NoRow
<1>4. minted' \in minted..MaxKeys /\ known' \subseteq Nat
  BY <1>1, TokenNumbers DEF TokensInv, TokensTypeOK
<1> HIDE DEF r
<1>5. r.tx = "sent" /\ ~r.ok
  BY DEF r
<1>6. QED BY <1>1, <1>2, <1>3, <1>4, <1>5, RequestKeeps

\* LoadTokens preserves the invariant.
LEMMA LoadTokensKeeps == ASSUME TokensInv, NEW c \in Clients, LoadTokens(c) PROVE TokensInv'
<1>1. settings' \in SettingsPages /\ \A k \in Keys : settings'.tokens[k] = settings.tokens[k]
  BY DEF LoadTokens, TokensInv, TokensTypeOK, SettingsPages
<1>2. QED BY <1>1, SendKeeps DEF LoadTokens

\* HandleCreate preserves the invariant.
LEMMA HandleCreateKeeps == ASSUME TokensInv, NEW c \in Clients, HandleCreate(c) PROVE TokensInv'
BY SendKeeps DEF HandleCreate, TokensInv, TokensTypeOK, Changes

\* Confirm preserves the invariant.
LEMMA ConfirmKeeps == ASSUME TokensInv, NEW c \in Clients, Confirm(c) PROVE TokensInv'
<1>1. settings \in SettingsPages /\ settings' = settings
  BY DEF TokensInv, TokensTypeOK, Confirm
<1>2. settings.pending.op \in Changes /\ settings.pending.key \in Nat
  BY <1>1, TokenNumbers DEF SettingsPages, Confirm, Changes, Keys
<1>3. QED BY <1>1, <1>2, SendKeeps DEF Confirm

\* Use preserves the invariant.
LEMMA UseKeeps == ASSUME TokensInv, NEW c \in Clients, Use(c) PROVE TokensInv'
<1>1. PICK k \in known : Send(c, "use", k)
  BY DEF Use
<1>2. k \in Nat /\ settings' \in SettingsPages /\ settings' = settings
  BY DEF Use, TokensInv, TokensTypeOK
<1>3. QED BY <1>1, <1>2, SendKeeps

\* A step of the page that sends nothing.
LEMMA PageKeeps ==
    ASSUME TokensInv, settings' \in SettingsPages, UNCHANGED <<rows, expired, minted, known, call>>,
           \A k \in Keys : settings'.tokens[k] = "revoked" => Dead(k)
    PROVE  TokensInv'
<1> USE DEF TokensInv
<1>1. TokensTypeOK'
  BY DEF TokensTypeOK
<1>2. CapInv'
  BY DEF CapInv, TokensCapped, Active, LiveAt, Creating
<1>3. \A k : Dead(k) => Dead(k)'
  BY DEF Dead, Creating
<1>4. RevocationInv'
  BY <1>3 DEF RevocationInv, Locking
<1>5. QED BY <1>1, <1>2, <1>4

\* Dialog preserves the invariant.
LEMMA DialogKeeps ==
    ASSUME TokensInv, CloseDialog \/ \E k \in Keys : AskFor("revoke", k) \/ AskFor("delete", k)
    PROVE  TokensInv'
<1>1. settings' \in SettingsPages /\ settings'.tokens = settings.tokens
  BY DEF TokensInv, TokensTypeOK, CloseDialog, AskFor, SettingsPages
<1>2. UNCHANGED <<rows, expired, minted, known, call>>
  BY DEF CloseDialog, AskFor
<1>3. QED BY <1>1, <1>2, PageKeeps DEF TokensInv, RevocationInv

\* What the page shows of an answer that is true, is true.
LEMMA ShownTrue ==
    ASSUME TokensInv, NEW r \in TokenRequests,
           r.op = "list" => \A k \in Keys : r.seen[k] = "revoked" => Dead(k),
           r.op = "revoke" /\ r.ok => Dead(r.key)
    PROVE  /\ Shown(r) \in SettingsPages
           /\ \A k \in Keys : Shown(r).tokens[k] = "revoked" => Dead(k)
<1>1. settings \in SettingsPages /\ \A k \in Keys : settings.tokens[k] = "revoked" => Dead(k)
  BY DEF TokensInv, TokensTypeOK, RevocationInv
<1>2. CASE ~r.ok
  BY <1>1, <1>2 DEF Shown, SettingsPages
<1>3. CASE r.ok /\ r.op = "list"
  BY <1>1, <1>3 DEF Shown, SettingsPages, TokenRequests
<1>4. CASE r.ok /\ r.op = "create"
  BY <1>1, <1>4 DEF Shown, SettingsPages, RowStates
<1>5. CASE r.ok /\ r.op = "revoke"
  BY <1>1, <1>5 DEF Shown, SettingsPages, RowStates
<1>6. CASE r.ok /\ r.op = "delete"
  BY <1>1, <1>6 DEF Shown, SettingsPages, RowStates
<1>7. CASE r.ok /\ r.op = "use"
  BY <1>1, <1>7 DEF Shown, SettingsPages
<1>8. QED BY <1>2, <1>3, <1>4, <1>5, <1>6, <1>7 DEF TokenRequests, Changes

\* Answer preserves the invariant.
LEMMA AnswerKeeps == ASSUME TokensInv, NEW c \in Clients, Answer(c) PROVE TokensInv'
<1>1. call[c] \in TokenRequests /\ call' = [call EXCEPT ![c] = NoRequest] /\ settings' = Shown(call[c])
      /\ UNCHANGED <<rows, expired, minted>>
  BY DEF Answer, TokensInv, TokensTypeOK, NoRequest
<1>2. /\ settings' \in SettingsPages
      /\ \A k \in Keys : settings'.tokens[k] = "revoked" => Dead(k)
  BY <1>1, ShownTrue DEF TokensInv, RevocationInv
<1>3. minted' \in minted..MaxKeys /\ known' \subseteq Nat
  BY <1>1, TokenNumbers DEF Answer, TokensInv, TokensTypeOK, TokenRequests
<1>4. NoRequest.tx = "none" /\ NoRequest.op = "none"
  BY DEF NoRequest
<1>5. QED BY <1>1, <1>2, <1>3, <1>4, RequestKeeps

\* Timeout preserves the invariant.
LEMMA TimeoutKeeps == ASSUME TokensInv, NEW c \in Clients, Timeout(c) PROVE TokensInv'
<1> DEFINE s == [call[c] EXCEPT !.ok = FALSE]
           r == IF call[c].tx = "done" \/ call[c].op = "list" THEN NoRequest ELSE [call[c] EXCEPT !.waits = FALSE]
<1>1. call[c] \in TokenRequests /\ call' = [call EXCEPT ![c] = r] /\ settings' = Shown(s)
      /\ UNCHANGED <<rows, expired, minted, known>>
  BY DEF Timeout, TokensInv, TokensTypeOK, NoRequest
<1>2. s \in TokenRequests /\ ~s.ok /\ s.op = call[c].op /\ s.seen = call[c].seen
  BY <1>1 DEF TokenRequests
<1>3. call[c].op = "list" => \A k \in Keys : call[c].seen[k] = "revoked" => Dead(k)
  BY DEF TokensInv, RevocationInv
<1> HIDE DEF s
<1>4. /\ settings' \in SettingsPages
      /\ \A k \in Keys : settings'.tokens[k] = "revoked" => Dead(k)
  BY <1>1, <1>2, <1>3, ShownTrue
<1>5. minted' \in minted..MaxKeys /\ known' \subseteq Nat
  BY <1>1, TokenNumbers DEF TokensInv, TokensTypeOK
<1>6. CASE call[c].tx = "done" \/ call[c].op = "list"
  <2>1. r = NoRequest /\ r.tx = "none" /\ r.op = "none"
    BY <1>6 DEF NoRequest
  <2> HIDE DEF r
  <2>2. QED BY <1>1, <1>4, <1>5, <2>1, RequestKeeps
<1>7. CASE call[c].tx # "done" /\ call[c].op # "list" /\ call[c].tx # "held"
  <2>1. /\ r \in TokenRequests /\ r.tx = call[c].tx /\ r.op = call[c].op /\ r.op # "list"
        /\ r.old = call[c].old /\ r.ok = call[c].ok /\ r.key = call[c].key
    BY <1>1, <1>7 DEF TokenRequests
  <2> HIDE DEF r
  <2>2. /\ r.tx = "begun" => r.old \subseteq expired
        /\ r.op = "revoke" /\ r.ok => Dead(r.key)
    BY <2>1 DEF TokensInv, CapInv, RevocationInv
  <2>3. QED BY <1>1, <1>4, <1>5, <1>7, <2>1, <2>2, RequestKeeps
<1>8. CASE call[c].op # "list" /\ call[c].tx = "held"
  <2>1. \A d \in Clients :
          /\ call'[d].op = call[d].op /\ call'[d].tx = call[d].tx /\ call'[d].key = call[d].key
          /\ call'[d].ok = call[d].ok /\ call'[d].old = call[d].old /\ call'[d].seen = call[d].seen
    BY <1>1, <1>8 DEF TokensInv, TokensTypeOK, TokenRequests
  <2>2. TokensTypeOK'
    BY <1>1, <1>4, <1>8 DEF TokensInv, TokensTypeOK, TokenRequests
  <2>3. \A d \in Clients : (Creating(d)' <=> Creating(d)) /\ (Locking(d)' <=> Locking(d))
    BY <2>1 DEF Creating, Locking
  <2>4. \A d \in Clients : LiveAt(call[d].old)' = LiveAt(call[d].old)
    BY <1>1, <2>1 DEF LiveAt
  <2>5. CapInv'
    BY <1>1, <2>1, <2>3, <2>4 DEF TokensInv, CapInv, TokensCapped, Active
  <2>6. \A k : Dead(k) => Dead(k)'
    BY <1>1, <2>1, <2>3 DEF Dead
  <2>7. \A d \in Clients :
          /\ call'[d].op = "list" => \A k \in Keys : call'[d].seen[k] = "revoked" => Dead(k)'
          /\ call'[d].op = "revoke" /\ call'[d].ok => Dead(call[d].key)'
    BY <2>1, <2>6 DEF TokensInv, RevocationInv
  <2>8. RevocationInv'
    BY <1>1, <1>4, <2>1, <2>3, <2>6, <2>7 DEF TokensInv, RevocationInv
  <2>9. QED BY <2>2, <2>5, <2>8 DEF TokensInv
<1>9. QED BY <1>6, <1>7, <1>8

\* BeginTx preserves the invariant.
LEMMA BeginTxKeeps == ASSUME TokensInv, NEW c \in Clients, BeginTx(c) PROVE TokensInv'
<1> DEFINE r == [call[c] EXCEPT !.tx = "begun", !.old = expired]
<1>1. call[c] \in TokenRequests /\ UNCHANGED <<rows, expired, minted, known, settings>>
  BY DEF BeginTx, TokensInv, TokensTypeOK, NoRequest
<1>2. call' = [call EXCEPT ![c] = r]
  BY DEF BeginTx, TokensInv, TokensTypeOK
<1>3. /\ r \in TokenRequests /\ r.tx = "begun" /\ r.old = expired /\ r.op = call[c].op
      /\ r.seen = call[c].seen /\ r.ok = call[c].ok /\ r.key = call[c].key
  BY <1>1 DEF TokensInv, TokensTypeOK, TokenRequests
<1> HIDE DEF r
<1>4. /\ r.op = "list" => \A k \in Keys : r.seen[k] = "revoked" => Dead(k)
      /\ r.op = "revoke" /\ r.ok => Dead(r.key)
      /\ \A k \in Keys : settings'.tokens[k] = "revoked" => Dead(k)
  BY <1>1, <1>3 DEF TokensInv, RevocationInv
<1>5. minted' \in minted..MaxKeys /\ known' \subseteq Nat /\ settings' \in SettingsPages
  BY <1>1, TokenNumbers DEF TokensInv, TokensTypeOK
<1>6. QED BY <1>1, <1>2, <1>3, <1>4, <1>5, RequestKeeps

\* A transaction that ends without a change.
LEMMA DoneKeeps ==
    ASSUME TokensInv, NEW c \in Clients, call[c] # NoRequest, NEW s \in TokenRequests, Done(c, s),
           s.op = "list" => \A k \in Keys : s.seen[k] = "revoked" => Dead(k),
           s.op = "revoke" /\ s.ok => Dead(s.key),
           UNCHANGED <<rows, expired, minted, known, settings>>
    PROVE  TokensInv'
<1> DEFINE r == IF s.waits THEN [s EXCEPT !.tx = "done"] ELSE NoRequest
<1>1. call' = [call EXCEPT ![c] = r]
  BY DEF Done
<1>2. /\ r \in TokenRequests /\ r.tx = "done" /\ r.op = s.op /\ r.seen = s.seen /\ r.ok = s.ok /\ r.key = s.key
      \/ r = NoRequest
  BY DEF TokenRequests
<1> HIDE DEF r
<1>3. /\ r \in {NoRequest} \cup TokenRequests /\ r.tx # "held" /\ r.tx # "begun"
      /\ r.op = "list" => \A k \in Keys : r.seen[k] = "revoked" => Dead(k)
      /\ r.op = "revoke" /\ r.ok => Dead(r.key)
  BY <1>2 DEF NoRequest
<1>4. /\ minted' \in minted..MaxKeys /\ known' \subseteq Nat /\ settings' \in SettingsPages
      /\ \A k \in Keys : settings'.tokens[k] = "revoked" => Dead(k)
  BY TokenNumbers DEF TokensInv, TokensTypeOK, RevocationInv
<1>5. QED BY <1>1, <1>3, <1>4, RequestKeeps

\* Abort preserves the invariant.
LEMMA AbortKeeps == ASSUME TokensInv, NEW c \in Clients, Abort(c) PROVE TokensInv'
<1>1. call[c] \in TokenRequests /\ call[c] # NoRequest
  BY DEF Abort, TokensInv, TokensTypeOK, NoRequest
<1>2. QED BY <1>1, DoneKeeps DEF Abort, TokensInv, RevocationInv

\* Read preserves the invariant.
LEMMA ReadKeeps == ASSUME TokensInv, NEW c \in Clients, Read(c) PROVE TokensInv'
<1> DEFINE page == [k \in Keys |-> IF k \in DOMAIN rows THEN rows[k] ELSE "none"]
           s == [call[c] EXCEPT !.ok = TRUE, !.seen = page]
<1>1. /\ call[c] \in TokenRequests /\ call[c] # NoRequest /\ call[c].op = "list" /\ Done(c, s)
      /\ UNCHANGED <<rows, expired, minted, known, settings>>
  BY DEF Read, TokensInv, TokensTypeOK, NoRequest
<1>2. page \in [Keys -> RowStates]
  BY DEF TokensInv, TokensTypeOK, RowStates
<1>3. \A k \in Keys : page[k] = "revoked" => Dead(k)
  BY DEF TokensInv, TokensTypeOK, CapInv, Dead
<1> HIDE DEF page
<1>4. s \in TokenRequests /\ s.seen = page /\ s.op = "list"
  BY <1>1, <1>2 DEF TokenRequests
<1> HIDE DEF s
<1>5. QED BY <1>1, <1>3, <1>4, DoneKeeps

\* A row that a transaction locks is one that no other has locked.
LEMMA HoldsKeeps ==
    ASSUME TokensInv, NEW c \in Clients, call[c].op \in {"revoke", "delete", "use"}, call[c].tx = "begun",
           Holds(c), RowFree(call[c].key), call[c].key \in DOMAIN rows,
           call[c].op = "delete" \/ rows[call[c].key] = "live",
           UNCHANGED <<rows, expired, minted, known, settings>>
    PROVE  TokensInv'
<1> USE DEF TokensInv
<1>1. call[c] \in TokenRequests /\ call' = [call EXCEPT ![c] = [@ EXCEPT !.tx = "held"]]
  BY DEF Holds, TokensTypeOK, NoRequest
<1>2. \A d \in Clients :
          /\ call'[d].op = call[d].op /\ call'[d].key = call[d].key
          /\ call'[d].ok = call[d].ok /\ call'[d].old = call[d].old /\ call'[d].seen = call[d].seen
          /\ call'[d].tx = IF d = c THEN "held" ELSE call[d].tx
  BY <1>1 DEF TokensTypeOK, TokenRequests
<1>3. TokensTypeOK'
  BY <1>1 DEF TokensTypeOK, TokenRequests
<1>4. \A d \in Clients : (Creating(d)' <=> Creating(d)) /\ (Locking(d)' <=> d = c \/ Locking(d))
  BY <1>1, <1>2 DEF Creating, Locking
<1>5. CapInv'
  <2>1. \A d \in Clients : LiveAt(call[d].old)' = LiveAt(call[d].old)
    BY <1>2 DEF LiveAt
  <2>2. QED BY <1>2, <1>4, <2>1 DEF CapInv, TokensCapped, Active
<1>6. \A k : Dead(k) => Dead(k)'
  BY <1>2, <1>4 DEF Dead
<1>7. \A d \in Clients :
        /\ call'[d].op = "list" => \A k \in Keys : call'[d].seen[k] = "revoked" => Dead(k)'
        /\ call'[d].op = "revoke" /\ call'[d].ok => Dead(call[d].key)'
  BY <1>2, <1>6 DEF RevocationInv
<1>8. RevocationInv'
  <2>1. \A d \in Clients \ {c} : Locking(d) => call[d].key # call[c].key
    BY DEF RowFree, Locking
  <2>2. QED BY <1>2, <1>4, <1>6, <1>7, <2>1 DEF RevocationInv
<1>9. QED BY <1>3, <1>5, <1>8

\* LockRow preserves the invariant.
LEMMA LockRowKeeps == ASSUME TokensInv, NEW c \in Clients, LockRow(c) PROVE TokensInv'
<1> DEFINE r == call[c]
<1>1. /\ r \in TokenRequests /\ r # NoRequest /\ r.op \in {"revoke", "delete", "use"} /\ r.tx = "begun"
      /\ RowFree(r.key) /\ UNCHANGED <<rows, expired, minted, known, settings>>
  BY DEF LockRow, TokensInv, TokensTypeOK, NoRequest
<1>2. \/ /\ r.key \in DOMAIN rows /\ (r.op = "delete" \/ rows[r.key] = "live")
         /\ r.key \in DOMAIN rows /\ Holds(c)
      \/ /\ r.op = "revoke" /\ r.key \in DOMAIN rows /\ rows[r.key] # "live"
         /\ Done(c, [r EXCEPT !.ok = rows[r.key] = "revoked"])
      \/ Done(c, r)
  BY DEF LockRow
<1>3. CASE Holds(c) /\ r.key \in DOMAIN rows /\ (r.op = "delete" \/ rows[r.key] = "live")
  BY <1>1, <1>3, HoldsKeeps
<1>4. CASE Done(c, r)
  BY <1>1, <1>4, DoneKeeps DEF TokensInv, RevocationInv
<1>5. CASE /\ r.op = "revoke" /\ r.key \in DOMAIN rows /\ rows[r.key] # "live"
           /\ Done(c, [r EXCEPT !.ok = rows[r.key] = "revoked"])
  <2>1. PICK s : s = [r EXCEPT !.ok = rows[r.key] = "revoked"]
    OBVIOUS
  <2>2. s \in TokenRequests /\ s.op = "revoke" /\ s.key = r.key
    BY <1>1, <1>5, <2>1 DEF TokenRequests
  <2>3. Dead(s.key)
    BY <1>5, <2>2 DEF Dead, TokensInv, TokensTypeOK, CapInv
  <2>4. QED BY <1>1, <1>5, <2>1, <2>2, <2>3, DoneKeeps
<1>6. QED BY <1>2, <1>3, <1>4, <1>5

\* A creation counts under the advisory lock, and goes on only if there is room.
LEMMA InsertTokenKeeps == ASSUME TokensInv, NEW c \in Clients, InsertToken(c) PROVE TokensInv'
<1> USE DEF TokensInv
<1> DEFINE r == call[c]
<1>1. /\ r \in TokenRequests /\ r # NoRequest /\ r.op = "create" /\ r.tx = "begun" /\ AdvisoryFree
      /\ UNCHANGED <<rows, expired, known, settings>>
  BY DEF InsertToken, TokensTypeOK, NoRequest
<1>2. CASE Done(c, r) /\ minted' = minted
  BY <1>1, <1>2, DoneKeeps DEF RevocationInv
<1>3. CASE /\ ~(Cardinality(LiveAt(r.old)) >= Cap) /\ minted < MaxKeys /\ minted' = minted + 1
           /\ call' = [call EXCEPT ![c].tx = "held", ![c].key = minted + 1]
  <2>1. call' = [call EXCEPT ![c] = [@ EXCEPT !.tx = "held", !.key = minted + 1]]
    BY <1>1, <1>3 DEF TokensTypeOK
  <2>2. \A d \in Clients :
          /\ call'[d].op = call[d].op /\ call'[d].ok = call[d].ok
          /\ call'[d].old = call[d].old /\ call'[d].seen = call[d].seen
          /\ call'[d].key = IF d = c THEN minted + 1 ELSE call[d].key
          /\ call'[d].tx = IF d = c THEN "held" ELSE call[d].tx
    BY <1>1, <2>1 DEF TokensTypeOK, TokenRequests
  <2>3. minted + 1 \in Nat /\ minted + 1 \in Keys /\ minted' = minted + 1 /\ minted + 1 \notin 1..minted
    BY <1>3, TokenNumbers DEF TokensTypeOK, Keys
  <2>4. TokensTypeOK'
    <3>1. call' \in [Clients -> {NoRequest} \cup TokenRequests]
      BY <1>1, <2>1, <2>3 DEF TokensTypeOK, TokenRequests
    <3>2. DOMAIN rows \subseteq 1..minted' /\ minted' \in 0..MaxKeys
      BY <2>3, TokenNumbers DEF TokensTypeOK, Keys
    <3>3. QED BY <1>1, <3>1, <3>2 DEF TokensTypeOK
  <2>5. \A d \in Clients : (Creating(d)' <=> d = c) /\ (Locking(d)' <=> Locking(d)) /\ ~Creating(d)
    BY <1>1, <2>2 DEF Creating, Locking, AdvisoryFree
  <2>6. CapInv'
    <3>1. LiveAt(call[c].old)' = LiveAt(r.old)
      BY <1>1, <2>2 DEF LiveAt
    <3>2. Cardinality(LiveAt(r.old)) < Cap
      BY <1>3, LiveFinite, TokenNumbers
    <3>3. TokensCapped'
      BY <1>1 DEF CapInv, TokensCapped, Active
    <3>4. call'[c].key \in 1..minted' \ DOMAIN rows'
      BY <1>1, <2>2, <2>3, <2>4 DEF TokensTypeOK, CapInv
    <3>5. \A d \in Clients : call'[d].tx \in {"begun", "held"} => call'[d].old \subseteq expired'
      BY <1>1, <2>2 DEF CapInv
    <3>6. \A d \in Clients : call'[d].tx = "held" => call'[d].op # "list"
      BY <1>1, <2>2 DEF CapInv
    <3>7. QED BY <2>5, <3>1, <3>2, <3>3, <3>4, <3>5, <3>6 DEF CapInv
  <2>7. ASSUME NEW k, Dead(k) PROVE Dead(k)'
    BY <1>1, <2>2, <2>3, <2>5, <2>7, TokenNumbers DEF Dead, TokensTypeOK, Keys
  <2>8. RevocationInv'
    <3>1. \A d \in Clients :
            /\ call'[d].op = "list" => \A k \in Keys : call'[d].seen[k] = "revoked" => Dead(k)'
            /\ call'[d].op = "revoke" /\ call'[d].ok => Dead(call[d].key)'
      BY <1>1, <2>2, <2>7 DEF RevocationInv
    <3>2. \A d \in Clients : Locking(d)' => call'[d].key = call[d].key /\ call'[d].op = call[d].op
      BY <1>1, <2>2, <2>5 DEF Locking
    <3>3. \A k \in Keys : settings'.tokens[k] = "revoked" => Dead(k)'
      BY <1>1, <2>7 DEF RevocationInv
    <3>4. \A d \in Clients : call'[d].op = "revoke" => call'[d].key = call[d].key
      BY <1>1, <2>2
    <3>5. QED BY <1>1, <2>5, <3>1, <3>2, <3>3, <3>4 DEF RevocationInv
  <2>9. QED BY <2>4, <2>6, <2>8
<1>4. QED BY <1>2, <1>3 DEF InsertToken, LiveAt

\* The passing of time makes tokens inactive, never active.
LEMMA ExpireKeeps == ASSUME TokensInv, NEW k \in Keys, Expire(k) PROVE TokensInv'
<1> USE DEF TokensInv
<1>1. expired' = expired \cup {k} /\ UNCHANGED <<rows, minted, known, call, settings>>
  BY DEF Expire
<1>2. TokensTypeOK'
  BY <1>1 DEF TokensTypeOK
<1>3. CapInv'
  <2>1. \A d \in Clients : LiveAt(call[d].old)' = LiveAt(call[d].old) /\ (Creating(d)' <=> Creating(d))
    BY <1>1 DEF LiveAt, Creating
  <2>2. TokensCapped'
    <3>1. {j \in Keys : Active(j)}' \subseteq LiveAt(expired)
      BY <1>1 DEF Active, LiveAt
    <3>2. LiveAt(expired) = {j \in Keys : Active(j)}
      BY TokenNumbers DEF Active, LiveAt, TokensTypeOK, Keys
    <3>3. Cardinality({j \in Keys : Active(j)}') <= Cardinality(LiveAt(expired))
      BY <3>1, LiveFinite, FS_Subset
    <3>4. {j \in Keys : Active(j)}' = {j \in Keys : Active(j)'} /\ IsFiniteSet({j \in Keys : Active(j)}')
      BY <3>1, LiveFinite, FS_Subset
    <3>5. Cardinality({j \in Keys : Active(j)}') \in Nat /\ Cardinality(LiveAt(expired)) \in Nat
      BY <3>4, LiveFinite, FS_CardinalityType
    <3>6. QED BY <3>2, <3>3, <3>5, TokenNumbers DEF CapInv, TokensCapped
  <2>3. QED BY <1>1, <2>1, <2>2 DEF CapInv
<1>4. \A j : Dead(j) => Dead(j)'
  BY <1>1 DEF Dead, Creating
<1>5. RevocationInv'
  BY <1>1, <1>4 DEF RevocationInv, Locking
<1>6. QED BY <1>2, <1>3, <1>5

\* A commit makes a token of its own active, or one less.
LEMMA CommitTxKeeps == ASSUME TokensInv, NEW c \in Clients, CommitTx(c) PROVE TokensInv'
<1> USE DEF TokensInv
<1> DEFINE r == call[c]
<1>1. PICK s : s = IF r.waits THEN [[r EXCEPT !.ok = TRUE] EXCEPT !.tx = "done"] ELSE NoRequest
  OBVIOUS
<1>2. /\ r \in TokenRequests /\ r.tx = "held"
      /\ call' = [call EXCEPT ![c] = s] /\ UNCHANGED <<expired, minted, known, settings>>
  BY <1>1 DEF CommitTx, Done, TokensTypeOK, NoRequest, TokenRequests
<1>3. /\ s \in {NoRequest} \cup TokenRequests /\ s.tx \in {"none", "done"}
      /\ s # NoRequest => s.op = r.op /\ s.key = r.key /\ s.seen = r.seen /\ s.ok
  BY <1>1, <1>2 DEF TokenRequests, NoRequest
<1>4. \A d \in Clients : call'[d] = IF d = c THEN s ELSE call[d]
  BY <1>2 DEF TokensTypeOK
<1>5. \A d \in Clients : (Creating(d)' <=> d # c /\ Creating(d)) /\ (Locking(d)' <=> d # c /\ Locking(d))
  BY <1>3, <1>4 DEF Creating, Locking
<1>6. /\ r.op = "create" =>
            /\ r.key \in 1..minted \ DOMAIN rows
            /\ Cardinality(LiveAt(r.old)) < Cap
            /\ rows' = [k \in DOMAIN rows \cup {r.key} |-> IF k = r.key THEN "live" ELSE rows[k]]
            /\ \A d \in Clients \ {c} : ~Creating(d)
      /\ r.op = "revoke" => r.key \in DOMAIN rows /\ rows' = [rows EXCEPT ![r.key] = "revoked"]
      /\ r.op = "delete" => rows' = [k \in DOMAIN rows \ {r.key} |-> rows[k]]
      /\ r.op = "use" => rows' = rows
      /\ r.op \in {"create", "revoke", "delete", "use", "list"}
      /\ r.old \subseteq expired
  BY <1>2 DEF CommitTx, CapInv, RevocationInv, Creating, Locking, TokenRequests, Changes
<1>7. r.op # "list"
  BY <1>2 DEF CapInv
<1>8. /\ DOMAIN rows' \subseteq 1..minted
      /\ rows' \in [DOMAIN rows' -> {"live", "revoked"}]
  BY <1>6, <1>7 DEF TokensTypeOK
<1>9. TokensTypeOK'
  BY <1>2, <1>3, <1>4, <1>8 DEF TokensTypeOK
<1>10. \A k : k \in DOMAIN rows' /\ rows'[k] = "live"
               => (k \in DOMAIN rows /\ rows[k] = "live") \/ (r.op = "create" /\ k = r.key)
  BY <1>6, <1>7 DEF TokensTypeOK
<1>11. TokensCapped'
  <2> DEFINE Now == {k \in Keys : Active(k)}
             Next == {k \in Keys : Active(k)}'
  <2>1. CASE r.op # "create"
    <3>1. Next \subseteq Now
      BY <1>2, <1>10, <2>1 DEF Active
    <3>2. Now = LiveAt(expired)
      BY TokenNumbers DEF Active, LiveAt, TokensTypeOK, Keys
    <3>3. /\ Cardinality(Next) <= Cardinality(Now) /\ Cardinality(Next) \in Nat
          /\ Cardinality(Now) \in Nat
      BY <3>1, <3>2, LiveFinite, FS_Subset, FS_CardinalityType
    <3>4. QED BY <3>3, TokenNumbers DEF CapInv, TokensCapped
  <2>2. CASE r.op = "create"
    <3>1. Next \subseteq LiveAt(r.old) \cup {r.key}
      BY <1>2, <1>6, <1>10, <2>2 DEF Active, LiveAt
    <3>2. r.key \notin LiveAt(r.old)
      BY <1>6, <2>2 DEF LiveAt
    <3>3. /\ IsFiniteSet(LiveAt(r.old) \cup {r.key})
          /\ Cardinality(LiveAt(r.old) \cup {r.key}) = Cardinality(LiveAt(r.old)) + 1
      BY <3>2, LiveFinite, FS_AddElement
    <3>4. Cardinality(Next) <= Cardinality(LiveAt(r.old)) + 1 /\ Cardinality(Next) \in Nat
      BY <3>1, <3>3, FS_Subset, FS_CardinalityType
    <3>5. QED BY <1>6, <2>2, <3>4, LiveFinite, TokenNumbers DEF TokensCapped
  <2>3. QED BY <2>1, <2>2
<1>12. CapInv'
  <2>1. ASSUME NEW d \in Clients, Creating(d)'
        PROVE  /\ call'[d].key \in 1..minted' \ DOMAIN rows'
               /\ Cardinality(LiveAt(call[d].old)') < Cap
    <3>1. Creating(d) /\ d # c /\ call'[d] = call[d] /\ r.op # "create"
      BY <1>4, <1>5, <1>6, <2>1
    <3>2. DOMAIN rows' \subseteq DOMAIN rows
      BY <1>6, <1>7, <3>1
    <3>3. LiveAt(call[d].old)' \subseteq LiveAt(call[d].old)
      BY <1>10, <3>1 DEF LiveAt
    <3>4. /\ Cardinality(LiveAt(call[d].old)') <= Cardinality(LiveAt(call[d].old))
          /\ Cardinality(LiveAt(call[d].old)') \in Nat
      BY <3>3, LiveFinite, FS_Subset, FS_CardinalityType
    <3>5. QED BY <1>2, <3>1, <3>2, <3>4, LiveFinite, TokenNumbers DEF CapInv
  <2>2. \A d \in Clients : call'[d].tx \in {"begun", "held"} => call'[d].old \subseteq expired'
    BY <1>2, <1>3, <1>4 DEF CapInv
  <2>3. \A d \in Clients : call'[d].tx = "held" => call'[d].op # "list"
    BY <1>3, <1>4 DEF CapInv
  <2>4. QED BY <1>5, <1>11, <2>1, <2>2, <2>3 DEF CapInv
<1>13. ASSUME NEW k, Dead(k) PROVE Dead(k)'
  <2>1. r.op = "create" => k # r.key
    BY <1>2, <1>13 DEF Dead, Creating
  <2>2. QED BY <1>2, <1>4, <1>5, <1>10, <1>13, <2>1 DEF Dead, TokensTypeOK
<1>14. ASSUME r.op = "revoke", NEW k, k = r.key PROVE Dead(k)'
  <2>1. k \in 1..minted /\ rows'[k] = "revoked"
    BY <1>6, <1>14 DEF TokensTypeOK
  <2>2. \A d \in Clients : Creating(d) => call[d].key # k
    BY <1>6, <1>14 DEF CapInv
  <2>3. QED BY <1>2, <1>4, <1>5, <2>1, <2>2 DEF Dead
<1>15. RevocationInv'
  <2>1. \A d \in Clients : Locking(d)' => Locking(d) /\ d # c /\ call'[d] = call[d]
    BY <1>4, <1>5
  <2>2. \A d \in Clients : Locking(d)' =>
          /\ call'[d].key \in DOMAIN rows'
          /\ call'[d].op # "delete" => rows'[call'[d].key] = "live"
    <3>1. \A d \in Clients : Locking(d)' /\ r.op \in {"revoke", "delete"} => call[d].key # r.key
      BY <1>2, <2>1 DEF RevocationInv, Locking
    <3>2. \A k \in DOMAIN rows : ~(r.op \in {"revoke", "delete"} /\ k = r.key) =>
             k \in DOMAIN rows' /\ rows'[k] = rows[k]
      BY <1>6, <1>7
    <3>3. \A d \in Clients : Locking(d)' => call[d].key \in DOMAIN rows /\ (call[d].op # "delete" => rows[call[d].key] = "live")
      BY <2>1 DEF RevocationInv
    <3>4. QED BY <2>1, <3>1, <3>2, <3>3
  <2>3. \A d \in Clients :
          /\ call'[d].op = "list" => \A k \in Keys : call'[d].seen[k] = "revoked" => Dead(k)'
          /\ call'[d].op = "revoke" /\ call'[d].ok => Dead(call[d].key)'
    <3>1. ASSUME NEW d \in Clients, d # c
          PROVE /\ call'[d].op = "list" => \A k \in Keys : call'[d].seen[k] = "revoked" => Dead(k)'
                /\ call'[d].op = "revoke" /\ call'[d].ok => Dead(call[d].key)'
      BY <1>4, <1>13, <3>1 DEF RevocationInv
    <3>2. /\ call'[c].op = "revoke" => r.op = "revoke" /\ call'[c].key = r.key
          /\ call'[c].op # "list"
      BY <1>3, <1>4, <1>7 DEF NoRequest
    <3>3. \A d \in Clients : d # c => call'[d] = call[d]
      BY <1>4
    <3>4. call'[c].op = "revoke" => \A k : k = call'[c].key => Dead(k)'
      BY <1>14, <3>2
    <3>5. QED BY <3>1, <3>2, <3>3, <3>4
  <2>4. \A k \in Keys : settings'.tokens[k] = "revoked" => Dead(k)'
    BY <1>2, <1>13 DEF RevocationInv
  <2>5. QED BY <2>1, <2>2, <2>3, <2>4 DEF RevocationInv
<1>16. QED BY <1>9, <1>12, <1>15

\* Every step of ApiTokens preserves TokensInv.
LEMMA TokensStep == TokensInv /\ [TokensNext]_tokens => TokensInv'
<1> SUFFICES ASSUME TokensInv, [TokensNext]_tokens PROVE TokensInv'
  OBVIOUS
<1>1. CASE UNCHANGED tokens
  <2>1. settings' \in SettingsPages /\ \A k \in Keys : settings'.tokens[k] = "revoked" => Dead(k)
    BY <1>1 DEF tokens, TokensInv, TokensTypeOK, RevocationInv
  <2>2. QED BY <1>1, <2>1, PageKeeps DEF tokens
<1>2. QED
  BY <1>1, LoadTokensKeeps, HandleCreateKeeps, ConfirmKeeps, UseKeeps, AnswerKeeps, TimeoutKeeps, BeginTxKeeps,
     InsertTokenKeeps, LockRowKeeps, CommitTxKeeps, ReadKeeps, AbortKeeps, ExpireKeeps, DialogKeeps DEF TokensNext

\* The inductive invariant of tokens, the page's list and requests holds in every reachable state.
THEOREM TokensInvariant == TokensSpec => []TokensInv
BY TokensInitially, TokensStep, PTL DEF TokensSpec

\* However many creations are under way at once, also those that the backend
\* no longer waits for, a project never has more active tokens than the cap
\* (CreateProjectAPIToken under its advisory lock).
THEOREM ActiveTokensCapped == TokensSpec => []TokensCapped
<1>1. TokensInv => TokensCapped
  BY DEF TokensInv, CapInv
<1>2. QED BY <1>1, TokensInvariant, PTL

\* No token is accepted any more once its revocation or deletion has
\* committed, nor once the page shows it as revoked (the row locks of
\* IntrospectProjectAPIToken and changeProjectAPITokenState).
THEOREM RevokedTokensStopWorking == TokensSpec => RevokedStopsWorking
<1>1. ASSUME TokensInv, NEW c \in Clients, call[c].op = "use", call[c].tx = "held"
      PROVE  /\ call[c].key \in DOMAIN rows /\ rows[call[c].key] = "live"
             /\ settings.tokens[call[c].key] # "revoked"
  <2>1. call[c].key \in DOMAIN rows /\ rows[call[c].key] = "live"
    BY <1>1 DEF TokensInv, RevocationInv, Locking
  <2>2. call[c].key \in Keys /\ ~Dead(call[c].key)
    BY <1>1, <2>1, TokenNumbers DEF TokensInv, TokensTypeOK, Keys, Dead
  <2>3. QED BY <1>1, <2>1, <2>2 DEF TokensInv, RevocationInv
<1>2. TokensInv /\ [TokensNext]_tokens =>
        [\A c \in Clients :
          call[c].op = "use" /\ call[c].tx = "held" /\ call'[c].tx = "done" /\ call'[c].ok
              => /\ call[c].key \in DOMAIN rows /\ rows[call[c].key] = "live"
                 /\ settings.tokens[call[c].key] # "revoked"]_tokens
  BY <1>1
<1>3. QED BY <1>2, TokensInvariant, PTL DEF TokensSpec, RevokedStopsWorking

-----------------------------------------------------------------------------
(* Accounts and identities.                                                *)

IdentityKeys == {Local(e) : e \in Emails} \cup {FortyTwo(s) : s \in Subjects \cup {"none"}}

VisitRecords ==
    [op: {"login", "link", "register", "password"},
     phase: {"find", "by email", "create", "insert", "enrich", "commit", "resolved", "lookup"},
     subject: Subjects \cup {"none"}, email: Emails, by: Nat, user: Nat,
     fresh: BOOLEAN, inserts: BOOLEAN, locks: SUBSET IdentityKeys]

IdentitiesTypeOK ==
    /\ issued \in Nat /\ started \in Nat
    /\ identity \in [DOMAIN identity -> Nat]
    /\ states \subseteq [no: Nat, purpose: {"login", "link"}, by: Nat]
    /\ visit \in [Visits -> {Away} \cup VisitRecords]

\* What a visit has inserted but not committed, it alone has; what it has
\* locked belongs to its account; and it only ends resolved with the account
\* of the identity it is about.
Unsettled == {"enrich", "commit"}
SoundVisit(v) ==
    /\ \A k \in v.locks : k \in DOMAIN identity /\ identity[k] = v.user
    /\ v.phase = "find" => v.op \in {"login", "link"}
    /\ v.phase = "by email" => v.op = "login"
    /\ v.phase \in {"find", "by email", "create", "lookup"} => v.locks = {} /\ ~v.fresh
    /\ v.phase \in {"find", "by email", "create", "insert"} => ~v.inserts
    /\ v.phase \in Unsettled =>
          IF v.inserts THEN KeyOf(v) \notin DOMAIN identity ELSE KeyOf(v) \in v.locks /\ ~v.fresh
    /\ v.phase = "resolved" =>
          \/ KeyOf(v) \in DOMAIN identity /\ identity[KeyOf(v)] = v.user
          \/ v.user \in gone

InsertsAKey(v) == v.phase \in Unsettled /\ v.inserts

IdentitiesInv ==
    /\ IdentitiesTypeOK
    /\ \A q \in Visits : visit[q] # Away => SoundVisit(visit[q])
    /\ \A q, d \in Visits : InsertsAKey(visit[q]) /\ InsertsAKey(visit[d])
                              /\ KeyOf(visit[q]) = KeyOf(visit[d]) => q = d
    /\ \A u \in DOMAIN users : \E k \in DOMAIN identity : identity[k] = u

-----------------------------------------------------------------------------
\* The initial states satisfy IdentitiesInv.
LEMMA IdentitiesInitially == IdentitiesInit => IdentitiesInv
BY DEF IdentitiesInit, IdentitiesInv, IdentitiesTypeOK, InsertsAKey, Away, Unsettled

\* A slot without a visit has inserted no key.
LEMMA AwayIsNoVisit == Away \notin VisitRecords /\ ~InsertsAKey(Away)
BY DEF Away, VisitRecords, InsertsAKey, Unsettled

\* A step of one visit that commits nothing.
LEMMA VisitKeeps ==
    ASSUME IdentitiesInv, NEW q \in Visits, NEW w \in {Away} \cup VisitRecords,
           visit' = [visit EXCEPT ![q] = w], UNCHANGED <<users, identity, gone>>,
           w # Away => SoundVisit(w),
           InsertsAKey(w) => (InsertsAKey(visit[q]) /\ KeyOf(w) = KeyOf(visit[q])) \/ ~Inserting(q, KeyOf(w)),
           issued' \in Nat, started' \in Nat,
           states' \subseteq [no: Nat, purpose: {"login", "link"}, by: Nat]
    PROVE  IdentitiesInv'
<1> USE DEF IdentitiesInv
<1>1. IdentitiesTypeOK'
  BY DEF IdentitiesTypeOK
<1>2. \A d \in Visits : visit'[d] = IF d = q THEN w ELSE visit[d]
  BY DEF IdentitiesTypeOK
<1>3. ASSUME NEW v, SoundVisit(v) PROVE SoundVisit(v)'
  BY <1>3 DEF SoundVisit, KeyOf
<1>4. \A d \in Visits : visit'[d] # Away => SoundVisit(visit[d])'
  <2>1. ASSUME NEW d \in Visits, NEW v, v = visit'[d], v # Away PROVE SoundVisit(v)'
    BY <1>2, <1>3, <2>1
  <2>2. QED BY <2>1 DEF SoundVisit, KeyOf
<1>5. \A d \in Visits \ {q} : InsertsAKey(w) /\ InsertsAKey(visit[d]) => KeyOf(visit[d]) # KeyOf(w)
  BY DEF Inserting, Others, InsertsAKey, Unsettled
<1>6. QED BY <1>1, <1>2, <1>4, <1>5 DEF InsertsAKey, KeyOf

\* What a visit that goes on may assume of itself.
LEMMA VisitOf ==
    ASSUME IdentitiesInv, NEW q \in Visits, visit[q].phase # "none"
    PROVE  visit[q] \in VisitRecords /\ visit[q] # Away /\ SoundVisit(visit[q])
BY AwayIsNoVisit DEF IdentitiesInv, IdentitiesTypeOK, Away

\* Leave preserves the invariant.
LEMMA LeaveKeeps ==
    ASSUME IdentitiesInv, NEW q \in Visits, Leave(q), UNCHANGED <<users, identity, issued, started, states, gone>>
    PROVE  IdentitiesInv'
<1>1. Away \in {Away} \cup VisitRecords /\ ~InsertsAKey(Away)
  BY AwayIsNoVisit
<1>2. issued' \in Nat /\ started' \in Nat /\ states' \subseteq [no: Nat, purpose: {"login", "link"}, by: Nat]
  BY DEF IdentitiesInv, IdentitiesTypeOK
<1>3. visit' = [visit EXCEPT ![q] = Away]
  BY DEF Leave
<1>4. QED BY <1>1, <1>2, <1>3, VisitKeeps

\* EndVisit preserves the invariant.
LEMMA EndVisitKeeps == ASSUME IdentitiesInv, NEW q \in Visits, EndVisit(q) PROVE IdentitiesInv'
BY LeaveKeeps DEF EndVisit

\* Start preserves the invariant.
LEMMA StartKeeps ==
    ASSUME IdentitiesInv, NEW u \in Nat, NEW purpose \in {"login", "link"}, Start(purpose, u) PROVE IdentitiesInv'
<1> USE DEF IdentitiesInv
<1>1. IdentitiesTypeOK'
  BY DEF Start, IdentitiesTypeOK
<1>2. UNCHANGED <<users, identity, visit, gone>>
  BY DEF Start
<1>3. QED BY <1>1, <1>2 DEF SoundVisit, KeyOf, InsertsAKey

\* A visit begins with nothing locked or inserted.
LEMMA VisitingKeeps ==
    ASSUME IdentitiesInv, NEW q \in Visits, UNCHANGED <<users, identity, gone, issued, started>>,
           NEW op \in {"login", "link", "register"}, NEW phase \in {"find", "create"},
           NEW s \in Subjects \cup {"none"}, NEW e \in Emails, NEW by \in Nat,
           phase = "find" => op \in {"login", "link"},
           Visiting(q, [op |-> op, phase |-> phase, subject |-> s, email |-> e, by |-> by]),
           states' \subseteq states
    PROVE  IdentitiesInv'
<1>1. PICK w : w = [op |-> op, phase |-> phase, subject |-> s, email |-> e, by |-> by,
                    user |-> 0, fresh |-> FALSE, inserts |-> FALSE, locks |-> {}]
  OBVIOUS
<1>2. w \in VisitRecords /\ ~InsertsAKey(w) /\ SoundVisit(w)
  BY <1>1 DEF VisitRecords, InsertsAKey, SoundVisit, Unsettled
<1>3. visit' = [visit EXCEPT ![q] = w]
  BY <1>1 DEF Visiting
<1>4. issued' \in Nat /\ started' \in Nat /\ states' \subseteq [no: Nat, purpose: {"login", "link"}, by: Nat]
  BY DEF IdentitiesInv, IdentitiesTypeOK
<1>5. QED BY <1>2, <1>3, <1>4, VisitKeeps

\* Callback preserves the invariant.
LEMMA CallbackKeeps ==
    ASSUME IdentitiesInv, NEW q \in Visits, NEW st \in states, NEW s \in Subjects, NEW e \in Emails,
           Callback(q, st, s, e)
    PROVE  IdentitiesInv'
<1>1. st.purpose \in {"login", "link"} /\ st.by \in Nat
  BY DEF IdentitiesInv, IdentitiesTypeOK
<1>2. CASE Visiting(q, [op |-> st.purpose, phase |-> "find", subject |-> s, email |-> e, by |-> st.by])
  BY <1>1, <1>2, VisitingKeeps DEF Callback
<1>3. CASE UNCHANGED visit
  BY <1>3 DEF Callback, IdentitiesInv, IdentitiesTypeOK, SoundVisit, KeyOf, InsertsAKey
<1>4. QED BY <1>2, <1>3 DEF Callback

\* Register preserves the invariant.
LEMMA RegisterKeeps == ASSUME IdentitiesInv, NEW q \in Visits, NEW e \in Emails, Register(q, e) PROVE IdentitiesInv'
BY VisitingKeeps DEF Register

\* PasswordLogin preserves the invariant.
LEMMA PasswordLoginKeeps ==
    ASSUME IdentitiesInv, NEW q \in Visits, NEW e \in Emails, PasswordLogin(q, e) PROVE IdentitiesInv'
<1>1. PICK w : w = [op |-> "password", phase |-> "resolved", subject |-> "none", email |-> e, by |-> 0,
                    user |-> identity[Local(e)], fresh |-> FALSE, inserts |-> FALSE, locks |-> {}]
  OBVIOUS
<1>2. /\ visit' = [visit EXCEPT ![q] = w] /\ Local(e) \in DOMAIN identity
      /\ UNCHANGED <<users, identity, issued, started, states, gone>>
  BY <1>1 DEF PasswordLogin
<1>3. w \in VisitRecords /\ ~InsertsAKey(w) /\ SoundVisit(w)
  BY <1>1, <1>2 DEF VisitRecords, InsertsAKey, SoundVisit, Unsettled, KeyOf, IdentitiesInv, IdentitiesTypeOK
<1>4. issued' \in Nat /\ started' \in Nat /\ states' \subseteq [no: Nat, purpose: {"login", "link"}, by: Nat]
  BY <1>2 DEF IdentitiesInv, IdentitiesTypeOK
<1>5. QED BY <1>2, <1>3, <1>4, VisitKeeps

\* FindIdentity preserves the invariant.
LEMMA FindIdentityKeeps == ASSUME IdentitiesInv, NEW q \in Visits, FindIdentity(q) PROVE IdentitiesInv'
<1>1. PICK v : v = visit[q]
  OBVIOUS
<1>2. PICK key : key = FortyTwo(v.subject)
  OBVIOUS
<1>3. /\ v \in VisitRecords /\ v.phase = "find" /\ SoundVisit(v) /\ v.op \in {"login", "link"}
      /\ UNCHANGED <<users, identity, issued, started, states, gone>>
  BY <1>1, VisitOf DEF FindIdentity, SoundVisit
<1>4. key = KeyOf(v) /\ key \in IdentityKeys
  BY <1>2, <1>3 DEF KeyOf, IdentityKeys, VisitRecords
<1>5. issued' \in Nat /\ started' \in Nat /\ states' \subseteq [no: Nat, purpose: {"login", "link"}, by: Nat]
  BY <1>3 DEF IdentitiesInv, IdentitiesTypeOK
<1>6. CASE Leave(q)
  BY <1>3, <1>6, LeaveKeeps
<1>7. CASE /\ key \in DOMAIN identity
           /\ visit' = [visit EXCEPT ![q].phase = "enrich", ![q].user = identity[key], ![q].locks = {key}]
  <2>1. PICK w : w = [v EXCEPT !.phase = "enrich", !.user = identity[key], !.locks = {key}]
    OBVIOUS
  <2>2. visit' = [visit EXCEPT ![q] = w]
    BY <1>1, <1>7, <2>1 DEF IdentitiesInv, IdentitiesTypeOK
  <2>3. identity[key] \in Nat
    BY <1>7 DEF IdentitiesInv, IdentitiesTypeOK
  <2>4. /\ w \in VisitRecords /\ w.phase = "enrich" /\ w.user = identity[key] /\ w.locks = {key}
        /\ w.op = v.op /\ w.subject = v.subject /\ w.email = v.email /\ w.inserts = v.inserts /\ w.fresh = v.fresh
    BY <1>3, <1>4, <2>1, <2>3 DEF VisitRecords
  <2>5. ~w.inserts /\ ~w.fresh /\ KeyOf(w) = key
    BY <1>3, <1>4, <2>4 DEF SoundVisit, KeyOf
  <2>6. SoundVisit(w) /\ ~InsertsAKey(w)
    BY <1>7, <2>4, <2>5 DEF SoundVisit, InsertsAKey, Unsettled
  <2>7. QED BY <1>3, <1>5, <2>2, <2>4, <2>6, VisitKeeps
<1>8. CASE v.op = "link" /\ visit' = [visit EXCEPT ![q].phase = "insert", ![q].user = v.by]
  <2>1. PICK w : w = [v EXCEPT !.phase = "insert", !.user = v.by]
    OBVIOUS
  <2>2. visit' = [visit EXCEPT ![q] = w]
    BY <1>1, <1>8, <2>1 DEF IdentitiesInv, IdentitiesTypeOK
  <2>3. w \in VisitRecords /\ w.phase = "insert" /\ w.locks = v.locks /\ w.inserts = v.inserts
    BY <1>3, <2>1 DEF VisitRecords
  <2>4. SoundVisit(w) /\ ~InsertsAKey(w)
    BY <1>3, <2>3 DEF SoundVisit, InsertsAKey, Unsettled
  <2>5. QED BY <1>3, <1>5, <2>2, <2>3, <2>4, VisitKeeps
<1>9. CASE v.op # "link" /\ Step(q, "by email")
  <2>1. PICK w : w = [v EXCEPT !.phase = "by email"]
    OBVIOUS
  <2>2. visit' = [visit EXCEPT ![q] = w]
    BY <1>1, <1>9, <2>1 DEF IdentitiesInv, IdentitiesTypeOK, Step
  <2>3. w \in VisitRecords /\ w.phase = "by email" /\ w.locks = v.locks /\ w.inserts = v.inserts
        /\ w.fresh = v.fresh /\ w.op = "login"
    BY <1>3, <1>9, <2>1 DEF VisitRecords
  <2>4. SoundVisit(w) /\ ~InsertsAKey(w)
    BY <1>3, <2>3 DEF SoundVisit, InsertsAKey, Unsettled
  <2>5. QED BY <1>3, <1>5, <2>2, <2>3, <2>4, VisitKeeps
<1>10. QED BY <1>1, <1>2, <1>6, <1>7, <1>8, <1>9 DEF FindIdentity

\* A visit that takes another phase and perhaps another account.
LEMMA NextPhaseKeeps ==
    ASSUME IdentitiesInv, NEW q \in Visits, NEW w \in VisitRecords, visit' = [visit EXCEPT ![q] = w],
           SoundVisit(w), ~InsertsAKey(w), UNCHANGED <<users, identity, started, states, gone>>, issued' \in Nat
    PROVE  IdentitiesInv'
<1>1. started' \in Nat /\ states' \subseteq [no: Nat, purpose: {"login", "link"}, by: Nat]
  BY DEF IdentitiesInv, IdentitiesTypeOK
<1>2. QED BY <1>1, VisitKeeps

\* FindByEmail preserves the invariant.
LEMMA FindByEmailKeeps == ASSUME IdentitiesInv, NEW q \in Visits, FindByEmail(q) PROVE IdentitiesInv'
<1>1. PICK v : v = visit[q]
  OBVIOUS
<1>2. PICK key : key = Local(v.email)
  OBVIOUS
<1>3. /\ v \in VisitRecords /\ v.phase = "by email" /\ SoundVisit(v)
      /\ UNCHANGED <<users, identity, issued, started, states, gone>> /\ issued' \in Nat
  BY <1>1, VisitOf DEF FindByEmail, IdentitiesInv, IdentitiesTypeOK
<1>4. key \in IdentityKeys
  BY <1>2, <1>3 DEF IdentityKeys, VisitRecords
<1>5. CASE /\ key \in DOMAIN identity
           /\ visit' = [visit EXCEPT ![q].phase = "insert", ![q].user = identity[key], ![q].locks = {key}]
  <2>1. PICK w : w = [v EXCEPT !.phase = "insert", !.user = identity[key], !.locks = {key}]
    OBVIOUS
  <2>2. visit' = [visit EXCEPT ![q] = w]
    BY <1>1, <1>5, <2>1 DEF IdentitiesInv, IdentitiesTypeOK
  <2>3. identity[key] \in Nat
    BY <1>5 DEF IdentitiesInv, IdentitiesTypeOK
  <2>4. w \in VisitRecords /\ w.phase = "insert" /\ w.user = identity[key] /\ w.locks = {key} /\ w.inserts = v.inserts
    BY <1>3, <1>4, <2>1, <2>3 DEF VisitRecords
  <2>5. SoundVisit(w) /\ ~InsertsAKey(w)
    BY <1>3, <1>5, <2>4 DEF SoundVisit, InsertsAKey, Unsettled
  <2>6. QED BY <1>3, <2>2, <2>4, <2>5, NextPhaseKeeps
<1>6. CASE Step(q, "create")
  <2>1. PICK w : w = [v EXCEPT !.phase = "create"]
    OBVIOUS
  <2>2. visit' = [visit EXCEPT ![q] = w]
    BY <1>1, <1>6, <2>1 DEF IdentitiesInv, IdentitiesTypeOK, Step
  <2>3. w \in VisitRecords /\ w.phase = "create" /\ w.locks = v.locks /\ w.inserts = v.inserts /\ w.fresh = v.fresh
    BY <1>3, <2>1 DEF VisitRecords
  <2>4. SoundVisit(w) /\ ~InsertsAKey(w)
    BY <1>3, <2>3 DEF SoundVisit, InsertsAKey, Unsettled
  <2>5. QED BY <1>3, <2>2, <2>3, <2>4, NextPhaseKeeps
<1>7. QED BY <1>1, <1>2, <1>5, <1>6 DEF FindByEmail

\* The loser of a race gives up everything that it had.
LEMMA ConflictKeeps ==
    ASSUME IdentitiesInv, NEW q \in Visits, visit[q].phase # "none", Conflict(q),
           UNCHANGED <<users, identity, issued, started, states, gone>>
    PROVE  IdentitiesInv'
<1>1. CASE Leave(q)
  BY <1>1, LeaveKeeps
<1>2. CASE visit' = [visit EXCEPT ![q] = [@ EXCEPT !.phase = "lookup", !.user = 0, !.fresh = FALSE, !.locks = {}]]
  <2>1. PICK w : w = [visit[q] EXCEPT !.phase = "lookup", !.user = 0, !.fresh = FALSE, !.locks = {}]
    OBVIOUS
  <2>2. visit' = [visit EXCEPT ![q] = w]
    BY <1>2, <2>1
  <2>3. w \in VisitRecords /\ w.phase = "lookup" /\ w.locks = {} /\ ~w.fresh
    BY <2>1, VisitOf DEF VisitRecords
  <2>4. SoundVisit(w) /\ ~InsertsAKey(w) /\ issued' \in Nat
    BY <2>3 DEF SoundVisit, InsertsAKey, Unsettled, IdentitiesInv, IdentitiesTypeOK
  <2>5. QED BY <2>2, <2>3, <2>4, NextPhaseKeeps
<1>3. QED BY <1>1, <1>2 DEF Conflict

\* CreateUser preserves the invariant.
LEMMA CreateUserKeeps == ASSUME IdentitiesInv, NEW q \in Visits, CreateUser(q) PROVE IdentitiesInv'
<1>1. PICK v : v = visit[q]
  OBVIOUS
<1>2. v \in VisitRecords /\ v.phase = "create" /\ SoundVisit(v) /\ UNCHANGED <<users, identity, started, states, gone>>
  BY <1>1, VisitOf DEF CreateUser
<1>3. CASE Conflict(q) /\ UNCHANGED issued
  BY <1>1, <1>2, <1>3, ConflictKeeps
<1>4. CASE /\ issued' = issued + 1
           /\ visit' = [visit EXCEPT ![q].phase = "insert", ![q].user = issued + 1, ![q].fresh = TRUE]
  <2>1. PICK w : w = [v EXCEPT !.phase = "insert", !.user = issued + 1, !.fresh = TRUE]
    OBVIOUS
  <2>2. visit' = [visit EXCEPT ![q] = w]
    BY <1>1, <1>4, <2>1 DEF IdentitiesInv, IdentitiesTypeOK
  <2>3. issued + 1 \in Nat
    BY DEF IdentitiesInv, IdentitiesTypeOK
  <2>4. w \in VisitRecords /\ w.phase = "insert" /\ w.locks = v.locks /\ w.inserts = v.inserts
    BY <1>2, <2>1, <2>3 DEF VisitRecords
  <2>5. SoundVisit(w) /\ ~InsertsAKey(w)
    BY <1>2, <2>4 DEF SoundVisit, InsertsAKey, Unsettled
  <2>6. QED BY <1>2, <1>4, <2>2, <2>3, <2>4, <2>5, NextPhaseKeeps
<1>5. QED BY <1>3, <1>4 DEF CreateUser

\* InsertIdentity preserves the invariant.
LEMMA InsertIdentityKeeps == ASSUME IdentitiesInv, NEW q \in Visits, InsertIdentity(q) PROVE IdentitiesInv'
<1>1. PICK v : v = visit[q]
  OBVIOUS
<1>2. /\ v \in VisitRecords /\ v.phase = "insert" /\ SoundVisit(v) /\ ~Inserting(q, KeyOf(v))
      /\ UNCHANGED <<users, identity, issued, started, states, gone>>
  BY <1>1, VisitOf DEF InsertIdentity
<1>3. CASE Conflict(q)
  BY <1>1, <1>2, <1>3, ConflictKeeps
<1>4. CASE Leave(q)
  BY <1>2, <1>4, LeaveKeeps
<1>5. CASE /\ KeyOf(v) \notin DOMAIN identity
           /\ visit' = [visit EXCEPT ![q].phase = "enrich", ![q].inserts = TRUE]
  <2>1. PICK w : w = [v EXCEPT !.phase = "enrich", !.inserts = TRUE]
    OBVIOUS
  <2>2. visit' = [visit EXCEPT ![q] = w]
    BY <1>1, <1>5, <2>1 DEF IdentitiesInv, IdentitiesTypeOK
  <2>3. /\ w \in VisitRecords /\ w.phase = "enrich" /\ w.inserts /\ w.locks = v.locks /\ w.user = v.user
        /\ w.op = v.op /\ w.subject = v.subject /\ w.email = v.email
    BY <1>2, <2>1 DEF VisitRecords
  <2>4. KeyOf(w) = KeyOf(v)
    BY <2>3 DEF KeyOf
  <2>5. SoundVisit(w)
    BY <1>2, <1>5, <2>3, <2>4 DEF SoundVisit, Unsettled
  <2>6. issued' \in Nat /\ started' \in Nat /\ states' \subseteq [no: Nat, purpose: {"login", "link"}, by: Nat]
    BY <1>2 DEF IdentitiesInv, IdentitiesTypeOK
  <2>7. QED BY <1>2, <2>2, <2>3, <2>4, <2>5, <2>6, VisitKeeps
<1>6. QED BY <1>1, <1>3, <1>4, <1>5 DEF InsertIdentity

\* Enrich preserves the invariant.
LEMMA EnrichKeeps == ASSUME IdentitiesInv, NEW q \in Visits, Enrich(q) PROVE IdentitiesInv'
<1>1. PICK v : v = visit[q]
  OBVIOUS
<1>2. /\ v \in VisitRecords /\ v.phase = "enrich" /\ SoundVisit(v)
      /\ UNCHANGED <<users, identity, issued, started, states, gone>>
  BY <1>1, VisitOf DEF Enrich
<1>3. CASE Leave(q)
  BY <1>2, <1>3, LeaveKeeps
<1>4. CASE Step(q, "commit")
  <2>1. PICK w : w = [v EXCEPT !.phase = "commit"]
    OBVIOUS
  <2>2. visit' = [visit EXCEPT ![q] = w]
    BY <1>1, <1>4, <2>1 DEF IdentitiesInv, IdentitiesTypeOK, Step
  <2>3. /\ w \in VisitRecords /\ w.phase = "commit" /\ w.inserts = v.inserts /\ w.locks = v.locks
        /\ w.user = v.user /\ w.fresh = v.fresh /\ w.op = v.op /\ w.subject = v.subject /\ w.email = v.email
    BY <1>2, <2>1 DEF VisitRecords
  <2>4. KeyOf(w) = KeyOf(v)
    BY <2>3 DEF KeyOf
  <2>5. SoundVisit(w)
    BY <1>2, <2>3, <2>4 DEF SoundVisit, Unsettled
  <2>6. InsertsAKey(w) => InsertsAKey(visit[q]) /\ KeyOf(w) = KeyOf(visit[q])
    BY <1>1, <1>2, <2>3, <2>4 DEF InsertsAKey, Unsettled
  <2>7. issued' \in Nat /\ started' \in Nat /\ states' \subseteq [no: Nat, purpose: {"login", "link"}, by: Nat]
    BY <1>2 DEF IdentitiesInv, IdentitiesTypeOK
  <2>8. QED BY <1>2, <2>2, <2>3, <2>5, <2>6, <2>7, VisitKeeps
<1>5. QED BY <1>3, <1>4 DEF Enrich

\* Lookup preserves the invariant.
LEMMA LookupKeeps == ASSUME IdentitiesInv, NEW q \in Visits, Lookup(q) PROVE IdentitiesInv'
<1>1. PICK v : v = visit[q]
  OBVIOUS
<1>2. /\ v \in VisitRecords /\ v.phase = "lookup" /\ SoundVisit(v)
      /\ UNCHANGED <<users, identity, issued, started, states, gone>> /\ issued' \in Nat
  BY <1>1, VisitOf DEF Lookup, IdentitiesInv, IdentitiesTypeOK
<1>3. CASE Leave(q)
  BY <1>2, <1>3, LeaveKeeps
<1>4. CASE /\ KeyOf(v) \in DOMAIN identity
           /\ visit' = [visit EXCEPT ![q].phase = "resolved", ![q].user = identity[KeyOf(v)]]
  <2>1. PICK w : w = [v EXCEPT !.phase = "resolved", !.user = identity[KeyOf(v)]]
    OBVIOUS
  <2>2. visit' = [visit EXCEPT ![q] = w]
    BY <1>1, <1>4, <2>1 DEF IdentitiesInv, IdentitiesTypeOK
  <2>3. identity[KeyOf(v)] \in Nat
    BY <1>4 DEF IdentitiesInv, IdentitiesTypeOK
  <2>4. /\ w \in VisitRecords /\ w.phase = "resolved" /\ w.user = identity[KeyOf(v)] /\ w.locks = v.locks
        /\ w.op = v.op /\ w.subject = v.subject /\ w.email = v.email
    BY <1>2, <2>1, <2>3 DEF VisitRecords
  <2>5. KeyOf(w) = KeyOf(v)
    BY <2>4 DEF KeyOf
  <2>6. SoundVisit(w) /\ ~InsertsAKey(w)
    BY <1>2, <1>4, <2>4, <2>5 DEF SoundVisit, InsertsAKey, Unsettled
  <2>7. QED BY <1>2, <2>2, <2>4, <2>6, NextPhaseKeeps
<1>5. QED BY <1>1, <1>3, <1>4 DEF Lookup

\* A commit adds an identity that nobody has and nobody else is adding.
LEMMA CommitVisitKeeps == ASSUME IdentitiesInv, NEW q \in Visits, CommitVisit(q) PROVE IdentitiesInv'
<1> USE DEF IdentitiesInv
<1>1. PICK v : v = visit[q]
  OBVIOUS
<1>2. v \in VisitRecords /\ v.phase = "commit" /\ SoundVisit(v) /\ UNCHANGED <<issued, started, states, gone>>
  BY <1>1, VisitOf DEF CommitVisit
<1>3. PICK w : w = IF v.op = "link" THEN Away ELSE [v EXCEPT !.phase = "resolved", !.locks = {}]
  OBVIOUS
<1>4. visit' = [visit EXCEPT ![q] = w]
  BY <1>1, <1>3 DEF CommitVisit, Leave
<1>5. /\ w \in {Away} \cup VisitRecords /\ ~InsertsAKey(w)
      /\ w # Away => /\ w.phase = "resolved" /\ w.locks = {} /\ w.user = v.user
                     /\ w.op = v.op /\ w.subject = v.subject /\ w.email = v.email
  BY <1>2, <1>3, AwayIsNoVisit DEF VisitRecords, InsertsAKey, Unsettled
<1>6. /\ v.inserts => KeyOf(v) \notin DOMAIN identity
      /\ ~v.inserts => KeyOf(v) \in v.locks /\ ~v.fresh
      /\ v.fresh => v.inserts
  BY <1>2 DEF SoundVisit, Unsettled, VisitRecords
<1>7. /\ DOMAIN identity \subseteq DOMAIN identity'
      /\ \A k \in DOMAIN identity : identity'[k] = identity[k]
      /\ KeyOf(v) \in DOMAIN identity' /\ identity'[KeyOf(v)] = v.user
      /\ \A k \in DOMAIN identity' : k \in DOMAIN identity \/ (k = KeyOf(v) /\ v.inserts)
      /\ identity' \in [DOMAIN identity' -> Nat]
  <2>1. CASE v.inserts
    <3>1. identity' = [k \in DOMAIN identity \cup {KeyOf(v)} |-> IF k = KeyOf(v) THEN v.user ELSE identity[k]]
      BY <1>1, <2>1 DEF CommitVisit
    <3>2. v.user \in Nat
      BY <1>2 DEF VisitRecords
    <3>3. QED BY <1>6, <2>1, <3>1, <3>2 DEF IdentitiesTypeOK
  <2>2. CASE ~v.inserts
    <3>1. identity' = identity
      BY <1>1, <2>2 DEF CommitVisit
    <3>2. KeyOf(v) \in DOMAIN identity /\ identity[KeyOf(v)] = v.user
      BY <1>2, <1>6, <2>2 DEF SoundVisit
    <3>3. QED BY <3>1, <3>2 DEF IdentitiesTypeOK
  <2>3. QED BY <2>1, <2>2
<1>8. IdentitiesTypeOK'
  BY <1>2, <1>4, <1>5, <1>7 DEF IdentitiesTypeOK
<1>9. \A d \in Visits : visit'[d] = IF d = q THEN w ELSE visit[d]
  BY <1>4 DEF IdentitiesTypeOK
<1>10. ASSUME NEW d \in Visits \ {q}, visit[d] # Away PROVE SoundVisit(visit[d])'
  <2>1. PICK x : x = visit[d]
    OBVIOUS
  <2>2. SoundVisit(x) /\ x \in VisitRecords
    BY <1>10, <2>1 DEF IdentitiesTypeOK
  <2>3. InsertsAKey(x) /\ v.inserts => KeyOf(x) # KeyOf(v)
    BY <1>1, <1>2, <2>1 DEF InsertsAKey, Unsettled
  <2>4. InsertsAKey(x) => KeyOf(x) \notin DOMAIN identity'
    BY <1>7, <2>2, <2>3 DEF SoundVisit, InsertsAKey
  <2>5. /\ \A k \in x.locks : k \in DOMAIN identity' /\ identity'[k] = x.user
        /\ x.phase = "resolved" =>
             (KeyOf(x) \in DOMAIN identity' /\ identity'[KeyOf(x)] = x.user) \/ x.user \in gone'
    BY <1>2, <1>7, <2>2 DEF SoundVisit
  <2>6. SoundVisit(x)'
    BY <2>2, <2>4, <2>5 DEF SoundVisit, InsertsAKey, KeyOf
  <2>7. visit'[d] = x
    BY <1>9, <2>1
  <2>8. QED BY <2>6, <2>7 DEF SoundVisit, KeyOf
<1>11. w # Away => SoundVisit(w)'
  <2>1. w # Away => KeyOf(w) = KeyOf(v)
    BY <1>5 DEF KeyOf
  <2>2. QED BY <1>5, <1>7, <2>1 DEF SoundVisit, KeyOf, Unsettled
<1>12. \A d \in Visits : visit'[d] # Away => SoundVisit(visit[d])'
  <2>1. visit'[q] # Away => SoundVisit(visit[q])'
    BY <1>9, <1>11 DEF SoundVisit, KeyOf
  <2>2. QED BY <1>9, <1>10, <2>1
<1>13. \A d, x \in Visits : InsertsAKey(visit'[d]) /\ InsertsAKey(visit'[x])
                              /\ KeyOf(visit'[d]) = KeyOf(visit'[x]) => d = x
  BY <1>5, <1>9
<1>14. \A u \in DOMAIN users' : \E k \in DOMAIN identity' : identity'[k] = u
  <2>1. \A u \in DOMAIN users' : u \in DOMAIN users \/ u = v.user
    BY <1>1 DEF CommitVisit
  <2>2. QED BY <1>7, <2>1
<1>15. QED BY <1>8, <1>12, <1>13, <1>14 DEF InsertsAKey, KeyOf

\* A deletion takes nothing that a visit has locked.
LEMMA CloseAccountKeeps == ASSUME IdentitiesInv, NEW u, CloseAccount(u) PROVE IdentitiesInv'
<1> USE DEF IdentitiesInv
<1>1. /\ identity' = [k \in {j \in DOMAIN identity : identity[j] # u} |-> identity[k]]
      /\ users' = [w \in DOMAIN users \ {u} |-> users[w]]
      /\ gone' = gone \cup {u} /\ states' \subseteq states /\ UNCHANGED <<issued, started, visit>>
      /\ \A q \in Visits : visit[q].phase # "none" => \A k \in visit[q].locks : identity[k] # u
  BY DEF CloseAccount
<1>2. \A k : k \in DOMAIN identity' <=> k \in DOMAIN identity /\ identity[k] # u
  BY <1>1
<1>3. \A k \in DOMAIN identity' : identity'[k] = identity[k]
  BY <1>1
<1>4. IdentitiesTypeOK'
  BY <1>1, <1>2, <1>3 DEF IdentitiesTypeOK
<1>5. ASSUME NEW q \in Visits, visit[q] # Away PROVE SoundVisit(visit[q])'
  <2>1. PICK v : v = visit[q]
    OBVIOUS
  <2>2. SoundVisit(v) /\ v.phase # "none"
    BY <1>5, <2>1 DEF IdentitiesTypeOK, VisitRecords
  <2>3. \A k \in v.locks : k \in DOMAIN identity' /\ identity'[k] = v.user
    BY <1>1, <1>2, <1>3, <2>1, <2>2 DEF SoundVisit
  <2>4. v.phase = "resolved" =>
          (KeyOf(v) \in DOMAIN identity' /\ identity'[KeyOf(v)] = v.user) \/ v.user \in gone'
    BY <1>1, <1>2, <1>3, <2>2 DEF SoundVisit
  <2>5. SoundVisit(v)'
    BY <1>2, <2>2, <2>3, <2>4 DEF SoundVisit, KeyOf
  <2>6. visit'[q] = v
    BY <1>1, <2>1
  <2>7. QED BY <2>5, <2>6 DEF SoundVisit, KeyOf
<1>6. \A w \in DOMAIN users' : \E k \in DOMAIN identity' : identity'[k] = w
  BY <1>1, <1>2, <1>3
<1>7. QED BY <1>1, <1>4, <1>5, <1>6 DEF InsertsAKey, KeyOf

\* Every step of Identities preserves IdentitiesInv.
LEMMA IdentitiesStep == IdentitiesInv /\ [IdentitiesNext]_identities => IdentitiesInv'
<1> SUFFICES ASSUME IdentitiesInv, [IdentitiesNext]_identities PROVE IdentitiesInv'
  OBVIOUS
<1>1. CASE UNCHANGED identities
  BY <1>1 DEF identities, IdentitiesInv, IdentitiesTypeOK, SoundVisit, InsertsAKey, KeyOf
<1>2. CASE StartLogin
  BY <1>2, StartKeeps DEF StartLogin
<1>3. ASSUME NEW u \in 1..issued, StartLink(u) PROVE IdentitiesInv'
  <2>1. u \in Nat
    BY DEF IdentitiesInv, IdentitiesTypeOK
  <2>2. QED BY <1>3, <2>1, StartKeeps DEF StartLink
<1>4. QED
  BY <1>1, <1>2, <1>3, CloseAccountKeeps, RegisterKeeps, PasswordLoginKeeps, CallbackKeeps, FindIdentityKeeps,
     FindByEmailKeeps, CreateUserKeeps, InsertIdentityKeeps, EnrichKeeps, CommitVisitKeeps, LookupKeeps, EndVisitKeeps
  DEF IdentitiesNext

\* The inductive invariant of accounts, identities and open transactions holds in every reachable state.
THEOREM IdentitiesInvariant == IdentitiesSpec => []IdentitiesInv
BY IdentitiesInitially, IdentitiesStep, PTL DEF IdentitiesSpec

\* Whoever is signed in is signed in to the account of the identity he came
\* with, and every account can be signed in to, however registrations,
\* sign-ins, links and deletions interleave (oauth42.go, store.go).
THEOREM SignedInToOwnAccount == IdentitiesSpec => []IdentitiesOwned
<1>1. IdentitiesInv => IdentitiesOwned
  <2>1. Away.phase = "none"
    BY DEF Away
  <2>2. ASSUME IdentitiesInv, NEW q \in Visits, visit[q].phase = "resolved"
        PROVE  \/ KeyOf(visit[q]) \in DOMAIN identity /\ identity[KeyOf(visit[q])] = visit[q].user
               \/ visit[q].user \in gone
    BY <2>1, <2>2 DEF IdentitiesInv, SoundVisit
  <2>3. QED BY <2>2 DEF IdentitiesInv, IdentitiesOwned
<1>2. QED BY <1>1, IdentitiesInvariant, PTL

-----------------------------------------------------------------------------
(* The public keys.                                                        *)

KeyCalls == [op: {"validate", "mint"},
             at: {"lookup", "decide", "fetch", "fetches", "waits", "woken", "sign", "unknown"},
             key: Nat, start: Nat, latest: Nat, known: Int, signed: BOOLEAN]

SigningTypeOK ==
    /\ now \in Nat /\ rotated \in Versions
    /\ cache \in [keys: SUBSET Nat, latest: Nat, time: Nat]
    /\ negative \in [Versions -> Int]
    /\ checked \in [Versions -> Int]
    /\ asked \in [Versions -> Int]
    /\ fetch \in [by: SUBSET Callers, answer: Nat, failed: BOOLEAN, since: Nat]
    /\ caller \in [Callers -> {NoCall} \cup KeyCalls]

\* What is cached is some answer of Vault's, never newer than the key, and so
\* is the answer to come; the request is answered within a unit of time.
CacheInv ==
    /\ cache.latest \in 1..rotated
    /\ fetch.answer # 0 => fetch.answer \in cache.latest..rotated
    /\ fetch.by # {} => fetch.since <= now /\ now <= fetch.since + 1

\* A version is looked for only while somebody waits for it, and one that may
\* not be looked for, although newer than those cached, was waited for or
\* thought too far less than a minute before it may be looked for again.
VersionsInv ==
    /\ \A k \in Versions : Never <= asked[k] /\ asked[k] <= now /\ checked[k] <= asked[k]
    /\ \A k \in Versions : k > cache.latest => negative[k] <= asked[k] + 2 * Ttl

\* What a call to check a token and one to mint one may count on.
Validating(r) ==
    /\ r.key \in Versions /\ r.latest <= cache.latest /\ r.at # "sign"
    /\ r.at \in {"lookup", "decide", "fetch"} => r.start = now
    /\ r.at = "decide" => r.known <= asked[r.key]
    /\ r.at \in {"fetches", "waits", "woken"} => r.start <= asked[r.key]
    /\ r.at \in {"fetches", "waits"} => fetch.since <= asked[r.key]
    /\ r.at = "woken" => now <= asked[r.key] + 1
    /\ r.at = "unknown" /\ r.key > r.latest => r.start < asked[r.key] + 2 * Ttl
Minting(r) ==
    /\ r.at = "sign" => r.latest \in 1..cache.latest
    /\ r.at \in {"lookup", "decide", "unknown"} => r.key \in 1..cache.latest
    /\ r.at \in {"decide", "unknown"} => r.key <= r.latest

Sound(c) ==
    /\ caller[c].at = "fetches" => fetch.by = {c}
    /\ caller[c].at = "waits" => fetch.by # {}
    /\ caller[c].op = "validate" => Validating(caller[c])
    /\ caller[c].op = "mint" => Minting(caller[c])
CallsInv == \A c \in Callers : Sound(c)

SigningInv == SigningTypeOK /\ CacheInv /\ VersionsInv /\ CallsInv

\* Arithmetic of the times, on its own.
LEMMA TimesNumbers == Never \in Int /\ Never = -10 /\ Versions = 1..MaxVersion
  BY DEF Never, Versions

LEMMA SigningInitHolds == SigningInit => SigningInv
  <1>. SUFFICES ASSUME SigningInit PROVE SigningInv
    OBVIOUS
  <1>. USE SigningBounds DEF SigningInit
  <1>1. SigningTypeOK
    BY DEF SigningTypeOK, Versions, Never, NoCall
  <1>2. CacheInv
    BY DEF CacheInv
  <1>3. VersionsInv
    BY DEF VersionsInv, Versions, Never
  <1>4. CallsInv
    BY DEF CallsInv, Sound, NoCall
  <1>. QED
    BY <1>1, <1>2, <1>3, <1>4 DEF SigningInv

\* One slot changes, to a call that is sound; no other notices.
LEMMA SlotChanges ==
  ASSUME SigningInv, NEW c \in Callers, NEW n \in {NoCall} \cup KeyCalls,
         caller' = [caller EXCEPT ![c] = n]
  PROVE  /\ caller' \in [Callers -> {NoCall} \cup KeyCalls]
         /\ caller'[c] = n
         /\ \A d \in Callers : d # c => caller'[d] = caller[d]
  BY DEF SigningInv, SigningTypeOK

\* A call that does nothing stays sound while versions are waited for, while
\* the keys are asked for by one who finds nobody asking, and when the keys
\* that are cached are newer.
AskedGrows == /\ asked' \in [Versions -> Int]
              /\ \A k \in Versions : asked[k] <= asked'[k]
LEMMA SoundStays ==
  ASSUME SigningInv, NEW d \in Callers, caller'[d] = caller[d], now' = now,
         cache'.latest \in Nat, cache.latest <= cache'.latest, AskedGrows,
         fetch.by = {} \/ (fetch'.by = fetch.by /\ fetch'.since = fetch.since)
  PROVE  Sound(d)'
  <1>. PICK r \in {NoCall} \cup KeyCalls : r = caller[d]
    BY DEF SigningInv, SigningTypeOK
  <1>1. caller'[d] = r
    OBVIOUS
  <1>2. Sound(d)
    BY DEF SigningInv, CallsInv
  <1>3. /\ r.at = "fetches" => fetch'.by = {d}
        /\ r.at = "waits" => fetch'.by # {}
    BY <1>2 DEF Sound
  <1>4. ASSUME r.op = "validate" PROVE Validating(r)'
    <2>1. Validating(r)
      BY <1>2, <1>4 DEF Sound
    <2>2. r \in KeyCalls /\ r.key \in Versions
      BY <1>4, <2>1 DEF NoCall, Validating
    <2>. PICK a \in Int, b \in Int : a = asked[r.key] /\ b = asked'[r.key]
      BY <2>2 DEF SigningInv, SigningTypeOK, AskedGrows
    <2>3. a <= b
      BY <2>2 DEF AskedGrows
    <2>4. now \in Nat /\ fetch.since \in Nat /\ r.start \in Nat /\ r.known \in Int /\ r.latest \in Nat /\ r.key \in Nat
      BY <2>2 DEF SigningInv, SigningTypeOK, KeyCalls
    <2>5. r.at \in {"fetches", "waits"} => fetch.by # {}
      BY <1>2 DEF Sound
    <2>6. r.at \in {"fetches", "waits"} => fetch'.since = fetch.since
      BY <2>5
    <2>7. /\ r.at \in {"lookup", "decide", "fetch"} => r.start = now'
          /\ r.at = "decide" => r.known <= b
          /\ r.at \in {"fetches", "waits", "woken"} => r.start <= b
      BY <2>1, <2>3, <2>4 DEF Validating
    <2>8. r.at \in {"fetches", "waits"} => fetch'.since <= b
      BY <2>1, <2>3, <2>4, <2>6 DEF Validating
    <2>9. r.at = "woken" => now' <= b + 1
      BY <2>1, <2>3, <2>4 DEF Validating
    <2>10. r.at = "unknown" /\ r.key > r.latest => r.start < a + 2 * Ttl
      BY <2>1 DEF Validating
    <2>11. r.at = "unknown" /\ r.key > r.latest => r.start < b + 2 * Ttl
      BY <2>3, <2>4, <2>10, SigningBounds
    <2>12. r.latest <= cache'.latest
      BY <2>1, <2>4 DEF Validating, SigningInv, SigningTypeOK
    <2>. QED
      BY <2>1, <2>2, <2>7, <2>8, <2>9, <2>11, <2>12 DEF Validating
  <1>5. ASSUME r.op = "mint" PROVE Minting(r)'
    <2>1. Minting(r)
      BY <1>2, <1>5 DEF Sound
    <2>2. r \in KeyCalls
      BY <1>5 DEF NoCall
    <2>3. r.key \in Nat /\ r.latest \in Nat /\ cache.latest \in Nat
      BY <2>2 DEF KeyCalls, SigningInv, SigningTypeOK
    <2>. QED
      BY <2>1, <2>3 DEF Minting
  <1>. QED
    BY <1>1, <1>3, <1>4, <1>5 DEF Sound

\* One that neither asks nor waits does not notice who is asking.
LEMMA IdleStays ==
  ASSUME SigningInv, NEW d \in Callers, caller[d].at \notin {"fetches", "waits"}, caller'[d] = caller[d],
         now' = now, asked' = asked, cache'.latest \in Nat, cache.latest <= cache'.latest
  PROVE  Sound(d)'
  <1>. PICK r \in {NoCall} \cup KeyCalls : r = caller[d]
    BY DEF SigningInv, SigningTypeOK
  <1>1. Sound(d) /\ cache.latest \in Nat
    BY DEF SigningInv, CallsInv, SigningTypeOK
  <1>2. r.op # "none" => r.key \in Nat /\ r.latest \in Nat
    BY DEF KeyCalls, NoCall
  <1>3. ASSUME r.op = "validate" PROVE Validating(r)'
    <2>1. Validating(r)
      BY <1>1, <1>3 DEF Sound
    <2>2. r.latest <= cache'.latest
      BY <1>1, <1>2, <1>3, <2>1 DEF Validating
    <2>. QED
      BY <2>1, <2>2 DEF Validating
  <1>4. ASSUME r.op = "mint" PROVE Minting(r)'
    <2>1. Minting(r)
      BY <1>1, <1>4 DEF Sound
    <2>. QED
      BY <1>1, <1>2, <1>4, <2>1 DEF Minting
  <1>. QED
    BY <1>3, <1>4 DEF Sound

\* A step that changes one slot, and otherwise at most what versions are
\* waited for, keeps the other calls sound.
LEMMA OthersStay ==
  ASSUME SigningInv, NEW c \in Callers, NEW n \in {NoCall} \cup KeyCalls,
         caller' = [caller EXCEPT ![c] = n], UNCHANGED <<now, cache>>, AskedGrows,
         fetch.by = {} \/ (fetch'.by = fetch.by /\ fetch'.since = fetch.since)
  PROVE  \A d \in Callers : d # c => Sound(d)'
  <1>1. cache'.latest \in Nat /\ cache.latest <= cache'.latest
    BY DEF SigningInv, SigningTypeOK
  <1>. QED
    BY <1>1, SlotChanges, SoundStays

LEMMA AskedSame == SigningInv /\ asked' = asked => AskedGrows
  BY DEF SigningInv, SigningTypeOK, AskedGrows

\* Nothing but the call changes.
LEMMA OnlyTheCall ==
  ASSUME SigningInv, NEW c \in Callers, NEW n \in {NoCall} \cup KeyCalls,
         caller' = [caller EXCEPT ![c] = n],
         UNCHANGED <<now, rotated, cache, negative, checked, fetch, asked>>,
         n.at = "fetches" => fetch.by = {c},
         n.at = "waits" => fetch.by # {},
         n.op = "validate" => Validating(n),
         n.op = "mint" => Minting(n)
  PROVE  SigningInv'
  <1>1. \A d \in Callers : d # c => Sound(d)'
    BY AskedSame, OthersStay
  <1>2. caller' \in [Callers -> {NoCall} \cup KeyCalls] /\ caller'[c] = n
    BY SlotChanges
  <1>3. n.op = "validate" => Validating(n)'
    BY DEF Validating
  <1>4. n.op = "mint" => Minting(n)'
    BY DEF Minting
  <1>5. Sound(c)'
    BY <1>2, <1>3, <1>4 DEF Sound
  <1>6. CallsInv'
    BY <1>1, <1>5 DEF CallsInv
  <1>7. SigningTypeOK'
    BY <1>2 DEF SigningInv, SigningTypeOK
  <1>. QED
    BY <1>6, <1>7 DEF SigningInv, CacheInv, VersionsInv

\* A slot that is given back.
LEMMA CallEnds ==
  ASSUME SigningInv, NEW c \in Callers, caller' = [caller EXCEPT ![c] = NoCall],
         UNCHANGED <<now, rotated, cache, negative, checked, fetch, asked>>
  PROVE  SigningInv'
  <1>. PICK n \in {NoCall} \cup KeyCalls : n = NoCall
    OBVIOUS
  <1>1. n.at = "none" /\ n.op = "none"
    BY DEF NoCall
  <1>. QED
    BY <1>1, OnlyTheCall

\* What is known of a call, by its place.
LEMMA CallOf ==
  ASSUME SigningInv, NEW c \in Callers, caller[c].at # "none"
  PROVE  caller[c] \in KeyCalls /\ Sound(c)
  BY DEF SigningInv, SigningTypeOK, NoCall, CallsInv

\* What was remembered of a version stays within its limit.
LEMMA VersionsGrow ==
  ASSUME SigningInv, AskedGrows, UNCHANGED <<cache, negative>>
  PROVE  /\ \A k \in Versions : Never <= asked'[k]
         /\ \A k \in Versions : k > cache'.latest => negative'[k] <= asked'[k] + 2 * Ttl
  <1>. SUFFICES ASSUME NEW k \in Versions
                PROVE  /\ Never <= asked'[k]
                       /\ k > cache.latest => negative[k] <= asked'[k] + 2 * Ttl
    OBVIOUS
  <1>. PICK i \in Int, j \in Int, m \in Int : i = negative[k] /\ j = asked[k] /\ m = asked'[k]
    BY DEF AskedGrows, SigningInv, SigningTypeOK
  <1>1. j <= m /\ Never <= j
    BY DEF AskedGrows, SigningInv, VersionsInv
  <1>2. k > cache.latest => i <= j + 2 * Ttl
    BY DEF SigningInv, VersionsInv
  <1>3. Never <= m
    BY <1>1, TimesNumbers
  <1>4. k > cache.latest => i <= m + 2 * Ttl
    BY <1>1, <1>2, SigningBounds
  <1>. QED
    BY <1>3, <1>4

LEMMA ValidateSteps ==
  ASSUME SigningInv, NEW c \in Callers, NEW k \in Versions, Validate(c, k)
  PROVE  SigningInv'
  <1>0. (k <= rotated) \in BOOLEAN
    BY DEF Versions, SigningInv, SigningTypeOK
  <1>. PICK b \in BOOLEAN : b = (k <= rotated)
    BY <1>0
  <1>. PICK n : n = [op |-> "validate", at |-> "lookup", key |-> k, start |-> now,
                     latest |-> 0, known |-> Never, signed |-> b]
    OBVIOUS
  <1>1. n \in KeyCalls
    BY DEF KeyCalls, SigningInv, SigningTypeOK, Versions, Never
  <1>2. caller' = [caller EXCEPT ![c] = n]
    BY DEF Validate
  <1>3. Validating(n)
    BY DEF Validating, SigningInv, SigningTypeOK
  <1>. QED
    BY <1>1, <1>2, <1>3, OnlyTheCall DEF Validate

LEMMA MintSteps ==
  ASSUME SigningInv, NEW c \in Callers, Mint(c)
  PROVE  SigningInv'
  <1>. PICK a : a = IF now - cache.time >= 2 * Ttl THEN "fetch" ELSE "sign"
    OBVIOUS
  <1>. PICK n : n = [op |-> "mint", at |-> a, key |-> 0, start |-> now, latest |-> cache.latest,
                     known |-> Never, signed |-> TRUE]
    OBVIOUS
  <1>1. n \in KeyCalls
    BY DEF KeyCalls, SigningInv, SigningTypeOK, Never
  <1>2. caller' = [caller EXCEPT ![c] = n]
    BY DEF Mint
  <1>3. Minting(n)
    BY DEF Minting, SigningInv, CacheInv, SigningTypeOK, Versions
  <1>. QED
    BY <1>1, <1>2, <1>3, OnlyTheCall DEF Mint

LEMMA SignSteps ==
  ASSUME SigningInv, NEW c \in Callers, Sign(c)
  PROVE  SigningInv'
  <1>1. caller[c].at = "sign"
    BY DEF Sign
  <1>. PICK r \in KeyCalls : r = caller[c]
    BY <1>1, CallOf
  <1>. PICK n : n = [r EXCEPT !.at = "lookup", !.key = r.latest, !.start = now]
    OBVIOUS
  <1>2. n \in KeyCalls
    BY DEF KeyCalls, SigningInv, SigningTypeOK
  <1>3. caller' = [caller EXCEPT ![c] = n]
    BY DEF Sign, SigningInv, SigningTypeOK
  <1>4. Sound(c)
    BY <1>1, CallOf
  <1>5. r.op = "mint" => Minting(n)
    BY <1>1, <1>4 DEF Sound, Minting, KeyCalls
  <1>6. r.op # "validate"
    BY <1>1, <1>4 DEF Sound, Validating
  <1>. QED
    <2>1. n.at = "lookup" /\ n.op = r.op
      BY DEF KeyCalls
    <2>2. n.op # "validate"
      BY <2>1, <1>6
    <2>3. UNCHANGED <<now, rotated, cache, negative, checked, fetch, asked>>
      BY DEF Sign
    <2>4. n.at \notin {"fetches", "waits"}
      BY <2>1
    <2>. QED
      BY <1>2, <1>3, <1>5, <2>1, <2>2, <2>3, <2>4, OnlyTheCall

\* The version of a call that is looked for is one of Vault's or may become one.
LEMMA KeyLookedFor ==
  ASSUME SigningInv, NEW c \in Callers, caller[c].at \in {"lookup", "decide", "unknown"}
  PROVE  caller[c].key \in Versions
  <1>1. caller[c] \in KeyCalls /\ Sound(c)
    BY CallOf
  <1>2. CASE caller[c].op = "validate"
    BY <1>1, <1>2 DEF Sound, Validating
  <1>3. CASE caller[c].op = "mint"
    <2>1. caller[c].key \in 1..cache.latest
      BY <1>1, <1>3 DEF Sound, Minting
    <2>2. cache.latest \in 1..rotated
      BY DEF SigningInv, CacheInv
    <2>3. rotated \in 1..MaxVersion
      BY DEF SigningInv, SigningTypeOK, Versions
    <2>. QED
      BY <2>1, <2>2, <2>3, SigningBounds DEF Versions
  <1>. QED
    BY <1>1, <1>2, <1>3 DEF KeyCalls

LEMMA LookUpKeySteps ==
  ASSUME SigningInv, NEW c \in Callers, LookUpKey(c)
  PROVE  SigningInv'
  <1>1. caller[c].at = "lookup"
    BY DEF LookUpKey
  <1>. PICK r \in KeyCalls : r = caller[c]
    BY <1>1, CallOf
  <1>2. CASE r.key \in cache.keys
    <2>1. caller' = [caller EXCEPT ![c] = NoCall]
      BY <1>2 DEF LookUpKey, Go
    <2>. QED
      BY <2>1, CallEnds DEF LookUpKey
  <1>3. CASE r.key \notin cache.keys
    <2>1. r.key \in Versions
      BY <1>1, KeyLookedFor
    <2>. PICK a \in {"unknown", "decide"} : a = IF negative[r.key] > r.start THEN "unknown" ELSE "decide"
      OBVIOUS
    <2>. PICK f \in Int, l \in Nat, w \in Int, g \in Int :
           f = checked[r.key] /\ l = cache.latest /\ w = asked[r.key] /\ g = negative[r.key]
      BY <2>1 DEF SigningInv, SigningTypeOK
    <2>. PICK n : n = [r EXCEPT !.at = a, !.latest = l, !.known = f]
      OBVIOUS
    <2>2. n \in KeyCalls
      BY DEF KeyCalls
    <2>3. /\ n.at = a /\ n.latest = l /\ n.known = f
          /\ n.op = r.op /\ n.key = r.key /\ n.start = r.start
      BY DEF KeyCalls
    <2>4. caller' = [caller EXCEPT ![c] = n]
      BY <1>3 DEF LookUpKey, SigningInv, SigningTypeOK
    <2>5. Sound(c)
      BY <1>1, CallOf
    <2>6. ASSUME r.op = "validate" PROVE Validating(n)
      <3>1. r.start = now
        BY <1>1, <2>5, <2>6 DEF Sound, Validating
      <3>2. f <= w
        BY <2>1 DEF SigningInv, VersionsInv
      <3>3. r.key > l => g <= w + 2 * Ttl
        BY <2>1 DEF SigningInv, VersionsInv
      <3>4. a = "unknown" => g > r.start
        OBVIOUS
      <3>5. r.start \in Nat
        BY DEF KeyCalls
      <3>6. a = "unknown" /\ r.key > l => r.start < w + 2 * Ttl
        BY <3>3, <3>4, <3>5, SigningBounds
      <3>7. n.latest <= cache.latest
        BY <2>3
      <3>. QED
        BY <2>1, <2>3, <3>1, <3>2, <3>6, <3>7 DEF Validating
    <2>7. ASSUME r.op = "mint" PROVE Minting(n)
      <3>1. r.key \in 1..l
        BY <1>1, <2>5, <2>7 DEF Sound, Minting
      <3>2. n.key \in 1..cache.latest /\ n.key <= n.latest /\ n.at # "sign"
        BY <2>3, <3>1
      <3>. QED
        BY <3>2 DEF Minting
    <2>8. n.at \notin {"fetches", "waits"}
      BY <2>3
    <2>. QED
      BY <2>2, <2>3, <2>4, <2>6, <2>7, <2>8, OnlyTheCall DEF LookUpKey
  <1>. QED
    BY <1>2, <1>3

\* Time enough: what a version was remembered for, or looked for, lately.
LEMMA Lately ==
  ASSUME NEW s \in Int, NEW f \in Int, NEW w \in Int, f <= w, s - f < Ttl
  PROVE  s < w + Ttl /\ s < w + 2 * Ttl /\ s + Ttl <= w + 2 * Ttl
  BY SigningBounds

LEMMA WorthARefreshSteps ==
  ASSUME SigningInv, NEW c \in Callers, WorthARefresh(c)
  PROVE  SigningInv'
  <1>1. caller[c].at = "decide"
    BY DEF WorthARefresh
  <1>. PICK r \in KeyCalls : r = caller[c]
    BY <1>1, CallOf
  <1>2. r.key \in Versions
    BY <1>1, KeyLookedFor
  <1>3. Sound(c)
    BY <1>1, CallOf
  <1>. PICK far \in BOOLEAN : far <=> r.key > r.latest + CatchUp
    OBVIOUS
  <1>. PICK near \in BOOLEAN : near <=> r.key <= r.latest
    OBVIOUS
  <1>. PICK out \in BOOLEAN : out <=> far \/ near \/ CheckedLately(r)
    OBVIOUS
  <1>. PICK a \in {"unknown", "fetch"} : a = IF out THEN "unknown" ELSE "fetch"
    OBVIOUS
  <1>. PICK n : n = [r EXCEPT !.at = a]
    OBVIOUS
  <1>4. n \in KeyCalls
    BY DEF KeyCalls
  <1>5. /\ n.at = a /\ n.latest = r.latest /\ n.known = r.known
        /\ n.op = r.op /\ n.key = r.key /\ n.start = r.start
    BY DEF KeyCalls
  <1>6. caller' = [caller EXCEPT ![c] = n]
    BY DEF WorthARefresh, Go, SigningInv, SigningTypeOK
  <1>7. asked' = IF far THEN [asked EXCEPT ![r.key] = now] ELSE asked
    BY DEF WorthARefresh
  <1>8. negative' = IF out THEN [negative EXCEPT ![r.key] = r.start + Ttl] ELSE negative
    BY DEF WorthARefresh, Remembered
  <1>9. UNCHANGED <<now, rotated, cache, checked, fetch>>
    BY DEF WorthARefresh
  <1>10. r.start \in Nat /\ r.key \in Nat /\ r.latest \in Nat /\ r.known \in Int
    BY DEF KeyCalls
  <1>11. now \in Nat /\ \A k \in Versions : asked[k] \in Int /\ asked[k] <= now
    BY DEF SigningInv, SigningTypeOK, VersionsInv
  <1>12. AskedGrows
    BY <1>2, <1>7, <1>11 DEF AskedGrows, SigningInv, SigningTypeOK
  <1>13. \A k \in Versions : asked'[k] <= now
    BY <1>2, <1>7, <1>11 DEF SigningInv, SigningTypeOK
  <1>. PICK w \in Int : w = asked'[r.key]
    BY <1>2, <1>12 DEF AskedGrows
  <1>14. out /\ ~near /\ r.op = "validate" => r.start < w + 2 * Ttl /\ r.start + Ttl <= w + 2 * Ttl
    <2>. SUFFICES ASSUME out, ~near, r.op = "validate"
                  PROVE  r.start < w + 2 * Ttl /\ r.start + Ttl <= w + 2 * Ttl
      OBVIOUS
    <2>1. r.start = now /\ r.known <= asked[r.key]
      BY <1>1, <1>3 DEF Sound, Validating
    <2>2. CASE far
      <3>1. w = now
        BY <1>2, <1>7, <2>2 DEF SigningInv, SigningTypeOK
      <3>. QED
        BY <2>1, <3>1, <1>10, SigningBounds
    <2>3. CASE CheckedLately(r)
      <3>1. asked[r.key] <= w /\ asked[r.key] \in Int
        BY <1>2, <1>11, <1>12 DEF AskedGrows
      <3>2. r.known <= w
        BY <2>1, <3>1, <1>10
      <3>3. r.start - r.known < Ttl
        BY <2>3 DEF CheckedLately
      <3>. QED
        BY <3>2, <3>3, <1>10, Lately
    <2>. QED
      BY <2>2, <2>3
  <1>15. r.op = "mint" => near /\ r.key \in 1..cache.latest
    BY <1>1, <1>3 DEF Sound, Minting
  <1>16. r.op \in {"mint", "validate"}
    BY DEF KeyCalls
  <1>17. negative' \in [Versions -> Int]
    BY <1>2, <1>8, <1>10, SigningBounds DEF SigningInv, SigningTypeOK
  <1>18. \A k \in Versions : k > cache.latest => negative'[k] <= asked'[k] + 2 * Ttl
    <2>. SUFFICES ASSUME NEW k \in Versions, k > cache.latest PROVE negative'[k] <= asked'[k] + 2 * Ttl
      OBVIOUS
    <2>1. CASE k = r.key /\ out
      <3>1. cache.latest \in Nat
        BY DEF SigningInv, SigningTypeOK
      <3>2. r.op = "validate"
        BY <1>15, <1>16, <2>1, <3>1
      <3>3. r.latest <= cache.latest
        BY <1>3, <3>2 DEF Sound, Validating
      <3>4. ~near
        BY <2>1, <3>1, <3>3, <1>10
      <3>5. negative'[k] = r.start + Ttl
        BY <1>8, <2>1 DEF SigningInv, SigningTypeOK
      <3>. QED
        BY <1>14, <2>1, <3>2, <3>4, <3>5
    <2>2. CASE ~(k = r.key /\ out)
      <3>1. negative'[k] = negative[k]
        BY <1>8, <2>2 DEF SigningInv, SigningTypeOK
      <3>. PICK i \in Int, j \in Int, m \in Int : i = negative[k] /\ j = asked[k] /\ m = asked'[k]
        BY <1>12 DEF AskedGrows, SigningInv, SigningTypeOK
      <3>2. i <= j + 2 * Ttl /\ j <= m
        BY <1>12 DEF AskedGrows, SigningInv, VersionsInv
      <3>. QED
        BY <3>1, <3>2, SigningBounds
    <2>. QED
      BY <2>1, <2>2
  <1>19. Sound(c)'
    <2>1. caller'[c] = n
      BY <1>4, <1>6, SlotChanges
    <2>2. ASSUME n.op = "validate" PROVE Validating(n)'
      <3>1. r.start = now /\ r.latest <= cache.latest
        BY <1>1, <1>3, <1>5, <2>2 DEF Sound, Validating
      <3>2. n.at = "unknown" /\ n.key > n.latest => n.start < w + 2 * Ttl
        BY <1>5, <1>10, <1>14, <2>2
      <3>. QED
        BY <1>2, <1>5, <1>9, <3>1, <3>2 DEF Validating
    <2>3. ASSUME n.op = "mint" PROVE Minting(n)'
      <3>1. r.key \in 1..cache.latest /\ r.key <= r.latest
        BY <1>1, <1>3, <1>5, <2>3 DEF Sound, Minting
      <3>. QED
        BY <1>5, <1>9, <3>1 DEF Minting
    <2>. QED
      BY <1>5, <2>1, <2>2, <2>3 DEF Sound
  <1>20. CallsInv'
    <2>1. \A d \in Callers : d # c => Sound(d)'
      BY <1>4, <1>6, <1>9, <1>12, OthersStay
    <2>. QED
      BY <1>19, <2>1 DEF CallsInv
  <1>21. VersionsInv'
    <2>1. \A k \in Versions : Never <= asked'[k] /\ checked'[k] <= asked'[k]
      <3>. SUFFICES ASSUME NEW k \in Versions PROVE Never <= asked'[k] /\ checked'[k] <= asked'[k]
        OBVIOUS
      <3>. PICK i \in Int, j \in Int, m \in Int : i = checked[k] /\ j = asked[k] /\ m = asked'[k]
        BY <1>12 DEF AskedGrows, SigningInv, SigningTypeOK
      <3>1. i <= j /\ j <= m /\ Never <= j
        BY <1>12 DEF AskedGrows, SigningInv, VersionsInv
      <3>2. Never <= m /\ i <= m
        BY <3>1, TimesNumbers
      <3>. QED
        BY <1>9, <3>2
    <2>. QED
      BY <1>9, <1>13, <1>18, <2>1 DEF VersionsInv
  <1>22. SigningTypeOK'
    <2>1. caller' \in [Callers -> {NoCall} \cup KeyCalls]
      BY <1>4, <1>6, SlotChanges
    <2>2. asked' \in [Versions -> Int]
      BY <1>12 DEF AskedGrows
    <2>. QED
      BY <1>9, <1>17, <2>1, <2>2 DEF SigningInv, SigningTypeOK
  <1>23. CacheInv'
    BY <1>9 DEF SigningInv, CacheInv
  <1>. QED
    BY <1>20, <1>21, <1>22, <1>23 DEF SigningInv

LEMMA RefreshSteps ==
  ASSUME SigningInv, NEW c \in Callers, RefreshPublicKeys(c)
  PROVE  SigningInv'
  <1>1. caller[c].at = "fetch"
    BY DEF RefreshPublicKeys
  <1>. PICK r \in KeyCalls : r = caller[c]
    BY <1>1, CallOf
  <1>2. Sound(c)
    BY <1>1, CallOf
  <1>3. UNCHANGED <<now, rotated, cache, negative>>
    BY DEF RefreshPublicKeys
  <1>4. now \in Nat /\ (\A k \in Versions : asked[k] \in Int /\ asked[k] <= now /\ checked[k] \in Int /\ checked[k] <= asked[k])
    BY DEF SigningInv, SigningTypeOK, VersionsInv
  <1>5. r.op = "validate" => r.key \in Versions /\ r.start = now /\ r.latest <= cache.latest
    BY <1>1, <1>2 DEF Sound, Validating
  <1>6. cache.latest \in 1..rotated /\ cache.latest \in Nat
    BY DEF SigningInv, CacheInv, SigningTypeOK
  <1>7. CASE r.op = "mint" /\ now - cache.time < 2 * Ttl
    <2>. PICK n : n = [r EXCEPT !.at = "sign", !.latest = cache.latest]
      OBVIOUS
    <2>1. n \in KeyCalls /\ n.at = "sign" /\ n.op = "mint" /\ n.latest = cache.latest
      BY <1>6, <1>7 DEF KeyCalls
    <2>2. caller' = [caller EXCEPT ![c] = n]
      BY <1>7 DEF RefreshPublicKeys, SigningInv, SigningTypeOK
    <2>3. Minting(n)
      BY <1>6, <2>1 DEF Minting
    <2>4. UNCHANGED <<checked, fetch, asked>>
      BY <1>7 DEF RefreshPublicKeys
    <2>. QED
      BY <1>3, <2>1, <2>2, <2>3, <2>4, OnlyTheCall
  <1>8. CASE ~(r.op = "mint" /\ now - cache.time < 2 * Ttl)
    <2>. PICK a \in {"waits", "fetches"} : a = IF fetch.by # {} THEN "waits" ELSE "fetches"
      OBVIOUS
    <2>. PICK n : n = [r EXCEPT !.at = a]
      OBVIOUS
    <2>1. /\ n \in KeyCalls /\ n.at = a /\ n.op = r.op /\ n.key = r.key
          /\ n.start = r.start /\ n.latest = r.latest
      BY DEF KeyCalls
    <2>2. caller' = [caller EXCEPT ![c] = n]
      BY <1>8 DEF RefreshPublicKeys, Go, SigningInv, SigningTypeOK
    <2>3. asked' = IF r.op = "validate" THEN [asked EXCEPT ![r.key] = now] ELSE asked
      BY <1>8 DEF RefreshPublicKeys
    <2>4. AskedGrows /\ \A k \in Versions : asked'[k] <= now
      BY <1>4, <1>5, <2>3 DEF AskedGrows, SigningInv, SigningTypeOK
    <2>5. r.op = "validate" => asked'[r.key] = now
      BY <1>5, <2>3 DEF SigningInv, SigningTypeOK
    <2>6. \/ a = "waits" /\ fetch.by # {} /\ checked' = checked /\ fetch' = fetch
          \/ /\ a = "fetches" /\ fetch.by = {}
             /\ fetch' = [fetch EXCEPT !.by = {c}, !.answer = 0, !.since = now]
             /\ checked' = IF r.op = "validate" THEN [checked EXCEPT ![r.key] = now] ELSE checked
      BY <1>8 DEF RefreshPublicKeys
    <2>7. /\ fetch' \in [by: SUBSET Callers, answer: Nat, failed: BOOLEAN, since: Nat]
          /\ \/ a = "waits" /\ fetch.by # {} /\ fetch' = fetch
             \/ a = "fetches" /\ fetch.by = {} /\ fetch'.by = {c} /\ fetch'.answer = 0 /\ fetch'.since = now
      <3>. PICK g \in [by: SUBSET Callers, answer: Nat, failed: BOOLEAN, since: Nat] : g = fetch
        BY DEF SigningInv, SigningTypeOK
      <3>. PICK s \in SUBSET Callers : s = {c}
        OBVIOUS
      <3>1. ASSUME fetch' = [g EXCEPT !.by = s, !.answer = 0, !.since = now]
            PROVE  /\ fetch' \in [by: SUBSET Callers, answer: Nat, failed: BOOLEAN, since: Nat]
                   /\ fetch'.by = s /\ fetch'.answer = 0 /\ fetch'.since = now
        BY <1>4, <3>1
      <3>. QED
        BY <2>6, <3>1
    <2>8. /\ fetch'.by # {} /\ fetch'.since <= now /\ now <= fetch'.since + 1
          /\ fetch'.answer # 0 => fetch'.answer \in cache.latest..rotated
      BY <1>4, <2>7 DEF SigningInv, CacheInv
    <2>9. /\ checked' \in [Versions -> Int]
          /\ \A k \in Versions : checked'[k] <= asked'[k]
      <3>1. CASE checked' = checked
        <4>1. ASSUME NEW k \in Versions PROVE checked[k] <= asked'[k]
          <5>1. checked[k] <= asked[k] /\ asked[k] <= asked'[k]
            BY <1>4, <2>4 DEF AskedGrows
          <5>2. checked[k] \in Int /\ asked[k] \in Int /\ asked'[k] \in Int
            BY <1>4, <2>4 DEF AskedGrows
          <5>. QED
            BY <5>1, <5>2
        <4>. QED
          BY <3>1, <4>1 DEF SigningInv, SigningTypeOK
      <3>2. CASE r.op = "validate" /\ checked' = [checked EXCEPT ![r.key] = now]
        <4>1. ASSUME NEW k \in Versions PROVE checked'[k] <= asked'[k]
          BY <1>4, <2>3, <3>2 DEF SigningInv, SigningTypeOK
        <4>2. checked' \in [Versions -> Int]
          BY <1>4, <1>5, <3>2 DEF SigningInv, SigningTypeOK
        <4>. QED
          BY <4>1, <4>2
      <3>. QED
        BY <2>6, <3>1, <3>2
    <2>10. SigningTypeOK'
      <3>1. caller' \in [Callers -> {NoCall} \cup KeyCalls]
        BY <2>1, <2>2, SlotChanges
      <3>2. asked' \in [Versions -> Int]
        BY <2>4 DEF AskedGrows
      <3>. QED
        BY <1>3, <2>7, <2>9, <3>1, <3>2 DEF SigningInv, SigningTypeOK
    <2>11. CacheInv'
      BY <1>3, <1>6, <2>8 DEF CacheInv
    <2>12. VersionsInv'
      BY <1>3, <2>4, <2>9, VersionsGrow DEF VersionsInv
    <2>13. CallsInv'
      <3>1. fetch.by = {} \/ (fetch'.by = fetch.by /\ fetch'.since = fetch.since)
        BY <2>7
      <3>2. \A d \in Callers : d # c => Sound(d)'
        BY <1>3, <2>1, <2>2, <2>4, <3>1, OthersStay
      <3>3. caller'[c] = n
        BY <2>1, <2>2, SlotChanges
      <3>4. n.op = "validate" => Validating(n)'
        BY <1>3, <1>4, <1>5, <2>1, <2>5, <2>8 DEF Validating
      <3>5. n.op = "mint" => Minting(n)'
        BY <2>1 DEF Minting
      <3>6. Sound(c)'
        BY <2>1, <2>7, <2>8, <3>3, <3>4, <3>5 DEF Sound
      <3>. QED
        BY <3>2, <3>6 DEF CallsInv
    <2>. QED
      BY <2>10, <2>11, <2>12, <2>13 DEF SigningInv
  <1>. QED
    BY <1>7, <1>8

LEMMA TransitKeyInfoSteps == SigningInv /\ TransitKeyInfo => SigningInv'
  <1>. SUFFICES ASSUME SigningInv, TransitKeyInfo PROVE SigningInv'
    OBVIOUS
  <1>1. rotated \in Nat /\ cache.latest \in 1..rotated
    BY SigningBounds DEF SigningInv, SigningTypeOK, CacheInv, Versions
  <1>. PICK g \in [by: SUBSET Callers, answer: Nat, failed: BOOLEAN, since: Nat] : g = fetch
    BY DEF SigningInv, SigningTypeOK
  <1>2. fetch' = [g EXCEPT !.answer = rotated]
    BY DEF TransitKeyInfo
  <1>3. /\ fetch' \in [by: SUBSET Callers, answer: Nat, failed: BOOLEAN, since: Nat]
        /\ fetch'.by = fetch.by /\ fetch'.since = fetch.since /\ fetch'.answer = rotated
    BY <1>1, <1>2
  <1>4. UNCHANGED <<now, rotated, cache, negative, checked, caller, asked>>
    BY DEF TransitKeyInfo
  <1>5. cache'.latest \in Nat /\ cache.latest <= cache'.latest
    BY <1>4 DEF SigningInv, SigningTypeOK
  <1>6. \A d \in Callers : Sound(d)'
    BY <1>3, <1>4, <1>5, AskedSame, SoundStays
  <1>7. SigningTypeOK'
    BY <1>3, <1>4 DEF SigningInv, SigningTypeOK
  <1>8. CacheInv'
    BY <1>1, <1>3, <1>4 DEF SigningInv, CacheInv
  <1>9. VersionsInv'
    BY <1>4 DEF SigningInv, VersionsInv
  <1>. QED
    BY <1>6, <1>7, <1>8, <1>9 DEF SigningInv, CallsInv

LEMMA RotateSteps == SigningInv /\ Rotate => SigningInv'
  <1>. SUFFICES ASSUME SigningInv, Rotate PROVE SigningInv'
    OBVIOUS
  <1>1. rotated' = rotated + 1 /\ rotated' \in Versions /\ rotated \in Nat
    BY SigningBounds DEF Rotate, SigningInv, SigningTypeOK, Versions
  <1>2. UNCHANGED <<now, cache, negative, checked, fetch, caller, asked>>
    BY DEF Rotate
  <1>3. SigningTypeOK'
    BY <1>1, <1>2 DEF SigningInv, SigningTypeOK
  <1>4. CacheInv'
    BY <1>1, <1>2 DEF SigningInv, CacheInv, SigningTypeOK
  <1>5. VersionsInv'
    BY <1>2 DEF SigningInv, VersionsInv
  <1>6. \A d \in Callers : Sound(d)'
    <2>1. cache'.latest \in Nat /\ cache.latest <= cache'.latest
      BY <1>2 DEF SigningInv, SigningTypeOK
    <2>. QED
      BY <1>2, <2>1, AskedSame, SoundStays
  <1>. QED
    BY <1>3, <1>4, <1>5, <1>6 DEF SigningInv, CallsInv

\* Time passes only while nothing is being done in memory.
LEMMA TickSteps == SigningInv /\ Tick => SigningInv'
  <1>. SUFFICES ASSUME SigningInv, Tick PROVE SigningInv'
    OBVIOUS
  <1>1. now \in Nat /\ now' = now + 1
    BY DEF Tick, SigningInv, SigningTypeOK
  <1>2. UNCHANGED <<rotated, cache, negative, checked, fetch, caller, asked>>
    BY DEF Tick
  <1>3. SigningTypeOK'
    BY <1>1, <1>2 DEF SigningInv, SigningTypeOK
  <1>4. CacheInv'
    <2>1. fetch.by # {} => fetch.since <= now' /\ now' <= fetch.since + 1
      BY <1>1 DEF Tick
    <2>. QED
      BY <1>2, <2>1 DEF SigningInv, CacheInv
  <1>5. VersionsInv'
    <2>1. \A k \in Versions : asked[k] <= now'
      BY <1>1 DEF SigningInv, VersionsInv, SigningTypeOK
    <2>. QED
      BY <1>2, <2>1 DEF SigningInv, VersionsInv
  <1>6. \A d \in Callers : Sound(d)'
    <2>. SUFFICES ASSUME NEW d \in Callers PROVE Sound(d)'
      OBVIOUS
    <2>1. caller[d].at \in {"none", "sign", "fetches", "waits"} /\ Sound(d)
      BY DEF Tick, SigningInv, CallsInv
    <2>2. caller[d].op = "validate" => Validating(caller[d])'
      BY <1>2, <2>1 DEF Sound, Validating
    <2>3. caller[d].op = "mint" => Minting(caller[d])'
      BY <1>2, <2>1 DEF Sound, Minting
    <2>. QED
      BY <1>2, <2>1, <2>2, <2>3 DEF Sound
  <1>. QED
    BY <1>3, <1>4, <1>5, <1>6 DEF SigningInv, CallsInv

\* What a caller goes on with once the keys are there, or the error.
LEMMA OutcomeCall ==
  ASSUME NEW r \in KeyCalls, NEW ok, NEW keys, NEW l \in Nat,
         NEW n, n = Outcome(r, ok, keys, l)
  PROVE  /\ n \in {NoCall} \cup KeyCalls
         /\ n = NoCall \/ (/\ n.op = r.op /\ n.key = r.key /\ n.start = r.start /\ n.latest = l
                           /\ n.at = IF r.op = "mint" THEN "sign" ELSE "unknown")
  <1>. PICK a \in {"sign", "unknown"} : a = IF r.op = "mint" THEN "sign" ELSE "unknown"
    OBVIOUS
  <1>. PICK m : m = [r EXCEPT !.at = a, !.latest = l]
    OBVIOUS
  <1>1. /\ m \in KeyCalls /\ m.op = r.op /\ m.key = r.key /\ m.start = r.start
        /\ m.latest = l /\ m.at = a
    BY DEF KeyCalls
  <1>2. n = NoCall \/ n = m
    BY DEF Outcome
  <1>. QED
    BY <1>1, <1>2

LEMMA WakeSteps ==
  ASSUME SigningInv, NEW c \in Callers, Wake(c)
  PROVE  SigningInv'
  <1>1. caller[c].at = "woken"
    BY DEF Wake
  <1>. PICK r \in KeyCalls : r = caller[c]
    BY <1>1, CallOf
  <1>2. Sound(c)
    BY <1>1, CallOf
  <1>3. UNCHANGED <<now, rotated, cache, checked, fetch, asked>>
    BY DEF Wake
  <1>4. cache.latest \in 1..rotated /\ cache.latest \in Nat /\ now \in Nat /\ r.start \in Nat
    BY DEF SigningInv, CacheInv, SigningTypeOK, KeyCalls
  <1>. PICK n : n = Outcome(r, ~fetch.failed, cache.keys, cache.latest)
    OBVIOUS
  <1>5. /\ n \in {NoCall} \cup KeyCalls
        /\ n = NoCall \/ (/\ n.op = r.op /\ n.key = r.key /\ n.start = r.start /\ n.latest = cache.latest
                          /\ n.at = IF r.op = "mint" THEN "sign" ELSE "unknown")
    BY <1>4, OutcomeCall
  <1>6. caller' = [caller EXCEPT ![c] = n]
    BY DEF Wake
  <1>7. r.op = "validate" => r.key \in Versions /\ r.start <= asked[r.key] /\ now <= asked[r.key] + 1
                             /\ asked[r.key] \in Int
    BY <1>1, <1>2 DEF Sound, Validating, SigningInv, SigningTypeOK
  <1>8. \/ negative' = negative
        \/ r.op = "validate" /\ negative' = [negative EXCEPT ![r.key] = now + Ttl]
    BY DEF Wake, Remembered
  <1>9. /\ negative' \in [Versions -> Int]
        /\ \A k \in Versions : k > cache.latest => negative'[k] <= asked[k] + 2 * Ttl
    <2>1. CASE negative' = negative
      BY <2>1 DEF SigningInv, SigningTypeOK, VersionsInv
    <2>2. CASE r.op = "validate" /\ negative' = [negative EXCEPT ![r.key] = now + Ttl]
      <3>1. now + Ttl <= asked[r.key] + 2 * Ttl /\ now + Ttl \in Int
        BY <1>4, <1>7, <2>2, SigningBounds
      <3>. QED
        BY <2>2, <3>1 DEF SigningInv, SigningTypeOK, VersionsInv
    <2>. QED
      BY <1>8, <2>1, <2>2
  <1>10. Sound(c)'
    <2>1. caller'[c] = n
      BY <1>5, <1>6, SlotChanges
    <2>2. CASE n = NoCall
      BY <2>1, <2>2 DEF Sound, NoCall
    <2>3. CASE n # NoCall
      <3>1. n.op = r.op /\ n.key = r.key /\ n.start = r.start /\ n.latest = cache.latest
            /\ n.at = IF r.op = "mint" THEN "sign" ELSE "unknown"
        BY <1>5, <2>3
      <3>2. ASSUME n.op = "validate" PROVE Validating(n)'
        <4>1. r.start < asked[r.key] + 2 * Ttl
          BY <1>4, <1>7, <3>1, <3>2, SigningBounds
        <4>. QED
          BY <1>3, <1>4, <1>7, <3>1, <3>2, <4>1 DEF Validating
      <3>3. ASSUME n.op = "mint" PROVE Minting(n)'
        BY <1>3, <1>4, <3>1, <3>3 DEF Minting
      <3>. QED
        BY <2>1, <3>1, <3>2, <3>3 DEF Sound
    <2>. QED
      BY <2>2, <2>3
  <1>11. CallsInv'
    <2>1. \A d \in Callers : d # c => Sound(d)'
      BY <1>3, <1>5, <1>6, AskedSame, OthersStay
    <2>. QED
      BY <1>10, <2>1 DEF CallsInv
  <1>12. SigningTypeOK'
    <2>1. caller' \in [Callers -> {NoCall} \cup KeyCalls]
      BY <1>5, <1>6, SlotChanges
    <2>. QED
      BY <1>3, <1>9, <2>1 DEF SigningInv, SigningTypeOK
  <1>13. VersionsInv'
    BY <1>3, <1>9 DEF SigningInv, VersionsInv
  <1>. QED
    BY <1>3, <1>11, <1>12, <1>13 DEF SigningInv, CacheInv

\* A call that waited goes on; the versions that it is for was waited for not
\* longer than the request took.
LEMMA WaiterWakes ==
  ASSUME SigningInv, NEW d \in Callers, caller[d].at = "waits",
         caller'[d] = [caller[d] EXCEPT !.at = "woken"],
         now' = now, asked' = asked, cache'.latest \in Nat, cache.latest <= cache'.latest
  PROVE  caller'[d] \in KeyCalls /\ Sound(d)'
  <1>. PICK r \in KeyCalls : r = caller[d]
    BY CallOf
  <1>. PICK n : n = [r EXCEPT !.at = "woken"]
    OBVIOUS
  <1>1. /\ n \in KeyCalls /\ n.op = r.op /\ n.key = r.key /\ n.start = r.start /\ n.at = "woken"
        /\ n.latest = r.latest
    BY DEF KeyCalls
  <1>2. Sound(d)
    BY CallOf
  <1>3. ASSUME n.op = "validate" PROVE Validating(n)'
    <2>1. /\ r.key \in Versions /\ r.start <= asked[r.key] /\ fetch.since <= asked[r.key]
          /\ r.latest <= cache.latest
      BY <1>1, <1>2, <1>3 DEF Sound, Validating
    <2>2. now <= fetch.since + 1
      BY <1>2 DEF Sound, SigningInv, CacheInv
    <2>3. now <= asked[r.key] + 1
      BY <2>1, <2>2 DEF SigningInv, SigningTypeOK
    <2>4. r.latest <= cache'.latest
      BY <2>1 DEF SigningInv, SigningTypeOK, KeyCalls
    <2>. QED
      BY <1>1, <2>1, <2>3, <2>4 DEF Validating
  <1>4. Minting(n)'
    BY <1>1 DEF Minting
  <1>. QED
    BY <1>1, <1>3, <1>4 DEF Sound

LEMMA InstallSteps ==
  ASSUME SigningInv, NEW c \in Callers, NEW ok \in BOOLEAN, Install(c, ok)
  PROVE  SigningInv'
  <1>1. caller[c].at = "fetches" /\ (ok => fetch.answer # 0)
    BY DEF Install
  <1>. PICK r \in KeyCalls : r = caller[c]
    BY <1>1, CallOf
  <1>2. Sound(c)
    BY <1>1, CallOf
  <1>3. UNCHANGED <<now, rotated, checked, asked>>
    BY DEF Install
  <1>. PICK l \in Nat : l = fetch.answer
    BY DEF SigningInv, SigningTypeOK
  <1>0. {k \in 1..l : k > l - CatchUp} \in SUBSET Nat
    BY \A k \in 1..l : k \in Nat
  <1>. PICK keys \in SUBSET Nat : keys = {k \in 1..l : k > l - CatchUp}
    BY <1>0
  <1>. PICK n : n = Outcome(r, ok, keys, l)
    OBVIOUS
  <1>4. /\ n \in {NoCall} \cup KeyCalls
        /\ n = NoCall \/ (/\ n.op = r.op /\ n.key = r.key /\ n.start = r.start /\ n.latest = l
                          /\ n.at = IF r.op = "mint" THEN "sign" ELSE "unknown")
    BY OutcomeCall
  <1>5. caller' = [d \in Callers |-> IF d = c THEN n
                                     ELSE IF caller[d].at = "waits" THEN [caller[d] EXCEPT !.at = "woken"]
                                     ELSE caller[d]]
    BY DEF Install
  <1>6. fetch.by = {c} /\ fetch.since <= now /\ now <= fetch.since + 1
    BY <1>1, <1>2 DEF Sound, SigningInv, CacheInv
  <1>7. now \in Nat /\ fetch.since \in Nat /\ r.start \in Nat
    BY DEF SigningInv, SigningTypeOK, KeyCalls
  <1>8. r.op = "validate" => /\ r.key \in Versions /\ r.start <= asked[r.key] /\ now <= asked[r.key] + 1
                             /\ asked[r.key] \in Int
    <2>1. r.op = "validate" => r.key \in Versions /\ r.start <= asked[r.key] /\ fetch.since <= asked[r.key]
      BY <1>1, <1>2 DEF Sound, Validating
    <2>2. r.op = "validate" => asked[r.key] \in Int
      BY <2>1 DEF SigningInv, SigningTypeOK
    <2>. QED
      BY <1>6, <1>7, <2>1, <2>2
  <1>9. /\ cache'.latest \in 1..rotated /\ cache'.latest \in Nat /\ cache.latest <= cache'.latest
        /\ cache' \in [keys: SUBSET Nat, latest: Nat, time: Nat]
        /\ ok => cache'.latest = l
    <2>1. CASE ok
      <3>1. cache' = [keys |-> keys, latest |-> l, time |-> now]
        BY <2>1 DEF Install
      <3>2. l \in cache.latest..rotated /\ cache.latest \in 1..rotated
        BY <1>1, <2>1 DEF SigningInv, CacheInv
      <3>3. rotated \in Nat /\ cache.latest \in Nat
        BY SigningBounds DEF SigningInv, SigningTypeOK, Versions
      <3>. QED
        BY <1>7, <3>1, <3>2, <3>3
    <2>2. CASE ~ok
      BY <2>2 DEF Install, SigningInv, SigningTypeOK, CacheInv
    <2>. QED
      BY <2>1, <2>2
  <1>10. /\ negative' \in [Versions -> Int]
         /\ \A k \in Versions : k > cache'.latest => negative'[k] <= asked[k] + 2 * Ttl
    <2>1. CASE ok
      <3>. PICK none \in [Versions -> Int] : none = [k \in Versions |-> Never]
        BY TimesNumbers
      <3>0. ASSUME NEW k \in Versions PROVE none[k] <= asked[k] + 2 * Ttl
        <4>. PICK j \in Int : j = asked[k]
          BY DEF SigningInv, SigningTypeOK
        <4>1. Never <= j
          BY DEF SigningInv, VersionsInv
        <4>2. Never <= j + 2 * Ttl
          BY <4>1, TimesNumbers, SigningBounds
        <4>. QED
          BY <4>2
      <3>1. negative' = none \/ (r.op = "validate" /\ negative' = [none EXCEPT ![r.key] = now + Ttl])
        BY <2>1 DEF Install
      <3>2. CASE negative' = none
        BY <1>3, <3>0, <3>2
      <3>3. CASE r.op = "validate" /\ negative' = [none EXCEPT ![r.key] = now + Ttl]
        <4>1. now + Ttl <= asked[r.key] + 2 * Ttl /\ now + Ttl \in Int
          BY <1>7, <1>8, <3>3, SigningBounds
        <4>. QED
          BY <1>8, <3>0, <3>3, <4>1
      <3>. QED
        BY <3>1, <3>2, <3>3
    <2>2. CASE ~ok
      <3>1. negative' = negative /\ cache' = cache
        BY <2>2 DEF Install
      <3>. QED
        BY <3>1 DEF SigningInv, SigningTypeOK, VersionsInv
    <2>. QED
      BY <2>1, <2>2
  <1>11. /\ fetch' \in [by: SUBSET Callers, answer: Nat, failed: BOOLEAN, since: Nat]
         /\ fetch'.by = {} /\ fetch'.answer = 0
    <2>. PICK f \in BOOLEAN : f = ~ok
      OBVIOUS
    <2>1. fetch' = [by |-> {}, answer |-> 0, failed |-> f, since |-> 0]
      BY DEF Install
    <2>. QED
      BY <2>1
  <1>12. caller'[c] = n /\ Sound(c)'
    <2>1. caller'[c] = n
      BY <1>5
    <2>2. CASE n = NoCall
      BY <2>1, <2>2 DEF Sound, NoCall
    <2>3. CASE n # NoCall
      <3>0. ok
        BY <2>3 DEF Outcome
      <3>1. n.op = r.op /\ n.key = r.key /\ n.start = r.start /\ n.latest = cache'.latest
            /\ n.at = IF r.op = "mint" THEN "sign" ELSE "unknown"
        BY <1>4, <1>9, <2>3, <3>0
      <3>2. ASSUME n.op = "validate" PROVE Validating(n)'
        <4>1. r.start < asked[r.key] + 2 * Ttl
          BY <1>7, <1>8, <3>1, <3>2, SigningBounds
        <4>. QED
          BY <1>3, <1>8, <1>9, <3>1, <3>2, <4>1 DEF Validating
      <3>3. ASSUME n.op = "mint" PROVE Minting(n)'
        <4>1. 1 <= cache'.latest /\ cache'.latest \in Nat
          BY <1>9
        <4>. QED
          BY <3>1, <3>3, <4>1 DEF Minting
      <3>. QED
        BY <2>1, <3>1, <3>2, <3>3 DEF Sound
    <2>. QED
      BY <2>2, <2>3
  <1>13. ASSUME NEW d \in Callers, d # c PROVE caller'[d] \in {NoCall} \cup KeyCalls /\ Sound(d)'
    <2>1. CASE caller[d].at = "waits"
      <3>1. caller'[d] = [caller[d] EXCEPT !.at = "woken"]
        BY <1>5, <1>13, <2>1
      <3>. QED
        BY <1>3, <1>9, <2>1, <3>1, WaiterWakes
    <2>2. CASE caller[d].at # "waits"
      <3>1. caller'[d] = caller[d]
        BY <1>5, <1>13, <2>2
      <3>2. caller[d] \in {NoCall} \cup KeyCalls
        BY DEF SigningInv, SigningTypeOK
      <3>3. caller[d].at # "fetches"
        BY <1>6, <1>13 DEF SigningInv, CallsInv, Sound
      <3>. QED
        BY <1>3, <1>9, <2>2, <3>1, <3>2, <3>3, IdleStays
    <2>. QED
      BY <2>1, <2>2
  <1>14. SigningTypeOK'
    <2>1. \A d \in Callers : caller'[d] \in {NoCall} \cup KeyCalls
      BY <1>4, <1>12, <1>13
    <2>2. caller' = [d \in Callers |-> caller'[d]]
      BY <1>5
    <2>3. caller' \in [Callers -> {NoCall} \cup KeyCalls]
      BY <2>1, <2>2
    <2>. QED
      BY <1>3, <1>9, <1>10, <1>11, <2>3 DEF SigningInv, SigningTypeOK
  <1>15. CacheInv'
    BY <1>3, <1>9, <1>11 DEF CacheInv
  <1>16. VersionsInv'
    BY <1>3, <1>10 DEF SigningInv, VersionsInv
  <1>17. CallsInv'
    BY <1>12, <1>13 DEF CallsInv
  <1>. QED
    BY <1>14, <1>15, <1>16, <1>17 DEF SigningInv

LEMMA SigningSteps == SigningInv /\ [SigningNext]_signing => SigningInv'
  <1>. SUFFICES ASSUME SigningInv, [SigningNext]_signing PROVE SigningInv'
    OBVIOUS
  <1>1. ASSUME NEW c \in Callers, GiveUp(c) PROVE SigningInv'
    <2>1. caller' = [caller EXCEPT ![c] = NoCall]
      BY <1>1 DEF GiveUp, Go
    <2>. QED
      BY <1>1, <2>1, CallEnds DEF GiveUp
  <1>2. ASSUME NEW c \in Callers, Return(c) PROVE SigningInv'
    BY <1>2, CallEnds DEF Return
  <1>3. CASE UNCHANGED signing
    BY <1>3 DEF signing, SigningInv, SigningTypeOK, CacheInv, VersionsInv, CallsInv, Sound, Validating, Minting
  <1>4. CASE SigningNext
    BY <1>1, <1>2, <1>4, ValidateSteps, MintSteps, SignSteps, LookUpKeySteps, WorthARefreshSteps, RefreshSteps,
       InstallSteps, WakeSteps, TransitKeyInfoSteps, RotateSteps, TickSteps DEF SigningNext
  <1>. QED
    BY <1>3, <1>4

\* A token that Vault has signed with a version newer than those cached is
\* called invalid only for a minute after somebody waited for the keys because
\* of it, or thought it too far from those cached to ask (refreshPublicKeys and
\* PublicKey, runtime.go): however calls, rotations and answers of Vault
\* interleave, no version stays disowned.
THEOREM DisownedBrieflyAlways == SigningSpec => []DisownedBriefly
  <1>1. SigningInv => DisownedBriefly
    <2>. SUFFICES ASSUME SigningInv, NEW c \in Callers, caller[c].at = "unknown", caller[c].key > caller[c].latest
                  PROVE  caller[c].start < asked[caller[c].key] + 2 * Ttl
      BY DEF DisownedBriefly
    <2>. PICK r \in KeyCalls : r = caller[c]
      BY CallOf
    <2>1. Sound(c)
      BY CallOf
    <2>2. r.op # "mint"
      BY <2>1 DEF Sound, Minting, KeyCalls
    <2>3. r.op = "validate"
      BY <2>2 DEF KeyCalls
    <2>. QED
      BY <2>1, <2>3 DEF Sound, Validating
  <1>. QED
    BY <1>1, SigningInitHolds, SigningSteps, PTL DEF SigningSpec
=============================================================================
