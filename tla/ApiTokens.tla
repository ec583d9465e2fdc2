----------------------------- MODULE ApiTokens ------------------------------
(***************************************************************************)
(* The API tokens of one project: the page on which a manager creates,     *)
(* revokes and deletes them (ProjectApiTokensSection.tsx), the backend     *)
(* that holds the project's lock around each change and gives the auth     *)
(* service two seconds to answer (project-api-tokens.service.ts), the      *)
(* transactions of the auth service (project_api_tokens.go), and an        *)
(* integration that calls the public API with a token it was given         *)
(* (project-api-token.guard.ts).                                           *)
(*                                                                         *)
(* When the two seconds are over the backend answers 503 and lets go of    *)
(* the project's lock, while the transaction may go on to commit: so two   *)
(* creations do meet in the auth service.                                  *)
(***************************************************************************)
EXTENDS Integers, FiniteSets

CONSTANTS Clients,      \* slots for requests under way
          MaxKeys,      \* tokens created in a behaviour
          Expiring,     \* those of them (by number) that may expire
          Cap           \* MaxProjectAPITokens (10 in the code)

ASSUME TokenNumbers == MaxKeys \in Nat /\ Cap \in Nat

Keys == 1..MaxKeys

VARIABLES rows,         \* ProjectApiToken: per committed row, "live" or "revoked"
          expired,      \* tokens whose expiresAt has passed
          minted,       \* identifiers given so far
          known,        \* tokens whose secret was handed out
          call,         \* requests under way
          settings      \* what the settings page holds

tokens == <<rows, expired, minted, known, call, settings>>

NoRequest == [op |-> "none", waits |-> FALSE, tx |-> "none"]
Changes == {"create", "revoke", "delete"}
NoRow == [k \in Keys |-> "none"]
Nothing == [op |-> "none", key |-> 0]

OnPage(op) == \E c \in Clients : call[c].op = op /\ call[c].waits
Active(k) == k \in DOMAIN rows /\ rows[k] = "live" /\ k \notin expired

(* A request is sent. *)
Send(c, op, key) ==
    /\ call[c] = NoRequest
    /\ call' = [call EXCEPT ![c] = [op |-> op, key |-> key, waits |-> TRUE, tx |-> "sent",
                                    ok |-> FALSE, old |-> {}, seen |-> NoRow]]
    /\ UNCHANGED <<rows, expired, minted, known>>

-----------------------------------------------------------------------------
(* The page: load on mount and on Retry, the form, a row's button with its dialog. *)
LoadTokens(c) ==
    /\ settings.load \in {"due", "failed"}
    /\ settings' = [settings EXCEPT !.load = "busy"]
    /\ Send(c, "list", 0)
HandleCreate(c) ==
    /\ ~OnPage("create") /\ minted < MaxKeys
    /\ Send(c, "create", 0)
    /\ UNCHANGED settings
AskFor(op, k) ==
    /\ settings.pending = Nothing /\ settings.load # "failed" /\ ~OnPage("revoke") /\ ~OnPage("delete")
    /\ settings.tokens[k] # "none"
    /\ (op = "delete") <=> (settings.tokens[k] = "revoked" \/ k \in expired)
    /\ settings' = [settings EXCEPT !.pending = [op |-> op, key |-> k]]
    /\ UNCHANGED <<rows, expired, minted, known, call>>
CloseDialog ==
    /\ settings.pending # Nothing /\ ~OnPage(settings.pending.op)
    /\ settings' = [settings EXCEPT !.pending = Nothing]
    /\ UNCHANGED <<rows, expired, minted, known, call>>
Confirm(c) ==
    /\ settings.pending # Nothing /\ ~OnPage(settings.pending.op)
    /\ Send(c, settings.pending.op, settings.pending.key)
    /\ UNCHANGED settings

(* An answer, or the error in its place. *)
Shown(r) ==
    IF ~r.ok THEN IF r.op = "list" THEN [settings EXCEPT !.load = "failed"] ELSE settings
    ELSE
    CASE r.op = "list"    -> [settings EXCEPT !.load = "done", !.tokens = r.seen]
      [] r.op = "create"  -> [settings EXCEPT !.tokens[r.key] = "live"]
      [] r.op = "revoke"  -> [settings EXCEPT !.pending = Nothing,
                                !.tokens[r.key] = IF @ = "none" THEN @ ELSE "revoked"]
      [] r.op = "delete"  -> [settings EXCEPT !.pending = Nothing, !.tokens[r.key] = "none"]
      [] OTHER            -> settings
Answer(c) ==
    /\ call[c].waits /\ call[c].tx = "done"
    /\ settings' = Shown(call[c])
    /\ known' = IF call[c].op = "create" /\ call[c].ok THEN known \cup {call[c].key} ELSE known
    /\ call' = [call EXCEPT ![c] = NoRequest]
    /\ UNCHANGED <<rows, expired, minted>>

(* The two seconds are over.  The page is told of a failure; what becomes of *)
(* the transaction it does not know.  A list nobody waits for has no effect. *)
Timeout(c) ==
    /\ call[c].waits /\ call[c].tx # "sent"
    /\ settings' = Shown([call[c] EXCEPT !.ok = FALSE])
    /\ call' = [call EXCEPT ![c] = IF @.tx = "done" \/ @.op = "list" THEN NoRequest ELSE [@ EXCEPT !.waits = FALSE]]
    /\ UNCHANGED <<rows, expired, minted, known>>

-----------------------------------------------------------------------------
(* The backend: withProjectLock around a change, nothing around a list or an *)
(* introspection.  Then the auth service begins a transaction, whose         *)
(* CURRENT_TIMESTAMP is that moment.                                         *)
BeginTx(c) ==
    /\ call[c].tx = "sent"
    /\ call[c].op \in Changes => \A d \in Clients \ {c} :
          ~(call[d].op \in Changes /\ call[d].waits /\ call[d].tx # "sent")
    /\ call' = [call EXCEPT ![c].tx = "begun", ![c].old = expired]
    /\ UNCHANGED <<rows, expired, minted, known, settings>>

(* The end of a transaction: an answer, if somebody still waits for it.      *)
Done(c, r) == call' = [call EXCEPT ![c] = IF r.waits THEN [r EXCEPT !.tx = "done"] ELSE NoRequest]
Holds(c) == call' = [call EXCEPT ![c].tx = "held"]

\* Variant with the fault of a count and an insert without the advisory lock.
NoLock == TRUE

(* pg_advisory_xact_lock: one creation at a time, until its commit.          *)
AdvisoryFree == \A c \in Clients : ~(call[c].op = "create" /\ call[c].tx = "held")

(* CreateProjectAPIToken up to its insert: counts, and refuses at the cap.   *)
InsertToken(c) ==
    /\ call[c].op = "create" /\ call[c].tx = "begun"
    /\ AdvisoryFree
    /\ IF Cardinality({k \in DOMAIN rows : rows[k] = "live" /\ k \notin call[c].old}) >= Cap
       THEN Done(c, call[c]) /\ UNCHANGED minted
       ELSE /\ minted < MaxKeys /\ minted' = minted + 1
            /\ call' = [call EXCEPT ![c].tx = "held", ![c].key = minted + 1]
    /\ UNCHANGED <<rows, expired, known, settings>>

\* Variant with the fault of an introspection that reads without FOR UPDATE.
ChangersOnly(k) ==
    \A c \in Clients : ~(call[c].op \in {"revoke", "delete"} /\ call[c].tx = "held" /\ call[c].key = k)

(* The row lock of UPDATE, DELETE and SELECT FOR UPDATE. *)
RowFree(k) ==
    \A c \in Clients : ~(call[c].op \in {"use", "revoke", "delete"} /\ call[c].tx = "held" /\ call[c].key = k)

(* changeProjectAPITokenState, DeleteProjectAPIToken, and the SELECT of      *)
(* IntrospectProjectAPIToken: the row is found and locked, or the answer is  *)
(* known.                                                                    *)
LockRow(c) ==
    LET r == call[c]
        there == r.key \in DOMAIN rows
    IN
    /\ r.op \in {"revoke", "delete", "use"} /\ r.tx = "begun" /\ RowFree(r.key)
    /\ CASE r.op = "delete" /\ there                      -> Holds(c)
         [] r.op = "revoke" /\ there /\ rows[r.key] = "live" -> Holds(c)
         [] r.op = "revoke" /\ there /\ rows[r.key] # "live" -> Done(c, [r EXCEPT !.ok = rows[r.key] = "revoked"])
         [] r.op = "use" /\ there /\ rows[r.key] = "live" /\ r.key \notin r.old -> Holds(c)
         [] OTHER                                         -> Done(c, r)
    /\ UNCHANGED <<rows, expired, minted, known, settings>>

CommitTx(c) ==
    LET r == call[c] IN
    /\ r.tx = "held"
    /\ rows' = CASE r.op = "create" -> [k \in DOMAIN rows \cup {r.key} |-> IF k = r.key THEN "live" ELSE rows[k]]
                 [] r.op = "revoke" -> [rows EXCEPT ![r.key] = "revoked"]
                 [] r.op = "delete" -> [k \in DOMAIN rows \ {r.key} |-> rows[k]]
                 [] r.op = "use"    -> rows
    /\ Done(c, [r EXCEPT !.ok = TRUE])
    /\ UNCHANGED <<expired, minted, known, settings>>
Read(c) ==
    /\ call[c].op = "list" /\ call[c].tx = "begun"
    /\ Done(c, [call[c] EXCEPT !.ok = TRUE, !.seen = [k \in Keys |-> IF k \in DOMAIN rows THEN rows[k] ELSE "none"]])
    /\ UNCHANGED <<rows, expired, minted, known, settings>>

(* A refusal before the transaction (no manager any more, an archived        *)
(* project), a failure in it, or the cancellation of its context.            *)
Abort(c) ==
    /\ call[c].tx \in {"sent", "begun", "held"}
    /\ Done(c, call[c])
    /\ UNCHANGED <<rows, expired, minted, known, settings>>

-----------------------------------------------------------------------------
(* An integration calls the public API: the guard introspects its token.     *)
Use(c) ==
    /\ \E k \in known : Send(c, "use", k)
    /\ UNCHANGED settings

Expire(k) ==
    /\ k \in Expiring \cap DOMAIN rows /\ k \notin expired /\ expired' = expired \cup {k}
    /\ UNCHANGED <<rows, minted, known, call, settings>>

-----------------------------------------------------------------------------
TokensInit ==
    /\ rows = [k \in {} |-> "live"] /\ expired = {} /\ minted = 0 /\ known = {}
    /\ call = [c \in Clients |-> NoRequest]
    /\ settings = [tokens |-> NoRow, load |-> "due", pending |-> Nothing]

TokensNext ==
    \/ \E c \in Clients :
          \/ LoadTokens(c) \/ HandleCreate(c) \/ Confirm(c) \/ Use(c) \/ Answer(c) \/ Timeout(c)
          \/ BeginTx(c) \/ InsertToken(c) \/ LockRow(c) \/ CommitTx(c) \/ Read(c) \/ Abort(c)
    \/ \E k \in Keys : Expire(k) \/ AskFor("revoke", k) \/ AskFor("delete", k)
    \/ CloseDialog

TokensSpec == TokensInit /\ [][TokensNext]_tokens

-----------------------------------------------------------------------------
(* A project never has more active tokens than the cap, however creations    *)
(* that the backend gave up on overlap with later ones.                      *)
TokensCapped == Cardinality({k \in Keys : Active(k)}) <= Cap

(* "It stops working immediately": no token is accepted any more once its    *)
(* revocation or deletion has committed, and so never once the page shows it *)
(* as revoked; the row stays locked from the introspection's read to its     *)
(* commit.                                                                   *)
RevokedStopsWorking ==
    [][\A c \in Clients :
          call[c].op = "use" /\ call[c].tx = "held" /\ call'[c].tx = "done" /\ call'[c].ok
              => /\ call[c].key \in DOMAIN rows /\ rows[call[c].key] = "live"
                 /\ settings.tokens[call[c].key] # "revoked"]_tokens
=============================================================================
