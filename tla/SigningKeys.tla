-------------------------------- MODULE SigningKeys --------------------------------
(***************************************************************************)
(* The public keys of the auth service: one replica's cache of Vault's     *)
(* Transit key versions (vault/runtime.go), used to check an access token  *)
(* and to mint one (token/token.go).  The key is rotated in Vault, other   *)
(* replicas sign with the new version, and this one learns of it when it   *)
(* is shown a token, or after a minute when it mints one itself.  At most  *)
(* one request for the keys is under way; others wait for it.              *)
(*                                                                         *)
(* One unit of time is Ttl-th of 30 seconds.  Formats, claims and          *)
(* signatures themselves are left out: a token is the version in its       *)
(* header.  So is the bound of 64 on remembered keys.                      *)
(***************************************************************************)
EXTENDS Integers, FiniteSets

CONSTANTS Callers,     \* slots for calls under way
          MaxVersion,  \* versions of the key, and those a header may claim
          CatchUp,     \* maxKeyCatchUp = maxCachedPublicKeys (32 in the code)
          Ttl,         \* negativeKeyTTL; keySetTTL is twice as long
          MaxTime

(* Vault answers within a unit. *)
ASSUME SigningBounds == /\ Ttl \in Nat \ {0} /\ CatchUp \in Nat \ {0}
                        /\ MaxVersion \in Nat \ {0} /\ MaxTime \in Nat

Versions == 1..MaxVersion
Never == -10

VARIABLES now,
          rotated,    \* Vault: the latest version
          cache,      \* publicKeys, latestKeyVersion, keySetRefreshedAt
          negative,   \* negativeKeyIDs: per version, when it may be looked for again
          checked,    \* unknownKeyChecks: per version, when it was last looked for
          fetch,      \* the request for the keys; keyRefreshErr stays until the next one
          caller,     \* calls of PublicKey, alone or at the end of a Mint
          asked       \* history: per version, when somebody last waited for the keys for it, or
                      \* thought it too far from those cached

signing == <<now, rotated, cache, negative, checked, fetch, caller, asked>>

NoCall == [op |-> "none", at |-> "none"]

(* A call goes on; a key that is found, or an error, is its answer at once.  *)
Go(c, at) == caller' = [caller EXCEPT ![c] = IF at \in {"found", "error"} THEN NoCall ELSE [@ EXCEPT !.at = at]]

(* rememberUnknownKey: not to be looked for during the next 30 seconds.      *)
Remembered(k, t) == [negative EXCEPT ![k] = t + Ttl]

-----------------------------------------------------------------------------
(* Validate: the token of some replica, or one that claims any version. *)
Validate(c, k) ==
    /\ caller[c] = NoCall
    /\ caller' = [caller EXCEPT ![c] = [op |-> "validate", at |-> "lookup", key |-> k, start |-> now,
                                        latest |-> 0, known |-> Never, signed |-> k <= rotated]]
    /\ UNCHANGED <<now, rotated, cache, negative, checked, fetch, asked>>

(* Mint: SigningKeyID, which fetches the keys again after a minute. *)
Mint(c) ==
    /\ caller[c] = NoCall
    /\ caller' = [caller EXCEPT ![c] = [op |-> "mint", at |-> IF now - cache.time >= 2 * Ttl THEN "fetch" ELSE "sign",
                                        key |-> 0, start |-> now, latest |-> cache.latest, known |-> Never,
                                        signed |-> TRUE]]
    /\ UNCHANGED <<now, rotated, cache, negative, checked, fetch, asked>>
(* Vault signs with the version asked for, whose public key is then looked up. *)
Sign(c) ==
    /\ caller[c].at = "sign"
    /\ caller' = [caller EXCEPT ![c].at = "lookup", ![c].key = caller[c].latest, ![c].start = now]
    /\ UNCHANGED <<now, rotated, cache, negative, checked, fetch, asked>>

(* PublicKey, first under keyMu: what is known of the version. *)
LookUpKey(c) ==
    LET k == caller[c].key IN
    /\ caller[c].at = "lookup"
    /\ IF k \in cache.keys THEN Go(c, "found")
       ELSE caller' = [caller EXCEPT ![c].at = IF negative[k] > caller[c].start THEN "unknown" ELSE "decide",
                                     ![c].latest = cache.latest, ![c].known = checked[k]]
    /\ UNCHANGED <<now, rotated, cache, negative, checked, fetch, asked>>

\* Variant with the fault of a check that is remembered for ever.
CheckedOnce(r) == r.known # Never

CheckedLately(r) == r.start - r.known < Ttl

(* ... then without it: only a version that may exist is worth a request,    *)
(* and one that was looked for lately is not.                                *)
WorthARefresh(c) ==
    LET r == caller[c]
        implausible == r.key <= r.latest \/ r.key > r.latest + CatchUp
    IN
    /\ r.at = "decide"
    /\ IF implausible \/ CheckedLately(r)
       THEN negative' = Remembered(r.key, r.start) /\ Go(c, "unknown")
       ELSE Go(c, "fetch") /\ UNCHANGED negative
    /\ asked' = IF r.key > r.latest + CatchUp THEN [asked EXCEPT ![r.key] = now] ELSE asked
    /\ UNCHANGED <<now, rotated, cache, checked, fetch>>

(* refreshPublicKeys: a mint finds them fresh by now, somebody is fetching   *)
(* them already, or they are asked for.                                      *)
RefreshPublicKeys(c) ==
    LET r == caller[c] IN
    /\ r.at = "fetch"
    /\ IF r.op = "mint" /\ now - cache.time < 2 * Ttl
       THEN /\ caller' = [caller EXCEPT ![c].at = "sign", ![c].latest = cache.latest]
            /\ UNCHANGED <<checked, fetch, asked>>
       ELSE /\ asked' = IF r.op = "validate" THEN [asked EXCEPT ![r.key] = now] ELSE asked
            /\ IF fetch.by # {} THEN Go(c, "waits") /\ UNCHANGED <<checked, fetch>>
               ELSE /\ Go(c, "fetches")
                    /\ fetch' = [fetch EXCEPT !.by = {c}, !.answer = 0, !.since = now]
                    /\ checked' = IF r.op = "validate" THEN [checked EXCEPT ![r.key] = now] ELSE checked
    /\ UNCHANGED <<now, rotated, cache, negative>>

(* Vault answers with every version it keeps. *)
TransitKeyInfo ==
    /\ fetch.by # {} /\ fetch.answer = 0
    /\ fetch' = [fetch EXCEPT !.answer = rotated]
    /\ UNCHANGED <<now, rotated, cache, negative, checked, caller, asked>>

(* A caller that has the keys, or the error, goes on: to sign, or with what  *)
(* the cache now says of its version.                                        *)
Outcome(r, ok, keys, latest) ==
    IF ~ok \/ (r.op = "validate" /\ r.key \in keys) THEN NoCall
    ELSE [r EXCEPT !.at = IF r.op = "mint" THEN "sign" ELSE "unknown", !.latest = latest]
Install(c, ok) ==
    LET r == caller[c]
        keys == {k \in 1..fetch.answer : k > fetch.answer - CatchUp}
        none == [k \in Versions |-> Never]
    IN
    /\ r.at = "fetches" /\ (ok => fetch.answer # 0)
    /\ fetch' = [by |-> {}, answer |-> 0, failed |-> ~ok, since |-> 0]
    /\ IF ok
       THEN /\ cache' = [keys |-> keys, latest |-> fetch.answer, time |-> now]
            /\ negative' = IF r.op = "validate" /\ r.key \notin keys THEN [none EXCEPT ![r.key] = now + Ttl] ELSE none
       ELSE UNCHANGED <<cache, negative>>
    /\ caller' = [d \in Callers |-> IF d = c THEN Outcome(r, ok, keys, fetch.answer)
                                    ELSE IF caller[d].at = "waits" THEN [caller[d] EXCEPT !.at = "woken"]
                                    ELSE caller[d]]
    /\ UNCHANGED <<now, rotated, checked, asked>>
(* Those that waited go on after it, and read the error of the latest request.*)
Wake(c) ==
    LET r == caller[c] IN
    /\ r.at = "woken"
    /\ negative' = IF ~fetch.failed /\ r.op = "validate" /\ r.key \notin cache.keys
                   THEN Remembered(r.key, now) ELSE negative
    /\ caller' = [caller EXCEPT ![c] = Outcome(r, ~fetch.failed, cache.keys, cache.latest)]
    /\ UNCHANGED <<now, rotated, cache, checked, fetch, asked>>
(* The request that a caller serves is given up while it waits. *)
GiveUp(c) ==
    /\ caller[c].at \in {"waits", "woken"} /\ Go(c, "error")
    /\ UNCHANGED <<now, rotated, cache, negative, checked, fetch, asked>>

(* The token is invalid. *)
Return(c) ==
    /\ caller[c].at = "unknown"
    /\ caller' = [caller EXCEPT ![c] = NoCall]
    /\ UNCHANGED <<now, rotated, cache, negative, checked, fetch, asked>>

-----------------------------------------------------------------------------
Rotate ==
    /\ rotated < MaxVersion /\ rotated' = rotated + 1
    /\ UNCHANGED <<now, cache, negative, checked, fetch, caller, asked>>

(* Time passes while calls wait for Vault, which has 10 seconds to answer,   *)
(* and between them; what is done in memory takes none.                      *)
Tick ==
    /\ now < MaxTime /\ now' = now + 1
    /\ fetch.by # {} => fetch.since = now
    /\ \A c \in Callers : caller[c].at \in {"none", "sign", "fetches", "waits"}
    /\ UNCHANGED <<rotated, cache, negative, checked, fetch, caller, asked>>

SigningInit ==
    /\ now = 0 /\ rotated = 1
    /\ cache = [keys |-> {1}, latest |-> 1, time |-> 0]
    /\ negative = [k \in Versions |-> Never] /\ checked = negative /\ asked = negative
    /\ fetch = [by |-> {}, answer |-> 0, failed |-> FALSE, since |-> 0]
    /\ caller = [c \in Callers |-> NoCall]

SigningNext ==
    \/ \E c \in Callers :
          \/ \E k \in Versions : Validate(c, k)
          \/ Mint(c) \/ Sign(c) \/ LookUpKey(c) \/ WorthARefresh(c) \/ RefreshPublicKeys(c)
          \/ Install(c, TRUE) \/ Install(c, FALSE) \/ Wake(c) \/ GiveUp(c) \/ Return(c)
    \/ TransitKeyInfo \/ Rotate \/ Tick

SigningSpec == SigningInit /\ [][SigningNext]_signing

-----------------------------------------------------------------------------
(* A token that Vault has signed with a version newer than those cached is   *)
(* called invalid only for a minute after somebody waited for the keys       *)
(* because of its version (while they are being fetched, after Vault did not *)
(* answer, or after an answer from before the rotation), or after it was     *)
(* thought too far from the cached ones to ask.                              *)
(* (A token that cannot be checked should rather be an error: token.go:28.)  *)
DisownedBriefly ==
    \A c \in Callers :
        LET r == caller[c] IN
        r.at = "unknown" /\ r.signed /\ r.key > r.latest => r.start < asked[r.key] + 2 * Ttl
=============================================================================
