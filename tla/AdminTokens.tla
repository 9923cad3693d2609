---------------------------- MODULE AdminTokens ----------------------------
(***************************************************************************)
(* The token of a profile: reads that share one TokenManager, the exchange *)
(* of an OAuth client's secret for a token that lapses, the one replay of  *)
(* a read the server did not authenticate, and the attempts of each call.  *)
(* Tokens are numbered in the order they were issued; 0 is none.           *)
(***************************************************************************)
EXTENDS Integers, FiniteSets

CONSTANTS Calls,        \* reads that use the manager
          MaxRetries,   \* MAX_RETRIES
          TokenBounds   \* [oauth, stored, lapses, faults, revoked]: the credential, and what may happen to it

ASSUME TokensAssumption ==
    /\ 0 \notin Calls   \* who stands for nobody
    /\ MaxRetries \in Nat
    /\ TokenBounds \subseteq [oauth : BOOLEAN, stored : BOOLEAN, lapses : Nat, faults : Nat, revoked : Nat]

VARIABLES credential,   \* the credential, and what may still happen to it
          cache,        \* TokenManager.cache: the token, and whether it is fresh
          mutex,        \* who holds the cache's lock across an exchange, or Nobody
          issued,       \* tokens issued so far (external)
          accepted,     \* the tokens the server accepts (external)
          revoked,      \* history: tokens the server has revoked
          lapsed,       \* history: how often the cached token ceased to be fresh
          call          \* the reads

tokenVars == <<credential, cache, mutex, issued, accepted, revoked, lapsed, call>>

Nobody  == 0
NoToken == [tok |-> 0, fresh |-> FALSE]
NotBegun == [step |-> "idle", tok |-> 0, refused |-> 0, attempt |-> 0, result |-> "none"]

TokensInit ==
    /\ credential \in TokenBounds
    /\ cache = NoToken
    /\ mutex = Nobody
    /\ issued = 0
    /\ accepted = {}
    /\ revoked = {}
    /\ lapsed = 0
    /\ call = [c \in Calls |-> NotBegun]

Unmarked == UNCHANGED <<revoked, lapsed>>
Server == UNCHANGED <<issued, accepted>>

Goes(c, step, tok) == call' = [call EXCEPT ![c].step = step, ![c].tok = tok, ![c].attempt = 0]
Ends(c, result)    == call' = [call EXCEPT ![c].step = "ended", ![c].result = result]

Issue ==
    /\ issued' = issued + 1
    /\ accepted' = accepted \cup {issued + 1}
    /\ cache' = [tok |-> issued + 1, fresh |-> TRUE]

\* Mutant: the lock is not kept while the token is exchanged.
CanLock_Anyone(c) == c \in Calls

\* tokio's Mutex: an exchange holds it until its answer.
CanLock(c) == mutex = Nobody

BeginRead(c) ==
    /\ call[c].step = "idle"
    /\ call' = [call EXCEPT ![c].step = "token"]
    /\ Unmarked /\ Server /\ UNCHANGED <<credential, cache, mutex>>

\* TokenManager::access_token.
AccessToken(c) ==
    /\ call[c].step = "token" /\ CanLock(c)
    /\ Unmarked /\ UNCHANGED credential
    /\ \/ /\ cache.fresh
          /\ Goes(c, "call", cache.tok)
          /\ Server /\ UNCHANGED <<cache, mutex>>
       \/ /\ ~cache.fresh /\ ~credential.stored
          /\ Ends(c, "NoCredential")
          /\ Server /\ UNCHANGED <<cache, mutex>>
       \/ /\ ~cache.fresh /\ credential.stored /\ ~credential.oauth
          /\ Issue
          /\ Goes(c, "call", issued + 1)
          /\ UNCHANGED mutex
       \/ /\ ~cache.fresh /\ credential.stored /\ credential.oauth
          /\ mutex' = c
          /\ Goes(c, "exchange", call[c].tok)
          /\ Server /\ UNCHANGED cache

Fault == credential.faults > 0 /\ credential' = [credential EXCEPT !.faults = @ - 1]

\* TokenManager::exchange and what its two callers do with it.
Exchanged(c) ==
    /\ call[c].step \in {"exchange", "reexchange"}
    /\ mutex' = Nobody
    /\ Issue
    /\ Goes(c, IF call[c].step = "exchange" THEN "call" ELSE "again", issued + 1)
    /\ Unmarked /\ UNCHANGED credential

ExchangeFails(c) ==
    /\ call[c].step \in {"exchange", "reexchange"}
    /\ Fault
    /\ mutex' = Nobody
    /\ Ends(c, "Failed")
    /\ Unmarked /\ Server /\ UNCHANGED cache

CanRetry(c) == call[c].attempt < MaxRetries

\* AdminClient: one attempt at a request.
Attempt(c) ==
    /\ call[c].step \in {"call", "again"}
    /\ Unmarked /\ Server /\ UNCHANGED <<cache, mutex>>
    /\ \/ /\ call[c].tok \in accepted
          /\ Ends(c, "Ok")
          /\ UNCHANGED credential
       \/ /\ call[c].tok \notin accepted
          /\ IF call[c].step = "call"
             THEN call' = [call EXCEPT ![c].step = "refused", ![c].refused = call[c].tok]
             ELSE Ends(c, "Unauthenticated")
          /\ UNCHANGED credential
       \/ /\ Fault
          /\ IF CanRetry(c)
             THEN call' = [call EXCEPT ![c].attempt = @ + 1]
             ELSE Ends(c, "Failed")

\* Another read has had the token renewed meanwhile.
Another(c) == cache.tok # 0 /\ cache.tok # call[c].refused

\* The refused token had lapsed, and the credential can be exchanged for another.
Renewable(c) == cache.tok = call[c].refused /\ ~cache.fresh /\ credential.oauth /\ credential.stored

\* TokenManager::refresh_after_unauthenticated, from admin_read_with_replay.
RefreshToken(c) ==
    /\ call[c].step = "refused" /\ CanLock(c)
    /\ Unmarked /\ Server /\ UNCHANGED <<credential, cache>>
    /\ \/ /\ Another(c)
          /\ Goes(c, "again", cache.tok)
          /\ UNCHANGED mutex
       \/ /\ ~Another(c) /\ Renewable(c)
          /\ mutex' = c
          /\ Goes(c, "reexchange", call[c].tok)
       \/ /\ ~Another(c) /\ ~Renewable(c)
          /\ Ends(c, "Unauthenticated")
          /\ UNCHANGED mutex

\* A read that is dropped drops its guard.
Unlocked(c) == IF mutex = c THEN Nobody ELSE mutex

CancelRead(c) ==
    /\ call[c].step \notin {"idle", "ended"}
    /\ mutex' = Unlocked(c)
    /\ Ends(c, "Cancelled")
    /\ Unmarked /\ Server /\ UNCHANGED <<credential, cache>>

\* REFRESH_LEAD before the token expires it is no longer handed out.
TokenLapses ==
    /\ cache.fresh /\ credential.oauth
    /\ lapsed < credential.lapses
    /\ lapsed' = lapsed + 1
    /\ cache' = [cache EXCEPT !.fresh = FALSE]
    /\ UNCHANGED <<credential, mutex, revoked, call>> /\ Server

\* A token lives longer than a task keeps an older one, and REFRESH_LEAD longer
\* than a request.
TokenExpires ==
    /\ \E t \in accepted :
           /\ credential.oauth
           /\ t < issued \/ ~cache.fresh
           /\ \A c \in Calls : call[c].step # "ended" =>
                  /\ ~(call[c].step = "again" /\ call[c].tok = t)
                  /\ ~(call[c].step \in {"call", "refused"} /\ call[c].tok < t)
           /\ accepted' = accepted \ {t}
    /\ UNCHANGED <<credential, cache, mutex, issued, revoked, lapsed, call>>

TokenRevoked ==
    /\ credential.revoked > 0
    /\ credential' = [credential EXCEPT !.revoked = @ - 1]
    /\ \E t \in accepted : accepted' = accepted \ {t} /\ revoked' = revoked \cup {t}
    /\ UNCHANGED <<cache, mutex, issued, lapsed, call>>

ReadStep(c) == AccessToken(c) \/ Exchanged(c) \/ ExchangeFails(c) \/ Attempt(c) \/ RefreshToken(c)

TokensNext ==
    \/ \E c \in Calls : BeginRead(c) \/ ReadStep(c) \/ CancelRead(c)
    \/ TokenLapses \/ TokenExpires \/ TokenRevoked

TokensSpec == TokensInit /\ [][TokensNext]_tokenVars

\* The mutex passes on, exchanges and requests have a timeout.
TokensFairness == WF_call(\E c \in Calls : ReadStep(c))

-----------------------------------------------------------------------------
(* Properties *)

Steps   == {"idle", "token", "exchange", "call", "refused", "reexchange", "again", "ended"}
Results == {"none", "Ok", "NoCredential", "Failed", "Unauthenticated", "Cancelled"}

TokensTypeOK ==
    /\ credential \in [oauth : BOOLEAN, stored : BOOLEAN, lapses : Nat, faults : Nat, revoked : Nat]
    /\ issued \in Nat /\ lapsed \in Nat
    /\ cache \in [tok : 0..issued, fresh : BOOLEAN]
    /\ mutex \in Calls \cup {Nobody}
    /\ accepted \subseteq 1..issued /\ revoked \subseteq 1..issued
    /\ call \in [Calls -> [step : Steps, tok : 0..issued, refused : 0..issued,
                           attempt : 0..MaxRetries, result : Results]]

\* However many reads find the token lapsed or refused, one of them exchanges
\* the secret for a new one; and that a token expires is nothing the user sees:
\* a read is told that it is not authenticated only when the server has revoked
\* the token.
TokenIsShared ==
    /\ credential.oauth => issued <= 1 + lapsed
    /\ \A c \in Calls : call[c].result = "Unauthenticated" => revoked # {}

=============================================================================
