---------------------------- MODULE TokenService ----------------------------
(***************************************************************************)
(* JWTService and TokenBlacklistManager of the historical v1 server: token *)
(* pairs issued, verified, refreshed under a lock and revoked by several   *)
(* requests at once, all of whose shared state is in Redis, whose commands *)
(* may fail and whose keys expire.                                         *)
(***************************************************************************)
EXTENDS FiniteSets, Naturals

CONSTANTS
  Requests,    \* concurrent requests
  Tokens,      \* token pairs, each with a family of its own
  Lives,       \* JWT_ACCESS_EXPIRES_IN, which is any time at all, and the jitter added
  ListTime,    \* the 24 hours an entry of the blacklist is kept
  MaxTime,     \* bound of the clock
  None         \* no token, no lock holder

VARIABLES
  now,         \* the time
  issued,      \* pairs generateTokenPair() has returned
  born, life,  \* when, and for how long their access tokens are good
  active,      \* Redis active_token: pairs whose access token is active
  family,      \* Redis token_family: pairs whose family is stored
  blacklist,   \* Redis token_blacklist: when a pair's entry expires, 0 if there was none
  lock,        \* who holds the refresh lock of a family
  step,        \* what each request does next
  token,       \* the pair it is about
  gone,        \* history: it began to verify a token that was not active
  until        \* history: or one on the blacklist, whose entry expires then

pairVars == <<issued, born, life>>
redisVars == <<active, family, blacklist>>
requestVars == <<step, token, gone, until>>
tokenVars == <<now, pairVars, redisVars, lock, requestVars>>

Init ==
  /\ now = 0 /\ issued = {} /\ active = {} /\ family = {}
  /\ born = [t \in Tokens |-> 0] /\ life = [t \in Tokens |-> 0]
  /\ blacklist = [t \in Tokens |-> 0] /\ lock = [t \in Tokens |-> None]
  /\ step = [r \in Requests |-> "idle"] /\ token = [r \in Requests |-> None]
  /\ gone = [r \in Requests |-> FALSE] /\ until = [r \in Requests |-> 0]

Ends(t) == born[t] + life[t]
Listed(t) == now < blacklist[t]
Goto(r, next) == step' = [step EXCEPT ![r] = next] /\ UNCHANGED <<token, gone, until>>
At(r, here) == step[r] = here
Begin(r, t, next) ==
  /\ step[r] \in {"idle", "accepted", "refused"} /\ t \in issued
  /\ step' = [step EXCEPT ![r] = next] /\ token' = [token EXCEPT ![r] = t]
-----------------------------------------------------------------------------
\* generateTokenPair(): family and active token are stored in one pipeline,
\* whose commands fail without the caller being told.
Generate(t) ==
  /\ t \notin issued /\ issued' = issued \cup {t}
  /\ born' = [born EXCEPT ![t] = now] /\ \E l \in Lives : life' = [life EXCEPT ![t] = l]
  /\ family' \in {family, family \cup {t}} /\ active' \in {active, active \cup {t}}
  /\ UNCHANGED <<now, blacklist, lock, requestVars>>

\* revokeToken(): the active token is deleted, or the command fails.
RevokeToken(t) ==
  /\ t \in active /\ active' = active \ {t}
  /\ UNCHANGED <<now, pairVars, family, blacklist, lock, requestVars>>

\* verifyAccessToken(): the token has not ended and the rate limit allows it ...
StartVerify(r, t) ==
  /\ Begin(r, t, IF now < Ends(t) THEN "blacklist" ELSE "refused")
  /\ gone' = [gone EXCEPT ![r] = t \notin active]
  /\ until' = [until EXCEPT ![r] = IF Listed(t) THEN blacklist[t] ELSE 0]
  /\ UNCHANGED <<now, pairVars, redisVars, lock>>

\* isBlacklisted(): an error counts as blacklisted.
IsBlacklisted(t) == {Listed(t), TRUE}

\* ... then the blacklist is asked, and after it the active token.
CheckBlacklist(r) ==
  /\ At(r, "blacklist")
  /\ \E listed \in IsBlacklisted(token[r]) : Goto(r, IF listed THEN "refused" ELSE "active")
  /\ UNCHANGED <<now, pairVars, redisVars, lock>>

CheckActive(r) ==
  /\ At(r, "active")
  /\ \/ Goto(r, "refused")
     \/ token[r] \in active /\ Goto(r, "accepted")
  /\ UNCHANGED <<now, pairVars, redisVars, lock>>
-----------------------------------------------------------------------------
\* refreshAccessToken(): the refresh token is verified while its family is stored.
StartRefresh(r, t) ==
  /\ Begin(r, t, IF t \in family THEN "lock" ELSE "refused")
  /\ UNCHANGED <<now, pairVars, redisVars, lock, gone, until>>

\* The rate limit refuses, or the lock is got or not after its retries.
AcquireLock(r) ==
  /\ At(r, "lock")
  /\ \/ Goto(r, "refused") /\ UNCHANGED lock
     \/ /\ lock[token[r]] = None /\ lock' = [lock EXCEPT ![token[r]] = r]
        /\ Goto(r, "family")
  /\ UNCHANGED <<now, pairVars, redisVars>>

\* The family holds the id of the access token, generateTokenPair() gave the
\* refresh token an id of its own, and the two are compared.
FamilyJti(t) == <<"access", t>>
RefreshJti(t) == <<"refresh", t>>

ReadFamily(r) ==
  /\ At(r, "family")
  /\ \/ Goto(r, "release")
     \/ /\ token[r] \in family /\ FamilyJti(token[r]) # RefreshJti(token[r])
        /\ Goto(r, "invalidate")
  /\ UNCHANGED <<now, pairVars, redisVars, lock>>

\* invalidateTokenFamily(): if the family is still there, its access token is
\* blacklisted for a day, whatever its life (or the pipeline's commands fail unnoticed) ...
Blacklist(r) ==
  /\ At(r, "invalidate")
  /\ \/ Goto(r, "release") /\ UNCHANGED blacklist
     \/ /\ token[r] \in family
        /\ blacklist' \in {blacklist, [blacklist EXCEPT ![token[r]] = now + ListTime]}
        /\ Goto(r, "delete")
  /\ UNCHANGED <<now, pairVars, active, family, lock>>

\* ... and then the family deleted; an error of either is only logged.
DeleteFamily(r) ==
  /\ At(r, "delete")
  /\ family' \in {family, family \ {token[r]}}
  /\ Goto(r, "release")
  /\ UNCHANGED <<now, pairVars, active, blacklist, lock>>

\* The lock is released, unless it expired or the command fails; the request throws.
ReleaseLock(r) ==
  /\ At(r, "release")
  /\ lock' \in {lock, [lock EXCEPT ![token[r]] = IF @ = r THEN None ELSE @]}
  /\ Goto(r, "refused")
  /\ UNCHANGED <<now, pairVars, redisVars>>

\* The keys of a family and of its lock expire, or the lock's holder was too slow.
Expire(t) ==
  /\ \/ t \in family /\ family' = family \ {t} /\ UNCHANGED lock
     \/ lock[t] # None /\ lock' = [lock EXCEPT ![t] = None] /\ UNCHANGED family
  /\ UNCHANGED <<now, pairVars, active, blacklist, requestVars>>

\* Time passes; an active token's key is stored for the token's life.
Tick ==
  /\ now < MaxTime /\ now' = now + 1
  /\ active' = {t \in active : now + 1 < Ends(t)}
  /\ UNCHANGED <<pairVars, family, blacklist, lock, requestVars>>

Next ==
  \/ \E t \in Tokens : Generate(t) \/ RevokeToken(t) \/ Expire(t)
  \/ \E r \in Requests, t \in Tokens : StartVerify(r, t) \/ StartRefresh(r, t)
  \/ \E r \in Requests :
       \/ CheckBlacklist(r) \/ CheckActive(r) \/ AcquireLock(r) \/ ReadFamily(r)
       \/ Blacklist(r) \/ DeleteFamily(r) \/ ReleaseLock(r)
  \/ Tick

Spec == Init /\ [][Next]_tokenVars
-----------------------------------------------------------------------------
TypeOK ==
  /\ active \cup family \cup {t \in Tokens : blacklist[t] # 0} \subseteq issued
  /\ lock \in [Tokens -> Requests \cup {None}]
  /\ \A r \in Requests : ~At(r, "idle") => token[r] \in issued

\* Whatever other requests, expiries and failing commands come between the two reads of a
\* verification: it refuses a token whose revocation was over when it began, and one that
\* was on the blacklist then as long as the entry lasts; after that it may accept it again,
\* but only if the token was made to live longer than an entry is kept
\* (jwt-service.ts:150-188, 220-229, 548, token-blacklist.ts:119).
BlacklistedReturnsByAge ==
  /\ TypeOK
  /\ \A r \in Requests : At(r, "accepted") =>
       /\ ~gone[r]
       /\ until[r] # 0 => until[r] <= now /\ ListTime < life[token[r]]
=============================================================================
