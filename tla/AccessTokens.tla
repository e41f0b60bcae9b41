---------------------------- MODULE AccessTokens ----------------------------
(***************************************************************************)
(* Who may call a tool, over time: the issuer's keys come and go, the      *)
(* verifier keeps a cached key set that all requests share, tokens expire, *)
(* and a request is judged three times, when its token is verified, when   *)
(* its server lists the tools, and when the tool is called.                *)
(*                                                                         *)
(* The key set is createRemoteJWKSet() of jose, as identity.ts configures  *)
(* it: it is fetched again when it is older than CacheMaxAge, and for a    *)
(* key it lacks unless Cooldown has not passed; requests share one fetch.  *)
(***************************************************************************)
EXTENDS Integers, FiniteSets

CONSTANTS
  Keys, FirstKey,     \* the issuer's signing keys, and the one it begins with
  Tokens, Alien,      \* the issuer's tokens, and one that somebody else signed
  Scopes,             \* scopes
  Tools,              \* tools allowedTools and readOnly let through
  RequiredScopes,     \* [Tools -> SUBSET Scopes], requiredScopes
  LocalScopes,        \* localScopes of the configuration
  Requests,
  CacheMaxAge, Cooldown, FetchTime, MaxTokenAge,
  Grants,             \* what the issuer gives: [access, scopes, ahead, lifetime], where
                      \* ahead is how far its clock is ahead of the server's
  None,
  MaxTime             \* bound of the clock

VARIABLES
  now,                      \* Date.now() / 1000
  published, retired,       \* the time each key was published and withdrawn, or None
  signing,                  \* the key the issuer signs with
  minted,                   \* the claims of each token, or None
  cache, fetch,             \* jose: the key set and its time; the fetch under way
  phase, token, principal,  \* each request: where it stands, its token, its identity
  visible                   \* and the tools its server registered

issuerVars == <<published, retired, signing, minted>>
verifierVars == <<cache, fetch>>
requestVars == <<phase, token, principal, visible>>
accessVars == <<now, issuerVars, verifierVars, requestVars>>

Init ==
  /\ now = 0
  /\ published = [k \in Keys |-> IF k = FirstKey THEN 0 ELSE None]
  /\ retired = [k \in Keys |-> None]
  /\ signing = FirstKey
  /\ minted = [t \in Tokens |-> None]
  /\ cache = None /\ fetch = None
  /\ phase = [r \in Requests |-> "idle"]
  /\ token = [r \in Requests |-> None]
  /\ principal = [r \in Requests |-> None]
  /\ visible = [r \in Requests |-> {}]

KeySet == {k \in Keys : published[k] # None /\ retired[k] = None}
-----------------------------------------------------------------------------
\* The issuer.
Publish(k) ==
  /\ published[k] = None
  /\ published' = [published EXCEPT ![k] = now]
  /\ UNCHANGED <<now, retired, signing, minted, verifierVars, requestVars>>

SignWith(k) ==
  /\ k \in KeySet \ {signing}
  /\ signing' = k
  /\ UNCHANGED <<now, published, retired, minted, verifierVars, requestVars>>

Retire(k) ==
  /\ k \in KeySet \ {signing}
  /\ retired' = [retired EXCEPT ![k] = now]
  /\ UNCHANGED <<now, published, signing, minted, verifierVars, requestVars>>

\* An access token, or an ID token, which has another type.
Mint(t, g) ==
  /\ minted[t] = None
  /\ minted' = [minted EXCEPT ![t] =
       [key |-> signing, access |-> g.access, scopes |-> g.scopes, iat |-> now + g.ahead,
        exp |-> now + g.ahead + g.lifetime]]
  /\ UNCHANGED <<now, published, retired, signing, verifierVars, requestVars>>
-----------------------------------------------------------------------------
\* Age of the cached key set; a cold one is older than any.
Younger(age) == cache # None /\ now < cache.time + age

\* What jwtVerify() demands of the claims, and the verifier after it.
ClaimsHold(t) ==
  LET c == minted[t]
  IN  /\ c.access
      /\ now < c.exp /\ c.iat <= now
      /\ now - c.iat <= MaxTokenAge /\ c.exp - c.iat <= MaxTokenAge

Identity(t) == [scopes |-> minted[t].scopes, expiresAt |-> minted[t].exp]

\* The tokens a client may present.
Held == {t \in Tokens : minted[t] # None} \cup {Alien}
KeyOf(t) == IF t = Alien THEN None ELSE minted[t].key

\* What becomes of a request with token t once the key set that counts is keys.
Judged(t, keys) ==
  IF KeyOf(t) \notin keys THEN "unknown"
  ELSE IF ClaimsHold(t) THEN "admitted" ELSE "invalid"

\* The verifier is called with a token: the cached keys answer, or a fetch must.
Verify(r, t) ==
  LET known == cache # None /\ KeyOf(t) \in cache.keys
  IN  /\ phase[r] = "idle"
      /\ token' = [token EXCEPT ![r] = t]
      /\ IF Younger(CacheMaxAge) /\ (known \/ Younger(Cooldown))
         THEN /\ phase' = [phase EXCEPT ![r] = Judged(t, cache.keys)]
              /\ principal' = [principal EXCEPT ![r] =
                   IF phase'[r] = "admitted" THEN Identity(t) ELSE None]
              /\ UNCHANGED fetch
         ELSE /\ phase' = [phase EXCEPT ![r] = "waiting"]
              /\ fetch' = IF fetch = None THEN [asked |-> now, answer |-> None] ELSE fetch
              /\ UNCHANGED principal
  /\ UNCHANGED <<now, issuerVars, cache, visible>>

\* The issuer's answer is on its way.
Answer ==
  /\ fetch # None /\ fetch.answer = None
  /\ fetch' = [fetch EXCEPT !.answer = KeySet]
  /\ UNCHANGED <<now, issuerVars, cache, requestVars>>

Waiting == {r \in Requests : phase[r] = "waiting"}

\* The answer arrives, and every request that waited is judged with it.
Deliver ==
  /\ fetch # None /\ fetch.answer # None
  /\ cache' = [keys |-> fetch.answer, time |-> now] /\ fetch' = None
  /\ phase' = [r \in Requests |->
       IF r \in Waiting THEN Judged(token[r], fetch.answer) ELSE phase[r]]
  /\ principal' = [r \in Requests |->
       IF r \in Waiting /\ phase'[r] = "admitted" THEN Identity(token[r]) ELSE principal[r]]
  /\ UNCHANGED <<now, issuerVars, token, visible>>

\* The fetch fails, because the issuer is down, its answer is refused or its time is
\* up: so do all that waited, and the cache stays.
FetchFails ==
  /\ fetch # None
  /\ fetch' = None
  /\ phase' = [r \in Requests |-> IF r \in Waiting THEN "unverified" ELSE phase[r]]
  /\ UNCHANGED <<now, issuerVars, cache, token, principal, visible>>
-----------------------------------------------------------------------------
\* Over stdio the identity is the process's own and never expires.
ServeLocal(r) ==
  /\ phase[r] = "idle"
  /\ phase' = [phase EXCEPT ![r] = "admitted"]
  /\ principal' = [principal EXCEPT ![r] = [scopes |-> LocalScopes, expiresAt |-> None]]
  /\ UNCHANGED <<now, issuerVars, verifierVars, token, visible>>

MayInvoke(p, tool) ==
  /\ p.expiresAt = None \/ p.expiresAt > now
  /\ RequiredScopes[tool] # {} /\ RequiredScopes[tool] \subseteq p.scopes

\* createServer() registers the visible tools for the identity it captured.
CreateServer(r) ==
  /\ phase[r] = "admitted"
  /\ phase' = [phase EXCEPT ![r] = "served"]
  /\ visible' = [visible EXCEPT ![r] = {tool \in Tools : MayInvoke(principal[r], tool)}]
  /\ UNCHANGED <<now, issuerVars, verifierVars, token, principal>>

\* Mutant: a tool that was listed is run.
InvokeAsListed(r, tool) ==
  /\ phase[r] = "served"
  /\ phase' = [phase EXCEPT ![r] = IF tool \in visible[r] THEN "ran" ELSE "denied"]
  /\ visible' = [visible EXCEPT ![r] = IF phase'[r] = "ran" THEN {tool} ELSE {}]
  /\ UNCHANGED <<now, issuerVars, verifierVars, token, principal>>

\* A call of a tool; one that is not registered is unknown to the SDK.  With the
\* reply the request is over, and its server with it.
Invoke(r, tool) ==
  /\ phase[r] = "served"
  /\ phase' = [phase EXCEPT ![r] =
       IF tool \in visible[r] /\ MayInvoke(principal[r], tool) THEN "ran" ELSE "denied"]
  /\ visible' = [visible EXCEPT ![r] = IF phase'[r] = "ran" THEN {tool} ELSE {}]
  /\ UNCHANGED <<now, issuerVars, verifierVars, token, principal>>

\* AbortSignal.timeout() ends a fetch in time.
Tick ==
  /\ now < MaxTime /\ (fetch # None => now < fetch.asked + FetchTime)
  /\ now' = now + 1
  /\ UNCHANGED <<issuerVars, verifierVars, requestVars>>

Next ==
  \/ \E k \in Keys : Publish(k) \/ SignWith(k) \/ Retire(k)
  \/ Answer \/ Deliver \/ FetchFails \/ Tick
  \/ \E t \in Tokens, g \in Grants : Mint(t, g)
  \/ \E r \in Requests :
       \/ ServeLocal(r) \/ CreateServer(r)
       \/ \E t \in Held : Verify(r, t)
       \/ \E tool \in Tools : Invoke(r, tool)

Spec == Init /\ [][Next]_accessVars
-----------------------------------------------------------------------------
\* Where a request came from and where it goes to in a step.
Moves(r, to) == phase[r] # to /\ phase'[r] = to

\* A token is accepted only under a key the issuer published, and withdrew, if it did,
\* less than the life of the cache and of one fetch ago (identity.ts:8-12).
OnlyUnderItsKeys ==
  \A r \in Requests : Moves(r, "admitted") /\ token'[r] # None =>
    LET k == minted[token'[r]].key
    IN  retired[k] # None => now < retired[k] + CacheMaxAge + FetchTime

\* A token is turned away for its key only if the key was withdrawn, or published
\* less than the cooldown and one fetch ago (identity.ts:10, OPERATIONS.md:20).
NewKeysAreFound ==
  \A r \in Requests : Moves(r, "unknown") /\ token'[r] # Alien =>
    LET k == minted[token'[r]].key
    IN  retired[k] # None \/ now < published[k] + Cooldown + FetchTime

\* A tool runs only for a token that is alive at that moment, was not issued for longer
\* than the maximum, and has every scope the tool needs (identity.ts:14-37,
\* policy.ts:16-24, runtime.ts:196).
RunsOnlyWhileGood ==
  \A r \in Requests : Moves(r, "ran") /\ token[r] # None =>
    LET c == minted[token[r]]
    IN  /\ now < c.exp /\ now - c.iat <= MaxTokenAge /\ c.exp - c.iat <= MaxTokenAge
        /\ c.access /\ \A tool \in visible'[r] : RequiredScopes[tool] \subseteq c.scopes

\* The three together, whatever the issuer, the clock and other requests do.
TokensAreHonoured ==
  [][OnlyUnderItsKeys /\ NewKeysAreFound /\ RunsOnlyWhileGood]_accessVars
=============================================================================
