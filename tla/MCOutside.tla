------------------------------ MODULE MCOutside ------------------------------
(***************************************************************************)
(* What stands outside a request, side by side as in MCParts: who may call *)
(* a tool over time, the release and its evidence, the labs, and the parts *)
(* of the historical v1 server and its SDK that keep state of their own.   *)
(***************************************************************************)
EXTENDS FiniteSets, Integers, TLC

VARIABLE part
\* The lock.
VARIABLES stored, ttl, turn, acquired, command, reply, attempts
\* The token service.
VARIABLES epoch, issued, born, life, active, family, blacklist, refreshing, step, token, gone,
          until
\* The rate limiter.
VARIABLES now, sent, purpose, scores, expiry, admitted
\* The WebSocket manager.
VARIABLES socket, connections, connectionCount, initialized, inactive, request, twice,
          crowded
\* The container executor.
VARIABLES pc, enabled, critical, next, present, context, listed, stuck, entry, process,
          runtime, network, timer, outcome
\* The release.
VARIABLES registry, moves, alpha, candidate, actor, holder, job, failed, attempt, reviews,
          tags, receipt
\* The AI tools.
VARIABLES clock, executions, prompts, started, running, completed, passed
\* The worker process.
VARIABLES begun, stores, http, open, leaving, stop, tardy, status, unclosed
\* The SDK.
VARIABLES link, promise, current, connected, call, timers, messageQueue, server
\* The replay guard.
VARIABLES instant, requestCache, accepted
\* The sessions.
VARIABLES login, live, members, auth, operation, deleted, stale, revived, lost
\* The access tokens.
VARIABLES moment, published, retired, signing, minted, keySet, fetch, stage, shown, principal,
          visible
\* The candidate's journal.
VARIABLES kind, toWrite, journal, faults, outcomes, pseudonym, unfinished, assessed, verdict
\* The error replies.
VARIABLES env, error, answer, replies, cut, violation
\* The security gate.
VARIABLES shared, results, broken, exit
\* The bulk insertion.
VARIABLES strategy, batch, item, tries, written, aborted, table, updated, errors, result
\* The labs.
VARIABLES lab, section, at, made, recorded, half, unreleased, dead, skipped, code, mishaps
\* Vault.
VARIABLES hour, mounted, key, expires, client, every, due, refused, missed, keyless

\* Clients and Requests are two sets of interchangeable names, of clients and of
\* requests or whatever else a part has two of.
CONSTANTS Clients, Requests, None,
          Ttl, PerSecond, NewTtls, MaxRetries, Tokens, Lives, ListTime,
          Window, MaxRequests, Delay, MaxTime, Salts,
          s1, s2, s3, MaxConnections,
          People, Reviewers, MaxAttempts, MaxMoves, Other,
          MaxCalls, ToolWindow, Prompts, Suspect, Second, Memory, MaxRapid, MaxSimilar,
          Signals, Messages, Malformed, CacheTtl, MaxCacheSize, MaxAccepted, Authenticated,
          Keys, FirstKey, Alien, CacheMaxAge, MaxTokenAge, Moments, MaxOpen, MaxFaults,
          Environments, Strategies, MaxMishaps, Life, Cap

Sockets == {s1, s2, s3}
Users == (s1 :> "ann") @@ (s2 :> "ann") @@ (s3 :> "bob")
Limits == [level \in {"low", "critical"} |-> IF level = "low" THEN 2 ELSE 1]
\* An access token that is good, one of a life beyond the longest, one from a clock that
\* is ahead, and an ID token.
Grant(access, ahead, lifetime) ==
  [access |-> access, scopes |-> {"read"}, ahead |-> ahead, lifetime |-> lifetime]
Given == {Grant(TRUE, 0, MaxTokenAge), Grant(TRUE, 0, MaxTokenAge + 1),
          Grant(TRUE, 1, MaxTokenAge), Grant(FALSE, 0, MaxTokenAge)}
Report(c, h, m) == [critical |-> c, high |-> h, medium |-> m]
Reported == {Report(0, 0, 0), Report(0, 0, 1), Report(0, 0, 3), Report(0, 1, 0),
             Report(1, 0, 0)}
Defaults == [critical |-> 0, high |-> 0, security |-> 0, ai |-> 0, performance |-> 0]
Rows == <<<<"a", "b">>, <<"c", "d">>>>

Lock == INSTANCE DistributedLock
Service == INSTANCE TokenService
  WITH now <- epoch, lock <- refreshing, MaxTime <- ListTime + 1
Limiter == INSTANCE RateLimiter
Manager == INSTANCE WebSocketManager WITH UserOf <- Users
Executor == INSTANCE ContainerExecutor WITH active <- listed, made <- present
Release == INSTANCE NpmRelease WITH Runs <- Requests, enabled <- candidate
Ai == INSTANCE AiToolExecutor WITH Limit <- Limits, Window <- ToolWindow
Worker == INSTANCE ServerProcess WITH connections <- open, late <- tardy
Sdk == INSTANCE ClientSdk WITH Sockets <- Clients, socket <- current
Guard == INSTANCE ReplayGuard WITH clock <- instant
Session == INSTANCE Sessions
  WITH Ids <- Clients, Operations <- Requests, Requests <- Authenticated
Access == INSTANCE AccessTokens
  WITH Scopes <- {"read"}, LocalScopes <- {"read"}, Tools <- {"document"},
       RequiredScopes <- [document |-> {"read"}], Cooldown <- 1, FetchTime <- 1,
       Grants <- Given, MaxTime <- Moments,
       now <- moment, cache <- keySet, phase <- stage, token <- shown
Journal == INSTANCE CandidateJournal
  WITH Actors <- Clients, actor <- pseudonym, active <- unfinished, completed <- assessed
Replies == INSTANCE ErrorReplies WITH reply <- answer
Gate == INSTANCE SecurityGate WITH Reports <- Reported, Asked <- Defaults
Bulk == INSTANCE BulkInsert WITH Data <- Rows, attempt <- tries
Labs == INSTANCE Harness
Vault == INSTANCE VaultService
  WITH Workers <- Clients, now <- hour, pc <- client

ASSUME OutsideAssumption ==
  /\ Lives \cup {Ttl, PerSecond, MaxRetries, Window, MaxRequests, MaxConnections, CacheMaxAge}
       \subseteq Nat \ {0}
  /\ NewTtls \cup {ListTime, MaxAttempts, MaxTokenAge, Life, Cap, MaxTime, MaxRapid, MaxSimilar,
       Delay} \subseteq Nat
  /\ {ToolWindow, MaxCacheSize} \subseteq Nat \ {0} /\ {Second, Memory, CacheTtl} \subseteq Nat
  /\ FirstKey \in Keys
  /\ Reviewers \subseteq People /\ Suspect \subseteq Prompts /\ Malformed \subseteq Messages

ASSUME RequestsAssumption == IsFiniteSet(Requests) /\ MaxOpen \in Nat

\* None and Other are names of nothing that a part keeps a value of.
ASSUME NamesAssumption ==
  /\ None \notin Clients \X BOOLEAN /\ None \notin Lock!Commands
  /\ None \notin Nat \cup Keys /\ None # Gate!FailedRun /\ None # Other
  /\ {None, Other} \cap (Requests \X Nat) = {}
  /\ None \notin [status : Nat, text : {"none", "own", "generic"}, retryable : BOOLEAN,
                  stack : BOOLEAN, of : {None} \cup Replies!Errors]

lockVars == <<stored, ttl, turn, acquired, command, reply, attempts>>
tokenVars == <<epoch, issued, born, life, active, family, blacklist, refreshing, step, token,
               gone, until>>
limitVars == <<now, sent, purpose, scores, expiry, admitted>>
managerVars == <<socket, connections, connectionCount, initialized, inactive, request, twice,
                 crowded>>
runVars == <<pc, enabled, critical, next, present, context, listed, stuck, entry, process,
             runtime, network, timer, outcome>>
releaseVars == <<registry, moves, alpha, candidate, actor, holder, job, failed, attempt,
                 reviews, tags, receipt>>
toolVars == <<clock, executions, prompts, started, running, completed, passed>>
processVars == <<begun, stores, http, open, leaving, stop, tardy, status, unclosed>>
clientVars == <<link, promise, current, connected, call, timers, messageQueue, server>>
guardVars == <<instant, requestCache, accepted>>
sessionVars == <<login, live, members, auth, operation, deleted, stale, revived, lost>>
accessVars == <<moment, published, retired, signing, minted, keySet, fetch, stage, shown,
                principal, visible>>
journalVars == <<kind, toWrite, journal, faults, outcomes, pseudonym, unfinished, assessed,
                 verdict>>
replyVars == <<env, error, answer, replies, cut, violation>>
gateVars == <<shared, results, broken, exit>>
bulkVars == <<strategy, batch, item, tries, written, aborted, table, updated, errors, result>>
labVars == <<lab, section, at, made, recorded, half, unreleased, dead, skipped, code, mishaps>>
vaultVars == <<hour, mounted, key, expires, client, every, due, refused, missed, keyless>>
redis == <<lockVars, tokenVars, limitVars, sessionVars>>
work == <<managerVars, runVars, toolVars, guardVars, replyVars, bulkVars>>
hosts == <<releaseVars, processVars, clientVars, accessVars, vaultVars>>
tooling == <<journalVars, gateVars, labVars>>
all == <<part, redis, work, hosts, tooling>>

Symmetric == Permutations(Requests)

\* A part that stays still needs only one of its initial states.
Still(p, state) == part = p \/ state
Init ==
  /\ part \in {"lock", "tokens", "limiter", "sockets", "containers", "release", "tools",
               "worker", "sdk", "guard", "sessions", "access", "journal", "replies", "gate",
               "bulk", "labs", "vault"}
  /\ Lock!Init /\ Service!Init /\ Limiter!Init /\ Manager!Init
  /\ Still("containers", enabled = {} /\ critical = FALSE) /\ Executor!Init
  /\ Release!Init /\ Ai!Init /\ Worker!Init /\ Sdk!Init /\ Guard!Init /\ Session!Init
  /\ Access!Init
  /\ Still("journal", kind = [r \in Requests |-> "other"]) /\ Journal!Init
  /\ Still("replies", env = "production") /\ Replies!Init
  /\ Still("gate", shared = None) /\ Gate!Init
  /\ Still("bulk", strategy = "ignore") /\ Bulk!Init
  /\ Still("labs", lab = "hosts") /\ Labs!Init
  /\ Still("vault", key = TRUE) /\ Vault!Init

LockStep ==
  /\ part = "lock" /\ Lock!Next
  /\ UNCHANGED <<part, tokenVars, limitVars, sessionVars, work, hosts, tooling>>
TokenStep ==
  /\ part = "tokens" /\ Service!Next
  /\ UNCHANGED <<part, lockVars, limitVars, sessionVars, work, hosts, tooling>>
LimiterStep ==
  /\ part = "limiter" /\ Limiter!Next
  /\ UNCHANGED <<part, lockVars, tokenVars, sessionVars, work, hosts, tooling>>
SessionStep ==
  /\ part = "sessions" /\ Session!Next
  /\ UNCHANGED <<part, lockVars, tokenVars, limitVars, work, hosts, tooling>>
SocketStep ==
  /\ part = "sockets" /\ Manager!Next
  /\ UNCHANGED <<part, runVars, toolVars, guardVars, replyVars, bulkVars, redis, hosts,
                 tooling>>
ContainerStep ==
  /\ part = "containers" /\ Executor!Next
  /\ UNCHANGED <<part, managerVars, toolVars, guardVars, replyVars, bulkVars, redis, hosts,
                 tooling>>
ToolStep ==
  /\ part = "tools" /\ Ai!Next
  /\ UNCHANGED <<part, managerVars, runVars, guardVars, replyVars, bulkVars, redis, hosts,
                 tooling>>
GuardStep ==
  /\ part = "guard" /\ Guard!Next
  /\ UNCHANGED <<part, managerVars, runVars, toolVars, replyVars, bulkVars, redis, hosts,
                 tooling>>
ReplyStep ==
  /\ part = "replies" /\ Replies!Next
  /\ UNCHANGED <<part, managerVars, runVars, toolVars, guardVars, bulkVars, redis, hosts,
                 tooling>>
BulkStep ==
  /\ part = "bulk" /\ Bulk!Next
  /\ UNCHANGED <<part, managerVars, runVars, toolVars, guardVars, replyVars, redis, hosts,
                 tooling>>
ReleaseStep ==
  /\ part = "release" /\ Release!Next
  /\ UNCHANGED <<part, processVars, clientVars, accessVars, vaultVars, redis, work, tooling>>
WorkerStep ==
  /\ part = "worker" /\ Worker!Next
  /\ UNCHANGED <<part, releaseVars, clientVars, accessVars, vaultVars, redis, work, tooling>>
SdkStep ==
  /\ part = "sdk" /\ Sdk!Next
  /\ UNCHANGED <<part, releaseVars, processVars, accessVars, vaultVars, redis, work, tooling>>
AccessStep ==
  /\ part = "access" /\ Access!Next
  /\ UNCHANGED <<part, releaseVars, processVars, clientVars, vaultVars, redis, work, tooling>>
VaultStep ==
  /\ part = "vault" /\ Vault!Next
  /\ UNCHANGED <<part, releaseVars, processVars, clientVars, accessVars, redis, work,
                 tooling>>
JournalStep ==
  /\ part = "journal" /\ Journal!Next
  /\ UNCHANGED <<part, gateVars, labVars, redis, work, hosts>>
GateStep ==
  /\ part = "gate" /\ Gate!Next
  /\ UNCHANGED <<part, journalVars, labVars, redis, work, hosts>>
LabStep ==
  /\ part = "labs" /\ Labs!Next
  /\ UNCHANGED <<part, journalVars, gateVars, redis, work, hosts>>

Next ==
  \/ LockStep \/ TokenStep \/ LimiterStep \/ SocketStep \/ ContainerStep \/ ReleaseStep
  \/ ToolStep \/ WorkerStep \/ SdkStep \/ GuardStep \/ SessionStep \/ AccessStep
  \/ JournalStep \/ ReplyStep \/ GateStep \/ BulkStep \/ LabStep \/ VaultStep

Spec == Init /\ [][Next]_all
-----------------------------------------------------------------------------
\* Only its holder's command, its time or force ends a hold of the lock
\* (distributed-lock.ts:113-126).
OnlyTheHolderUnlocks == Lock!OnlyTheHolderUnlocks

\* A token is judged by keys that are or were lately the issuer's, and a tool runs only
\* while the token is alive and has its scopes (identity.ts:8-37, policy.ts:16-24).
TokensAreHonoured == Access!TokensAreHonoured

\* A token that was revoked is refused for good and one on the blacklist as long as its
\* entry lasts, and a deleted session returns only by a write that was on its way
\* (jwt-service.ts:220-229, 548, auth/middleware.ts:387-460).
NoOtherReturn == Service!BlacklistedReturnsByAge /\ Session!DeletedReturnsByOldWrite

\* No window has more moments whose requests were let through than the limit, however
\* late commands reach Redis, and a tool's limit is exceeded by calls that overlap and by
\* no others (token-rate-limiter.ts:93-125, ai-tool-executor.ts:325-390).
LimitsHold == Limiter!WindowIsBounded /\ Ai!PacedByUse

\* What the comments beside the limits of the AI tools say: so many calls per minute
\* (ai-tool-executor.ts:100-103).
LimitIsPerMinute == Ai!LimitIsPerMinute

\* A message comes through twice only behind more than half a cache of others
\* (mcp-security.ts:384-425).
ReplayNeedsPressure == Guard!ReplayNeedsPressure

\* The count of connections is wrong by the places counted out twice and by no others,
\* a request over the socket of the SDK has a handler exactly while its timer runs, and
\* Vault's token is renewed before it ends by workers that were told when they found no
\* key (websocket-manager.ts:133, 153, 575-590, 763-773, 812-819,
\* client-sdk/src/index.ts:174-209, vault.ts:461-577).
PlacesAndTimersHold ==
  Manager!PlacesAreCounted /\ Sdk!PendingIsTimed /\ Vault!VaultIsUsable

\* An execution that settled leaves what its clean-up asks for under another name than
\* its own, and nothing else it knows of; a lab leaves only what could not be removed
\* (container-executor.ts:758-807, 911-976, labs/keycloak/verify.mjs:740-752).
OnlyTheseStay == Executor!SettledIsCleanedUp /\ Labs!LabsCleanUp

\* What the workflow published was approved by another GitHub account than the one that
\* started it (publish-npm.mjs:26-62).
PublishedAsApproved == Release!PublishedAsApproved

\* A journal is accepted only when it holds what the server writes of each request, and
\* the gate opens only when its suites ran and were clean enough
\* (assess-candidate.mjs:87-144, security-gate-validation.js:113-152).
EvidenceIsExact == Journal!AssessmentIsExact /\ Gate!GateMeansClean

\* Status 0 is given only by a worker without connections that has told its stores to close,
\* whether they did or not (utils/shutdown.ts:9-43, connection.ts:138-147), and a
\* bulk insertion reports no errors only when every row is stored
\* (connection.ts:269-312, 352-435).
SuccessIsTrue == Worker!ZeroMeansDrained /\ Bulk!CountsAreHonest

\* A request is answered once, and the reply does not tell what happened inside
\* (error-handler.ts:125-240, 336-431, 521-531).
RepliesHideInternals == Replies!RepliesHideInternals
=============================================================================
