# SecureMCP in TLA+

This directory holds TLA+ models of SecureMCP, the TLC runs that check them, and
proofs checked by TLAPS.  SecureMCP is a single Node process that lets an MCP
client call a few operator-approved tools.  Its promise is about order and
bounds: no tool runs before a durable record of its admission, no answer leaves
before a record of its outcome, every wait ends, and every loss of audit takes
the server out of service.  The runtime (`src/src`) comes first; around it stand
the release workflow, the labs, and the historical v1 server (`src/legacy/v1`),
which is kept for migration and is another program: a cluster of workers that
share Redis and Vault.

All paths below are relative to the repository.  An action is one JavaScript
turn, the code between two `await`s: turns are atomic, and every interleaving of
turns, timers, callers, sinks and crashes is explored.

## The system

| Component | State | Operations | Interacts with |
|---|---|---|---|
| Execution controller, `execution.ts` | `active`, `closing`, one signal, timer and race per call | `run`, `close`/`drain` | called by the runtime; aborts the tool through its signal |
| Audit dispatcher, `audit.ts:51-143` | `pending`, `failures`, `dropped`, scopes, the close hook | `write`/`deliver`, `scope().settle`, `close` | called by everything that records; calls the sink |
| Audited server, `audit.ts:145-213` | a per-request store with `toolOutcomeRecorded` | wrapped `send` and `onmessage` | between the SDK and the transport |
| Secure runtime, `runtime.ts` | registry, counts, disposers, `closing` | `create`, `createServer`, `invoke`, `close` | composes the three above with policy, limits and tools |
| Socket sink, `collector.ts` | `pending`, `sent`, `failed`, `closed`, the socket | the sink function, socket events, `close` | the dispatcher's sink; a Unix stream to the collector |
| Reference collector, `examples/audit-collector.mjs` | queue, `pending`, `flushing`, `healthy`, the journal | receive, flush loop, stop | one connection per client; append, fsync, one byte back per record |
| HTTP server, `http.ts` | `closing`, `authenticating`, `requests`, `terminals` | request handler, `close` | verifier, dispatcher scopes, runtime |
| Identity and policy, `identity.ts`, `policy.ts` | the key set that `jose` caches for all requests | verify a bearer token, `mayInvoke` | HTTP server, runtime; the issuer rotates its keys |
| Input limits, `input.ts` | none | `withinInputElementLimit` | runtime |
| Tools, `tools.ts` | a directory handle | `documents_read`, `api_read` | file system, one fixed URL |
| Start, `config.ts`, `startup-diagnostics.ts`, `cli.ts` | the workspace handle while it fails or succeeds | parse, diagnose, `create()` | command line or an embedding program |
| Lifecycle, `cli.ts` | `stopped`, a forced-exit timer, the exit code | start, `stop` | runtime, HTTP server, stdio transport |
| Release, `scripts/`, `.github/workflows/publish.yml` | tags, approvals, the registry | preflight, publish, verify | people, npm, reruns of the workflow |
| Evidence, `docs/validation/`, `labs/`, `scripts/` | a journal; containers, directories, processes | assess; set up, check, clean up | Docker, the server under test |
| Version check, exports | none | pure functions | |
| v1: tokens, lock, sessions, rate limit | keys in Redis that expire | issue, verify, refresh, revoke; lock; sign in and out; count | Redis commands that fail or come late |
| v1: worker, WebSockets, SDK, replay cache, error replies | connections, timers, caches | start, signals; connect, request | clients, the cluster's primary |
| v1: containers, AI tools, Vault, bulk writes, security gate | processes, networks, histories, a token's life | execute, renew, insert, judge | Docker, Vault, the database |

What is hard here is the races: a deadline, the caller's cancellation and
shutdown against a tool's result; a blocked sink against its writer's timer; a
drain against work that starts while it waits; a record against the abort of the
operation that writes it; an acknowledgement against a disconnect; a crash
between append and sync.  Outside of it they are of another kind: state that
several processes share and change by single commands, some of which fail, and
work of many steps that has to undo what it did when a later one fails.
`PROJECT.json` lists these hazards at their lines, with
the properties that cover each.

## Modules

```
SlotPool     <== Execution --------.
                  (ExecutionProofs) \
                                     SecureRuntime  (RuntimeProofs)
AuditLog     <== AuditDispatcher ---/
                  (AuditProofs)
BoundedLog   <== AuditDispatcher    \  used by
CallWrites   <== SecureRuntime      /  HttpServer  (HttpProofs)
DurableSink  <== AuditCollector = SocketSink + JournalCollector
                  (CollectorProofs)
MCParts    = Execution | AuditDispatcher | Lifecycle | InputWalk | ReadTools | Startup
                  (PartsProofs)
MCOutside  = eighteen parts around the runtime and of v1
                  (OutsideProofs, LegacyProofs)
```

`A <== B` reads "B implements A": B has an `INSTANCE` of A with a refinement
mapping and checks A's specification as a property.  `SecureRuntime` is built
from the *actions* of `Execution` and from the *abstract* `AuditLog`, so that the
dispatcher's timers do not multiply its states; `AuditDispatcher` is shown to
implement that log.  `HttpServer` is built in the same way from the actions of
two more abstractions, one of the dispatcher and one of the runtime.
`DurableSink` is in turn what the socket sink and the collector promise the
dispatcher.  `|` puts parts side by side that share no state.  Each refinement is
checked by a run and proved in the module below it.

**Execution** models `ExecutionController`.  `Refuse` and `Admit` are the code of
`run()` up to its first `await`; `Start`, `Skip` and `Finish` are the operation's
promise; `Abort` is the abort of signals, which settles the caller's race but not
the operation; `Close`, `DrainSettled` and `GraceExpires` are `drain()`.
`active` is `this.active`, `returned` what `run()` settled with.

**SlotPool** is its abstraction: operations hold slots, at most `MaxConcurrent`,
and none is handed out once the pool is shut.

**AuditDispatcher** models `deliver()` as the race of the sink's promise (`sink`)
and a timer, with the writer's own turn after it (`Confirm`, `Fail`); `Drop` is
the refusal.  `Settle` and `SettleResumes` are the loop of `scope().settle()`;
`BeginClose`, `DrainSettles`, `DrainExpires`, `HookResolves`, `HookFails` and
`CloseReturns` are `close()` and `closeSink()`.

**AuditLog** is its abstraction: a record is acknowledged only when stored, and
from the first loss on nothing is accepted and health is not regained.

**SecureRuntime** models a `tools/call` request from the SDK to the transport.
*The operation* (`Start` ... `RecordLost`) is the callback handed to
`execution.run()`: parse, write `allowed`, invoke, check the size, write the
result, with an abort check after each wait.  *invoke()* (`Deny`, `Run`,
`Return`, `Report`, `Reported`, `ReportLost`) goes on when `run()` settles, even
if the operation does not.  *The response gate* (`Forward`, `Observe`,
`Observed`) is the wrapped `send()`.  *close()* drains, disposes, and closes the
audit.  A record is a pair of a call and an outcome.  Policy, element and size
checks are one arbitrary refusal, `Deny`; a tool returns, reports an error,
throws one of `ToolFailures`, or never settles.  That a request the SDK rejects
by itself never reaches `invoke()` (`SdkAnswers`), and that it sends nothing to
a caller who cancelled (`Withdraw`), is the SDK's part and external.

**BoundedLog** abstracts the dispatcher as those see it who share its slots: a
record occupies one until the sink has settled, and one that finds none is
refused, which takes readiness off.  **CallWrites** abstracts a tool call in the
runtime to what the server in front of it must know: the operation has one record
pending at a time and writes none once `invoke()` has an outcome; `invoke()` and
the gate together have one pending.

**HttpServer** models `serveHttp()`.  `Authenticate`, `NotAdmitted` and `Admit`
are the listener before and after `verify()`; `Received` ... `AdapterReturns` the
delivery inside the audit scope, whose `fetch` callback writes the response record
(`Prepare`); `CloseResponse` and `RequestTimeout` the response's `close` event and
its timer; `RecordTerminal` and `Release` the promise kept in `terminals`; `Close`
... `AuditCloses` the handle's `close()`.  The response is prepared, and an SSE
stream opened, before, during or after the tool call (`CallTool` ... `Forward`),
whose records go to the same log.  Two things about the SDK's adapter are external
assumptions: it awaits the `fetch` callback, and it does not return while a call
it has cancelled has no outcome.

**SocketSink** models `socketAuditSink()`: `Send` and `Refuse` are the sink
function, `Connected`, `Drain`, `Data`, `Disconnected`, `Destroyed` and `Refused`
the socket's events, `Expire` a record's timer.  `Flush` writes until `write()`
asks for a pause, which it may do at any record.

**JournalCollector** models the collector.  `Gather`, `Write` and `Sync` are one
round of its flush loop; `WriteFails`, `SyncFails` and a full journal end in
`Break`, its `catch`.  `Kill` and `PowerLoss` stop it anywhere; an interrupted
write leaves any prefix of the batch, with or without a partial record (`Torn`),
and a power loss keeps at least what was synced.

**AuditCollector** puts the two at the ends of one stream (`link`, `wire`,
`acks`).  `Foreign` are the records other clients send on connections of their
own.

**DurableSink** is their abstraction: acknowledged records are durable, with
every record accepted before them; after a loss nothing is accepted.

### Around the calls

**AccessTokens** models who may call what, over time.  `Publish`, `SignWith`,
`Retire` and `Mint` are the issuer; `Verify` ... `ServeLocal` are the token verifier over
`jose`'s cached key set, one fetch of which all requests share; `CreateServer` and
`Invoke` apply `mayInvoke()` when the tools are listed and when one is called.
The signature is an oracle that knows the key.

**InputWalk** models `withinInputElementLimit()` one entry at a time, over every
graph of containers, shared and cyclic ones included: `Take` is the `pop()` with the
two checks after it, `Meet` one turn of either inner loop, `Leave` the end of one.
Its reference is the set of paths through the value (`Unfolded`): an entry of the
unfolded value is the path to it, so that nothing has to be unfolded by recursion.

**ReadTools** models one call of either built-in tool: path components opened one
by one (`OpenPart`), the bounded reads, `finally`; the call may be aborted and the
file change between any two steps.

**Startup** models the way from the configuration to a runtime: `Issues` is what
the schema says, `Diagnostic` what the user is told, `OpenDocuments`, `Register`
and `Compare` the steps of `create()`, `Close` its `catch`.

**Lifecycle** models the process: start on both transports, `Stop`, the stages of
the orderly close with their budgets on a clock, the forced exit beside them, and
the exit code.

**NpmRelease** models the jobs of the publication workflow, each of which stops at
its first failing check, over reruns, rival releases, moved tags and reviews.
**CandidateJournal** models the assessment of a journal whose records are lost,
doubled or displaced.  **Harness** is a table of the labs and smoke tests, three
lists of steps for each (before `try`, in it, in `finally`), and the few actions
JavaScript makes of them.

### The historical version

**DistributedLock**, **TokenService**, **Sessions** and **RateLimiter** are the
users of Redis.  One action is one command, at the moment Redis executes it; a
command may fail (`Fail`, `Swallow`), lose its reply, or arrive late, and keys
expire between any two.  **WebSocketManager**, **ClientSdk**, **ReplayGuard**,
**ErrorReplies** and **ServerProcess** are one worker and its client:
connections admitted by a count that is read in one turn and raised in another, a
handler that answers after the request's own reply, signal handlers of four
modules side by side.  **ContainerExecutor** is one execution from validation to
clean-up, any step of which may fail; **AiToolExecutor** the limits and the prompt
history; **VaultService** the workers that initialise and renew one token;
**BulkInsert** batches in transactions that are retried while the counts are kept
outside; **SecurityGate** the verdict over the suites' reports.

Definitions marked "Mutant" are wrong versions of the definition below them.  No
specification uses them; each is the bug that one property of a run must catch,
and `PROJECT.json` pairs them.

## Runs

| Run | Instance | States | Shows |
|---|---|---|---|
| `parts` | six parts of the runtime, one at a time (below) | 137 k | see below |
| `audit_delivery` | 3 writes, 2 of them in a scope, 2 slots | 7 k | losses latch (`ImplementsAuditLog`); a slot is free before its writer can know (`ImplementsBoundedLog`); `settle()` waits for all of the scope (`SettleIsComplete`) and never for a raw sink, and writers are answered (`EveryWaitEnds`) |
| `audit_late_write` | 2 writes, 1 `close()`, drain timer never early | | `SinkClosedAfterDrain` is violated, see below |
| `runtime` | 1 request, every failure, abort and shutdown | 13 k | it is answered, and `close()` gets past hung tools (`EveryWaitEnds`); two outcomes are stored only through an abort (`TwoOutcomesOnlyByAbort`); resources are disposed of only when idle (`DisposedWhenIdle`); at most two of its records are pending, and only while the call runs (`ImplementsCallWrites`) |
| `runtime_pair` | 2 requests, 1 slot, open server | 685 k | admission is stored before the tool runs and the outcome before the reply (`ClaimsAreStored`), and again before the response leaves (`ResponseIsAudited`); losses are final across requests (`FailClosed`) |
| `runtime_two_outcomes` | as `runtime` | | `OneOutcomePerAttempt` is violated, see below |
| `collector` | 5 records of the sink, one of another client | 51 k | acknowledged records survive everything, with all before them (`ImplementsDurableSink`); the journal is in order, without holes, and never appended to after a partial record, and each acknowledgement finds its record (`JournalIsSound`); every record is answered (`EveryRecordAnswered`) |
| `collector_progress` | 5 records, nothing fails | 0.9 k | backpressure and batching strand nothing (`NothingStranded`) |
| `http` | 1 request, every failure and shutdown | 29 k | a request recorded as completed was delivered (`CompletedIsDelivered`); the audit is closed last (`AuditIsClosedLast`); a place taken is given back and `close()` ends, whoever blocks (`EveryWaitEnds`) |
| `http_pair` | 2 requests, 1 place, open server | 487 k | the counts balance on every path (`PlacesAreAccounted`); the terminal record is the last (`TerminalIsLast`); a healthy log drops nothing (`HealthyNeverDrops`) |
| `outside` | eighteen parts around the runtime and of v1, one at a time (below) | 1,225 k | see below |
| `outside_per_minute` | as `outside` | | `LimitIsPerMinute` is violated, see below |

`parts` and `outside` put modules side by side that share no state: each behaviour
exercises one of them while the others stay in one initial state.  A property of
such a run is a conjunction of the properties of several parts, which TLC checks
together and whose names below are those of the modules.

In `parts`:
- *execution*, 3 calls on 2 slots: none is handed out after `close()`, and a slot
  belongs to the operation, not to its caller (`ImplementsSlotPool`); the first
  abort is what a call reports (`AbortIsReported`);
- *audit*, 2 writes, 1 slot, 2 overlapping `close()`: a count of zero is truthful
  (`ZeroRemainingMeansDrained`), and everyone who waits is answered (`CloseEnds`);
- *life*: the exit code is truthful (`ExitCodeIsTruthful`), and a process told to
  stop exits (`StopAlwaysExits`);
- *walk*, every value of two containers of two entries: its verdict is the one that
  counting the unfolded value gives (`WalkDecides`), and it ends (`CloseEnds`);
- *tools* and *start*: a tool returns the whole or refuses and leaves nothing open,
  and a start gives a whole runtime or nothing, naming what was wrong
  (`ReadsWholeAndCloses`).

In `outside`:
- `TokensAreHonoured` (access): a token is judged by keys that are or were lately
  the issuer's, new keys are found, and a tool runs only while the token lives;
- `PublishedAsApproved` (release): what is published was approved by another
  GitHub account than the one that started the run, over all reruns (both belong to
  one maintainer, `docs/NPM_PUBLISHING.md:13`), and the approval may be of an
  earlier attempt of the run;
- `EvidenceIsExact` (journal, gate): a journal is accepted only when every request
  has its whole chain of records; the gate opens only when its suites ran and were
  clean enough;
- `OnlyTheseStay` (labs, containers): an execution that settled is no longer listed,
  its profile's file is gone unless a call of the clean-up failed, and what the
  clean-up asks for under another name than its maker gave is all still there
  (below); a lab leaves only what could not be removed;
- `OnlyTheHolderUnlocks` (lock): only the holder's command, time or force ends a
  hold, whatever replies were lost;
- `NoOtherReturn` (tokens, sessions): a token revoked before its verification
  began is refused, one on the blacklist then is accepted only after its entry has
  ended and if it was made to live longer than an entry; a deleted session comes
  back only by a write that was on its way, which does bring it back;
- `LimitsHold` (limiter, tools): no window has more moments at which requests were
  let through than the limit; a window of AI calls exceeds the limit by no more than
  the calls under way, a pause of a window opens every level again, and prompts are
  paced;
- `PlacesAndTimersHold` (sockets, sdk, vault): the count of connections is that of
  the open ones less those counted out twice, and the limit is passed by these and by
  sockets let in before another was counted, no others; a pending request has its
  timer; Vault's token is renewed in time, by workers that were told when they found
  no key;
- `ReplayNeedsPressure` (guard): a message comes through twice only behind more
  than half a cache of others;
- `SuccessIsTrue` (worker, bulk): status 0 means that no connection is left and that
  both stores were told to close, not that they did; no errors reported means every
  row stored;
- `RepliesHideInternals` (replies): one reply, and none that tells what happened
  inside.

**Bounds.**  Three calls on two slots are the fewest with a call waiting while
two run and a slot reused after a late end; two writes on one slot, or three on
two, the fewest in which a write is dropped, one starts during a wait, and one
settles late.  The runtime's hazards need one request (abort against record) or
two (slot and latch shared); `runtime_pair` leaves out shutdown and withdrawal,
which `runtime` has, and has one failure code of tools, the one a tool shares with
the runtime.  Five
records exceed the sink's window (`Limit` 3), the collector's queue (2), a batch
(2), the acknowledgement limit (2) and the journal (4), so that each limit is
reached; `TooLong` makes one record too long to send.  A request occupies three
slots at most, so a log of three with two requests is the smallest that is full
while another request asks to be admitted; `http` has the shutdown, which concerns
each request by itself.

The walk's limit of 3 lies below what two containers of two entries can hold, and
a cycle exceeds every limit.  A file of at most `MaxBytes` + 1 bytes reaches one
beyond what is returned.  The clocks of `outside` count in the unit of the
shortest period: tokens, keys and windows live two or three ticks, and the bounds
`MaxTime`, `Moments` and `Life` leave room for one whole period after the last
event that matters (the token service's clock ends at `ListTime` + 1); `Lives` has a
token that ends no later than an entry of the blacklist (`ListTime`) can and one that
may outlive it.  Two clients, operations or runs are what a
race needs; three sockets of two users, on a limit of one connection, are what it
takes for the count to fall below zero and two to be let in; three cached messages
of five exceed the replay cache.  `MaxFaults` and `MaxMishaps` bound the
failures of one run to those whose order can matter: one defect in a journal, a
failure in the body and another in the clean-up.  `MaxRetries`, `MaxAttempts`,
`MaxMoves`, `MaxCalls`, `MaxOpen` and `Salts` cap counters and draws that the code does
not bound, or bounds by a larger number.

**Symmetry** is used in `outside` alone, over the two interchangeable `Requests`;
its properties are invariants or action properties.  It is never used with liveness.

**Deadlock** is checked everywhere except in `collector_progress`, where nothing
happens once all five records are acknowledged, and in `outside`, where most parts
end (a lab, a release, an exit).  `Quiescent`, and `Over` in `parts`, are the
stutter of a system in which everything has ended.

**Fairness.**  Weak fairness is assumed of queued turns, because Node's event
loop runs every queued microtask and event, and of timers, because each is set
unconditionally and cleared only when its race is over (`execution.ts:19`,
`audit.ts:103`, `collector.ts:89`, `cli.ts:154`).  Nothing is assumed of tools,
input schemas, disposers, sinks or their close hooks: each may block for ever.  In
`SecureRuntime` every open record is answered, which `AuditDispatcher` shows
(`EveryWaitEnds`).  In `HttpServer` every record and every tool call is answered,
as the two show, and the handler ends once its connection is gone; verifying a
token, calling a tool and reading a response may take for ever.  `collector`
assumes only the sink's timers.  The walk is one synchronous loop, so its next step
is always taken.  `collector_progress` is the one exception: it asks whether an
undisturbed stream makes progress by itself, so its events and file operations are
fair and no timer fires.  `outside` states no fairness: its properties are about
safety.

## Disagreements with the documentation

*A record accepted during `close()` is pending when the sink is closed*
(`audit_late_write`).  `audit.ts:23` and `docs/OPERATIONS.md:62` say accepted
writes are drained before the sink is closed.  `close()` waits for a snapshot
(`audit.ts:132`) and `write()` keeps accepting, so a later record can still be
pending at `audit.ts:139`, with no timer involved.  On stdio requests arrive in
that window, because the transport is closed after the runtime
(`cli.ts:145-146`).

*One attempt can leave two terminal outcomes* (`runtime_two_outcomes`).
`docs/OPERATIONS.md:40` says to count attempts by their terminal outcomes.  The
success record is written inside the operation the deadline races
(`runtime.ts:216-221`); if the abort comes while that record is pending,
`invoke()` records the abort too (`runtime.ts:231`).  `TwoOutcomesOnlyByAbort`
shows that this is the only way to two outcomes, and that there are never three.

*Calls of an AI tool that overlap pass the limit of their level*
(`outside_per_minute`).  `legacy/v1/src/tools/ai-tool-executor.ts:100-103` promises
100, 50, 20 and 10 calls per minute.  `checkRateLimit()` compares the calls that have
*ended* (325-355), the call itself is awaited after it, and `updateExecutionHistory()`
counts it at its end (366-378), so calls that overlap are all let through.  The
opposite happens too: every call, of whatever level, moves the start of every level's
window (376-378), so that calls less than a minute apart are counted together without
end, and a user far below the limit stays refused until a whole minute has passed
without a call.  `LimitsHold` says what does hold.

## Other observations

The models have the following as it is, and the properties are stated so that it is
visible in them (as in "but for a write that was on its way").  Where a document or a
test says otherwise, it is named.

*In the tooling.*  `assess-candidate.mjs:111-114` demands
a `tool_rejected` record for every denied tool, which `audit.ts:161-169` no longer
writes, so a journal with a denial is never accepted.  The workload the assessment
belongs to has denials in a tenth of its calls (`docs/PERFORMANCE_CONTRACT.md:5-7`,
`docs/validation/CANDIDATE.md:50`), so the present server's journal of it is always
refused; that a sound journal is accepted (the second half of `AssessmentIsExact`)
is therefore said of runs without denials only.  Requests that end by their deadline
or a disconnect are not in the model: the assessment refuses their records outright
(`assess-candidate.mjs:78`).  It counts the records of tool calls only, so a request that
is no call and of which nothing was written goes unnoticed; the property names that
exception.  `labs/audit/verify.mjs:25-31`, `bursts.mjs:43-47` and
`overhead.mjs` wait for an exit event of a process that may have ended before, and
then leave their directory; the first does so as well after a collector that stopped
with a wrong status (27), whose variable is still set when `finally` stops it again.

*In the historical version.*  An extension by less than a second deletes the lock's
key (`distributed-lock.ts:176`).  The first refresh of a token family is taken for a
replay (`jwt-service.ts:146, 170, 297`), so that rotation after line 303, which
`legacy/v1/docs/SECURITY.md:105` claims, is never reached.  An entry of the blacklist
lasts 24 hours (323, 548), while `JWT_ACCESS_EXPIRES_IN` is any time at all
(`config.ts:42`): a token made to live longer is accepted again.  A session that a
late write brought back has its whole timeout again and is in no set of its user's,
so that signing out everywhere does not find it.  Patterns given to `KEYS` lack the prefix that the client adds to every
key (`redis.ts:24`), so revoking all of a user's tokens finds none.
`authenticateSocket` does not look at sessions, and a failed read in
`getUserSessions` takes a live session out of the set.  A disconnected socket is
counted out twice (`websocket-manager.ts:768-772, 815`), so that the count falls below zero
and the limit is passed; `websocket-manager.test.ts:289-306, 698-708` expects the limit
kept and a count of 0, over a socket whose `disconnect()` is a mock without events.  The
container clean-up asks for the namespace, the network and the control group by the
execution's id (`container-executor.ts:776, 781, 786`), which is not the name they
were given (924, 940, 953): a real manager would find none of them.  A namespace made
before the check that the execution is not root's fails (924-926) is in no record, and
when `spawn()` throws the execution stays listed (`activeExecutions`).  The refusal of privileged images is caught by its own `catch` (1063-1086), and
critical executions under Kata run without the network, seccomp and user options
(677 against 372-378).  A signal
during the start is swallowed by the handlers of the modules imported first, and
the cluster's primary forks again after SIGTERM.  `disconnectDatabase()` and
`disconnectRedis()` swallow their errors (`connection.ts:144-146`, `redis.ts:118-120`):
`gracefulShutdown()` then says "Graceful shutdown completed successfully" and exits
with 0 (`shutdown.ts:36-37`), its own `catch` (39-42) is never reached, and Prisma
connects again for a query that comes after it was disconnected.  Members of a rate limit's set are
the time and `math.random()`, which Redis may seed anew for each script
(`token-rate-limiter.ts:116`): requests of one millisecond may count as one, so
`WindowIsBounded` counts moments.
`bulkInsert` reports no inserted rows, and counts what a rolled-back attempt wrote.
`INCR` followed by a failed `EXPIRE` keeps a counter for ever
(`websocket-manager.ts:113-115`, `auth/middleware.ts:239-287`).  In the error handler the classes of application
errors are never reached (`error-handler.ts:23`), and an unexpected token in JSON
counts as a critical security error.  The security gate takes a threshold of 0 for
unset (`security-gate-validation.js:25`), never looks at the medium one, and gives
an empty report full marks.  `vault.read()` unwraps `data` while its callers
unwrap it again (`mfa-service.ts:43`, `jwt-service.ts:80`,
`container-executor.ts:455`), so what is stored in Vault is not used; the transit key is never created, because
node-vault puts the status where line 493 does not look (`response.statusCode`); a
refused token, a missing key or a failed renewal are swallowed (`vault.ts:478, 507,
574`),
and after one failed renewal the next comes when the token has ended.

## Proofs

The theorems hold for every value of the constants.  A proof module has one inductive
invariant for each component it is about, and a lemma per part of it or per group of
actions.  Every property proved that a run checks held in that run first.

*ExecutionProofs.*  `CapacityBound` is not inductive: it says nothing of the set
`run()` tests.  `IInv` adds that `active` is exactly the set of live operations,
finite and within the limit (`SlotsInv`), and that a call is pending exactly as long
as its operation is live and unaborted (`AnswerInv`).  The theorems are type
correctness, `CapacityBound`, `AbortIsReported`, `DrainedMeansIdle`, that answers are
final (`AnsweredOnce`), and the refinement of `SlotPool`.

*AuditProofs.*  The invariant ties each writer's state to its sink call and its slot,
and counts the losses by cardinality.  The theorems are `SlotsHeldByLiveSinks`,
`LossesCounted`, `ZeroRemainingMeansDrained`, `SettleIsComplete` and the refinements
of `AuditLog` and of `BoundedLog`.  For the second, every step of a writer must find
its slot as that log has it: a dropped record found none or an unhealthy log, and a
record is confirmed only after its slot was given back.  Both need `SlotsInv`:
`pending` is what holds slots, and no more.

*RuntimeProofs.*  Two lemmas show that every step of the runtime is a step or a
stutter of the controller (`StepsOfExecution`) and of the log (`StepsOfLog`). The
controller's invariant is then taken over from `ExecutionProofs`, and the log forgets
no record and regains no health.  What remains is the runtime's own part: `ClaimsInv`
(what each stage and each answer claims is stored), `DenialInv` (a response
that speaks of lost audit lost its own record), `ExcusedInv` (a call whose answer does
so met a lost record, or a tool that failed with that code itself), `OpInv` (stages
agree with the controller) and `PhaseInv` (the phases of `close()`).  That is enough for type
correctness, `ClaimsAreStored`, `ResponseIsAudited`, `DenialIsVisible`,
`DisposedWhenIdle` and the refinements of `Execution` and `AuditLog`.

How often a record is written needs more, because none of this excludes that a call
writes two.  `RecordsInv` says for each of a call's three writers (the operation,
`invoke()`, the gate) which records it can have written at its stage, and that it
writes one outcome at most.  It is preserved call by call: `Kept` is what a step that
is not of the call may do to it.  From it follow `TwoOutcomesOnlyByAbort` and the
refinement of `CallWrites`.  `FailClosed` has a latch of its own (`Shut`): of a call
that comes after a loss the admission record is never taken, so that its tool does not
run.

*HttpProofs.*  `PlacesInv` says of which requests the two counts are the cardinality.
`RequestInv` says which records a request can have pending at each stage, whether its
tool call still runs, and that the label "completed" is either earned or may still be
taken back.  `HealthyInv` says that a healthy log holds nothing but open records.  The
argument for `HealthyNeverDrops` is counting: an admitted request has three writers, a
request being authenticated none, there are at most `requestCapacity` admitted
requests (`PlacesInv`), and three times that is at most `MaxPending`.  The server is
also shown to use its two abstractions as their specifications allow (`UsesAuditLog`,
`UsesCallWrites`), so that what `SecureRuntime` and `AuditDispatcher` implement is
what it relies on.

*CollectorProofs.*  The heart is one sequence, `Course`: the journal, the batch not
yet written, the queue and the bytes on the wire.  `Sound` says that it holds the
sink's records in the order of the calls and that only refused ones are missing before
any of them.  Moving a record along does not change the sequence; a crash, a
disconnect or a partial write cuts off an end of it, and a beginning of a sound
sequence is sound.  Only `Send` adds to it, at the end, a number larger than all
before.  `SinkInv` says that `pending` is what is open, in order; `JournalInv` that a
partial record ends the journal and the collector's health; `StreamInv` that each byte
on its way back is owed for a durable record, the oldest pending one first
(`OwedAreOldest` is the lemma in which the acknowledgements, which carry no name, find
their records).  The theorems are type correctness, `JournalIsSound` and the
refinement of `DurableSink`, whose step is again found part by part.

*PartsProofs.*  The theorems about `MCParts` are conjunctions over parts that share no
state, and one lemma per part says that a step of the whole is a step or a stutter of
the part.  `ZeroRemainingMeansDrained` is taken over from `AuditProofs` by `INSTANCE`.
`LifeInv` follows the count of what was left unfinished through the stages of the
orderly close, on both transports; `ToolInv` ties a tool's result to the end of the
file and to what is open; `BootInv` says what is open at each step of the start, which
of the issues were found, and that the documents tool is registered as soon as its
root is open (without that the comparison could fail with the root open and nothing
told).

`WalkDecides` is about a value of any depth, and so needs to know which entries the
walk has met.  `Traced` says it by paths: the entries met are as many different paths
as were counted, each pending container stands for one of them that was not walked,
and the entries of a container that was met are met, being met or pending.  So nothing
is counted twice, however often a container is shared, and nothing is missed: of the
paths not met, a shortest one would be an entry of a container that was
(`AllWasMet`).  A refusal for the count needs no more than that the paths met, and the
next, are among those of the value, which are finitely many up to the limit
(`UnfoldedIsFinite`).

*OutsideProofs* (after `OutsideSteps`, its lemma of the same kind).
- `TokensAreHonoured`: a fetched key set is not what the issuer has now. `KeysSince`
  bounds how far it may lag: a key in it was not withdrawn before the fetch was asked
  for, and a key missing in it has been withdrawn or came no earlier.  The verifier's
  cache keeps that bound as the clock moves (`VerifierInv`), and a request carries
  what was judged of its token (`RequestIsJudged`).
- `PublishedAsApproved`: `RunInv` carries the approval from the review over the
  attempts of a run to the registry, and the receipt with it.
- `EvidenceIsExact`: of each request the assessment has the records it admitted, each
  once and under one pseudonym (`Followed`), and without a fault those that were
  written (`Faultless`).  A journal's counts then say how many requests of each kind
  have their whole chain; that they agree with what was asked is a count of disjoint
  sets of requests, so that none is missing.  `GateInv` keeps what the suites
  reported until the exit code is judged.
- `OnlyTheseStay`: `ContainerInv` says which kinds the context holds and which exist
  at each stage of an execution; that a thing has a name of its own keeps it through
  the clean-up (`Cleaned`).  A lab is `Tidy` when its last block removes whatever lasting thing the
  first two make; the thirteen are, which is shown of their tables, and for any tidy
  list of steps `LabInv` shows that what is still there has its removal ahead
  (`Ahead`) or is known not to be removable.

*LegacyProofs* (after `LegacySteps`).
- `OnlyTheHolderUnlocks`: types and counters are all that is needed; the property is
  about each single command.
- `RepliesHideInternals`: all classes of errors at once, by what `ClassifyError` can
  return for an error that is not one of the application's (`PlainClasses`).
- `SuccessIsTrue`: `WorkerInv` orders the closing of the server and the calls that
  close the stores for any set of signals, and says of every store that was told to
  that it is closed or `unclosed`.  `BulkInv` says that without errors all rows before the current one are in
  the table or in the transaction, and that updates and errors together count at least
  those rows.
- `NoOtherReturn`: a request that began with the token revoked (`gone`) passes no
  further than the step that finds it; one that began with it listed (`until`) passes
  the blacklist only after the entry's end, by the times of token and entry
  (`TokenTimes`).  A session that is back was written by a request that had read it
  before its key went (`stale`, `revived`).
- `PlacesAndTimersHold`: the sockets' property is inductive as it stands, by
  cardinalities: each step moves the count, the connections or those counted out
  twice together; for Vault, `VaultInv` says of each worker that its next renewal is
  before the token's end, or that a renewal was missed.  That needs two bounds on the
  end of the token, by the clock and by its greatest age.
- `LimitsHold`, for any window, delay and limit: a time let through keeps its member in
  the sorted set until a whole window has passed, whoever cleans the set and however
  late (`WindowInv`), so that a script that lets another through counts all that are in
  a window with it.  For the AI tools, `EntryTells` says what a level's entry knows of
  the calls that ended: it counts the burst of the latest, or was started anew after a
  pause; and of the calls let through after any time, all have ended after it or are
  under way (`PassesInv`).
- `ReplayNeedsPressure`, for any size of cache: what the guard may have forgotten has
  expired or lies behind more than half a cache of later messages (`GuardInv`).  That
  halving keeps the newest half is counting (`HalvedIsHalf`): the oldest entry kept
  bounds their number, and an entry dropped has half a cache after it.

*Assumptions.*  They are the ones the schema or the code gives.  `MaxConcurrent` is
positive (`config.ts` requires 1 to 256); the dispatcher's capacity is a natural
number, and the server's has room for the three records of one request
(`HttpAssumption`; `config.ts:73-79` refuses less); outcome codes are distinct from
the names the models give to stages, and the code of a tool's failure is none of the
runtime's own but for `audit_unavailable`, which a handler may throw as well
(`ToolFailuresAssumption`); the limits of sink and collector are
positive and records of other clients have other numbers (`LimitsAssumption`);
budgets, periods and capacities are positive (`PartsAssumption`, `OutsideAssumption`);
names that stand for "nothing" are no value a part keeps (`NamesAssumption`); requests
are finitely many (`RequestsAssumption`), and so are the containers of a value
(`WalkAssumption`).  Nothing is assumed of the delay of the rate limiter's commands: what
is bounded is a window less that delay, which is nothing once the delay is a window.

*What the theorems do not range over.*  Some inputs of `MCOutside` are definitions and
not constants: the rows of the bulk insertion (two batches of two), the three sockets
of two users, one tool of one scope, four kinds of token, the levels of the AI tools and
their limits, the five reports and the defaults of the security gate, and a cool-down and
a fetch of one tick.  Requests, clients, runs, people, keys, times, attempts and faults are
constants, and so unbounded in the theorems.

*Proved, and not run.*  `TypeOK` of the controller, the dispatcher, the runtime and
the stream; `DrainedMeansIdle`, `SlotsHeldByLiveSinks`, `LossesCounted` and
`DenialIsVisible`; that the runtime implements `Execution` and drives `AuditLog`, and
that the server drives `AuditLog` and `CallWrites` as they allow. `ToolIsAdmitted` and
`ReplyIsAudited` are the two halves of `ClaimsAreStored`.

*Only model-checked.*  Liveness (`EveryWaitEnds`, `CloseEnds`, `StopAlwaysExits`,
`EveryRecordAnswered`, `NothingStranded`), which is out of the provers' reach.  Every
safety property and every refinement that a run checks is also proved.

## Not modelled

*Of the server.*  Routing, headers, rejection metrics and keep-alive (a request
rejected before authentication has no state); `metrics()`, which only reads; the call
counters of `invoke()` and the content, time stamps and hashes of records; frames,
JSON validation and the ownership checks of the collector's journal, and the operator
who repairs or rotates it (a runtime that was restarted is a new sink; one sink's life
is modelled); that diagnostics name at most eight issues; version numbers and their
comparison; re-exports.

*Of the tooling.*  What the labs, the benchmark and the smoke tests assert or measure:
only what they make and remove is modelled.  Digests and provenance are equality of
candidates, and `NpmRelease` takes the registry's answers for current. The example
servers.

*Of the historical version.*  Operations that find their keys by scanning Redis, which
match nothing (above), and blocking of users; multi-factor enrolment, which draws
backup codes in a loop that never ends; single sign-on, which nothing initialises; the
`RedisCache` and `RedisLock` of `database/redis.ts` and the rate limit by address of
`auth/middleware.ts`, which nothing uses; the stub security managers and the stub AI
service; cryptography and integrity checks; Vault operations that only pass a request
on; metrics, dashboards and deployment files.  Socket.IO, Redis, Docker, Vault and the
database are external, modelled as far as the code in `src/` relies on them.  The
signal handlers, the sockets and the container of one worker are modelled apart,
because they share no state.

## Plan

Done: the runtime and what surrounds it, the HTTP server, the audit stream, the
process from its start to its exit, the release and its evidence, and the parts of
the historical version that keep state; and proofs of every safety property and every
refinement that the passing runs check.  Left:

1. **The inputs of `MCOutside`** that are definitions as constants: rows, users, levels,
   reports and kinds of token.
2. **The interplay of v1's parts**: one worker with its signal handlers, its sockets and
   its containers, which are modelled apart.
