------------------------------- MODULE MCParts -------------------------------
(***************************************************************************)
(* Parts of the server that share no state, side by side: the execution    *)
(* controller (whose module this one extends), close() of the audit        *)
(* dispatcher, the process, the input walk, the two built-in tools and the *)
(* start.  Since a step of one never enables or changes anything of        *)
(* another, each behaviour exercises one part, and the others stay in an   *)
(* initial state.                                                          *)
(***************************************************************************)
EXTENDS Execution

VARIABLE part
\* The audit dispatcher.
VARIABLES delivery, sink, auditPending, failures, dropped, hook, closer, snapshot,
          auditRemaining, settling, awaited
\* The process.
VARIABLES transport, phase, runtime, exit, stage, now, since, unfinished, busy,
          lifePending, failed
\* The input walk.
VARIABLES value, entries, reserved, walkPending, current, met, count, verdict
\* The tools.
VARIABLES tool, parts, pc, opened, size, total, ended, toolAborted, result
\* The start.
VARIABLES caller, config, supplied, starting, handles, registry, dispatcher, told

CONSTANTS Writes, Closers, Transports, Grace, AuditTime, Slack,
          Containers, Leaf, Width, Maximum, MaxBytes, MaxParts, None

\* Configurations that are right and wrong in each way, alone and together.
Configured ==
  [transport : {"stdio", "http"}, maxPending : {2, 3}, http : {"none", "mcp", "other"},
   api : BOOLEAN, workspace : BOOLEAN,
   allowed : {{"policy_status"}, {"documents_read", "api_read"}, {"mine"}},
   wrong : {{}, {"api.url"}, {"unknown"}}]
First == CHOOSE c \in Configured : TRUE
Brought == {<<>>, <<"mine">>, <<"mine", "mine">>, <<"Not valid">>}

Audit == INSTANCE AuditDispatcher WITH Scoped <- {}, Capacity <- 1,
  pending <- auditPending, remaining <- auditRemaining
Life == INSTANCE Lifecycle WITH remaining <- unfinished, pending <- lifePending
Walk == INSTANCE InputWalk WITH pending <- walkPending
Tools == INSTANCE ReadTools WITH aborted <- toolAborted
Boot == INSTANCE Startup
  WITH Configs <- Configured, Supplies <- Brought, Valid <- {"mine"},
       pc <- starting, audit <- dispatcher

\* What the schema of the configuration admits (config.ts).
ASSUME PartsAssumption ==
  /\ Transports \subseteq {"stdio", "http"}
  /\ {Grace, AuditTime, Slack, Maximum, MaxBytes} \subseteq Nat \ {0}
  /\ {MaxParts, Width} \subseteq Nat

\* A value is made of as many containers as fit in memory.
ASSUME WalkAssumption == IsFiniteSet(Containers) /\ Leaf \notin Containers

auditVars == <<delivery, sink, auditPending, failures, dropped, hook, closer, snapshot,
               auditRemaining, settling, awaited>>
lifeVars == <<transport, phase, runtime, exit, stage, now, since, unfinished, busy,
              lifePending, failed>>
walkVars == <<value, entries, reserved, walkPending, current, met, count, verdict>>
toolVars == <<tool, parts, pc, opened, size, total, ended, toolAborted, result>>
startVars == <<caller, config, supplied, starting, handles, registry, dispatcher, told>>
vars == <<part, execVars, auditVars, lifeVars, walkVars, toolVars, startVars>>

\* A part that stays still needs only one of its initial states.
Still(p, state) == part = p \/ state
PartsInit ==
  /\ part \in {"execution", "audit", "life", "walk", "tools", "start"}
  /\ Init
  /\ Audit!Init
  /\ Still("life", transport = "stdio") /\ Life!Init
  /\ Still("walk", value = Leaf /\ entries = [c \in Containers |-> <<>>] /\ reserved = {})
  /\ Walk!Init
  /\ Still("tools", tool = "documents_read" /\ parts = 1 /\ size = 0 /\ toolAborted = FALSE) /\ Tools!Init
  /\ Still("start", caller = "cli" /\ config = First) /\ Boot!Init

ExecutionStep ==
  /\ part = "execution" /\ Next
  /\ UNCHANGED <<part, auditVars, lifeVars, walkVars, toolVars, startVars>>
AuditStep ==
  /\ part = "audit" /\ Audit!Next
  /\ UNCHANGED <<part, execVars, lifeVars, walkVars, toolVars, startVars>>
LifeStep ==
  /\ part = "life" /\ Life!Next
  /\ UNCHANGED <<part, execVars, auditVars, walkVars, toolVars, startVars>>
WalkStep ==
  /\ part = "walk" /\ Walk!Next
  /\ UNCHANGED <<part, execVars, auditVars, lifeVars, toolVars, startVars>>
ToolStep ==
  /\ part = "tools" /\ Tools!Next
  /\ UNCHANGED <<part, execVars, auditVars, lifeVars, walkVars, startVars>>
StartStep ==
  /\ part = "start" /\ Boot!Next
  /\ UNCHANGED <<part, execVars, auditVars, lifeVars, walkVars, toolVars>>

\* The walk, a tool and a start end for good.
Over ==
  /\ \/ part = "walk" /\ verdict # "none"
     \/ part = "tools" /\ pc = "settled"
     \/ part = "start" /\ starting \in {"created", "failed"}
  /\ UNCHANGED vars

PartsNext == ExecutionStep \/ AuditStep \/ LifeStep \/ WalkStep \/ ToolStep \/ StartStep \/ Over

\* Each part under the fairness of its own specification; the process and the
\* dispatcher promise nothing in their initial states.
PartsSpec ==
  /\ PartsInit
  /\ [][PartsNext]_vars
  /\ Audit!Fairness
  /\ Life!Fairness
  /\ WF_walkVars(part = "walk" /\ Walk!Next)
-----------------------------------------------------------------------------
\* When close() of the dispatcher counts nothing left after its wait, every write
\* it waited for has settled and nothing was pending (audit.ts:125-142).
ZeroRemainingMeansDrained == Audit!ZeroRemainingMeansDrained

\* Every write and every close() of the dispatcher is answered, though the sink
\* never settles, and the walk ends, though the value be a cycle (audit.ts:51, 97-105,
\* 126-142, input.ts:14).
CloseEnds == Audit!EveryWaitEnds /\ (part = "walk" => Walk!WalkEnds)

\* The process exits with 0 only when everything was closed and nothing failed
\* (cli.ts:144-174).
ExitCodeIsTruthful == Life!ExitCodeIsTruthful

\* A process that was told to stop exits, whatever hangs (cli.ts:150-166).
StopAlwaysExits == Life!StopAlwaysExits

\* The walk keeps no more than its limit, and accepts exactly the values that unfold to
\* no more entries than that, none of them with a reserved key (input.ts:6-37).
WalkDecides == part = "walk" => Walk!WalkDecides

\* A tool returns everything there was to read or refuses, and left no handle and no
\* body open when it has settled; a start makes a runtime that is whole or leaves
\* nothing open (tools.ts:82-103, 134-153, runtime.ts:57-97).
ReadsWholeAndCloses ==
  Tools!WholeOrRefused /\ Tools!NothingLeftOpen /\ Boot!StartsWholeOrNotAtAll
=============================================================================
