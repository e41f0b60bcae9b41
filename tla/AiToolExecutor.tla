--------------------------- MODULE AiToolExecutor ---------------------------
(***************************************************************************)
(* SecureAIToolExecutor and the PromptSecurityFramework it calls, for one  *)
(* user: a call is checked against the limit of its tool's level and its   *)
(* prompt against the user's recent prompts, the tool runs for a while,    *)
(* and only a call that ends well is counted, at every level at once.  A   *)
(* prompt is its hash and what the patterns find in it; two hashes are     *)
(* similar only when they are equal.                                       *)
(***************************************************************************)
EXTENDS Integers, FiniteSets, Sequences

CONSTANTS
  MaxCalls,    \* bound: the user's calls
  Limit,       \* [level -> rateLimits[level].requests]
  Window,      \* rateLimits[level].window, the same for every level
  Prompts,     \* hashes of prompts
  Suspect,     \* the prompts some injection pattern or length check rejects
  Second,      \* the time in which prompts follow each other rapidly
  Memory,      \* 5 minutes
  MaxRapid,    \* 5
  MaxSimilar,  \* 3
  MaxTime      \* bound of the clock

VARIABLES
  clock,       \* Date.now()
  executions,  \* executionHistory: [level -> count and lastExecution, or NoEntry]
  prompts,     \* promptHistory: pairs of a time and a hash
  started,     \* calls so far
  running,     \* those whose tool runs
  completed,   \* history: when calls were counted
  passed       \* history: the calls whose tool ran: when and at what level they were let
               \* through, and how many others were under way

toolVars == <<clock, executions, prompts, started, running, completed, passed>>

Levels == DOMAIN Limit
NoEntry == [count |-> 0, last |-> -2 * Window]

Init ==
  /\ clock = 0 /\ executions = [l \in Levels |-> NoEntry] /\ prompts = {}
  /\ started = 0 /\ running = 0 /\ completed = <<>> /\ passed = <<>>

\* An entry whose window has passed starts again, from this check on.
Reset(e) ==
  IF e # NoEntry /\ clock - e.last > Window THEN [count |-> 0, last |-> clock] ELSE e

Allowed(level) == Reset(executions[level]).count < Limit[level]

Within(age) == {p \in prompts : clock - p[1] < age}

\* checkPromptHistory(): prompts in rapid sequence, or the same one again and again.
Suspicious(h) ==
  \/ Cardinality(Within(Second)) > MaxRapid
  \/ Cardinality({p \in Within(Memory) : p[2] = h}) > MaxSimilar

\* addToHistory(): two equal prompts of one millisecond have one key.
Remember(h) ==
  prompts' = {p \in prompts \cup {<<clock, h>>} : clock - p[1] <= Memory}

\* executeTool() up to the simulated service: the limit, the tool's own validator or
\* the history refuse the call, or its prompt is remembered and then judged.
ExecuteTool(level, h) ==
  /\ started < MaxCalls /\ started' = started + 1
  /\ executions' = [executions EXCEPT ![level] = Reset(@)]
  /\ \/ UNCHANGED <<prompts, running, passed>>
     \/ /\ Allowed(level) /\ ~Suspicious(h) /\ Remember(h)
        /\ IF h \in Suspect THEN UNCHANGED <<running, passed>>
           ELSE /\ running' = running + 1
                /\ passed' = Append(passed, [at |-> clock, level |-> level, beside |-> running])
  /\ UNCHANGED <<clock, completed>>

Counted(e) == [count |-> IF clock - e.last < Window THEN e.count + 1 ELSE 1, last |-> clock]

\* updateExecutionHistory(), for every level; what cleanExecutionHistory() then drops
\* are entries of other users, older than any window.
Complete ==
  /\ running > 0 /\ running' = running - 1
  /\ executions' = [l \in Levels |-> Counted(executions[l])]
  /\ completed' = Append(completed, clock)
  /\ UNCHANGED <<clock, prompts, started, passed>>

Tick ==
  /\ clock < MaxTime /\ clock' = clock + 1
  /\ UNCHANGED <<executions, prompts, started, running, completed, passed>>

Next == (\E l \in Levels, h \in Prompts : ExecuteTool(l, h)) \/ Complete \/ Tick

Spec == Init /\ [][Next]_toolVars
-----------------------------------------------------------------------------
\* No call ended within the last window.
Paused == completed = <<>> \/ clock - completed[Len(completed)] > Window

\* The calls let through within the window that ended with the i-th of them.
WindowOf(i) == {j \in 1..i : passed[i].at - passed[j].at < Window}

\* Whatever calls overlap, and at whatever levels: a window that ends with a call of a
\* level has, of all levels together, no more calls than that level's limit and those that
\* were under way when it was let through, which no limit counts; a pause of a window
\* opens every level again; and no second holds more than MaxRapid + 1 prompts that were
\* let through, no Memory more than MaxSimilar + 1 of one prompt, but for equal prompts of
\* one millisecond (ai-tool-executor.ts:325-390, prompt-security.ts:340-382).
PacedByUse ==
  /\ \A i \in DOMAIN passed :
       Cardinality(WindowOf(i)) <= Limit[passed[i].level] + passed[i].beside
  /\ Paused => \A l \in Levels : Allowed(l)
  /\ Cardinality(Within(Second)) <= MaxRapid + 1
  /\ \A h \in Prompts : Cardinality({p \in Within(Memory) : p[2] = h}) <= MaxSimilar + 1

\* "// 100 per minute", "// 50 per minute", "// 20 per minute", "// 10 per minute"
\* (ai-tool-executor.ts:100-103): no window has more calls of a level than its limit.
\* The code counts a call when it has ended, so calls that overlap all pass.
LimitIsPerMinute ==
  \A i \in DOMAIN passed :
    Cardinality({j \in WindowOf(i) : passed[j].level = passed[i].level})
      <= Limit[passed[i].level]
=============================================================================
