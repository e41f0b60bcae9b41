------------------------------ MODULE Lifecycle ------------------------------
(***************************************************************************)
(* The command-line process: start-up, the signal that stops it, the       *)
(* stages of an orderly close with the forced exit beside them, and the    *)
(* exit code.  A clock starts at the signal; a timer fires in the tick in  *)
(* which it is due, in any order with the other events of that tick.       *)
(***************************************************************************)
EXTENDS Naturals, Sequences

CONSTANTS
  Transports,  \* what config.transport may be: "stdio", "http"
  Grace,       \* limits.shutdownMs, in ticks
  AuditTime,   \* audit.timeoutMs, in ticks
  Slack        \* the 1000 ms added to limits.shutdownMs for the forced exit

VARIABLES
  transport,   \* config.transport, read at start-up
  phase,       \* of the process: starting, serving, stopping or exited
  runtime,     \* the SecureRuntime: none, open, closing or closed
  exit,        \* how it exited: "0", "1", "forced" (with 1), or "none"
  stage,       \* how many stages of close() are over
  now,         \* ticks since the signal
  since,       \* the tick in which the current stage began
  remaining,   \* what the stages so far found unfinished
  busy,        \* some tool ignores its abort
  pending,     \* some audit record is being written
  failed       \* what failed: "audit" (not healthy), "protocol" (protocolFailed)

procVars == <<transport, phase, runtime, exit>>
closeVars == <<stage, now, since, remaining>>
workVars == <<busy, pending, failed>>
lifeVars == <<procVars, closeVars, workVars>>

\* close(), in the order in which it awaits.  Over HTTP the tools are drained
\* before the server, over stdio the transport is closed after the runtime.
Stages ==
  IF transport = "http"
  THEN <<"tools", "server", "terminals", "dispose", "drain", "hook">>
  ELSE <<"tools", "dispose", "drain", "hook", "transport">>

current == IF stage < Len(Stages) THEN Stages[stage + 1] ELSE "done"

\* The stages with a timer of their own; the others only end by themselves.
Budgets == [tools |-> Grace, drain |-> AuditTime, hook |-> AuditTime]
Due(s) == s \in DOMAIN Budgets /\ now >= since + Budgets[s]
ForcedDue == now >= Grace + Slack

Init ==
  /\ transport \in Transports
  /\ phase = "starting" /\ runtime = "none" /\ exit = "none"
  /\ stage = 0 /\ now = 0 /\ since = 0 /\ remaining = 0
  /\ busy = FALSE /\ pending = FALSE /\ failed = {}

Exit(how) == phase' = "exited" /\ exit' = how
-----------------------------------------------------------------------------
\* --help and --version, or a start refused for its version, arguments,
\* configuration or workspace: nothing was opened.
NothingOpened ==
  /\ phase = "starting" /\ runtime = "none"
  /\ \E how \in {"0", "1"} : Exit(how)
  /\ UNCHANGED <<transport, runtime, closeVars, workVars>>

\* SecureRuntime.create().  A tool that cannot be created closes the runtime.
Create ==
  /\ phase = "starting" /\ runtime = "none"
  /\ \/ runtime' = "open" /\ UNCHANGED <<phase, exit>>
     \/ runtime' = "closed" /\ Exit("1")
  /\ UNCHANGED <<transport, closeVars, workVars>>

\* --doctor closes the runtime and ignores its count; a rejection exits with 1.
Doctor ==
  /\ phase = "starting" /\ runtime = "open"
  /\ runtime' = "closed" /\ \E how \in {"0", "1"} : Exit(how)
  /\ UNCHANGED <<transport, closeVars, workVars>>

\* serveHttp() rejects: the runtime is closed before the diagnostic is thrown.
ListenFails ==
  /\ transport = "http" /\ phase = "starting" /\ runtime = "open"
  /\ runtime' = "closed" /\ Exit("1")
  /\ UNCHANGED <<transport, closeVars, workVars>>

Serve ==
  /\ phase = "starting" /\ runtime = "open"
  /\ phase' = "serving"
  /\ UNCHANGED <<transport, runtime, exit, closeVars, workVars>>
-----------------------------------------------------------------------------
\* What happens outside: tools hang and settle, records are written (refusals
\* too, so also during close()) and settle, perhaps with a loss; the stdio
\* transport reports errors.
Outside ==
  /\ phase \in {"serving", "stopping"}
  /\ \/ /\ IF busy THEN busy' = FALSE ELSE phase = "serving" /\ busy' = TRUE
        /\ UNCHANGED <<pending, failed>>
     \/ /\ pending' = ~pending
        /\ \/ UNCHANGED failed
           \/ pending /\ failed' = failed \cup {"audit"}
        /\ UNCHANGED busy
     \/ /\ transport = "stdio"
        /\ failed' = failed \cup {"protocol"}
        /\ UNCHANGED <<busy, pending>>
  /\ UNCHANGED <<procVars, closeVars>>

\* SIGINT, SIGTERM, the end of stdin or the transport's onclose; `stopped` makes
\* the first of them the only one.  The forced exit's timer starts.
Stop ==
  /\ phase = "serving"
  /\ phase' = "stopping" /\ runtime' = "closing"
  /\ UNCHANGED <<transport, exit, closeVars, workVars>>

\* Mutant: the tools that close() found running are forgotten.
ExitCodeOfAudit(left) == IF failed # {} \/ left > 1 THEN "1" ELSE "0"

ExitCode(left) == IF left > 0 \/ failed # {} THEN "1" ELSE "0"

\* The next stage begins, or close() resolves and the process exits.
Advance(left) ==
  /\ stage' = stage + 1 /\ since' = now /\ remaining' = left
  /\ runtime' = IF current = "hook" THEN "closed" ELSE runtime
  /\ IF stage + 1 = Len(Stages) THEN Exit(ExitCode(left)) ELSE UNCHANGED <<phase, exit>>
  /\ UNCHANGED <<transport, now, workVars>>

\* What a stage waits for is there.  Closing servers, transports and files, and
\* terminal records, may take any time; disposal is skipped when tools remain.
StageEnds ==
  /\ phase = "stopping"
  /\ current = "tools" => ~busy
  /\ current = "drain" => ~pending
  /\ Advance(remaining)

\* The grace period or the drain's timer ends first, and what is left is counted.
StageExpires ==
  /\ phase = "stopping" /\ current \in {"tools", "drain"} /\ Due(current)
  /\ IF current = "tools" THEN busy ELSE pending
  /\ Advance(remaining + 1)

\* A stage rejects, or the hook's timer fires: close() rejects.
StageFails ==
  /\ phase = "stopping"
  /\ \/ current \in {"server", "hook", "transport"}
     \/ current = "dispose" /\ remaining = 0
  /\ Exit("1")
  /\ failed' = IF current = "hook" THEN failed \cup {"audit"} ELSE failed
  /\ UNCHANGED <<transport, runtime, closeVars, busy, pending>>

\* Mutant: the timer is cleared once the tools have drained.
ForcedExitOfTools ==
  /\ phase = "stopping" /\ ForcedDue /\ current = "tools"
  /\ Exit("forced")
  /\ UNCHANGED <<transport, runtime, closeVars, workVars>>

ForcedExit ==
  /\ phase = "stopping" /\ ForcedDue
  /\ Exit("forced")
  /\ UNCHANGED <<transport, runtime, closeVars, workVars>>

\* Time passes while no timer is due that would do something.
Tick ==
  /\ phase = "stopping" /\ ~Due(current) /\ ~ForcedDue
  /\ now' = now + 1
  /\ UNCHANGED <<procVars, stage, since, remaining, workVars>>

Exited == phase = "exited" /\ UNCHANGED lifeVars

Next ==
  \/ NothingOpened \/ Create \/ Doctor \/ ListenFails \/ Serve
  \/ Outside \/ Stop \/ StageEnds \/ StageExpires \/ StageFails
  \/ ForcedExit \/ Tick \/ Exited

\* Only time passes for certain.  A stage whose timer is due ends in that tick;
\* everything else may hang.
Fairness ==
  /\ WF_lifeVars(Tick) /\ WF_lifeVars(ForcedExit)
  /\ WF_lifeVars(Due(current) /\ (StageEnds \/ StageExpires \/ StageFails))

Spec == Init /\ [][Next]_lifeVars
FairSpec == Spec /\ Fairness
-----------------------------------------------------------------------------
TypeOK ==
  /\ transport \in Transports
  /\ phase \in {"starting", "serving", "stopping", "exited"}
  /\ runtime \in {"none", "open", "closing", "closed"}
  /\ exit \in {"none", "0", "1", "forced"}
  /\ stage \in 0..Len(Stages) /\ now \in 0..(Grace + Slack) /\ since \in 0..now
  /\ remaining \in 0..2
  /\ {busy, pending} \subseteq BOOLEAN /\ failed \subseteq {"audit", "protocol"}

\* A process that exits with 0 has closed its audit sink, no tool was left
\* running and nothing failed (the exit code, cli.ts:158); one that did not start
\* leaves nothing open (cli.ts:116, runtime.ts:89).
ExitCodeIsTruthful ==
  /\ TypeOK
  /\ exit = "0" => runtime \in {"none", "closed"} /\ ~busy /\ failed = {}
  /\ phase = "exited" => runtime # "open"

\* Once told to stop the process exits, whatever hangs (cli.ts:154).
StopAlwaysExits == phase = "stopping" ~> phase = "exited"
=============================================================================
