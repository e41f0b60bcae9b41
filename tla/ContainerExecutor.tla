-------------------------- MODULE ContainerExecutor --------------------------
(***************************************************************************)
(* One execution by the ContainerExecutor of the historical v1 server: the *)
(* checks, the hardening that makes resources one by one, the process with *)
(* its timer, the steps after it and the clean-up, any of which may fail.  *)
(* A manager of resources is any manager with the functions of             *)
(* tools/security: what they do to the host is left open.                  *)
(***************************************************************************)
EXTENDS Naturals, Sequences, SequencesExt

\* The hardening, in the code's order; all but the last makes something outside.
Kinds == <<"seccomp", "userns", "mac", "group", "network", "capabilities">>

VARIABLES
  pc,          \* where execute() is
  enabled,     \* config.securityHardening, as a set of Kinds
  critical,    \* config.securityLevel is CRITICAL
  next,        \* how many of Kinds the hardening is past
  made,        \* what the execution made outside and is there, by kind
  context,     \* securityContext: the kinds it holds the id or the lists of
  active,      \* activeSecurityContexts has the execution
  entry,       \* activeExecutions has its AbortController
  process,     \* the spawned process: "none", "alive", "gone"
  runtime,     \* the runtime that was selected: "none", "docker", "gvisor" or "kata"
  network,     \* the command leaves the process a network
  timer,       \* the timeout is set
  stuck,       \* a call of the clean-up failed
  outcome      \* of execute(): "none", "result" or "error"

resourceVars == <<made, context, active, stuck>>
processVars == <<entry, process, timer, runtime, network>>
runVars == <<pc, enabled, critical, next, resourceVars, processVars, outcome>>

Init ==
  /\ pc = "config" /\ enabled \in SUBSET ToSet(Kinds) /\ critical \in BOOLEAN /\ next = 0
  /\ made = {} /\ context = {} /\ active = FALSE /\ stuck = FALSE
  /\ entry = FALSE /\ process = "none" /\ timer = FALSE /\ runtime = "none" /\ network = FALSE
  /\ outcome = "none"

Goto(there) == pc' = there /\ UNCHANGED outcome
Settle(how) == pc' = "settled" /\ outcome' = how
-----------------------------------------------------------------------------
Unchanged == UNCHANGED <<enabled, critical, next, resourceVars, processVars>>

\* getAllowedImages() asks Vault, which may fail; the image must be one of them.
ReadAllowedImages ==
  pc = "config" /\ (Goto("screen") \/ Settle("error")) /\ Unchanged

\* containsMaliciousPattern() and its like let a text through or end the execution.
Screened(there) == Goto(there) \/ Settle("error")
ValidateConfig == pc = "screen" /\ Screened("image") /\ Unchanged

\* The image's origin, vulnerabilities and metadata are looked at; what is found, or
\* fails, is only logged, the rejection of a privileged image too.
ValidateImage == pc = "image" /\ Goto("command") /\ Unchanged

\* Combinations and lengths of commands, and the environment's values.
ValidateCommand == pc = "command" /\ Screened("environment") /\ Unchanged
ValidateEnvironment == pc = "environment" /\ Screened("security") /\ Unchanged

\* validateSecurityConfiguration(): what the critical level requires, and
\* capabilities nobody may have.
Required == {"seccomp", "userns", "network", "capabilities"}
ValidateSecurity ==
  /\ pc = "security"
  /\ \/ (critical => Required \subseteq enabled) /\ Goto("harden")
     \/ Settle("error")
  /\ Unchanged

\* Some systems have no mandatory access control: its failure is passed over.
PassedOver == {"mac"}

\* What a call to a manager may have made, whether it then fails or not.
MayMake(kind) == made' \in {made, made \cup ({kind} \ {"capabilities"})}

\* applySecurityHardening(): the next kind, whose manager may fail.  The context gets
\* the id when the manager is through; a namespace is made before the check that the
\* execution is not root's, and gets into the context after it.
Harden ==
  /\ pc = "harden" /\ next < Len(Kinds)
  /\ LET kind == Kinds[next + 1]
     IN  \/ /\ kind \notin enabled /\ next' = next + 1
            /\ UNCHANGED <<pc, made, context>>
         \/ /\ kind \in enabled \ {"userns"} /\ next' = next + 1
            /\ IF kind \in PassedOver THEN MayMake(kind)
               ELSE made' = made \cup ({kind} \ {"capabilities"})
            /\ context' = context \cup {kind} /\ UNCHANGED pc
         \/ /\ kind = "userns" /\ kind \in enabled /\ made' = made \cup {kind}
            /\ pc' = "nonroot" /\ UNCHANGED <<next, context>>
         \/ /\ kind \in enabled \ PassedOver /\ MayMake(kind)
            /\ pc' = "failed" /\ UNCHANGED <<next, context>>
  /\ UNCHANGED <<enabled, critical, active, stuck, processVars, outcome>>

EnforceNonRoot ==
  /\ pc = "nonroot"
  /\ \/ pc' = "harden" /\ next' = next + 1 /\ context' = context \cup {"userns"}
     \/ pc' = "failed" /\ UNCHANGED <<next, context>>
  /\ UNCHANGED <<enabled, critical, made, active, stuck, processVars, outcome>>

\* The hardened context becomes active.
Activate ==
  /\ pc = "harden" /\ next = Len(Kinds) /\ Goto("record") /\ active' = TRUE
  /\ UNCHANGED <<enabled, critical, next, made, context, stuck, processVars>>

\* recordExecutionStart().
Record ==
  /\ pc = "record"
  /\ Goto("select") \/ Goto("failed")
  /\ Unchanged

\* selectRuntime(): the one configured, or the level's.
SelectRuntime ==
  /\ pc = "select" /\ Goto("build")
  /\ runtime' \in {"docker", "gvisor", "kata"}
  /\ UNCHANGED <<enabled, critical, next, resourceVars, entry, process, timer, network>>

\* Each runtime's command: Docker's asks for no network when the context has a
\* namespace for it or the configuration none, gVisor's always, Kata's never.
HasNetwork(configured) ==
  CASE runtime = "docker" -> "network" \notin context /\ configured
    [] runtime = "gvisor" -> FALSE
    [] runtime = "kata" -> TRUE
BuildCommand ==
  /\ pc = "build" /\ Goto("spawn")
  /\ \E configured \in BOOLEAN : network' = HasNetwork(configured)
  /\ UNCHANGED <<enabled, critical, next, resourceVars, entry, process, timer, runtime>>

\* The entry and the timer come before spawn(), which may throw.
Spawn ==
  /\ pc = "spawn" /\ entry' = TRUE /\ timer' = TRUE
  /\ \/ Goto("running") /\ process' = "alive"
     \/ Goto("failed") /\ UNCHANGED process
  /\ UNCHANGED <<enabled, critical, next, resourceVars, runtime, network>>

\* The process ends or fails to start: its entry goes, and the first settlement of
\* the promise counts.
ProcessEnds ==
  /\ process = "alive" /\ process' = "gone" /\ timer' = FALSE /\ entry' = FALSE
  /\ \/ pc = "running" /\ \E there \in {"ran", "failed"} : Goto(there)
     \/ pc # "running" /\ UNCHANGED <<pc, outcome>>
  /\ UNCHANGED <<enabled, critical, next, resourceVars, runtime, network>>

\* The timeout or too much output: the process is told to end, and the promise
\* rejects without waiting for it.
Abort ==
  /\ process = "alive" /\ pc = "running" /\ Goto("failed")
  /\ timer' \in {timer, FALSE}
  /\ UNCHANGED <<enabled, critical, next, resourceVars, entry, process, runtime, network>>

\* terminateExecution(): the entry goes first; the promise rejects with the
\* process' "error".
Terminate ==
  /\ entry /\ entry' = FALSE
  /\ UNCHANGED <<pc, enabled, critical, next, resourceVars, process, timer, runtime, network,
                 outcome>>

\* The timer of a process that was never spawned.
TimerFires ==
  /\ timer /\ process = "none" /\ timer' = FALSE
  /\ UNCHANGED <<pc, enabled, critical, next, resourceVars, entry, process, runtime, network,
                 outcome>>
-----------------------------------------------------------------------------
\* The name under which its maker keeps a thing: the execution's id, or one of the
\* manager's own (a namespace, a network, the path of a control group).
NameOf(kind) == IF kind = "seccomp" THEN "execution" ELSE "own"

\* cleanupSecurityContext() asks for the removal of what the context holds in this
\* order, by the id of the execution; what has another name is not found.  It stops at
\* the first call of a manager that fails; that the profile's file, the last, cannot be
\* removed is passed over.  MAC profiles stay.
Order == <<"userns", "network", "group", "seccomp">>
Found(kinds) == {kind \in kinds \cap context : NameOf(kind) = "execution"}
CleanContext(afterwards, how) ==
  \E n \in 0..Len(Order) :
    /\ n < Len(Order) => Order[n + 1] \in context
    /\ made' = made \ Found(ToSet(SubSeq(Order, 1, n)))
    /\ stuck' = IF n < Len(Order) THEN TRUE ELSE stuck
    /\ active' = IF n < Len(Order) - 1 THEN active ELSE FALSE
    /\ pc' = afterwards /\ outcome' = how
    /\ UNCHANGED <<context, enabled, critical, next, processVars>>

\* Mutant: what an execution that failed had made is left to the next start.
CleanUpFailureOfNone ==
  /\ pc = "failed" /\ Settle("error")
  /\ Unchanged

\* After a failure the context is cleaned up and execute() rejects.
CleanUpFailure == pc = "failed" /\ CleanContext("settled", "error")

\* performSecurityScanning() reads what the process wrote while trivy scans the image;
\* whatever is found or fails is logged.
Scan == pc = "ran" /\ Goto("scanning") /\ Unchanged
ScanImage == pc = "scanning" /\ Goto("scanned") /\ Unchanged

\* docker stats, which may find the container gone, and the managers' numbers.
Measure == pc = "scanned" /\ Goto("counted") /\ Unchanged
MeasureSecurity == pc = "counted" /\ Goto("measured") /\ Unchanged

\* docker stop and rm and the clean-up's failure are only logged.
CleanUpSuccess ==
  /\ pc = "measured"
  /\ \/ CleanContext("end", outcome)
     \/ /\ Goto("end") /\ stuck' = TRUE
        /\ UNCHANGED <<enabled, critical, next, made, context, active, processVars>>

\* recordExecutionEnd(): its failure cleans up once more.
RecordEnd ==
  /\ pc = "end"
  /\ Settle("result") \/ Goto("failed")
  /\ Unchanged

Next ==
  \/ ReadAllowedImages \/ ValidateConfig \/ ValidateImage \/ ValidateCommand
  \/ ValidateEnvironment \/ ValidateSecurity \/ Harden \/ EnforceNonRoot \/ Activate
  \/ Record \/ SelectRuntime \/ BuildCommand \/ Spawn \/ ProcessEnds \/ Abort \/ Terminate \/ TimerFires \/ Scan
  \/ ScanImage \/ Measure \/ MeasureSecurity
  \/ CleanUpFailure \/ CleanUpSuccess \/ RecordEnd

Spec == Init /\ [][Next]_runVars
-----------------------------------------------------------------------------
TypeOK ==
  /\ next \in 0..Len(Kinds) /\ {made, context} \subseteq SUBSET ToSet(Kinds)
  /\ {active, entry, timer, stuck, critical, network} \subseteq BOOLEAN

\* However far an execution got, when it has settled and no call of the clean-up
\* failed, its context is not active and its profile's file is gone, unless the context
\* never got its id; every other thing the context holds the id of is still there.
\* When its process has ended, nothing lists or times it any more; and one that runs at
\* the critical level got every hardening that level requires, and none of them has a
\* network outside Kata (container-executor.ts:337-343, 368-379, 542-552, 618-623,
\* 758-807, 924-926).
SettledIsCleanedUp ==
  /\ TypeOK
  /\ pc = "settled" /\ ~stuck =>
       /\ ~active
       /\ \A kind \in context \ {"mac", "capabilities"} :
            kind \in made <=> NameOf(kind) = "own"
  /\ process = "gone" => ~entry /\ ~timer
  /\ process # "none" /\ critical =>
       Required \subseteq context /\ (network => runtime = "kata")
=============================================================================
