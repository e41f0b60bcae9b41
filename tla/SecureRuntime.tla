--------------------------- MODULE SecureRuntime ----------------------------
(***************************************************************************)
(* SecureRuntime.invoke() and close(), and the response gate of            *)
(* AuditedMcpServer: how a request goes through policy, admission, the     *)
(* durable admission record, the tool, the outcome record and the reply.   *)
(*                                                                         *)
(* The module composes the execution controller with the audit log the     *)
(* dispatcher implements.  A record is a pair of a call and an outcome: no *)
(* call writes the same outcome twice.  The operation handed to            *)
(* execution.run() ("op") goes on after invoke() has stopped waiting.      *)
(***************************************************************************)
EXTENDS Naturals, FiniteSets

CONSTANTS
  Calls,          \* tools/call requests
  MaxConcurrent,  \* limits.maxConcurrent
  ToolFailures    \* codes a tool's own failure maps to (failureCode)

Denials == {"denied", "invalid_input"}
Results == {"success", "tool_error"}
Aborts == {"timeout", "cancelled", "shutting_down"}
Failures ==
  Denials \cup Aborts \cup (ToolFailures \ {"audit_unavailable"}) \cup {"busy", "output_too_large"}
ProtocolOutcomes == {"tool_rejected", "protocol_error"}
OpOutcomes == Results \cup Failures \cup {"audit_unavailable"}
Records == Calls \X ({"allowed"} \cup Results \cup Failures \cup ProtocolOutcomes)

ASSUME CapacityAssumption == MaxConcurrent \in Nat \ {0}

Pending == {"none", "running", "reporting"}

\* A tool's failure has a FailureCode (errors.ts:1-12), which is no result, no
\* observation of the gate and none of the stages named below.  It may be
\* "audit_unavailable": a handler can throw any RuntimeFailure.
ASSUME ToolFailuresAssumption ==
  ToolFailures \cap (Results \cup ProtocolOutcomes \cup Pending \cup
    {"allowed", "rejected", "error", "idle", "pending"}) = {}

VARIABLES
  active, work, aborted, returned, shutdown, remaining,   \* the execution controller
  answer, stored, healthy,                                \* the audit log
  op,        \* how far the call's operation has come
  reply,     \* invoke(): none, running, reporting, or the outcome it returned;
             \* rejected or error when the SDK answered without invoke()
  recorded,  \* request.toolOutcomeRecorded
  sent,      \* the response: none, observing, response, audit_unavailable or
             \* withdrawn
  closing    \* close(): open, draining, disposing, auditing, closed or rejected

execVars == <<active, work, aborted, returned, shutdown, remaining>>
logVars == <<answer, stored, healthy>>
callVars == <<op, reply, recorded, sent>>
vars == <<execVars, logVars, callVars, closing>>

Exec == INSTANCE Execution WITH Outcomes <- OpOutcomes
Log == INSTANCE AuditLog WITH Writes <- Records

TypeOK ==
  /\ Exec!TypeOK
  /\ answer \in [Records -> {"none", "open", "acked", "lost", "refused"}]
  /\ stored \subseteq Records
  /\ healthy \in BOOLEAN
  /\ op \in [Calls -> {"idle", "parsing", "admitting", "invoking", "recording", "done"}]
  /\ reply \in [Calls -> Pending \cup OpOutcomes \cup {"rejected", "error"}]
  /\ recorded \in [Calls -> BOOLEAN]
  /\ sent \in [Calls -> {"none", "observing", "response", "audit_unavailable", "withdrawn"}]
  /\ closing \in {"open", "draining", "disposing", "auditing", "closed", "rejected"}

Init ==
  /\ Exec!Init
  /\ Log!Init
  /\ op = [c \in Calls |-> "idle"]
  /\ reply = [c \in Calls |-> "none"]
  /\ recorded = [c \in Calls |-> FALSE]
  /\ sent = [c \in Calls |-> "none"]
  /\ closing = "open"

\* Mutant: write() does not look at the latch.
WriteUnlatched(r) ==
  /\ answer[r] = "none"
  /\ answer' = [answer EXCEPT ![r] = "open"]
  /\ UNCHANGED <<stored, healthy>>

\* write(): the record is taken, or counted as dropped.
Write(r) == Log!Accept(r) \/ Log!Refuse(r)

Acked(r) == answer[r] = "acked"

Lost(r) == answer[r] \in {"lost", "refused"}
-----------------------------------------------------------------------------
(***************************************************************************)
(* The operation: the callback invoke() hands to execution.run()           *)
(***************************************************************************)
Start(c) ==
  /\ Exec!Start(c)
  /\ op' = [op EXCEPT ![c] = "parsing"]
  /\ UNCHANGED <<logVars, reply, recorded, sent, closing>>

Skip(c) == Exec!Skip(c) /\ UNCHANGED <<logVars, callVars, closing>>

\* The operation's promise settles.
End(c, outcome) ==
  /\ Exec!Finish(c, outcome)
  /\ op' = [op EXCEPT ![c] = "done"]
  /\ UNCHANGED <<logVars, reply, sent, closing>>

InputInvalid(c) ==
  /\ op[c] = "parsing"
  /\ End(c, "invalid_input")
  /\ UNCHANGED recorded

\* Mutant: the abort is not tested after the schema was evaluated.
RecordAdmissionAborted(c) ==
  /\ op[c] = "parsing"
  /\ Write(<<c, "allowed">>)
  /\ op' = [op EXCEPT ![c] = "admitting"]
  /\ UNCHANGED <<execVars, reply, recorded, sent, closing>>

RecordAdmission(c) ==
  /\ op[c] = "parsing"
  /\ aborted[c] = "none"
  /\ Write(<<c, "allowed">>)
  /\ op' = [op EXCEPT ![c] = "admitting"]
  /\ UNCHANGED <<execVars, reply, recorded, sent, closing>>

InvokeTool(c) ==
  /\ op[c] = "admitting"
  /\ Acked(<<c, "allowed">>)
  /\ aborted[c] = "none"
  /\ op' = [op EXCEPT ![c] = "invoking"]
  /\ UNCHANGED <<execVars, logVars, reply, recorded, sent, closing>>

\* boundedSignal.throwIfAborted() after the parse, the admission and the tool.
Abandon(c) ==
  /\ op[c] = "parsing" \/ (op[c] = "admitting" /\ Acked(<<c, "allowed">>)) \/ op[c] = "invoking"
  /\ aborted[c] # "none"
  /\ End(c, aborted[c])
  /\ UNCHANGED recorded

ToolFails(c, code) ==
  /\ op[c] = "invoking"
  /\ End(c, code)
  /\ UNCHANGED recorded

\* Mutant: the size of the output is checked after the result was recorded.
OutputTooLargeAfterRecording(c) ==
  /\ op[c] = "recording"
  /\ Acked(<<c, "success">>)
  /\ aborted[c] = "none"
  /\ End(c, "output_too_large")
  /\ UNCHANGED recorded

OutputTooLarge(c) ==
  /\ op[c] = "invoking"
  /\ aborted[c] = "none"
  /\ End(c, "output_too_large")
  /\ UNCHANGED recorded

\* The tool has returned: value.isError tells the outcome to record.
ToolReturns(c, result) ==
  /\ op[c] = "invoking"
  /\ aborted[c] = "none"
  /\ Write(<<c, result>>)
  /\ op' = [op EXCEPT ![c] = "recording"]
  /\ UNCHANGED <<execVars, reply, recorded, sent, closing>>

ResultRecorded(c, result) ==
  /\ op[c] = "recording"
  /\ Acked(<<c, result>>)
  /\ recorded' = [recorded EXCEPT ![c] = TRUE]
  /\ End(c, result)

RecordLost(c) ==
  /\ \/ op[c] = "admitting" /\ Lost(<<c, "allowed">>)
     \/ op[c] = "recording" /\ \E result \in Results : Lost(<<c, result>>)
  /\ End(c, "audit_unavailable")
  /\ UNCHANGED recorded

Operation(c) ==
  \/ Start(c) \/ Skip(c) \/ InputInvalid(c) \/ RecordAdmission(c) \/ InvokeTool(c)
  \/ Abandon(c) \/ OutputTooLarge(c) \/ RecordLost(c)
  \/ \E code \in ToolFailures : ToolFails(c, code)
  \/ \E result \in Results : ToolReturns(c, result) \/ ResultRecorded(c, result)
-----------------------------------------------------------------------------
(***************************************************************************)
(* invoke()                                                                *)
(***************************************************************************)

\* Policy, element or size checks fail: record the denial in the same turn.
Deny(c, outcome) ==
  /\ reply[c] = "none"
  /\ Write(<<c, outcome>>)
  /\ reply' = [reply EXCEPT ![c] = "reporting"]
  /\ UNCHANGED <<execVars, op, recorded, sent, closing>>

Run(c) ==
  /\ reply[c] = "none"
  /\ Exec!Admit(c) \/ Exec!Refuse(c)
  /\ reply' = [reply EXCEPT ![c] = "running"]
  /\ UNCHANGED <<logVars, op, recorded, sent, closing>>

\* execution.run() resolved, or rejected because a record was lost.
Return(c) ==
  /\ reply[c] = "running"
  /\ returned[c] \in Results \cup {"audit_unavailable"}
  /\ reply' = [reply EXCEPT ![c] = returned[c]]
  /\ UNCHANGED <<execVars, logVars, op, recorded, sent, closing>>

\* execution.run() rejected otherwise: record the failure.
Report(c) ==
  /\ reply[c] = "running"
  /\ returned[c] \in Failures
  /\ Write(<<c, returned[c]>>)
  /\ reply' = [reply EXCEPT ![c] = "reporting"]
  /\ UNCHANGED <<execVars, op, recorded, sent, closing>>

Reported(c, outcome) ==
  /\ reply[c] = "reporting"
  /\ Acked(<<c, outcome>>)
  /\ recorded' = [recorded EXCEPT ![c] = TRUE]
  /\ reply' = [reply EXCEPT ![c] = outcome]
  /\ UNCHANGED <<execVars, logVars, op, sent, closing>>

\* Mutant: the reply still names the outcome whose record was lost.
ReportLostIgnored(c, outcome) ==
  /\ reply[c] = "reporting"
  /\ Lost(<<c, outcome>>)
  /\ reply' = [reply EXCEPT ![c] = outcome]
  /\ UNCHANGED <<execVars, logVars, op, recorded, sent, closing>>

ReportLost(c, outcome) ==
  /\ reply[c] = "reporting"
  /\ Lost(<<c, outcome>>)
  /\ reply' = [reply EXCEPT ![c] = "audit_unavailable"]
  /\ UNCHANGED <<execVars, logVars, op, recorded, sent, closing>>

\* The SDK answers without calling invoke(): a result with isError, or an error.
SdkAnswers(c, kind) ==
  /\ reply[c] = "none"
  /\ reply' = [reply EXCEPT ![c] = kind]
  /\ UNCHANGED <<execVars, logVars, op, recorded, sent, closing>>

Invocation(c) ==
  \/ \E outcome \in Denials : Deny(c, outcome)
  \/ Run(c) \/ Return(c) \/ Report(c)
  \/ \E outcome \in Failures : Reported(c, outcome) \/ ReportLost(c, outcome)
  \/ \E kind \in {"rejected", "error"} : SdkAnswers(c, kind)
-----------------------------------------------------------------------------
(***************************************************************************)
(* AuditedMcpServer: transport.send() as connect() wraps it                *)
(***************************************************************************)
IsError(c) == reply[c] \notin {"success", "error"}

\* Mutant: results with isError are not observed.
ObservationOfErrorsOnly(c) == IF reply[c] = "error" THEN {"protocol_error"} ELSE {}

\* What send() must record before it forwards the response.
Observation(c) ==
  IF reply[c] = "error" THEN {"protocol_error"}
  ELSE IF IsError(c) /\ ~recorded[c] THEN {"tool_rejected"} ELSE {}

Forward(c) ==
  /\ reply[c] \notin Pending /\ sent[c] = "none"
  /\ Observation(c) = {}
  /\ sent' = [sent EXCEPT ![c] = "response"]
  /\ UNCHANGED <<execVars, logVars, op, reply, recorded, closing>>

Observe(c) ==
  /\ reply[c] \notin Pending /\ sent[c] = "none"
  /\ \E kind \in Observation(c) : Write(<<c, kind>>)
  /\ sent' = [sent EXCEPT ![c] = "observing"]
  /\ UNCHANGED <<execVars, op, reply, recorded, closing>>

Observed(c, kind) ==
  /\ sent[c] = "observing"
  /\ answer[<<c, kind>>] \in {"acked", "lost", "refused"}
  /\ sent' = [sent EXCEPT ![c] = IF Acked(<<c, kind>>) THEN "response" ELSE "audit_unavailable"]
  /\ UNCHANGED <<execVars, logVars, op, reply, recorded, closing>>

Response(c) ==
  Forward(c) \/ Observe(c) \/ \E kind \in ProtocolOutcomes : Observed(c, kind)
-----------------------------------------------------------------------------
(***************************************************************************)
(* close()                                                                 *)
(***************************************************************************)
Close ==
  /\ closing = "open"
  /\ Exec!Close
  /\ closing' = "draining"
  /\ UNCHANGED <<logVars, callVars>>

\* Mutant: resources are disposed of whatever execution.close() counted.
DrainDisposingAlways ==
  /\ closing = "draining"
  /\ Exec!DrainSettled \/ Exec!GraceExpires
  /\ closing' = "disposing"
  /\ UNCHANGED <<logVars, callVars>>

\* execution.close() resolves: dispose of resources only when it counted none.
Drain ==
  /\ closing = "draining"
  /\ Exec!DrainSettled \/ Exec!GraceExpires
  /\ closing' = IF remaining' = 0 THEN "disposing" ELSE "auditing"
  /\ UNCHANGED <<logVars, callVars>>

\* A disposer that rejects ends close() before the audit sink is closed.
Dispose ==
  /\ closing = "disposing"
  /\ closing' \in {"auditing", "rejected"}
  /\ UNCHANGED <<execVars, logVars, callVars>>

AuditCloses ==
  /\ closing = "auditing"
  /\ \/ closing' = "closed" /\ UNCHANGED logVars
     \/ closing' = "rejected" /\ Log!FailClosing
  /\ UNCHANGED <<execVars, callVars>>
-----------------------------------------------------------------------------
(***************************************************************************)
(* The environment: timers, callers and the sink                           *)
(***************************************************************************)
\* Mutant: no deadline is set.
TimeoutNever(c) == c \notin Calls /\ UNCHANGED vars

Timeout(c) == Exec!Timeout(c) /\ UNCHANGED <<logVars, callVars, closing>>
CallerAbort(c) ==
  /\ sent[c] = "none"
  /\ Exec!CallerAbort(c)
  /\ UNCHANGED <<logVars, callVars, closing>>

\* The SDK sends no response to a request that its caller has cancelled, during
\* the invocation or after it.
Withdraw(c) ==
  /\ reply[c] \notin Pending /\ sent[c] = "none"
  /\ sent' = [sent EXCEPT ![c] = "withdrawn"]
  /\ UNCHANGED <<execVars, logVars, op, reply, recorded, closing>>

Sink(r) ==
  /\ Log!Ack(r) \/ Log!Lose(r) \/ Log!StoreLate(r)
  /\ UNCHANGED <<execVars, callVars, closing>>

\* Every request was answered, and no operation or record is open.
Quiescent ==
  /\ \A c \in Calls : sent[c] \in {"response", "audit_unavailable", "withdrawn"}
  /\ active = {}
  /\ closing \in {"open", "closed", "rejected"}
  /\ \A r \in Records : answer[r] # "open"
  /\ UNCHANGED vars

Next ==
  \/ \E c \in Calls :
       \/ Operation(c) \/ Invocation(c) \/ Response(c)
       \/ Timeout(c) \/ CallerAbort(c) \/ Withdraw(c)
  \/ \E r \in Records : Sink(r)
  \/ Close \/ Drain \/ Dispose \/ AuditCloses
  \/ Quiescent

\* Queued turns run, timers fire and the dispatcher answers every write; a tool,
\* an input schema and a disposer may block for ever.
Fairness ==
  /\ \A c \in Calls :
       /\ WF_vars(Start(c)) /\ WF_vars(Skip(c)) /\ WF_vars(Timeout(c))
       /\ WF_vars(Return(c)) /\ WF_vars(Report(c)) /\ WF_vars(Response(c))
       /\ WF_vars(InvokeTool(c)) /\ WF_vars(RecordLost(c))
       /\ \A result \in Results : WF_vars(ResultRecorded(c, result))
       /\ \A outcome \in Failures :
            WF_vars(Reported(c, outcome)) /\ WF_vars(ReportLost(c, outcome))
  /\ \A r \in Records : WF_vars(Sink(r) /\ answer' # answer)
  /\ WF_vars(Drain)
  /\ WF_vars(AuditCloses)

Spec == Init /\ [][Next]_vars
FairSpec == Spec /\ Fairness
-----------------------------------------------------------------------------
(***************************************************************************)
(* Properties                                                              *)
(***************************************************************************)

\* A tool runs only after its admission record is stored (runtime.ts:210-212).
ToolIsAdmitted ==
  \A c \in Calls : op[c] \in {"invoking", "recording"} => <<c, "allowed">> \in stored

\* invoke() claims an outcome only if the sink stored that outcome for the call,
\* whoever wrote it and whatever aborted meanwhile (runtime.ts:216-237).
ReplyIsAudited ==
  \A c \in Calls : reply[c] \in Results \cup Failures => <<c, reply[c]>> \in stored

\* What the runtime acts on and what it claims is stored first: both of the above,
\* the record before the tool and the record before the reply.
ClaimsAreStored == ToolIsAdmitted /\ ReplyIsAudited

\* Every response leaves with a stored record of how the request ended, except
\* the denial for want of audit itself (audit.ts:161-187).
ResponseIsAudited ==
  \A c \in Calls :
    sent[c] = "response" => \E r \in stored : r[1] = c /\ r[2] # "allowed"

\* The call was admitted, and no result of its tool was written.
NoResultWritten(c) ==
  /\ op[c] = "done" /\ Acked(<<c, "allowed">>)
  /\ \A result \in Results : answer[<<c, result>>] = "none"

\* A request is denied for want of audit only when readiness is off, so that the
\* loss is visible to the operator, unless its tool ran and failed with that very code
\* itself (audit.ts:52, runtime.ts:228-235).
DenialIsVisible ==
  \A c \in Calls :
    /\ sent[c] = "audit_unavailable" => ~healthy
    /\ reply[c] = "audit_unavailable" =>
         ~healthy \/ ("audit_unavailable" \in ToolFailures /\ NoResultWritten(c))

ToolOutcomes(c) == {o \in Results \cup Failures : <<c, o>> \in stored}

\* Two outcomes are stored for one call only when an abort overtook the record of
\* its result, and one of them is that abort (runtime.ts:213-221, execution.ts:48).
TwoOutcomesOnlyByAbort ==
  \A c \in Calls :
    Cardinality(ToolOutcomes(c)) > 1 =>
      aborted[c] \in ToolOutcomes(c) /\ Cardinality(ToolOutcomes(c)) = 2

\* close() disposes of the tools' resources only when no operation can still use
\* them, and none starts afterwards (runtime.ts:260-262).
DisposedWhenIdle ==
  closing = "disposing" \/ (closing \notin {"open", "draining"} /\ remaining = 0) =>
    Exec!Live = {} /\ \A c \in Calls : op[c] \in {"idle", "done"}

\* Of the records of a request at most two are pending at a time, and once it has
\* an outcome its operation writes none (runtime.ts:208-231, audit.ts:161-169).
Open(c, outcomes) == \E o \in outcomes : answer[<<c, o>>] = "open"
Writes == INSTANCE CallWrites WITH
  writing <- [c \in Calls |-> Open(c, {"allowed"} \cup Results)],
  replying <- [c \in Calls |-> Open(c, Failures \cup ProtocolOutcomes)],
  replied <- [c \in Calls |-> reply[c] \notin {"none", "running"}]
ImplementsCallWrites == Writes!Spec

\* After a loss of audit no further request reaches a tool (audit.ts:52 and 91).
FailClosed ==
  \A c \in Calls : [](~healthy /\ reply[c] = "none" => [](op[c] # "invoking"))

\* Every request that is not withdrawn is answered although its tool, its input
\* schema or the sink blocks (execution.ts:48, audit.ts:100), and close() gets
\* past operations that never settle (execution.ts:61-68).
EveryWaitEnds ==
  /\ \A c \in Calls :
       reply[c] # "none" ~> sent[c] \in {"response", "audit_unavailable", "withdrawn"}
  /\ closing = "draining" ~> closing \in {"disposing", "closed", "rejected"}
-----------------------------------------------------------------------------
\* Two requests that are served to the end: the server is not closed meanwhile, and
\* neither is withdrawn before its response.
OpenSpec == Init /\ [][Next /\ ~Close /\ ~\E c \in Calls : Withdraw(c)]_vars

\* "Count tool attempts using terminal kind:"tool" outcomes (all outcomes except
\* allowed)" (OPERATIONS.md:40): an attempt has one terminal outcome.
OneOutcomePerAttempt == \A c \in Calls : Cardinality(ToolOutcomes(c)) <= 1
=============================================================================
