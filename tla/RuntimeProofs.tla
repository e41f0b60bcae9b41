--------------------------- MODULE RuntimeProofs ----------------------------
(***************************************************************************)
(* Theorems about the secure runtime for any requests, any capacity and    *)
(* any failures of the tools.                                              *)
(*                                                                         *)
(* Every step of the runtime is a step of the execution controller or a    *)
(* stutter, and a step of the audit log or a stutter.  So the invariant    *)
(* proved of the controller in ExecutionProofs holds of the controller     *)
(* inside the runtime, and the log forgets no record and regains no health.*)
(***************************************************************************)
EXTENDS SecureRuntime, FiniteSetTheorems, TLAPS

EP == INSTANCE ExecutionProofs WITH Outcomes <- OpOutcomes
-----------------------------------------------------------------------------
(***************************************************************************)
(* The runtime's steps, seen by its two components                         *)
(***************************************************************************)
LEMMA StepsOfExecution == TypeOK /\ [Next]_vars => [Exec!Next]_execVars
<1> SUFFICES ASSUME TypeOK, [Next]_vars PROVE Exec!Next \/ UNCHANGED execVars
  OBVIOUS
<1> USE DEF execVars
<1>1. ASSUME NEW c \in Calls, Operation(c) PROVE Exec!Next \/ UNCHANGED execVars
  <2>1. ASSUME NEW outcome \in OpOutcomes, End(c, outcome) PROVE Exec!Next
    BY <2>1 DEF End, Exec!Next
  <2>2. CASE Start(c) \/ Skip(c)
    BY <2>2 DEF Start, Skip, Exec!Next
  <2>3. CASE RecordAdmission(c) \/ InvokeTool(c) \/ \E result \in Results : ToolReturns(c, result)
    BY <2>3 DEF RecordAdmission, InvokeTool, ToolReturns
  <2>4. CASE Abandon(c)
    <3>1. aborted[c] \in OpOutcomes
      BY <2>4 DEF Abandon, TypeOK, Exec!TypeOK, Exec!Aborts, OpOutcomes, Failures, Aborts
    <3> QED
      BY <2>1, <2>4, <3>1 DEF Abandon
  <2>5. CASE InputInvalid(c) \/ OutputTooLarge(c) \/ RecordLost(c)
    BY <2>1, <2>5 DEF InputInvalid, OutputTooLarge, RecordLost, OpOutcomes, Failures, Denials
  <2>6. CASE \/ \E code \in ToolFailures : ToolFails(c, code)
             \/ \E result \in Results : ResultRecorded(c, result)
    BY <2>1, <2>6 DEF ToolFails, ResultRecorded, OpOutcomes, Failures
  <2> QED
    BY <1>1, <2>2, <2>3, <2>4, <2>5, <2>6 DEF Operation
<1>2. ASSUME NEW c \in Calls, Invocation(c) PROVE Exec!Next \/ UNCHANGED execVars
  BY <1>2 DEF Invocation, Deny, Run, Return, Report, Reported, ReportLost, SdkAnswers, Exec!Next
<1>3. ASSUME NEW c \in Calls, Response(c) \/ Withdraw(c) PROVE UNCHANGED execVars
  BY <1>3 DEF Response, Forward, Observe, Observed, Withdraw
<1>4. ASSUME NEW c \in Calls, Timeout(c) \/ CallerAbort(c) PROVE Exec!Next
  BY <1>4 DEF Timeout, CallerAbort, Exec!Next
<1>5. CASE Close \/ Drain
  BY <1>5 DEF Close, Drain, Exec!Next
<1>6. CASE Dispose \/ AuditCloses \/ Quiescent \/ UNCHANGED vars \/ \E r \in Records : Sink(r)
  BY <1>6 DEF Dispose, AuditCloses, Quiescent, vars, Sink
<1> QED
  BY <1>1, <1>2, <1>3, <1>4, <1>5, <1>6 DEF Next

LEMMA StepsOfLog == [Next]_vars => [Log!Next]_logVars
<1> SUFFICES ASSUME [Next]_vars PROVE Log!Next \/ UNCHANGED logVars
  OBVIOUS
<1> USE DEF logVars
<1>1. ASSUME NEW r \in Records, Write(r) PROVE Log!Next
  BY <1>1 DEF Write, Log!Next
<1>2. ASSUME NEW c \in Calls, NEW o \in {"allowed"} \cup Results \cup Failures \cup ProtocolOutcomes
      PROVE  <<c, o>> \in Records
  BY DEF Records
<1>3. ASSUME NEW c \in Calls, Operation(c) PROVE Log!Next \/ UNCHANGED logVars
  BY <1>1, <1>2, <1>3
     DEF Operation, Start, Skip, InputInvalid, RecordAdmission, InvokeTool, Abandon,
         OutputTooLarge, RecordLost, ToolFails, ToolReturns, ResultRecorded, End
<1>4. ASSUME NEW c \in Calls, Invocation(c) PROVE Log!Next \/ UNCHANGED logVars
  BY <1>1, <1>2, <1>4
     DEF Invocation, Deny, Run, Return, Report, Reported, ReportLost, SdkAnswers, Failures
<1>5. ASSUME NEW c \in Calls, Response(c) PROVE Log!Next \/ UNCHANGED logVars
  <2>1. Observation(c) \subseteq ProtocolOutcomes
    BY DEF Observation, ProtocolOutcomes
  <2> QED
    BY <1>1, <1>2, <1>5, <2>1 DEF Response, Forward, Observe, Observed
<1>6. ASSUME NEW c \in Calls, Timeout(c) \/ CallerAbort(c) \/ Withdraw(c) PROVE UNCHANGED logVars
  BY <1>6 DEF Timeout, CallerAbort, Withdraw
<1>7. ASSUME NEW r \in Records, Sink(r) PROVE Log!Next
  BY <1>7 DEF Sink, Log!Next
<1>8. CASE Close \/ Drain \/ Dispose \/ Quiescent \/ UNCHANGED vars
  BY <1>8 DEF Close, Drain, Dispose, Quiescent, vars
<1>9. CASE AuditCloses
  BY <1>9 DEF AuditCloses, Log!Next
<1> QED
  BY <1>3, <1>4, <1>5, <1>6, <1>7, <1>8, <1>9 DEF Next
-----------------------------------------------------------------------------
(***************************************************************************)
(* The controller's invariant                                              *)
(***************************************************************************)
LEMMA EPAssumptions == EP!MaxConcurrentAssumption /\ EP!OutcomesAssumption
  BY CapacityAssumption, ToolFailuresAssumption
     DEF EP!MaxConcurrentAssumption, EP!OutcomesAssumption, OpOutcomes, Failures, Results,
         Aborts, Denials

\* The same controller, reached through the theorems' module.
LEMMA SameController ==
  /\ Exec!Init <=> EP!Init
  /\ [Exec!Next]_execVars => [EP!Next]_(EP!execVars)
  /\ EP!TypeOK <=> Exec!TypeOK
  /\ EP!Live = Exec!Live
<1>1. Exec!Init <=> EP!Init
  BY DEF Exec!Init, EP!Init
<1>2. ASSUME NEW c \in Calls, Exec!Admit(c) \/ Exec!Refuse(c) PROVE EP!Next
  <2>1. EP!HasCapacity = Exec!HasCapacity
    BY DEF EP!HasCapacity, Exec!HasCapacity, EP!Cardinality, Exec!Cardinality
  <2>2. EP!Admit(c) \/ EP!Refuse(c)
    BY <1>2, <2>1 DEF Exec!Admit, EP!Admit, Exec!Refuse, EP!Refuse, Exec!Refusal, EP!Refusal,
                      Exec!closing, EP!closing
  <2> QED
    BY <2>2 DEF EP!Next
<1>3. ASSUME NEW c \in Calls, Exec!Start(c) \/ Exec!Timeout(c) \/ Exec!CallerAbort(c) PROVE EP!Next
  BY <1>3 DEF EP!Next, EP!Start, Exec!Start, EP!Timeout, Exec!Timeout, EP!CallerAbort,
              Exec!CallerAbort, EP!Abort, Exec!Abort
<1>4. ASSUME NEW c \in Calls, Exec!Skip(c) PROVE EP!Next
  BY <1>4 DEF EP!Next, EP!Skip, Exec!Skip, EP!Settle, Exec!Settle, EP!Race, Exec!Race
<1>5. ASSUME NEW c \in Calls, NEW o \in OpOutcomes, Exec!Finish(c, o) PROVE EP!Next
  BY <1>5 DEF EP!Next, EP!Finish, Exec!Finish, EP!Settle, Exec!Settle, EP!Race, Exec!Race
<1>6. ASSUME Exec!Close PROVE EP!Next
  BY <1>6 DEF EP!Next, EP!Close, Exec!Close, EP!Abort, Exec!Abort
<1>7. ASSUME Exec!DrainSettled PROVE EP!Next
  BY <1>7 DEF EP!Next, EP!DrainSettled, Exec!DrainSettled
<1>8. ASSUME Exec!GraceExpires PROVE EP!Next
  <2>1. EP!Cardinality(active) = Exec!Cardinality(active)
    BY DEF EP!Cardinality, Exec!Cardinality
  <2> QED
    BY <1>8, <2>1 DEF EP!Next, EP!GraceExpires, Exec!GraceExpires
<1>9. ASSUME Exec!Quiescent \/ UNCHANGED execVars PROVE UNCHANGED EP!execVars
  BY <1>9 DEF Exec!Quiescent, Exec!execVars, EP!execVars, execVars
<1>10. EP!TypeOK <=> Exec!TypeOK
  BY DEF EP!TypeOK, Exec!TypeOK, EP!Aborts, Exec!Aborts, EP!Settlements, Exec!Settlements
<1>11. EP!Live = Exec!Live
  BY DEF EP!Live, Exec!Live
<1> QED
  BY <1>1, <1>2, <1>3, <1>4, <1>5, <1>6, <1>7, <1>8, <1>9, <1>10, <1>11 DEF Exec!Next
-----------------------------------------------------------------------------
(***************************************************************************)
(* The runtime's invariant                                                 *)
(***************************************************************************)
LogInv ==
  \A r \in Records :
    /\ answer[r] = "acked" => r \in stored
    /\ answer[r] \in {"lost", "refused"} => healthy = FALSE

Ended(c) == \E r \in stored : r[1] = c /\ r[2] # "allowed"

\* What the operation, its caller and the response claim is in the log.
Claims(c) ==
  /\ op[c] \in {"invoking", "recording"} => <<c, "allowed">> \in stored
  /\ returned[c] \in Results => <<c, returned[c]>> \in stored
  /\ reply[c] \in Results \cup Failures => <<c, reply[c]>> \in stored
  /\ recorded[c] => Ended(c)
  /\ sent[c] = "response" => Ended(c)

ClaimsInv == \A c \in Calls : Claims(c)

\* A response that speaks of lost audit does so because its own record was lost.
DenialInv == \A c \in Calls : sent[c] = "audit_unavailable" => healthy = FALSE

\* The operation is under way exactly while the controller runs it.
OpInv == \A c \in Calls : op[c] \in {"idle", "done"} <=> work[c] # "running"

PhaseInv ==
  /\ closing \notin {"open", "draining"} => shutdown = "drained"
  /\ closing = "disposing" => remaining = 0

IInv == TypeOK /\ EP!IInv /\ LogInv /\ ClaimsInv /\ DenialInv /\ OpInv /\ PhaseInv
-----------------------------------------------------------------------------
LEMMA Codes ==
  /\ Results \cap (Failures \cup Aborts \cup {"audit_unavailable", "busy"}) = {}
  /\ "audit_unavailable" \notin Failures \cup Aborts
  /\ Aborts \subseteq Failures
  /\ "busy" \in Failures
  /\ (Pending \cup {"rejected", "error", "idle", "pending"}) \cap (Results \cup Failures) = {}
  /\ "allowed" \notin Results \cup Failures \cup ProtocolOutcomes
  /\ ProtocolOutcomes \cap (Results \cup Failures) = {}
  BY ToolFailuresAssumption DEF Results, Failures, Denials, Aborts, Pending, ProtocolOutcomes

LEMMA InitIInv == Init => IInv
<1> SUFFICES ASSUME Init PROVE IInv
  OBVIOUS
<1>1. EP!IInv
  BY SameController, EP!InitIInv, CapacityAssumption, EPAssumptions,
     ToolFailuresAssumption DEF Init, OpOutcomes, Failures, Results, Aborts, Denials
<1>2. Exec!TypeOK
  BY <1>1, SameController DEF EP!IInv
<1>3. TypeOK
  BY <1>2, CapacityAssumption DEF Init, Log!Init, TypeOK, Pending
<1>4. LogInv
  BY DEF Init, Log!Init, LogInv
<1>5. ClaimsInv
  BY ToolFailuresAssumption
     DEF Init, Exec!Init, ClaimsInv, Claims, Results, Failures, Denials, Aborts, Pending
<1>6. DenialInv /\ OpInv /\ PhaseInv
  BY DEF Init, Exec!Init, DenialInv, OpInv, PhaseInv
<1> QED
  BY <1>1, <1>3, <1>4, <1>5, <1>6 DEF IInv

LEMMA ControllerPreserved == IInv /\ [Next]_vars => EP!IInv'
  BY StepsOfExecution, SameController, EP!NextPreserves, CapacityAssumption, EPAssumptions,
     ToolFailuresAssumption DEF IInv, OpOutcomes, Failures, Results, Aborts, Denials

LEMMA LogPreserved ==
  ASSUME IInv, [Next]_vars
  PROVE  LogInv' /\ stored \subseteq stored' /\ (healthy = FALSE => healthy' = FALSE)
<1>1. [Log!Next]_logVars
  BY StepsOfLog
<1> QED
  BY <1>1 DEF Log!Next, Log!Accept, Log!Refuse, Log!Ack, Log!Lose, Log!StoreLate, Log!FailClosing,
              logVars, LogInv, IInv, TypeOK

LEMMA RecordsOf ==
  ASSUME NEW c \in Calls, NEW o \in {"allowed"} \cup Results \cup Failures \cup ProtocolOutcomes
  PROVE  <<c, o>> \in Records
  BY DEF Records

-----------------------------------------------------------------------------
(***************************************************************************)
(* The runtime's own steps                                                 *)
(***************************************************************************)
CallTypes ==
  /\ op \in [Calls -> {"idle", "parsing", "admitting", "invoking", "recording", "done"}]
  /\ reply \in [Calls -> Pending \cup OpOutcomes \cup {"rejected", "error"}]
  /\ recorded \in [Calls -> BOOLEAN]
  /\ sent \in [Calls -> {"none", "observing", "response", "audit_unavailable", "withdrawn"}]
  /\ closing \in {"open", "draining", "disposing", "auditing", "closed", "rejected"}

CallInv == CallTypes /\ ClaimsInv /\ DenialInv /\ OpInv /\ PhaseInv

LEMMA LogGrows ==
  ASSUME IInv, [Next]_vars
  PROVE  /\ stored \subseteq stored'
         /\ healthy = FALSE => healthy' = FALSE
         /\ \A c \in Calls : Ended(c) => Ended(c)'
  BY LogPreserved DEF Ended

\* A call whose own variables stay as they are keeps its claims.
LEMMA ClaimsKept ==
  ASSUME IInv, [Next]_vars, NEW c \in Calls,
         op'[c] = op[c] \/ op'[c] \notin {"invoking", "recording"} \/ op[c] = "invoking",
         returned'[c] = returned[c] \/ returned'[c] \notin Results,
         reply'[c] = reply[c] \/ reply'[c] \notin Results \cup Failures,
         recorded'[c] => recorded[c],
         sent'[c] = sent[c] \/ sent'[c] # "response"
  PROVE  Claims(c)'
<1>1. Claims(c)
  BY DEF IInv, ClaimsInv
<1> QED
  BY <1>1, LogGrows DEF Claims

\* Only a response whose record was lost begins to speak of lost audit.
LEMMA DenialKept ==
  ASSUME IInv, [Next]_vars,
         \A c \in Calls :
           healthy = FALSE \/ sent'[c] = sent[c] \/ sent'[c] # "audit_unavailable"
  PROVE  DenialInv'
<1>1. DenialInv
  BY DEF IInv
<1> QED
  BY <1>1, LogGrows DEF DenialInv

\* The end of an operation: what it returns is on record.
LEMMA EndPreserves ==
  ASSUME IInv, [Next]_vars, NEW c \in Calls, NEW outcome \in OpOutcomes, End(c, outcome),
         work[c] = "running",
         recorded' \in [Calls -> BOOLEAN],
         \A d \in Calls : recorded'[d] => recorded[d] \/ (d = c /\ outcome \in Results),
         outcome \in Results => <<c, outcome>> \in stored
  PROVE  CallInv'
<1> USE DEF End, Exec!Finish, Exec!Settle, Exec!Race, IInv, TypeOK, Exec!TypeOK
<1>1. CallTypes'
  BY DEF CallTypes
<1>2. ASSUME NEW d \in Calls, d # c PROVE Claims(d)'
  <2>1. op'[d] = op[d] /\ returned'[d] = returned[d] /\ reply'[d] = reply[d]
        /\ (recorded'[d] => recorded[d]) /\ sent'[d] = sent[d]
    BY <1>2
  <2> QED
    BY <2>1, ClaimsKept
<1>3. Claims(c)'
  <2>1. op'[c] = "done" /\ returned'[c] \in {returned[c], outcome}
        /\ reply'[c] = reply[c] /\ sent'[c] = sent[c]
    OBVIOUS
  <2>2. Claims(c)
    BY DEF ClaimsInv
  <2>3. recorded'[c] => Ended(c)
    <3>1. outcome \in Results => Ended(c)
      BY Codes DEF Ended
    <3> QED
      BY <2>2, <3>1 DEF Claims
  <2> QED
    BY <2>1, <2>2, <2>3, LogGrows DEF Claims
<1>4. DenialInv'
  BY DenialKept
<1>5. OpInv' /\ PhaseInv'
  BY DEF OpInv, PhaseInv
<1> QED
  BY <1>1, <1>2, <1>3, <1>4, <1>5 DEF CallInv, ClaimsInv

LEMMA OperationPreserves ==
  ASSUME IInv, [Next]_vars, NEW c \in Calls, Operation(c)
  PROVE  CallInv'
<1> USE DEF IInv, TypeOK, Exec!TypeOK
<1>1. CASE Start(c)
  <2>1. ClaimsInv'
    BY <1>1, ClaimsKept DEF Start, Exec!Start, ClaimsInv
  <2> QED
    BY <1>1, <2>1, LogGrows DEF Start, Exec!Start, CallInv, CallTypes, DenialInv, OpInv, PhaseInv
<1>2. CASE Skip(c)
  <2>1. aborted[c] \in Aborts
    BY <1>2 DEF Skip, Exec!Skip, Exec!Aborts, Aborts
  <2>2. CallTypes' /\ OpInv' /\ PhaseInv'
    BY <1>2 DEF Skip, Exec!Skip, Exec!Settle, CallTypes, callVars, OpInv, PhaseInv
  <2>3. \A d \in Calls : returned'[d] \in {returned[d]} \cup Aborts
    BY <1>2, <2>1 DEF Skip, Exec!Skip, Exec!Settle, Exec!Race
  <2>4. ClaimsInv'
    BY <1>2, <2>3, Codes, ClaimsKept DEF Skip, callVars, ClaimsInv
  <2>5. DenialInv'
    BY <1>2, DenialKept DEF Skip, callVars
  <2> QED
    BY <2>2, <2>4, <2>5 DEF CallInv
<1>3. CASE RecordAdmission(c)
  <2>1. ClaimsInv'
    BY <1>3, ClaimsKept DEF RecordAdmission, execVars, ClaimsInv
  <2> QED
    BY <1>3, <2>1, LogGrows
       DEF RecordAdmission, execVars, CallInv, CallTypes, DenialInv, OpInv, PhaseInv
<1>4. CASE InvokeTool(c)
  <2>1. <<c, "allowed">> \in stored
    BY <1>4, RecordsOf DEF InvokeTool, Acked, LogInv
  <2>2. ASSUME NEW d \in Calls, d # c PROVE Claims(d)'
    BY <1>4, <2>2, ClaimsKept DEF InvokeTool, execVars
  <2>3. Claims(c)'
    <3>1. op'[c] = "invoking" /\ UNCHANGED <<returned, reply, recorded, sent>>
      BY <1>4 DEF InvokeTool, execVars
    <3> QED
      BY <3>1, <2>1, LogGrows DEF ClaimsInv, Claims
  <2> QED
    BY <1>4, <2>2, <2>3, LogGrows
       DEF InvokeTool, execVars, CallInv, CallTypes, ClaimsInv, DenialInv, OpInv, PhaseInv
<1>5. ASSUME NEW result \in Results, ToolReturns(c, result) PROVE CallInv'
  <2>1. ClaimsInv'
    BY <1>5, ClaimsKept DEF ToolReturns, execVars, ClaimsInv
  <2> QED
    BY <1>5, <2>1, LogGrows
       DEF ToolReturns, execVars, CallInv, CallTypes, DenialInv, OpInv, PhaseInv
<1>6. CASE Abandon(c)
  <2>1. aborted[c] \in Aborts /\ End(c, aborted[c]) /\ UNCHANGED recorded
    BY <1>6 DEF Abandon, Exec!Aborts, Aborts
  <2> QED
    BY <2>1, EndPreserves, Codes DEF OpOutcomes, End, Exec!Finish
<1>7. CASE InputInvalid(c) \/ OutputTooLarge(c) \/ \E code \in ToolFailures : ToolFails(c, code)
  <2>1. PICK outcome \in Failures \cup {"audit_unavailable"} :
          End(c, outcome) /\ UNCHANGED recorded
    BY <1>7 DEF InputInvalid, OutputTooLarge, ToolFails, Failures, Denials
  <2> QED
    BY <2>1, EndPreserves, Codes DEF OpOutcomes, End, Exec!Finish
<1>8. ASSUME NEW result \in Results, ResultRecorded(c, result) PROVE CallInv'
  <2>1. <<c, result>> \in stored
    BY <1>8, RecordsOf DEF ResultRecorded, Acked, LogInv
  <2> QED
    BY <1>8, <2>1, EndPreserves, Codes DEF ResultRecorded, OpOutcomes, End, Exec!Finish
<1>9. CASE RecordLost(c)
  BY <1>9, EndPreserves, Codes DEF RecordLost, OpOutcomes, End, Exec!Finish
<1> QED
  BY <1>1, <1>2, <1>3, <1>4, <1>5, <1>6, <1>7, <1>8, <1>9 DEF Operation

LEMMA InvocationPreserves ==
  ASSUME IInv, [Next]_vars, NEW c \in Calls, Invocation(c)
  PROVE  CallInv'
<1> USE DEF IInv, TypeOK, Exec!TypeOK
<1>1. ASSUME NEW outcome \in Denials, Deny(c, outcome) PROVE CallInv'
  <2>1. ClaimsInv'
    BY <1>1, Codes, ClaimsKept DEF Deny, execVars, ClaimsInv, Pending
  <2>2. CallTypes' /\ OpInv' /\ PhaseInv'
    BY <1>1 DEF Deny, execVars, CallTypes, OpInv, PhaseInv, Pending
  <2>3. DenialInv'
    <3>1. /\ UNCHANGED <<returned, sent>>
          /\ \A d \in Calls : reply'[d] = reply[d] \/ reply'[d] = "reporting"
      BY <1>1 DEF Deny, execVars
    <3> QED
      BY <3>1, DenialKept
  <2> QED
    BY <2>1, <2>2, <2>3 DEF CallInv
<1>2. CASE Run(c)
  <2>1. returned'[c] \in Aborts \cup {"pending", "busy"}
    BY <1>2 DEF Run, Exec!Admit, Exec!Refuse, Exec!Refusal, Aborts
  <2>2. \A d \in Calls : returned'[d] = returned[d] \/ d = c
    BY <1>2 DEF Run, Exec!Admit, Exec!Refuse
  <2>3. \A d \in Calls : reply'[d] = reply[d] \/ reply'[d] = "running"
    BY <1>2 DEF Run
  <2>4. ClaimsInv'
    BY <1>2, <2>1, <2>2, <2>3, Codes, ClaimsKept DEF Run, ClaimsInv, Pending
  <2>5. DenialInv'
    <3>1. returned'[c] # "audit_unavailable"
      BY <2>1 DEF Aborts
    <3> QED
      BY <1>2, <2>2, <2>3, <3>1, DenialKept DEF Run
  <2>6. CallTypes'
    BY <1>2 DEF Run, CallTypes, Pending
  <2>7. OpInv' /\ PhaseInv'
    <3>1. /\ UNCHANGED <<op, closing, shutdown, remaining>>
          /\ \A d \in Calls : work'[d] = "running" <=> work[d] = "running"
      BY <1>2 DEF Run, Exec!Admit, Exec!Refuse, EP!IInv, EP!AnswerInv
    <3> QED
      BY <3>1 DEF OpInv, PhaseInv
  <2> QED
    BY <2>4, <2>5, <2>6, <2>7 DEF CallInv
<1>3. CASE Return(c)
  <2>1. Claims(c)'
    <3>1. reply'[c] = returned[c] /\ UNCHANGED <<op, returned, recorded, sent>>
      BY <1>3 DEF Return, execVars
    <3>2. Claims(c)
      BY DEF ClaimsInv
    <3>3. returned[c] \in Results \cup Failures => returned[c] \in Results
      BY <1>3, Codes DEF Return
    <3> QED
      BY <3>1, <3>2, <3>3, LogGrows DEF Claims
  <2>2. ASSUME NEW d \in Calls, d # c PROVE Claims(d)'
    BY <1>3, <2>2, ClaimsKept DEF Return, execVars
  <2>3. DenialInv'
    BY <1>3, DenialKept DEF Return, execVars
  <2>4. CallTypes' /\ OpInv' /\ PhaseInv'
    BY <1>3 DEF Return, execVars, CallTypes, OpOutcomes, OpInv, PhaseInv
  <2> QED
    BY <2>1, <2>2, <2>3, <2>4 DEF CallInv, ClaimsInv
<1>4. CASE Report(c)
  <2>1. ClaimsInv'
    BY <1>4, Codes, ClaimsKept DEF Report, execVars, ClaimsInv, Pending
  <2>2. CallTypes' /\ OpInv' /\ PhaseInv'
    BY <1>4 DEF Report, execVars, CallTypes, OpInv, PhaseInv, Pending
  <2>3. DenialInv'
    <3>1. /\ UNCHANGED <<returned, sent>>
          /\ \A d \in Calls : reply'[d] = reply[d] \/ reply'[d] = "reporting"
      BY <1>4 DEF Report, execVars
    <3> QED
      BY <3>1, DenialKept
  <2> QED
    BY <2>1, <2>2, <2>3 DEF CallInv
<1>5. ASSUME NEW outcome \in Failures, Reported(c, outcome) PROVE CallInv'
  <2>1. <<c, outcome>> \in stored
    BY <1>5, RecordsOf DEF Reported, Acked, LogInv
  <2>2. Claims(c)'
    <3>1. reply'[c] = outcome /\ recorded'[c] = TRUE /\ UNCHANGED <<op, returned, sent>>
      BY <1>5 DEF Reported, execVars
    <3>2. Ended(c)
      BY <2>1, Codes DEF Ended
    <3> QED
      BY <2>1, <3>1, <3>2, LogGrows DEF ClaimsInv, Claims
  <2>3. ASSUME NEW d \in Calls, d # c PROVE Claims(d)'
    BY <1>5, <2>3, ClaimsKept DEF Reported, execVars
  <2>4. DenialInv'
    <3>1. /\ UNCHANGED <<returned, sent>>
          /\ \A d \in Calls : reply'[d] = reply[d] \/ reply'[d] = outcome
      BY <1>5 DEF Reported, execVars
    <3>2. outcome # "audit_unavailable"
      BY Codes
    <3> QED
      BY <3>1, <3>2, DenialKept
  <2>5. CallTypes' /\ OpInv' /\ PhaseInv'
    BY <1>5 DEF Reported, execVars, CallTypes, OpOutcomes, OpInv, PhaseInv
  <2> QED
    BY <2>2, <2>3, <2>4, <2>5 DEF CallInv, ClaimsInv
<1>6. ASSUME NEW outcome \in Failures, ReportLost(c, outcome) PROVE CallInv'
  <2>1. healthy = FALSE
    BY <1>6, RecordsOf DEF ReportLost, Lost, LogInv
  <2>2. ClaimsInv'
    BY <1>6, Codes, ClaimsKept DEF ReportLost, execVars, ClaimsInv
  <2> QED
    BY <1>6, <2>1, <2>2, LogGrows
       DEF ReportLost, execVars, CallInv, CallTypes, OpOutcomes, DenialInv, OpInv, PhaseInv
<1>7. ASSUME NEW kind \in {"rejected", "error"}, SdkAnswers(c, kind) PROVE CallInv'
  <2>1. ClaimsInv'
    BY <1>7, Codes, ClaimsKept DEF SdkAnswers, execVars, ClaimsInv
  <2>2. DenialInv'
    BY <1>7, DenialKept DEF SdkAnswers, execVars
  <2> QED
    BY <1>7, <2>1, <2>2 DEF SdkAnswers, execVars, CallInv, CallTypes, OpInv, PhaseInv
<1> QED
  BY <1>1, <1>2, <1>3, <1>4, <1>5, <1>6, <1>7 DEF Invocation

LEMMA ResponsePreserves ==
  ASSUME IInv, [Next]_vars, NEW c \in Calls, Response(c) \/ Withdraw(c)
  PROVE  CallInv'
<1> USE DEF IInv, TypeOK
<1>1. CASE Forward(c)
  <2>1. Ended(c)
    <3>1. CASE reply[c] = "success"
      <4>1. <<c, "success">> \in stored
        BY <3>1 DEF ClaimsInv, Claims, Results
      <4> QED
        BY <4>1 DEF Ended
    <3>2. CASE reply[c] # "success"
      BY <1>1, <3>2 DEF Forward, Observation, IsError, ClaimsInv, Claims
    <3> QED
      BY <3>1, <3>2
  <2>2. Claims(c)'
    <3>1. UNCHANGED <<op, returned, reply, recorded>>
      BY <1>1 DEF Forward, execVars
    <3> QED
      BY <2>1, <3>1, LogGrows DEF ClaimsInv, Claims
  <2>3. ASSUME NEW d \in Calls, d # c PROVE Claims(d)'
    BY <1>1, <2>3, ClaimsKept DEF Forward, execVars
  <2> QED
    BY <1>1, <2>2, <2>3, LogGrows
       DEF Forward, execVars, CallInv, CallTypes, ClaimsInv, DenialInv, OpInv, PhaseInv
<1>2. CASE Observe(c)
  <2>1. ClaimsInv'
    BY <1>2, ClaimsKept DEF Observe, execVars, ClaimsInv
  <2> QED
    BY <1>2, <2>1, LogGrows
       DEF Observe, execVars, CallInv, CallTypes, DenialInv, OpInv, PhaseInv
<1>3. ASSUME NEW kind \in ProtocolOutcomes, Observed(c, kind) PROVE CallInv'
  <2>1. UNCHANGED <<op, returned, reply, recorded, work, shutdown, remaining, closing>>
    BY <1>3 DEF Observed, execVars
  <2>2. sent'[c] = "response" => Ended(c)
    <3>1. CASE Acked(<<c, kind>>)
      <4>1. <<c, kind>> \in stored
        BY <3>1, RecordsOf DEF Acked, LogInv
      <4> QED
        BY <4>1, Codes DEF Ended
    <3>2. CASE ~Acked(<<c, kind>>)
      BY <1>3, <3>2 DEF Observed
    <3> QED
      BY <3>1, <3>2
  <2>3. Claims(c)'
    BY <2>1, <2>2, LogGrows DEF ClaimsInv, Claims
  <2>4. ASSUME NEW d \in Calls, d # c PROVE Claims(d)'
    BY <1>3, <2>1, <2>4, ClaimsKept DEF Observed
  <2>5. sent'[c] = "audit_unavailable" => healthy = FALSE
    BY <1>3, RecordsOf DEF Observed, Acked, LogInv
  <2>6. DenialInv'
    BY <1>3, <2>1, <2>5, DenialKept DEF Observed
  <2> QED
    BY <1>3, <2>1, <2>3, <2>4, <2>6
       DEF Observed, CallInv, CallTypes, ClaimsInv, OpInv, PhaseInv
<1>4. CASE Withdraw(c)
  <2>1. ClaimsInv'
    BY <1>4, ClaimsKept DEF Withdraw, execVars, ClaimsInv
  <2> QED
    BY <1>4, <2>1, LogGrows
       DEF Withdraw, execVars, CallInv, CallTypes, DenialInv, OpInv, PhaseInv
<1> QED
  BY <1>1, <1>2, <1>3, <1>4 DEF Response

\* Timers, callers and close() abort signals; close() ends the drain.
LEMMA AbortPreserves ==
  ASSUME IInv, [Next]_vars, UNCHANGED callVars,
         UNCHANGED work,
         \A c \in Calls : returned'[c] \in {returned[c]} \cup Aborts,
         closing' \in {"open", "draining", "disposing", "auditing", "closed", "rejected"},
         PhaseInv'
  PROVE  CallInv'
<1>1. ClaimsInv'
  BY ClaimsKept, Codes DEF callVars, ClaimsInv
<1>2. DenialInv'
  BY DenialKept DEF callVars
<1>3. CallTypes' /\ OpInv'
  BY DEF IInv, TypeOK, callVars, CallTypes, OpInv
<1> QED
  BY <1>1, <1>2, <1>3 DEF CallInv

LEMMA EnvironmentPreserves ==
  ASSUME IInv, [Next]_vars,
         \/ \E c \in Calls : Timeout(c) \/ CallerAbort(c)
         \/ \E r \in Records : Sink(r)
         \/ Close \/ Drain \/ Dispose \/ AuditCloses
         \/ Quiescent \/ UNCHANGED vars
  PROVE  CallInv'
<1> USE DEF IInv, TypeOK, Exec!TypeOK
<1>1. ASSUME NEW S \in SUBSET Calls, NEW reason \in Aborts, Exec!Abort(S, reason)
      PROVE  UNCHANGED work /\ \A c \in Calls : returned'[c] \in {returned[c]} \cup Aborts
  BY <1>1 DEF Exec!Abort
<1>2. ASSUME NEW c \in Calls, Timeout(c) \/ CallerAbort(c) PROVE CallInv'
  <2>1. UNCHANGED work /\ \A d \in Calls : returned'[d] \in {returned[d]} \cup Aborts
    BY <1>1, <1>2 DEF Timeout, CallerAbort, Exec!Timeout, Exec!CallerAbort, Aborts
  <2>2. PhaseInv' /\ UNCHANGED <<callVars, closing>>
    BY <1>2 DEF Timeout, CallerAbort, Exec!Timeout, Exec!CallerAbort, PhaseInv
  <2> QED
    BY <2>1, <2>2, AbortPreserves
<1>3. CASE Close
  <2>1. UNCHANGED work /\ \A d \in Calls : returned'[d] \in {returned[d]} \cup Aborts
    BY <1>1, <1>3 DEF Close, Exec!Close, Aborts
  <2>2. PhaseInv' /\ closing' = "draining" /\ UNCHANGED callVars
    BY <1>3 DEF Close, PhaseInv
  <2> QED
    BY <2>1, <2>2, AbortPreserves
<1>4. CASE Drain
  <2>1. UNCHANGED <<work, returned, callVars>> /\ shutdown' = "drained"
        /\ closing' = IF remaining' = 0 THEN "disposing" ELSE "auditing"
    BY <1>4 DEF Drain, Exec!DrainSettled, Exec!GraceExpires
  <2>2. PhaseInv'
    BY <2>1 DEF PhaseInv
  <2> QED
    BY <2>1, <2>2, AbortPreserves
<1>5. CASE Dispose \/ AuditCloses
  <2>1. UNCHANGED <<execVars, callVars>> /\ closing' \in {"auditing", "closed", "rejected"}
        /\ closing \in {"disposing", "auditing"}
    BY <1>5 DEF Dispose, AuditCloses
  <2>2. PhaseInv'
    BY <2>1 DEF PhaseInv, execVars
  <2> QED
    BY <2>1, <2>2, AbortPreserves DEF execVars
<1>6. CASE Quiescent \/ UNCHANGED vars \/ \E r \in Records : Sink(r)
  <2>1. UNCHANGED <<execVars, callVars, closing>>
    BY <1>6 DEF Quiescent, vars, Sink
  <2>2. PhaseInv'
    BY <2>1 DEF PhaseInv, execVars
  <2> QED
    BY <2>1, <2>2, AbortPreserves DEF execVars
<1> QED
  BY <1>2, <1>3, <1>4, <1>5, <1>6

LEMMA NextPreserves == IInv /\ [Next]_vars => IInv'
<1> SUFFICES ASSUME IInv, [Next]_vars PROVE IInv'
  OBVIOUS
<1>1. CallInv'
  <2>1. ASSUME NEW c \in Calls, Operation(c) \/ Invocation(c) \/ Response(c) \/ Withdraw(c)
        PROVE  CallInv'
    BY <2>1, OperationPreserves, InvocationPreserves, ResponsePreserves
  <2>2. ASSUME \/ \E c \in Calls : Timeout(c) \/ CallerAbort(c)
               \/ \E r \in Records : Sink(r)
               \/ Close \/ Drain \/ Dispose \/ AuditCloses
               \/ Quiescent \/ UNCHANGED vars
        PROVE  CallInv'
    BY <2>2, EnvironmentPreserves
  <2> QED
    BY <2>1, <2>2 DEF Next
<1>2. EP!IInv' /\ LogInv'
  BY ControllerPreserved, LogPreserved
<1>3. Exec!TypeOK'
  <2>1. EP!TypeOK'
    BY <1>2 DEF EP!IInv
  <2> QED
    BY <2>1 DEF EP!TypeOK, Exec!TypeOK, EP!Aborts, Exec!Aborts, EP!Settlements, Exec!Settlements
<1>4. /\ answer' \in [Records -> {"none", "open", "acked", "lost", "refused"}]
      /\ stored' \subseteq Records
      /\ healthy' \in BOOLEAN
  BY StepsOfLog DEF IInv, TypeOK, logVars, Log!Next, Log!Accept, Log!Refuse, Log!Ack, Log!Lose,
                    Log!StoreLate, Log!FailClosing
<1> QED
  BY <1>1, <1>2, <1>3, <1>4 DEF IInv, TypeOK, CallInv, CallTypes
-----------------------------------------------------------------------------
(***************************************************************************)
(* Theorems                                                                *)
(***************************************************************************)
THEOREM Invariance == Spec => []IInv
<1>1. Init => IInv
  BY InitIInv
<1>2. IInv /\ [Next]_vars => IInv'
  BY NextPreserves
<1> QED
  BY <1>1, <1>2, PTL DEF Spec

\* Every variable of the runtime keeps its type.
THEOREM TypeCorrect == Spec => []TypeOK
<1>1. IInv => TypeOK
  BY DEF IInv
<1> QED
  BY <1>1, Invariance, PTL

\* A tool runs only after its admission record is stored, for any requests.
THEOREM ToolsAreAdmitted == Spec => []ToolIsAdmitted
<1>1. IInv => ToolIsAdmitted
  BY DEF IInv, ClaimsInv, Claims, ToolIsAdmitted
<1> QED
  BY <1>1, Invariance, PTL

\* invoke() claims no outcome that is not stored for its call.
THEOREM RepliesAreAudited == Spec => []ReplyIsAudited
<1>1. IInv => ReplyIsAudited
  BY DEF IInv, ClaimsInv, Claims, ReplyIsAudited
<1> QED
  BY <1>1, Invariance, PTL

\* No tool runs and no outcome is claimed before its record is stored.
THEOREM ClaimsAreAlwaysStored == Spec => []ClaimsAreStored
<1>1. ToolIsAdmitted /\ ReplyIsAudited => ClaimsAreStored
  BY DEF ClaimsAreStored
<1> QED
  BY <1>1, ToolsAreAdmitted, RepliesAreAudited, PTL

\* No response but the denial for want of audit leaves without a record of how
\* its request ended.
THEOREM ResponsesAreAudited == Spec => []ResponseIsAudited
<1>1. IInv => ResponseIsAudited
  BY DEF IInv, ClaimsInv, Claims, Ended, ResponseIsAudited
<1> QED
  BY <1>1, Invariance, PTL

\* Resources are disposed of only when no operation is under way or can start.
THEOREM DisposalFindsNothingLive == Spec => []DisposedWhenIdle
<1>1. IInv => DisposedWhenIdle
  <2> SUFFICES ASSUME IInv, closing = "disposing" \/ (closing \notin {"open", "draining"} /\ remaining = 0)
               PROVE  Exec!Live = {} /\ \A c \in Calls : op[c] \in {"idle", "done"}
    BY DEF DisposedWhenIdle
  <2>1. shutdown = "drained" /\ remaining = 0
    BY DEF IInv, PhaseInv
  <2>2. Exec!Live = {}
    BY <2>1 DEF IInv, EP!IInv, EP!DrainedMeansIdle, EP!Live, Exec!Live
  <2> QED
    BY <2>2 DEF IInv, OpInv, Exec!Live
<1> QED
  BY <1>1, Invariance, PTL

\* The runtime uses the controller as its specification allows.
THEOREM ImplementsExecution == Spec => Exec!Spec
<1>1. Init => Exec!Init
  BY DEF Init
<1>2. TypeOK /\ [Next]_vars => [Exec!Next]_(Exec!execVars)
  BY StepsOfExecution DEF Exec!execVars, execVars
<1> QED
  BY <1>1, <1>2, TypeCorrect, PTL DEF Spec, Exec!Spec

\* The runtime uses the audit log as its specification allows.
THEOREM ImplementsAuditLog == Spec => Log!Spec
<1>1. Init => Log!Init
  BY DEF Init
<1>2. [Next]_vars => [Log!Next]_(Log!logVars)
  BY StepsOfLog DEF Log!logVars, logVars
<1> QED
  BY <1>1, <1>2, PTL DEF Spec, Log!Spec
-----------------------------------------------------------------------------
(***************************************************************************)
(* The records of one call                                                 *)
(***************************************************************************)
Wrote(c, o) == answer[<<c, o>>] # "none"
Waits(c, o) == answer[<<c, o>>] = "open"

\* What the operation has written tells how far it has come.
OperationRecords(c) ==
  /\ work[c] \in {"idle", "queued"} => op[c] = "idle"
  /\ op[c] \in {"idle", "parsing"} => ~Wrote(c, "allowed")
  /\ op[c] \in {"invoking", "recording"} => Acked(<<c, "allowed">>)
  /\ Waits(c, "allowed") => op[c] = "admitting"
  /\ \A o \in Results :
       /\ Wrote(c, o) => op[c] \in {"recording", "done"}
       /\ Waits(c, o) => op[c] = "recording"
       /\ Wrote(c, o) => \/ returned[c] \in Results \cup {"pending", "audit_unavailable"}
                         \/ returned[c] \in Aborts /\ returned[c] = aborted[c]
       /\ \A p \in Results : Wrote(c, o) /\ Wrote(c, p) => o = p

\* invoke() writes one record of a failure: a denial, or what run() returned.
ReplyRecords(c) ==
  /\ reply[c] = "none" => work[c] = "idle"
  /\ returned[c] = "pending" => reply[c] = "running"
  /\ \A o \in Failures :
       /\ Wrote(c, o) => reply[c] \notin {"none", "running"}
       /\ Waits(c, o) => reply[c] = "reporting"
       /\ Wrote(c, o) => o = returned[c] \/ work[c] = "idle"
       /\ \A p \in Failures : Wrote(c, o) /\ Wrote(c, p) => o = p

\* The gate writes one record, of a request that has an outcome.
GateRecords(c) ==
  /\ sent[c] # "none" => reply[c] \notin Pending
  /\ \A o \in ProtocolOutcomes :
       /\ Wrote(c, o) => sent[c] # "none"
       /\ Waits(c, o) => sent[c] = "observing"
       /\ \A p \in ProtocolOutcomes : Wrote(c, o) /\ Wrote(c, p) => o = p

RecordsOK(c) == OperationRecords(c) /\ ReplyRecords(c) /\ GateRecords(c)

\* What is stored was written, and not refused.
StoredInv == \A r \in stored : answer[r] \in {"acked", "lost"}

RecordsInv == StoredInv /\ \A c \in Calls : RecordsOK(c)
LEMMA InitRecords == Init => RecordsInv
  BY Codes DEF Init, Exec!Init, Log!Init, RecordsInv, StoredInv, RecordsOK, OperationRecords,
               ReplyRecords, GateRecords, Wrote, Waits, Acked, Records

LEMMA StoredPreserved ==
  ASSUME IInv, StoredInv, [Next]_vars
  PROVE  StoredInv'
<1>1. [Log!Next]_logVars
  BY StepsOfLog
<1> QED
  BY <1>1 DEF Log!Next, Log!Accept, Log!Refuse, Log!Ack, Log!Lose, Log!StoreLate, Log!FailClosing,
              logVars, StoredInv, IInv, TypeOK

AllOutcomes == {"allowed"} \cup Results \cup Failures \cup ProtocolOutcomes

\* A step that is not of the call may answer one of its writes, or abort its signal.
Kept(c) ==
  /\ op'[c] = op[c] /\ reply'[c] = reply[c] /\ sent'[c] = sent[c] /\ work'[c] = work[c]
  /\ \A o \in AllOutcomes :
       \/ answer'[<<c, o>>] = answer[<<c, o>>]
       \/ answer[<<c, o>>] = "open" /\ answer'[<<c, o>>] \in {"acked", "lost"}
  /\ \/ returned'[c] = returned[c] /\ aborted'[c] = aborted[c]
     \/ returned[c] = "pending" /\ returned'[c] \in Aborts /\ returned'[c] = aborted'[c]
     \/ returned[c] = "idle" /\ returned'[c] = "idle"

LEMMA KeptPreserved ==
  ASSUME NEW c \in Calls, RecordsOK(c), Kept(c)
  PROVE  RecordsOK(c)'
<1>1. \A o \in AllOutcomes : /\ Wrote(c, o)' <=> Wrote(c, o)
                             /\ Waits(c, o)' => Waits(c, o)
                             /\ Acked(<<c, o>>) => Acked(<<c, o>>)'
  BY DEF Kept, Wrote, Waits, Acked
<1>2. OperationRecords(c)'
  <2>1. Results \subseteq AllOutcomes /\ "allowed" \in AllOutcomes
    BY DEF AllOutcomes
  <2> QED
    BY <1>1, <2>1, Codes DEF RecordsOK, OperationRecords, Kept, Results, Aborts
<1>3. ReplyRecords(c)'
  <2>1. Failures \subseteq AllOutcomes
    BY DEF AllOutcomes
  <2>2. returned'[c] = "pending" => returned[c] = "pending"
    BY DEF Kept, Aborts
  <2>3. \A o \in Failures : Wrote(c, o) => returned'[c] = returned[c] \/ work[c] = "idle"
    BY DEF Kept, RecordsOK, ReplyRecords
  <2> QED
    BY <1>1, <2>1, <2>2, <2>3 DEF RecordsOK, ReplyRecords, Kept
<1>4. GateRecords(c)'
  <2>1. ProtocolOutcomes \subseteq AllOutcomes
    BY DEF AllOutcomes
  <2> QED
    BY <1>1, <2>1 DEF RecordsOK, GateRecords, Kept
<1> QED
  BY <1>2, <1>3, <1>4 DEF RecordsOK

\* The effect of write() on the records.
WritesRecord(c, o) ==
  /\ answer[<<c, o>>] = "none" /\ answer'[<<c, o>>] \in {"open", "refused"}
  /\ \A d \in Calls, p \in AllOutcomes :
       d # c \/ p # o => answer'[<<d, p>>] = answer[<<d, p>>]

LEMMA WriteEffect ==
  ASSUME TypeOK, NEW c \in Calls, NEW o \in AllOutcomes, Write(<<c, o>>)
  PROVE  WritesRecord(c, o)
<1>1. /\ <<c, o>> \in Records
      /\ \A d \in Calls, p \in AllOutcomes :
           <<d, p>> \in Records /\ (d # c \/ p # o => <<d, p>> # <<c, o>>)
  BY DEF Records, AllOutcomes
<1> QED
  BY <1>1 DEF TypeOK, Write, Log!Accept, Log!Refuse, WritesRecord
\* A call that is live and not aborted has not been answered.
LEMMA LiveWaits ==
  ASSUME IInv, NEW c \in Calls
  PROVE  /\ work[c] \in {"queued", "running"} /\ aborted[c] = "none" => returned[c] = "pending"
         /\ returned[c] = "idle" => work[c] = "idle"
         /\ op[c] \in {"parsing", "admitting", "invoking", "recording"} => work[c] = "running"
  BY DEF IInv, EP!IInv, EP!AnswerInv, OpInv, EP!Live, TypeOK

\* The end of an operation that waits for no record.
LEMMA EndRecords ==
  ASSUME IInv, NEW c \in Calls, RecordsOK(c), NEW outcome \in OpOutcomes, End(c, outcome),
         ~Waits(c, "allowed"), \A o \in Results : ~Waits(c, o),
         op[c] = "recording" => outcome \in Results \cup {"audit_unavailable"}
  PROVE  RecordsOK(c)'
<1>1. /\ work[c] = "running" /\ work'[c] = "settled" /\ op'[c] = "done"
      /\ op[c] \notin {"idle", "done"}
      /\ returned'[c] = IF returned[c] = "pending" THEN outcome ELSE returned[c]
      /\ reply' = reply /\ sent' = sent /\ answer' = answer /\ aborted' = aborted
  BY DEF End, Exec!Finish, Exec!Settle, Exec!Race, IInv, TypeOK, Exec!TypeOK, OpInv, logVars
<1>2. outcome # "pending"
  BY Codes DEF OpOutcomes
<1>3. \A o : Wrote(c, o)' = Wrote(c, o) /\ Waits(c, o)' = Waits(c, o)
  BY <1>1 DEF Wrote, Waits
<1>4. OperationRecords(c)'
  BY <1>1, <1>3 DEF RecordsOK, OperationRecords
<1>5. ReplyRecords(c)'
  BY <1>1, <1>2, <1>3 DEF RecordsOK, ReplyRecords
<1>6. GateRecords(c)'
  BY <1>1, <1>3 DEF RecordsOK, GateRecords
<1> QED
  BY <1>4, <1>5, <1>6 DEF RecordsOK
LEMMA OperationKeepsRecords ==
  ASSUME IInv, NEW c \in Calls, RecordsOK(c), Operation(c)
  PROVE  RecordsOK(c)'
<1> USE DEF IInv, TypeOK, Exec!TypeOK
<1>1. ASSUME NEW outcome \in OpOutcomes, End(c, outcome), op[c] \in {"parsing", "invoking"}
      PROVE  RecordsOK(c)'
  <2>1. ~Waits(c, "allowed") /\ \A o \in Results : ~Waits(c, o)
    BY <1>1 DEF RecordsOK, OperationRecords
  <2> QED
    BY <1>1, <2>1, EndRecords
<1>2. CASE Start(c) \/ Skip(c)
  <2>1. /\ answer' = answer /\ reply' = reply /\ sent' = sent /\ aborted' = aborted
        /\ work[c] = "queued" /\ work'[c] \in {"running", "settled"}
        /\ op'[c] \in {"idle", "parsing"} /\ op[c] = "idle"
        /\ \/ returned'[c] = returned[c]
           \/ returned[c] = "pending" /\ returned'[c] \in Aborts
    <3>1. work[c] = "queued" /\ op[c] = "idle"
      BY <1>2 DEF Start, Skip, Exec!Start, Exec!Skip, RecordsOK, OperationRecords
    <3>2. CASE Start(c)
      BY <3>1, <3>2 DEF Start, Exec!Start, logVars
    <3>3. CASE Skip(c)
      BY <3>1, <3>3 DEF Skip, Exec!Skip, Exec!Settle, Exec!Race, callVars, logVars, Exec!Aborts, Aborts
    <3> QED
      BY <1>2, <3>2, <3>3
  <2>2. \A o : Wrote(c, o)' = Wrote(c, o) /\ Waits(c, o)' = Waits(c, o)
    BY <2>1 DEF Wrote, Waits
  <2>3. OperationRecords(c)'
    BY <2>1, <2>2 DEF RecordsOK, OperationRecords
  <2>4. ReplyRecords(c)' /\ GateRecords(c)'
    BY <2>1, <2>2, Codes DEF RecordsOK, ReplyRecords, GateRecords, Aborts
  <2> QED
    BY <2>3, <2>4 DEF RecordsOK
<1>3. CASE InputInvalid(c) \/ OutputTooLarge(c) \/ \E code \in ToolFailures : ToolFails(c, code)
  BY <1>1, <1>3 DEF InputInvalid, OutputTooLarge, ToolFails, OpOutcomes, Failures, Denials
<1>4. CASE RecordAdmission(c)
  <2>1. /\ WritesRecord(c, "allowed") /\ op[c] = "parsing" /\ op'[c] = "admitting"
        /\ UNCHANGED <<execVars, reply, sent>>
    BY <1>4, WriteEffect DEF RecordAdmission, AllOutcomes
  <2>2. \A o \in AllOutcomes \ {"allowed"} : /\ Wrote(c, o)' = Wrote(c, o)
                                             /\ Waits(c, o)' = Waits(c, o)
    BY <2>1 DEF WritesRecord, Wrote, Waits
  <2>3. Results \cup Failures \cup ProtocolOutcomes \subseteq AllOutcomes \ {"allowed"}
    BY Codes DEF AllOutcomes
  <2>4. OperationRecords(c)'
    BY <2>1, <2>2, <2>3, LiveWaits DEF RecordsOK, OperationRecords, execVars
  <2>5. ReplyRecords(c)'
    BY <2>1, <2>2, <2>3 DEF RecordsOK, ReplyRecords, execVars
  <2>6. GateRecords(c)'
    BY <2>1, <2>2, <2>3 DEF RecordsOK, GateRecords
  <2> QED
    BY <2>4, <2>5, <2>6 DEF RecordsOK
<1>5. CASE InvokeTool(c)
  <2>1. /\ Acked(<<c, "allowed">>) /\ op[c] = "admitting" /\ op'[c] = "invoking"
        /\ UNCHANGED <<execVars, answer, reply, sent>>
    BY <1>5 DEF InvokeTool, logVars
  <2>2. \A o : Wrote(c, o)' = Wrote(c, o) /\ Waits(c, o)' = Waits(c, o)
    BY <2>1 DEF Wrote, Waits
  <2>3. Acked(<<c, "allowed">>)' /\ ~Waits(c, "allowed")
    BY <2>1 DEF Acked, Waits
  <2>4. OperationRecords(c)'
    BY <2>1, <2>2, <2>3, LiveWaits DEF RecordsOK, OperationRecords, execVars
  <2>5. ReplyRecords(c)' /\ GateRecords(c)'
    BY <2>1, <2>2 DEF RecordsOK, ReplyRecords, GateRecords, execVars
  <2> QED
    BY <2>4, <2>5 DEF RecordsOK
<1>6. CASE Abandon(c)
  <2>1. aborted[c] \in OpOutcomes /\ End(c, aborted[c])
    BY <1>6 DEF Abandon, Exec!Aborts, OpOutcomes, Failures, Aborts
  <2>2. CASE op[c] = "admitting" /\ Acked(<<c, "allowed">>)
    <3>1. ~Waits(c, "allowed") /\ \A o \in Results : ~Waits(c, o)
      BY <2>2 DEF RecordsOK, OperationRecords, Acked, Waits
    <3> QED
      BY <2>1, <2>2, <3>1, EndRecords
  <2> QED
    BY <1>1, <1>6, <2>1, <2>2 DEF Abandon
<1>7. CASE RecordLost(c)
  <2>1. ~Waits(c, "allowed") /\ \A o \in Results : ~Waits(c, o)
    <3>1. CASE op[c] = "admitting" /\ Lost(<<c, "allowed">>)
      BY <3>1 DEF RecordsOK, OperationRecords, Lost, Waits
    <3>2. ASSUME NEW r \in Results, op[c] = "recording", Lost(<<c, r>>)
          PROVE  ~Waits(c, "allowed") /\ \A o \in Results : ~Waits(c, o)
      BY <3>2 DEF RecordsOK, OperationRecords, Lost, Waits, Wrote
    <3> QED
      BY <1>7, <3>1, <3>2 DEF RecordLost
  <2> QED
    BY <1>7, <2>1, EndRecords DEF RecordLost, OpOutcomes
<1>8. ASSUME NEW r \in Results, ToolReturns(c, r) PROVE RecordsOK(c)'
  <2>1. /\ WritesRecord(c, r) /\ op[c] = "invoking" /\ op'[c] = "recording" /\ aborted[c] = "none"
        /\ UNCHANGED <<execVars, reply, sent>>
    BY <1>8, WriteEffect DEF ToolReturns, AllOutcomes
  <2>2. \A o \in AllOutcomes \ {r} : /\ Wrote(c, o)' = Wrote(c, o)
                                     /\ Waits(c, o)' = Waits(c, o)
                                     /\ Acked(<<c, o>>)' = Acked(<<c, o>>)
    BY <2>1 DEF WritesRecord, Wrote, Waits, Acked
  <2>3. /\ {"allowed"} \cup Failures \cup ProtocolOutcomes \subseteq AllOutcomes \ {r}
        /\ Results \subseteq AllOutcomes
    BY Codes DEF AllOutcomes
  <2>4. work'[c] = "running" /\ returned'[c] = "pending"
    BY <2>1, LiveWaits DEF execVars
  <2>5. OperationRecords(c)'
    BY <2>1, <2>2, <2>3, <2>4 DEF RecordsOK, OperationRecords
  <2>6. ReplyRecords(c)'
    BY <2>1, <2>2, <2>3 DEF RecordsOK, ReplyRecords, execVars
  <2>7. GateRecords(c)'
    BY <2>1, <2>2, <2>3 DEF RecordsOK, GateRecords
  <2> QED
    BY <2>5, <2>6, <2>7 DEF RecordsOK
<1>9. ASSUME NEW r \in Results, ResultRecorded(c, r) PROVE RecordsOK(c)'
  <2>1. ~Waits(c, "allowed") /\ \A o \in Results : ~Waits(c, o)
    BY <1>9 DEF ResultRecorded, RecordsOK, OperationRecords, Acked, Waits, Wrote
  <2> QED
    BY <1>9, <2>1, EndRecords DEF ResultRecorded, OpOutcomes
<1> QED
  BY <1>2, <1>3, <1>4, <1>5, <1>6, <1>7, <1>8, <1>9 DEF Operation
LEMMA InvocationKeepsRecords ==
  ASSUME IInv, NEW c \in Calls, RecordsOK(c), Invocation(c)
  PROVE  RecordsOK(c)'
<1> USE DEF IInv, TypeOK, Exec!TypeOK
\* A record of a failure, written once.
<1>1. ASSUME NEW o \in Failures, Write(<<c, o>>), UNCHANGED <<execVars, op, sent>>,
             reply[c] \in {"none", "running"}, reply'[c] = "reporting", o = returned[c] \/ work[c] = "idle",
             returned[c] # "pending"
      PROVE  RecordsOK(c)'
  <2>1. WritesRecord(c, o)
    BY <1>1, WriteEffect DEF AllOutcomes
  <2>2. \A p \in AllOutcomes \ {o} : /\ Wrote(c, p)' = Wrote(c, p)
                                     /\ Waits(c, p)' = Waits(c, p)
                                     /\ Acked(<<c, p>>)' = Acked(<<c, p>>)
    BY <2>1 DEF WritesRecord, Wrote, Waits, Acked
  <2>3. {"allowed"} \cup Results \cup ProtocolOutcomes \subseteq AllOutcomes \ {o}
        /\ Failures \subseteq AllOutcomes
    BY Codes DEF AllOutcomes
  <2>4. OperationRecords(c)'
    BY <1>1, <2>2, <2>3 DEF RecordsOK, OperationRecords, execVars
  <2>5. ReplyRecords(c)'
    BY <1>1, <2>2, <2>3 DEF RecordsOK, ReplyRecords, execVars
  <2>6. GateRecords(c)'
    BY <1>1, <2>2, <2>3 DEF RecordsOK, GateRecords, Pending
  <2> QED
    BY <2>4, <2>5, <2>6 DEF RecordsOK
\* An outcome that needs no record, or has one.
<1>2. ASSUME UNCHANGED <<execVars, answer, op, sent>>, reply[c] \in Pending, reply'[c] \notin Pending,
             returned[c] # "pending", \A o \in Failures : ~Waits(c, o)
      PROVE  RecordsOK(c)'
  <2>1. \A o : Wrote(c, o)' = Wrote(c, o) /\ Waits(c, o)' = Waits(c, o)
    BY <1>2 DEF Wrote, Waits
  <2>2. OperationRecords(c)'
    BY <1>2, <2>1 DEF RecordsOK, OperationRecords, execVars, Acked
  <2>3. ReplyRecords(c)' /\ GateRecords(c)'
    BY <1>2, <2>1 DEF RecordsOK, ReplyRecords, GateRecords, execVars, Pending
  <2> QED
    BY <2>2, <2>3 DEF RecordsOK
<1>3. ASSUME NEW outcome \in Denials, Deny(c, outcome) PROVE RecordsOK(c)'
  <2>1. outcome \in Failures
    BY DEF Failures
  <2>2. work[c] = "idle" /\ returned[c] # "pending"
    BY <1>3, Codes DEF Deny, RecordsOK, ReplyRecords
  <2> QED
    BY <1>1, <1>3, <2>1, <2>2 DEF Deny
<1>4. CASE Run(c)
  <2>1. /\ UNCHANGED <<op, sent>> /\ answer' = answer /\ reply[c] = "none" /\ reply'[c] = "running"
        /\ work[c] = "idle" /\ work'[c] \in {"idle", "queued"}
    BY <1>4 DEF Run, Exec!Admit, Exec!Refuse, logVars, RecordsOK, ReplyRecords
  <2>2. \A o : Wrote(c, o)' = Wrote(c, o) /\ Waits(c, o)' = Waits(c, o)
    BY <2>1 DEF Wrote, Waits
  <2>3. OperationRecords(c)'
    BY <2>1, <2>2 DEF RecordsOK, OperationRecords
  <2>4. ReplyRecords(c)' /\ GateRecords(c)'
    BY <2>1, <2>2 DEF RecordsOK, ReplyRecords, GateRecords, Pending
  <2> QED
    BY <2>3, <2>4 DEF RecordsOK
<1>5. CASE Return(c)
  <2>1. \A o \in Failures : ~Waits(c, o)
    BY <1>5 DEF Return, RecordsOK, ReplyRecords
  <2>2. returned[c] \notin Pending \cup {"pending"}
    BY <1>5, Codes DEF Return, Pending, Results
  <2> QED
    BY <1>2, <1>5, <2>1, <2>2 DEF Return, Pending, logVars
<1>6. CASE Report(c)
  <2>1. returned[c] \in Failures /\ returned[c] # "pending"
    BY <1>6, Codes DEF Report
  <2> QED
    BY <1>1, <1>6, <2>1 DEF Report
<1>7. ASSUME NEW outcome \in Failures, Reported(c, outcome) \/ ReportLost(c, outcome)
      PROVE  RecordsOK(c)'
  <2>1. Wrote(c, outcome) /\ ~Waits(c, outcome)
    BY <1>7 DEF Reported, ReportLost, Acked, Lost, Wrote, Waits
  <2>2. \A o \in Failures : ~Waits(c, o)
    BY <2>1 DEF RecordsOK, ReplyRecords, Wrote, Waits
  <2>3. returned[c] # "pending"
    BY <1>7 DEF Reported, ReportLost, RecordsOK, ReplyRecords
  <2>4. {outcome, "audit_unavailable"} \cap Pending = {}
    BY Codes DEF Pending
  <2> QED
    BY <1>2, <1>7, <2>2, <2>3, <2>4 DEF Reported, ReportLost, Pending, logVars
<1>8. ASSUME NEW kind \in {"rejected", "error"}, SdkAnswers(c, kind) PROVE RecordsOK(c)'
  <2>1. returned[c] # "pending" /\ \A o \in Failures : ~Waits(c, o)
    BY <1>8 DEF SdkAnswers, RecordsOK, ReplyRecords
  <2> QED
    BY <1>2, <1>8, <2>1 DEF SdkAnswers, Pending, logVars
<1> QED
  BY <1>3, <1>4, <1>5, <1>6, <1>7, <1>8 DEF Invocation
LEMMA ResponseKeepsRecords ==
  ASSUME IInv, NEW c \in Calls, RecordsOK(c), Response(c) \/ Withdraw(c)
  PROVE  RecordsOK(c)'
<1> USE DEF IInv, TypeOK
<1>1. ASSUME UNCHANGED <<execVars, answer, op, reply>>, reply[c] \notin Pending, sent'[c] # "none",
             \A o \in ProtocolOutcomes : ~Waits(c, o)
      PROVE  RecordsOK(c)'
  <2>1. \A o : /\ Wrote(c, o)' = Wrote(c, o) /\ Waits(c, o)' = Waits(c, o)
               /\ Acked(<<c, o>>)' = Acked(<<c, o>>)
    BY <1>1 DEF Wrote, Waits, Acked
  <2>2. OperationRecords(c)' /\ ReplyRecords(c)'
    BY <1>1, <2>1 DEF RecordsOK, OperationRecords, ReplyRecords, execVars
  <2>3. GateRecords(c)'
    BY <1>1, <2>1 DEF RecordsOK, GateRecords
  <2> QED
    BY <2>2, <2>3 DEF RecordsOK
<1>2. CASE Forward(c) \/ Withdraw(c)
  <2>1. \A o \in ProtocolOutcomes : ~Waits(c, o)
    BY <1>2 DEF Forward, Withdraw, RecordsOK, GateRecords
  <2> QED
    BY <1>1, <1>2, <2>1 DEF Forward, Withdraw, logVars
<1>3. CASE Observe(c)
  <2>1. PICK kind \in Observation(c) : Write(<<c, kind>>)
    BY <1>3 DEF Observe
  <2>2. kind \in ProtocolOutcomes
    BY <2>1 DEF Observation, ProtocolOutcomes
  <2>3. WritesRecord(c, kind)
    BY <2>1, <2>2, WriteEffect DEF AllOutcomes
  <2>4. \A p \in AllOutcomes \ {kind} : /\ Wrote(c, p)' = Wrote(c, p)
                                        /\ Waits(c, p)' = Waits(c, p)
                                        /\ Acked(<<c, p>>)' = Acked(<<c, p>>)
    BY <2>3 DEF WritesRecord, Wrote, Waits, Acked
  <2>5. {"allowed"} \cup Results \cup Failures \subseteq AllOutcomes \ {kind}
        /\ ProtocolOutcomes \subseteq AllOutcomes
    BY <2>2, Codes DEF AllOutcomes
  <2>6. /\ UNCHANGED <<execVars, op, reply>> /\ reply[c] \notin Pending
        /\ sent[c] = "none" /\ sent'[c] = "observing"
    BY <1>3 DEF Observe
  <2>7. OperationRecords(c)' /\ ReplyRecords(c)'
    BY <2>4, <2>5, <2>6 DEF RecordsOK, OperationRecords, ReplyRecords, execVars
  <2>8. GateRecords(c)'
    BY <2>4, <2>5, <2>6 DEF RecordsOK, GateRecords
  <2> QED
    BY <2>7, <2>8 DEF RecordsOK
<1>4. ASSUME NEW kind \in ProtocolOutcomes, Observed(c, kind) PROVE RecordsOK(c)'
  <2>1. Wrote(c, kind) /\ ~Waits(c, kind) /\ sent[c] # "none"
    BY <1>4 DEF Observed, Wrote, Waits
  <2>2. reply[c] \notin Pending /\ \A o \in ProtocolOutcomes : ~Waits(c, o)
    BY <2>1 DEF RecordsOK, GateRecords, Wrote, Waits
  <2>3. sent'[c] # "none"
    BY <1>4 DEF Observed
  <2> QED
    BY <1>1, <1>4, <2>2, <2>3 DEF Observed, logVars
<1> QED
  BY <1>2, <1>3, <1>4 DEF Response

\* The records of a call are its own: a step of another call keeps them.
Same(c) ==
  /\ op'[c] = op[c] /\ reply'[c] = reply[c] /\ sent'[c] = sent[c]
  /\ work'[c] = work[c] /\ returned'[c] = returned[c] /\ aborted'[c] = aborted[c]
  /\ \A o \in AllOutcomes : answer'[<<c, o>>] = answer[<<c, o>>]

LEMMA SameIsKept ==
  ASSUME NEW c \in Calls, Same(c)
  PROVE  Kept(c)
  BY DEF Same, Kept

LEMMA OthersSame ==
  ASSUME TypeOK, NEW c \in Calls, Operation(c) \/ Invocation(c) \/ Response(c) \/ Withdraw(c),
         NEW d \in Calls, d # c
  PROVE  Same(d)
<1>1. answer' = answer \/ \E o \in AllOutcomes : Write(<<c, o>>)
  <2>1. CASE Operation(c)
    <3>1. CASE \/ RecordAdmission(c) \/ InvokeTool(c) \/ Start(c) \/ Skip(c)
               \/ \E result \in Results : ToolReturns(c, result)
      BY <3>1 DEF RecordAdmission, InvokeTool, Start, Skip, ToolReturns, logVars, AllOutcomes
    <3>2. CASE ~(\/ RecordAdmission(c) \/ InvokeTool(c) \/ Start(c) \/ Skip(c)
                 \/ \E result \in Results : ToolReturns(c, result))
      BY <2>1, <3>2 DEF Operation, InputInvalid, Abandon, OutputTooLarge, RecordLost, ToolFails,
                        ResultRecorded, End, logVars
    <3> QED
      BY <3>1, <3>2
  <2>2. CASE Invocation(c)
    BY <2>2 DEF Invocation, Deny, Run, Return, Report, Reported, ReportLost, SdkAnswers, logVars,
                AllOutcomes, Failures
  <2>3. CASE Response(c) \/ Withdraw(c)
    <3>1. Observation(c) \subseteq AllOutcomes
      BY DEF Observation, AllOutcomes, ProtocolOutcomes
    <3> QED
      BY <2>3, <3>1 DEF Response, Forward, Observe, Observed, Withdraw, logVars
  <2> QED
    BY <2>1, <2>2, <2>3
<1>2. \A p \in AllOutcomes : answer'[<<d, p>>] = answer[<<d, p>>]
  <2>1. ASSUME NEW o \in AllOutcomes, Write(<<c, o>>)
        PROVE  \A p \in AllOutcomes : answer'[<<d, p>>] = answer[<<d, p>>]
    <3>1. WritesRecord(c, o)
      BY <2>1, WriteEffect
    <3> QED
      BY <3>1 DEF WritesRecord
  <2> QED
    BY <1>1, <2>1
<1> SUFFICES /\ op'[d] = op[d] /\ reply'[d] = reply[d] /\ sent'[d] = sent[d]
             /\ work'[d] = work[d] /\ returned'[d] = returned[d] /\ aborted'[d] = aborted[d]
  BY <1>2 DEF Same
<1>d. /\ DOMAIN op = Calls /\ DOMAIN reply = Calls /\ DOMAIN sent = Calls
      /\ DOMAIN work = Calls /\ DOMAIN returned = Calls /\ DOMAIN aborted = Calls
  BY DEF TypeOK, Exec!TypeOK
<1>3. CASE \E o : End(c, o)
  BY <1>3, <1>d DEF End, Exec!Finish, Exec!Settle, Exec!Race
<1>4. CASE Operation(c)
  <2>1. CASE Start(c)
    BY <2>1, <1>d DEF Start, Exec!Start
  <2>2. CASE Skip(c)
    BY <2>2, <1>d DEF Skip, Exec!Skip, Exec!Settle, Exec!Race, callVars
  <2>3. CASE RecordAdmission(c) \/ InvokeTool(c) \/ \E result \in Results : ToolReturns(c, result)
    BY <2>3, <1>d DEF RecordAdmission, InvokeTool, ToolReturns, execVars
  <2> QED
    BY <1>3, <1>4, <2>1, <2>2, <2>3
       DEF Operation, InputInvalid, Abandon, OutputTooLarge, RecordLost, ToolFails, ResultRecorded
<1>5. CASE Invocation(c)
  <2>1. CASE Run(c)
    BY <2>1, <1>d DEF Run, Exec!Admit, Exec!Refuse
  <2>2. CASE Return(c) \/ Report(c)
    BY <2>2, <1>d DEF Return, Report, execVars
  <2>3. CASE \E outcome \in Denials : Deny(c, outcome)
    BY <2>3, <1>d DEF Deny, execVars
  <2>4. CASE \E outcome \in Failures : Reported(c, outcome) \/ ReportLost(c, outcome)
    BY <2>4, <1>d DEF Reported, ReportLost, execVars
  <2>5. CASE \E kind \in {"rejected", "error"} : SdkAnswers(c, kind)
    BY <2>5, <1>d DEF SdkAnswers, execVars
  <2> QED
    BY <1>5, <2>1, <2>2, <2>3, <2>4, <2>5 DEF Invocation
<1>6. CASE Response(c) \/ Withdraw(c)
  BY <1>6, <1>d DEF Response, Forward, Observe, Observed, Withdraw, execVars
<1> QED
  BY <1>4, <1>5, <1>6

\* Signals abort, and the sink answers, for any calls.
LEMMA EnvironmentKeeps ==
  ASSUME IInv, NEW d \in Calls,
         \/ \E c \in Calls : Timeout(c) \/ CallerAbort(c)
         \/ \E r \in Records : Sink(r)
         \/ Close \/ Drain \/ Dispose \/ AuditCloses
         \/ Quiescent \/ UNCHANGED vars
  PROVE  Kept(d)
<1> USE DEF IInv, TypeOK, Exec!TypeOK
<1>1. ASSUME NEW S \in SUBSET {c \in Calls : aborted[c] = "none"}, NEW reason \in Aborts,
             Exec!Abort(S, reason), UNCHANGED <<logVars, callVars>>,
             \A c \in S : returned[c] \in {"idle", "pending"}
      PROVE  Kept(d)
  BY <1>1 DEF Exec!Abort, Kept, callVars, logVars
<1>2. ASSUME NEW c \in Calls, Timeout(c) \/ CallerAbort(c) PROVE Kept(d)
  <2>1. aborted[c] = "none" /\ returned[c] \in {"idle", "pending"}
    BY <1>2, LiveWaits DEF Timeout, CallerAbort, Exec!Timeout, Exec!CallerAbort
  <2>2. \E reason \in Aborts : Exec!Abort({c}, reason)
    BY <1>2 DEF Timeout, CallerAbort, Exec!Timeout, Exec!CallerAbort, Aborts
  <2> QED
    BY <1>1, <1>2, <2>1, <2>2 DEF Timeout, CallerAbort
<1>3. CASE Close
  <2> DEFINE S == {c \in active : aborted[c] = "none"}
  <2>1. S \in SUBSET {c \in Calls : aborted[c] = "none"}
        /\ \A c \in S : returned[c] \in {"idle", "pending"}
    BY DEF EP!IInv, EP!SlotsInv, EP!AnswerInv, EP!Live
  <2> QED
    BY <1>1, <1>3, <2>1 DEF Close, Exec!Close, Aborts
<1>4. ASSUME NEW r \in Records, Sink(r) PROVE Kept(d)
  <2>1. \A o \in AllOutcomes : <<d, o>> \in Records
    BY DEF Records, AllOutcomes
  <2> QED
    BY <1>4, <2>1 DEF Sink, Log!Ack, Log!Lose, Log!StoreLate, Kept, execVars, callVars
<1>5. CASE Drain
  BY <1>5 DEF Drain, Exec!DrainSettled, Exec!GraceExpires, Kept, callVars, logVars
<1>6. CASE Dispose \/ AuditCloses
  BY <1>6 DEF Dispose, AuditCloses, Log!FailClosing, Kept, execVars, callVars, logVars
<1>7. CASE Quiescent \/ UNCHANGED vars
  BY <1>7 DEF Quiescent, vars, Kept, execVars, callVars, logVars
<1> QED
  BY <1>2, <1>3, <1>4, <1>5, <1>6, <1>7

LEMMA RecordsPreserved == IInv /\ RecordsInv /\ [Next]_vars => RecordsInv'
<1> SUFFICES ASSUME IInv, RecordsInv, [Next]_vars PROVE RecordsInv'
  OBVIOUS
<1>1. StoredInv'
  BY StoredPreserved DEF RecordsInv
<1>2. ASSUME NEW d \in Calls PROVE RecordsOK(d)'
  <2>1. RecordsOK(d) /\ TypeOK
    BY DEF RecordsInv, IInv
  <2>2. ASSUME NEW c \in Calls, Operation(c) \/ Invocation(c) \/ Response(c) \/ Withdraw(c)
        PROVE  RecordsOK(d)'
    <3>1. CASE c = d
      BY <2>1, <2>2, <3>1, OperationKeepsRecords, InvocationKeepsRecords, ResponseKeepsRecords
    <3>2. CASE c # d
      BY <2>1, <2>2, <3>2, OthersSame, SameIsKept, KeptPreserved
    <3> QED
      BY <3>1, <3>2
  <2>3. ASSUME \/ \E c \in Calls : Timeout(c) \/ CallerAbort(c)
               \/ \E r \in Records : Sink(r)
               \/ Close \/ Drain \/ Dispose \/ AuditCloses
               \/ Quiescent \/ UNCHANGED vars
        PROVE  RecordsOK(d)'
    BY <2>1, <2>3, EnvironmentKeeps, KeptPreserved
  <2> QED
    BY <2>2, <2>3 DEF Next
<1> QED
  BY <1>1, <1>2 DEF RecordsInv

LEMMA RecordsInvariance == Spec => []RecordsInv
  BY InitRecords, RecordsPreserved, Invariance, PTL DEF Spec
-----------------------------------------------------------------------------
(***************************************************************************)
(* Who speaks of lost audit                                                *)
(***************************************************************************)
\* The runtime has lost a record, or the tool of the call failed so itself.
Excused(c) ==
  healthy = FALSE \/ ("audit_unavailable" \in ToolFailures /\ NoResultWritten(c))

ExcusedInv ==
  \A c \in Calls : "audit_unavailable" \in {returned[c], reply[c]} => Excused(c)

\* What excuses a call goes on to excuse it while its operation has no step left.
LEMMA ExcuseStays ==
  ASSUME IInv, [Next]_vars, NEW c \in Calls, Excused(c),
         op'[c] = op[c], Acked(<<c, "allowed">>) => Acked(<<c, "allowed">>)',
         \A o \in Results : ~Wrote(c, o) => ~Wrote(c, o)'
  PROVE  Excused(c)'
<1>1. healthy = FALSE => healthy' = FALSE
  BY LogGrows
<1> QED
  BY <1>1 DEF Excused, NoResultWritten, Wrote

LEMMA OperationExcused ==
  ASSUME IInv, RecordsInv, ExcusedInv, [Next]_vars, NEW c \in Calls, Operation(c),
         "audit_unavailable" \in {returned'[c], reply'[c]}
  PROVE  Excused(c)'
<1> USE DEF IInv, TypeOK, Exec!TypeOK
<1>1. healthy = FALSE => Excused(c)'
  BY LogGrows DEF Excused
<1>2. RecordsOK(c) /\ op[c] # "done"
  <2>1. RecordsOK(c)
    BY DEF RecordsInv
  <2>2. work[c] \in {"queued", "running"}
    BY DEF Operation, Start, Skip, InputInvalid, RecordAdmission, InvokeTool, Abandon,
           OutputTooLarge, RecordLost, ToolFails, ToolReturns, ResultRecorded, End,
           Exec!Start, Exec!Skip, Exec!Finish, OpInv
  <2> QED
    BY <2>1, <2>2 DEF RecordsOK, OperationRecords, OpInv
<1>3. "audit_unavailable" \in {returned[c], reply[c]} => Excused(c)'
  BY <1>1, <1>2 DEF ExcusedInv, Excused, NoResultWritten
<1>4. ASSUME NEW outcome, End(c, outcome), outcome # "audit_unavailable" PROVE Excused(c)'
  <2>1. returned'[c] \in {returned[c], outcome} /\ reply' = reply
    BY <1>4 DEF End, Exec!Finish, Exec!Settle, Exec!Race
  <2> QED
    BY <1>3, <1>4, <2>1
<1>5. CASE Start(c) \/ Skip(c)
  <2>1. reply' = reply /\ returned'[c] \in {returned[c]} \cup Aborts
    BY <1>5 DEF Start, Exec!Start, Skip, Exec!Skip, Exec!Settle, Exec!Race, callVars,
                Exec!Aborts, Aborts
  <2> QED
    BY <1>3, <2>1 DEF Aborts
<1>6. CASE RecordAdmission(c) \/ InvokeTool(c) \/ \E result \in Results : ToolReturns(c, result)
  <2>1. UNCHANGED <<reply, returned>>
    BY <1>6 DEF RecordAdmission, InvokeTool, ToolReturns, execVars
  <2> QED
    BY <1>3, <2>1
<1>7. CASE InputInvalid(c) \/ OutputTooLarge(c) \/ Abandon(c)
  <2>1. PICK outcome \in {"invalid_input", "output_too_large"} \cup Aborts : End(c, outcome)
    BY <1>7 DEF InputInvalid, OutputTooLarge, Abandon, Exec!Aborts, Aborts
  <2> QED
    BY <1>4, <2>1 DEF Aborts
<1>8. CASE \E result \in Results : ResultRecorded(c, result)
  BY <1>4, <1>8, Codes DEF ResultRecorded
<1>9. CASE RecordLost(c)
  <2>1. healthy = FALSE
    BY <1>9, RecordsOf DEF RecordLost, Lost, LogInv
  <2> QED
    BY <1>1, <2>1
<1>10. ASSUME NEW code \in ToolFailures, ToolFails(c, code) PROVE Excused(c)'
  <2>1. CASE code # "audit_unavailable"
    BY <1>4, <1>10, <2>1 DEF ToolFails
  <2>2. CASE code = "audit_unavailable"
    <3>1. /\ op[c] = "invoking" /\ op'[c] = "done" /\ UNCHANGED answer
      BY <1>10 DEF ToolFails, End, logVars
    <3>2. Acked(<<c, "allowed">>) /\ \A o \in Results : ~Wrote(c, o)
      BY <1>2, <3>1 DEF RecordsOK, OperationRecords
    <3> QED
      BY <2>2, <3>1, <3>2 DEF Excused, NoResultWritten, Wrote, Acked
  <2> QED
    BY <2>1, <2>2
<1> QED
  BY <1>5, <1>6, <1>7, <1>8, <1>9, <1>10 DEF Operation

LEMMA InvocationExcused ==
  ASSUME IInv, RecordsInv, ExcusedInv, [Next]_vars, NEW c \in Calls,
         Invocation(c) \/ Response(c) \/ Withdraw(c),
         "audit_unavailable" \in {returned'[c], reply'[c]}
  PROVE  Excused(c)'
<1> USE DEF IInv, TypeOK, Exec!TypeOK
<1>1. healthy = FALSE => Excused(c)'
  BY LogGrows DEF Excused
<1>2. CASE \E outcome \in Failures : ReportLost(c, outcome)
  <2>1. healthy = FALSE
    BY <1>2, RecordsOf DEF ReportLost, Lost, LogInv
  <2> QED
    BY <1>1, <2>1
<1>3. CASE ~\E outcome \in Failures : ReportLost(c, outcome)
  <2>1. "audit_unavailable" \in {returned[c], reply[c]}
    <3>1. CASE Run(c)
      <4>1. returned'[c] \in Aborts \cup {"pending", "busy"}
        BY <3>1 DEF Run, Exec!Admit, Exec!Refuse, Exec!Refusal, Aborts
      <4> QED
        BY <3>1, <4>1 DEF Run, Aborts
    <3>2. CASE Return(c) \/ Report(c) \/ \E outcome \in Denials : Deny(c, outcome)
      BY <3>2 DEF Return, Report, Deny, execVars
    <3>3. CASE \E outcome \in Failures : Reported(c, outcome)
      BY <3>3, Codes DEF Reported, execVars
    <3>4. CASE \/ \E kind \in {"rejected", "error"} : SdkAnswers(c, kind)
               \/ Response(c) \/ Withdraw(c)
      BY <3>4 DEF SdkAnswers, Response, Forward, Observe, Observed, Withdraw, execVars
    <3> QED
      BY <1>3, <3>1, <3>2, <3>3, <3>4 DEF Invocation
  <2>2. Excused(c)
    BY <2>1 DEF ExcusedInv
  <2>3. op' = op /\ (answer' = answer \/ \E o \in Failures \cup ProtocolOutcomes : Write(<<c, o>>))
    <3>1. Observation(c) \subseteq ProtocolOutcomes
      BY DEF Observation, ProtocolOutcomes
    <3> QED
      BY <3>1
         DEF Invocation, Deny, Run, Return, Report, Reported, ReportLost, SdkAnswers, logVars,
             Failures, Response, Forward, Observe, Observed, Withdraw
  <2>4. \A o \in {"allowed"} \cup Results : answer'[<<c, o>>] = answer[<<c, o>>]
    <3>1. ASSUME NEW p \in Failures \cup ProtocolOutcomes, Write(<<c, p>>)
          PROVE  \A o \in {"allowed"} \cup Results : answer'[<<c, o>>] = answer[<<c, o>>]
      <4>1. WritesRecord(c, p)
        BY <3>1, WriteEffect DEF AllOutcomes
      <4>2. {"allowed"} \cup Results \subseteq AllOutcomes \ {p}
        BY Codes DEF AllOutcomes
      <4> QED
        BY <4>1, <4>2 DEF WritesRecord
    <3> QED
      BY <2>3, <3>1
  <2> QED
    BY <2>2, <2>3, <2>4, ExcuseStays DEF Acked, Wrote
<1> QED
  BY <1>2, <1>3

LEMMA OthersExcused ==
  ASSUME IInv, ExcusedInv, [Next]_vars, NEW d \in Calls, Kept(d),
         "audit_unavailable" \in {returned'[d], reply'[d]}
  PROVE  Excused(d)'
<1>1. Excused(d)
  BY DEF Kept, ExcusedInv, Aborts
<1>2. /\ op'[d] = op[d] /\ (Acked(<<d, "allowed">>) => Acked(<<d, "allowed">>)')
      /\ \A o \in Results : ~Wrote(d, o) => ~Wrote(d, o)'
  BY DEF Kept, Acked, Wrote, AllOutcomes
<1> QED
  BY <1>1, <1>2, ExcuseStays

LEMMA ExcusedPreserved == IInv /\ RecordsInv /\ ExcusedInv /\ [Next]_vars => ExcusedInv'
<1> SUFFICES ASSUME IInv, RecordsInv, ExcusedInv, [Next]_vars, NEW d \in Calls,
                    "audit_unavailable" \in {returned'[d], reply'[d]}
             PROVE  Excused(d)'
  BY DEF ExcusedInv
<1>1. ASSUME NEW c \in Calls, Operation(c) \/ Invocation(c) \/ Response(c) \/ Withdraw(c)
      PROVE  Excused(d)'
  <2>1. CASE c = d
    BY <1>1, <2>1, OperationExcused, InvocationExcused
  <2>2. CASE c # d
    BY <1>1, <2>2, OthersSame, SameIsKept, OthersExcused DEF IInv
  <2> QED
    BY <2>1, <2>2
<1>2. ASSUME \/ \E c \in Calls : Timeout(c) \/ CallerAbort(c)
             \/ \E r \in Records : Sink(r)
             \/ Close \/ Drain \/ Dispose \/ AuditCloses
             \/ Quiescent \/ UNCHANGED vars
      PROVE  Excused(d)'
  BY <1>2, EnvironmentKeeps, OthersExcused
<1> QED
  BY <1>1, <1>2 DEF Next

\* For any requests and any failures of their tools: who is denied for want of audit is
\* denied by a runtime that is not ready, or by a tool that failed with that code itself.
THEOREM DenialsAreVisible == Spec => []DenialIsVisible
<1>1. Init => ExcusedInv
  BY ToolFailuresAssumption DEF Init, Exec!Init, ExcusedInv
<1>2. IInv /\ ExcusedInv => DenialIsVisible
  BY DEF IInv, TypeOK, DenialInv, ExcusedInv, Excused, DenialIsVisible
<1> QED
  BY <1>1, <1>2, ExcusedPreserved, RecordsInvariance, Invariance, PTL DEF Spec
-----------------------------------------------------------------------------
(***************************************************************************)
(* What follows from the records                                           *)
(***************************************************************************)

\* The two outcomes of one call are a result and the abort that overtook it; the
\* operation and its caller never record two different ends otherwise.
THEOREM SecondOutcomeIsAnAbort == Spec => []TwoOutcomesOnlyByAbort
<1>1. IInv /\ RecordsInv => TwoOutcomesOnlyByAbort
  <2> SUFFICES ASSUME IInv, RecordsInv, NEW c \in Calls, Cardinality(ToolOutcomes(c)) > 1
               PROVE  aborted[c] \in ToolOutcomes(c) /\ Cardinality(ToolOutcomes(c)) = 2
    BY DEF TwoOutcomesOnlyByAbort
  <2> DEFINE T == ToolOutcomes(c)
  <2>1. RecordsOK(c) /\ \A o \in T : o \in Results \cup Failures /\ Wrote(c, o)
    BY DEF RecordsInv, StoredInv, ToolOutcomes, Wrote
  <2>2. T # {} /\ \A o : T # {o}
    <3>1. Cardinality({}) = 0 /\ \A o : Cardinality({o}) = 1
      BY FS_EmptySet, FS_Singleton
    <3> QED
      BY <3>1
  <2>3. PICK o \in T, p \in T : o # p
    BY <2>2
  <2>4. \/ o \in Results /\ p \in Failures
        \/ p \in Results /\ o \in Failures
    BY <2>1, <2>3 DEF RecordsOK, OperationRecords, ReplyRecords
  <2>5. PICK r \in T, f \in T : r \in Results /\ f \in Failures
    BY <2>4
  <2>6. T = {r, f} /\ r # f
    BY <2>1, <2>5, Codes DEF RecordsOK, OperationRecords, ReplyRecords
  <2>7. work[c] # "idle"
    BY <2>1, <2>5 DEF RecordsOK, OperationRecords
  <2>8. f = returned[c]
    BY <2>1, <2>5, <2>7 DEF RecordsOK, ReplyRecords
  <2>9. returned[c] = aborted[c]
    BY <2>1, <2>5, <2>8, Codes DEF RecordsOK, OperationRecords
  <2>10. Cardinality(T) = 2
    <3>1. IsFiniteSet({r}) /\ Cardinality({r}) = 1 /\ f \notin {r} /\ T = {r} \cup {f}
      BY <2>6, FS_Singleton
    <3> QED
      BY <3>1, FS_AddElement
  <2> QED
    BY <2>5, <2>8, <2>9, <2>10
<1> QED
  BY <1>1, Invariance, RecordsInvariance, PTL

\* Neither has the log taken the admission record, nor does the tool run.
Shut(c) ==
  /\ healthy = FALSE
  /\ answer[<<c, "allowed">>] \notin {"open", "acked"}
  /\ op[c] # "invoking"

LEMMA ShutStays ==
  ASSUME IInv, RecordsInv, [Next]_vars, NEW c \in Calls, Shut(c)
  PROVE  Shut(c)'
<1> USE DEF IInv, TypeOK, Shut
<1>1. healthy' = FALSE
  BY LogGrows
<1>2. answer'[<<c, "allowed">>] \notin {"open", "acked"}
  <2>1. <<c, "allowed">> \in Records
    BY DEF Records
  <2>2. [Log!Next]_logVars
    BY StepsOfLog
  <2> QED
    BY <2>1, <2>2 DEF Log!Next, Log!Accept, Log!Refuse, Log!Ack, Log!Lose, Log!StoreLate,
                      Log!FailClosing, logVars
<1>3. op'[c] # "invoking"
  <2>1. CASE Operation(c)
    BY <2>1 DEF Operation, Start, Skip, InputInvalid, RecordAdmission, InvokeTool, Acked, Abandon,
                OutputTooLarge, RecordLost, ToolFails, ToolReturns, ResultRecorded, End, callVars
  <2>2. ASSUME NEW d \in Calls, Operation(d) \/ Invocation(d) \/ Response(d) \/ Withdraw(d), d # c
        PROVE  op'[c] = op[c]
    BY <2>2, OthersSame DEF Same
  <2>3. CASE Invocation(c) \/ Response(c) \/ Withdraw(c)
    BY <2>3 DEF Invocation, Deny, Run, Return, Report, Reported, ReportLost, SdkAnswers, Response,
                Forward, Observe, Observed, Withdraw
  <2>4. ASSUME \/ \E d \in Calls : Timeout(d) \/ CallerAbort(d)
               \/ \E r \in Records : Sink(r)
               \/ Close \/ Drain \/ Dispose \/ AuditCloses
               \/ Quiescent \/ UNCHANGED vars
        PROVE  op'[c] = op[c]
    BY <2>4, EnvironmentKeeps DEF Kept
  <2> QED
    BY <2>1, <2>2, <2>3, <2>4 DEF Next
<1> QED
  BY <1>1, <1>2, <1>3

\* Once audit was lost, no request that has not been taken up reaches a tool, then
\* or ever.
THEOREM LostAuditClosesTheRuntime == Spec => FailClosed
<1> SUFFICES ASSUME NEW c \in Calls
             PROVE  Spec => [](~healthy /\ reply[c] = "none" => [](op[c] # "invoking"))
  BY DEF FailClosed
<1>1. IInv /\ RecordsInv /\ ~healthy /\ reply[c] = "none" => Shut(c)
  BY DEF IInv, TypeOK, RecordsInv, RecordsOK, ReplyRecords, OperationRecords, Wrote, Shut
<1>2. IInv /\ RecordsInv /\ [Next]_vars /\ Shut(c) => Shut(c)'
  BY ShutStays
<1>3. Shut(c) => op[c] # "invoking"
  BY DEF Shut
<1> QED
  BY <1>1, <1>2, <1>3, Invariance, RecordsInvariance, PTL DEF Spec
-----------------------------------------------------------------------------
(***************************************************************************)
(* The records a call has pending                                          *)
(***************************************************************************)
OpRecords == {"allowed"} \cup Results
ReplyKinds == Failures \cup ProtocolOutcomes

Writing == [c \in Calls |-> Open(c, OpRecords)]
Replying == [c \in Calls |-> Open(c, ReplyKinds)]
Replied == [c \in Calls |-> reply[c] \notin {"none", "running"}]

LEMMA Truths ==
  /\ Writing \in [Calls -> BOOLEAN] /\ Writing' \in [Calls -> BOOLEAN]
  /\ Replying \in [Calls -> BOOLEAN] /\ Replying' \in [Calls -> BOOLEAN]
  /\ Replied \in [Calls -> BOOLEAN] /\ Replied' \in [Calls -> BOOLEAN]
  /\ \A c \in Calls : /\ Writing[c] <=> Open(c, OpRecords)
                      /\ Writing'[c] <=> Open(c, OpRecords)'
                      /\ Replying[c] <=> Open(c, ReplyKinds)
                      /\ Replying'[c] <=> Open(c, ReplyKinds)'
                      /\ Replied[c] <=> reply[c] \notin {"none", "running"}
                      /\ Replied'[c] <=> reply'[c] \notin {"none", "running"}
  BY DEF Writing, Replying, Replied, Open

LEMMA OneTruth ==
  ASSUME NEW S, NEW c \in S, NEW f \in [S -> BOOLEAN], NEW g \in [S -> BOOLEAN],
         \A d \in S : d # c => (g[d] <=> f[d])
  PROVE  /\ (g[c] <=> f[c]) => g = f
         /\ g[c] => g = [f EXCEPT ![c] = TRUE]
         /\ ~g[c] => g = [f EXCEPT ![c] = FALSE]
  OBVIOUS

\* What a step does to the records of call c, as CallWrites has it.
StepAt(c) ==
  LET sameWriting  == Writing'[c] <=> Writing[c]
      sameReplying == Replying'[c] <=> Replying[c]
      sameReplied  == Replied'[c] <=> Replied[c]
  IN  \/ sameWriting /\ sameReplying /\ sameReplied
      \/ ~Replied[c] /\ ~Writing[c] /\ sameReplying /\ sameReplied
      \/ Writing[c] /\ ~Writing'[c] /\ sameReplying /\ sameReplied
      \/ ~Replied[c] /\ Replied'[c] /\ sameWriting /\ ~Replying[c]
      \/ Replied[c] /\ ~Replying[c] /\ sameWriting /\ sameReplied
      \/ Replying[c] /\ ~Replying'[c] /\ sameWriting /\ sameReplied

LEMMA StepOfWrites ==
  ASSUME NEW c \in Calls, StepAt(c),
         \A d \in Calls : d # c =>
           (Writing'[d] <=> Writing[d]) /\ (Replying'[d] <=> Replying[d]) /\ (Replied'[d] <=> Replied[d])
  PROVE  [Writes!Next]_(Writes!callVars)
<1> DEFINE set(f) == [f EXCEPT ![c] = TRUE]
           clear(f) == [f EXCEPT ![c] = FALSE]
<1>1. /\ (Writing'[c] <=> Writing[c]) => Writing' = Writing
      /\ Writing'[c] => Writing' = set(Writing)
      /\ ~Writing'[c] => Writing' = clear(Writing)
  <2>1. /\ Writing \in [Calls -> BOOLEAN] /\ Writing' \in [Calls -> BOOLEAN]
        /\ \A d \in Calls : d # c => (Writing'[d] <=> Writing[d])
    BY Truths
  <2> HIDE DEF Writing
  <2> QED
    BY <2>1, OneTruth
<1>2. /\ (Replying'[c] <=> Replying[c]) => Replying' = Replying
      /\ Replying'[c] => Replying' = set(Replying)
      /\ ~Replying'[c] => Replying' = clear(Replying)
  <2>1. /\ Replying \in [Calls -> BOOLEAN] /\ Replying' \in [Calls -> BOOLEAN]
        /\ \A d \in Calls : d # c => (Replying'[d] <=> Replying[d])
    BY Truths
  <2> HIDE DEF Replying
  <2> QED
    BY <2>1, OneTruth
<1>3. /\ (Replied'[c] <=> Replied[c]) => Replied' = Replied
      /\ Replied'[c] => Replied' = set(Replied)
      /\ ~Replied'[c] => Replied' = clear(Replied)
  <2>1. /\ Replied \in [Calls -> BOOLEAN] /\ Replied' \in [Calls -> BOOLEAN]
        /\ \A d \in Calls : d # c => (Replied'[d] <=> Replied[d])
    BY Truths
  <2> HIDE DEF Replied
  <2> QED
    BY <2>1, OneTruth
<1> HIDE DEF set, clear
<1>5. \/ UNCHANGED <<Writing, Replying, Replied>>
      \/ /\ ~Replied[c] /\ ~Writing[c] /\ Writing' \in {Writing, set(Writing)}
         /\ UNCHANGED <<Replying, Replied>>
      \/ Writing[c] /\ Writing' = clear(Writing) /\ UNCHANGED <<Replying, Replied>>
      \/ /\ ~Replied[c] /\ Replied' = set(Replied) /\ Replying' \in {Replying, set(Replying)}
         /\ UNCHANGED Writing
      \/ /\ Replied[c] /\ ~Replying[c] /\ Replying' \in {Replying, set(Replying)}
         /\ UNCHANGED <<Writing, Replied>>
      \/ Replying[c] /\ Replying' = clear(Replying) /\ UNCHANGED <<Writing, Replied>>
  BY <1>1, <1>2, <1>3 DEF StepAt
<1> QED
  BY <1>5 DEF set, clear, Writes!Next, Writes!OperationWrites, Writes!OperationTold, Writes!Replies,
              Writes!Observes, Writes!ReplyTold, Writes!callVars, Writing, Replying, Replied,
              OpRecords, ReplyKinds

LEMMA SameOpen ==
  ASSUME NEW c \in Calls, NEW S, \A o \in S : answer'[<<c, o>>] = answer[<<c, o>>]
  PROVE  Open(c, S)' <=> Open(c, S)
  BY DEF Open

LEMMA Kinds ==
  /\ OpRecords \cup ReplyKinds = AllOutcomes
  /\ OpRecords \cap ReplyKinds = {}
  BY Codes DEF OpRecords, ReplyKinds, AllOutcomes

\* A record the operation writes is not one invoke() or the gate writes.
LEMMA WriteOpens ==
  ASSUME TypeOK, NEW c \in Calls, NEW o \in AllOutcomes, Write(<<c, o>>)
  PROVE  /\ o \in OpRecords => (Replying'[c] <=> Replying[c])
         /\ o \in ReplyKinds => (Writing'[c] <=> Writing[c])
<1>1. \A p \in AllOutcomes : p # o => answer'[<<c, p>>] = answer[<<c, p>>]
  BY WriteEffect DEF WritesRecord
<1>2. ASSUME o \in OpRecords PROVE Replying'[c] <=> Replying[c]
  <2>1. \A p \in ReplyKinds : answer'[<<c, p>>] = answer[<<c, p>>]
    BY <1>1, <1>2, Kinds
  <2>2. Open(c, ReplyKinds)' <=> Open(c, ReplyKinds)
    BY <2>1, SameOpen
  <2> QED
    BY <2>2, Truths
<1>3. ASSUME o \in ReplyKinds PROVE Writing'[c] <=> Writing[c]
  <2>1. \A p \in OpRecords : answer'[<<c, p>>] = answer[<<c, p>>]
    BY <1>1, <1>3, Kinds
  <2>2. Open(c, OpRecords)' <=> Open(c, OpRecords)
    BY <2>1, SameOpen
  <2> QED
    BY <2>2, Truths
<1> QED
  BY <1>2, <1>3

LEMMA SameAnswers ==
  ASSUME NEW c \in Calls, \A o \in AllOutcomes : answer'[<<c, o>>] = answer[<<c, o>>]
  PROVE  (Writing'[c] <=> Writing[c]) /\ (Replying'[c] <=> Replying[c])
<1>1. Open(c, OpRecords)' <=> Open(c, OpRecords)
  <2>1. \A o \in OpRecords : answer'[<<c, o>>] = answer[<<c, o>>]
    BY Kinds
  <2> QED
    BY <2>1, SameOpen
<1>2. Open(c, ReplyKinds)' <=> Open(c, ReplyKinds)
  <2>1. \A o \in ReplyKinds : answer'[<<c, o>>] = answer[<<c, o>>]
    BY Kinds
  <2> QED
    BY <2>1, SameOpen
<1> QED
  BY <1>1, <1>2, Truths

\* A step of the call itself: at most one record is taken, by one writer.
LEMMA OwnStepOfWrites ==
  ASSUME IInv, NEW c \in Calls, RecordsOK(c),
         Operation(c) \/ Invocation(c) \/ Response(c) \/ Withdraw(c)
  PROVE  StepAt(c)
<1> USE DEF IInv, TypeOK
<1>1. ASSUME answer' = answer, reply' = reply PROVE StepAt(c)
  BY <1>1, SameAnswers, Truths DEF StepAt
<1>2. ASSUME NEW o \in OpRecords, Write(<<c, o>>), reply' = reply,
             op[c] \in {"parsing", "invoking"}, aborted[c] = "none"
      PROVE  StepAt(c)
  <2>1. reply[c] = "running"
    BY <1>2, LiveWaits DEF RecordsOK, ReplyRecords
  <2>2. ~Open(c, OpRecords)
    BY <1>2 DEF RecordsOK, OperationRecords, Open, OpRecords, Waits
  <2>3. Replying'[c] <=> Replying[c]
    BY <1>2, WriteOpens, Kinds
  <2> QED
    BY <1>2, <2>1, <2>2, <2>3, Truths DEF StepAt
<1>3. ASSUME reply[c] \in {"none", "running"} PROVE ~Replying[c]
  <2>1. \A o \in Failures \cup ProtocolOutcomes : ~Waits(c, o)
    BY <1>3 DEF RecordsOK, ReplyRecords, GateRecords, Pending
  <2>2. ~Open(c, ReplyKinds)
    BY <2>1 DEF Open, ReplyKinds, Waits
  <2> QED
    BY <2>2, Truths
<1>4. ASSUME NEW o \in Failures, Write(<<c, o>>), reply[c] \in {"none", "running"},
             reply'[c] = "reporting"
      PROVE  StepAt(c)
  <2>1. Writing'[c] <=> Writing[c]
    BY <1>4, WriteOpens, Kinds DEF ReplyKinds
  <2> QED
    BY <1>3, <1>4, <2>1, Truths DEF StepAt
<1>5. ASSUME answer' = answer, reply[c] \in {"none", "running"}
      PROVE  StepAt(c)
  BY <1>3, <1>5, SameAnswers, Truths DEF StepAt
<1>6. CASE Operation(c)
  <2>1. CASE RecordAdmission(c)
    BY <1>2, <2>1 DEF RecordAdmission, OpRecords
  <2>2. CASE \E result \in Results : ToolReturns(c, result)
    BY <1>2, <2>2 DEF ToolReturns, OpRecords
  <2>3. CASE Start(c) \/ Skip(c) \/ InvokeTool(c)
    BY <1>1, <2>3 DEF Start, Skip, InvokeTool, logVars, callVars
  <2>4. CASE \E o : End(c, o)
    BY <1>1, <2>4 DEF End, logVars
  <2> QED
    BY <1>6, <2>1, <2>2, <2>3, <2>4
       DEF Operation, InputInvalid, Abandon, OutputTooLarge, RecordLost, ToolFails, ResultRecorded
<1>7. CASE Invocation(c)
  <2>1. ASSUME NEW o \in Denials, Deny(c, o) PROVE StepAt(c)
    BY <1>4, <2>1 DEF Deny, Failures
  <2>2. CASE Report(c)
    BY <1>4, <2>2 DEF Report
  <2>3. CASE Run(c) \/ Return(c) \/ \E kind \in {"rejected", "error"} : SdkAnswers(c, kind)
    BY <1>5, <2>3 DEF Run, Return, SdkAnswers, logVars
  <2>4. ASSUME NEW o \in Failures, Reported(c, o) \/ ReportLost(c, o) PROVE StepAt(c)
    <3>1. answer' = answer /\ reply[c] = "reporting" /\ reply'[c] \in {o, "audit_unavailable"}
      BY <2>4 DEF Reported, ReportLost, logVars
    <3>2. reply'[c] \notin {"none", "running"}
      BY <3>1, Codes DEF Pending
    <3> QED
      BY <3>1, <3>2, SameAnswers, Truths DEF StepAt
  <2> QED
    BY <1>7, <2>1, <2>2, <2>3, <2>4 DEF Invocation
<1>8. CASE Response(c) \/ Withdraw(c)
  <2>1. CASE Observe(c)
    <3>1. PICK o \in ProtocolOutcomes : Write(<<c, o>>)
      BY <2>1 DEF Observe, Observation, ProtocolOutcomes
    <3>2. Writing'[c] <=> Writing[c]
      BY <3>1, WriteOpens, Kinds DEF ReplyKinds
    <3>3. reply' = reply /\ reply[c] \notin Pending /\ sent[c] = "none"
      BY <2>1 DEF Observe
    <3>4. ~Open(c, ReplyKinds)
      BY <3>3 DEF RecordsOK, ReplyRecords, GateRecords, Open, ReplyKinds, Waits, Pending
    <3> QED
      BY <3>2, <3>3, <3>4, Truths DEF StepAt, Pending
  <2>2. CASE Forward(c) \/ Withdraw(c) \/ \E kind \in ProtocolOutcomes : Observed(c, kind)
    BY <1>1, <2>2 DEF Forward, Withdraw, Observed, logVars
  <2> QED
    BY <1>8, <2>1, <2>2 DEF Response
<1> QED
  BY <1>6, <1>7, <1>8

\* The sink answers the one record that its writer has pending.
LEMMA SinkStepOfWrites ==
  ASSUME IInv, RecordsInv, NEW r \in Records, Sink(r)
  PROVE  [Writes!Next]_(Writes!callVars)
<1> USE DEF IInv, TypeOK
<1>1. PICK c \in Calls, o \in AllOutcomes : r = <<c, o>>
  <2>1. r \in Calls \X AllOutcomes
    BY DEF Records, AllOutcomes
  <2> QED
    BY <2>1
<1>2. \A d \in Calls, p \in AllOutcomes : <<d, p>> \in Records
  BY DEF Records, AllOutcomes
<1>3. /\ reply' = reply
      /\ \A d \in Calls, p \in AllOutcomes :
           d # c \/ p # o => answer'[<<d, p>>] = answer[<<d, p>>]
      /\ \/ answer'[r] = answer[r]
         \/ answer[r] = "open" /\ answer'[r] # "open"
  BY <1>1, <1>2 DEF Sink, Log!Ack, Log!Lose, Log!StoreLate, callVars
<1>4. \A d \in Calls : d # c =>
        (Writing'[d] <=> Writing[d]) /\ (Replying'[d] <=> Replying[d]) /\ (Replied'[d] <=> Replied[d])
  <2> TAKE d \in Calls
  <2> HAVE d # c
  <2>1. \A p \in AllOutcomes : answer'[<<d, p>>] = answer[<<d, p>>]
    BY <1>3
  <2> QED
    BY <1>3, <2>1, SameAnswers, Truths
<1>5. Replied'[c] <=> Replied[c]
  BY <1>3, Truths
<1>6. StepAt(c)
  <2>1. CASE answer'[r] = answer[r]
    <3>1. \A p \in AllOutcomes : answer'[<<c, p>>] = answer[<<c, p>>]
      BY <1>1, <1>3, <2>1
    <3> QED
      BY <1>5, <3>1, SameAnswers DEF StepAt
  <2>2. CASE answer[r] = "open" /\ answer'[r] # "open"
    <3>1. RecordsOK(c) /\ Waits(c, o)
      BY <1>1, <2>2 DEF RecordsInv, Waits
    <3>2. CASE o \in OpRecords
      <4>1. \A p \in OpRecords : p # o => ~Waits(c, p)
        BY <3>1, <3>2 DEF RecordsOK, OperationRecords, OpRecords, Waits, Wrote
      <4>2. Writing[c] /\ ~Open(c, OpRecords)'
        <5>1. Writing[c]
          BY <1>1, <2>2, <3>2, Truths DEF Open
        <5>2. \A p \in OpRecords : answer'[<<c, p>>] # "open"
          BY <1>1, <1>3, <2>2, <3>2, <4>1, Kinds DEF Waits
        <5> QED
          BY <5>1, <5>2 DEF Open
      <4>3. Open(c, ReplyKinds)' <=> Open(c, ReplyKinds)
        <5>1. \A p \in ReplyKinds : answer'[<<c, p>>] = answer[<<c, p>>]
          BY <1>3, <3>2, Kinds
        <5> QED
          BY <5>1, SameOpen
      <4> QED
        BY <1>5, <4>2, <4>3, Truths DEF StepAt
    <3>3. CASE o \in ReplyKinds
      <4>1. \A p \in ReplyKinds : p # o => ~Waits(c, p)
        BY <3>1, <3>3 DEF RecordsOK, ReplyRecords, GateRecords, ReplyKinds, Waits, Wrote, Pending
      <4>2. Replying[c] /\ ~Open(c, ReplyKinds)'
        <5>1. Replying[c]
          BY <1>1, <2>2, <3>3, Truths DEF Open
        <5>2. \A p \in ReplyKinds : answer'[<<c, p>>] # "open"
          BY <1>1, <1>3, <2>2, <3>3, <4>1, Kinds DEF Waits
        <5> QED
          BY <5>1, <5>2 DEF Open
      <4>3. Open(c, OpRecords)' <=> Open(c, OpRecords)
        <5>1. \A p \in OpRecords : answer'[<<c, p>>] = answer[<<c, p>>]
          BY <1>3, <3>3, Kinds
        <5> QED
          BY <5>1, SameOpen
      <4> QED
        BY <1>5, <4>2, <4>3, Truths DEF StepAt
    <3> QED
      BY <3>2, <3>3, Kinds
  <2> QED
    BY <1>3, <2>1, <2>2
<1> QED
  BY <1>4, <1>6, StepOfWrites

LEMMA StepsOfWrites == IInv /\ RecordsInv /\ [Next]_vars => [Writes!Next]_(Writes!callVars)
<1> SUFFICES ASSUME IInv, RecordsInv, [Next]_vars PROVE [Writes!Next]_(Writes!callVars)
  OBVIOUS
<1>1. ASSUME NEW c \in Calls, Operation(c) \/ Invocation(c) \/ Response(c) \/ Withdraw(c)
      PROVE  [Writes!Next]_(Writes!callVars)
  <2>1. StepAt(c)
    BY <1>1, OwnStepOfWrites DEF RecordsInv
  <2>2. ASSUME NEW d \in Calls, d # c
        PROVE  (Writing'[d] <=> Writing[d]) /\ (Replying'[d] <=> Replying[d]) /\ (Replied'[d] <=> Replied[d])
    <3>1. Same(d)
      BY <1>1, <2>2, OthersSame DEF IInv
    <3> QED
      BY <3>1, SameAnswers, Truths DEF Same
  <2> QED
    BY <2>1, <2>2, StepOfWrites
<1>2. ASSUME answer' = answer, reply' = reply PROVE [Writes!Next]_(Writes!callVars)
  BY <1>2 DEF Writes!callVars, Open
<1>3. CASE \E c \in Calls : Timeout(c) \/ CallerAbort(c)
  BY <1>2, <1>3 DEF Timeout, CallerAbort, logVars, callVars
<1>4. CASE Close \/ Drain \/ Dispose \/ AuditCloses \/ Quiescent \/ UNCHANGED vars
  BY <1>2, <1>4 DEF Close, Drain, Dispose, AuditCloses, Log!FailClosing, Quiescent, vars, logVars,
                    callVars
<1> QED
  BY <1>1, <1>3, <1>4, SinkStepOfWrites DEF Next

\* The operation has one record pending at a time and none once its call has an
\* outcome; invoke() and the gate, between them, have one.
THEOREM RecordsTakeTurns == Spec => ImplementsCallWrites
<1>1. Init => Writes!Init
  <2> SUFFICES ASSUME Init PROVE Writes!Init
    OBVIOUS
  <2>1. \A c \in Calls, o \in AllOutcomes : answer[<<c, o>>] # "open"
    BY DEF Init, Log!Init, Records, AllOutcomes
  <2>2. \A c \in Calls : ~Writing[c] /\ ~Replying[c] /\ ~Replied[c]
    BY <2>1, Truths, Kinds DEF Init, Open
  <2>3. /\ Writing = [c \in Calls |-> FALSE]
        /\ Replying = [c \in Calls |-> FALSE]
        /\ Replied = [c \in Calls |-> FALSE]
    BY <2>2, Truths
  <2> QED
    BY <2>3 DEF Writes!Init, Writing, Replying, Replied, OpRecords, ReplyKinds
<1> QED
  BY <1>1, StepsOfWrites, Invariance, RecordsInvariance, PTL
     DEF Spec, ImplementsCallWrites, Writes!Spec
=============================================================================
