----------------------------- MODULE HttpServer -----------------------------
(***************************************************************************)
(* createHttpServer: authentication and admission of requests, the three   *)
(* records that frame each of them, disconnects and the request deadline,  *)
(* and the shutdown that closes the audit log last.                        *)
(*                                                                         *)
(* A request takes one of requestCapacity places before its first record   *)
(* and gives it back after its terminal one.  Its writers, the server      *)
(* itself, the operation of its tool call, and what answers that call,     *)
(* have one record pending each: the places are a third of the log's slots *)
(* so that an audit log in working order never drops a record.             *)
(***************************************************************************)
EXTENDS Naturals, FiniteSets, FiniteSetsExt

CONSTANTS
  Requests,
  MaxConcurrent,   \* limits.maxConcurrent
  MaxPending       \* audit.maxPending

ASSUME HttpAssumption ==
  /\ MaxConcurrent \in Nat \ {0}
  /\ MaxPending \in Nat /\ MaxPending >= 3

Writers == Requests \X {"http", "operation", "reply"}

VARIABLES
  answer, held, healthy,   \* runtime.audit, see BoundedLog
  stage,            \* how far the server has come with a request, see TypeOK
  conn,             \* its response: open, finished, closed once finished, or
                    \* destroyed before
  label,            \* trace.terminal
  call,             \* the request's tool call, if it makes one
  authenticating, requests,
  shutdown,         \* how far close() has come
  awaited           \* the terminals that close() waits for

logVars == <<answer, held, healthy>>
countVars == <<authenticating, requests>>
closeVars == <<shutdown, awaited>>
vars == <<logVars, stage, conn, label, call, countVars, closeVars>>

Log == INSTANCE BoundedLog WITH Writes <- Writers, Capacity <- MaxPending

Pending(c, writer) == answer[<<c, writer>>] = "open"
Runtime == INSTANCE CallWrites WITH
  Calls <- Requests,
  writing <- [c \in Requests |-> Pending(c, "operation")],
  replying <- [c \in Requests |-> Pending(c, "reply")],
  replied <- [c \in Requests |-> call[c] \in {"replied", "answered"}]

InFetch == {"handling", "preparing", "sending"}
Admitted == InFetch \cup {"receiving", "returned", "recording"}
Failed(c) == label[c] \in {"internal", "audit_unavailable"}

\* Mutant: places for the runtime's own limits, whatever the log can take.
requestCapacityUnbounded == 2 * MaxConcurrent

requestCapacity == Min({2 * MaxConcurrent, MaxPending \div 3})

closing == shutdown # "open"

TypeOK ==
  /\ answer \in [Writers -> {"none", "open", "acked", "lost", "refused"}]
  /\ held \subseteq Writers
  /\ healthy \in BOOLEAN
  /\ stage \in [Requests -> {"idle", "authenticating", "refused", "done"} \cup Admitted]
  /\ conn \in [Requests -> {"open", "finished", "closed", "destroyed"}]
  /\ label \in [Requests -> {"completed", "request_timeout", "disconnected",
                             "internal", "audit_unavailable"}]
  /\ call \in [Requests -> {"none", "running", "replied", "answered"}]
  /\ authenticating \in 0..MaxConcurrent
  /\ requests \in 0..requestCapacity
  /\ shutdown \in {"open", "draining", "stopped", "settling", "auditing", "closed", "rejected"}
  /\ awaited \subseteq Requests

Init ==
  /\ Log!Init
  /\ stage = [c \in Requests |-> "idle"]
  /\ conn = [c \in Requests |-> "open"]
  /\ label = [c \in Requests |-> "completed"]
  /\ call = [c \in Requests |-> "none"]
  /\ authenticating = 0 /\ requests = 0
  /\ shutdown = "open"
  /\ awaited = {}

Write(w) == Log!Accept(w) \/ Log!Refuse(w)
Acked(c) == answer[<<c, "http">>] = "acked"
Lost(c) == answer[<<c, "http">>] \in {"lost", "refused"}
Go(c, where) == stage' = [stage EXCEPT ![c] = where]
-----------------------------------------------------------------------------
(***************************************************************************)
(* The listener: authentication and admission                              *)
(***************************************************************************)
TurnAway(c) ==
  /\ stage[c] = "idle"
  /\ closing \/ authenticating >= MaxConcurrent
  /\ Go(c, "refused")
  /\ UNCHANGED <<logVars, conn, label, call, countVars, closeVars>>

Authenticate(c) ==
  /\ stage[c] = "idle"
  /\ ~closing
  /\ authenticating < MaxConcurrent
  /\ authenticating' = authenticating + 1
  /\ Go(c, "authenticating")
  /\ UNCHANGED <<logVars, conn, label, call, requests, closeVars>>

\* Mutant: a client that has left keeps its authentication place.
NotAdmittedUncounted(c) ==
  /\ stage[c] = "authenticating"
  /\ authenticating' = IF conn[c] = "open" THEN authenticating - 1 ELSE authenticating
  /\ Go(c, "refused")
  /\ UNCHANGED <<logVars, conn, label, call, requests, closeVars>>

\* verify() rejects, the client has left, or what was tested before the token
\* was verified does not hold any more.  verify() may always reject.
NotAdmitted(c) ==
  /\ stage[c] = "authenticating"
  /\ authenticating' = authenticating - 1
  /\ Go(c, "refused")
  /\ UNCHANGED <<logVars, conn, label, call, requests, closeVars>>

\* Take a place and write the received record in the same turn.
Admit(c) ==
  /\ stage[c] = "authenticating"
  /\ conn[c] = "open"
  /\ ~closing /\ healthy /\ requests < requestCapacity
  /\ authenticating' = authenticating - 1
  /\ requests' = requests + 1
  /\ Write(<<c, "http">>)
  /\ Go(c, "receiving")
  /\ UNCHANGED <<conn, label, call, closeVars>>
-----------------------------------------------------------------------------
(***************************************************************************)
(* The delivery: received record, adapter, response record                 *)
(***************************************************************************)
Failure == IF healthy THEN "internal" ELSE "audit_unavailable"

Received(c) ==
  /\ stage[c] = "receiving"
  /\ Acked(c)
  /\ Go(c, IF conn[c] = "open" THEN "handling" ELSE "returned")
  /\ UNCHANGED <<logVars, conn, label, call, countVars, closeVars>>

ReceiveLost(c) ==
  /\ stage[c] = "receiving"
  /\ Lost(c)
  /\ label' = [label EXCEPT ![c] = Failure]
  /\ Go(c, "returned")
  /\ UNCHANGED <<logVars, conn, call, countVars, closeVars>>

\* The handler has a response, or its SSE stream opens before or during the call.
Prepare(c) ==
  /\ stage[c] = "handling"
  /\ Write(<<c, "http">>)
  /\ Go(c, "preparing")
  /\ UNCHANGED <<conn, label, call, countVars, closeVars>>

\* The body cannot be read, or the handler throws before it calls a tool.
HandlerThrows(c) ==
  /\ stage[c] = "handling"
  /\ call[c] = "none"
  /\ label' = [label EXCEPT ![c] = Failure]
  /\ Go(c, "sending")
  /\ UNCHANGED <<logVars, conn, call, countVars, closeVars>>

Prepared(c) ==
  /\ stage[c] = "preparing"
  /\ Acked(c)
  /\ Go(c, "sending")
  /\ UNCHANGED <<logVars, conn, label, call, countVars, closeVars>>

PrepareLost(c) ==
  /\ stage[c] = "preparing"
  /\ Lost(c)
  /\ label' = [label EXCEPT ![c] = Failure]
  /\ Go(c, "sending")
  /\ UNCHANGED <<logVars, conn, call, countVars, closeVars>>

\* The response ends: with the tool's answer, or instead of it after a failure.
Finish(c) ==
  /\ stage[c] \in {"sending", "returned"}
  /\ conn[c] = "open"
  /\ call[c] \in {"none", "answered"} \/ Failed(c)
  /\ conn' = [conn EXCEPT ![c] = "finished"]
  /\ UNCHANGED <<logVars, stage, label, call, countVars, closeVars>>

\* The adapter passes a disconnect on as a cancellation, and returns when the
\* call has an outcome.
AdapterReturns(c) ==
  /\ stage[c] = "sending"
  /\ conn[c] # "open"
  /\ call[c] # "running" \/ Failed(c)
  /\ Go(c, "returned")
  /\ UNCHANGED <<logVars, conn, label, call, countVars, closeVars>>

Delivery(c) ==
  \/ Received(c) \/ ReceiveLost(c)
  \/ Prepare(c) \/ HandlerThrows(c) \/ Prepared(c) \/ PrepareLost(c)
  \/ AdapterReturns(c)
-----------------------------------------------------------------------------
(***************************************************************************)
(* The tool call in the runtime, through the SDK                           *)
(***************************************************************************)
CallTool(c) ==
  /\ stage[c] \in InFetch
  /\ conn[c] = "open"
  /\ call[c] = "none" /\ ~Failed(c)
  /\ call' = [call EXCEPT ![c] = "running"]
  /\ UNCHANGED <<logVars, stage, conn, label, countVars, closeVars>>

OperationWrites(c) ==
  /\ call[c] = "running"
  /\ Write(<<c, "operation">>)
  /\ UNCHANGED <<stage, conn, label, call, countVars, closeVars>>
  /\ Runtime!OperationWrites(c)

\* The call has an outcome, and a record of it is written unless there is one.
Replies(c) ==
  /\ call[c] = "running"
  /\ call' = [call EXCEPT ![c] = "replied"]
  /\ Write(<<c, "reply">>) \/ (~Pending(c, "operation") /\ UNCHANGED logVars)
  /\ UNCHANGED <<stage, conn, label, countVars, closeVars>>
  /\ Runtime!Replies(c)

\* The gate records what nobody else has; a withdrawn response does not reach it.
Observes(c) ==
  /\ call[c] = "replied"
  /\ conn[c] = "open"
  /\ Write(<<c, "reply">>)
  /\ UNCHANGED <<stage, conn, label, call, countVars, closeVars>>
  /\ Runtime!Observes(c)

Forward(c) ==
  /\ call[c] = "replied"
  /\ ~Pending(c, "reply")
  /\ call' = [call EXCEPT ![c] = "answered"]
  /\ UNCHANGED <<logVars, stage, conn, label, countVars, closeVars>>

ToolCall(c) ==
  CallTool(c) \/ OperationWrites(c) \/ Replies(c) \/ Observes(c) \/ Forward(c)
-----------------------------------------------------------------------------
(***************************************************************************)
(* The connection and its deadline.  A destroyed response emits 'close'    *)
(* before anything else can read trace.terminal.                           *)
(***************************************************************************)
Open(c) == conn[c] \in {"open", "finished"}

\* trace.terminal once the connections in gone are closed.
Labelled(gone) ==
  [c \in Requests |->
    IF c \in gone /\ conn[c] = "open" /\ label[c] = "completed"
    THEN "disconnected" ELSE label[c]]

\* The state of the responses once the connections in gone are closed.
Severed(gone) ==
  [c \in Requests |->
    IF c \notin gone THEN conn[c]
    ELSE IF conn[c] = "open" THEN "destroyed" ELSE "closed"]

\* Mutant: a response that did not finish keeps its label.
CloseUnlabelled(c) ==
  /\ stage[c] \in {"authenticating"} \cup Admitted
  /\ Open(c)
  /\ conn' = Severed({c})
  /\ UNCHANGED <<logVars, stage, label, call, countVars, closeVars>>

\* The response closes, finished or not.
CloseResponse(c) ==
  /\ stage[c] \in {"authenticating"} \cup Admitted
  /\ Open(c)
  /\ conn' = Severed({c})
  /\ label' = IF stage[c] = "authenticating" THEN label ELSE Labelled({c})
  /\ UNCHANGED <<logVars, stage, call, countVars, closeVars>>

\* Mutant: no deadline is set.
RequestTimeoutNever(c) == c \notin Requests /\ UNCHANGED vars

\* It is not cleared before 'close', so a finished response can still meet it.
RequestTimeout(c) ==
  /\ stage[c] \in Admitted
  /\ Open(c)
  /\ label' = [label EXCEPT ![c] = "request_timeout"]
  /\ conn' = Severed({c})
  /\ UNCHANGED <<logVars, stage, call, countVars, closeVars>>
-----------------------------------------------------------------------------
(***************************************************************************)
(* The terminal                                                            *)
(***************************************************************************)
Settled(c) == ~Pending(c, "http") /\ ~Pending(c, "operation") /\ ~Pending(c, "reply")

\* Mutant: the scope's deliveries are not waited for.
RecordTerminalUnsettled(c) ==
  /\ stage[c] = "returned"
  /\ ~Open(c)
  /\ Write(<<c, "http">>)
  /\ Go(c, "recording")
  /\ UNCHANGED <<conn, label, call, countVars, closeVars>>

\* The response has closed, the delivery is over, and the scope has settled.
RecordTerminal(c) ==
  /\ stage[c] = "returned"
  /\ ~Open(c)
  /\ Settled(c)
  /\ Write(<<c, "http">>)
  /\ Go(c, "recording")
  /\ UNCHANGED <<conn, label, call, countVars, closeVars>>

\* The record is stored or lost: give the place back.
Release(c) ==
  /\ stage[c] = "recording"
  /\ Acked(c) \/ Lost(c)
  /\ requests' = requests - 1
  /\ Go(c, "done")
  /\ UNCHANGED <<logVars, conn, label, call, authenticating, closeVars>>
-----------------------------------------------------------------------------
(***************************************************************************)
(* close()                                                                 *)
(***************************************************************************)
Close ==
  /\ shutdown = "open"
  /\ shutdown' = "draining"
  /\ UNCHANGED <<logVars, stage, conn, label, call, countVars, awaited>>

\* The execution has drained or its grace is over: close what is still connected.
CloseConnections ==
  /\ shutdown = "draining"
  /\ LET gone == {c \in Requests : Open(c) /\ stage[c] \in {"authenticating"} \cup Admitted}
     IN /\ label' = [c \in Requests |->
                       IF stage[c] \in Admitted THEN Labelled(gone)[c] ELSE label[c]]
        /\ conn' = Severed(gone)
  /\ shutdown' = "stopped"
  /\ UNCHANGED <<logVars, stage, call, countVars, awaited>>

\* Mutant: no terminal is waited for.
AwaitNoTerminals ==
  /\ shutdown = "stopped"
  /\ awaited' = {}
  /\ shutdown' = "settling"
  /\ UNCHANGED <<logVars, stage, conn, label, call, countVars>>

AwaitTerminals ==
  /\ shutdown = "stopped"
  /\ awaited' = {c \in Requests : stage[c] \in Admitted}
  /\ shutdown' = "settling"
  /\ UNCHANGED <<logVars, stage, conn, label, call, countVars>>

\* runtime.close(): a resource that cannot be disposed of ends it early.
RuntimeCloses ==
  /\ shutdown = "settling"
  /\ \A c \in awaited : stage[c] \notin Admitted
  /\ shutdown' \in {"auditing", "rejected"}
  /\ UNCHANGED <<logVars, stage, conn, label, call, countVars, awaited>>

AuditCloses ==
  /\ shutdown = "auditing"
  /\ \/ shutdown' = "closed" /\ UNCHANGED logVars
     \/ shutdown' = "rejected" /\ Log!FailClosing
  /\ UNCHANGED <<stage, conn, label, call, countVars, awaited>>
-----------------------------------------------------------------------------
\* The log answers its writers.
LogAnswers(w) ==
  /\ Log!Ack(w) \/ Log!Lose(w)
  /\ UNCHANGED <<stage, conn, label, call, countVars, closeVars>>

LogReleases(w) ==
  /\ Log!Release(w)
  /\ UNCHANGED <<stage, conn, label, call, countVars, closeVars>>

\* Every request was served or refused, and its call is over.
Quiescent ==
  /\ \A c \in Requests : stage[c] \in {"refused", "done"} /\ call[c] \in {"none", "answered"}
  /\ held = {} /\ shutdown \in {"open", "closed", "rejected"}
  /\ UNCHANGED vars

Next ==
  \/ \E c \in Requests :
       \/ TurnAway(c) \/ Authenticate(c) \/ NotAdmitted(c) \/ Admit(c)
       \/ Delivery(c) \/ ToolCall(c) \/ Finish(c)
       \/ CloseResponse(c) \/ RequestTimeout(c)
       \/ RecordTerminal(c) \/ Release(c)
  \/ \E w \in Writers : LogAnswers(w) \/ LogReleases(w)
  \/ Close \/ CloseConnections \/ AwaitTerminals \/ RuntimeCloses \/ AuditCloses
  \/ Quiescent

\* Timers fire, the log answers every write and the runtime every call; a token
\* may never be verified, nor a response read by its client.
Fairness ==
  /\ \A c \in Requests :
       /\ WF_vars(Received(c) \/ ReceiveLost(c) \/ Prepared(c) \/ PrepareLost(c))
       /\ WF_vars(conn[c] # "open" /\ (Prepare(c) \/ HandlerThrows(c)))
       /\ WF_vars(AdapterReturns(c))
       /\ WF_vars(Replies(c)) /\ WF_vars(Forward(c))
       /\ WF_vars(RequestTimeout(c))
       /\ WF_vars(RecordTerminal(c)) /\ WF_vars(Release(c))
  /\ \A w \in Writers : WF_vars(LogAnswers(w))
  /\ WF_vars(CloseConnections) /\ WF_vars(AwaitTerminals)
  /\ WF_vars(RuntimeCloses) /\ WF_vars(AuditCloses)

Spec == Init /\ [][Next]_vars
FairSpec == Spec /\ Fairness

\* A server that is not closed.
OpenSpec == Init /\ [][Next /\ ~Close]_vars
-----------------------------------------------------------------------------
(***************************************************************************)
(* Properties                                                              *)
(***************************************************************************)

\* A place that was taken is held by a request until its terminal record has
\* settled, and no longer: none leaks, whatever fails (http.ts:243-265, 334-339).
PlacesAreAccounted ==
  /\ TypeOK
  /\ requests = Cardinality({c \in Requests : stage[c] \in Admitted})
  /\ authenticating = Cardinality({c \in Requests : stage[c] = "authenticating"})

\* While audit is healthy no record finds the log full: admission alone keeps
\* HTTP load from turning readiness off (http.ts:58-64).
HealthyNeverDrops ==
  [][healthy => \A w \in Writers : answer'[w] # "refused"]_vars

\* When the terminal record is written no other record of the request is pending,
\* though its tool may run on (http.ts:323-327, audit.ts:68-80).
TerminalIsLast ==
  \A c \in Requests :
    stage[c] \in {"recording", "done"} => ~Pending(c, "operation") /\ ~Pending(c, "reply")

\* A request is recorded as completed only if its response was delivered after
\* the tool call it made was answered (http.ts:290-294, 327-330).
CompletedIsDelivered ==
  \A c \in Requests :
    stage[c] \in {"recording", "done"} /\ label[c] = "completed" =>
      conn[c] = "closed" /\ call[c] \in {"none", "answered"}

\* The audit log is closed when every request is recorded and no record can still
\* be written (http.ts:370-377).
AuditIsClosedLast ==
  shutdown \in {"auditing", "closed"} =>
    /\ \A c \in Requests : stage[c] \notin Admitted
    /\ \A w \in Writers : answer[w] # "open"

\* Every place taken is given back although the client, the tool or the sink blocks
\* (http.ts:285-288, 334-339), and close() ends although clients do not read and a
\* terminal record is lost (http.ts:364-379).
EveryWaitEnds ==
  /\ \A c \in Requests : stage[c] = "receiving" ~> stage[c] = "done"
  /\ shutdown = "draining" ~> shutdown \in {"closed", "rejected"}
=============================================================================
