----------------------------- MODULE HttpProofs -----------------------------
(***************************************************************************)
(* Theorems about the HTTP server for any requests, any number of places   *)
(* and any capacity of the audit log: the counts balance, the terminal     *)
(* record is the last and tells the truth, the log is closed after it, and *)
(* no record of an admitted request finds a healthy log full.              *)
(***************************************************************************)
EXTENDS HttpServer, FiniteSetTheorems, TLAPS

AdmittedRequests == {c \in Requests : stage[c] \in Admitted}
Authenticating == {c \in Requests : stage[c] = "authenticating"}

PlacesInv ==
  /\ IsFiniteSet(AdmittedRequests) /\ requests = Cardinality(AdmittedRequests)
  /\ IsFiniteSet(Authenticating) /\ authenticating = Cardinality(Authenticating)

Before == {"idle", "authenticating", "refused"}
After == {"recording", "done"}

\* A tool call belongs to a delivery, which outlives it unless the log failed.
Calling(c) ==
  /\ stage[c] \in Before \cup {"receiving"} => call[c] = "none"
  /\ stage[c] \in After \cup {"returned"} => call[c] # "running" \/ healthy = FALSE
  /\ Failed(c) => call[c] = "none" \/ healthy = FALSE
  /\ stage[c] \in After => ~Open(c)

\* Who can have a record pending.
Writing(c) ==
  /\ stage[c] \in Before => answer[<<c, "http">>] = "none"
  /\ call[c] = "none" => answer[<<c, "operation">>] = "none" /\ answer[<<c, "reply">>] = "none"
  /\ stage[c] \in After => ~Pending(c, "operation") /\ ~Pending(c, "reply")
  /\ stage[c] = "done" => ~Pending(c, "http")

\* A label that says completed is still to be earned, or has been.
Labelling(c) ==
  stage[c] \in Admitted \cup {"done"} /\ label[c] = "completed" =>
    /\ conn[c] # "destroyed"
    /\ conn[c] # "open" => call[c] \in {"none", "answered"}

RequestOK(c) == Calling(c) /\ Writing(c) /\ Labelling(c)

RequestInv == \A c \in Requests : RequestOK(c)

\* While the log is healthy, no record was lost and only pending ones hold slots.
HealthyInv ==
  /\ \A w \in Writers : answer[w] \in {"lost", "refused"} => healthy = FALSE
  /\ healthy => \A w \in held : answer[w] = "open"

\* close() knows every request that it has to wait for.
CloseInv ==
  /\ shutdown \in {"settling", "auditing", "closed", "rejected"} => AdmittedRequests \subseteq awaited
  /\ shutdown \in {"auditing", "closed"} => AdmittedRequests = {}

IInv == TypeOK /\ PlacesInv /\ RequestInv /\ HealthyInv /\ CloseInv
-----------------------------------------------------------------------------
(***************************************************************************)
(* Places and slots                                                        *)
(***************************************************************************)
LEMMA CapacityOfPlaces ==
  requestCapacity \in Nat /\ requestCapacity >= 1 /\ 3 * requestCapacity <= MaxPending
<1> DEFINE a == 2 * MaxConcurrent
           b == MaxPending \div 3
<1>1. a \in Nat /\ a >= 1 /\ b \in Nat /\ b >= 1 /\ 3 * b <= MaxPending
  BY HttpAssumption
<1>2. \E x \in {a, b} : \A y \in {a, b} : x <= y
  BY <1>1
<1> HIDE DEF a, b
<1>3. Min({a, b}) \in {a, b} /\ Min({a, b}) <= b
  BY <1>2 DEF Min
<1> QED
  BY <1>1, <1>3, HttpAssumption DEF requestCapacity, a, b

LEMMA WritersOf ==
  ASSUME NEW c \in Requests
  PROVE  {<<c, "http">>, <<c, "operation">>, <<c, "reply">>} \subseteq Writers
  BY DEF Writers

\* Who is counted was counted.
LEMMA Counted ==
  ASSUME IInv, NEW c \in Requests
  PROVE  /\ stage[c] = "authenticating" => authenticating >= 1
         /\ stage[c] \in Admitted => requests >= 1
<1> USE DEF IInv, PlacesInv
<1>1. stage[c] = "authenticating" => Cardinality(Authenticating) # 0
  BY FS_EmptySet DEF Authenticating
<1>2. stage[c] \in Admitted => Cardinality(AdmittedRequests) # 0
  BY FS_EmptySet DEF AdmittedRequests
<1> QED
  BY <1>1, <1>2, CapacityOfPlaces, HttpAssumption DEF TypeOK

\* What write() does to the log.
LEMMA WriteEffect ==
  ASSUME TypeOK, NEW w \in Writers, Write(w)
  PROVE  /\ answer[w] # "open"
         /\ answer' \in [Writers -> {"none", "open", "acked", "lost", "refused"}]
         /\ answer'[w] = "open" \/ (answer'[w] = "refused" /\ healthy' = FALSE)
         /\ \A v \in Writers : v # w => answer'[v] = answer[v]
         /\ held' \subseteq Writers /\ healthy' \in BOOLEAN
         /\ healthy = FALSE => healthy' = FALSE /\ answer'[w] = "refused"
  BY DEF TypeOK, Write, Log!Accept, Log!Refuse

\* What the log's own steps do to it.
LEMMA LogEffect ==
  ASSUME TypeOK, NEW w \in Writers, LogAnswers(w) \/ LogReleases(w)
  PROVE  /\ answer' \in [Writers -> {"none", "open", "acked", "lost", "refused"}]
         /\ \A v \in Writers :
              answer'[v] = answer[v] \/ (answer[v] = "open" /\ answer'[v] \in {"acked", "lost"})
         /\ held' \subseteq Writers /\ healthy' \in BOOLEAN
         /\ healthy = FALSE => healthy' = FALSE
         /\ UNCHANGED <<stage, conn, label, call, countVars, closeVars>>
  BY DEF TypeOK, LogAnswers, LogReleases, Log!Ack, Log!Lose, Log!Release

LEMMA HealthyPreserved ==
  ASSUME TypeOK, HealthyInv,
         \/ \E w \in Writers : Write(w) \/ LogAnswers(w) \/ LogReleases(w)
         \/ Log!FailClosing
         \/ UNCHANGED logVars
  PROVE  HealthyInv'
<1> USE DEF TypeOK, HealthyInv
<1>1. ASSUME NEW w \in Writers, Write(w) PROVE HealthyInv'
  BY <1>1 DEF Write, Log!Accept, Log!Refuse
<1>2. ASSUME NEW w \in Writers, LogAnswers(w) PROVE HealthyInv'
  BY <1>2 DEF LogAnswers, Log!Ack, Log!Lose
<1>3. ASSUME NEW w \in Writers, LogReleases(w) PROVE HealthyInv'
  BY <1>3 DEF LogReleases, Log!Release
<1>4. CASE Log!FailClosing \/ UNCHANGED logVars
  BY <1>4 DEF Log!FailClosing, logVars
<1> QED
  BY <1>1, <1>2, <1>3, <1>4
-----------------------------------------------------------------------------
(***************************************************************************)
(* The inductive invariant, part by part                                   *)
(***************************************************************************)
LEMMA InitIInv == Init => IInv
<1> SUFFICES ASSUME Init PROVE IInv
  OBVIOUS
<1> USE DEF Init, Log!Init
<1>1. TypeOK
  BY CapacityOfPlaces, HttpAssumption DEF TypeOK
<1>2. PlacesInv
  <2>1. AdmittedRequests = {} /\ Authenticating = {}
    BY DEF AdmittedRequests, Authenticating, Admitted, InFetch
  <2> QED
    BY <2>1, FS_EmptySet DEF PlacesInv
<1>3. RequestInv
  BY DEF RequestInv, RequestOK, Calling, Writing, Labelling, Before, After, Admitted, InFetch, Failed,
         Open, Pending, Writers
<1>4. HealthyInv /\ CloseInv
  BY DEF HealthyInv, CloseInv
<1> QED
  BY <1>1, <1>2, <1>3, <1>4 DEF IInv

LEMMA TypePreserved ==
  ASSUME IInv, [Next]_vars
  PROVE  TypeOK'
<1> USE CapacityOfPlaces, HttpAssumption DEF IInv
<1> USE DEF TypeOK, Go, Admitted, InFetch, logVars, countVars, closeVars
<1>1. ASSUME NEW c \in Requests, TurnAway(c) \/ Authenticate(c) \/ NotAdmitted(c)
      PROVE  TypeOK'
  BY <1>1, Counted DEF TurnAway, Authenticate, NotAdmitted
<1>2. ASSUME NEW c \in Requests, Admit(c) PROVE TypeOK'
  <2>1. <<c, "http">> \in Writers /\ Write(<<c, "http">>)
    BY <1>2, WritersOf DEF Admit
  <2>2. answer' \in [Writers -> {"none", "open", "acked", "lost", "refused"}]
        /\ held' \subseteq Writers /\ healthy' \in BOOLEAN
    BY <2>1, WriteEffect
  <2> QED
    BY <1>2, <2>2, Counted DEF Admit
<1>3. ASSUME NEW c \in Requests, Delivery(c) PROVE TypeOK'
  <2>1. CASE Prepare(c)
    BY <2>1, WritersOf, WriteEffect DEF Prepare
  <2> QED
    BY <1>3, <2>1 DEF Delivery, Received, ReceiveLost, HandlerThrows, Prepared, PrepareLost,
                      AdapterReturns, Failure
<1>4. ASSUME NEW c \in Requests, ToolCall(c) PROVE TypeOK'
  <2>1. CASE OperationWrites(c)
    BY <2>1, WritersOf, WriteEffect DEF OperationWrites
  <2>2. CASE Replies(c)
    BY <2>2, WritersOf, WriteEffect DEF Replies
  <2>3. CASE Observes(c)
    BY <2>3, WritersOf, WriteEffect DEF Observes
  <2> QED
    BY <1>4, <2>1, <2>2, <2>3 DEF ToolCall, CallTool, Forward
<1>5. ASSUME NEW c \in Requests, Finish(c) \/ CloseResponse(c) \/ RequestTimeout(c)
      PROVE  TypeOK'
  BY <1>5 DEF Finish, CloseResponse, RequestTimeout, Severed, Labelled
<1>6. ASSUME NEW c \in Requests, RecordTerminal(c) PROVE TypeOK'
  BY <1>6, WritersOf, WriteEffect DEF RecordTerminal
<1>7. ASSUME NEW c \in Requests, Release(c) PROVE TypeOK'
  BY <1>7, Counted DEF Release
<1>8. ASSUME NEW w \in Writers, LogAnswers(w) \/ LogReleases(w) PROVE TypeOK'
  BY <1>8, LogEffect
<1>9. CASE Close \/ CloseConnections \/ AwaitTerminals \/ RuntimeCloses \/ AuditCloses
  <2>1. CASE Close \/ AwaitTerminals \/ RuntimeCloses
    BY <2>1 DEF Close, AwaitTerminals, RuntimeCloses
  <2>2. CASE CloseConnections
    BY <2>2 DEF CloseConnections, Severed, Labelled
  <2>3. CASE AuditCloses
    BY <2>3 DEF AuditCloses, Log!FailClosing
  <2> QED
    BY <1>9, <2>1, <2>2, <2>3
<1>10. CASE Quiescent \/ UNCHANGED vars
  BY <1>10 DEF Quiescent, vars
<1> QED
  BY <1>1, <1>2, <1>3, <1>4, <1>5, <1>6, <1>7, <1>8, <1>9, <1>10 DEF Next
\* A step that puts each request where it was leaves the counts alone.
LEMMA PlacesPreserved ==
  ASSUME IInv, [Next]_vars, TypeOK'
  PROVE  PlacesInv'
<1> USE CapacityOfPlaces DEF IInv, TypeOK, PlacesInv
<1> DEFINE Stays == /\ Authenticating' = Authenticating /\ authenticating' = authenticating
                    /\ AdmittedRequests' = AdmittedRequests /\ requests' = requests
<1>1. ASSUME NEW c \in Requests, Authenticate(c) PROVE PlacesInv'
  <2>1. /\ Authenticating' = Authenticating \cup {c} /\ c \notin Authenticating
        /\ AdmittedRequests' = AdmittedRequests
    BY <1>1 DEF Authenticate, Go, Authenticating, AdmittedRequests, Admitted, InFetch
  <2> QED
    BY <1>1, <2>1, FS_AddElement DEF Authenticate
<1>2. ASSUME NEW c \in Requests, NotAdmitted(c) PROVE PlacesInv'
  <2>1. /\ Authenticating' = Authenticating \ {c} /\ c \in Authenticating
        /\ AdmittedRequests' = AdmittedRequests
    BY <1>2 DEF NotAdmitted, Go, Authenticating, AdmittedRequests, Admitted, InFetch
  <2> QED
    BY <1>2, <2>1, FS_RemoveElement DEF NotAdmitted
<1>3. ASSUME NEW c \in Requests, Admit(c) PROVE PlacesInv'
  <2>1. /\ Authenticating' = Authenticating \ {c} /\ c \in Authenticating
        /\ AdmittedRequests' = AdmittedRequests \cup {c} /\ c \notin AdmittedRequests
    BY <1>3 DEF Admit, Go, Authenticating, AdmittedRequests, Admitted, InFetch
  <2> QED
    BY <1>3, <2>1, FS_AddElement, FS_RemoveElement DEF Admit
<1>4. ASSUME NEW c \in Requests, Release(c) PROVE PlacesInv'
  <2>1. /\ Authenticating' = Authenticating
        /\ AdmittedRequests' = AdmittedRequests \ {c} /\ c \in AdmittedRequests
    BY <1>4 DEF Release, Go, Authenticating, AdmittedRequests, Admitted, InFetch
  <2> QED
    BY <1>4, <2>1, FS_RemoveElement DEF Release
<1>5. ASSUME Stays PROVE PlacesInv'
  BY <1>5
<1> USE DEF Go, Authenticating, AdmittedRequests, Admitted, InFetch, countVars
<1>6. ASSUME NEW c \in Requests, TurnAway(c) \/ Delivery(c) \/ RecordTerminal(c)
      PROVE  Stays
  BY <1>6 DEF TurnAway, Delivery, Received, ReceiveLost, Prepare, HandlerThrows, Prepared,
              PrepareLost, AdapterReturns, RecordTerminal
<1>7. ASSUME NEW c \in Requests,
             ToolCall(c) \/ Finish(c) \/ CloseResponse(c) \/ RequestTimeout(c)
      PROVE  Stays
  BY <1>7 DEF ToolCall, CallTool, OperationWrites, Replies, Observes, Forward, Finish,
              CloseResponse, RequestTimeout
<1>8. ASSUME NEW w \in Writers, LogAnswers(w) \/ LogReleases(w) PROVE Stays
  BY <1>8 DEF LogAnswers, LogReleases
<1>9. CASE Close \/ CloseConnections \/ AwaitTerminals \/ RuntimeCloses \/ AuditCloses
  <2>1. UNCHANGED <<stage, countVars>>
    BY <1>9 DEF Close, CloseConnections, AwaitTerminals, RuntimeCloses, AuditCloses
  <2>2. Stays
    BY <2>1
  <2> QED
    BY <1>5, <2>2
<1>10. CASE Quiescent \/ UNCHANGED vars
  <2>1. UNCHANGED <<stage, countVars>>
    BY <1>10 DEF Quiescent, vars
  <2>2. Stays
    BY <2>1
  <2> QED
    BY <1>5, <2>2
<1> QED
  BY <1>1, <1>2, <1>3, <1>4, <1>5, <1>6, <1>7, <1>8, <1>9, <1>10 DEF Next
\* A step that is not about a request may lose a record of it, or the log's health.
Untouched(c) ==
  /\ stage'[c] = stage[c] /\ conn'[c] = conn[c] /\ label'[c] = label[c] /\ call'[c] = call[c]
  /\ \A k \in {"http", "operation", "reply"} :
       \/ answer'[<<c, k>>] = answer[<<c, k>>]
       \/ answer[<<c, k>>] = "open" /\ answer'[<<c, k>>] \in {"acked", "lost"}
  /\ healthy = FALSE => healthy' = FALSE

LEMMA UntouchedPreserved ==
  ASSUME NEW c \in Requests, RequestOK(c), Untouched(c)
  PROVE  RequestOK(c)'
<1> USE DEF RequestOK, Untouched
<1>1. Calling(c)' /\ Labelling(c)'
  BY DEF Calling, Labelling, Before, After, Admitted, InFetch, Failed, Open
<1>2. Writing(c)'
  BY DEF Writing, Before, After, Pending
<1> QED
  BY <1>1, <1>2

\* A step of one request leaves the others untouched.
LEMMA OthersUntouched ==
  ASSUME TypeOK, NEW c \in Requests,
         \/ TurnAway(c) \/ Authenticate(c) \/ NotAdmitted(c) \/ Admit(c)
         \/ Delivery(c) \/ ToolCall(c) \/ Finish(c) \/ CloseResponse(c) \/ RequestTimeout(c)
         \/ RecordTerminal(c) \/ Release(c)
  PROVE  \A d \in Requests : d # c => Untouched(d)
<1> SUFFICES ASSUME NEW d \in Requests, d # c PROVE Untouched(d)
  OBVIOUS
<1> DEFINE Logged == \/ answer' = answer /\ healthy' = healthy
                     \/ \E k \in {"http", "operation", "reply"} : Write(<<c, k>>)
<1>1. Logged => /\ \A k \in {"http", "operation", "reply"} : answer'[<<d, k>>] = answer[<<d, k>>]
                /\ healthy = FALSE => healthy' = FALSE
  <2>1. ASSUME NEW j \in {"http", "operation", "reply"}, NEW k \in {"http", "operation", "reply"},
               Write(<<c, j>>)
        PROVE  answer'[<<d, k>>] = answer[<<d, k>>] /\ (healthy = FALSE => healthy' = FALSE)
    <3>1. <<c, j>> \in Writers /\ <<d, k>> \in Writers /\ <<d, k>> # <<c, j>>
      BY DEF Writers
    <3> QED
      BY <2>1, <3>1, WriteEffect
  <2> QED
    BY <2>1
<1>2. Logged /\ stage'[d] = stage[d] /\ conn'[d] = conn[d] /\ label'[d] = label[d] /\ call'[d] = call[d]
  <2> USE DEF TypeOK, Go, logVars
  <2>1. CASE TurnAway(c) \/ Authenticate(c) \/ NotAdmitted(c) \/ Admit(c) \/ RecordTerminal(c)
             \/ Release(c)
    BY <2>1 DEF TurnAway, Authenticate, NotAdmitted, Admit, RecordTerminal, Release
  <2>2. CASE Delivery(c)
    BY <2>2 DEF Delivery, Received, ReceiveLost, Prepare, HandlerThrows, Prepared, PrepareLost,
                AdapterReturns
  <2>3. CASE ToolCall(c)
    BY <2>3 DEF ToolCall, CallTool, OperationWrites, Replies, Observes, Forward
  <2>4. CASE Finish(c) \/ CloseResponse(c) \/ RequestTimeout(c)
    BY <2>4 DEF Finish, CloseResponse, RequestTimeout, Labelled, Severed
  <2> QED
    BY <2>1, <2>2, <2>3, <2>4
<1> QED
  BY <1>1, <1>2 DEF Untouched
\* What a write of one of its records does to a request.
Wrote(c, k) ==
  /\ answer'[<<c, k>>] \in {"open", "refused"}
  /\ \A j \in {"http", "operation", "reply"} : j # k => answer'[<<c, j>>] = answer[<<c, j>>]
  /\ healthy = FALSE => healthy' = FALSE /\ answer'[<<c, k>>] = "refused"

LEMMA WriteOfRequest ==
  ASSUME TypeOK, NEW c \in Requests, NEW k \in {"http", "operation", "reply"}, Write(<<c, k>>)
  PROVE  Wrote(c, k)
<1>1. \A j \in {"http", "operation", "reply"} :
        <<c, j>> \in Writers /\ (j # k => <<c, j>> # <<c, k>>)
  BY DEF Writers
<1> QED
  BY <1>1, WriteEffect DEF Wrote

LEMMA AdmissionOfRequest ==
  ASSUME IInv, NEW c \in Requests,
         TurnAway(c) \/ Authenticate(c) \/ NotAdmitted(c) \/ Admit(c)
  PROVE  RequestOK(c)'
<1> USE DEF IInv, TypeOK, RequestInv, RequestOK, Go, Before, After, Admitted, InFetch, Failed, Open,
            Calling, Writing, Labelling, Pending
<1>1. CASE TurnAway(c) \/ Authenticate(c) \/ NotAdmitted(c)
  BY <1>1 DEF TurnAway, Authenticate, NotAdmitted, logVars
<1>2. CASE Admit(c)
  <2>1. Wrote(c, "http")
    BY <1>2, WriteOfRequest DEF Admit
  <2> QED
    BY <1>2, <2>1 DEF Admit, Wrote
<1> QED
  BY <1>1, <1>2

LEMMA DeliveryOfRequest ==
  ASSUME IInv, NEW c \in Requests, Delivery(c) \/ RecordTerminal(c) \/ Release(c)
  PROVE  RequestOK(c)'
<1> USE DEF IInv, TypeOK, RequestInv, RequestOK, Go, Before, After, Admitted, InFetch, Failed, Open,
            Calling, Writing, Labelling, Pending
<1>1. Lost(c) => healthy = FALSE
  BY DEF Lost, HealthyInv, Writers
<1>2. CASE Received(c) \/ Prepared(c) \/ AdapterReturns(c)
  BY <1>2 DEF Received, Prepared, AdapterReturns, logVars
<1>3. CASE ReceiveLost(c) \/ PrepareLost(c) \/ HandlerThrows(c)
  BY <1>1, <1>3 DEF ReceiveLost, PrepareLost, HandlerThrows, Failure, logVars
<1>4. CASE Prepare(c)
  <2>1. Wrote(c, "http")
    BY <1>4, WriteOfRequest DEF Prepare
  <2> QED
    BY <1>4, <2>1 DEF Prepare, Wrote
<1>5. CASE RecordTerminal(c)
  <2>1. Wrote(c, "http")
    BY <1>5, WriteOfRequest DEF RecordTerminal
  <2> QED
    BY <1>5, <2>1 DEF RecordTerminal, Wrote, Settled
<1>6. CASE Release(c)
  BY <1>6 DEF Release, Acked, Lost, logVars
<1> QED
  BY <1>2, <1>3, <1>4, <1>5, <1>6 DEF Delivery

LEMMA CallOfRequest ==
  ASSUME IInv, NEW c \in Requests, ToolCall(c)
  PROVE  RequestOK(c)'
<1> USE DEF IInv, TypeOK, RequestInv, RequestOK, Before, After, Admitted, InFetch, Failed, Open,
            Calling, Writing, Labelling, Pending
<1>1. CASE CallTool(c) \/ Forward(c)
  BY <1>1 DEF CallTool, Forward, logVars
<1>2. CASE OperationWrites(c)
  <2>1. Wrote(c, "operation")
    BY <1>2, WriteOfRequest DEF OperationWrites
  <2> QED
    BY <1>2, <2>1 DEF OperationWrites, Wrote
<1>3. CASE Replies(c)
  <2>1. Wrote(c, "reply") \/ UNCHANGED logVars
    BY <1>3, WriteOfRequest DEF Replies
  <2> QED
    BY <1>3, <2>1 DEF Replies, Wrote, logVars
<1>4. CASE Observes(c)
  <2>1. Wrote(c, "reply")
    BY <1>4, WriteOfRequest DEF Observes
  <2> QED
    BY <1>4, <2>1 DEF Observes, Wrote
<1> QED
  BY <1>1, <1>2, <1>3, <1>4 DEF ToolCall

LEMMA ConnectionOfRequest ==
  ASSUME IInv, NEW c \in Requests,
         Finish(c) \/ CloseResponse(c) \/ RequestTimeout(c) \/ CloseConnections
  PROVE  RequestOK(c)'
<1> USE DEF IInv, TypeOK, RequestInv, RequestOK, Before, After, Admitted, InFetch, Failed, Open,
            Calling, Writing, Labelling, Pending, logVars
<1>1. CASE Finish(c)
  BY <1>1 DEF Finish
<1>2. CASE CloseResponse(c) \/ RequestTimeout(c)
  BY <1>2 DEF CloseResponse, RequestTimeout, Labelled, Severed
<1>3. CASE CloseConnections
  BY <1>3 DEF CloseConnections, Labelled, Severed
<1> QED
  BY <1>1, <1>2, <1>3
LEMMA RequestPreserved ==
  ASSUME IInv, [Next]_vars
  PROVE  RequestInv'
<1> SUFFICES ASSUME NEW d \in Requests PROVE RequestOK(d)'
  BY DEF RequestInv
<1>1. TypeOK /\ RequestOK(d)
  BY DEF IInv, RequestInv
<1>2. ASSUME Untouched(d) PROVE RequestOK(d)'
  BY <1>1, <1>2, UntouchedPreserved
<1>3. ASSUME NEW c \in Requests,
             \/ TurnAway(c) \/ Authenticate(c) \/ NotAdmitted(c) \/ Admit(c)
             \/ Delivery(c) \/ ToolCall(c) \/ Finish(c) \/ CloseResponse(c)
             \/ RequestTimeout(c) \/ RecordTerminal(c) \/ Release(c)
      PROVE  RequestOK(d)'
  <2>1. CASE c = d
    BY <1>3, <2>1, AdmissionOfRequest, DeliveryOfRequest, CallOfRequest, ConnectionOfRequest
  <2>2. CASE c # d
    BY <1>1, <1>2, <1>3, <2>2, OthersUntouched
  <2> QED
    BY <2>1, <2>2
<1>4. ASSUME NEW w \in Writers, LogAnswers(w) \/ LogReleases(w) PROVE RequestOK(d)'
  <2>1. \A k \in {"http", "operation", "reply"} : <<d, k>> \in Writers
    BY DEF Writers
  <2> QED
    BY <1>1, <1>2, <1>4, <2>1, LogEffect DEF Untouched
<1>5. CASE CloseConnections
  BY <1>5, ConnectionOfRequest
<1>6. CASE Close \/ AwaitTerminals \/ RuntimeCloses \/ AuditCloses
  <2>1. Untouched(d)
    BY <1>6 DEF Untouched, Close, AwaitTerminals, RuntimeCloses, AuditCloses, Log!FailClosing, logVars
  <2> QED
    BY <1>2, <2>1
<1>7. CASE Quiescent \/ UNCHANGED vars
  <2>1. Untouched(d)
    BY <1>7 DEF Untouched, Quiescent, vars, logVars
  <2> QED
    BY <1>2, <2>1
<1> QED
  BY <1>3, <1>4, <1>5, <1>6, <1>7 DEF Next

LEMMA ClosePreserved ==
  ASSUME IInv, [Next]_vars
  PROVE  CloseInv'
<1> USE DEF IInv, TypeOK, CloseInv, AdmittedRequests, Go, Admitted, InFetch, closeVars
<1>1. ASSUME NEW c \in Requests, TurnAway(c) \/ Authenticate(c) \/ NotAdmitted(c) \/ Admit(c)
      PROVE  CloseInv'
  BY <1>1 DEF TurnAway, Authenticate, NotAdmitted, Admit, closing
<1>2. ASSUME NEW c \in Requests, Delivery(c) \/ RecordTerminal(c) \/ Release(c) PROVE CloseInv'
  BY <1>2 DEF Delivery, Received, ReceiveLost, Prepare, HandlerThrows, Prepared, PrepareLost,
              AdapterReturns, RecordTerminal, Release
<1>3. ASSUME NEW c \in Requests,
             ToolCall(c) \/ Finish(c) \/ CloseResponse(c) \/ RequestTimeout(c)
      PROVE  CloseInv'
  BY <1>3 DEF ToolCall, CallTool, OperationWrites, Replies, Observes, Forward, Finish,
              CloseResponse, RequestTimeout
<1>4. ASSUME NEW w \in Writers, LogAnswers(w) \/ LogReleases(w) PROVE CloseInv'
  BY <1>4 DEF LogAnswers, LogReleases
<1>5. CASE Close \/ CloseConnections \/ AwaitTerminals
  BY <1>5 DEF Close, CloseConnections, AwaitTerminals
<1>6. CASE RuntimeCloses \/ AuditCloses
  BY <1>6 DEF RuntimeCloses, AuditCloses
<1>7. CASE Quiescent \/ UNCHANGED vars
  BY <1>7 DEF Quiescent, vars
<1> QED
  BY <1>1, <1>2, <1>3, <1>4, <1>5, <1>6, <1>7 DEF Next

\* Every step either leaves the log alone or is one of the log's own.
LEMMA LogSteps ==
  ASSUME [Next]_vars
  PROVE  \/ \E w \in Writers : Write(w) \/ LogAnswers(w) \/ LogReleases(w)
         \/ Log!FailClosing
         \/ UNCHANGED logVars
<1>1. ASSUME NEW c \in Requests,
             \/ TurnAway(c) \/ Authenticate(c) \/ NotAdmitted(c) \/ Admit(c)
             \/ Finish(c) \/ CloseResponse(c) \/ RequestTimeout(c) \/ RecordTerminal(c) \/ Release(c)
      PROVE  UNCHANGED logVars \/ Write(<<c, "http">>)
  BY <1>1 DEF TurnAway, Authenticate, NotAdmitted, Admit, Finish, CloseResponse, RequestTimeout,
              RecordTerminal, Release
<1>2. ASSUME NEW c \in Requests, Delivery(c)
      PROVE  UNCHANGED logVars \/ Write(<<c, "http">>)
  BY <1>2 DEF Delivery, Received, ReceiveLost, Prepare, HandlerThrows, Prepared, PrepareLost,
              AdapterReturns
<1>3. ASSUME NEW c \in Requests, ToolCall(c)
      PROVE  UNCHANGED logVars \/ Write(<<c, "operation">>) \/ Write(<<c, "reply">>)
  BY <1>3 DEF ToolCall, CallTool, OperationWrites, Replies, Observes, Forward
<1>4. CASE Close \/ CloseConnections \/ AwaitTerminals \/ RuntimeCloses \/ AuditCloses
  BY <1>4 DEF Close, CloseConnections, AwaitTerminals, RuntimeCloses, AuditCloses
<1>5. CASE Quiescent \/ UNCHANGED vars
  BY <1>5 DEF Quiescent, vars
<1> QED
  BY <1>1, <1>2, <1>3, <1>4, <1>5, WritersOf DEF Next

LEMMA Inductive == IInv /\ [Next]_vars => IInv'
<1> SUFFICES ASSUME IInv, [Next]_vars PROVE IInv'
  OBVIOUS
<1>1. TypeOK'
  BY TypePreserved
<1>2. HealthyInv'
  BY HealthyPreserved, LogSteps DEF IInv
<1> QED
  BY <1>1, <1>2, PlacesPreserved, RequestPreserved, ClosePreserved DEF IInv

LEMMA Invariance == Spec => []IInv
<1> QED
  BY InitIInv, Inductive, PTL DEF Spec
-----------------------------------------------------------------------------
(***************************************************************************)
(* Room in the log                                                         *)
(***************************************************************************)
LEMMA WriterParts ==
  \A w \in Writers :
    w = <<w[1], w[2]>> /\ w[1] \in Requests /\ w[2] \in {"http", "operation", "reply"}
  BY DEF Writers

LEMMA ThreeWriters ==
  IsFiniteSet({"http", "operation", "reply"}) /\ Cardinality({"http", "operation", "reply"}) = 3
<1>1. IsFiniteSet({"http"}) /\ Cardinality({"http"}) = 1
  BY FS_Singleton
<1>2. /\ {"http", "operation"} = {"http"} \cup {"operation"} /\ "operation" \notin {"http"}
      /\ {"http", "operation", "reply"} = {"http", "operation"} \cup {"reply"}
      /\ "reply" \notin {"http", "operation"}
  OBVIOUS
<1>3. IsFiniteSet({"http", "operation"}) /\ Cardinality({"http", "operation"}) = 2
  BY <1>1, <1>2, FS_AddElement
<1> QED
  BY <1>2, <1>3, FS_AddElement

\* A healthy log holds the records of admitted requests only, three of each at
\* most, so that who has none pending finds a slot.
LEMMA RoomWhileHealthy ==
  ASSUME IInv, healthy, NEW c \in Requests, NEW k \in {"http", "operation", "reply"},
         answer[<<c, k>>] # "open",
         stage[c] \in Admitted \/ requests < requestCapacity
  PROVE  Cardinality(held) \in Nat /\ Cardinality(held) < MaxPending
<1> DEFINE Places == AdmittedRequests \X {"http", "operation", "reply"}
<1>1. IsFiniteSet(Places) /\ Cardinality(Places) = requests * 3
  BY ThreeWriters, FS_Product DEF IInv, PlacesInv
<1>2. held \subseteq Places
  <2> SUFFICES ASSUME NEW w \in held PROVE w \in Places
    OBVIOUS
  <2>1. w = <<w[1], w[2]>> /\ w[1] \in Requests /\ w[2] \in {"http", "operation", "reply"}
    BY WriterParts DEF IInv, TypeOK
  <2>2. answer[<<w[1], w[2]>>] = "open"
    BY <2>1 DEF IInv, HealthyInv
  <2>3. RequestOK(w[1]) /\ stage[w[1]] \in Before \cup {"done"} \cup Admitted
    BY <2>1 DEF IInv, TypeOK, RequestInv, Before
  <2>4. stage[w[1]] \in Admitted
    BY <2>1, <2>2, <2>3 DEF RequestOK, Calling, Writing, Before, After, Pending
  <2> QED
    BY <2>1, <2>4 DEF AdmittedRequests
<1>3. <<c, k>> \notin held
  BY DEF IInv, HealthyInv
<1>4. requests \in Nat /\ requests <= requestCapacity
  BY CapacityOfPlaces DEF IInv, TypeOK
<1> HIDE DEF Places
<1>5. IsFiniteSet(held) /\ Cardinality(held) \in Nat /\ Cardinality(held) <= requests * 3
  BY <1>1, <1>2, FS_Subset, FS_CardinalityType
<1>6. CASE requests < requestCapacity
  BY <1>4, <1>5, <1>6, CapacityOfPlaces, HttpAssumption
<1>7. CASE stage[c] \in Admitted
  <2>1. <<c, k>> \in Places
    BY <1>7 DEF Places, AdmittedRequests
  <2>2. Cardinality(held) # Cardinality(Places)
    BY <1>1, <1>2, <1>3, <2>1, FS_Subset
  <2> QED
    BY <1>1, <1>4, <1>5, <2>2, CapacityOfPlaces, HttpAssumption
<1> QED
  BY <1>6, <1>7

LEMMA HealthyWriteAccepted ==
  ASSUME IInv, healthy, NEW c \in Requests, NEW k \in {"http", "operation", "reply"},
         Write(<<c, k>>), stage[c] \in Admitted \/ requests < requestCapacity
  PROVE  \A w \in Writers : answer'[w] # "refused"
<1>1. <<c, k>> \in Writers
  BY DEF Writers
<1>2. answer[<<c, k>>] # "open"
  BY <1>1, WriteEffect DEF IInv
<1>3. Cardinality(held) \in Nat /\ Cardinality(held) < MaxPending
  BY <1>2, RoomWhileHealthy
<1>4. ~(Cardinality(held) >= MaxPending)
  BY <1>3, HttpAssumption
<1>5. Log!Cardinality(held) = Cardinality(held)
  BY DEF Log!Cardinality, Cardinality
<1>6. Log!Accept(<<c, k>>)
  BY <1>4, <1>5 DEF Write, Log!Refuse
<1> QED
  BY <1>1, <1>6 DEF Log!Accept, IInv, HealthyInv, TypeOK
-----------------------------------------------------------------------------
(***************************************************************************)
(* The theorems                                                            *)
(***************************************************************************)

\* However many requests come, fail or leave, the places taken are those of the
\* requests under way: none leaks and none is given back twice.
THEOREM EveryPlaceIsAccounted == Spec => []PlacesAreAccounted
<1>1. IInv => PlacesAreAccounted
  BY DEF IInv, PlacesInv, AdmittedRequests, Authenticating, PlacesAreAccounted
<1> QED
  BY <1>1, Invariance, PTL

\* A request's terminal record follows all others that were written for it.
THEOREM TerminalRecordIsLast == Spec => []TerminalIsLast
<1>1. IInv => TerminalIsLast
  BY DEF IInv, RequestInv, RequestOK, Writing, After, TerminalIsLast
<1> QED
  BY <1>1, Invariance, PTL

\* A terminal record never calls completed what its client did not get, or what
\* its tool had not answered.
THEOREM CompletedMeansDelivered == Spec => []CompletedIsDelivered
<1>1. IInv => CompletedIsDelivered
  <2> SUFFICES ASSUME IInv, NEW c \in Requests, stage[c] \in {"recording", "done"},
                      label[c] = "completed"
               PROVE  conn[c] = "closed" /\ call[c] \in {"none", "answered"}
    BY DEF CompletedIsDelivered
  <2>1. TypeOK /\ ~Open(c) /\ Labelling(c)
    BY DEF IInv, RequestInv, RequestOK, Calling, After
  <2> QED
    BY <2>1 DEF TypeOK, Open, Labelling, Admitted
<1> QED
  BY <1>1, Invariance, PTL

\* The audit log is closed behind the last record, in every order of disconnects,
\* deadlines, lost records and late operations.
THEOREM AuditClosesLast == Spec => []AuditIsClosedLast
<1>1. IInv => AuditIsClosedLast
  <2> SUFFICES ASSUME IInv, shutdown \in {"auditing", "closed"}
               PROVE  /\ \A c \in Requests : stage[c] \notin Admitted
                      /\ \A w \in Writers : answer[w] # "open"
    BY DEF AuditIsClosedLast
  <2>1. \A c \in Requests : stage[c] \notin Admitted
    BY DEF IInv, CloseInv, AdmittedRequests
  <2>2. ASSUME NEW c \in Requests, NEW k \in {"http", "operation", "reply"}
        PROVE  answer[<<c, k>>] # "open"
    <3>1. RequestOK(c) /\ stage[c] \in Before \cup {"done"}
      BY <2>1 DEF IInv, TypeOK, RequestInv, Before
    <3> QED
      BY <3>1 DEF RequestOK, Calling, Writing, Before, After, Pending
  <2> QED
    BY <2>1, <2>2, WriterParts
<1> QED
  BY <1>1, Invariance, PTL
\* HTTP load alone cannot make the server drop a record and turn its readiness
\* off: admission leaves a slot for each record that may be pending.
THEOREM HealthyLogNeverDrops == Spec => HealthyNeverDrops
<1>1. IInv /\ [Next]_vars => [healthy => \A w \in Writers : answer'[w] # "refused"]_vars
  <2> SUFFICES ASSUME IInv, [Next]_vars, healthy
               PROVE  \/ \A w \in Writers : answer'[w] # "refused"
                      \/ UNCHANGED vars
    OBVIOUS
  <2>1. UNCHANGED logVars => \A w \in Writers : answer'[w] # "refused"
    BY DEF IInv, HealthyInv, logVars
  <2>2. ASSUME NEW c \in Requests, Admit(c)
        PROVE  \A w \in Writers : answer'[w] # "refused"
    BY <2>2, HealthyWriteAccepted DEF Admit
  <2>3. ASSUME NEW c \in Requests, Delivery(c) \/ RecordTerminal(c)
        PROVE  \A w \in Writers : answer'[w] # "refused"
    <3>1. UNCHANGED logVars \/ (Write(<<c, "http">>) /\ stage[c] \in Admitted)
      BY <2>3 DEF Delivery, Received, ReceiveLost, Prepare, HandlerThrows, Prepared, PrepareLost,
                  AdapterReturns, RecordTerminal, Admitted, InFetch
    <3> QED
      BY <2>1, <3>1, HealthyWriteAccepted
  <2>4. ASSUME NEW c \in Requests, ToolCall(c)
        PROVE  \A w \in Writers : answer'[w] # "refused"
    <3>1. RequestOK(c) /\ TypeOK
      BY DEF IInv, RequestInv
    <3>2. CASE OperationWrites(c) \/ Replies(c) \/ Observes(c)
      <4>1. stage[c] \in Admitted
        BY <3>1, <3>2 DEF OperationWrites, Replies, Observes, TypeOK, RequestOK, Calling, Before,
                          After, Open
      <4>2. UNCHANGED logVars \/ \E k \in {"http", "operation", "reply"} : Write(<<c, k>>)
        BY <3>2 DEF OperationWrites, Replies, Observes
      <4> QED
        BY <2>1, <4>1, <4>2, HealthyWriteAccepted
    <3>3. CASE CallTool(c) \/ Forward(c)
      BY <2>1, <3>3 DEF CallTool, Forward
    <3> QED
      BY <2>4, <3>2, <3>3 DEF ToolCall
  <2>5. ASSUME NEW c \in Requests,
               \/ TurnAway(c) \/ Authenticate(c) \/ NotAdmitted(c) \/ Finish(c)
               \/ CloseResponse(c) \/ RequestTimeout(c) \/ Release(c)
        PROVE  UNCHANGED logVars
    BY <2>5 DEF TurnAway, Authenticate, NotAdmitted, Finish, CloseResponse, RequestTimeout, Release
  <2>6. ASSUME NEW v \in Writers, LogAnswers(v) \/ LogReleases(v)
        PROVE  \A w \in Writers : answer'[w] # "refused"
    BY <2>6, LogEffect DEF IInv, HealthyInv
  <2>7. CASE Close \/ CloseConnections \/ AwaitTerminals \/ RuntimeCloses \/ AuditCloses
    <3>1. answer' = answer
      BY <2>7 DEF Close, CloseConnections, AwaitTerminals, RuntimeCloses, AuditCloses, logVars,
                  Log!FailClosing
    <3> QED
      BY <3>1 DEF IInv, HealthyInv
  <2>8. CASE Quiescent \/ UNCHANGED vars
    BY <2>8 DEF Quiescent
  <2> QED
    BY <2>1, <2>2, <2>3, <2>4, <2>5, <2>6, <2>7, <2>8 DEF Next
<1> QED
  BY <1>1, Invariance, PTL DEF Spec, HealthyNeverDrops
\* The server uses the audit log as its specification allows: it asks it only for
\* what a writer may ask, and takes every answer as the log gives it.
THEOREM UsesAuditLog == Spec => Log!Spec
<1>1. Init => Log!Init
  BY DEF Init
<1>2. [Next]_vars => [Log!Next]_(Log!logVars)
  BY LogSteps DEF Write, LogAnswers, LogReleases, Log!Next, Log!logVars, logVars
<1> QED
  BY <1>1, <1>2, PTL DEF Spec, Log!Spec

\* The records of the server's own leave those of the calls alone.
LEMMA OtherRecordsKept ==
  ASSUME TypeOK, NEW c \in Requests, UNCHANGED logVars \/ Write(<<c, "http">>)
  PROVE  \A d \in Requests : /\ answer'[<<d, "operation">>] = answer[<<d, "operation">>]
                             /\ answer'[<<d, "reply">>] = answer[<<d, "reply">>]
<1>1. \A d \in Requests, k \in {"operation", "reply"} :
        <<c, "http">> \in Writers /\ <<d, k>> \in Writers /\ <<d, k>> # <<c, "http">>
  BY DEF Writers
<1> QED
  BY <1>1, WriteEffect DEF logVars

LEMMA StepsOfRuntime == TypeOK /\ [Next]_vars => [Runtime!Next]_(Runtime!callVars)
<1> SUFFICES ASSUME TypeOK, [Next]_vars PROVE Runtime!Next \/ UNCHANGED Runtime!callVars
  OBVIOUS
<1> DEFINE Quiet(d) == /\ answer'[<<d, "operation">>] = answer[<<d, "operation">>]
                       /\ answer'[<<d, "reply">>] = answer[<<d, "reply">>]
                       /\ call'[d] \in {"replied", "answered"} <=> call[d] \in {"replied", "answered"}
<1>1. ASSUME \A d \in Requests : Quiet(d) PROVE UNCHANGED Runtime!callVars
  <2>1. \A d \in Requests : /\ Pending(d, "operation")' = Pending(d, "operation")
                            /\ Pending(d, "reply")' = Pending(d, "reply")
    BY <1>1 DEF Pending
  <2>2. ASSUME NEW d \in Requests
        PROVE  (call'[d] \in {"replied", "answered"}) = (call[d] \in {"replied", "answered"})
    <3>1. CASE call[d] \in {"replied", "answered"}
      <4>1. (call[d] \in {"replied", "answered"}) = TRUE
        BY <3>1
      <4>2. (call'[d] \in {"replied", "answered"}) = TRUE
        BY <1>1, <3>1
      <4> QED
        BY <4>1, <4>2, Zenon
    <3>2. CASE call[d] \notin {"replied", "answered"}
      <4>1. (call[d] \in {"replied", "answered"}) = FALSE
        BY <3>2
      <4>2. call'[d] \notin {"replied", "answered"}
        BY <1>1, <3>2
      <4>3. (call'[d] \in {"replied", "answered"}) = FALSE
        BY <4>2
      <4> QED
        BY <4>1, <4>3, Zenon
    <3> QED
      BY <3>1, <3>2
  <2>3. UNCHANGED [d \in Requests |-> Pending(d, "operation")]
    BY <2>1, Zenon
  <2>4. UNCHANGED [d \in Requests |-> Pending(d, "reply")]
    BY <2>1, Zenon
  <2>5. UNCHANGED [d \in Requests |-> call[d] \in {"replied", "answered"}]
    BY <2>2, Zenon
  <2> QED
    BY <2>3, <2>4, <2>5, Zenon DEF Runtime!callVars
<1> HIDE DEF Quiet
<1>2. ASSUME NEW c \in Requests,
             \/ TurnAway(c) \/ Authenticate(c) \/ NotAdmitted(c) \/ Admit(c) \/ Delivery(c)
             \/ Finish(c) \/ CloseResponse(c) \/ RequestTimeout(c) \/ RecordTerminal(c) \/ Release(c)
      PROVE  UNCHANGED Runtime!callVars
  <2>1. (UNCHANGED logVars \/ Write(<<c, "http">>)) /\ call' = call
    <3>1. CASE Delivery(c)
      BY <3>1 DEF Delivery, Received, ReceiveLost, Prepare, HandlerThrows, Prepared, PrepareLost,
                  AdapterReturns
    <3> QED
      BY <1>2, <3>1 DEF TurnAway, Authenticate, NotAdmitted, Admit, Finish, CloseResponse,
                        RequestTimeout, RecordTerminal, Release
  <2> QED
    BY <1>1, <2>1, OtherRecordsKept DEF Quiet
<1>3. ASSUME NEW c \in Requests, ToolCall(c)
      PROVE  Runtime!Next \/ UNCHANGED Runtime!callVars
  <2>1. CASE CallTool(c) \/ Forward(c)
    <3>1. \A d \in Requests : Quiet(d)
      BY <2>1 DEF CallTool, Forward, Quiet, logVars, TypeOK
    <3> QED
      BY <1>1, <3>1
  <2>2. CASE OperationWrites(c) \/ Replies(c) \/ Observes(c)
    BY <2>2 DEF OperationWrites, Replies, Observes, Runtime!Next
  <2> QED
    BY <1>3, <2>1, <2>2 DEF ToolCall
<1>4. ASSUME NEW w \in Writers, LogReleases(w) PROVE UNCHANGED Runtime!callVars
  <2>1. \A d \in Requests : Quiet(d)
    BY <1>4 DEF LogReleases, Log!Release, Quiet
  <2> QED
    BY <1>1, <2>1
<1>5. ASSUME NEW c \in Requests, NEW k \in {"http", "operation", "reply"}, LogAnswers(<<c, k>>)
      PROVE  Runtime!Next \/ UNCHANGED Runtime!callVars
  <2>1. /\ answer[<<c, k>>] = "open" /\ call' = call
        /\ \E a \in {"acked", "lost"} : answer' = [answer EXCEPT ![<<c, k>>] = a]
    BY <1>5 DEF LogAnswers, Log!Ack, Log!Lose
  <2>2. \A d \in Requests, j \in {"http", "operation", "reply"} :
          /\ <<d, j>> \in Writers
          /\ <<d, j>> = <<c, k>> <=> d = c /\ j = k
    BY DEF Writers
  <2>3. /\ \A d \in Requests, j \in {"http", "operation", "reply"} :
             d # c \/ j # k => answer'[<<d, j>>] = answer[<<d, j>>]
        /\ answer'[<<c, k>>] # "open"
    BY <2>1, <2>2 DEF TypeOK
  <2>4. CASE k = "http"
    <3>1. \A d \in Requests : Quiet(d)
      BY <2>1, <2>3, <2>4 DEF Quiet
    <3> QED
      BY <1>1, <3>1
  <2>5. CASE k = "operation"
    <3>1. Runtime!OperationTold(c)
      BY <2>1, <2>3, <2>5 DEF Runtime!OperationTold, Pending
    <3> QED
      BY <3>1 DEF Runtime!Next
  <2>6. CASE k = "reply"
    <3>1. Runtime!ReplyTold(c)
      BY <2>1, <2>3, <2>6 DEF Runtime!ReplyTold, Pending
    <3> QED
      BY <3>1 DEF Runtime!Next
  <2> QED
    BY <2>4, <2>5, <2>6
<1>6. ASSUME \/ Close \/ CloseConnections \/ AwaitTerminals \/ RuntimeCloses \/ AuditCloses
             \/ Quiescent \/ UNCHANGED vars
      PROVE  UNCHANGED Runtime!callVars
  <2>1. answer' = answer /\ call' = call
    BY <1>6 DEF Close, CloseConnections, AwaitTerminals, RuntimeCloses, AuditCloses, Quiescent,
                vars, logVars, Log!FailClosing
  <2>2. \A d \in Requests : Quiet(d)
    BY <2>1 DEF Quiet
  <2> QED
    BY <1>1, <2>2
<1>7. ASSUME NEW w \in Writers, LogAnswers(w) PROVE Runtime!Next \/ UNCHANGED Runtime!callVars
  BY <1>5, <1>7, WriterParts
<1> QED
  BY <1>2, <1>3, <1>4, <1>6, <1>7 DEF Next

\* What the server assumes of the runtime, that the operation of a call and its
\* reply have one record each pending and no operation starts one after the reply,
\* is all that its model of the runtime does.
THEOREM UsesCallWrites == Spec => Runtime!Spec
<1>1. Init => Runtime!Init
  <2> SUFFICES ASSUME Init PROVE Runtime!Init
    OBVIOUS
  <2>1. \A c \in Requests : /\ Pending(c, "operation") = FALSE /\ Pending(c, "reply") = FALSE
                            /\ (call[c] \in {"replied", "answered"}) = FALSE
    BY DEF Init, Log!Init, Pending, Writers
  <2> QED
    BY <2>1, Zenon DEF Runtime!Init
<1>2. IInv /\ [Next]_vars => [Runtime!Next]_(Runtime!callVars)
  BY StepsOfRuntime DEF IInv
<1> QED
  BY <1>1, <1>2, Invariance, PTL DEF Spec, Runtime!Spec
=============================================================================
