----------------------------- MODULE Execution ------------------------------
(***************************************************************************)
(* ExecutionController: bounded, deadlined, cancellable execution of tool  *)
(* operations, and the bounded drain that ends it.                         *)
(*                                                                         *)
(* JavaScript runs one turn at a time, so an action is the code between    *)
(* two awaits.  Each call is made once.  run() races the operation against *)
(* the abort of its signal, which is the caller's signal or the entry's    *)
(* own controller, whichever aborts first.                                 *)
(***************************************************************************)
EXTENDS Naturals, FiniteSets

CONSTANTS
  Calls,          \* calls of run()
  MaxConcurrent,  \* limits.maxConcurrent
  Outcomes        \* what an operation's promise may settle with

ASSUME MaxConcurrentAssumption == MaxConcurrent \in Nat \ {0}
ASSUME OutcomesAssumption == {"idle", "pending"} \cap Outcomes = {}

VARIABLES
  active,     \* this.active: the calls whose entry holds a slot
  work,       \* the operation's promise: idle, queued, running or settled
  aborted,    \* what first aborted the call's signal, or "none"
  returned,   \* what run() settled with; "idle" before the call, "pending" during it
  shutdown,   \* close(): open, draining or drained
  remaining   \* the number close() resolved with

execVars == <<active, work, aborted, returned, shutdown, remaining>>

Aborts == {"timeout", "cancelled", "shutting_down"}
Settlements == Outcomes \cup Aborts \cup {"busy"}

Live == {c \in Calls : work[c] \in {"queued", "running"}}

closing == shutdown # "open"

TypeOK ==
  /\ active \subseteq Calls
  /\ work \in [Calls -> {"idle", "queued", "running", "settled"}]
  /\ aborted \in [Calls -> Aborts \cup {"none"}]
  /\ returned \in [Calls -> Settlements \cup {"idle", "pending"}]
  /\ shutdown \in {"open", "draining", "drained"}
  /\ remaining \in Nat

Init ==
  /\ active = {}
  /\ work = [c \in Calls |-> "idle"]
  /\ aborted = [c \in Calls |-> "none"]
  /\ returned = [c \in Calls |-> "idle"]
  /\ shutdown = "open"
  /\ remaining = 0
-----------------------------------------------------------------------------
(***************************************************************************)
(* Starting an operation                                                   *)
(***************************************************************************)

HasCapacity == Cardinality(active) < MaxConcurrent

\* The reason run() throws before it creates an entry, in the order tested.
Refusal(c) ==
  IF closing THEN "shutting_down"
  ELSE IF aborted[c] # "none" THEN "cancelled" ELSE "busy"

Refuse(c) ==
  /\ returned[c] = "idle"
  /\ closing \/ aborted[c] # "none" \/ ~HasCapacity
  /\ returned' = [returned EXCEPT ![c] = Refusal(c)]
  /\ UNCHANGED <<active, work, aborted, shutdown, remaining>>

Admit(c) ==
  /\ returned[c] = "idle"
  /\ ~closing
  /\ aborted[c] = "none"
  /\ HasCapacity
  /\ active' = active \cup {c}
  /\ work' = [work EXCEPT ![c] = "queued"]
  /\ returned' = [returned EXCEPT ![c] = "pending"]
  /\ UNCHANGED <<aborted, shutdown, remaining>>

\* The queued turn of the operation: signal.throwIfAborted(), then the operation.
Start(c) ==
  /\ work[c] = "queued"
  /\ aborted[c] = "none"
  /\ work' = [work EXCEPT ![c] = "running"]
  /\ UNCHANGED <<active, aborted, returned, shutdown, remaining>>
-----------------------------------------------------------------------------
(***************************************************************************)
(* Settling: the race between the operation and the abort of its signal.   *)
(***************************************************************************)

\* Mutant: the race's later settlement overwrites the first.
RaceLastWins(c, result) == [returned EXCEPT ![c] = result]

\* Promise.race keeps its first settlement.
Race(c, result) ==
  [returned EXCEPT ![c] = IF @ = "pending" THEN result ELSE @]

\* The work promise settles; the slot is given back before run() returns.
Settle(c, result) ==
  /\ work' = [work EXCEPT ![c] = "settled"]
  /\ active' = active \ {c}
  /\ returned' = Race(c, result)
  /\ UNCHANGED <<aborted, shutdown, remaining>>

\* The signal was aborted before the operation's first turn: it never runs.
Skip(c) ==
  /\ work[c] = "queued"
  /\ aborted[c] # "none"
  /\ Settle(c, aborted[c])

Finish(c, result) ==
  /\ work[c] = "running"
  /\ Settle(c, result)

\* Mutant: aborting the caller's wait gives the slot back as well.
AbortReleasingSlot(S, reason) ==
  /\ aborted' = [c \in Calls |-> IF c \in S THEN reason ELSE aborted[c]]
  /\ returned' = [c \in Calls |->
                   IF c \in S /\ returned[c] = "pending" THEN reason ELSE returned[c]]
  /\ active' = active \ S
  /\ UNCHANGED work

\* The signals of the calls in S abort.  The listener rejects the race, but the
\* operation keeps its slot until its own promise settles.
Abort(S, reason) ==
  /\ aborted' = [c \in Calls |-> IF c \in S THEN reason ELSE aborted[c]]
  /\ returned' = [c \in Calls |->
                   IF c \in S /\ returned[c] = "pending" THEN reason ELSE returned[c]]
  /\ UNCHANGED <<active, work>>

\* The deadline's timer fires.  It is a later turn than the queued start.
Timeout(c) ==
  /\ work[c] = "running"
  /\ aborted[c] = "none"
  /\ Abort({c}, "timeout")
  /\ UNCHANGED <<shutdown, remaining>>

\* The caller aborts, before the call or while it is waiting.
CallerAbort(c) ==
  /\ returned[c] \in {"idle", "pending"}
  /\ aborted[c] = "none"
  /\ Abort({c}, "cancelled")
  /\ UNCHANGED <<shutdown, remaining>>
-----------------------------------------------------------------------------
(***************************************************************************)
(* close() and drain()                                                     *)
(***************************************************************************)

Close ==
  /\ shutdown = "open"
  /\ shutdown' = "draining"
  /\ Abort({c \in active : aborted[c] = "none"}, "shutting_down")
  /\ UNCHANGED remaining

DrainSettled ==
  /\ shutdown = "draining"
  /\ active = {}
  /\ shutdown' = "drained"
  /\ remaining' = 0
  /\ UNCHANGED <<active, work, aborted, returned>>

GraceExpires ==
  /\ shutdown = "draining"
  /\ active # {}
  /\ shutdown' = "drained"
  /\ remaining' = Cardinality(active)
  /\ UNCHANGED <<active, work, aborted, returned>>

\* Every call has been made and answered, and every operation has ended.
Quiescent ==
  /\ shutdown = "drained"
  /\ active = {}
  /\ \A c \in Calls : returned[c] \notin {"idle", "pending"}
  /\ UNCHANGED execVars

Next ==
  \/ \E c \in Calls :
       \/ Refuse(c) \/ Admit(c) \/ Start(c) \/ Skip(c)
       \/ Timeout(c) \/ CallerAbort(c)
       \/ \E result \in Outcomes : Finish(c, result)
  \/ Close \/ DrainSettled \/ GraceExpires
  \/ Quiescent

\* The event loop runs queued turns and timers; it promises nothing of the
\* operations themselves, which may ignore their signal for ever.
Fairness ==
  /\ \A c \in Calls : WF_execVars(Start(c)) /\ WF_execVars(Skip(c))
  /\ \A c \in Calls : WF_execVars(Timeout(c))
  /\ WF_execVars(DrainSettled) /\ WF_execVars(GraceExpires)

Spec == Init /\ [][Next]_execVars
FairSpec == Spec /\ Fairness
-----------------------------------------------------------------------------
(***************************************************************************)
(* Properties                                                              *)
(***************************************************************************)

\* No more than limits.maxConcurrent operations are ever under way, counting
\* the ones whose callers gave up on them (execution.ts:16 and 26).
CapacityBound == Cardinality(Live) <= MaxConcurrent

\* A call whose signal aborted while its operation was under way reports that
\* abort and its first cause, whatever the operation or later aborts do
\* (execution.ts:37-48).
AbortIsReported ==
  \A c \in Calls :
    work[c] # "idle" /\ aborted[c] # "none" => returned[c] = aborted[c]

\* close() resolving with 0 means nothing is running, so that resources may be
\* disposed of (execution.ts:68, runtime.ts:262).
DrainedMeansIdle == shutdown = "drained" /\ remaining = 0 => Live = {}

\* What run() answered is never revised (execution.ts:48).
AnsweredOnce ==
  [][\A c \in Calls : returned[c] \in Settlements => returned'[c] = returned[c]]_execVars

\* The controller is a slot pool whose slots are held by live operations.
Pool == INSTANCE SlotPool WITH held <- Live, open <- ~closing
ImplementsSlotPool == Pool!Spec

=============================================================================
