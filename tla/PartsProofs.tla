---------------------------- MODULE PartsProofs -----------------------------
(***************************************************************************)
(* Theorems about the parts that MCParts runs side by side: the process    *)
(* for any grace period and any timers, the read tools for any limit and   *)
(* any path, the start of a runtime, the input walk for any limit, and     *)
(* close() of the dispatcher.                                              *)
(***************************************************************************)
EXTENDS MCParts, Sequences, FiniteSetTheorems, SequenceTheorems, WellFoundedInduction, TLAPS

\* What is proved of the dispatcher, for the dispatcher among the parts.
Dispatcher == INSTANCE AuditProofs
  WITH Scoped <- {}, Capacity <- 1, pending <- auditPending, remaining <- auditRemaining

LEMMA Sizes ==
  /\ Transports \subseteq {"stdio", "http"}
  /\ Grace \in Nat /\ AuditTime \in Nat /\ Slack \in Nat /\ MaxBytes \in Nat /\ MaxParts \in Nat
  BY PartsAssumption

\* Nothing but its own steps moves a part.
LEMMA StepsOfParts ==
  ASSUME [PartsNext]_vars
  PROVE  /\ [Audit!Next]_auditVars
         /\ [Life!Next]_lifeVars
         /\ [Tools!Next]_toolVars
         /\ [Boot!Next]_startVars
         /\ [Walk!Next]_walkVars
  BY DEF PartsNext, vars, ExecutionStep, AuditStep, LifeStep, WalkStep, ToolStep, StartStep, Over

LEMMA Unfair == PartsSpec => PartsInit /\ [][PartsNext]_vars
  BY PTL DEF PartsSpec
-----------------------------------------------------------------------------
(***************************************************************************)
(* close() of the audit dispatcher                                         *)
(***************************************************************************)
LEMMA SameDispatcher ==
  /\ Audit!Init <=> Dispatcher!Init
  /\ Audit!Next <=> Dispatcher!Next
  /\ UNCHANGED auditVars => UNCHANGED Dispatcher!auditVars
  /\ ZeroRemainingMeansDrained <=> Dispatcher!ZeroRemainingMeansDrained
<1>1. Audit!Init <=> Dispatcher!Init
  BY DEF Audit!Init, Dispatcher!Init
<1>2. Audit!Next <=> Dispatcher!Next
  <2>0. Audit!Cardinality(auditPending) = Dispatcher!Cardinality(auditPending)
    BY DEF Audit!Cardinality, Dispatcher!Cardinality
  <2>1. ASSUME NEW w \in Writes
        PROVE  /\ Audit!Drop(w) <=> Dispatcher!Drop(w)
               /\ Audit!Accept(w) <=> Dispatcher!Accept(w)
    <3>1. Audit!CanAccept <=> Dispatcher!CanAccept
      BY <2>0 DEF Audit!CanAccept, Dispatcher!CanAccept, Audit!healthy, Dispatcher!healthy
    <3> QED
      BY <3>1 DEF Audit!Drop, Dispatcher!Drop, Audit!Accept, Dispatcher!Accept, Audit!writeVars,
       Dispatcher!writeVars, Audit!closeVars, Dispatcher!closeVars, Audit!scopeVars,
       Dispatcher!scopeVars
  <2>2. ASSUME NEW w \in Writes
        PROVE  /\ Audit!CallSink(w) <=> Dispatcher!CallSink(w)
               /\ Audit!Expire(w) <=> Dispatcher!Expire(w)
               /\ Audit!Confirm(w) <=> Dispatcher!Confirm(w)
               /\ Audit!Fail(w) <=> Dispatcher!Fail(w)
    BY DEF Audit!CallSink, Dispatcher!CallSink, Audit!Expire, Dispatcher!Expire, Audit!Confirm,
       Dispatcher!Confirm, Audit!Fail, Dispatcher!Fail, Audit!writeVars, Dispatcher!writeVars,
       Audit!closeVars, Dispatcher!closeVars, Audit!scopeVars, Dispatcher!scopeVars
  <2>3. ASSUME NEW w \in Writes, NEW answer \in {"resolved", "rejected"}
        PROVE  Audit!SinkSettles(w, answer) <=> Dispatcher!SinkSettles(w, answer)
    BY DEF Audit!SinkSettles, Dispatcher!SinkSettles, Audit!writeVars, Dispatcher!writeVars,
       Audit!closeVars, Dispatcher!closeVars, Audit!scopeVars, Dispatcher!scopeVars
  <2>4. /\ Audit!Settle <=> Dispatcher!Settle
        /\ Audit!SettleResumes <=> Dispatcher!SettleResumes
    BY DEF Audit!Settle, Dispatcher!Settle, Audit!SettleResumes, Dispatcher!SettleResumes,
       Audit!Loop, Dispatcher!Loop, Audit!ScopeWrites, Dispatcher!ScopeWrites, Audit!InFlight,
       Dispatcher!InFlight, Audit!Racing, Dispatcher!Racing, Audit!writeVars,
       Dispatcher!writeVars, Audit!closeVars, Dispatcher!closeVars, Audit!scopeVars,
       Dispatcher!scopeVars
  <2>5. ASSUME NEW k \in Closers
        PROVE  /\ Audit!BeginClose(k) <=> Dispatcher!BeginClose(k)
               /\ Audit!CloseReturns(k) <=> Dispatcher!CloseReturns(k)
    BY DEF Audit!BeginClose, Dispatcher!BeginClose, Audit!CloseReturns,
       Dispatcher!CloseReturns, Audit!writeVars, Dispatcher!writeVars, Audit!closeVars,
       Dispatcher!closeVars, Audit!scopeVars, Dispatcher!scopeVars
  <2>6. ASSUME NEW k \in Closers
        PROVE  /\ Audit!DrainSettles(k) <=> Dispatcher!DrainSettles(k)
               /\ Audit!DrainExpires(k) <=> Dispatcher!DrainExpires(k)
    BY <2>0 DEF Audit!DrainSettles, Dispatcher!DrainSettles, Audit!DrainExpires,
       Dispatcher!DrainExpires, Audit!DrainEnds, Dispatcher!DrainEnds, Audit!Drained,
       Dispatcher!Drained, Audit!writeVars, Dispatcher!writeVars, Audit!closeVars,
       Dispatcher!closeVars, Audit!scopeVars, Dispatcher!scopeVars
  <2>7. /\ Audit!HookResolves <=> Dispatcher!HookResolves
        /\ Audit!HookFails <=> Dispatcher!HookFails
        /\ Audit!Quiescent <=> Dispatcher!Quiescent
    BY DEF Audit!HookResolves, Dispatcher!HookResolves, Audit!HookFails, Dispatcher!HookFails,
       Audit!Quiescent, Dispatcher!Quiescent, Audit!auditVars, Dispatcher!auditVars,
       Audit!writeVars, Dispatcher!writeVars, Audit!closeVars, Dispatcher!closeVars,
       Audit!scopeVars, Dispatcher!scopeVars
  <2> QED
    BY <2>1, <2>2, <2>3, <2>4, <2>5, <2>6, <2>7 DEF Audit!Next, Dispatcher!Next
<1>3. UNCHANGED auditVars => UNCHANGED Dispatcher!auditVars
  BY DEF auditVars, Dispatcher!auditVars, Dispatcher!writeVars, Dispatcher!closeVars, Dispatcher!scopeVars
<1>4. ZeroRemainingMeansDrained <=> Dispatcher!ZeroRemainingMeansDrained
  BY DEF ZeroRemainingMeansDrained, Audit!ZeroRemainingMeansDrained, Dispatcher!ZeroRemainingMeansDrained,
         Audit!Drained, Dispatcher!Drained
<1> QED
  BY <1>1, <1>2, <1>3, <1>4

\* A close() of the dispatcher that counted nothing left none of the writes it found
\* pending (audit.ts:125-142).
THEOREM CloseCountsTruthfully == PartsSpec => []ZeroRemainingMeansDrained
<1>1. PartsInit => Dispatcher!Init
  BY SameDispatcher DEF PartsInit
<1>2. [PartsNext]_vars => [Dispatcher!Next]_(Dispatcher!auditVars)
  BY StepsOfParts, SameDispatcher
<1>3. Dispatcher!ZeroRemainingMeansDrained => ZeroRemainingMeansDrained
  BY SameDispatcher
<1>4. Dispatcher!Spec => []Dispatcher!ZeroRemainingMeansDrained
  BY Dispatcher!ZeroRemainingIsDrained
<1> QED
  BY <1>1, <1>2, <1>3, <1>4, Unfair, PTL DEF Dispatcher!Spec
-----------------------------------------------------------------------------
(***************************************************************************)
(* The process                                                             *)
(***************************************************************************)
\* How many stages are over when the hook, which closes the audit sink, begins.
HookAt == IF transport = "http" THEN 5 ELSE 3
LastAt == IF transport = "http" THEN 6 ELSE 5

LEMMA StageNames ==
  /\ Len(Life!Stages) = LastAt
  /\ stage \in Nat =>
       /\ Life!current = "tools" <=> stage = 0
       /\ Life!current = "drain" <=> stage = HookAt - 1
       /\ Life!current = "hook" <=> stage = HookAt
       /\ Life!current = "dispose" => stage < HookAt
       /\ Life!current = "transport" => transport # "http" /\ stage = 4
       /\ Life!current = "server" => transport = "http" /\ stage = 1
  BY DEF Life!Stages, Life!current, HookAt, LastAt

\* Before the signal nothing has been counted; the count grows only in the two stages
\* that may find something unfinished, and stays 0 only when no tool was left running.
LifeInv ==
  /\ Life!TypeOK
  /\ exit = "none" <=> phase # "exited"
  /\ phase = "starting" => runtime \in {"none", "open"} /\ ~busy /\ failed = {}
  /\ phase \in {"starting", "serving"} => stage = 0 /\ unfinished = 0
  /\ phase = "serving" => runtime = "open"
  /\ phase = "stopping" =>
       /\ stage < LastAt
       /\ runtime = IF stage <= HookAt THEN "closing" ELSE "closed"
       /\ stage = 0 => unfinished = 0
       /\ stage < HookAt => unfinished <= 1
       /\ stage > 0 /\ unfinished = 0 => ~busy
  /\ exit = "0" => runtime \in {"none", "closed"} /\ ~busy /\ failed = {}
  /\ phase = "exited" => runtime # "open"

LEMMA LifeInit ==
  ASSUME Life!Init
  PROVE  LifeInv
<1>1. /\ transport \in Transports /\ phase = "starting" /\ runtime = "none" /\ exit = "none"
      /\ stage = 0 /\ now = 0 /\ since = 0 /\ unfinished = 0
      /\ busy = FALSE /\ lifePending = FALSE /\ failed = {}
  BY DEF Life!Init
<1>2. stage \in 0..Len(Life!Stages)
  BY <1>1, StageNames DEF LastAt
<1>3. now \in 0..(Grace + Slack) /\ since \in 0..now /\ unfinished \in 0..2
  BY <1>1, Sizes
<1>4. Life!TypeOK
  BY <1>1, <1>2, <1>3 DEF Life!TypeOK
<1> QED
  BY <1>1, <1>4 DEF LifeInv

LEMMA LifeTyped ==
  ASSUME LifeInv
  PROVE  /\ stage \in Nat /\ stage <= LastAt /\ now \in Nat /\ now <= Grace + Slack
         /\ since \in Nat /\ since <= now /\ unfinished \in 0..2
         /\ busy \in BOOLEAN /\ lifePending \in BOOLEAN
         /\ HookAt \in Nat /\ LastAt \in Nat /\ 1 < HookAt /\ HookAt < LastAt
<1>1. HookAt \in Nat /\ LastAt \in Nat /\ 1 < HookAt /\ HookAt < LastAt
  BY DEF HookAt, LastAt
<1>2. Life!TypeOK /\ Len(Life!Stages) = LastAt
  BY StageNames DEF LifeInv
<1>3. stage \in 0..LastAt /\ now \in 0..(Grace + Slack) /\ since \in 0..now /\ unfinished \in 0..2
  BY <1>2 DEF Life!TypeOK
<1>4. busy \in BOOLEAN /\ lifePending \in BOOLEAN
  BY <1>2 DEF Life!TypeOK
<1> QED
  BY <1>1, <1>3, <1>4, Sizes

\* The types after a step, from those of the variables that the step may change.
LEMMA LifeTypes ==
  ASSUME LifeInv, transport' = transport,
         phase' \in {"starting", "serving", "stopping", "exited"},
         runtime' \in {"none", "open", "closing", "closed"},
         exit' \in {"none", "0", "1", "forced"},
         stage' \in 0..LastAt, now' \in 0..(Grace + Slack), since' \in 0..now',
         unfinished' \in 0..2, busy' \in BOOLEAN, lifePending' \in BOOLEAN,
         failed' \subseteq {"audit", "protocol"}
  PROVE  Life!TypeOK' /\ HookAt' = HookAt /\ LastAt' = LastAt
<1>1. HookAt' = HookAt /\ LastAt' = LastAt
  BY DEF HookAt, LastAt
<1>2. Len(Life!Stages)' = LastAt
  BY StageNames DEF Life!Stages, LastAt
<1>3. transport \in Transports
  BY DEF LifeInv, Life!TypeOK
<1> QED
  BY <1>1, <1>2, <1>3 DEF Life!TypeOK

LEMMA LifeChoices ==
  ASSUME LifeInv
  PROVE  /\ phase \in {"starting", "serving", "stopping", "exited"}
         /\ runtime \in {"none", "open", "closing", "closed"}
         /\ exit \in {"none", "0", "1", "forced"}
         /\ failed \subseteq {"audit", "protocol"}
  BY DEF LifeInv, Life!TypeOK

\* A process that is over stays as it is; one that has just ended needs only this.
LEMMA ExitKeeps ==
  ASSUME Life!TypeOK', phase' = "exited", exit' \in {"0", "1", "forced"}, runtime' # "open",
         exit' = "0" => runtime' \in {"none", "closed"} /\ ~busy' /\ failed' = {}
  PROVE  LifeInv'
  BY DEF LifeInv

\* What is true of the process when close() has ended a stage.
LEMMA AdvanceKeeps ==
  ASSUME LifeInv, phase = "stopping", NEW left \in 0..2, Life!Advance(left),
         stage = 0 => left <= 1, left = 0 => ~busy,
         stage # 0 /\ stage # HookAt - 1 => left = unfinished
  PROVE  LifeInv'
<1>1. /\ transport' = transport /\ now' = now /\ busy' = busy /\ lifePending' = lifePending
      /\ failed' = failed /\ stage' = stage + 1 /\ since' = now /\ unfinished' = left
  BY DEF Life!Advance, Life!workVars
<1>2. /\ stage < LastAt /\ exit = "none"
      /\ runtime = IF stage <= HookAt THEN "closing" ELSE "closed"
      /\ stage < HookAt => unfinished <= 1
  BY DEF LifeInv
<1>3. runtime' = IF stage >= HookAt THEN "closed" ELSE "closing"
  <2>1. runtime' = IF stage = HookAt THEN "closed" ELSE runtime
    BY LifeTyped, StageNames DEF Life!Advance
  <2> QED
    BY <1>2, <2>1, LifeTyped
<1>4. stage' \in 0..LastAt /\ now' \in 0..(Grace + Slack) /\ since' \in 0..now' /\ unfinished' \in 0..2
  BY <1>1, <1>2, LifeTyped, Sizes
<1>5. CASE stage + 1 = LastAt
  <2>1. phase' = "exited" /\ exit' = Life!ExitCode(left)
    BY <1>5, StageNames DEF Life!Advance, Life!Exit
  <2>2. exit' \in {"0", "1"} /\ (exit' = "0" => left = 0 /\ failed = {})
    BY <2>1 DEF Life!ExitCode
  <2>3. runtime' = "closed"
    BY <1>3, <1>5, LifeTyped
  <2>4. Life!TypeOK'
    BY <1>1, <1>4, <2>1, <2>2, <2>3, LifeTypes, LifeTyped, LifeChoices
  <2> QED
    BY <1>1, <2>1, <2>2, <2>3, <2>4, ExitKeeps
<1>6. CASE stage + 1 # LastAt
  <2>1. phase' = "stopping" /\ exit' = "none"
    BY <1>2, <1>6, StageNames DEF Life!Advance
  <2>2. Life!TypeOK' /\ HookAt' = HookAt /\ LastAt' = LastAt
    BY <1>1, <1>3, <1>4, <2>1, LifeTypes, LifeTyped, LifeChoices
  <2>3. stage' < LastAt' /\ stage' > 0
    BY <1>1, <1>2, <1>6, <2>2, LifeTyped
  <2>4. runtime' = IF stage' <= HookAt' THEN "closing" ELSE "closed"
    BY <1>1, <1>3, <2>2, LifeTyped
  <2>5. stage' < HookAt' => unfinished' <= 1
    <3>1. stage + 1 < HookAt /\ stage # 0 => stage # HookAt - 1 /\ stage < HookAt
      BY LifeTyped
    <3> QED
      BY <1>1, <1>2, <2>2, <3>1
  <2>6. unfinished' = 0 => ~busy'
    BY <1>1
  <2> QED
    BY <2>1, <2>2, <2>3, <2>4, <2>5, <2>6 DEF LifeInv
<1> QED
  BY <1>5, <1>6

LEMMA LifeNext ==
  ASSUME LifeInv, [Life!Next]_lifeVars
  PROVE  LifeInv'
<1>1. CASE Life!NothingOpened \/ Life!Create \/ Life!Doctor \/ Life!ListenFails \/ Life!Serve
  <2>1. /\ phase = "starting" /\ exit = "none" /\ runtime \in {"none", "open"} /\ stage = 0
        /\ unfinished = 0 /\ ~busy /\ failed = {}
    BY <1>1 DEF LifeInv, Life!NothingOpened, Life!Create, Life!Doctor, Life!ListenFails, Life!Serve
  <2>2. UNCHANGED <<transport, stage, now, since, unfinished, busy, lifePending, failed>>
    BY <1>1 DEF Life!NothingOpened, Life!Create, Life!Doctor, Life!ListenFails, Life!Serve,
       Life!closeVars, Life!workVars
  <2>3. \/ phase' = "starting" /\ exit' = "none" /\ runtime' = "open"
        \/ phase' = "serving" /\ exit' = "none" /\ runtime' = "open"
        \/ phase' = "exited" /\ exit' \in {"0", "1"} /\ runtime' \in {"none", "closed"}
    BY <1>1, <2>1 DEF Life!NothingOpened, Life!Create, Life!Doctor, Life!ListenFails, Life!Serve,
       Life!Exit
  <2>4. Life!TypeOK'
    BY <2>2, <2>3, LifeTypes, LifeTyped, LifeChoices
  <2> QED
    BY <2>1, <2>2, <2>3, <2>4 DEF LifeInv
<1>2. CASE Life!Outside
  <2>1. /\ phase \in {"serving", "stopping"} /\ exit = "none"
        /\ UNCHANGED <<transport, phase, runtime, exit, stage, now, since, unfinished>>
    BY <1>2 DEF LifeInv, Life!Outside, Life!procVars, Life!closeVars
  <2>2. /\ busy' \in BOOLEAN /\ lifePending' \in BOOLEAN /\ failed' \subseteq {"audit", "protocol"}
        /\ phase = "stopping" /\ ~busy => ~busy'
    <3>1. CASE busy' = busy /\ lifePending' = ~lifePending
      BY <1>2, <3>1, LifeTyped, LifeChoices DEF Life!Outside
    <3>2. CASE lifePending' = lifePending
      <4>1. failed' \subseteq {"audit", "protocol"}
        BY <1>2, LifeChoices DEF Life!Outside
      <4>2. busy' = busy \/ busy' = FALSE \/ (phase = "serving" /\ busy' = TRUE)
        BY <1>2 DEF Life!Outside
      <4>3. CASE busy' = busy
        BY <3>2, <4>1, <4>3, LifeTyped
      <4>4. CASE busy' = FALSE
        BY <3>2, <4>1, <4>4, LifeTyped
      <4>5. CASE phase = "serving" /\ busy' = TRUE
        <5>1. phase # "stopping"
          BY <4>5
        <5> QED
          BY <3>2, <4>1, <4>5, <5>1, LifeTyped
      <4> QED
        BY <4>2, <4>3, <4>4, <4>5
    <3> QED
      BY <1>2, <3>1, <3>2 DEF Life!Outside
  <2>3. Life!TypeOK' /\ HookAt' = HookAt /\ LastAt' = LastAt
    BY <2>1, <2>2, LifeTypes, LifeTyped, LifeChoices
  <2> QED
    BY <2>1, <2>2, <2>3 DEF LifeInv
<1>3. CASE Life!Stop
  <2>1. /\ phase = "serving" /\ exit = "none" /\ stage = 0 /\ unfinished = 0
        /\ phase' = "stopping" /\ runtime' = "closing"
        /\ UNCHANGED <<transport, exit, stage, now, since, unfinished, busy, lifePending, failed>>
    BY <1>3 DEF LifeInv, Life!Stop, Life!closeVars, Life!workVars
  <2>2. Life!TypeOK' /\ HookAt' = HookAt /\ LastAt' = LastAt
    BY <2>1, LifeTypes, LifeTyped, LifeChoices
  <2> QED
    BY <2>1, <2>2, LifeTyped DEF LifeInv
<1>4. CASE Life!StageEnds
  <2>1. phase = "stopping" /\ (stage = 0 => ~busy) /\ Life!Advance(unfinished)
    BY <1>4, LifeTyped, StageNames DEF Life!StageEnds
  <2>2. (stage = 0 => unfinished = 0) /\ (stage > 0 /\ unfinished = 0 => ~busy)
    BY <2>1 DEF LifeInv
  <2>3. stage = 0 \/ stage > 0
    BY LifeTyped
  <2> QED
    BY <2>1, <2>2, <2>3, LifeTyped, AdvanceKeeps
<1>5. CASE Life!StageExpires
  <2>1. phase = "stopping" /\ (stage = 0 \/ stage = HookAt - 1) /\ Life!Advance(unfinished + 1)
    BY <1>5, LifeTyped, StageNames DEF Life!StageExpires
  <2>2. (stage = 0 => unfinished = 0) /\ (stage < HookAt => unfinished <= 1)
    BY <2>1 DEF LifeInv
  <2>3. unfinished + 1 \in 0..2 /\ unfinished + 1 # 0 /\ (stage = 0 => unfinished + 1 <= 1)
    BY <2>1, <2>2, LifeTyped
  <2> QED
    BY <2>1, <2>3, AdvanceKeeps
<1>6. CASE Life!StageFails \/ Life!ForcedExit
  <2>1. /\ phase = "stopping" /\ phase' = "exited" /\ exit' \in {"1", "forced"}
        /\ failed' \subseteq failed \cup {"audit"}
        /\ UNCHANGED <<transport, runtime, stage, now, since, unfinished, busy, lifePending>>
    BY <1>6 DEF Life!StageFails, Life!ForcedExit, Life!Exit, Life!closeVars, Life!workVars
  <2>2. runtime # "open"
    BY <2>1 DEF LifeInv
  <2>3. Life!TypeOK'
    BY <2>1, LifeTypes, LifeTyped, LifeChoices
  <2> QED
    BY <2>1, <2>2, <2>3, ExitKeeps
<1>7. CASE Life!Tick
  <2>1. /\ ~(now >= Grace + Slack) /\ now' = now + 1
        /\ UNCHANGED <<transport, phase, runtime, exit, stage, since, unfinished, busy, lifePending, failed>>
    BY <1>7 DEF Life!Tick, Life!ForcedDue, Life!procVars, Life!workVars
  <2>2. now' \in 0..(Grace + Slack) /\ since' \in 0..now'
    BY <2>1, LifeTyped, Sizes
  <2>3. Life!TypeOK' /\ HookAt' = HookAt /\ LastAt' = LastAt
    BY <2>1, <2>2, LifeTypes, LifeTyped, LifeChoices
  <2> QED
    BY <2>1, <2>3 DEF LifeInv
<1>8. CASE Life!Exited \/ UNCHANGED lifeVars
  <2>1. UNCHANGED <<transport, phase, runtime, exit, stage, now, since, unfinished, busy, lifePending, failed>>
    BY <1>8 DEF Life!Exited, Life!lifeVars, Life!procVars, Life!closeVars, Life!workVars, lifeVars
  <2>2. Life!TypeOK' /\ HookAt' = HookAt /\ LastAt' = LastAt
    BY <2>1, LifeTypes, LifeTyped, LifeChoices
  <2> QED
    BY <2>1, <2>2 DEF LifeInv
<1> QED
  BY <1>1, <1>2, <1>3, <1>4, <1>5, <1>6, <1>7, <1>8 DEF Life!Next

\* A process that exits with 0 closed its audit sink, left no tool running and lost
\* nothing, for any grace period and any budgets; no process leaves its runtime open
\* (cli.ts:116 and 144-174, runtime.ts:89).
THEOREM ZeroMeansClosed == PartsSpec => []ExitCodeIsTruthful
<1>1. PartsInit => LifeInv
  BY LifeInit DEF PartsInit
<1>2. LifeInv /\ [PartsNext]_vars => LifeInv'
  BY StepsOfParts, LifeNext
<1>3. LifeInv => ExitCodeIsTruthful
  BY DEF LifeInv, ExitCodeIsTruthful, Life!ExitCodeIsTruthful
<1> QED
  BY <1>1, <1>2, <1>3, Unfair, PTL
-----------------------------------------------------------------------------
(***************************************************************************)
(* The read tools                                                          *)
(***************************************************************************)
\* A fetch that has not been answered holds nothing, and a text exists only once the
\* read loop has met the end within the limit.
ToolInv ==
  /\ Tools!TypeOK
  /\ opened <= parts
  /\ ~Tools!document /\ pc = "opening" => opened = 0
  /\ pc \in {"opening", "reading"} => result = "none"
  /\ result = "ok" => ended /\ total <= MaxBytes
  /\ pc = "settled" => opened = 0

LEMMA ToolTyped ==
  ASSUME ToolInv
  PROVE  /\ parts \in Nat /\ 1 <= parts /\ parts <= MaxParts /\ opened \in Nat /\ opened <= parts
         /\ size \in Nat /\ size <= MaxBytes + 2 /\ total \in Nat /\ total <= MaxBytes + 2
         /\ pc \in {"opening", "reading", "finally", "settled"}
<1>1. /\ parts \in 1..MaxParts /\ opened \in 0..MaxParts
      /\ size \in 0..(MaxBytes + 2) /\ total \in 0..(MaxBytes + 2)
      /\ pc \in {"opening", "reading", "finally", "settled"} /\ opened <= parts
  BY DEF ToolInv, Tools!TypeOK, Tools!MaxSize
<1> QED
  BY <1>1, Sizes

LEMMA ToolTypes ==
  ASSUME parts' \in Nat, 1 <= parts', parts' <= MaxParts, opened' \in Nat, opened' <= parts',
         size' \in Nat, size' <= MaxBytes + 2, total' \in Nat, total' <= MaxBytes + 2,
         pc' \in {"opening", "reading", "finally", "settled"}
  PROVE  Tools!TypeOK'
<1>1. /\ parts' \in 1..MaxParts /\ opened' \in 0..MaxParts
      /\ size' \in 0..(MaxBytes + 2) /\ total' \in 0..(MaxBytes + 2)
  BY Sizes
<1> QED
  BY <1>1 DEF Tools!TypeOK, Tools!MaxSize

LEMMA ToolInit ==
  ASSUME Tools!Init
  PROVE  ToolInv
<1>1. /\ parts \in 1..MaxParts /\ pc = "opening" /\ opened = 0 /\ size \in 0..(MaxBytes + 2)
      /\ total = 0 /\ result = "none"
  BY DEF Tools!Init, Tools!MaxSize
<1>2. 0 \in 0..MaxParts /\ 0 \in 0..(MaxBytes + 2) /\ opened <= parts
  BY <1>1, Sizes
<1> QED
  BY <1>1, <1>2 DEF ToolInv, Tools!TypeOK, Tools!MaxSize

\* The code of an error is never that of a text.
LEMMA CodesOfErrors ==
  \A error \in {"other", "denied", "output_too_large", "upstream_failed"} :
    Tools!CodeOf(error) # "ok"
  BY DEF Tools!CodeOf

\* The read loop is left with an error, or with what it read to the end.
LEMMA LeaveKeeps ==
  ASSUME ToolInv, NEW error, Tools!Leave(error),
         Tools!CodeOf(error) = "ok" => ended /\ total <= MaxBytes
  PROVE  ToolInv'
<1>1. /\ pc' = "finally" /\ result' = Tools!CodeOf(error)
      /\ UNCHANGED <<tool, parts, opened, size, total, ended, toolAborted>>
  BY DEF Tools!Leave, Tools!Settle
<1>2. Tools!TypeOK'
  BY <1>1, ToolTyped, ToolTypes
<1>3. opened' <= parts'
  BY <1>1, ToolTyped
<1> QED
  BY <1>1, <1>2, <1>3 DEF ToolInv

LEMMA ToolNext ==
  ASSUME ToolInv, [Tools!Next]_toolVars
  PROVE  ToolInv'
<1>1. ASSUME UNCHANGED <<tool, parts, size, total, ended>>, pc' = "settled", opened' = 0,
             result' = "ok" => result = "ok"
      PROVE  ToolInv'
  <2>1. Tools!TypeOK' /\ opened' <= parts'
    BY <1>1, ToolTyped, ToolTypes
  <2> QED
    BY <1>1, <2>1 DEF ToolInv
<1>2. CASE Tools!RefusePath
  BY <1>1, <1>2 DEF Tools!RefusePath, Tools!Settle
<1>3. CASE Tools!OpenPart
  <2>1. CASE Tools!Leave("other")
    BY <2>1, LeaveKeeps, CodesOfErrors
  <2>2. CASE ~Tools!Leave("other")
    <3>1. /\ pc = "opening" /\ Tools!document /\ opened < parts /\ opened' = opened + 1
          /\ UNCHANGED <<tool, parts, pc, size, total, ended, result>>
      BY <1>3, <2>2 DEF Tools!OpenPart
    <3>2. Tools!TypeOK' /\ opened' <= parts'
      BY <3>1, ToolTyped, ToolTypes
    <3> QED
      BY <3>1, <3>2 DEF ToolInv, Tools!document
  <2> QED
    BY <2>1, <2>2
<1>4. CASE Tools!Stat
  <2>1. CASE \E error \in {"other", "denied", "output_too_large"} : Tools!Leave(error)
    BY <2>1, LeaveKeeps, CodesOfErrors
  <2>2. CASE ~\E error \in {"other", "denied", "output_too_large"} : Tools!Leave(error)
    <3>1. /\ pc = "opening" /\ Tools!document /\ pc' = "reading"
          /\ UNCHANGED <<tool, parts, opened, size, total, ended, result>>
      BY <1>4, <2>2 DEF Tools!Stat
    <3>2. Tools!TypeOK' /\ opened' <= parts'
      BY <3>1, ToolTyped, ToolTypes
    <3> QED
      BY <3>1, <3>2 DEF ToolInv
  <2> QED
    BY <2>1, <2>2
<1>5. CASE Tools!Fetch
  <2>1. pc = "opening" /\ ~Tools!document /\ opened = 0 /\ result = "none"
        /\ UNCHANGED <<tool, parts, size, total, ended>>
    BY <1>5 DEF ToolInv, Tools!Fetch
  <2>2. CASE \E error \in {"other", "upstream_failed"} : Tools!Settle("settled", Tools!CodeOf(error))
    <3>1. pc' = "settled" /\ result' # "ok"
      BY <2>2, CodesOfErrors DEF Tools!Settle
    <3>2. opened' = 0 \/ opened' = 1
      BY <1>5, <2>1 DEF Tools!Fetch
    <3>3. opened' = 0
      BY <1>5, <2>1, <3>1 DEF Tools!Fetch
    <3> QED
      BY <1>1, <2>1, <3>1, <3>3
  <2>3. CASE opened' = 1 /\ pc' = "reading" /\ UNCHANGED result
    <3>1. Tools!TypeOK' /\ opened' <= parts'
      BY <2>1, <2>3, ToolTyped, ToolTypes
    <3> QED
      BY <2>1, <2>3, <3>1 DEF ToolInv
  <2> QED
    BY <1>5, <2>2, <2>3 DEF Tools!Fetch
<1>6. CASE Tools!Read
  <2>1. /\ pc = "reading" /\ ~ended
        /\ UNCHANGED <<tool, parts, pc, opened, size, result>>
    BY <1>6 DEF Tools!Read, Tools!reading
  <2>2. total' \in Nat /\ total' <= MaxBytes + 2
    <3>1. CASE total < size
      <4>1. Tools!Available = size - total
        BY <3>1 DEF Tools!Available
      <4>2. total' = total \/ \E n \in 1..(size - total) : total' = total + n
        BY <1>6, <4>1 DEF Tools!Read
      <4> QED
        BY <3>1, <4>2, ToolTyped, Sizes
    <3>2. CASE ~(total < size)
      BY <1>6, <3>2, ToolTyped, Sizes DEF Tools!Read, Tools!Available
    <3> QED
      BY <3>1, <3>2
  <2>3. Tools!TypeOK' /\ opened' <= parts'
    BY <2>1, <2>2, ToolTyped, ToolTypes
  <2> QED
    BY <2>1, <2>3 DEF ToolInv
<1>7. CASE Tools!ReadFails
  BY <1>7, LeaveKeeps, CodesOfErrors DEF Tools!ReadFails
<1>8. CASE Tools!Finish
  <2>1. CASE total > MaxBytes
    BY <1>8, <2>1, LeaveKeeps, CodesOfErrors DEF Tools!Finish
  <2>2. CASE ~(total > MaxBytes)
    <3>1. total <= MaxBytes /\ total < MaxBytes + 1
      BY <2>2, ToolTyped, Sizes
    <3>2. ended
      BY <1>8, <3>1 DEF Tools!Finish, Tools!reading, Tools!Capacity
    <3>3. \E outcome \in {"ok", "other"} : Tools!Leave(outcome)
      BY <1>8, <2>2 DEF Tools!Finish
    <3> QED
      BY <3>1, <3>2, <3>3, LeaveKeeps
  <2> QED
    BY <2>1, <2>2
<1>9. CASE Tools!Finally
  <2>1. /\ UNCHANGED <<tool, parts, size, total, ended>> /\ pc' = "settled"
        /\ result' \in {result, "close_error", Tools!CodeOf("other")}
        /\ opened' = opened - opened
    BY <1>9 DEF Tools!Finally, Tools!Settle, Tools!Released
  <2>2. opened' = 0
    BY <2>1, ToolTyped
  <2>3. result' = "ok" => result = "ok"
    BY <2>1, CodesOfErrors
  <2> QED
    BY <1>1, <2>1, <2>2, <2>3
<1>10. CASE Tools!Abort \/ Tools!Change \/ UNCHANGED toolVars
  <2>1. UNCHANGED <<tool, parts, pc, opened, total, ended, result>>
    BY <1>10 DEF Tools!Abort, Tools!Change, toolVars
  <2>2. size' = size \/ size' \in 0..(MaxBytes + 2)
    BY <1>10 DEF Tools!Abort, Tools!Change, Tools!MaxSize, toolVars
  <2>3. Tools!TypeOK' /\ opened' <= parts'
    BY <2>1, <2>2, ToolTyped, ToolTypes, Sizes
  <2> QED
    BY <2>1, <2>3 DEF ToolInv, Tools!document
<1> QED
  BY <1>2, <1>3, <1>4, <1>5, <1>6, <1>7, <1>8, <1>9, <1>10 DEF Tools!Next
-----------------------------------------------------------------------------
(***************************************************************************)
(* The start                                                               *)
(***************************************************************************)
Checking == {"parse", "probe", "available", "create"}
Building == {"documents", "register", "compare", "close", "created"}
Root == IF supplied = None /\ "documents_read" \in config.allowed THEN {"root"} ELSE {}

\* What is open follows from how far the start has come; the documents tool is
\* registered as soon as its root is open.
BootInv ==
  /\ config \in Configured
  /\ starting \in Checking => caller = "cli"
  /\ starting \in {"start", "parse", "available", "create"} => handles = {} /\ dispatcher = "none"
  /\ starting = "probe" => dispatcher = "none"
  /\ starting \in {"probe", "available", "create"} \cup Building => Boot!Issues(config) = {}
  /\ starting \in Building => dispatcher = "open"
  /\ starting = "documents" => handles = {}
  /\ starting \in {"register", "compare", "created"} => handles = Root
  /\ starting = "close" => handles \in {{}, {"root"}}
  /\ starting \in {"register", "compare", "close"} /\ handles # {} => "documents_read" \in registry
  /\ starting = "created" => config.allowed \subseteq registry
  /\ starting = "failed" =>
       /\ handles = {} /\ told # {}
       /\ dispatcher = "open" => "documents_read" \in registry
       /\ caller = "cli" => "unknown" \notin told

LEMMA Areas ==
  /\ "unknown" \notin Boot!Fields
  /\ config \in Configured => config.wrong \ {"unknown"} \subseteq Boot!Fields
  /\ \A issues : "unknown" \notin Boot!Diagnostic(issues)
  /\ \A issues : issues # {} => Boot!Diagnostic(issues) # {}
<1>1. "unknown" \notin Boot!Fields /\ "api.url" \in Boot!Fields
  BY DEF Boot!Fields, Boot!Refined
<1>2. config \in Configured => config.wrong \ {"unknown"} \subseteq Boot!Fields
  BY <1>1 DEF Configured
<1>3. \A issues : "unknown" \notin Boot!Diagnostic(issues)
  BY <1>1 DEF Boot!Diagnostic
<1>4. \A issues : issues # {} => Boot!Diagnostic(issues) # {}
  BY DEF Boot!Diagnostic
<1> QED
  BY <1>1, <1>2, <1>3, <1>4

LEMMA BootInit ==
  ASSUME Boot!Init
  PROVE  BootInv
  BY DEF Boot!Init, BootInv, Checking, Building

LEMMA BootNext ==
  ASSUME BootInv, [Boot!Next]_startVars
  PROVE  BootInv'
<1>1. ASSUME UNCHANGED <<caller, config, supplied>> PROVE Root' = Root /\ Boot!Issues(config)' = Boot!Issues(config)
  BY <1>1 DEF Root
<1>2. CASE Boot!Arguments
  BY <1>2 DEF BootInv, Boot!Arguments, Boot!Fail, Boot!Goto, Boot!Checked, Checking, Building
<1>3. CASE Boot!Parse
  BY <1>1, <1>3, Areas DEF BootInv, Boot!Parse, Boot!Fail, Boot!Goto, Boot!Checked, Checking, Building
<1>4. CASE Boot!Probe
  BY <1>1, <1>4 DEF BootInv, Boot!Probe, Boot!Fail, Boot!Goto, Checking, Building
<1>5. CASE Boot!EndProbe
  BY <1>1, <1>5 DEF BootInv, Boot!EndProbe, Boot!Fail, Boot!Goto, Checking, Building
<1>6. CASE Boot!Available
  BY <1>1, <1>6 DEF BootInv, Boot!Available, Boot!Fail, Boot!Goto, Boot!Checked, Checking, Building
<1>7. CASE Boot!Construct
  BY <1>1, <1>7 DEF BootInv, Boot!Construct, Boot!Fail, Boot!Goto, Checking, Building
<1>8. CASE Boot!OpenDocuments
  BY <1>1, <1>8 DEF BootInv, Boot!OpenDocuments, Boot!Goto, Checking, Building, Root
<1>9. CASE Boot!Register
  BY <1>1, <1>9 DEF BootInv, Boot!Register, Boot!Goto, Checking, Building, Root
<1>10. CASE Boot!Compare
  BY <1>1, <1>10 DEF BootInv, Boot!Compare, Boot!Goto, Boot!Checked, Checking, Building, Root
<1>11. CASE Boot!Close
  BY <1>1, <1>11 DEF BootInv, Boot!Close, Boot!Fail, Checking, Building
<1>12. CASE UNCHANGED startVars
  BY <1>1, <1>12 DEF BootInv, startVars
<1> QED
  BY <1>2, <1>3, <1>4, <1>5, <1>6, <1>7, <1>8, <1>9, <1>10, <1>11, <1>12 DEF Boot!Next

\* A tool returns the whole of what there was to read or refuses, within any limit and
\* for a path of any length, and leaves no handle and no body open; a start makes a
\* runtime that is whole or leaves nothing open (tools.ts:70-103 and 134-153,
\* runtime.ts:57-97).
THEOREM WholeAndClosed == PartsSpec => []ReadsWholeAndCloses
<1>1. PartsInit => ToolInv /\ BootInv
  BY ToolInit, BootInit DEF PartsInit
<1>2. ToolInv /\ BootInv /\ [PartsNext]_vars => ToolInv' /\ BootInv'
  BY StepsOfParts, ToolNext, BootNext
<1>3. ToolInv => Tools!WholeOrRefused /\ Tools!NothingLeftOpen
  BY DEF ToolInv, Tools!WholeOrRefused, Tools!NothingLeftOpen
<1>4. BootInv => Boot!StartsWholeOrNotAtAll
  BY Areas DEF BootInv, Boot!StartsWholeOrNotAtAll, Building, Root
<1>5. ToolInv /\ BootInv => ReadsWholeAndCloses
  BY <1>3, <1>4 DEF ReadsWholeAndCloses
<1> QED
  BY <1>1, <1>2, <1>5, Unfair, PTL
-----------------------------------------------------------------------------
(***************************************************************************)
(* The input walk                                                          *)
(***************************************************************************)
Routes == Seq(Walk!Positions)

\* What the entry at the end of a path holds; the empty path stands for the value itself.
Target(q) == IF q = <<>> THEN value ELSE Walk!Child(q[Len(q)])
Entry(q, j) == Append(q, <<Target(q), j>>)

WalkTyped ==
  /\ value \in Walk!Values /\ reserved \in SUBSET Containers
  /\ entries \in [Containers -> UNION {[1..n -> Walk!Values] : n \in 0..Width}]

\* M is the set of the paths to the entries that were met, P gives the paths of the
\* pending values, here is that of the container whose entries are being met.  No path
\* is pending twice or was walked while it is, so nothing is counted twice; and the
\* entries of a container that was met are pending, being met or met: so none is missed.
Traced(M, P, here) ==
  /\ M \subseteq Routes \ {<<>>} /\ IsFiniteSet(M) /\ Cardinality(M) = count
  /\ \A p \in M : Walk!IsPath(p) /\ Len(p) <= count
  /\ \A q \in Routes, x \in Walk!Positions : Append(q, x) \in M => q \in M \cup {<<>>}
  /\ P \in [1..Len(walkPending) -> M \cup {<<>>}]
  /\ \A i \in DOMAIN P : \A j \in DOMAIN P : P[i] = P[j] => i = j
  /\ \A i \in DOMAIN P : Target(P[i]) = walkPending[i]
  /\ \A i \in DOMAIN P : \A x \in Walk!Positions : Append(P[i], x) \notin M
  /\ current # Leaf =>
       /\ here \in M \cup {<<>>} /\ Target(here) = current
       /\ \A i \in DOMAIN P : P[i] # here
       /\ \A j \in 1..Len(entries[current]) : Entry(here, j) \in M <=> j <= met
  /\ \A q \in M \cup {<<>>} : Target(q) # Leaf =>
       \/ \E i \in DOMAIN P : P[i] = q
       \/ current # Leaf /\ q = here
       \/ \A j \in 1..Len(entries[Target(q)]) : Entry(q, j) \in M
  /\ \A q \in M \cup {<<>>} : Target(q) \in reserved => \E i \in DOMAIN P : P[i] = q

\* What WalkDecides says of the verdict.
WalkDecided ==
  verdict # "none" =>
    (verdict = "within" <=> Walk!Cardinality(Walk!Unfolded) <= Maximum /\ ~Walk!MeetsReserved)

WalkInv ==
  /\ WalkTyped /\ Walk!TypeOK
  /\ current = Leaf => met = 0
  /\ current # Leaf => met <= Len(entries[current])
  /\ verdict = "none" => \E M, P, here : Traced(M, P, here)
  /\ WalkDecided
-----------------------------------------------------------------------------
LEMMA WalkSizes ==
  Maximum \in Nat /\ Width \in Nat /\ IsFiniteSet(Containers) /\ Leaf \notin Containers
  BY PartsAssumption, WalkAssumption

LEMMA LeastNumber ==
  ASSUME NEW S, S \subseteq Nat, S # {}
  PROVE  \E x \in S : \A y \in S : x <= y
<1> DEFINE R == OpToRel(<, Nat)
<1>1. IsWellFoundedOn(R, Nat)
  BY NatLessThanWellFounded
<1>2. \A x, y \in Nat : y < x => <<y, x>> \in R
  BY DEF OpToRel
<1> HIDE DEF R
<1>3. PICK x \in S : \A y \in S : ~(<<y, x>> \in R)
  BY <1>1, WFMin
<1>4. ASSUME NEW y \in S PROVE x <= y
  <2>1. x \in Nat /\ y \in Nat /\ ~(y < x)
    BY <1>2, <1>3
  <2> QED
    BY <2>1
<1> QED
  BY <1>4

LEMMA EntriesOf ==
  ASSUME WalkTyped, NEW c \in Containers
  PROVE  /\ entries[c] \in Seq(Walk!Values) /\ DOMAIN entries[c] = 1..Len(entries[c])
         /\ Len(entries[c]) \in Nat /\ Len(entries[c]) <= Width
         /\ \A j \in 1..Len(entries[c]) : entries[c][j] \in Walk!Values
<1>1. PICK n \in 0..Width : entries[c] \in [1..n -> Walk!Values]
  BY DEF WalkTyped
<1>2. n \in Nat /\ n <= Width
  BY <1>1, WalkSizes
<1> QED
  BY <1>1, <1>2

\* A path with one more position.
LEMMA PathGrows ==
  ASSUME NEW q \in Routes, NEW x \in Walk!Positions
  PROVE  /\ Append(q, x) \in Routes /\ Append(q, x) # <<>> /\ Len(q) \in Nat
         /\ Len(Append(q, x)) = Len(q) + 1 /\ Append(q, x)[Len(q) + 1] = x
         /\ \A k \in 1..Len(q) : Append(q, x)[k] = q[k]
         /\ Target(Append(q, x)) = Walk!Child(x)
         /\ Walk!IsPath(Append(q, x)) <=>
              /\ q = <<>> \/ Walk!IsPath(q)
              /\ x[1] = Target(q)
              /\ x[2] \in DOMAIN entries[x[1]]
<1> DEFINE p == Append(q, x)
           n == Len(q)
<1>1. /\ p \in Routes /\ p # <<>> /\ n \in Nat /\ Len(p) = n + 1 /\ p[n + 1] = x
      /\ \A k \in 1..n : p[k] = q[k]
      /\ DOMAIN p = 1..(n + 1) /\ DOMAIN q = 1..n
  BY AppendProperties DEF Routes
<1>2. Target(p) = Walk!Child(x)
  BY <1>1 DEF Target
<1>3. q = <<>> <=> n = 0
  BY <1>1, EmptySeq DEF Routes
<1>4. Target(q) = IF n = 0 THEN value ELSE Walk!Child(q[n])
  BY <1>3 DEF Target
<1> HIDE DEF p, n
<1>5. CASE n = 0
  <2>1. Walk!IsPath(p) <=> x[1] = value /\ x[2] \in DOMAIN entries[x[1]]
    BY <1>1, <1>5 DEF Walk!IsPath
  <2> QED
    BY <2>1, <1>1, <1>2, <1>3, <1>4, <1>5 DEF p, n
<1>6. CASE n # 0
  <2>1. (\A k \in DOMAIN p : p[k][2] \in DOMAIN entries[p[k][1]]) <=>
          /\ \A k \in DOMAIN q : q[k][2] \in DOMAIN entries[q[k][1]]
          /\ x[2] \in DOMAIN entries[x[1]]
    BY <1>1, <1>6
  <2>2. (\A k \in 1..(Len(p) - 1) : p[k + 1][1] = Walk!Child(p[k])) <=>
          /\ \A k \in 1..(n - 1) : q[k + 1][1] = Walk!Child(q[k])
          /\ x[1] = Walk!Child(q[n])
    <3>1. \A k \in 1..(n - 1) : k \in 1..n /\ k + 1 \in 1..n /\ p[k + 1] = q[k + 1] /\ p[k] = q[k]
      BY <1>1, <1>6
    <3>2. p[n] = q[n] /\ n \in 1..n /\ Len(p) - 1 = n
      BY <1>1, <1>6
    <3>3. 1..n = (1..(n - 1)) \cup {n}
      BY <1>1, <1>6
    <3> QED
      BY <3>1, <3>2, <3>3, <1>1
  <2>3. p[1] = q[1]
    BY <1>1, <1>6
  <2>4. n = Len(q)
    BY DEF n
  <2>5. Walk!IsPath(p) <=> Walk!IsPath(q) /\ x[1] = Target(q) /\ x[2] \in DOMAIN entries[x[1]]
    BY <2>1, <2>2, <2>3, <2>4, <1>4, <1>6 DEF Walk!IsPath
  <2> QED
    BY <2>5, <1>1, <1>2, <1>3, <1>6 DEF p, n
<1> QED
  BY <1>1, <1>5, <1>6

LEMMA UnfoldedIs ==
  \A p : p \in Walk!Unfolded <=>
       p \in Routes /\ Len(p) \in 1..(Maximum + 1) /\ Walk!IsPath(p)
<1>1. ASSUME NEW p, p \in Walk!Unfolded
      PROVE  p \in Routes /\ Len(p) \in 1..(Maximum + 1) /\ Walk!IsPath(p)
  <2>1. PICK n \in 1..(Maximum + 1) : p \in [1..n -> Walk!Positions]
    BY <1>1 DEF Walk!Unfolded
  <2> QED
    BY <1>1, <2>1, WalkSizes DEF Walk!Unfolded, Routes
<1>2. ASSUME NEW p, p \in Routes, Len(p) \in 1..(Maximum + 1), Walk!IsPath(p)
      PROVE  p \in Walk!Unfolded
  <2>1. p \in [1..Len(p) -> Walk!Positions]
    BY <1>2, LenProperties DEF Routes
  <2> QED
    BY <1>2, <2>1 DEF Walk!Unfolded
<1> QED
  BY <1>1, <1>2

\* A path is known by the set of its numbered positions, of which there are finitely many.
LEMMA UnfoldedIsFinite == IsFiniteSet(Walk!Unfolded)
<1> DEFINE S == (1..(Maximum + 1)) \X Walk!Positions
           f == [p \in Walk!Unfolded |-> {<<k, p[k]>> : k \in 1..Len(p)}]
<1>1. IsFiniteSet(1..(Maximum + 1)) /\ IsFiniteSet(1..Width)
  BY WalkSizes, FS_Interval
<1>2. IsFiniteSet(Walk!Positions)
  BY <1>1, WalkSizes, FS_Product DEF Walk!Positions
<1>3. IsFiniteSet(S)
  BY <1>1, <1>2, FS_Product
<1>4. IsFiniteSet(SUBSET S)
  BY <1>3, FS_SUBSET
<1>5. ASSUME NEW p \in Walk!Unfolded
      PROVE  {<<k, p[k]>> : k \in 1..Len(p)} \in SUBSET S
  <2>1. p \in Routes /\ Len(p) \in 1..(Maximum + 1)
    BY UnfoldedIs
  <2>2. ASSUME NEW k \in 1..Len(p) PROVE k \in 1..(Maximum + 1) /\ p[k] \in Walk!Positions
    BY <2>1, WalkSizes DEF Routes
  <2> QED
    BY <2>2
<1>6. ASSUME NEW p \in Walk!Unfolded, NEW q \in Walk!Unfolded, f[p] = f[q]
      PROVE  p = q
  <2>1. /\ p \in Seq(Walk!Positions) /\ q \in Seq(Walk!Positions)
        /\ Len(p) \in Nat /\ Len(q) \in Nat
    BY UnfoldedIs, LenProperties DEF Routes
  <2>2. {<<k, p[k]>> : k \in 1..Len(p)} = {<<k, q[k]>> : k \in 1..Len(q)}
    BY <1>6
  <2>3. ASSUME NEW k \in 1..Len(p) PROVE k \in 1..Len(q) /\ p[k] = q[k]
    <3>1. <<k, p[k]>> \in {<<j, q[j]>> : j \in 1..Len(q)}
      BY <2>2
    <3>2. PICK j \in 1..Len(q) : <<k, p[k]>> = <<j, q[j]>>
      BY <3>1
    <3> QED
      BY <3>2
  <2>4. ASSUME NEW k \in 1..Len(q) PROVE k \in 1..Len(p)
    <3>1. <<k, q[k]>> \in {<<j, p[j]>> : j \in 1..Len(p)}
      BY <2>2
    <3>2. PICK j \in 1..Len(p) : <<k, q[k]>> = <<j, p[j]>>
      BY <3>1
    <3> QED
      BY <3>2
  <2>5. Len(p) = Len(q)
    BY <2>1, <2>3, <2>4
  <2> QED
    BY <2>1, <2>3, <2>5, SeqEqual
<1>7. f \in [Walk!Unfolded -> SUBSET S]
  BY <1>5
<1> HIDE DEF f, S
<1>8. f \in Injection(Walk!Unfolded, SUBSET S)
  BY <1>6, <1>7 DEF Injection, IsInjective
<1> QED
  BY <1>4, <1>8, FS_Injection

LEMMA SameCount == \A S : Walk!Cardinality(S) = Cardinality(S)
  BY DEF Walk!Cardinality, Cardinality

\* What was met is a part of what the value unfolds to.
LEMMA MetIsUnfolded ==
  ASSUME NEW M, NEW P, NEW here, Traced(M, P, here), count \in Nat, count <= Maximum
  PROVE  M \subseteq Walk!Unfolded
<1>1. ASSUME NEW p \in M PROVE Len(p) \in 1..(Maximum + 1)
  <2>1. p \in Seq(Walk!Positions) /\ p # <<>> /\ Len(p) <= count
    BY DEF Traced, Routes
  <2>2. Len(p) \in Nat \ {0}
    BY <2>1, EmptySeq
  <2> QED
    BY <2>1, <2>2, WalkSizes
<1> QED
  BY <1>1, UnfoldedIs DEF Traced

\* When nothing is left to walk, every path was met: the shortest one that was not
\* would be an entry of a container that was.
LEMMA AllWasMet ==
  ASSUME WalkTyped, NEW M, NEW P, NEW here, Traced(M, P, here), count \in Nat, count <= Maximum,
         current = Leaf, walkPending = <<>>
  PROVE  Walk!Unfolded = M /\ ~Walk!MeetsReserved
<1> DEFINE Lengths == {n \in Nat : \E p \in Routes : p # <<>> /\ Len(p) = n /\ Walk!IsPath(p) /\ p \notin M}
<1>1. DOMAIN P = {}
  BY DEF Traced
<1>2. Lengths = {}
  <2> SUFFICES ASSUME Lengths # {} PROVE FALSE
    OBVIOUS
  <2>1. PICK n \in Lengths : \A m \in Lengths : n <= m
    <3>1. Lengths \subseteq Nat
      OBVIOUS
    <3> HIDE DEF Lengths
    <3> QED
      BY <3>1, LeastNumber
  <2>2. PICK p \in Routes : p # <<>> /\ Len(p) = n /\ Walk!IsPath(p) /\ p \notin M
    BY <2>1
  <2>3. PICK q \in Routes, x \in Walk!Positions : p = Append(q, x)
    BY <2>2, SequenceEmptyOrAppend DEF Routes
  <2>4. /\ q = <<>> \/ Walk!IsPath(q)
        /\ x[1] = Target(q) /\ x[2] \in DOMAIN entries[x[1]]
        /\ Len(q) \in Nat /\ n = Len(q) + 1
    BY <2>2, <2>3, PathGrows
  <2>5. q \in M \cup {<<>>}
    <3>1. CASE q # <<>> /\ q \notin M
      <4>1. Len(q) \in Lengths
        BY <2>4, <3>1
      <4>2. n <= Len(q)
        BY <2>1, <4>1
      <4> QED
        BY <2>4, <4>2
    <3> QED
      BY <3>1
  <2>6. x[1] \in Containers /\ x[1] # Leaf /\ x = <<x[1], x[2]>>
    BY WalkSizes DEF Walk!Positions
  <2>7. \A j \in 1..Len(entries[Target(q)]) : Entry(q, j) \in M
    BY <1>1, <2>4, <2>5, <2>6 DEF Traced
  <2>8. x[2] \in 1..Len(entries[Target(q)]) /\ p = Entry(q, x[2])
    BY <2>3, <2>4, <2>6, EntriesOf DEF Entry
  <2> QED
    BY <2>2, <2>7, <2>8
<1>3. Walk!Unfolded \subseteq M
  <2> SUFFICES ASSUME NEW p \in Walk!Unfolded, p \notin M PROVE FALSE
    OBVIOUS
  <2>1. p \in Routes /\ Len(p) \in 1..(Maximum + 1) /\ Walk!IsPath(p)
    BY UnfoldedIs
  <2>2. Len(p) \in Nat /\ p # <<>>
    BY <2>1, WalkSizes, EmptySeq
  <2>3. Len(p) \in Lengths
    BY <2>1, <2>2
  <2> QED
    BY <1>2, <2>3
<1>4. ~Walk!MeetsReserved
  <2>1. \A q \in M \cup {<<>>} : Target(q) \notin reserved
    BY <1>1 DEF Traced
  <2>2. value \notin reserved
    BY <2>1 DEF Target
  <2>3. \A p \in M : Walk!Child(Walk!Last(p)) \notin reserved
    BY <2>1 DEF Traced, Target, Walk!Last
  <2> QED
    BY <1>3, <2>2, <2>3 DEF Walk!MeetsReserved
<1> QED
  BY <1>3, <1>4, MetIsUnfolded

LEMMA SameGraph ==
  ASSUME UNCHANGED <<value, entries, reserved>>
  PROVE  /\ Walk!Unfolded' = Walk!Unfolded
         /\ Walk!MeetsReserved' <=> Walk!MeetsReserved
         /\ WalkTyped' <=> WalkTyped
         /\ \A q : Target(q)' = Target(q)
         /\ \A q, j : Entry(q, j)' = Entry(q, j)
         /\ \A q : Walk!IsPath(q)' <=> Walk!IsPath(q)
<1>1. \A x : Walk!Child(x)' = Walk!Child(x)
  BY DEF Walk!Child
<1>2. \A q : Walk!IsPath(q)' <=> Walk!IsPath(q)
  BY <1>1 DEF Walk!IsPath
<1>3. \A q : Target(q)' = Target(q)
  BY <1>1 DEF Target
<1>4. \A q, j : Entry(q, j)' = Entry(q, j)
  BY <1>3 DEF Entry
<1>5. Walk!Unfolded' = Walk!Unfolded
  BY <1>2 DEF Walk!Unfolded
<1>6. Walk!MeetsReserved' <=> Walk!MeetsReserved
  BY <1>1, <1>5 DEF Walk!MeetsReserved
<1> QED
  BY <1>2, <1>3, <1>4, <1>5, <1>6 DEF WalkTyped

LEMMA SameDecision ==
  ASSUME WalkDecided, UNCHANGED <<value, entries, reserved, verdict>>
  PROVE  WalkDecided'
  BY SameGraph, SameCount DEF WalkDecided

LEMMA OnlyOneEnd ==
  ASSUME NEW q \in Routes, NEW r \in Routes, NEW x \in Walk!Positions, NEW y \in Walk!Positions,
         Append(q, x) = Append(r, y)
  PROVE  q = r /\ x = y
<1>1. /\ Len(q) \in Nat /\ Len(Append(q, x)) = Len(q) + 1 /\ Append(q, x)[Len(q) + 1] = x
      /\ \A k \in 1..Len(q) : Append(q, x)[k] = q[k]
  BY PathGrows
<1>2. /\ Len(r) \in Nat /\ Len(Append(r, y)) = Len(r) + 1 /\ Append(r, y)[Len(r) + 1] = y
      /\ \A k \in 1..Len(r) : Append(r, y)[k] = r[k]
  BY PathGrows
<1>3. Len(q) = Len(r)
  BY <1>1, <1>2
<1>4. x = y /\ \A k \in 1..Len(q) : q[k] = r[k]
  BY <1>1, <1>2, <1>3
<1> QED
  BY <1>3, <1>4, SeqEqual DEF Routes

\* The next entry of the container at hand was not met before.
LEMMA NextEntry ==
  ASSUME WalkTyped, Walk!TypeOK, NEW M, NEW P, NEW here, Traced(M, P, here),
         current # Leaf, met < Len(entries[current]), NEW r, r = Entry(here, met + 1)
  PROVE  /\ here \in Routes /\ <<current, met + 1>> \in Walk!Positions
         /\ r = Append(here, <<current, met + 1>>)
         /\ r \in Routes \ {<<>>} /\ Walk!IsPath(r) /\ Len(r) <= count + 1
         /\ r \notin M /\ Target(r) = entries[current][met + 1]
         /\ Target(r) \in Walk!Values
         /\ IsFiniteSet(M \cup {r}) /\ Cardinality(M \cup {r}) = count + 1
<1>1. current \in Containers /\ met \in Nat /\ count \in Nat
  BY WalkSizes DEF Walk!TypeOK, Walk!Values
<1>2. /\ DOMAIN entries[current] = 1..Len(entries[current])
      /\ Len(entries[current]) \in Nat /\ Len(entries[current]) <= Width
      /\ \A j \in 1..Len(entries[current]) : entries[current][j] \in Walk!Values
  BY <1>1, EntriesOf
<1>3. met + 1 \in 1..Len(entries[current]) /\ met + 1 \in 1..Width
  BY <1>1, <1>2, WalkSizes
<1>4. <<current, met + 1>> \in Walk!Positions
  BY <1>1, <1>3 DEF Walk!Positions
<1>5. here \in M \cup {<<>>} /\ Target(here) = current /\ here \in Routes
  <2>1. <<>> \in Routes
    BY EmptySeq DEF Routes
  <2> QED
    BY <2>1 DEF Traced
<1>6. r = Append(here, <<current, met + 1>>)
  BY <1>5 DEF Entry
<1>p. PICK y \in Walk!Positions : y = <<current, met + 1>>
  BY <1>4
<1>7. /\ r \in Routes /\ r # <<>> /\ Len(r) = Len(here) + 1 /\ Len(here) \in Nat
      /\ Target(r) = Walk!Child(y)
      /\ Walk!IsPath(r) <=>
           /\ here = <<>> \/ Walk!IsPath(here)
           /\ y[1] = Target(here)
           /\ y[2] \in DOMAIN entries[y[1]]
  <2>1. r = Append(here, y)
    BY <1>6, <1>p
  <2>2. /\ Append(here, y) \in Routes /\ Append(here, y) # <<>> /\ Len(here) \in Nat
        /\ Len(Append(here, y)) = Len(here) + 1
        /\ Target(Append(here, y)) = Walk!Child(y)
        /\ Walk!IsPath(Append(here, y)) <=>
             /\ here = <<>> \/ Walk!IsPath(here)
             /\ y[1] = Target(here)
             /\ y[2] \in DOMAIN entries[y[1]]
    BY <1>5, PathGrows
  <2> QED
    BY <2>1, <2>2
<1>8. Walk!IsPath(r) <=> (here = <<>> \/ Walk!IsPath(here))
  BY <1>2, <1>3, <1>5, <1>7, <1>p
<1>9. Walk!IsPath(r)
  BY <1>5, <1>8 DEF Traced
<1>10. Len(here) <= count
  BY <1>1, <1>5, EmptySeq DEF Traced
<1>11. r \notin M
  <2>1. Entry(here, met + 1) \in M <=> met + 1 <= met
    BY <1>3 DEF Traced
  <2> QED
    BY <2>1, <1>1
<1>12. Target(r) = entries[current][met + 1]
  BY <1>7, <1>p DEF Walk!Child
<1>13. IsFiniteSet(M) /\ Cardinality(M) = count
  BY DEF Traced
<1>14. IsFiniteSet(M \cup {r}) /\ Cardinality(M \cup {r}) = Cardinality(M) + 1
  BY <1>11, <1>13, FS_AddElement, Zenon
<1> QED
  BY <1>1, <1>2, <1>3, <1>4, <1>5, <1>6, <1>7, <1>9, <1>10, <1>11, <1>12, <1>13, <1>14

LEMMA WalkInit ==
  ASSUME Walk!Init
  PROVE  WalkInv
<1>1. WalkTyped
  BY DEF Walk!Init, WalkTyped
<1>2. /\ current = Leaf /\ met = 0 /\ count = 0 /\ verdict = "none"
      /\ walkPending = <<value>> /\ value \in Walk!Values
  BY DEF Walk!Init
<1>3. Walk!TypeOK
  <2>1. walkPending \in Seq(Walk!Values) /\ Len(walkPending) = 1
    BY <1>2
  <2> QED
    BY <1>2, <2>1, WalkSizes DEF Walk!TypeOK, Walk!Values
<1>4. PICK P : P = [i \in 1..1 |-> <<>>]
  OBVIOUS
<1>5. Traced({}, P, <<>>)
  <2>1. IsFiniteSet({}) /\ Cardinality({}) = count
    BY <1>2, FS_EmptySet
  <2>2. DOMAIN P = {1} /\ P[1] = <<>> /\ P \in [1..Len(walkPending) -> {<<>>}]
    BY <1>2, <1>4
  <2>3. Target(<<>>) = value /\ walkPending[1] = value
    BY <1>2 DEF Target
  <2> QED
    BY <1>2, <2>1, <2>2, <2>3 DEF Traced
<1> QED
  BY <1>1, <1>2, <1>3, <1>5 DEF WalkInv, WalkDecided

LEMMA WalkTake ==
  ASSUME WalkInv, Walk!Take
  PROVE  WalkInv'
<1> DEFINE n == Len(walkPending)
<1>1. /\ verdict = "none" /\ current = Leaf /\ walkPending # <<>> /\ met = 0
      /\ UNCHANGED <<value, entries, reserved, met, count>>
      /\ verdict' = IF current' \in reserved THEN "refused" ELSE "none"
  BY DEF Walk!Take, Walk!graph, WalkInv
<1>2. WalkTyped /\ Walk!TypeOK /\ count \in Nat /\ count <= Maximum
  BY <1>1, WalkSizes DEF WalkInv, Walk!TypeOK
<1>3. walkPending \in Seq(Walk!Values) /\ n \in Nat /\ n > 0
  BY <1>1, <1>2, EmptySeq DEF Walk!TypeOK
<1>4. current' = walkPending[n] /\ current' \in Walk!Values
  BY <1>3 DEF Walk!Take, Walk!Last
<1>5. /\ walkPending' \in Seq(Walk!Values) /\ Len(walkPending') = n - 1
      /\ \A i \in 1..(n - 1) : walkPending'[i] = walkPending[i]
  <2>1. walkPending' = SubSeq(walkPending, 1, n - 1)
    BY DEF Walk!Take, Walk!Front
  <2>2. \A i \in 1..(n - 1) : walkPending[i] \in Walk!Values
    BY <1>3
  <2> HIDE DEF n
  <2> QED
    BY <1>3, <2>1, <2>2, SubSeqProperties
<1>6. PICK M, P, h : Traced(M, P, h)
  BY <1>1 DEF WalkInv
<1>7. DOMAIN P = 1..n /\ n \in DOMAIN P
  BY <1>3, <1>6 DEF Traced
<1>8. PICK here : here = P[n]
  OBVIOUS
<1>9. here \in M \cup {<<>>} /\ Target(here) = current'
  BY <1>4, <1>6, <1>7, <1>8 DEF Traced
<1>10. PICK Q : Q = [i \in 1..(n - 1) |-> P[i]]
  OBVIOUS
<1>11. WalkTyped' /\ Walk!TypeOK'
  <2>1. WalkTyped'
    BY <1>1, <1>2, SameGraph
  <2>2. Walk!TypeOK'
    BY <1>1, <1>2, <1>3, <1>4, <1>5 DEF Walk!TypeOK, Walk!Values
  <2> QED
    BY <2>1, <2>2
<1>12. current' # Leaf => met' <= Len(entries[current])'
  BY <1>1, <1>2, <1>4, EntriesOf DEF Walk!Values
<1>13. CASE current' \in reserved
  <2>1. verdict' = "refused"
    BY <1>1, <1>13
  <2>2. Walk!MeetsReserved
    <3>1. M \subseteq Walk!Unfolded
      BY <1>2, <1>6, MetIsUnfolded
    <3> QED
      BY <3>1, <1>9, <1>13 DEF Walk!MeetsReserved, Target, Walk!Last
  <2>3. WalkDecided'
    BY <1>1, <2>1, <2>2, SameGraph DEF WalkDecided
  <2> QED
    BY <1>1, <1>11, <1>12, <2>1, <2>3 DEF WalkInv
<1>14. CASE current' \notin reserved
  <2>1. verdict' = "none"
    BY <1>1, <1>14
  <2>2. /\ \A q : Target(q)' = Target(q)
        /\ \A q, j : Entry(q, j)' = Entry(q, j)
        /\ \A q : Walk!IsPath(q)' <=> Walk!IsPath(q)
    BY <1>1, SameGraph
  <2>3. /\ DOMAIN Q = 1..(n - 1) /\ n - 1 = Len(walkPending')
        /\ \A i \in DOMAIN Q : i \in DOMAIN P /\ i # n /\ Q[i] = P[i]
    BY <1>3, <1>5, <1>7, <1>10
  <2>4. \A i \in DOMAIN P : i \in DOMAIN Q \/ i = n
    BY <1>3, <1>7, <2>3
  <2>5. \A i \in DOMAIN Q : Q[i] # here
    BY <1>6, <1>7, <1>8, <2>3 DEF Traced
  <2>6. current' # Leaf => \A j \in 1..Len(entries[current])' : Entry(here, j)' \in M <=> j <= met'
    <3>1. ASSUME NEW j \in 1..Len(entries[current])', current' # Leaf
          PROVE  Entry(here, j)' \notin M /\ ~(j <= met')
      <4>1. current' \in Containers
        BY <1>4, <3>1 DEF Walk!Values
      <4>2. Len(entries[current']) \in Nat /\ Len(entries[current']) <= Width
        BY <1>2, <4>1, EntriesOf
      <4>3. j \in 1..Width
        BY <1>1, <4>2, WalkSizes
      <4>4. <<current', j>> \in Walk!Positions
        BY <4>1, <4>3 DEF Walk!Positions
      <4>5. Entry(here, j) = Append(P[n], <<current', j>>)
        BY <1>8, <1>9 DEF Entry
      <4>6. Entry(here, j) \notin M
        BY <1>6, <1>7, <4>4, <4>5 DEF Traced
      <4> QED
        BY <1>1, <2>2, <4>3, <4>6
    <3> QED
      BY <3>1
  <2> HIDE DEF n
  <2>7. /\ M \subseteq Routes \ {<<>>} /\ IsFiniteSet(M) /\ Cardinality(M) = count'
        /\ \A p \in M : Walk!IsPath(p)' /\ Len(p) <= count'
        /\ \A q \in Routes, x \in Walk!Positions : Append(q, x) \in M => q \in M \cup {<<>>}
    BY <1>1, <1>6, <2>2 DEF Traced
  <2>8. /\ Q \in [1..Len(walkPending') -> M \cup {<<>>}]
        /\ \A i \in DOMAIN Q : \A j \in DOMAIN Q : Q[i] = Q[j] => i = j
        /\ \A i \in DOMAIN Q : \A x \in Walk!Positions : Append(Q[i], x) \notin M
    BY <1>6, <1>10, <2>3 DEF Traced
  <2>9. \A i \in DOMAIN Q : Target(Q[i])' = walkPending'[i]
    BY <1>5, <1>6, <2>2, <2>3 DEF Traced
  <2>10. \A q \in M \cup {<<>>} : Target(q)' # Leaf =>
           \/ \E i \in DOMAIN Q : Q[i] = q
           \/ current' # Leaf /\ q = here
           \/ \A j \in 1..Len(entries[Target(q)])' : Entry(q, j)' \in M
    <3>1. ASSUME NEW q \in M \cup {<<>>}, Target(q) # Leaf
          PROVE  \/ \E i \in DOMAIN P : P[i] = q
                 \/ \A j \in 1..Len(entries[Target(q)]) : Entry(q, j) \in M
      BY <1>1, <1>6, <3>1 DEF Traced
    <3> QED
      BY <3>1, <1>1, <1>8, <1>9, <2>2, <2>3, <2>4
  <2>11. \A q \in M \cup {<<>>} : Target(q)' \in reserved' => \E i \in DOMAIN Q : Q[i] = q
    <3>1. ASSUME NEW q \in M \cup {<<>>}, Target(q) \in reserved
          PROVE  \E i \in DOMAIN P : P[i] = q
      BY <1>6, <3>1 DEF Traced
    <3> QED
      BY <3>1, <1>1, <1>8, <1>9, <1>14, <2>2, <2>3, <2>4
  <2>12. Walk!Positions' = Walk!Positions /\ Routes' = Routes
    BY DEF Walk!Positions, Routes
  <2>13. Traced(M, Q, here)'
    BY <1>9, <2>2, <2>5, <2>6, <2>7, <2>8, <2>9, <2>10, <2>11, <2>12 DEF Traced
  <2> QED
    BY <1>1, <1>11, <1>12, <2>1, <2>13 DEF WalkInv, WalkDecided
<1> QED
  BY <1>13, <1>14

LEMMA WalkMeet ==
  ASSUME WalkInv, Walk!Meet
  PROVE  WalkInv'
<1> DEFINE n == Len(walkPending)
           child == entries[current][met + 1]
<1>1. /\ verdict = "none" /\ current # Leaf /\ met < Len(entries[current])
      /\ UNCHANGED <<value, entries, reserved, current>>
      /\ met' = met + 1 /\ count' = count + 1
      /\ IF Walk!TooMany(count') THEN verdict' = "refused" /\ UNCHANGED walkPending
         ELSE /\ walkPending' = IF child = Leaf THEN walkPending ELSE Append(walkPending, child)
              /\ UNCHANGED verdict
  BY DEF Walk!Meet, Walk!graph
<1>2. /\ WalkTyped /\ Walk!TypeOK /\ count \in Nat /\ count <= Maximum
      /\ current \in Containers /\ met \in Nat
  BY <1>1, WalkSizes DEF WalkInv, Walk!TypeOK, Walk!Values
<1>3. /\ walkPending \in Seq(Walk!Values) /\ n \in Nat /\ n <= count + 1
  BY <1>1, <1>2, EmptySeq DEF Walk!TypeOK
<1>4. PICK M, P, here : Traced(M, P, here)
  BY <1>1 DEF WalkInv
<1>5. PICK r : r = Entry(here, met + 1)
  OBVIOUS
<1>6. /\ here \in Routes /\ <<current, met + 1>> \in Walk!Positions
      /\ r = Append(here, <<current, met + 1>>)
      /\ r \in Routes \ {<<>>} /\ Walk!IsPath(r) /\ Len(r) <= count + 1
      /\ r \notin M /\ Target(r) = child
      /\ child \in Walk!Values
      /\ IsFiniteSet(M \cup {r}) /\ Cardinality(M \cup {r}) = count + 1
  <2>1. current # Leaf /\ met < Len(entries[current])
    BY <1>1
  <2> HIDE DEF child
  <2>2. child = entries[current][met + 1]
    BY DEF child
  <2> QED
    BY <2>1, <2>2, <1>2, <1>4, <1>5, NextEntry
<1>7. PICK N : N = M \cup {r}
  OBVIOUS
<1>8. WalkTyped' /\ (current' = Leaf => met' = 0) /\ (current' # Leaf => met' <= Len(entries[current])')
  <2>1. Len(entries[current]) \in Nat
    BY <1>2, EntriesOf
  <2> QED
    BY <1>1, <1>2, <2>1, SameGraph
<1> HIDE DEF child, n
<1>9. CASE count + 1 > Maximum
  <2>1. verdict' = "refused" /\ walkPending' = walkPending
    BY <1>1, <1>9 DEF Walk!TooMany
  <2>2. Walk!TypeOK'
    BY <1>1, <1>2, <1>3, <1>9, <2>1, WalkSizes DEF Walk!TypeOK, Walk!Values, n
  <2>3. M \cup {r} \subseteq Walk!Unfolded
    <3>1. M \subseteq Walk!Unfolded
      BY <1>2, <1>4, MetIsUnfolded
    <3>2. r \in Seq(Walk!Positions) /\ r # <<>>
      BY <1>6 DEF Routes
    <3>3. Len(r) \in Nat \ {0}
      BY <3>2, EmptySeq
    <3>4. Len(r) \in 1..(Maximum + 1)
      BY <3>3, <1>2, <1>6, WalkSizes
    <3>5. r \in Walk!Unfolded
      BY <3>4, <1>6, UnfoldedIs
    <3> QED
      BY <3>1, <3>5
  <2>4. Cardinality(M \cup {r}) <= Cardinality(Walk!Unfolded) /\ Cardinality(Walk!Unfolded) \in Nat
    BY <2>3, UnfoldedIsFinite, FS_Subset, FS_CardinalityType
  <2>5. ~(Walk!Cardinality(Walk!Unfolded) <= Maximum)
    BY <2>4, <1>2, <1>6, <1>9, WalkSizes, SameCount
  <2>6. WalkDecided'
    BY <1>1, <2>1, <2>5, SameGraph, SameCount DEF WalkDecided
  <2> QED
    BY <1>8, <2>1, <2>2, <2>6 DEF WalkInv
<1>10. CASE ~(count + 1 > Maximum)
  <2>1. verdict' = "none" /\ walkPending' = IF child = Leaf THEN walkPending ELSE Append(walkPending, child)
    BY <1>1, <1>10 DEF Walk!TooMany
  <2>2. PICK Q : Q = IF child = Leaf THEN P ELSE [i \in 1..(n + 1) |-> IF i = n + 1 THEN r ELSE P[i]]
    OBVIOUS
  <2>3. /\ walkPending' \in Seq(Walk!Values)
        /\ child = Leaf => Len(walkPending') = n
        /\ child # Leaf =>
             /\ Len(walkPending') = n + 1 /\ walkPending'[n + 1] = child
             /\ \A i \in 1..n : walkPending'[i] = walkPending[i]
    BY <1>3, <1>6, <2>1, AppendProperties DEF n
  <2>4. Walk!TypeOK'
    BY <1>1, <1>2, <1>3, <1>10, <2>1, <2>3, WalkSizes DEF Walk!TypeOK, Walk!Values
  <2>5. /\ \A q : Target(q)' = Target(q)
        /\ \A q, j : Entry(q, j)' = Entry(q, j)
        /\ \A q : Walk!IsPath(q)' <=> Walk!IsPath(q)
    BY <1>1, SameGraph
  <2>6. Walk!Positions' = Walk!Positions /\ Routes' = Routes
    BY DEF Walk!Positions, Routes
  <2>7. DOMAIN P = 1..n
    BY <1>4 DEF Traced, n
  <2>8. /\ DOMAIN Q = 1..Len(walkPending')
        /\ \A i \in DOMAIN P : i \in DOMAIN Q /\ Q[i] = P[i] /\ walkPending'[i] = walkPending[i]
        /\ \A i \in DOMAIN Q :
             i \in DOMAIN P \/ (i = n + 1 /\ child # Leaf /\ Q[i] = r /\ walkPending'[i] = child)
        /\ child # Leaf => n + 1 \in DOMAIN Q /\ Q[n + 1] = r
        /\ n + 1 \notin DOMAIN P
    <3>1. CASE child = Leaf
      <4>1. walkPending' = walkPending /\ Q = P /\ Len(walkPending') = n
        BY <3>1, <2>1, <2>2, <2>3
      <4>2. n + 1 \notin 1..n
        BY <1>3
      <4> QED
        BY <3>1, <4>1, <4>2, <2>7
    <3>2. CASE child # Leaf
      <4>1. Q = [i \in 1..(n + 1) |-> IF i = n + 1 THEN r ELSE P[i]]
        BY <3>2, <2>2
      <4>2. n \in Nat
        BY <1>3
      <4>3. n + 1 \notin 1..n /\ 1..(n + 1) = (1..n) \cup {n + 1}
        BY <4>2
      <4>4. DOMAIN Q = 1..(n + 1) /\ Q[n + 1] = r /\ \A i \in 1..n : Q[i] = P[i]
        BY <4>1, <4>3
      <4>5. /\ Len(walkPending') = n + 1 /\ walkPending'[n + 1] = child
            /\ \A i \in 1..n : walkPending'[i] = walkPending[i]
        BY <3>2, <2>3
      <4> QED
        BY <3>2, <4>3, <4>4, <4>5, <2>7
    <3> QED
      BY <3>1, <3>2
  <2>9. M \subseteq Routes \ {<<>>} /\ \A i \in DOMAIN P : P[i] \in M \cup {<<>>}
    BY <1>4, <2>7 DEF Traced, n
  <2>10. \A i \in DOMAIN P : P[i] # here /\ P[i] # r /\ P[i] \in Routes
    <3>1. <<>> \in Routes
      BY EmptySeq DEF Routes
    <3>2. \A i \in DOMAIN P : P[i] # here
      BY <1>1, <1>4 DEF Traced
    <3> QED
      BY <1>6, <2>9, <3>1, <3>2
  <2>11. here \in M \cup {<<>>} /\ Target(here) = current
    BY <1>1, <1>4 DEF Traced
  <2>12. ASSUME NEW q \in Routes, NEW x \in Walk!Positions, Append(q, x) = r
         PROVE  q = here /\ x = <<current, met + 1>>
    BY <2>12, <1>6, OnlyOneEnd
  <2>13. \A q \in Routes, x \in Walk!Positions : Append(q, x) \in N => q \in N \cup {<<>>}
    BY <1>4, <1>7, <2>11, <2>12 DEF Traced
  <2>14. /\ N \subseteq Routes \ {<<>>} /\ IsFiniteSet(N) /\ Cardinality(N) = count'
    BY <1>1, <1>6, <1>7, <2>9
  <2>15. \A p \in N : Walk!IsPath(p)' /\ Len(p) <= count'
    <3>1. ASSUME NEW p \in M PROVE Walk!IsPath(p) /\ Len(p) <= count /\ Len(p) \in Nat
      BY <1>4, <2>9, LenProperties DEF Traced, Routes
    <3>2. \A p \in M : Len(p) <= count + 1
      BY <3>1, <1>2
    <3> QED
      BY <3>1, <3>2, <1>1, <1>6, <1>7, <2>5
  <2>16. Q \in [1..Len(walkPending') -> N \cup {<<>>}]
    <3>1. \A i \in DOMAIN Q : Q[i] \in N \cup {<<>>}
      BY <1>7, <2>8, <2>9
    <3>2. CASE child = Leaf
      BY <3>1, <3>2, <1>4, <2>2, <2>8 DEF Traced
    <3>3. CASE child # Leaf
      BY <3>1, <3>3, <2>2, <2>8
    <3> QED
      BY <3>2, <3>3
  <2>17. \A i \in DOMAIN Q : \A j \in DOMAIN Q : Q[i] = Q[j] => i = j
    BY <1>4, <2>8, <2>10 DEF Traced
  <2>18. \A i \in DOMAIN Q : Target(Q[i])' = walkPending'[i]
    BY <1>4, <1>6, <2>5, <2>8 DEF Traced
  <2>19. \A i \in DOMAIN Q : \A x \in Walk!Positions : Append(Q[i], x) \notin N
    <3>1. ASSUME NEW i \in DOMAIN P, NEW x \in Walk!Positions PROVE Append(P[i], x) \notin N
      BY <1>4, <1>7, <2>10, <2>12 DEF Traced
    <3>2. ASSUME NEW x \in Walk!Positions PROVE Append(r, x) \notin N
      <4>1. Append(r, x) \notin M
        BY <1>4, <1>6 DEF Traced
      <4>2. Len(Append(r, x)) = Len(r) + 1 /\ Len(r) \in Nat
        BY <1>6, PathGrows
      <4>3. Append(r, x) # r
        BY <4>2
      <4> QED
        BY <4>1, <4>3, <1>7
    <3> QED
      BY <3>1, <3>2, <2>8
  <2>20. \A i \in DOMAIN Q : Q[i] # here
    <3>1. r # here
      <4>1. PICK y \in Walk!Positions : y = <<current, met + 1>>
        BY <1>6
      <4>2. Len(Append(here, y)) = Len(here) + 1 /\ Len(here) \in Nat
        BY <1>6, PathGrows
      <4> QED
        BY <4>1, <4>2, <1>6
    <3> QED
      BY <3>1, <2>8, <2>10
  <2>21. \A j \in 1..Len(entries[current])' : Entry(here, j)' \in N <=> j <= met'
    <3>1. ASSUME NEW j \in 1..Len(entries[current]) PROVE Entry(here, j) \in N <=> j <= met + 1
      <4>1. Entry(here, j) \in M <=> j <= met
        BY <1>1, <1>4 DEF Traced
      <4>2. Len(entries[current]) \in Nat /\ Len(entries[current]) <= Width
        BY <1>2, EntriesOf
      <4>3. j \in 1..Width
        BY <4>2, WalkSizes
      <4>4. <<current, j>> \in Walk!Positions
        BY <4>3, <1>2 DEF Walk!Positions
      <4>5. Entry(here, j) = Append(here, <<current, j>>)
        BY <2>11 DEF Entry
      <4>6. Entry(here, j) = r <=> j = met + 1
        BY <4>4, <4>5, <1>6, <2>12
      <4> QED
        BY <4>1, <4>3, <4>6, <1>2, <1>7
    <3> QED
      BY <3>1, <1>1, <2>5
  <2>22. \A q \in N \cup {<<>>} : Target(q)' # Leaf =>
           \/ \E i \in DOMAIN Q : Q[i] = q
           \/ current' # Leaf /\ q = here
           \/ \A j \in 1..Len(entries[Target(q)])' : Entry(q, j)' \in N
    <3>1. ASSUME NEW q \in M \cup {<<>>}, Target(q) # Leaf
          PROVE  \/ \E i \in DOMAIN P : P[i] = q
                 \/ q = here
                 \/ \A j \in 1..Len(entries[Target(q)]) : Entry(q, j) \in M
      BY <1>4, <3>1 DEF Traced
    <3>2. Target(r) # Leaf => \E i \in DOMAIN Q : Q[i] = r
      BY <1>6, <2>8
    <3> QED
      BY <3>1, <3>2, <1>1, <1>7, <2>5, <2>8
  <2>23. \A q \in N \cup {<<>>} : Target(q)' \in reserved' => \E i \in DOMAIN Q : Q[i] = q
    <3>1. ASSUME NEW q \in M \cup {<<>>}, Target(q) \in reserved
          PROVE  \E i \in DOMAIN P : P[i] = q
      BY <1>4, <3>1 DEF Traced
    <3>2. Target(r) \in reserved => \E i \in DOMAIN Q : Q[i] = r
      BY <1>2, <1>6, <2>8, WalkSizes DEF WalkTyped
    <3> QED
      BY <3>1, <3>2, <1>1, <1>7, <2>5, <2>8
  <2>24. here \in N \cup {<<>>} /\ Target(here)' = current'
    BY <1>1, <1>7, <2>5, <2>11
  <2>25. Traced(N, Q, here)'
    BY <2>6, <2>13, <2>14, <2>15, <2>16, <2>17, <2>18, <2>19, <2>20, <2>21, <2>22, <2>23, <2>24 DEF Traced
  <2> QED
    BY <1>8, <2>1, <2>4, <2>25 DEF WalkInv, WalkDecided
<1> QED
  BY <1>9, <1>10, <1>2, WalkSizes

LEMMA WalkNext ==
  ASSUME WalkInv, [Walk!Next]_walkVars
  PROVE  WalkInv'
<1>1. CASE Walk!Leave
  <2>1. /\ verdict = "none" /\ current # Leaf /\ met = Len(entries[current])
        /\ current' = Leaf /\ met' = 0
        /\ UNCHANGED <<value, entries, reserved, walkPending, count, verdict>>
    BY <1>1 DEF Walk!Leave, Walk!graph
  <2>2. WalkTyped' /\ Walk!TypeOK' /\ WalkDecided'
    BY <2>1, SameGraph, SameDecision DEF WalkInv, Walk!TypeOK, Walk!Values
  <2>3. PICK M, P, here : Traced(M, P, here)
    BY <2>1 DEF WalkInv
  <2>4. /\ \A q : Target(q)' = Target(q)
        /\ \A q, j : Entry(q, j)' = Entry(q, j)
        /\ \A q : Walk!IsPath(q)' <=> Walk!IsPath(q)
    BY <2>1, SameGraph
  <2>5. Walk!Positions' = Walk!Positions /\ Routes' = Routes
    BY DEF Walk!Positions, Routes
  <2>6. /\ Target(here) = current
        /\ \A j \in 1..Len(entries[current]) : Entry(here, j) \in M
    BY <2>1, <2>3 DEF Traced
  <2>7. \A q \in M \cup {<<>>} : Target(q) # Leaf =>
          \/ \E i \in DOMAIN P : P[i] = q
          \/ \A j \in 1..Len(entries[Target(q)]) : Entry(q, j) \in M
    BY <2>1, <2>3, <2>6 DEF Traced
  <2>8. /\ M \subseteq Routes \ {<<>>} /\ IsFiniteSet(M) /\ Cardinality(M) = count
        /\ \A p \in M : Walk!IsPath(p) /\ Len(p) <= count
        /\ \A q \in Routes, x \in Walk!Positions : Append(q, x) \in M => q \in M \cup {<<>>}
        /\ P \in [1..Len(walkPending) -> M \cup {<<>>}]
        /\ \A i \in DOMAIN P : \A j \in DOMAIN P : P[i] = P[j] => i = j
        /\ \A i \in DOMAIN P : Target(P[i]) = walkPending[i]
        /\ \A i \in DOMAIN P : \A x \in Walk!Positions : Append(P[i], x) \notin M
        /\ \A q \in M \cup {<<>>} : Target(q) \in reserved => \E i \in DOMAIN P : P[i] = q
    BY <2>3 DEF Traced
  <2>9. Traced(M, P, here)'
    BY <2>1, <2>4, <2>5, <2>7, <2>8 DEF Traced
  <2> QED
    BY <2>1, <2>2, <2>9 DEF WalkInv
<1>2. CASE Walk!Finish
  <2>1. /\ verdict = "none" /\ current = Leaf /\ walkPending = <<>> /\ verdict' = "within"
        /\ UNCHANGED <<value, entries, reserved, walkPending, current, met, count>>
    BY <1>2 DEF Walk!Finish, Walk!graph
  <2>2. WalkTyped /\ Walk!TypeOK /\ count \in Nat /\ count <= Maximum
    BY <2>1, WalkSizes DEF WalkInv, Walk!TypeOK
  <2>3. PICK M, P, here : Traced(M, P, here)
    BY <2>1 DEF WalkInv
  <2>4. Walk!Unfolded = M /\ ~Walk!MeetsReserved
    BY <2>1, <2>2, <2>3, AllWasMet
  <2>5. Cardinality(M) = count
    BY <2>3 DEF Traced
  <2>6. WalkDecided'
    BY <2>1, <2>2, <2>4, <2>5, SameGraph, SameCount DEF WalkDecided
  <2>7. WalkTyped' /\ Walk!TypeOK'
    BY <2>1, <2>2, SameGraph, WalkSizes DEF Walk!TypeOK, Walk!Values
  <2> QED
    BY <2>1, <2>6, <2>7 DEF WalkInv
<1>3. CASE UNCHANGED walkVars
  <2>1. UNCHANGED <<value, entries, reserved, walkPending, current, met, count, verdict>>
    BY <1>3 DEF walkVars
  <2>2. WalkTyped' /\ Walk!TypeOK' /\ WalkDecided'
    BY <2>1, SameGraph, SameDecision DEF WalkInv, Walk!TypeOK, Walk!Values
  <2>3. ASSUME verdict = "none" PROVE \E M, P, here : Traced(M, P, here)'
    <3>1. PICK M, P, here : Traced(M, P, here)
      BY <2>3 DEF WalkInv
    <3>2. Traced(M, P, here)'
      <4>1. /\ \A q : Target(q)' = Target(q)
            /\ \A q, j : Entry(q, j)' = Entry(q, j)
            /\ \A q : Walk!IsPath(q)' <=> Walk!IsPath(q)
        BY <2>1, SameGraph
      <4>2. Walk!Positions' = Walk!Positions /\ Routes' = Routes
        BY DEF Walk!Positions, Routes
      <4> QED
        BY <2>1, <3>1, <4>1, <4>2 DEF Traced
    <3> QED
      BY <3>2
  <2> QED
    BY <2>1, <2>2, <2>3 DEF WalkInv
<1> QED
  BY <1>1, <1>2, <1>3, WalkTake, WalkMeet DEF Walk!Next

\* Whatever is shared or cyclic, and for any limit, the walk accepts exactly the values
\* that unfold to no more entries than that, none of them with a reserved key, and keeps
\* no more than the limit until it knows (input.ts:6-37).
THEOREM WalkIsExact == PartsSpec => []WalkDecides
<1>1. PartsInit => WalkInv
  BY WalkInit DEF PartsInit
<1>2. WalkInv /\ [PartsNext]_vars => WalkInv'
  BY StepsOfParts, WalkNext
<1>3. WalkInv => WalkDecides
  BY DEF WalkInv, WalkDecided, WalkDecides, Walk!WalkDecides
<1> QED
  BY <1>1, <1>2, <1>3, Unfair, PTL
=============================================================================
