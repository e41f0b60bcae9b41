---------------------------- MODULE AuditProofs -----------------------------
(***************************************************************************)
(* Theorems about the audit dispatcher for any records, any scope, any     *)
(* number of close() calls and any capacity.                               *)
(***************************************************************************)
EXTENDS AuditDispatcher, FiniteSetTheorems, TLAPS

USE DispatcherAssumption

SlotsInv ==
  /\ pending = {w \in Writes : sink[w] \in {"queued", "called"}}
  /\ IsFiniteSet(pending)
  /\ Cardinality(pending) <= Capacity

\* How far a delivery can be from its sink call.
DeliveryInv ==
  \A w \in Writes :
    /\ delivery[w] \in {"unsent", "dropped"} <=> sink[w] = "none"
    /\ delivery[w] = "racing" => sink[w] \in {"queued", "called"}
    /\ delivery[w] \in {"winning", "acked"} => sink[w] = "resolved"
    /\ delivery[w] \in {"losing", "failed"} => sink[w] # "queued"

DroppedWrites == {w \in Writes : delivery[w] = "dropped"}
FailedWrites == {w \in Writes : delivery[w] = "failed"}
HookFailures == IF hook = "failed" THEN 1 ELSE 0

LossesInv ==
  /\ IsFiniteSet(DroppedWrites) /\ Cardinality(DroppedWrites) = dropped
  /\ IsFiniteSet(FailedWrites) /\ Cardinality(FailedWrites) + HookFailures = failures

\* A snapshot never meets a write that starts after it was taken.
CloserInv ==
  \A k \in Closers :
    /\ \A w \in snapshot[k] : delivery[w] # "unsent"
    /\ closer[k] \notin {"idle", "draining"} /\ remaining[k] = 0 => Drained(k)

IInv == TypeOK /\ SlotsInv /\ DeliveryInv /\ LossesInv /\ CloserInv
-----------------------------------------------------------------------------
LEMMA InitIInv == Init => IInv
<1> SUFFICES ASSUME Init PROVE IInv
  OBVIOUS
<1>1. pending = {} /\ DroppedWrites = {} /\ FailedWrites = {}
  BY DEF Init, DroppedWrites, FailedWrites
<1> QED
  BY <1>1, FS_EmptySet
     DEF Init, IInv, TypeOK, Racing, SlotsInv, DeliveryInv, LossesInv, HookFailures, CloserInv, Drained

LEMMA TypeOKPreserves == IInv /\ [Next]_auditVars => TypeOK'
<1> SUFFICES ASSUME IInv, [Next]_auditVars PROVE TypeOK'
  OBVIOUS
<1> USE DEF IInv, TypeOK, Racing, writeVars, closeVars, scopeVars
<1>1. ASSUME NEW w \in Writes, Drop(w) \/ Accept(w) \/ CallSink(w) \/ Expire(w) \/ Confirm(w) \/ Fail(w)
      PROVE  TypeOK'
  BY <1>1 DEF Drop, Accept, CallSink, Expire, Confirm, Fail
<1>2. ASSUME NEW w \in Writes, NEW result \in {"resolved", "rejected"}, SinkSettles(w, result)
      PROVE  TypeOK'
  BY <1>2 DEF SinkSettles
<1>3. CASE Settle \/ SettleResumes
  BY <1>3 DEF Settle, SettleResumes, Loop, ScopeWrites, InFlight
<1>4. ASSUME NEW k \in Closers, BeginClose(k) \/ CloseReturns(k) PROVE TypeOK'
  BY <1>4 DEF BeginClose, CloseReturns
<1>5. ASSUME NEW k \in Closers, DrainEnds(k) PROVE TypeOK'
  <2>1. Cardinality(pending) \in Nat
    BY FS_CardinalityType DEF SlotsInv
  <2> QED
    BY <1>5, <2>1 DEF DrainEnds
<1>6. CASE HookResolves \/ HookFails
  BY <1>6 DEF HookResolves, HookFails
<1>7. CASE UNCHANGED auditVars
  BY <1>7 DEF auditVars
<1> QED
  BY <1>1, <1>2, <1>3, <1>4, <1>5, <1>6, <1>7
     DEF Next, DrainSettles, DrainExpires, Quiescent

LEMMA SlotsPreserved == IInv /\ [Next]_auditVars => SlotsInv'
<1> SUFFICES ASSUME IInv, [Next]_auditVars PROVE SlotsInv'
  OBVIOUS
<1> USE DEF IInv, TypeOK, SlotsInv, writeVars
<1>1. ASSUME NEW w \in Writes, Accept(w) PROVE SlotsInv'
  <2>1. w \notin pending
    BY <1>1 DEF Accept, DeliveryInv
  <2>2. IsFiniteSet(pending \cup {w}) /\ Cardinality(pending \cup {w}) = Cardinality(pending) + 1
    BY <2>1, FS_AddElement
  <2>3. Cardinality(pending) \in Nat
    BY FS_CardinalityType
  <2>4. pending' = {v \in Writes : sink'[v] \in {"queued", "called"}}
    BY <1>1 DEF Accept
  <2> QED
    BY <1>1, <2>2, <2>3, <2>4 DEF Accept, CanAccept
<1>2. ASSUME NEW w \in Writes, NEW result \in {"resolved", "rejected"}, SinkSettles(w, result)
      PROVE  SlotsInv'
  <2>1. IsFiniteSet(pending \ {w}) /\ Cardinality(pending \ {w}) <= Cardinality(pending)
    BY FS_Subset
  <2>2. Cardinality(pending) \in Nat /\ Cardinality(pending \ {w}) \in Nat
    BY <2>1, FS_CardinalityType
  <2>3. pending' = {v \in Writes : sink'[v] \in {"queued", "called"}}
    BY <1>2 DEF SinkSettles
  <2> QED
    BY <1>2, <2>1, <2>2, <2>3 DEF SinkSettles
<1>3. ASSUME NEW w \in Writes, CallSink(w) PROVE SlotsInv'
  BY <1>3 DEF CallSink
<1>4. CASE UNCHANGED <<sink, pending>>
  BY <1>4
<1> QED
  BY <1>1, <1>2, <1>3, <1>4
     DEF Next, auditVars, Drop, Expire, Confirm, Fail, Settle, SettleResumes, Loop, BeginClose,
         DrainSettles, DrainExpires, DrainEnds, CloseReturns, HookResolves, HookFails, Quiescent

LEMMA DeliveryPreserved == IInv /\ [Next]_auditVars => DeliveryInv'
<1> SUFFICES ASSUME IInv, [Next]_auditVars PROVE DeliveryInv'
  OBVIOUS
<1> USE DEF IInv, TypeOK, DeliveryInv, Racing, writeVars
<1>1. ASSUME NEW w \in Writes, Drop(w) \/ Accept(w) \/ CallSink(w) PROVE DeliveryInv'
  BY <1>1 DEF Drop, Accept, CallSink
<1>2. ASSUME NEW w \in Writes, Expire(w) \/ Confirm(w) \/ Fail(w) PROVE DeliveryInv'
  BY <1>2 DEF Expire, Confirm, Fail
<1>3. ASSUME NEW w \in Writes, NEW result \in {"resolved", "rejected"}, SinkSettles(w, result)
      PROVE  DeliveryInv'
  BY <1>3 DEF SinkSettles
<1>4. CASE UNCHANGED <<delivery, sink>>
  BY <1>4
<1> QED
  BY <1>1, <1>2, <1>3, <1>4
     DEF Next, auditVars, Settle, SettleResumes, Loop, BeginClose, DrainSettles, DrainExpires,
         DrainEnds, CloseReturns, HookResolves, HookFails, Quiescent

LEMMA LossesPreserved == IInv /\ [Next]_auditVars => LossesInv'
<1> SUFFICES ASSUME IInv, [Next]_auditVars PROVE LossesInv'
  OBVIOUS
<1> USE DEF IInv, TypeOK, Racing, writeVars, closeVars
<1>0. Cardinality(DroppedWrites) \in Nat /\ Cardinality(FailedWrites) \in Nat
  BY FS_CardinalityType DEF LossesInv
<1>1. ASSUME NEW w \in Writes, Drop(w) PROVE LossesInv'
  <2>1. w \notin DroppedWrites /\ DroppedWrites' = DroppedWrites \cup {w}
        /\ FailedWrites' = FailedWrites /\ HookFailures' = HookFailures
    BY <1>1 DEF Drop, DroppedWrites, FailedWrites, HookFailures
  <2>2. /\ IsFiniteSet(DroppedWrites \cup {w})
        /\ Cardinality(DroppedWrites \cup {w}) = Cardinality(DroppedWrites) + 1
    BY <2>1, FS_AddElement DEF LossesInv
  <2> QED
    BY <1>1, <2>1, <2>2 DEF LossesInv, Drop
<1>2. ASSUME NEW w \in Writes, Fail(w) PROVE LossesInv'
  <2>1. w \notin FailedWrites /\ FailedWrites' = FailedWrites \cup {w}
        /\ DroppedWrites' = DroppedWrites /\ HookFailures' = HookFailures
    BY <1>2 DEF Fail, DroppedWrites, FailedWrites, HookFailures
  <2>2. /\ IsFiniteSet(FailedWrites \cup {w})
        /\ Cardinality(FailedWrites \cup {w}) = Cardinality(FailedWrites) + 1
    BY <2>1, FS_AddElement DEF LossesInv
  <2>3. HookFailures \in Nat
    BY DEF HookFailures
  <2> QED
    BY <1>0, <1>2, <2>1, <2>2, <2>3 DEF LossesInv, Fail
<1>3. CASE HookFails
  <2>1. FailedWrites' = FailedWrites /\ DroppedWrites' = DroppedWrites
        /\ HookFailures = 0 /\ HookFailures' = 1
    BY <1>3 DEF HookFails, DroppedWrites, FailedWrites, HookFailures
  <2> QED
    BY <1>0, <1>3, <2>1 DEF LossesInv, HookFails
<1>4. ASSUME DroppedWrites' = DroppedWrites, FailedWrites' = FailedWrites,
             HookFailures' = HookFailures, UNCHANGED <<dropped, failures>>
      PROVE  LossesInv'
  BY <1>4 DEF LossesInv
<1>5. ASSUME NEW w \in Writes, Accept(w) \/ CallSink(w) \/ Expire(w) \/ Confirm(w) PROVE LossesInv'
  BY <1>4, <1>5 DEF Accept, CallSink, Expire, Confirm, DroppedWrites, FailedWrites, HookFailures
<1>6. ASSUME NEW w \in Writes, NEW result \in {"resolved", "rejected"}, SinkSettles(w, result)
      PROVE  LossesInv'
  BY <1>4, <1>6 DEF SinkSettles, DroppedWrites, FailedWrites, HookFailures
<1>7. ASSUME UNCHANGED <<delivery, dropped, failures>>, HookFailures' = HookFailures
      PROVE  LossesInv'
  BY <1>4, <1>7 DEF DroppedWrites, FailedWrites
<1>8. CASE Settle \/ SettleResumes \/ UNCHANGED auditVars
  BY <1>7, <1>8 DEF Settle, SettleResumes, Loop, auditVars, HookFailures
<1>9. ASSUME NEW k \in Closers, BeginClose(k) \/ DrainEnds(k) \/ CloseReturns(k) PROVE LossesInv'
  BY <1>7, <1>9 DEF BeginClose, DrainEnds, CloseReturns, HookFailures
<1>10. CASE HookResolves
  BY <1>7, <1>10 DEF HookResolves, HookFailures
<1> QED
  BY <1>1, <1>2, <1>3, <1>5, <1>6, <1>8, <1>9, <1>10 DEF Next, DrainSettles, DrainExpires, Quiescent

LEMMA CloserPreserved == IInv /\ [Next]_auditVars => CloserInv'
<1> SUFFICES ASSUME IInv, [Next]_auditVars, NEW k \in Closers
             PROVE  /\ \A w \in snapshot'[k] : delivery'[w] # "unsent"
                    /\ closer'[k] \notin {"idle", "draining"} /\ remaining'[k] = 0
                         => snapshot'[k] \cap pending' = {}
  BY DEF CloserInv, Drained
<1> USE DEF IInv, TypeOK, CloserInv, Drained, Racing, writeVars, closeVars
<1>1. ASSUME NEW w \in Writes, Accept(w) \/ Drop(w) \/ CallSink(w) \/ Expire(w) \/ Confirm(w) \/ Fail(w)
      PROVE  /\ \A v \in snapshot'[k] : delivery'[v] # "unsent"
             /\ closer'[k] \notin {"idle", "draining"} /\ remaining'[k] = 0
                  => snapshot'[k] \cap pending' = {}
  BY <1>1 DEF Accept, Drop, CallSink, Expire, Confirm, Fail
<1>2. ASSUME NEW w \in Writes, NEW result \in {"resolved", "rejected"}, SinkSettles(w, result)
      PROVE  /\ \A v \in snapshot'[k] : delivery'[v] # "unsent"
             /\ closer'[k] \notin {"idle", "draining"} /\ remaining'[k] = 0
                  => snapshot'[k] \cap pending' = {}
  BY <1>2 DEF SinkSettles
<1>3. ASSUME NEW j \in Closers, BeginClose(j) \/ CloseReturns(j)
      PROVE  /\ \A v \in snapshot'[k] : delivery'[v] # "unsent"
             /\ closer'[k] \notin {"idle", "draining"} /\ remaining'[k] = 0
                  => snapshot'[k] \cap pending' = {}
  BY <1>3 DEF BeginClose, CloseReturns, SlotsInv, DeliveryInv
<1>4. ASSUME NEW j \in Closers, DrainEnds(j)
      PROVE  /\ \A v \in snapshot'[k] : delivery'[v] # "unsent"
             /\ closer'[k] \notin {"idle", "draining"} /\ remaining'[k] = 0
                  => snapshot'[k] \cap pending' = {}
  <2>1. Cardinality(pending) = 0 => pending = {}
    BY FS_EmptySet DEF SlotsInv
  <2> QED
    BY <1>4, <2>1 DEF DrainEnds
<1>5. CASE UNCHANGED <<delivery, pending, closer, remaining, snapshot>>
  BY <1>5
<1> QED
  BY <1>1, <1>2, <1>3, <1>4, <1>5
     DEF Next, auditVars, Settle, SettleResumes, Loop, DrainSettles, DrainExpires, HookResolves,
         HookFails, Quiescent

LEMMA NextPreserves == IInv /\ [Next]_auditVars => IInv'
  BY TypeOKPreserves, SlotsPreserved, DeliveryPreserved, LossesPreserved, CloserPreserved DEF IInv

THEOREM Invariance == Spec => []IInv
  BY InitIInv, NextPreserves, PTL DEF Spec
-----------------------------------------------------------------------------
\* Every variable has its type in every reachable state.
THEOREM TypeCorrect == Spec => []TypeOK
  BY Invariance, PTL DEF IInv

\* Exactly the unsettled sink calls hold slots, and never more than Capacity.
THEOREM SlotsAreHeldByLiveSinks == Spec => []SlotsHeldByLiveSinks
<1>1. IInv => SlotsHeldByLiveSinks
  BY DEF IInv, SlotsInv, SlotsHeldByLiveSinks
<1> QED
  BY <1>1, Invariance, PTL

\* The counters account for every record that was not acknowledged.
THEOREM EveryLossIsCounted == Spec => []LossesCounted
<1>1. IInv => LossesCounted
  BY DEF IInv, LossesInv, DroppedWrites, FailedWrites, HookFailures, LossesCounted
<1> QED
  BY <1>1, Invariance, PTL

\* A close() that counted nothing left none of the writes it found pending.
THEOREM ZeroRemainingIsDrained == Spec => []ZeroRemainingMeansDrained
<1>1. IInv => ZeroRemainingMeansDrained
  BY DEF IInv, CloserInv, ZeroRemainingMeansDrained
<1> QED
  BY <1>1, Invariance, PTL

\* settle() returns only when nothing of the scope is in flight.
THEOREM SettleWaitsForAll == Spec => SettleIsComplete
<1>1. [Next]_auditVars =>
        [settling # "done" /\ settling' = "done" => ScopeWrites' = {}]_auditVars
  <2> SUFFICES ASSUME Next, settling # "done", settling' = "done"
               PROVE  ScopeWrites' = {}
    OBVIOUS
  <2>1. Loop
    BY DEF Next, Drop, Accept, CallSink, SinkSettles, Expire, Confirm, Fail, Settle,
           SettleResumes, BeginClose, DrainSettles, DrainExpires, DrainEnds, CloseReturns,
           HookResolves, HookFails, Quiescent, auditVars, scopeVars
  <2> QED
    BY <2>1 DEF Loop, ScopeWrites, InFlight, writeVars
<1> QED
  BY <1>1, PTL DEF Spec, SettleIsComplete
-----------------------------------------------------------------------------
(***************************************************************************)
(* The dispatcher implements the audit log.                                *)
(***************************************************************************)
LEMMA InitLog == Init => Log!Init
  BY DEF Init, Log!Init, Knows, Racing, Stored, healthy

\* The turns that a writer cannot observe.
LEMMA SilentSteps ==
  ASSUME IInv,
         \/ \E w \in Writes : CallSink(w) \/ Expire(w)
         \/ Settle \/ SettleResumes
         \/ \E k \in Closers : BeginClose(k) \/ DrainEnds(k) \/ CloseReturns(k)
         \/ HookResolves
         \/ UNCHANGED auditVars
  PROVE  UNCHANGED <<Knows, Stored, healthy>>
<1> USE DEF IInv, TypeOK, Racing, writeVars, closeVars
<1>1. ASSUME NEW w \in Writes, CallSink(w) PROVE UNCHANGED <<Knows, Stored, healthy>>
  BY <1>1 DEF CallSink, Knows, Stored, healthy
<1>2. ASSUME NEW w \in Writes, Expire(w) PROVE UNCHANGED <<Knows, Stored, healthy>>
  <2>1. Knows' = Knows
    BY <1>2 DEF Expire, Knows
  <2> QED
    BY <1>2, <2>1 DEF Expire, Stored, healthy
<1>3. ASSUME UNCHANGED <<writeVars, failures>> PROVE UNCHANGED <<Knows, Stored, healthy>>
  BY <1>3 DEF Knows, Stored, healthy
<1> QED
  BY <1>1, <1>2, <1>3 DEF Settle, SettleResumes, Loop, BeginClose, DrainEnds, CloseReturns,
                          HookResolves, auditVars

LEMMA NextLog == IInv /\ [Next]_auditVars => [Log!Next]_(Log!logVars)
<1> SUFFICES ASSUME IInv, [Next]_auditVars
             PROVE  Log!Next \/ UNCHANGED <<Knows, Stored, healthy>>
  BY DEF Log!logVars
<1> USE DEF IInv, TypeOK, Racing, writeVars, closeVars
<1>1. ASSUME NEW w \in Writes, Drop(w) PROVE Log!Next
  <2>1. Knows[w] = "none" /\ Knows' = [Knows EXCEPT ![w] = "refused"]
    BY <1>1 DEF Drop, Knows
  <2>2. Stored' = Stored /\ healthy' = FALSE
    BY <1>1 DEF Drop, Stored, healthy
  <2> QED
    BY <2>1, <2>2 DEF Log!Next, Log!Refuse
<1>2. ASSUME NEW w \in Writes, Accept(w) PROVE Log!Next
  <2>1. Knows[w] = "none" /\ Knows' = [Knows EXCEPT ![w] = "open"]
    BY <1>2 DEF Accept, Knows
  <2>2. Stored' = Stored /\ healthy /\ healthy' = healthy
    BY <1>2 DEF Accept, CanAccept, Stored, healthy
  <2> QED
    BY <2>1, <2>2 DEF Log!Next, Log!Accept
<1>3. ASSUME NEW w \in Writes, NEW result \in {"resolved", "rejected"}, SinkSettles(w, result)
      PROVE  Log!Next \/ UNCHANGED <<Knows, Stored, healthy>>
  <2>1. Knows' = Knows /\ healthy' = healthy
    BY <1>3 DEF SinkSettles, Knows, healthy
  <2>2. CASE delivery[w] = "failed" /\ result = "resolved"
    <3>1. Knows[w] = "lost" /\ w \notin Stored /\ Stored' = Stored \cup {w}
      BY <1>3, <2>2 DEF SinkSettles, Knows, Stored
    <3> QED
      BY <2>1, <3>1 DEF Log!Next, Log!StoreLate
  <2>3. CASE ~(delivery[w] = "failed" /\ result = "resolved")
    <3>1. delivery[w] # "acked"
      BY <1>3 DEF SinkSettles, DeliveryInv
    <3>2. Stored' = Stored
      BY <1>3, <2>3, <3>1 DEF SinkSettles, Stored
    <3> QED
      BY <2>1, <3>2
  <2> QED
    BY <2>2, <2>3
<1>4. ASSUME NEW w \in Writes, Confirm(w) PROVE Log!Next
  <2>1. Knows[w] = "open" /\ Knows' = [Knows EXCEPT ![w] = "acked"]
    BY <1>4 DEF Confirm, Knows
  <2>2. Stored' = Stored \cup {w} /\ healthy' = healthy
    BY <1>4 DEF Confirm, Stored, healthy, DeliveryInv
  <2> QED
    BY <2>1, <2>2 DEF Log!Next, Log!Ack
<1>5. ASSUME NEW w \in Writes, Fail(w) PROVE Log!Next
  <2>1. Knows[w] = "open" /\ Knows' = [Knows EXCEPT ![w] = "lost"]
    BY <1>5 DEF Fail, Knows
  <2>2. Stored' \in {Stored, Stored \cup {w}} /\ healthy' = FALSE
    BY <1>5 DEF Fail, Stored, healthy
  <2> QED
    BY <2>1, <2>2 DEF Log!Next, Log!Lose
<1>6. CASE HookFails
  BY <1>6 DEF HookFails, Knows, Stored, healthy, Log!Next, Log!FailClosing
<1> QED
  BY <1>1, <1>2, <1>3, <1>4, <1>5, <1>6, SilentSteps
     DEF Next, DrainSettles, DrainExpires, Quiescent

\* The dispatcher is an audit log: it acknowledges only stored records, and it
\* accepts none after a loss.
THEOREM RefinesAuditLog == Spec => ImplementsAuditLog
  BY InitLog, NextLog, Invariance, PTL DEF Spec, ImplementsAuditLog, Log!Spec
-----------------------------------------------------------------------------
(***************************************************************************)
(* The dispatcher implements the bounded log.                              *)
(***************************************************************************)
LEMMA InitSlots == Init => Slots!Init
  BY DEF Init, Slots!Init, Knows, Racing, healthy

LEMMA NextSlots == IInv /\ [Next]_auditVars => [Slots!Next]_(Slots!logVars)
<1> SUFFICES ASSUME IInv, [Next]_auditVars
             PROVE  Slots!Next \/ UNCHANGED <<Knows, pending, healthy>>
  BY DEF Slots!logVars
<1> USE DEF IInv, TypeOK, Racing, writeVars, closeVars
<1>0. /\ Cardinality(pending) \in Nat /\ Capacity \in Nat
      /\ Slots!Cardinality(pending) = Cardinality(pending)
  <2>1. Slots!Cardinality(pending) = Cardinality(pending)
    BY DEF Slots!Cardinality, Cardinality
  <2> QED
    BY <2>1, FS_CardinalityType, DispatcherAssumption DEF SlotsInv
<1>1. ASSUME NEW w \in Writes, Drop(w) PROVE Slots!Next
  <2>1. Knows[w] = "none" /\ Knows' = [Knows EXCEPT ![w] = "refused"]
    BY <1>1 DEF Drop, Knows
  <2>2. pending' = pending /\ healthy' = FALSE
    BY <1>1 DEF Drop, healthy
  <2>3. ~healthy \/ Cardinality(pending) >= Capacity
    BY <1>0, <1>1 DEF Drop, CanAccept
  <2> QED
    BY <1>0, <2>1, <2>2, <2>3 DEF Slots!Next, Slots!Refuse
<1>2. ASSUME NEW w \in Writes, Accept(w) PROVE Slots!Next
  <2>1. Knows[w] = "none" /\ Knows' = [Knows EXCEPT ![w] = "open"]
    BY <1>2 DEF Accept, Knows
  <2>2. w \notin pending /\ pending' = pending \cup {w}
    BY <1>2 DEF Accept, SlotsInv, DeliveryInv
  <2>3. healthy /\ healthy' = healthy /\ Cardinality(pending) < Capacity
    BY <1>2 DEF Accept, CanAccept, healthy
  <2> QED
    BY <1>0, <2>1, <2>2, <2>3 DEF Slots!Next, Slots!Accept
<1>3. ASSUME NEW w \in Writes, NEW result \in {"resolved", "rejected"}, SinkSettles(w, result)
      PROVE  Slots!Next
  <2>1. Knows' = Knows /\ healthy' = healthy
    BY <1>3 DEF SinkSettles, Knows, healthy
  <2>2. w \in pending /\ pending' = pending \ {w}
    BY <1>3 DEF SinkSettles, SlotsInv
  <2> QED
    BY <2>1, <2>2 DEF Slots!Next, Slots!Release
<1>4. ASSUME NEW w \in Writes, Confirm(w) PROVE Slots!Next
  <2>1. Knows[w] = "open" /\ Knows' = [Knows EXCEPT ![w] = "acked"]
    BY <1>4 DEF Confirm, Knows
  <2>2. w \notin pending /\ pending' = pending /\ healthy' = healthy
    BY <1>4 DEF Confirm, SlotsInv, DeliveryInv, healthy
  <2> QED
    BY <2>1, <2>2 DEF Slots!Next, Slots!Ack
<1>5. ASSUME NEW w \in Writes, Fail(w) PROVE Slots!Next
  <2>1. Knows[w] = "open" /\ Knows' = [Knows EXCEPT ![w] = "lost"]
    BY <1>5 DEF Fail, Knows
  <2>2. pending' = pending /\ healthy' = FALSE
    BY <1>5 DEF Fail, healthy
  <2> QED
    BY <2>1, <2>2 DEF Slots!Next, Slots!Lose
<1>6. CASE HookFails
  BY <1>6 DEF HookFails, Knows, healthy, Slots!Next, Slots!FailClosing
<1>7. ASSUME \/ \E w \in Writes : CallSink(w) \/ Expire(w)
             \/ Settle \/ SettleResumes
             \/ \E k \in Closers : BeginClose(k) \/ DrainEnds(k) \/ CloseReturns(k)
             \/ HookResolves
             \/ UNCHANGED auditVars
      PROVE  UNCHANGED <<Knows, pending, healthy>>
  <2>1. pending' = pending
    BY <1>7 DEF CallSink, Expire, Settle, SettleResumes, Loop, BeginClose, DrainEnds, CloseReturns,
                HookResolves, auditVars
  <2> QED
    BY <1>7, <2>1, SilentSteps
<1> QED
  BY <1>1, <1>2, <1>3, <1>4, <1>5, <1>6, <1>7 DEF Next, DrainSettles, DrainExpires, Quiescent

\* The dispatcher is a bounded log: a record it takes has one of the slots until its
\* sink settles, and one that finds none is a loss.
THEOREM RefinesBoundedLog == Spec => ImplementsBoundedLog
  BY InitSlots, NextSlots, Invariance, PTL DEF Spec, ImplementsBoundedLog, Slots!Spec
=============================================================================
