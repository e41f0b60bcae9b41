-------------------------- MODULE AuditDispatcher ---------------------------
(***************************************************************************)
(* AuditDispatcher: bounded, unqueued delivery of audit records to a sink, *)
(* the latch that takes readiness off after a loss, the scope that waits   *)
(* for a request's deliveries, and the drain that closes the sink.         *)
(*                                                                         *)
(* deliver() races the sink's promise ("work") against a timer.  The slot  *)
(* belongs to the sink's promise and the answer to the race, so a blocked  *)
(* sink keeps its slot after its writer has been told of the loss.         *)
(***************************************************************************)
EXTENDS Naturals, FiniteSets

CONSTANTS
  Writes,     \* calls of write(), each made once
  Scoped,     \* the writes made inside the one scope()
  Closers,    \* calls of close()
  Capacity    \* this.capacity

ASSUME DispatcherAssumption ==
  /\ Capacity \in Nat
  /\ Scoped \subseteq Writes

VARIABLES
  delivery,   \* the promise write() returned, see TypeOK
  sink,       \* the sink's promise for the write
  pending,    \* this.pending: the writes that hold a slot
  failures,   \* this.failures
  dropped,    \* this.dropped
  hook,       \* this.sinkClosing: open before closeSink() is called
  closer,     \* how far a close() call has come
  snapshot,   \* the pending writes a close() call waits for
  remaining,  \* what a close() call counted after its wait
  settling,   \* the scope's settle(): idle, waiting or done
  awaited     \* the deliveries settle() waits for

writeVars == <<delivery, sink, pending, dropped>>
closeVars == <<hook, closer, snapshot, remaining>>
scopeVars == <<settling, awaited>>
auditVars == <<writeVars, failures, closeVars, scopeVars>>

Racing == {"racing", "winning", "losing"}
InFlight == {w \in Writes : delivery[w] \in Racing}
healthy == failures = 0 /\ dropped = 0

TypeOK ==
  /\ delivery \in [Writes -> {"unsent", "acked", "failed", "dropped"} \cup Racing]
  /\ sink \in [Writes -> {"none", "queued", "called", "resolved", "rejected"}]
  /\ pending \subseteq Writes
  /\ failures \in Nat /\ dropped \in Nat
  /\ hook \in {"open", "closing", "closed", "failed"}
  /\ closer \in [Closers -> {"idle", "draining", "closing", "resolved", "rejected"}]
  /\ snapshot \in [Closers -> SUBSET Writes]
  /\ remaining \in [Closers -> Nat]
  /\ settling \in {"idle", "waiting", "done"}
  /\ awaited \subseteq Writes

Init ==
  /\ delivery = [w \in Writes |-> "unsent"]
  /\ sink = [w \in Writes |-> "none"]
  /\ pending = {}
  /\ failures = 0 /\ dropped = 0
  /\ hook = "open"
  /\ closer = [k \in Closers |-> "idle"]
  /\ snapshot = [k \in Closers |-> {}]
  /\ remaining = [k \in Closers |-> 0]
  /\ settling = "idle"
  /\ awaited = {}
-----------------------------------------------------------------------------
(***************************************************************************)
(* write() and deliver()                                                   *)
(***************************************************************************)
\* Mutant: one slot more than there are.
CanAcceptOffByOne == healthy /\ Cardinality(pending) <= Capacity

\* Mutant: an earlier loss does not stop later writes.
CanAcceptAfterLoss == Cardinality(pending) < Capacity

CanAccept == healthy /\ Cardinality(pending) < Capacity

Drop(w) ==
  /\ delivery[w] = "unsent"
  /\ ~CanAccept
  /\ delivery' = [delivery EXCEPT ![w] = "dropped"]
  /\ dropped' = dropped + 1
  /\ UNCHANGED <<sink, pending, failures, closeVars, scopeVars>>

Accept(w) ==
  /\ delivery[w] = "unsent"
  /\ CanAccept
  /\ delivery' = [delivery EXCEPT ![w] = "racing"]
  /\ sink' = [sink EXCEPT ![w] = "queued"]
  /\ pending' = pending \cup {w}
  /\ UNCHANGED <<failures, dropped, closeVars, scopeVars>>

\* The queued turn that calls the sink.
CallSink(w) ==
  /\ sink[w] = "queued"
  /\ sink' = [sink EXCEPT ![w] = "called"]
  /\ UNCHANGED <<delivery, pending, failures, dropped, closeVars, scopeVars>>

\* The sink's promise settles: the slot is free before the writer's turn.
SinkSettles(w, result) ==
  /\ sink[w] = "called"
  /\ sink' = [sink EXCEPT ![w] = result]
  /\ pending' = pending \ {w}
  /\ delivery' = [delivery EXCEPT ![w] =
                    IF @ # "racing" THEN @
                    ELSE IF result = "resolved" THEN "winning" ELSE "losing"]
  /\ UNCHANGED <<failures, dropped, closeVars, scopeVars>>

\* The delivery's timer fires.  The sink has not settled and keeps its slot.
Expire(w) ==
  /\ delivery[w] = "racing"
  /\ sink[w] = "called"
  /\ delivery' = [delivery EXCEPT ![w] = "losing"]
  /\ UNCHANGED <<sink, pending, failures, dropped, closeVars, scopeVars>>

\* The writer's turn after the race.
Confirm(w) ==
  /\ delivery[w] = "winning"
  /\ delivery' = [delivery EXCEPT ![w] = "acked"]
  /\ UNCHANGED <<sink, pending, failures, dropped, closeVars, scopeVars>>

Fail(w) ==
  /\ delivery[w] = "losing"
  /\ delivery' = [delivery EXCEPT ![w] = "failed"]
  /\ failures' = failures + 1
  /\ UNCHANGED <<sink, pending, dropped, closeVars, scopeVars>>
-----------------------------------------------------------------------------
(***************************************************************************)
(* scope().settle(): wait until no delivery of the scope is in flight,     *)
(* those that start while it waits included.                               *)
(***************************************************************************)
ScopeWrites == InFlight \cap Scoped

\* The test of the loop: another round, or return.
Loop ==
  /\ settling' = IF ScopeWrites = {} THEN "done" ELSE "waiting"
  /\ awaited' = ScopeWrites
  /\ UNCHANGED <<writeVars, failures, closeVars>>

Settle ==
  /\ settling = "idle"
  /\ Loop

\* Mutant: settle() waits one round instead of looping.
SettleResumesOnce ==
  /\ settling = "waiting"
  /\ awaited \cap InFlight = {}
  /\ settling' = "done"
  /\ awaited' = {}
  /\ UNCHANGED <<writeVars, failures, closeVars>>

\* Mutant: settle() waits for the sinks' promises.
SettleResumesRaw ==
  /\ settling = "waiting"
  /\ awaited \cap pending = {}
  /\ Loop

SettleResumes ==
  /\ settling = "waiting"
  /\ awaited \cap InFlight = {}
  /\ Loop
-----------------------------------------------------------------------------
(***************************************************************************)
(* close() and closeSink()                                                 *)
(***************************************************************************)
BeginClose(k) ==
  /\ closer[k] = "idle"
  /\ closer' = [closer EXCEPT ![k] = "draining"]
  /\ snapshot' = [snapshot EXCEPT ![k] = pending]
  /\ UNCHANGED <<writeVars, failures, hook, remaining, scopeVars>>

Drained(k) == snapshot[k] \cap pending = {}

\* The wait is over, by settlement or by its timer: count what is pending, and
\* call the sink's close hook unless another close() has.
DrainEnds(k) ==
  /\ closer[k] = "draining"
  /\ closer' = [closer EXCEPT ![k] = "closing"]
  /\ remaining' = [remaining EXCEPT ![k] = Cardinality(pending)]
  /\ hook' = IF hook = "open" THEN "closing" ELSE hook
  /\ UNCHANGED <<writeVars, failures, snapshot, scopeVars>>

\* Mutant: an expired wait reports a complete drain.
DrainExpiresReportingNone(k) ==
  /\ ~Drained(k)
  /\ closer[k] = "draining"
  /\ closer' = [closer EXCEPT ![k] = "closing"]
  /\ remaining' = [remaining EXCEPT ![k] = 0]
  /\ hook' = IF hook = "open" THEN "closing" ELSE hook
  /\ UNCHANGED <<writeVars, failures, snapshot, scopeVars>>

\* Mutant: close() waits for pending sinks without a timer.
DrainExpiresNever(k) == k \notin Closers /\ UNCHANGED auditVars

DrainSettles(k) == Drained(k) /\ DrainEnds(k)

DrainExpires(k) == ~Drained(k) /\ DrainEnds(k)

HookResolves ==
  /\ hook = "closing"
  /\ hook' = "closed"
  /\ UNCHANGED <<writeVars, failures, closer, snapshot, remaining, scopeVars>>

\* The hook rejects or its timer fires.
HookFails ==
  /\ hook = "closing"
  /\ hook' = "failed"
  /\ failures' = failures + 1
  /\ UNCHANGED <<writeVars, closer, snapshot, remaining, scopeVars>>

\* close() resolves with remaining, or rejects with the hook's failure.
CloseReturns(k) ==
  /\ closer[k] = "closing"
  /\ hook \in {"closed", "failed"}
  /\ closer' = [closer EXCEPT ![k] = IF hook = "closed" THEN "resolved" ELSE "rejected"]
  /\ UNCHANGED <<writeVars, failures, hook, snapshot, remaining, scopeVars>>
-----------------------------------------------------------------------------
\* All writes and closes were made and every promise has settled.
Quiescent ==
  /\ \A w \in Writes : delivery[w] \in {"acked", "failed", "dropped"}
  /\ pending = {}
  /\ \A k \in Closers : closer[k] \in {"resolved", "rejected"}
  /\ settling = "done"
  /\ UNCHANGED auditVars

Next ==
  \/ \E w \in Writes :
       \/ Drop(w) \/ Accept(w) \/ CallSink(w) \/ Expire(w) \/ Confirm(w) \/ Fail(w)
       \/ \E result \in {"resolved", "rejected"} : SinkSettles(w, result)
  \/ Settle \/ SettleResumes
  \/ \E k \in Closers : BeginClose(k) \/ DrainSettles(k) \/ DrainExpires(k) \/ CloseReturns(k)
  \/ HookResolves \/ HookFails
  \/ Quiescent

\* Queued turns run and timers fire; the sink and its hook may block for ever.
Fairness ==
  /\ \A w \in Writes :
       /\ WF_auditVars(CallSink(w)) /\ WF_auditVars(Expire(w))
       /\ WF_auditVars(Confirm(w)) /\ WF_auditVars(Fail(w))
  /\ WF_auditVars(SettleResumes)
  /\ \A k \in Closers :
       /\ WF_auditVars(DrainSettles(k)) /\ WF_auditVars(DrainExpires(k))
       /\ WF_auditVars(CloseReturns(k))
  /\ WF_auditVars(HookFails)

Spec == Init /\ [][Next]_auditVars
FairSpec == Spec /\ Fairness
-----------------------------------------------------------------------------
(***************************************************************************)
(* Properties                                                              *)
(***************************************************************************)

\* A slot is held exactly by the sink calls that have not settled, late ones
\* included, and there are never more of them than slots (audit.ts:51, 95-97).
SlotsHeldByLiveSinks ==
  /\ pending = {w \in Writes : sink[w] \in {"queued", "called"}}
  /\ Cardinality(pending) <= Capacity

\* No loss disappears: a record that was not acknowledged has been counted, by
\* the turn in which its writer learns of it (audit.ts:52, 92 and 107).
LossesCounted ==
  /\ Cardinality({w \in Writes : delivery[w] = "dropped"}) = dropped
  /\ Cardinality({w \in Writes : delivery[w] = "failed"})
       + (IF hook = "failed" THEN 1 ELSE 0) = failures

\* A close() that counted 0 leaves no write behind that it had found pending
\* (audit.ts:132-138).
ZeroRemainingMeansDrained ==
  \A k \in Closers :
    closer[k] \notin {"idle", "draining"} /\ remaining[k] = 0 => Drained(k)

\* settle() returns with no delivery of the scope in flight, also when handlers
\* went on writing while it waited (audit.ts:74-78).
SettleIsComplete ==
  [][settling # "done" /\ settling' = "done" => ScopeWrites' = {}]_auditVars

\* What the writer knows of its record, and what it may know to be stored.
Knows ==
  [w \in Writes |->
     CASE delivery[w] = "unsent" -> "none"
       [] delivery[w] \in Racing -> "open"
       [] delivery[w] = "acked" -> "acked"
       [] delivery[w] = "failed" -> "lost"
       [] delivery[w] = "dropped" -> "refused"]
Stored == {w \in Writes : sink[w] = "resolved" /\ delivery[w] \in {"acked", "failed"}}

\* Without its slots and timers the dispatcher is an audit log: what it
\* acknowledges is stored, and after a loss it accepts nothing (audit.ts:51-52).
Log == INSTANCE AuditLog WITH answer <- Knows, stored <- Stored
ImplementsAuditLog == Log!Spec

\* With its slots and without its sinks it is a bounded log: a record is taken
\* only when there is a slot, which it keeps until its sink settles
\* (audit.ts:91-97).
Slots == INSTANCE BoundedLog WITH answer <- Knows, held <- pending
ImplementsBoundedLog == Slots!Spec

\* Every write(), settle() and close() is answered, although the sink or its hook
\* may block (audit.ts:75, 100-105, 116-121 and 131-136).
EveryWaitEnds ==
  /\ \A w \in Writes : delivery[w] \in Racing ~> delivery[w] \in {"acked", "failed"}
  /\ settling = "waiting" ~> settling = "done"
  /\ \A k \in Closers : closer[k] = "draining" ~> closer[k] \in {"resolved", "rejected"}
=============================================================================
