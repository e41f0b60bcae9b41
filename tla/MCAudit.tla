------------------------------ MODULE MCAudit -------------------------------
(***************************************************************************)
(* Three writes on two slots, two of them in the scope, so that one can    *)
(* start while settle() waits for the other (close() is not called there:  *)
(* MCParts has two of them, on fewer writes); and two writes and a         *)
(* close(), where a write may start after close() took its snapshot.       *)
(***************************************************************************)
EXTENDS AuditDispatcher

DeliveryNext ==
  \/ \E w \in Writes :
       \/ Drop(w) \/ Accept(w) \/ CallSink(w) \/ Expire(w) \/ Confirm(w) \/ Fail(w)
       \/ \E result \in {"resolved", "rejected"} : SinkSettles(w, result)
  \/ Settle \/ SettleResumes \/ Quiescent

DeliverySpec == Init /\ [][DeliveryNext]_auditVars /\ Fairness

\* The drain's timer never fires before the writes it waits for have settled.
PunctualSpec == Init /\ [][Next /\ ~\E k \in Closers : DrainExpires(k)]_auditVars

\* "The dispatcher owns this sink and closes it after draining accepted writes"
\* (the comment at audit.ts:23): the close hook is called with nothing pending.
SinkClosedAfterDrain ==
  [][hook = "open" /\ hook' # "open" => pending = {}]_auditVars
=============================================================================
