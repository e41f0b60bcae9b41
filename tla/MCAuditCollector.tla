-------------------------- MODULE MCAuditCollector --------------------------
(***************************************************************************)
(* Five records with every failure of either end and a second client, and  *)
(* five records with neither, under the limits of the code: the sink's is  *)
(* not above the queue's or the acknowledgements'.                         *)
(***************************************************************************)
EXTENDS AuditCollector

\* No timer fires, and nothing fails, stops or is closed.
Undisturbed ==
  \/ /\ \/ \E r \in Records : Sink!Send(r) \/ Sink!Refuse(r)
        \/ \E n \in 1..acks : Sink!Data(n)
        \/ Sink!Connected \/ Sink!Drain
     /\ running = "up"
     /\ UNCHANGED journalVars
  \/ /\ Journal!Start \/ Journal!Receive \/ Journal!Gather \/ Journal!Write \/ Journal!Sync
     /\ UNCHANGED sinkVars

\* Events are delivered, and the collector's writes and syncs return.
UndisturbedSpec == Init /\ [][Undisturbed]_vars /\ WF_vars(Undisturbed)

\* No pause of either end strands a record: what the sink accepted is acknowledged
\* without the help of a timer (collector.ts:30-35, audit-collector.mjs:68-100).
NothingStranded == \A r \in Records : answer[r] = "open" ~> answer[r] = "acked"
=============================================================================
