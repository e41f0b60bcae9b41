---------------------------- MODULE DurableSink -----------------------------
(***************************************************************************)
(* What the collector's sink promises the dispatcher: an append-only log.  *)
(* A record is acknowledged only once it and every record accepted before  *)
(* it are durable, records become durable in the order they were accepted, *)
(* and after a loss nothing is accepted or acknowledged again.             *)
(***************************************************************************)
EXTENDS Naturals

CONSTANT MaxRecords  \* records are numbered in the order the sink was called

VARIABLES
  answer,    \* the sink's promise for each record: none, open, acked, lost or refused
  durable    \* the records that survive any crash

sinkVars == <<answer, durable>>

Records == 1..MaxRecords

Accepted == {r \in Records : answer[r] \in {"open", "acked", "lost"}}
Lost == {r \in Records : answer[r] = "lost"}

\* S holds, with each of its records, every earlier record of T.
EarliestOf(S, T) == S \subseteq T /\ \A s \in S : \A t \in T : t < s => t \in S

Init ==
  /\ answer = [r \in Records |-> "none"]
  /\ durable = {}

Accept(r) ==
  /\ answer[r] = "none"
  /\ \A s \in Records : s < r => answer[s] # "none"
  /\ Lost = {}
  /\ answer' = [answer EXCEPT ![r] = "open"]
  /\ UNCHANGED durable

\* The sink rejects a call: closed, failed, full, or the record is too long.
Refuse(r) ==
  /\ answer[r] = "none"
  /\ answer' = [answer EXCEPT ![r] = "refused"]
  /\ UNCHANGED durable

\* The sink may still store what it has already given up.
Store(S) ==
  /\ EarliestOf(S, Accepted \ durable)
  /\ durable' = durable \cup S
  /\ UNCHANGED answer

Ack(S) ==
  /\ S \subseteq durable
  /\ EarliestOf(S, {r \in Records : answer[r] = "open"})
  /\ answer' = [r \in Records |-> IF r \in S THEN "acked" ELSE answer[r]]
  /\ UNCHANGED durable

\* Whatever is not acknowledged is given up at once.
Fail ==
  /\ answer' = [r \in Records |-> IF answer[r] = "open" THEN "lost" ELSE answer[r]]
  /\ UNCHANGED durable

Next ==
  \/ \E r \in Records : Accept(r) \/ Refuse(r)
  \/ \E S \in SUBSET Records : Store(S) \/ Ack(S)
  \/ Fail

Spec == Init /\ [][Next]_sinkVars
=============================================================================
