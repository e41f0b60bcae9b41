--------------------------- MODULE AuditCollector ---------------------------
(***************************************************************************)
(* The socket sink and the reference collector at the two ends of one      *)
(* stream, with the failures of either end.                                *)
(***************************************************************************)
EXTENDS Naturals, Sequences, FiniteSets

CONSTANTS MaxRecords, Limit, TooLong, QueueLimit, BatchSize, AckLimit, MaxJournal, Foreign

ASSUME LimitsAssumption ==
  /\ {MaxRecords, MaxJournal} \subseteq Nat
  /\ {Limit, QueueLimit, BatchSize, AckLimit} \subseteq Nat \ {0}
  /\ Foreign \subseteq Nat /\ \A r \in Foreign : r > MaxRecords

VARIABLES
  answer, pending, sent, failed, closed, writable,              \* the sink
  running, healthy, queue, batch, step, journal, synced,        \* the collector
  link, wire, acks                                              \* the stream

Sink == INSTANCE SocketSink
Journal == INSTANCE JournalCollector

sinkVars == <<answer, pending, sent, failed, closed, writable>>
journalVars == <<running, healthy, queue, batch, step, journal, synced>>
vars == <<sinkVars, journalVars, link, wire, acks>>

Records == 1..MaxRecords

TypeOK == Sink!TypeOK /\ Journal!TypeOK

Init == Sink!Init /\ Journal!Init

SinkStep ==
  \/ \E r \in Records : Sink!Send(r) \/ Sink!Refuse(r) \/ Sink!Expire(r)
  \/ \E n \in 1..acks : Sink!Data(n)
  \/ Sink!Connected /\ running = "up"
  \/ Sink!Refused \/ Sink!Drain \/ Sink!Disconnected \/ Sink!Destroyed \/ Sink!Close

JournalStep ==
  \/ \E r \in Foreign : Journal!ReceiveForeign(r)
  \/ Journal!Start \/ Journal!Receive \/ Journal!Gather \/ Journal!Write \/ Journal!Sync
  \/ Journal!WriteFails \/ Journal!SyncFails \/ Journal!IdleTimeout
  \/ Journal!Stop \/ Journal!Exit \/ Journal!Kill

\* The machine both ends run on loses power: the runtime is gone with its promises.
PowerLoss == Journal!PowerLoss /\ Sink!Fail /\ wire' = <<>>

\* Every record was answered, and the collector is down.
Quiescent ==
  /\ \A r \in Records : answer[r] \notin {"none", "open"}
  /\ running = "down"
  /\ UNCHANGED vars

Next ==
  \/ SinkStep /\ UNCHANGED journalVars
  \/ JournalStep /\ UNCHANGED sinkVars
  \/ PowerLoss
  \/ Quiescent

\* The timer of a pending record fires in the end.
Fairness == \A r \in Records : WF_vars(Sink!Expire(r) /\ UNCHANGED journalVars)

Spec == Init /\ [][Next]_vars
FairSpec == Spec /\ Fairness
-----------------------------------------------------------------------------
\* Across reconnections, crashes and restarts the journal holds the sink's records
\* in the order of the calls, each at most once, and every accepted one before it:
\* a loss ends the stream and leaves no hole.  Nothing follows a partial record
\* (collector.ts:6 and 21-29, audit-collector.mjs:48-53).
JournalIsSound ==
  /\ TypeOK
  /\ \A i \in 1..Len(journal) :
       /\ journal[i] = Journal!Torn => i = Len(journal)
       /\ journal[i] \in Records =>
            LET before == {journal[j] : j \in 1..(i - 1)} \cap Records
            IN /\ \A r \in before : r < journal[i]
               /\ \A r \in 1..(journal[i] - 1) : r \in before \/ answer[r] = "refused"

\* The sink and its collector are a durable sink.
Durable == INSTANCE DurableSink WITH durable <- Journal!Durable \cap Records
ImplementsDurableSink == Durable!Spec

\* Every record is answered whatever happens to the collector (collector.ts:89).
EveryRecordAnswered == \A r \in Records : answer[r] = "open" ~> answer[r] # "open"
=============================================================================
