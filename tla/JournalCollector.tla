-------------------------- MODULE JournalCollector --------------------------
(***************************************************************************)
(* The reference collector, examples/audit-collector.mjs: it reads records *)
(* from the stream, appends them to a journal in batches, syncs, and       *)
(* writes one byte per record back.  What was appended survives the crash  *)
(* of the process; what was synced survives a power loss too.  A write     *)
(* that is interrupted may leave a partial record at the journal's end,    *)
(* and a journal that ends so is refused at the next start.                *)
(*                                                                         *)
(* One connection is the sink's; the collector also takes the records of   *)
(* other clients, on connections of their own.                             *)
(***************************************************************************)
EXTENDS Naturals, Sequences, FiniteSets

CONSTANTS
  QueueLimit,   \* 1024 records queued or in the batch
  BatchSize,    \* 64 records
  AckLimit,     \* 4096 bytes of acknowledgements that were not taken
  MaxJournal,   \* --max-bytes, in records
  Foreign       \* the records of other clients

VARIABLES
  running,   \* down, up or stopping
  healthy,
  queue,     \* records read and not yet in a batch
  batch,     \* the records being written
  step,      \* the flush loop: idle, gather, writing or syncing
  journal,   \* the file, with Torn for a partial record
  synced,    \* how much of it is synced
  link, wire, acks   \* the stream, see SocketSink

journalVars == <<running, healthy, queue, batch, step, journal, synced>>

Torn == 0

Journaled == {journal[k] : k \in 1..Len(journal)}
Durable == {journal[k] : k \in 1..synced}

TypeOK ==
  /\ running \in {"down", "up", "stopping"}
  /\ healthy \in BOOLEAN
  /\ queue \in Seq(Nat) /\ batch \in Seq(Nat) /\ journal \in Seq(Nat)
  /\ step \in {"idle", "gather", "writing", "syncing"}
  /\ step \in {"writing", "syncing"} <=> batch # <<>>
  /\ synced \in 0..Len(journal)

Init ==
  /\ running = "down"
  /\ healthy = TRUE
  /\ queue = <<>> /\ batch = <<>> /\ journal = <<>>
  /\ step = "idle"
  /\ synced = 0

\* The collector destroys its sockets: what it has not read is lost.
Cut ==
  /\ wire' = <<>>
  /\ link' = IF link = "open" THEN "cut" ELSE link
  /\ UNCHANGED acks

Forget == queue' = <<>> /\ batch' = <<>> /\ step' = "idle"
-----------------------------------------------------------------------------
Start ==
  /\ running = "down"
  /\ Len(journal) <= MaxJournal
  /\ journal # <<>> => journal[Len(journal)] # Torn
  /\ running' = "up" /\ healthy' = TRUE
  /\ synced' = Len(journal)
  /\ UNCHANGED <<queue, batch, step, journal, link, wire, acks>>

\* flush(): one loop at a time.
Wake == IF step = "idle" THEN "gather" ELSE step

Receive ==
  /\ running = "up"
  /\ wire # <<>>
  /\ IF ~healthy \/ Len(queue) + Len(batch) >= QueueLimit
       THEN Cut /\ UNCHANGED <<queue, step>>
       ELSE /\ queue' = Append(queue, Head(wire))
            /\ step' = Wake
            /\ wire' = Tail(wire)
            /\ UNCHANGED <<link, acks>>
  /\ UNCHANGED <<running, healthy, batch, journal, synced>>

\* A record from another connection.  One that is refused leaves this one alone.
ReceiveForeign(r) ==
  /\ running = "up"
  /\ healthy /\ Len(queue) + Len(batch) < QueueLimit
  /\ r \notin Journaled /\ \A k \in 1..Len(queue \o batch) : (queue \o batch)[k] # r
  /\ queue' = Append(queue, r)
  /\ step' = Wake
  /\ UNCHANGED <<running, healthy, batch, journal, synced, link, wire, acks>>

\* The catch of the flush loop.
Break ==
  /\ healthy' = FALSE
  /\ Forget
  /\ Cut
  /\ UNCHANGED <<running, synced>>

Smaller(a, b) == IF a < b THEN a ELSE b

Gather ==
  /\ step = "gather"
  /\ LET n == Smaller(BatchSize, Len(queue)) IN
       IF Len(journal) + n > MaxJournal
         THEN Break /\ UNCHANGED journal
         ELSE /\ batch' = SubSeq(queue, 1, n)
              /\ queue' = SubSeq(queue, n + 1, Len(queue))
              /\ step' = "writing"
              /\ UNCHANGED <<running, healthy, journal, synced, link, wire, acks>>

\* What an interrupted write may have appended.
Partial ==
  {SubSeq(batch, 1, k) : k \in 0..Len(batch)}
    \cup {SubSeq(batch, 1, k) \o <<Torn>> : k \in 0..(Len(batch) - 1)}

\* Mutant: the batch is acknowledged once it is written.
WriteAcknowledging ==
  /\ step = "writing"
  /\ journal' = journal \o batch
  /\ step' = "syncing"
  /\ acks' = IF link = "open" THEN acks + Len(batch) ELSE acks
  /\ UNCHANGED <<running, healthy, queue, batch, synced, link, wire>>

Write ==
  /\ step = "writing"
  /\ journal' = journal \o batch
  /\ step' = "syncing"
  /\ UNCHANGED <<running, healthy, queue, batch, synced, link, wire, acks>>

WriteFails ==
  /\ step = "writing"
  /\ \E appended \in Partial : journal' = journal \o appended
  /\ Break

SyncFails ==
  /\ step = "syncing"
  /\ Break
  /\ UNCHANGED journal

\* How many records of the batch came from the sink.
Owed == Cardinality({k \in 1..Len(batch) : batch[k] \notin Foreign})

\* Acknowledge n records, unless the sink has left too many bytes unread.
Acknowledge(n) ==
  IF link # "open" THEN UNCHANGED <<link, wire, acks>>
  ELSE IF acks + n > AckLimit THEN Cut
  ELSE acks' = acks + n /\ UNCHANGED <<link, wire>>

\* Mutant: the loop ends after one batch.
SyncOnce ==
  /\ step = "syncing"
  /\ synced' = Len(journal)
  /\ Acknowledge(Owed)
  /\ batch' = <<>>
  /\ step' = "idle"
  /\ UNCHANGED <<running, healthy, queue, journal>>

Sync ==
  /\ step = "syncing"
  /\ synced' = Len(journal)
  /\ Acknowledge(Owed)
  /\ batch' = <<>>
  /\ step' = IF queue = <<>> THEN "idle" ELSE "gather"
  /\ UNCHANGED <<running, healthy, queue, journal>>

\* The socket's timer: nothing was read or written for two seconds.
IdleTimeout ==
  /\ running = "up"
  /\ link = "open"
  /\ Cut
  /\ UNCHANGED journalVars

\* SIGTERM: destroy the sockets, finish the loop and exit.
Stop ==
  /\ running = "up"
  /\ running' = "stopping"
  /\ Cut
  /\ UNCHANGED <<healthy, queue, batch, step, journal, synced>>

Exit ==
  /\ running = "stopping"
  /\ step = "idle"
  /\ running' = "down"
  /\ UNCHANGED <<healthy, queue, batch, step, journal, synced, link, wire, acks>>

\* The process is killed.
Kill ==
  /\ running # "down"
  /\ running' = "down"
  /\ \E appended \in IF step = "writing" THEN Partial ELSE {<<>>} :
       journal' = journal \o appended
  /\ Forget
  /\ Cut
  /\ UNCHANGED <<healthy, synced>>

\* What a power loss may leave of a file whose first "synced" records are synced.
Survivors(file) ==
  {SubSeq(file, 1, k) : k \in synced..Len(file)}
    \cup {SubSeq(file, 1, k) \o <<Torn>> : k \in synced..(Len(file) - 1)}

PowerLoss ==
  /\ running # "down"
  /\ running' = "down"
  /\ journal' \in Survivors(IF step = "writing" THEN journal \o batch ELSE journal)
  /\ Forget
  /\ UNCHANGED <<healthy, synced>>
=============================================================================
