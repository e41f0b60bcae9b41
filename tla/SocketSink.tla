----------------------------- MODULE SocketSink -----------------------------
(***************************************************************************)
(* socketAuditSink(): the runtime's end of the audit stream.  Records are  *)
(* written to a Unix socket in the order of the calls, and each byte that  *)
(* comes back acknowledges the oldest record that has none.  Any failure   *)
(* gives up every record that has no acknowledgement, for good.            *)
(*                                                                         *)
(* The stream is shared with the collector: "wire" holds what the sink has *)
(* written and the collector has not read, "acks" the bytes on their way   *)
(* back.  A sink whose runtime was closed or lost takes no further call.   *)
(***************************************************************************)
EXTENDS Naturals, Sequences

CONSTANTS
  MaxRecords,  \* how many times the sink is called: the bound of the model
  Limit,       \* 1024 records without acknowledgement
  TooLong      \* the records whose line is longer than 4096 bytes

VARIABLES
  answer,    \* the sink's promise for each record: none, open, acked, lost or refused
  pending,   \* the records written or to be written, oldest first
  sent,      \* how many of them were written
  failed, closed,
  writable,  \* the last write() asked for no pause
  link,      \* none, connecting, open, cut (by the collector, unnoticed) or
             \* dead (destroyed by the sink, the close event is to come)
  wire, acks

sinkVars == <<answer, pending, sent, failed, closed, writable>>
streamVars == <<link, wire, acks>>

Records == 1..MaxRecords

Called == {r \in Records : answer[r] # "none"}
NextRecord == {r \in Records \ Called : \A s \in Records : s < r => s \in Called}

TypeOK ==
  /\ answer \in [Records -> {"none", "open", "acked", "lost", "refused"}]
  /\ pending \in Seq(Records)
  /\ sent \in 0..Len(pending)
  /\ failed \in BOOLEAN /\ closed \in BOOLEAN /\ writable \in BOOLEAN
  /\ link \in {"none", "connecting", "open", "cut", "dead"}
  /\ wire \in Seq(Records)
  /\ acks \in Nat

Init ==
  /\ answer = [r \in Records |-> "none"]
  /\ pending = <<>>
  /\ sent = 0
  /\ failed = FALSE /\ closed = FALSE /\ writable = FALSE
  /\ link = "none"
  /\ wire = <<>>
  /\ acks = 0

\* What a destroyed socket had buffered is lost from some record on.
Truncated(s) == {SubSeq(s, 1, k) : k \in 0..Len(s)}

\* fail(), but for the socket: give up every pending record.
GiveUp ==
  /\ failed' = TRUE
  /\ answer' = [r \in Records |-> IF answer[r] = "open" THEN "lost" ELSE answer[r]]
  /\ pending' = <<>>
  /\ sent' = 0
  /\ acks' = 0
  /\ wire' \in Truncated(wire)

\* fail() destroys the socket, if there is one.
Destroy == link' = IF link = "none" THEN "none" ELSE "dead"

Fail == GiveUp /\ Destroy /\ UNCHANGED <<closed, writable>>

\* flush(): write queued records until write() asks for a pause.  "queue" is the
\* new value of pending, of which "done" records were written already.
Flush(queue, done, ready) ==
  \E last \in done..Len(queue), go \in BOOLEAN :
    /\ IF ready /\ done < Len(queue)
         THEN last > done /\ (last < Len(queue) => ~go)
         ELSE last = done /\ go = ready
    /\ pending' = queue
    /\ sent' = last
    /\ writable' = go
    /\ wire' = IF link' = "open" THEN wire \o SubSeq(queue, done + 1, last) ELSE wire
-----------------------------------------------------------------------------
Refuse(r) ==
  /\ r \in NextRecord
  /\ failed \/ closed \/ Len(pending) >= Limit \/ r \in TooLong
  /\ answer' = [answer EXCEPT ![r] = "refused"]
  /\ UNCHANGED <<pending, sent, failed, closed, writable, streamVars>>

\* The sink is called: queue the record, with a timer of its own, and write it.
Send(r) ==
  /\ r \in NextRecord
  /\ ~failed /\ ~closed /\ Len(pending) < Limit /\ r \notin TooLong
  /\ answer' = [answer EXCEPT ![r] = "open"]
  /\ link' = IF link = "none" THEN "connecting" ELSE link
  /\ Flush(Append(pending, r), sent, writable)
  /\ UNCHANGED <<failed, closed, acks>>

Connected ==
  /\ link = "connecting"
  /\ link' = "open"
  /\ Flush(pending, sent, TRUE)
  /\ UNCHANGED <<answer, failed, closed, acks>>

Refused ==
  /\ link = "connecting"
  /\ Fail

Drain ==
  /\ link \in {"open", "cut"}
  /\ ~writable
  /\ link' = link
  /\ Flush(pending, sent, TRUE)
  /\ UNCHANGED <<answer, failed, closed, acks>>

Acked(n) == {pending[k] : k \in 1..n}

\* n acknowledgements arrive together.
Data(n) ==
  /\ link \in {"open", "cut"}
  /\ n <= acks
  /\ IF n > sent THEN Fail
     ELSE /\ answer' = [r \in Records |-> IF r \in Acked(n) THEN "acked" ELSE answer[r]]
          /\ acks' = acks - n
          /\ link' = link
          /\ Flush(SubSeq(pending, n + 1, Len(pending)), sent - n, writable)
          /\ UNCHANGED <<failed, closed>>

\* Mutant: what has no acknowledgement is sent again over a new connection.
DisconnectedRetrying ==
  /\ link = "cut"
  /\ pending # <<>>
  /\ link' = "connecting"
  /\ sent' = 0 /\ acks' = 0 /\ writable' = FALSE
  /\ UNCHANGED <<answer, pending, failed, closed, wire>>

\* The end, error or close event of the collector's end.
Disconnected ==
  /\ link = "cut"
  /\ link' = "none"
  /\ writable' = FALSE
  /\ \/ pending # <<>> /\ GiveUp
     \/ pending = <<>> /\ acks' = 0 /\ UNCHANGED <<answer, pending, sent, failed, wire>>
  /\ UNCHANGED closed

\* The close event of a socket the sink destroyed.
Destroyed ==
  /\ link = "dead"
  /\ link' = "none"
  /\ writable' = FALSE
  /\ UNCHANGED <<answer, pending, sent, failed, closed, wire, acks>>

\* Mutant: no timer is set.
ExpireNever(r) == r \notin Records /\ UNCHANGED <<sinkVars, streamVars>>

\* The timer of a pending record fires.
Expire(r) ==
  /\ answer[r] = "open"
  /\ Fail

Close ==
  /\ ~closed
  /\ closed' = TRUE
  /\ \/ pending # <<>> /\ GiveUp
     \/ pending = <<>> /\ UNCHANGED <<answer, pending, sent, failed, wire, acks>>
  /\ Destroy
  /\ UNCHANGED writable
=============================================================================
