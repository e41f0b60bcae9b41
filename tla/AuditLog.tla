------------------------------ MODULE AuditLog ------------------------------
(***************************************************************************)
(* What the audit dispatcher promises its callers, without its slots and   *)
(* deadlines: a record is acknowledged only after the sink has stored it,  *)
(* and from the first loss on no record is taken and health is not         *)
(* regained.                                                               *)
(***************************************************************************)
CONSTANT
  Writes          \* the records that may be written

VARIABLES
  answer,         \* what the writer knows: none, open, acked, lost or refused
  stored,         \* the records stored, as far as a writer can know
  healthy

logVars == <<answer, stored, healthy>>

Init ==
  /\ answer = [w \in Writes |-> "none"]
  /\ stored = {}
  /\ healthy = TRUE

Accept(w) ==
  /\ answer[w] = "none"
  /\ healthy
  /\ answer' = [answer EXCEPT ![w] = "open"]
  /\ UNCHANGED <<stored, healthy>>

\* Every slot is taken, or an earlier record was lost.
Refuse(w) ==
  /\ answer[w] = "none"
  /\ answer' = [answer EXCEPT ![w] = "refused"]
  /\ healthy' = FALSE
  /\ UNCHANGED stored

\* The writer learns that the sink has stored the record.
Ack(w) ==
  /\ answer[w] = "open"
  /\ answer' = [answer EXCEPT ![w] = "acked"]
  /\ stored' = stored \cup {w}
  /\ UNCHANGED healthy

\* The sink may store the record even so, then or later.
Lose(w) ==
  /\ answer[w] = "open"
  /\ answer' = [answer EXCEPT ![w] = "lost"]
  /\ healthy' = FALSE
  /\ stored' \in {stored, stored \cup {w}}

StoreLate(w) ==
  /\ answer[w] = "lost"
  /\ w \notin stored
  /\ stored' = stored \cup {w}
  /\ UNCHANGED <<answer, healthy>>

\* Closing the sink failed.
FailClosing ==
  /\ healthy' = FALSE
  /\ UNCHANGED <<answer, stored>>

Next ==
  \/ \E w \in Writes : Accept(w) \/ Refuse(w) \/ Ack(w) \/ Lose(w) \/ StoreLate(w)
  \/ FailClosing

Spec == Init /\ [][Next]_logVars
=============================================================================
