----------------------------- MODULE BoundedLog -----------------------------
(***************************************************************************)
(* What the audit dispatcher promises those who share its slots.  A record *)
(* occupies one of Capacity slots until the sink has settled; one that     *)
(* finds no slot is refused, and that loss, like any other, ends the log.  *)
(* A writer may write again once it knows the fate of its last record.     *)
(***************************************************************************)
EXTENDS Naturals, FiniteSets

CONSTANTS
  Writes,         \* the writers, or the records where each writes once
  Capacity        \* audit.maxPending

VARIABLES
  answer,         \* what the writer knows of its last record: none, open,
                  \* acked, lost or refused
  held,           \* the writers whose record occupies a slot
  healthy

logVars == <<answer, held, healthy>>

Init ==
  /\ answer = [w \in Writes |-> "none"]
  /\ held = {}
  /\ healthy = TRUE

Accept(w) ==
  /\ answer[w] # "open" /\ w \notin held
  /\ healthy
  /\ Cardinality(held) < Capacity
  /\ answer' = [answer EXCEPT ![w] = "open"]
  /\ held' = held \cup {w}
  /\ UNCHANGED healthy

Refuse(w) ==
  /\ answer[w] # "open"
  /\ ~healthy \/ Cardinality(held) >= Capacity
  /\ answer' = [answer EXCEPT ![w] = "refused"]
  /\ healthy' = FALSE
  /\ UNCHANGED held

\* The sink settles.
Release(w) ==
  /\ w \in held
  /\ held' = held \ {w}
  /\ UNCHANGED <<answer, healthy>>

\* The writer learns that the sink took the record.
Ack(w) ==
  /\ answer[w] = "open"
  /\ w \notin held
  /\ answer' = [answer EXCEPT ![w] = "acked"]
  /\ UNCHANGED <<held, healthy>>

\* The sink failed, or did not settle in time.
Lose(w) ==
  /\ answer[w] = "open"
  /\ answer' = [answer EXCEPT ![w] = "lost"]
  /\ healthy' = FALSE
  /\ UNCHANGED held

FailClosing ==
  /\ healthy' = FALSE
  /\ UNCHANGED <<answer, held>>

Next ==
  \/ \E w \in Writes : Accept(w) \/ Refuse(w) \/ Release(w) \/ Ack(w) \/ Lose(w)
  \/ FailClosing

Spec == Init /\ [][Next]_logVars
=============================================================================
