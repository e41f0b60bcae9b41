------------------------------ MODULE SlotPool ------------------------------
(***************************************************************************)
(* What the execution controller promises its callers: a pool of           *)
(* MaxConcurrent slots.  A slot is held by the operation that occupies it, *)
(* not by the caller waiting for it, and a pool that has been shut hands   *)
(* out no further slot.                                                    *)
(***************************************************************************)
EXTENDS Naturals, FiniteSets

CONSTANTS
  Calls,          \* the operations that may ask for a slot
  MaxConcurrent   \* limits.maxConcurrent

VARIABLES
  held,           \* the operations that occupy a slot
  open            \* whether the pool still hands out slots

poolVars == <<held, open>>

Init ==
  /\ held = {}
  /\ open = TRUE

Acquire(c) ==
  /\ open
  /\ c \notin held
  /\ Cardinality(held) < MaxConcurrent
  /\ held' = held \cup {c}
  /\ UNCHANGED open

Release(c) ==
  /\ c \in held
  /\ held' = held \ {c}
  /\ UNCHANGED open

Shut ==
  /\ open
  /\ open' = FALSE
  /\ UNCHANGED held

Next ==
  \/ \E c \in Calls : Acquire(c) \/ Release(c)
  \/ Shut

Spec == Init /\ [][Next]_poolVars
=============================================================================
