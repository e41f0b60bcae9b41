----------------------------- MODULE CallWrites -----------------------------
(***************************************************************************)
(* What the runtime promises the server that carries a tool call: whom its *)
(* audit records can overlap.  The operation writes one at a time, and     *)
(* none once invoke() has an outcome; invoke() and the response gate, one  *)
(* after the other, write the rest.                                        *)
(***************************************************************************)
CONSTANT Calls

VARIABLES
  writing,     \* whether a record of the operation is pending
  replying,    \* whether a record of invoke() or the gate is pending
  replied      \* whether invoke(), or the SDK in its place, has an outcome

callVars == <<writing, replying, replied>>

Init ==
  /\ writing = [c \in Calls |-> FALSE]
  /\ replying = [c \in Calls |-> FALSE]
  /\ replied = [c \in Calls |-> FALSE]

\* A record that is refused is never pending.
OperationWrites(c) ==
  /\ ~replied[c]
  /\ ~writing[c]
  /\ writing' \in {writing, [writing EXCEPT ![c] = TRUE]}
  /\ UNCHANGED <<replying, replied>>

OperationTold(c) ==
  /\ writing[c]
  /\ writing' = [writing EXCEPT ![c] = FALSE]
  /\ UNCHANGED <<replying, replied>>

\* The outcome needs a record of its own, or has one.
Replies(c) ==
  /\ ~replied[c]
  /\ replied' = [replied EXCEPT ![c] = TRUE]
  /\ replying' \in {replying, [replying EXCEPT ![c] = TRUE]}
  /\ UNCHANGED writing

Observes(c) ==
  /\ replied[c]
  /\ ~replying[c]
  /\ replying' \in {replying, [replying EXCEPT ![c] = TRUE]}
  /\ UNCHANGED <<writing, replied>>

ReplyTold(c) ==
  /\ replying[c]
  /\ replying' = [replying EXCEPT ![c] = FALSE]
  /\ UNCHANGED <<writing, replied>>

Next ==
  \E c \in Calls :
    OperationWrites(c) \/ OperationTold(c) \/ Replies(c) \/ Observes(c) \/ ReplyTold(c)

Spec == Init /\ [][Next]_callVars
=============================================================================
