-------------------------- MODULE ExecutionProofs ---------------------------
(***************************************************************************)
(* Theorems about the execution controller for any number of calls, any    *)
(* capacity and any set of outcomes.                                       *)
(***************************************************************************)
EXTENDS Execution, FiniteSetTheorems, TLAPS

USE MaxConcurrentAssumption, OutcomesAssumption

\* The slots are those of the live operations, and there are not too many.
SlotsInv ==
  /\ active = Live
  /\ IsFiniteSet(active)
  /\ Cardinality(active) <= MaxConcurrent

\* What run() has answered agrees with the operation and its signal.
AnswerInv ==
  \A c \in Calls :
    /\ returned[c] = "idle" => work[c] = "idle"
    /\ returned[c] = "pending" <=> c \in Live /\ aborted[c] = "none"
    /\ work[c] # "idle" /\ aborted[c] # "none" => returned[c] = aborted[c]

IInv == TypeOK /\ SlotsInv /\ AnswerInv /\ DrainedMeansIdle
-----------------------------------------------------------------------------
LEMMA InitIInv == Init => IInv
  BY FS_EmptySet DEF Init, IInv, TypeOK, SlotsInv, AnswerInv, DrainedMeansIdle, Live

LEMMA RefusePreserves ==
  ASSUME IInv, NEW c \in Calls, Refuse(c)
  PROVE  IInv'
  BY DEF IInv, TypeOK, SlotsInv, AnswerInv, DrainedMeansIdle, Live, Refuse, Refusal,
         Settlements, Aborts, closing

LEMMA AdmitPreserves ==
  ASSUME IInv, NEW c \in Calls, Admit(c)
  PROVE  IInv'
<1>1. TypeOK'
  BY DEF IInv, TypeOK, Admit
<1>2. c \notin active
  BY DEF IInv, SlotsInv, AnswerInv, Live, Admit
<1>3. SlotsInv'
  <2>1. Cardinality(active \cup {c}) = Cardinality(active) + 1 /\ IsFiniteSet(active \cup {c})
    BY <1>2, FS_AddElement DEF IInv, SlotsInv
  <2>2. Cardinality(active) \in Nat
    BY FS_CardinalityType DEF IInv, SlotsInv
  <2>3. (active = Live)'
    BY DEF IInv, TypeOK, SlotsInv, Live, Admit
  <2> QED
    BY <2>1, <2>2, <2>3 DEF SlotsInv, Admit, HasCapacity
<1>4. AnswerInv'
  BY DEF IInv, TypeOK, AnswerInv, Live, Admit
<1>5. DrainedMeansIdle'
  BY DEF DrainedMeansIdle, Admit, closing
<1> QED
  BY <1>1, <1>3, <1>4, <1>5 DEF IInv

LEMMA StartPreserves ==
  ASSUME IInv, NEW c \in Calls, Start(c)
  PROVE  IInv'
  BY DEF IInv, TypeOK, SlotsInv, AnswerInv, DrainedMeansIdle, Live, Start

\* The end of an operation, whether it ran or was skipped.
LEMMA SettlePreserves ==
  ASSUME IInv, NEW c \in Live, NEW result \in Settlements, Settle(c, result)
  PROVE  IInv'
<1> c \in Calls
  BY DEF Live
<1>1. TypeOK'
  BY DEF IInv, TypeOK, Settle, Race
<1>2. SlotsInv'
  <2>1. IsFiniteSet(active \ {c}) /\ Cardinality(active \ {c}) <= Cardinality(active)
    BY FS_Subset DEF IInv, SlotsInv
  <2>2. Cardinality(active) \in Nat /\ Cardinality(active \ {c}) \in Nat
    BY <2>1, FS_CardinalityType DEF IInv, SlotsInv
  <2>3. (active = Live)'
    BY DEF IInv, TypeOK, SlotsInv, Live, Settle
  <2> QED
    BY <2>1, <2>2, <2>3 DEF IInv, SlotsInv, Settle
<1>3. AnswerInv'
  BY DEF IInv, TypeOK, AnswerInv, Live, Settle, Race, Settlements, Aborts
<1>4. DrainedMeansIdle'
  BY DEF IInv, TypeOK, DrainedMeansIdle, Live, Settle
<1> QED
  BY <1>1, <1>2, <1>3, <1>4 DEF IInv

\* The abort of signals none of which has aborted before.
LEMMA AbortPreserves ==
  ASSUME IInv, NEW S \in SUBSET {c \in Calls : aborted[c] = "none"}, NEW reason \in Aborts,
         \A c \in S : returned[c] \in {"idle", "pending"},
         Abort(S, reason), UNCHANGED remaining,
         shutdown' = shutdown \/ shutdown' = "draining"
  PROVE  IInv'
<1>1. TypeOK'
  BY DEF IInv, TypeOK, Abort, Settlements
<1>2. SlotsInv'
  BY DEF IInv, SlotsInv, Live, Abort
<1>3. AnswerInv'
  BY DEF IInv, TypeOK, AnswerInv, Live, Abort, Aborts
<1>4. DrainedMeansIdle'
  BY DEF IInv, DrainedMeansIdle, Live, Abort
<1> QED
  BY <1>1, <1>2, <1>3, <1>4 DEF IInv

LEMMA DrainPreserves ==
  ASSUME IInv, DrainSettled \/ GraceExpires
  PROVE  IInv'
<1>1. Cardinality(active) \in Nat /\ (active # {} => Cardinality(active) # 0)
  BY FS_CardinalityType, FS_EmptySet DEF IInv, SlotsInv
<1> QED
  BY <1>1 DEF IInv, TypeOK, SlotsInv, AnswerInv, DrainedMeansIdle, Live, DrainSettled,
              GraceExpires

LEMMA NextPreserves == IInv /\ [Next]_execVars => IInv'
<1> SUFFICES ASSUME IInv, [Next]_execVars
             PROVE  IInv'
  OBVIOUS
<1>1. ASSUME NEW c \in Calls, Refuse(c) PROVE IInv'
  BY <1>1, RefusePreserves
<1>2. ASSUME NEW c \in Calls, Admit(c) PROVE IInv'
  BY <1>2, AdmitPreserves
<1>3. ASSUME NEW c \in Calls, Start(c) PROVE IInv'
  BY <1>3, StartPreserves
<1>4. ASSUME NEW c \in Calls, Skip(c) PROVE IInv'
  <2>1. c \in Live /\ aborted[c] \in Settlements
    BY <1>4 DEF Skip, Live, IInv, TypeOK, Settlements
  <2> QED
    BY <1>4, <2>1, SettlePreserves DEF Skip
<1>5. ASSUME NEW c \in Calls, NEW result \in Outcomes, Finish(c, result) PROVE IInv'
  <2>1. c \in Live /\ result \in Settlements
    BY <1>5 DEF Finish, Live, Settlements
  <2> QED
    BY <1>5, <2>1, SettlePreserves DEF Finish
<1>6. ASSUME NEW c \in Calls, Timeout(c) PROVE IInv'
  <2>1. returned[c] = "pending" /\ {c} \in SUBSET {d \in Calls : aborted[d] = "none"}
    BY <1>6 DEF Timeout, IInv, AnswerInv, Live
  <2> QED
    BY <1>6, <2>1, AbortPreserves DEF Timeout, Aborts
<1>7. ASSUME NEW c \in Calls, CallerAbort(c) PROVE IInv'
  BY <1>7, AbortPreserves DEF CallerAbort, Aborts
<1>8. ASSUME Close PROVE IInv'
  <2> DEFINE S == {c \in active : aborted[c] = "none"}
  <2>1. S \in SUBSET {c \in Calls : aborted[c] = "none"}
    BY DEF IInv, TypeOK
  <2>2. \A c \in S : returned[c] \in {"idle", "pending"}
    BY DEF IInv, TypeOK, SlotsInv, AnswerInv
  <2> QED
    BY <1>8, <2>1, <2>2, AbortPreserves DEF Close, Aborts
<1>9. ASSUME DrainSettled \/ GraceExpires PROVE IInv'
  BY <1>9, DrainPreserves
<1>10. ASSUME UNCHANGED execVars PROVE IInv'
  BY <1>10 DEF execVars, IInv, TypeOK, SlotsInv, AnswerInv, DrainedMeansIdle, Live
<1> QED
  BY <1>1, <1>2, <1>3, <1>4, <1>5, <1>6, <1>7, <1>8, <1>9, <1>10 DEF Next, Quiescent

THEOREM Invariance == Spec => []IInv
  BY InitIInv, NextPreserves, PTL DEF Spec
-----------------------------------------------------------------------------
\* Every variable has its type in every reachable state.
THEOREM TypeCorrect == Spec => []TypeOK
  BY Invariance, PTL DEF IInv

\* At most MaxConcurrent operations are under way, abandoned ones included.
THEOREM CapacityIsBounded == Spec => []CapacityBound
<1>1. IInv => CapacityBound
  BY DEF IInv, SlotsInv, CapacityBound
<1> QED
  BY <1>1, Invariance, PTL

\* An operation's call reports the first abort of its signal.
THEOREM AbortsAreReported == Spec => []AbortIsReported
<1>1. IInv => AbortIsReported
  BY DEF IInv, AnswerInv, AbortIsReported
<1> QED
  BY <1>1, Invariance, PTL

\* A drain that counted nothing left nothing running.
THEOREM ZeroRemainingMeansIdle == Spec => []DrainedMeansIdle
  BY Invariance, PTL DEF IInv
-----------------------------------------------------------------------------
\* One step does not revise an answer.
LEMMA AnswerKept ==
  ASSUME IInv, [Next]_execVars, NEW c \in Calls, returned[c] \in Settlements
  PROVE  returned'[c] = returned[c]
<1> USE DEF IInv, TypeOK, Settlements, Aborts
<1>1. ASSUME NEW d \in Calls, Refuse(d) \/ Admit(d) PROVE returned'[c] = returned[c]
  BY <1>1 DEF Refuse, Admit
<1>2. ASSUME NEW d \in Calls, NEW result, Settle(d, result) PROVE returned'[c] = returned[c]
  BY <1>2 DEF Settle, Race
<1>3. ASSUME NEW S, NEW reason, Abort(S, reason) PROVE returned'[c] = returned[c]
  BY <1>3 DEF Abort
<1>4. CASE UNCHANGED returned
  BY <1>4
<1> QED
  BY <1>1, <1>2, <1>3, <1>4
     DEF Next, execVars, Start, Skip, Finish, Timeout, CallerAbort, Close, DrainSettled,
         GraceExpires, Quiescent

\* run() answers once, whatever settles or aborts later.
THEOREM AnswersAreFinal == Spec => AnsweredOnce
<1>1. IInv /\ [Next]_execVars =>
        [\A c \in Calls : returned[c] \in Settlements => returned'[c] = returned[c]]_execVars
  BY AnswerKept
<1> QED
  BY <1>1, Invariance, PTL DEF Spec, AnsweredOnce
-----------------------------------------------------------------------------
(***************************************************************************)
(* The controller implements the slot pool.                                *)
(***************************************************************************)
LEMMA InitPool == Init => Pool!Init
  BY DEF Init, Pool!Init, Live, closing

LEMMA NextPool == IInv /\ [Next]_execVars => [Pool!Next]_(Pool!poolVars)
<1> SUFFICES ASSUME IInv, [Next]_execVars
             PROVE  Pool!Next \/ UNCHANGED <<Live, ~closing>>
  BY DEF Pool!poolVars
<1> USE DEF IInv, TypeOK, SlotsInv
<1>1. ASSUME NEW c \in Calls, Admit(c) PROVE Pool!Next
  <2>1. c \notin Live
    BY <1>1 DEF AnswerInv, Live, Admit
  <2>2. Live' = Live \cup {c} /\ closing' = closing
    BY <1>1 DEF Live, Admit, closing
  <2>3. Pool!Cardinality(Live) = Cardinality(Live)
    BY DEF Pool!Cardinality, Cardinality
  <2> QED
    BY <1>1, <2>1, <2>2, <2>3 DEF Admit, HasCapacity, Pool!Next, Pool!Acquire
<1>2. ASSUME NEW c \in Live, NEW result, Settle(c, result) PROVE Pool!Next
  <2>1. c \in Calls /\ Live' = Live \ {c} /\ closing' = closing
    BY <1>2 DEF Live, Settle, closing
  <2> QED
    BY <2>1 DEF Pool!Next, Pool!Release
<1>3. CASE Close
  BY <1>3 DEF Close, Abort, Live, closing, Pool!Next, Pool!Shut
<1>4. ASSUME NEW c \in Calls, Refuse(c) \/ Start(c) \/ Timeout(c) \/ CallerAbort(c)
      PROVE  UNCHANGED <<Live, ~closing>>
  BY <1>4 DEF Refuse, Start, Timeout, CallerAbort, Abort, Live, closing
<1>5. CASE DrainSettled \/ GraceExpires \/ UNCHANGED execVars
  BY <1>5 DEF DrainSettled, GraceExpires, execVars, Live, closing
<1>6. ASSUME NEW c \in Calls, Skip(c) PROVE Pool!Next
  BY <1>6, <1>2 DEF Skip, Live
<1>7. ASSUME NEW c \in Calls, NEW result \in Outcomes, Finish(c, result) PROVE Pool!Next
  BY <1>7, <1>2 DEF Finish, Live
<1> QED
  BY <1>1, <1>3, <1>4, <1>5, <1>6, <1>7 DEF Next, Quiescent

\* The controller is a slot pool: its operations take and give back slots one at
\* a time, and none is taken after close().
THEOREM RefinesSlotPool == Spec => ImplementsSlotPool
  BY InitPool, NextPool, Invariance, PTL DEF Spec, ImplementsSlotPool, Pool!Spec
=============================================================================
