---------------------------- MODULE SecurityGate ----------------------------
(***************************************************************************)
(* The security gate of the historical version: the failures of four       *)
(* suites are read from whatever reports lie there, or the suites are run, *)
(* and a weighted count of the failures opens the gate or closes it.       *)
(***************************************************************************)
EXTENDS Integers, Sequences

CONSTANTS
  Reports,  \* failures of a suite by severity: [critical, high, medium]
  Asked,    \* thresholds in the environment: [critical, high, security, ai, performance]
  None

VARIABLES
  shared,   \* ./coverage/test-results.json, which stands for every suite without a report
            \* of its own, or None
  results,  \* this.results so far: what was loaded for each suite, or None
  broken,   \* history: some suite's run failed
  exit      \* the status of the process, or None while it runs

gateVars == <<shared, results, broken, exit>>

Suites == <<"vulnerability", "automated", "ai", "performance">>
Clean == [critical |-> 0, high |-> 0, medium |-> 0]

Init == shared \in Reports \cup {None} /\ results = <<>> /\ broken = FALSE /\ exit = None
-----------------------------------------------------------------------------
Deductions(f) == 25 * f.critical + 15 * f.high + 8 * f.medium
Score(deductions) == IF deductions < 100 THEN 100 - deductions ELSE 0

Parsed(report) == [failures |-> report, ran |-> TRUE, score |-> Score(Deductions(report))]

\* The result of a run that failed has no number of medium failures at all, so that
\* every sum with it, and the overall score, is NaN.
FailedRun == [failures |-> [Clean EXCEPT !.critical = 1], ran |-> FALSE, score |-> 0]

Load(result) ==
  /\ Len(results) < Len(Suites)
  /\ results' = Append(results, result)
  /\ UNCHANGED <<shared, exit>>

\* A report of its own, or else the shared one; one that is no JSON leaves its suite out.
ReadOwn(report) == Load(Parsed(report)) /\ UNCHANGED broken
ReadShared == shared # None /\ Load(Parsed(shared)) /\ UNCHANGED broken
Unreadable == Load(None) /\ UNCHANGED broken

\* There is no report and the suite is run.  A run that passes may write none.
RunPasses ==
  /\ shared = None
  /\ Load(Parsed(Clean)) \/ Load(None)
  /\ UNCHANGED broken
RunFails == shared = None /\ Load(FailedRun) /\ broken' = TRUE

\* parseInt(value) || preset: a threshold of 0 is none.
Threshold(value, preset) == IF value = 0 THEN preset ELSE value

LoadedSuites == {i \in DOMAIN results : results[i] # None}
FailuresOf(i, severity) == IF i \in LoadedSuites THEN results[i].failures[severity] ELSE 0
Total(severity) ==
  FailuresOf(1, severity) + FailuresOf(2, severity) + FailuresOf(3, severity)
    + FailuresOf(4, severity)
\* The two scores of single suites, the AI's (3) and the performance's (4).
ScoreOf(i) == IF i \in LoadedSuites THEN results[i].score ELSE 0

\* A comparison with NaN fails.
OverallPasses(minimum) ==
  /\ \A i \in LoadedSuites : results[i].ran
  /\ Score(Deductions([s \in DOMAIN Clean |-> Total(s)])) >= minimum

\* evaluateQualityGates()
AllPassed ==
  /\ Total("critical") <= Threshold(Asked.critical, 0)
  /\ Total("high") <= Threshold(Asked.high, 2)
  /\ OverallPasses(Threshold(Asked.security, 80))
  /\ ScoreOf(3) >= Threshold(Asked.ai, 80)
  /\ ScoreOf(4) >= Threshold(Asked.performance, 70)

Decide ==
  /\ Len(results) = Len(Suites) /\ exit = None
  /\ exit' = IF AllPassed THEN 0 ELSE 1
  /\ UNCHANGED <<shared, results, broken>>

Next ==
  \/ ReadShared \/ Unreadable \/ RunPasses \/ RunFails \/ Decide
  \/ \E report \in Reports : ReadOwn(report)

Spec == Init /\ [][Next]_gateVars
-----------------------------------------------------------------------------
\* The gate opens only when no suite failed to run, the two suites with a score of
\* their own were loaded, and all suites that were report no critical failure and at most
\* one high or two medium ones, under thresholds that nobody raised
\* (security-gate-validation.js:113-152, 277-381).
GateMeansClean ==
  exit = 0 =>
    /\ ~broken
    /\ {3, 4} \subseteq LoadedSuites
    /\ \A i \in LoadedSuites : results[i].failures.critical = 0
    /\ Total("high") <= 1 /\ Total("high") + Total("medium") <= 2
    /\ Total("high") = 1 => Total("medium") = 0
=============================================================================
