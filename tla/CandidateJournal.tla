-------------------------- MODULE CandidateJournal --------------------------
(***************************************************************************)
(* The assessment of a release candidate's audit journal: the records of   *)
(* concurrent HTTP requests reach the journal interleaved, some lost,      *)
(* doubled, displaced or of another actor, and assess-candidate.mjs reads  *)
(* them one by one and accepts the journal or refuses it.                  *)
(***************************************************************************)
EXTENDS FiniteSets, Naturals, Sequences, SequencesExt

CONSTANTS
  Requests,   \* HTTP requests of the endurance run
  Actors,     \* pseudonyms of their subjects
  None,       \* no pseudonym: the actor "anonymous"
  MaxOpen,    \* requests the assessment follows at once (128 in the code)
  MaxFaults   \* bound: faults of one journal

VARIABLES
  kind,       \* what each request asked for
  toWrite,    \* the records of each that the server has still to write
  journal,    \* history: what was written of each, as pairs of a record and an actor
  faults,
  outcomes,   \* the assessment: the records it has seen of each request,
  actor,      \* the pseudonym it has seen,
  active, completed,
  verdict     \* "none", then "accepted" or "refused"

journalVars == <<kind, toWrite, journal, faults>>
assessVars == <<outcomes, actor, active, completed, verdict>>
candidateVars == <<journalVars, assessVars>>

\* What the server writes of a request: of a tool call that succeeds, of one the tool
\* denies, of one the SDK rejects, and of a request that is no call.
Always == {"received", "response", "completed"}
Plan == [call |-> {"allowed", "success"}, denial |-> {"allowed", "denied"},
         invalid |-> {"invalid_params"}, other |-> {}]
Expected(r) == Always \cup Plan[kind[r]]

Init ==
  /\ kind \in [Requests -> DOMAIN Plan]
  /\ toWrite = [r \in Requests |-> Expected(r)]
  /\ journal = [r \in Requests |-> <<>>]
  /\ faults = 0
  /\ outcomes = [r \in Requests |-> {}] /\ actor = [r \in Requests |-> None]
  /\ active = {} /\ completed = {} /\ verdict = "none"
-----------------------------------------------------------------------------
\* Mutant: a completion is not held against the tool's records.
WholeOfHttp(seen) == {"received", "response"} \subseteq seen

\* What the completion of a request demands of the records before it.
Whole(seen) ==
  /\ {"received", "response"} \subseteq seen
  /\ Cardinality(seen \cap {"success", "denied"}) = IF "allowed" \in seen THEN 1 ELSE 0
  /\ "allowed" \in seen => ("tool_rejected" \in seen <=> "denied" \in seen)

\* record(): the next line of the journal, or the end of the script.
Admits(r, key, who) ==
  /\ r \notin completed /\ key \notin outcomes[r]
  /\ who = None \/ actor[r] \in {None, who}
  /\ Cardinality(active \cup {r}) <= MaxOpen
  /\ key = "completed" => Whole(outcomes[r])

Record(r, key, who) ==
  IF Admits(r, key, who)
  THEN /\ outcomes' = [outcomes EXCEPT ![r] = @ \cup {key}]
       /\ actor' = [actor EXCEPT ![r] = IF who = None THEN @ ELSE who]
       /\ active' = IF key = "completed" THEN active \ {r} ELSE active \cup {r}
       /\ completed' = IF key = "completed" THEN completed \cup {r} ELSE completed
       /\ UNCHANGED verdict
  ELSE verdict' = "refused" /\ UNCHANGED <<outcomes, actor, active, completed>>

\* A request is received under no name, and completed when all else is written.
InTurn(r, key) ==
  /\ "received" \in toWrite[r] => key = "received"
  /\ key = "completed" => toWrite[r] = {"completed"}

Faulty(faulty) == faults' = faults + (IF faulty THEN 1 ELSE 0) /\ faults' <= MaxFaults

\* One record is written and read: in its turn or not, as often as it should or again,
\* under the name of its request or of another.
Write(r, key, who, again) ==
  /\ verdict = "none" /\ key \in toWrite[r]
  /\ (who = None) = (key = "received")
  /\ Faulty(again \/ ~InTurn(r, key) \/ (who # None /\ actor[r] \notin {None, who}))
  /\ toWrite' = [toWrite EXCEPT ![r] = IF again THEN @ ELSE @ \ {key}]
  /\ journal' = [journal EXCEPT ![r] = Append(@, <<key, who>>)]
  /\ Record(r, key, who)
  /\ UNCHANGED kind

Lose(r, key) ==
  /\ verdict = "none" /\ key \in toWrite[r] /\ Faulty(TRUE)
  /\ toWrite' = [toWrite EXCEPT ![r] = @ \ {key}]
  /\ UNCHANGED <<kind, journal, assessVars>>

Count(key) == Cardinality({r \in Requests : key \in outcomes[r]})
Asked(kinds) == Cardinality({r \in Requests : kind[r] \in kinds})

\* The end of the journal: nothing is open, and the calls and denials are those the
\* benchmark reported.
End ==
  /\ verdict = "none" /\ \A r \in Requests : toWrite[r] = {}
  /\ verdict' =
       IF /\ active = {}
          /\ Asked({"call", "denial", "invalid"}) > 0
          /\ Count("allowed") + Count("invalid_params") = Asked({"call", "denial", "invalid"})
          /\ Count("denied") + Count("invalid_params") = Asked({"denial", "invalid"})
       THEN "accepted" ELSE "refused"
  /\ UNCHANGED <<journalVars, outcomes, actor, active, completed>>

Next ==
  \/ \E r \in Requests, key \in UNION {Expected(q) : q \in Requests} :
       \/ Lose(r, key)
       \/ \E who \in Actors \cup {None}, again \in BOOLEAN : Write(r, key, who, again)
  \/ End

Spec == Init /\ [][Next]_candidateVars
-----------------------------------------------------------------------------
\* What the assessment is to establish: every request left each of its records once,
\* its completion last, and all under one name.
Complete(r) ==
  LET keys == {e[1] : e \in ToSet(journal[r])}
      names == {e[2] : e \in ToSet(journal[r])} \ {None}
  IN  /\ keys = Expected(r) /\ Len(journal[r]) = Cardinality(keys)
      /\ Last(journal[r])[1] = "completed"
      /\ Cardinality(names) <= 1

\* A journal is accepted only if it is complete, but for requests that are no calls and
\* of which nothing at all is there; and one of a run with calls and without denials is
\* refused only for a fault (assess-candidate.mjs:87-144, 209-212).
AssessmentIsExact ==
  /\ verdict = "accepted" =>
       \A r \in Requests : Complete(r) \/ (kind[r] = "other" /\ journal[r] = <<>>)
  /\ verdict = "refused" =>
       \/ faults > 0 \/ Asked({"denial"}) > 0 \/ Asked({"call", "invalid"}) = 0
       \/ Cardinality(Requests) > MaxOpen
=============================================================================
