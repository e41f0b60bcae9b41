----------------------------- MODULE NpmRelease -----------------------------
(***************************************************************************)
(* The publication of one version by the manual workflow publish.yml: its  *)
(* jobs preflight, publish and verify, each a script that stops at the     *)
(* first check that fails, reruns of a run from its first or its failed    *)
(* job, and others who meanwhile publish, move tags or change what is      *)
(* enabled.  The scripts trust no earlier job: each looks at the approval  *)
(* and the registry again.                                                 *)
(***************************************************************************)
EXTENDS Naturals

CONSTANTS
  Runs,        \* workflow runs, each dispatched for a candidate of its own
  People,      \* who may dispatch, approve and administer
  Reviewers,   \* settings.reviewerIds
  MaxAttempts, \* bound: attempts of a run
  MaxMoves,    \* bound: changes of the registry's tags by others
  Other,       \* whoever publishes the version by hand
  None         \* nobody, no run, no version

VARIABLES
  registry,    \* who published the version: None, Other, or <<run, attempt>>
  moves,       \* changes of tags by others so far
  alpha,       \* whether the tag alpha points to the version
  enabled,     \* the run whose source and digest the variables enable
  actor,       \* who dispatched each run, or None
  holder,      \* the run that holds the concurrency group
  job,         \* where each run is; "idle", "failed" and "verified" are not in progress
  failed,      \* the job a failed run failed in, where a rerun may begin
  attempt,     \* github.run_attempt
  reviews,     \* the run's reviews: people who approved, or "rejected"
  tags,        \* registryTags of npm-preflight.json, as a number of moves
  receipt      \* publicationRunAttempt of npm-publication.json, or 0

registryVars == <<registry, moves, alpha>>
jobVars == <<holder, job, failed, attempt>>
releaseVars == <<registryVars, enabled, actor, jobVars, reviews, tags, receipt>>

Init ==
  /\ registry = None /\ moves = 0 /\ alpha = FALSE /\ enabled = None
  /\ actor = [r \in Runs |-> None] /\ holder = None
  /\ job = [r \in Runs |-> "idle"] /\ failed = [r \in Runs |-> "preflight"]
  /\ attempt = [r \in Runs |-> 0] /\ reviews = [r \in Runs |-> {}]
  /\ tags = [r \in Runs |-> 0] /\ receipt = [r \in Runs |-> 0]

\* The workflow's job of a step; the job publish waits for approval first.
JobOf(step) ==
  CASE step \in {"publish", "command"} -> "approval"
    [] step = "smoke" -> "verify"
    [] OTHER -> step

\* A job of the run succeeds or fails; the group is free when the run ends.
Goto(r, next) ==
  /\ job' = [job EXCEPT ![r] = next]
  /\ holder' = IF next \in {"failed", "verified"} THEN None ELSE holder
  /\ failed' = IF next = "failed" THEN [failed EXCEPT ![r] = JobOf(job[r])] ELSE failed
  /\ UNCHANGED attempt
-----------------------------------------------------------------------------
\* A run is dispatched, or a failed one is run again: all its jobs, or the failed
\* one and those after it.
Begin(r) ==
  /\ holder = None /\ job[r] \in {"idle", "failed"} /\ attempt[r] < MaxAttempts
  /\ \E first \in {"preflight", failed[r]} : job' = [job EXCEPT ![r] = first]
  /\ holder' = r /\ attempt' = [attempt EXCEPT ![r] = @ + 1]
  /\ \E p \in People : actor' = IF attempt[r] = 0 THEN [actor EXCEPT ![r] = p] ELSE actor
  /\ UNCHANGED <<registryVars, enabled, failed, reviews, tags, receipt>>

\* verifySettings(): the variables enable exactly this source and digest.
Gate(r) == enabled = r

\* validateRegistry(): the version is absent.
Absent == registry = None

\* The gate, the candidate, the registry and a dry run; the tags are kept.
Preflight(r) ==
  /\ job[r] = "preflight" /\ Gate(r) /\ Absent
  /\ tags' = [tags EXCEPT ![r] = moves] /\ Goto(r, "approval")
  /\ UNCHANGED <<registryVars, enabled, actor, reviews, receipt>>

\* The protected environment: somebody it lets review approves or rejects, or an
\* administrator goes past it.
Review(r) ==
  /\ job[r] = "approval"
  /\ \/ \E p \in People : reviews' = [reviews EXCEPT ![r] = @ \cup {p}] /\ Goto(r, "publish")
     \/ reviews' = [reviews EXCEPT ![r] = @ \cup {"rejected"}] /\ Goto(r, "failed")
     \/ UNCHANGED reviews /\ Goto(r, "publish")
  /\ UNCHANGED <<registryVars, enabled, actor, tags, receipt>>

\* Mutant: any expected reviewer will do, the one who dispatched the run included.
ApprovedOfAnyone(r) == "rejected" \notin reviews[r] /\ reviews[r] \cap Reviewers # {}

\* validateApproval(), over the reviews of all the run's attempts.
Approved(r) ==
  "rejected" \notin reviews[r] /\ reviews[r] \cap (Reviewers \ {actor[r]}) # {}

\* publish-npm.mjs up to its command.
Check(r) ==
  /\ job[r] = "publish"
  /\ Gate(r) /\ Approved(r) /\ Absent /\ tags[r] = moves
  /\ Goto(r, "command")
  /\ UNCHANGED <<registryVars, enabled, actor, reviews, tags, receipt>>

\* npm publish: refused by the registry when the version is there; an accepted one
\* may still be reported as an error or lose its receipt.
Publish(r) ==
  /\ job[r] = "command"
  /\ IF Absent
     THEN /\ registry' = <<r, attempt[r]>> /\ alpha' = TRUE /\ UNCHANGED moves
          /\ \/ receipt' = [receipt EXCEPT ![r] = attempt[r]] /\ Goto(r, "verify")
             \/ UNCHANGED receipt /\ Goto(r, "failed")
     ELSE UNCHANGED <<registryVars, receipt>> /\ Goto(r, "failed")
  /\ UNCHANGED <<enabled, actor, reviews, tags>>

\* validatePublishedRegistry(): no tag changed but alpha.
OnlyAlpha(r) == alpha /\ moves = tags[r]

\* The receipt is of this run, the bytes and the provenance are of the receipt's
\* attempt ...
Verify(r) ==
  /\ job[r] = "verify"
  /\ receipt[r] \in 1..attempt[r] /\ registry = <<r, receipt[r]>> /\ OnlyAlpha(r)
  /\ Goto(r, "smoke")
  /\ UNCHANGED <<registryVars, enabled, actor, reviews, tags, receipt>>

\* ... a consumer installs and runs them, and the tags are compared once more.
Finish(r) ==
  /\ job[r] = "smoke" /\ OnlyAlpha(r) /\ Goto(r, "verified")
  /\ UNCHANGED <<registryVars, enabled, actor, reviews, tags, receipt>>

\* Any check, call or time limit of a job stops the run; the smoke test is in the
\* job verify.
Stop(r) ==
  /\ job[r] \in {"preflight", "publish", "verify", "smoke"}
  /\ Goto(r, "failed") /\ UNCHANGED <<registryVars, enabled, actor, reviews, tags, receipt>>
-----------------------------------------------------------------------------
\* Others publish the version by hand, change tags, or enable another candidate.
Foreign ==
  /\ \/ registry = None /\ registry' = Other /\ UNCHANGED <<moves, alpha, enabled>>
     \/ /\ moves < MaxMoves /\ moves' = moves + 1
        /\ alpha' \in {alpha, FALSE} /\ UNCHANGED <<registry, enabled>>
     \/ enabled' \in Runs \cup {None} /\ UNCHANGED registryVars
  /\ UNCHANGED <<actor, jobVars, reviews, tags, receipt>>

Next ==
  \/ \E r \in Runs :
       \/ Begin(r) \/ Preflight(r) \/ Review(r) \/ Check(r) \/ Publish(r) \/ Verify(r)
       \/ Finish(r) \/ Stop(r)
  \/ Foreign

Spec == Init /\ [][Next]_releaseVars
-----------------------------------------------------------------------------
TypeOK ==
  /\ registry \in {None, Other} \cup (Runs \X (1..MaxAttempts))
  /\ attempt \in [Runs -> 0..MaxAttempts] /\ reviews \in [Runs -> SUBSET (People \cup {"rejected"})]

\* However runs are repeated, approved, bypassed and overtaken by others: what the
\* workflow published was approved by a reviewer other than the one who started it
\* and rejected by none before, and a run that ends as verified is the one, and its
\* receipt of the attempt, that published the version, between two looks at the tags
\* of which none but alpha changed (publish-npm.mjs:26-62, verify-npm-publication.mjs:
\* 44-151).
PublishedAsApproved ==
  /\ TypeOK
  /\ \A r \in Runs, n \in 1..MaxAttempts :
       registry = <<r, n>> => \E p \in reviews[r] \cap Reviewers : p # actor[r]
  /\ \A r \in Runs : job[r] = "verified" => registry = <<r, receipt[r]>>
  /\ \A r \in Runs : receipt[r] # 0 => registry = <<r, receipt[r]>>
=============================================================================
