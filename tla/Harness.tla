------------------------------- MODULE Harness -------------------------------
(***************************************************************************)
(* The acceptance labs and smoke tests: each makes things outside itself,  *)
(* directories, containers, a network, processes, and has to leave none of *)
(* them behind, whatever step fails.  A lab is a table of three lists of   *)
(* steps, those before its try block, those in it and those of its finally *)
(* block, and the actions below are what JavaScript makes of such a table. *)
(***************************************************************************)
EXTENDS Naturals, Sequences, FiniteSets

CONSTANTS MaxMishaps  \* bound: steps that fail and processes that end by themselves

Containers == {"db", "idp", "chromium", "nginx", "container"}
Processes == {"runtime process", "collector"}
\* What outlives the process of the lab; the rest are its own sockets and timers, and
\* processes that end when their pipe does or whose exit is all the lab waits for.
Lasting == Containers \cup Processes \cup {"network", "directory"}

\* A step makes a thing; or it releases one the lab has recorded, removes one by its
\* name whether recorded or not, or stops a process, waiting for an exit from then on,
\* and may find that it exited in the wrong way.  When a step fails it ends the block,
\* or the steps behind it come first (a finally of its own), or nobody is told; a stop
\* that looks at no exit status never fails.
Make(of) == [do |-> "make", of |-> of, fails |-> "ends"]
Step(do, of, fails) == [do |-> do, of |-> of, fails |-> fails]
MakeAll(things) == [i \in DOMAIN things |-> Make(things[i])]
ReleaseAll(things, fails) == [i \in DOMAIN things |-> Step("release", things[i], fails)]
Lab(setup, body, clean) == [setup |-> setup, body |-> body, clean |-> clean]
InDirectory(body, clean) ==
  Lab(<<Make("directory")>>, body, clean \o ReleaseAll(<<"directory">>, "ends"))
-----------------------------------------------------------------------------
\* The tables.
Keycloak ==
  InDirectory(
    MakeAll(<<"network", "db", "idp", "chromium", "nginx">>),
    ReleaseAll(<<"nginx", "chromium", "idp", "db", "network">>, "unnoticed"))

Proxy ==
  InDirectory(
    MakeAll(<<"issuer", "runtime process", "container">>),
    ReleaseAll(<<"container", "runtime process">>, "later")
      \o ReleaseAll(<<"issuer">>, "ends"))

OAuth ==
  InDirectory(MakeAll(<<"issuer", "runtime", "client">>),
              ReleaseAll(<<"client", "runtime", "issuer">>, "ends"))
OAuthCode ==
  InDirectory(MakeAll(<<"issuer", "runtime", "client">>),
              ReleaseAll(<<"client", "runtime", "issuer">>, "ends"))

Hosts == InDirectory(<<>>, <<>>)
MutationCheck == InDirectory(<<>>, <<>>)
PackageSmoke ==
  InDirectory(MakeAll(<<"client">>) \o ReleaseAll(<<"client">>, "ends"), <<>>)

HttpBenchmark ==
  InDirectory(MakeAll(<<"issuer", "runtime process", "client">>),
              ReleaseAll(<<"client", "runtime process", "issuer">>, "ends"))

\* docker run --rm: the container goes with its client, or is removed by its name.
ContainerSmoke ==
  InDirectory(MakeAll(<<"container">>) \o ReleaseAll(<<"container">>, "ends"),
              <<Step("remove", "container", "unnoticed")>>)

StorageFailure ==
  InDirectory(MakeAll(<<"container", "runtime">>),
              ReleaseAll(<<"runtime", "container">>, "ends"))

Collector == <<Make("collector"), Make("runtime"), Step("release", "runtime", "ends"),
               Step("stop", "collector", "ends")>>
AuditVerify ==
  InDirectory(Collector \o Collector \o Collector \o MakeAll(<<"blocker", "runtime">>),
              <<Step("release", "runtime", "ends"), Step("stop", "collector", "ends"),
                Step("release", "blocker", "ends")>>)
AuditBursts ==
  InDirectory(Collector,
              <<Step("release", "runtime", "ends"), Step("stop", "collector", "never")>>)
Measured == MakeAll(<<"runtime">>) \o ReleaseAll(<<"runtime">>, "ends")
AuditOverhead ==
  Lab(MakeAll(<<"directory", "collector">>), Measured \o Measured,
      <<Step("stop", "collector", "never"), Step("release", "directory", "ends")>>)

Labs == [keycloak |-> Keycloak, proxy |-> Proxy, oauth |-> OAuth, oauthCode |-> OAuthCode,
         hosts |-> Hosts, mutations |-> MutationCheck, package |-> PackageSmoke,
         benchmark |-> HttpBenchmark, smoke |-> ContainerSmoke, storage |-> StorageFailure,
         audit |-> AuditVerify, bursts |-> AuditBursts, overhead |-> AuditOverhead]
-----------------------------------------------------------------------------
VARIABLES
  lab, section, at,  \* where a run of a lab stands: its block and the step in it
  made, recorded,    \* the things that exist, and those the lab knows it has made
  half,              \* what docker left behind when it failed
  unreleased,        \* things whose release failed
  dead,              \* processes that ended by themselves
  skipped,           \* the finally block, or a part of it, did not run
  code,              \* the exit status so far: 13 is that of a wait that never ends
  mishaps

labVars == <<lab, section, at, made, recorded, half, unreleased, dead, skipped, code, mishaps>>

Init ==
  /\ lab \in DOMAIN Labs
  /\ section = "setup" /\ at = 1
  /\ made = {} /\ recorded = {} /\ half = {} /\ unreleased = {} /\ dead = {}
  /\ skipped = FALSE /\ code = 0 /\ mishaps = 0

Steps == Labs[lab][section]
Running == section # "over"
Current(kinds) == Running /\ at \in DOMAIN Steps /\ Steps[at].do \in kinds
Thing == Steps[at].of

Mishap == mishaps < MaxMishaps /\ mishaps' = mishaps + 1

Goto(where, i) == section' = where /\ at' = i
\* An exception: the finally block comes next, unless it threw or there is none yet.
Throw ==
  /\ code' = 1
  /\ IF section = "body" THEN Goto("clean", 1) /\ UNCHANGED skipped
     ELSE Goto("over", 1) /\ skipped' = TRUE
-----------------------------------------------------------------------------
Makes ==
  /\ Current({"make"})
  /\ made' = made \cup {Thing} /\ recorded' = recorded \cup {Thing}
  /\ Goto(section, at + 1)
  /\ UNCHANGED <<lab, half, unreleased, dead, skipped, code, mishaps>>

\* Nothing is made; or a container or a network is, and docker fails after that.
MakeFails ==
  /\ Current({"make"}) /\ Mishap
  /\ \/ UNCHANGED <<made, half>>
     \/ /\ Thing \in Containers \cup {"network"}
        /\ made' = made \cup {Thing} /\ half' = half \cup {Thing}
  /\ Throw
  /\ UNCHANGED <<lab, recorded, unreleased, dead>>

\* An assertion of the lab fails, or a fetch, or whatever else lies between.
WorkFails ==
  /\ section = "body" /\ Mishap
  /\ Throw
  /\ UNCHANGED <<lab, made, recorded, half, unreleased, dead>>

\* What was not made is passed over.
PassOver ==
  /\ Current({"release", "stop"}) /\ Thing \notin recorded
  /\ Goto(section, at + 1)
  /\ UNCHANGED <<lab, made, recorded, half, unreleased, dead, skipped, code, mishaps>>

Wanted == Current({"remove"}) \/ (Current({"release", "stop"}) /\ Thing \in recorded)
\* Docker removes no network with a container in it; the others are on the host's.
Removable == Thing = "network" => made \cap {"db", "idp"} = {}
\* once(child, "exit") after the exit waits for another one.
NeverEnds == Current({"stop"}) /\ Thing \in dead

Release ==
  /\ Wanted /\ Removable /\ ~NeverEnds
  /\ made' = made \ {Thing} /\ recorded' = recorded \ {Thing} /\ half' = half \ {Thing}
  /\ dead' = dead \ {Thing}
  /\ Goto(section, at + 1)
  /\ UNCHANGED <<lab, unreleased, skipped, code, mishaps>>

ReleaseFails ==
  /\ Wanted /\ Steps[at].do # "stop"
  /\ IF Removable THEN Mishap ELSE UNCHANGED mishaps
  /\ unreleased' = unreleased \cup {Thing}
  /\ \/ Steps[at].fails = "ends" /\ Throw
     \/ /\ Steps[at].fails = "later" /\ Goto(section, at + 1)
        /\ code' = 1 /\ UNCHANGED skipped
     \/ /\ Steps[at].fails = "unnoticed" /\ Goto(section, at + 1)
        /\ UNCHANGED <<code, skipped>>
  /\ UNCHANGED <<lab, made, recorded, half, dead>>

\* The process exits with another status than it should: it is gone, and the lab, which
\* still has it recorded, waits for its exit again.
StopsBadly ==
  /\ Wanted /\ Current({"stop"}) /\ Steps[at].fails # "never" /\ ~NeverEnds /\ Mishap
  /\ made' = made \ {Thing} /\ dead' = dead \cup {Thing}
  /\ Throw
  /\ UNCHANGED <<lab, recorded, half, unreleased>>

\* Nothing keeps the process of the lab alive any more, and Node ends it.
Hang ==
  /\ Wanted /\ NeverEnds
  /\ Goto("over", 1) /\ code' = 13 /\ skipped' = TRUE
  /\ UNCHANGED <<lab, made, recorded, half, unreleased, dead, mishaps>>

EndOfBlock ==
  /\ Running /\ at > Len(Steps)
  /\ Goto(CASE section = "setup" -> "body" [] section = "body" -> "clean"
            [] section = "clean" -> "over", 1)
  /\ UNCHANGED <<lab, made, recorded, half, unreleased, dead, skipped, code, mishaps>>

ProcessEnds(p) ==
  /\ Running /\ p \in made \cap recorded /\ Mishap
  /\ made' = made \ {p} /\ dead' = dead \cup {p}
  /\ UNCHANGED <<lab, section, at, recorded, half, unreleased, skipped, code>>

Next ==
  \/ Makes \/ MakeFails \/ WorkFails \/ PassOver \/ Release \/ ReleaseFails \/ StopsBadly
  \/ Hang \/ EndOfBlock \/ \E p \in Processes : ProcessEnds(p)

Spec == Init /\ [][Next]_labVars
-----------------------------------------------------------------------------
\* A lab that ran its finally block to the end leaves only what could not be removed:
\* what its removal failed for, the network of a container that stayed among them, and
\* what docker left behind unrecorded.  A lab that reports success has run it to the end
\* and leaves nothing unless a removal failed unnoticed
\* (labs/keycloak/verify.mjs:740-752, labs/proxy/verify.mjs:412-434).
LabsCleanUp ==
  section = "over" =>
    LET left == made \cap Lasting
    IN  /\ ~skipped => left \subseteq unreleased \cup half
        /\ code = 0 => ~skipped /\ left \subseteq unreleased
=============================================================================
