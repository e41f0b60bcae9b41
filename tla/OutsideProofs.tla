--------------------------- MODULE OutsideProofs ----------------------------
(***************************************************************************)
(* Theorems about what MCOutside runs side by side: the access tokens and  *)
(* the issuer's keys, the release and its evidence, the containers and the *)
(* labs, for any number of requests, keys, runs, people and attempts and   *)
(* for every time.                                                         *)
(***************************************************************************)
EXTENDS MCOutside, Sequences, FiniteSetTheorems, SequenceTheorems, TLAPS
-----------------------------------------------------------------------------
\* Nothing but its own steps moves a part.
LEMMA OutsideSteps ==
  ASSUME [Next]_all
  PROVE  /\ [Access!Next]_accessVars
         /\ [Release!Next]_releaseVars
         /\ [Executor!Next]_runVars
         /\ [Labs!Next]_labVars
         /\ [Journal!Next]_journalVars
         /\ [Gate!Next]_gateVars
<1>1. [Access!Next]_accessVars
  BY DEF Next, all, hosts, Access!accessVars, Access!issuerVars, Access!verifierVars,
         Access!requestVars, LockStep, TokenStep, LimiterStep, SessionStep, SocketStep,
         ContainerStep, ToolStep, GuardStep, ReplyStep, BulkStep, ReleaseStep, WorkerStep,
         SdkStep, AccessStep, VaultStep, JournalStep, GateStep, LabStep, accessVars
<1>2. [Release!Next]_releaseVars
  BY DEF Next, all, hosts, LockStep, TokenStep, LimiterStep, SessionStep, SocketStep,
         ContainerStep, ToolStep, GuardStep, ReplyStep, BulkStep, ReleaseStep, WorkerStep,
         SdkStep, AccessStep, VaultStep, JournalStep, GateStep, LabStep, releaseVars
<1>3. [Executor!Next]_runVars
  BY DEF Next, all, work, LockStep, TokenStep, LimiterStep, SessionStep, SocketStep,
         ContainerStep, ToolStep, GuardStep, ReplyStep, BulkStep, ReleaseStep, WorkerStep,
         SdkStep, AccessStep, VaultStep, JournalStep, GateStep, LabStep, runVars
<1>4. [Labs!Next]_labVars
  BY DEF Next, all, tooling, LockStep, TokenStep, LimiterStep, SessionStep, SocketStep,
         ContainerStep, ToolStep, GuardStep, ReplyStep, BulkStep, ReleaseStep, WorkerStep,
         SdkStep, AccessStep, VaultStep, JournalStep, GateStep, LabStep, labVars
<1>5. [Journal!Next]_journalVars
  BY DEF Next, all, tooling, Journal!candidateVars, Journal!assessVars,
         Journal!journalVars, LockStep, TokenStep, LimiterStep, SessionStep, SocketStep,
         ContainerStep, ToolStep, GuardStep, ReplyStep, BulkStep, ReleaseStep, WorkerStep,
         SdkStep, AccessStep, VaultStep, JournalStep, GateStep, LabStep, journalVars
<1>6. [Gate!Next]_gateVars
  BY DEF Next, all, tooling, LockStep, TokenStep, LimiterStep, SessionStep, SocketStep,
         ContainerStep, ToolStep, GuardStep, ReplyStep, BulkStep, ReleaseStep, WorkerStep,
         SdkStep, AccessStep, VaultStep, JournalStep, GateStep, LabStep, gateVars
<1> QED
  BY <1>1, <1>2, <1>3, <1>4, <1>5, <1>6
-----------------------------------------------------------------------------
(***************************************************************************)
(* Access tokens                                                           *)
(***************************************************************************)
\* Keys that the issuer had at some moment since a given one: what it has withdrawn
\* of them, and what it has published besides, came no earlier.
KeysSince(keys, since) ==
  /\ keys \subseteq Keys
  /\ \A k \in keys : retired[k] # None => since <= retired[k]
  /\ \A k \in Keys \ keys :
       published[k] = None \/ retired[k] # None \/ since <= published[k]

AccessTypeOK ==
  /\ moment \in Nat /\ signing \in Keys /\ published[signing] # None
  /\ published \in [Keys -> {None} \cup Nat] /\ retired \in [Keys -> {None} \cup Nat]
  /\ DOMAIN minted = Tokens
  /\ \A t \in Tokens : minted[t] # None =>
       /\ minted[t].key \in Keys /\ published[minted[t].key] # None
       /\ minted[t].iat \in Nat /\ minted[t].exp \in Nat
  /\ stage \in [Requests -> {"idle", "waiting", "admitted", "unknown", "invalid",
                             "unverified", "served", "ran", "denied"}]
  /\ DOMAIN shown = Requests /\ DOMAIN principal = Requests /\ DOMAIN visible = Requests

RequestIsJudged(r) ==
  /\ stage[r] = "idle" => shown[r] = None
  /\ stage[r] = "waiting" => shown[r] \in Access!Held
  /\ stage[r] \in {"admitted", "served"} /\ shown[r] # None =>
       /\ shown[r] \in Tokens /\ minted[shown[r]] # None
       /\ principal[r] = Access!Identity(shown[r])
       /\ minted[shown[r]].access
       /\ minted[shown[r]].exp - minted[shown[r]].iat <= MaxTokenAge

VerifierInv ==
  /\ keySet # None =>
       /\ keySet.time \in Nat /\ keySet.time <= moment
       /\ KeysSince(keySet.keys, keySet.time - 1)
  /\ fetch # None =>
       /\ fetch.asked \in Nat /\ fetch.asked <= moment /\ moment <= fetch.asked + 1
       /\ fetch.answer # None => KeysSince(fetch.answer, fetch.asked)

AccessInv ==
  /\ AccessTypeOK /\ VerifierInv
  /\ \A r \in Requests : RequestIsJudged(r)

Honoured ==
  Access!OnlyUnderItsKeys /\ Access!NewKeysAreFound /\ Access!RunsOnlyWhileGood

LEMMA AccessInit ==
  ASSUME Access!Init
  PROVE  AccessInv
<1>1. FirstKey \in Keys /\ None # 0
  BY OutsideAssumption, NamesAssumption
<1> QED
  BY <1>1 DEF Access!Init, AccessInv, AccessTypeOK, VerifierInv, RequestIsJudged

\* A step that neither judges nor runs anything.
LEMMA NothingMoves ==
  ASSUME UNCHANGED stage
  PROVE  Honoured
  BY DEF Honoured, Access!OnlyUnderItsKeys, Access!NewKeysAreFound,
         Access!RunsOnlyWhileGood, Access!Moves

\* The issuer's keys come and go at the moment, which is no earlier than any.
LEMMA KeysMove ==
  ASSUME AccessTypeOK, NEW keys, NEW since \in Int, since <= moment, KeysSince(keys, since),
         \A k \in Keys : published'[k] = published[k] \/ published'[k] = moment,
         \A k \in Keys : retired'[k] = retired[k] \/ (retired'[k] = moment /\ moment # None)
  PROVE  KeysSince(keys, since)'
  BY DEF AccessTypeOK, KeysSince

\* A step of the issuer alone.
LEMMA IssuerMoves ==
  ASSUME AccessInv, UNCHANGED <<moment, keySet, fetch, stage, shown, principal, visible>>,
         published' \in [Keys -> {None} \cup Nat], retired' \in [Keys -> {None} \cup Nat],
         \A k \in Keys : published'[k] = published[k] \/ published'[k] = moment,
         \A k \in Keys : retired'[k] = retired[k] \/ retired'[k] = moment,
         signing' \in Keys, published'[signing'] # None, DOMAIN minted' = Tokens,
         \A t \in Tokens : minted[t] # None => minted'[t] = minted[t],
         \A t \in Tokens : minted'[t] # None /\ minted[t] = None =>
           /\ minted'[t].key \in Keys /\ published[minted'[t].key] # None
           /\ minted'[t].iat \in Nat /\ minted'[t].exp \in Nat
  PROVE  AccessInv' /\ Honoured
<1>1. moment # None /\ \A k \in Keys : published[k] # None => published'[k] # None
  BY NamesAssumption DEF AccessInv, AccessTypeOK
<1>2. AccessTypeOK'
  BY <1>1 DEF AccessInv, AccessTypeOK
<1>3. VerifierInv'
  <2>1. keySet # None => /\ keySet.time \in Nat /\ keySet.time <= moment
                         /\ KeysSince(keySet.keys, keySet.time - 1)'
    <3>1. CASE keySet # None
      <4>1. /\ keySet.time \in Nat /\ keySet.time <= moment
            /\ KeysSince(keySet.keys, keySet.time - 1) /\ moment \in Nat
        BY <3>1 DEF AccessInv, VerifierInv, AccessTypeOK
      <4>2. keySet.time - 1 \in Int /\ keySet.time - 1 <= moment
        BY <4>1
      <4> QED
        BY <1>1, <4>1, <4>2, KeysMove DEF AccessInv
    <3> QED
      BY <3>1
  <2>2. fetch # None /\ fetch.answer # None => KeysSince(fetch.answer, fetch.asked)'
    BY <1>1, KeysMove DEF AccessInv, VerifierInv
  <2> QED
    BY <2>1, <2>2 DEF AccessInv, VerifierInv
<1>4. ASSUME NEW r \in Requests PROVE RequestIsJudged(r)'
  <2>1. RequestIsJudged(r)
    BY DEF AccessInv
  <2>2. shown[r] \in Access!Held => shown[r] \in Access!Held'
    BY DEF Access!Held
  <2> QED
    BY <2>1, <2>2 DEF RequestIsJudged, Access!Identity
<1> QED
  BY <1>2, <1>3, <1>4, NothingMoves DEF AccessInv

\* A request with a key set that is known is judged as it should be.
LEMMA JudgedWell ==
  ASSUME AccessInv, NEW t \in Access!Held, NEW keys, NEW since \in Int,
         KeysSince(keys, since)
  PROVE  /\ Access!Judged(t, keys) \in {"unknown", "admitted", "invalid"}
         /\ Access!Judged(t, keys) = "admitted" =>
              /\ t \in Tokens /\ minted[t] # None /\ minted[t].access
              /\ minted[t].exp - minted[t].iat <= MaxTokenAge
              /\ minted[t].key \in Keys
              /\ retired[minted[t].key] # None => since <= retired[minted[t].key]
         /\ Access!Judged(t, keys) = "unknown" /\ t # Alien =>
              /\ minted[t].key \in Keys
              /\ retired[minted[t].key] # None \/ since <= published[minted[t].key]
<1>1. t = Alien \/ (t \in Tokens /\ minted[t] # None)
  BY DEF Access!Held
<1>2. None \notin keys
  BY NamesAssumption DEF KeysSince
<1>3. CASE Access!KeyOf(t) \in keys
  <2>1. t # Alien /\ minted[t].key \in keys
    BY <1>2, <1>3 DEF Access!KeyOf
  <2>2. Access!Judged(t, keys) = IF Access!ClaimsHold(t) THEN "admitted" ELSE "invalid"
    BY <1>3 DEF Access!Judged
  <2>3. Access!ClaimsHold(t) => minted[t].access
          /\ minted[t].exp - minted[t].iat <= MaxTokenAge
    BY DEF Access!ClaimsHold
  <2> QED
    BY <1>1, <2>1, <2>2, <2>3 DEF KeysSince
<1>4. CASE Access!KeyOf(t) \notin keys
  <2>1. Access!Judged(t, keys) = "unknown"
    BY <1>4 DEF Access!Judged
  <2>2. t # Alien => /\ minted[t].key \in Keys \ keys /\ published[minted[t].key] # None
    BY <1>1, <1>4 DEF Access!KeyOf, AccessInv, AccessTypeOK
  <2> QED
    BY <2>1, <2>2 DEF KeysSince
<1> QED
  BY <1>3, <1>4

LEMMA RequestKept ==
  ASSUME NEW r \in Requests, RequestIsJudged(r), UNCHANGED minted,
         stage'[r] = stage[r], shown'[r] = shown[r], principal'[r] = principal[r]
  PROVE  RequestIsJudged(r)'
  BY DEF RequestIsJudged, Access!Held, Access!Identity

LEMMA VerifySteps ==
  ASSUME AccessInv, NEW r \in Requests, NEW t \in Access!Held, Access!Verify(r, t)
  PROVE  AccessInv' /\ Honoured
<1>1. /\ stage[r] = "idle" /\ shown' = [shown EXCEPT ![r] = t]
      /\ UNCHANGED <<moment, published, retired, signing, minted, keySet, visible>>
  BY DEF Access!Verify, Access!issuerVars
<1>t. /\ DOMAIN shown = Requests /\ DOMAIN principal = Requests /\ moment \in Nat
      /\ stage \in [Requests -> {"idle", "waiting", "admitted", "unknown", "invalid",
                                 "unverified", "served", "ran", "denied"}]
  BY DEF AccessInv, AccessTypeOK
<1>2. ASSUME NEW q \in Requests \ {r}, stage'[q] = stage[q], principal'[q] = principal[q]
      PROVE  RequestIsJudged(q)'
  <2>1. shown'[q] = shown[q] /\ RequestIsJudged(q)
    BY <1>1, <1>t DEF AccessInv
  <2> QED
    BY <1>1, <1>2, <2>1, RequestKept
<1>3. shown'[r] = t
  BY <1>1, <1>t
<1>4. CASE Access!Younger(CacheMaxAge)
           /\ ((keySet # None /\ Access!KeyOf(t) \in keySet.keys) \/ Access!Younger(1))
  <2> DEFINE j == Access!Judged(t, keySet.keys)
  <2>1. /\ stage' = [stage EXCEPT ![r] = j] /\ fetch' = fetch
        /\ principal' = [principal EXCEPT ![r] =
             IF stage'[r] = "admitted" THEN Access!Identity(t) ELSE None]
    BY <1>4 DEF Access!Verify
  <2>2. keySet # None /\ moment < keySet.time + CacheMaxAge /\ keySet.time \in Nat
        /\ KeysSince(keySet.keys, keySet.time - 1)
    BY <1>4 DEF Access!Younger, AccessInv, VerifierInv
  <2>3. keySet.time - 1 \in Int
    BY <2>2
  <2>4. /\ j \in {"unknown", "admitted", "invalid"}
        /\ j = "admitted" =>
              /\ t \in Tokens /\ minted[t] # None /\ minted[t].access
              /\ minted[t].exp - minted[t].iat <= MaxTokenAge
              /\ minted[t].key \in Keys
              /\ retired[minted[t].key] # None => keySet.time - 1 <= retired[minted[t].key]
        /\ j = "unknown" /\ t # Alien =>
              /\ minted[t].key \in Keys
              /\ retired[minted[t].key] # None
                 \/ keySet.time - 1 <= published[minted[t].key]
    BY <2>2, <2>3, JudgedWell
  <2>5. j = "unknown" => moment < keySet.time + 1
    <3>1. Access!KeyOf(t) \in keySet.keys => j # "unknown"
      BY DEF Access!Judged
    <3> QED
      BY <1>4, <3>1 DEF Access!Younger
  <2>6. minted' = minted
    BY <1>1
  <2> HIDE DEF j
  <2>7. stage'[r] = j /\ (j = "admitted" => principal'[r] = Access!Identity(t))
        /\ \A q \in Requests \ {r} : stage'[q] = stage[q] /\ principal'[q] = principal[q]
    BY <2>1, <1>t
  <2>8. RequestIsJudged(r)'
    <3>1. Access!Identity(t)' = Access!Identity(t)
      BY <2>6 DEF Access!Identity
    <3> QED
      BY <1>3, <2>4, <2>6, <2>7, <3>1 DEF RequestIsJudged
  <2>9. AccessTypeOK' /\ VerifierInv'
    <3>1. AccessTypeOK'
      BY <1>1, <1>t, <2>1, <2>4 DEF AccessInv, AccessTypeOK
    <3>2. VerifierInv'
      BY <1>1, <2>1 DEF AccessInv, VerifierInv, KeysSince
    <3> QED
      BY <3>1, <3>2
  <2>10. /\ CacheMaxAge \in Nat /\ published \in [Keys -> {None} \cup Nat]
         /\ retired \in [Keys -> {None} \cup Nat]
    BY OutsideAssumption DEF AccessInv, AccessTypeOK
  <2>11. Access!OnlyUnderItsKeys
    <3>1. ASSUME NEW q \in Requests, stage[q] # "admitted", stage'[q] = "admitted",
                 retired[minted[shown'[q]].key] # None
          PROVE  moment < retired[minted[shown'[q]].key] + CacheMaxAge + 1
      <4>1. q = r /\ j = "admitted" /\ shown'[q] = t
        BY <2>7, <3>1, <1>3
      <4>2. keySet.time - 1 <= retired[minted[t].key] /\ retired[minted[t].key] \in Nat
        BY <2>4, <2>10, <3>1, <4>1
      <4> QED
        BY <1>t, <2>2, <2>10, <4>1, <4>2
    <3> QED
      BY <3>1 DEF Access!OnlyUnderItsKeys, Access!Moves
  <2>12. Access!NewKeysAreFound
    <3>1. ASSUME NEW q \in Requests, stage[q] # "unknown", stage'[q] = "unknown",
                 shown'[q] # Alien,
                 retired[minted[shown'[q]].key] = None
          PROVE  moment < published[minted[shown'[q]].key] + 1 + 1
      <4>1. q = r /\ j = "unknown" /\ shown'[q] = t
        BY <2>7, <3>1, <1>3
      <4>2. keySet.time - 1 <= published[minted[t].key] /\ moment < keySet.time + 1
        BY <2>4, <2>5, <3>1, <4>1
      <4>3. published[minted[t].key] \in Nat
        <5>1. t \in Tokens /\ minted[t] # None
          BY <3>1, <4>1 DEF Access!Held
        <5> QED
          BY <5>1 DEF AccessInv, AccessTypeOK
      <4> QED
        BY <1>t, <2>2, <4>1, <4>2, <4>3
    <3> QED
      BY <3>1 DEF Access!NewKeysAreFound, Access!Moves
  <2>13. Access!RunsOnlyWhileGood
    BY <2>4, <2>7 DEF Access!RunsOnlyWhileGood, Access!Moves
  <2> QED
    BY <1>2, <2>7, <2>8, <2>9, <2>11, <2>12, <2>13 DEF AccessInv, Honoured
<1>5. CASE ~(Access!Younger(CacheMaxAge)
             /\ ((keySet # None /\ Access!KeyOf(t) \in keySet.keys) \/ Access!Younger(1)))
  <2>1. /\ stage' = [stage EXCEPT ![r] = "waiting"] /\ principal' = principal
        /\ fetch' = IF fetch = None THEN [asked |-> moment, answer |-> None] ELSE fetch
    BY <1>5 DEF Access!Verify
  <2>2. stage'[r] = "waiting" /\ \A q \in Requests \ {r} : stage'[q] = stage[q]
    BY <2>1, <1>t
  <2>3. RequestIsJudged(r)'
    <3>1. Access!Held' = Access!Held
      BY <1>1 DEF Access!Held
    <3> QED
      BY <1>3, <2>2, <3>1 DEF RequestIsJudged
  <2>4. AccessTypeOK'
    BY <1>1, <1>t, <2>1 DEF AccessInv, AccessTypeOK
  <2>5. VerifierInv'
    BY <1>1, <1>t, <2>1 DEF AccessInv, VerifierInv, KeysSince
  <2>6. Honoured
    BY <2>2 DEF Honoured, Access!OnlyUnderItsKeys, Access!NewKeysAreFound,
                Access!RunsOnlyWhileGood, Access!Moves
  <2> QED
    BY <1>2, <2>1, <2>2, <2>3, <2>4, <2>5, <2>6 DEF AccessInv
<1> QED
  BY <1>4, <1>5

LEMMA DeliverSteps ==
  ASSUME AccessInv, Access!Deliver
  PROVE  AccessInv' /\ Honoured
<1>1. /\ fetch # None /\ fetch.answer # None /\ fetch' = None
      /\ keySet' = [keys |-> fetch.answer, time |-> moment]
      /\ UNCHANGED <<moment, published, retired, signing, minted, shown, visible>>
  BY DEF Access!Deliver, Access!issuerVars
<1>2. /\ stage' = [r \in Requests |->
            IF r \in Access!Waiting
            THEN Access!Judged(shown[r], fetch.answer) ELSE stage[r]]
      /\ principal' = [r \in Requests |->
            IF r \in Access!Waiting /\ stage'[r] = "admitted"
            THEN Access!Identity(shown[r]) ELSE principal[r]]
  BY DEF Access!Deliver
<1>3. /\ fetch.asked \in Nat /\ fetch.asked <= moment /\ moment <= fetch.asked + 1
      /\ KeysSince(fetch.answer, fetch.asked) /\ moment \in Nat
  BY <1>1 DEF AccessInv, VerifierInv, AccessTypeOK
<1>4. ASSUME NEW r \in Requests, stage[r] = "waiting"
      PROVE  /\ shown[r] \in Access!Held
             /\ stage'[r] \in {"unknown", "admitted", "invalid"}
             /\ stage'[r] = "admitted" =>
                  /\ shown[r] \in Tokens /\ minted[shown[r]] # None
                  /\ minted[shown[r]].access
                  /\ minted[shown[r]].exp - minted[shown[r]].iat <= MaxTokenAge
                  /\ minted[shown[r]].key \in Keys
                  /\ retired[minted[shown[r]].key] # None =>
                       fetch.asked <= retired[minted[shown[r]].key]
                  /\ principal'[r] = Access!Identity(shown[r])
             /\ stage'[r] = "unknown" /\ shown[r] # Alien =>
                  /\ minted[shown[r]].key \in Keys
                  /\ retired[minted[shown[r]].key] # None
                     \/ fetch.asked <= published[minted[shown[r]].key]
  <2>1. shown[r] \in Access!Held /\ r \in Access!Waiting
    BY <1>4 DEF AccessInv, RequestIsJudged, Access!Waiting
  <2>2. stage'[r] = Access!Judged(shown[r], fetch.answer)
        /\ (stage'[r] = "admitted" => principal'[r] = Access!Identity(shown[r]))
    BY <1>2, <2>1
  <2>3. fetch.asked \in Int
    BY <1>3
  <2> QED
    BY <1>3, <2>1, <2>2, <2>3, JudgedWell
<1>5. ASSUME NEW r \in Requests, stage[r] # "waiting"
      PROVE  stage'[r] = stage[r] /\ principal'[r] = principal[r]
  BY <1>2, <1>5 DEF Access!Waiting
<1>6. ASSUME NEW r \in Requests PROVE RequestIsJudged(r)'
  <2>1. CASE stage[r] = "waiting"
    <3>1. Access!Identity(shown[r])' = Access!Identity(shown[r])
      BY <1>1 DEF Access!Identity
    <3> QED
      BY <1>1, <1>4, <2>1, <3>1 DEF RequestIsJudged
  <2>2. CASE stage[r] # "waiting"
    BY <1>1, <1>5, <2>2, RequestKept DEF AccessInv
  <2> QED
    BY <2>1, <2>2
<1>7. AccessTypeOK'
  <2>1. stage' \in [Requests -> {"idle", "waiting", "admitted", "unknown", "invalid",
                                 "unverified", "served", "ran", "denied"}]
    <3>1. \A r \in Requests :
            stage'[r] \in {"idle", "waiting", "admitted", "unknown", "invalid",
                           "unverified", "served", "ran", "denied"}
      BY <1>4, <1>5 DEF AccessInv, AccessTypeOK
    <3> QED
      BY <1>2, <3>1
  <2> QED
    BY <1>1, <1>2, <2>1 DEF AccessInv, AccessTypeOK
<1>8. VerifierInv'
  <2>1. KeysSince(fetch.answer, moment - 1)
    BY <1>3 DEF KeysSince, AccessInv, AccessTypeOK
  <2>2. keySet'.time = moment /\ keySet'.keys = fetch.answer
    BY <1>1
  <2>3. KeysSince(keySet.keys, keySet.time - 1)'
    BY <1>1, <2>1, <2>2 DEF KeysSince
  <2> QED
    BY <1>1, <1>3, <2>2, <2>3 DEF VerifierInv
<1>9. /\ CacheMaxAge \in Nat \ {0} /\ published \in [Keys -> {None} \cup Nat]
      /\ retired \in [Keys -> {None} \cup Nat]
  BY OutsideAssumption DEF AccessInv, AccessTypeOK
<1>10. Access!OnlyUnderItsKeys
  <2>1. ASSUME NEW q \in Requests, stage[q] # "admitted", stage'[q] = "admitted",
               retired[minted[shown[q]].key] # None
        PROVE  moment < retired[minted[shown[q]].key] + CacheMaxAge + 1
    <3>1. stage[q] = "waiting"
      BY <1>5, <2>1
    <3>2. /\ fetch.asked <= retired[minted[shown[q]].key]
          /\ retired[minted[shown[q]].key] \in Nat
      BY <1>4, <1>9, <2>1, <3>1
    <3> QED
      BY <1>3, <1>9, <3>2
  <2> QED
    BY <1>1, <2>1 DEF Access!OnlyUnderItsKeys, Access!Moves
<1>11. Access!NewKeysAreFound
  <2>1. ASSUME NEW q \in Requests, stage[q] # "unknown", stage'[q] = "unknown",
               shown[q] # Alien,
               retired[minted[shown[q]].key] = None
        PROVE  moment < published[minted[shown[q]].key] + 1 + 1
    <3>1. stage[q] = "waiting"
      BY <1>5, <2>1
    <3>2. fetch.asked <= published[minted[shown[q]].key]
      BY <1>4, <2>1, <3>1
    <3>3. published[minted[shown[q]].key] \in Nat
      <4>1. shown[q] \in Tokens /\ minted[shown[q]] # None
        BY <1>4, <2>1, <3>1 DEF Access!Held
      <4> QED
        BY <4>1 DEF AccessInv, AccessTypeOK
    <3> QED
      BY <1>3, <3>2, <3>3
  <2> QED
    BY <1>1, <2>1 DEF Access!NewKeysAreFound, Access!Moves
<1>12. Access!RunsOnlyWhileGood
  BY <1>4, <1>5 DEF Access!RunsOnlyWhileGood, Access!Moves
<1> QED
  BY <1>6, <1>7, <1>8, <1>10, <1>11, <1>12 DEF AccessInv, Honoured

LEMMA InvokeSteps ==
  ASSUME AccessInv, NEW r \in Requests, NEW tool \in {"document"}, Access!Invoke(r, tool)
  PROVE  AccessInv' /\ Honoured
<1>t. /\ DOMAIN shown = Requests /\ DOMAIN principal = Requests /\ DOMAIN visible = Requests
      /\ moment \in Nat
      /\ stage \in [Requests -> {"idle", "waiting", "admitted", "unknown", "invalid",
                                 "unverified", "served", "ran", "denied"}]
      /\ None \notin Nat
  BY NamesAssumption DEF AccessInv, AccessTypeOK
<1> DEFINE may == tool \in visible[r] /\ Access!MayInvoke(principal[r], tool)
<1>1. /\ stage[r] = "served"
      /\ stage' = [stage EXCEPT ![r] = IF may THEN "ran" ELSE "denied"]
      /\ visible' = [visible EXCEPT ![r] = IF stage'[r] = "ran" THEN {tool} ELSE {}]
      /\ UNCHANGED <<moment, published, retired, signing, minted, keySet, fetch, shown,
                     principal>>
  BY DEF Access!Invoke, Access!issuerVars, Access!verifierVars
<1> HIDE DEF may
<1>2. /\ stage'[r] = (IF may THEN "ran" ELSE "denied") /\ (may => visible'[r] = {tool})
      /\ \A q \in Requests \ {r} : stage'[q] = stage[q]
  BY <1>1, <1>t
<1>3. AccessTypeOK'
  BY <1>1, <1>t DEF AccessInv, AccessTypeOK
<1>4. VerifierInv'
  BY <1>1 DEF AccessInv, VerifierInv, KeysSince
<1>5. ASSUME NEW q \in Requests PROVE RequestIsJudged(q)'
  <2>1. CASE q = r
    BY <1>2, <2>1 DEF RequestIsJudged
  <2>2. CASE q # r
    BY <1>1, <1>2, <2>2, RequestKept DEF AccessInv
  <2> QED
    BY <2>1, <2>2
<1>6. ASSUME may, shown[r] # None
      PROVE  LET c == minted[shown[r]]
             IN  /\ moment < c.exp /\ moment - c.iat <= MaxTokenAge
                 /\ c.exp - c.iat <= MaxTokenAge
                 /\ c.access /\ [document |-> {"read"}][tool] \subseteq c.scopes
  <2> DEFINE c == minted[shown[r]]
  <2>1. /\ shown[r] \in Tokens /\ c # None
        /\ principal[r] = [scopes |-> c.scopes, expiresAt |-> c.exp]
        /\ c.access /\ c.exp - c.iat <= MaxTokenAge
    BY <1>1, <1>6 DEF AccessInv, RequestIsJudged, Access!Identity
  <2>2. c.iat \in Nat /\ c.exp \in Nat /\ MaxTokenAge \in Nat
    BY <2>1, OutsideAssumption DEF AccessInv, AccessTypeOK
  <2>3. principal[r].expiresAt = c.exp /\ principal[r].scopes = c.scopes
    BY <2>1
  <2>4. c.exp > moment /\ [document |-> {"read"}][tool] \subseteq c.scopes
    <3>1. /\ principal[r].expiresAt = None \/ principal[r].expiresAt > moment
          /\ [document |-> {"read"}][tool] \subseteq principal[r].scopes
      BY <1>6 DEF may, Access!MayInvoke
    <3>2. c.exp # None
      BY <2>2, <1>t
    <3> HIDE DEF c
    <3> QED
      BY <2>3, <3>1, <3>2
  <2>5. moment - c.iat <= MaxTokenAge
    <3> HIDE DEF c
    <3> QED
      BY <1>t, <2>1, <2>2, <2>4
  <2>6. moment < c.exp
    <3> HIDE DEF c
    <3> QED
      BY <1>t, <2>2, <2>4
  <2> QED
    BY <2>1, <2>4, <2>5, <2>6
<1>7. Access!RunsOnlyWhileGood
  <2>1. ASSUME NEW q \in Requests, stage[q] # "ran", stage'[q] = "ran", shown[q] # None
        PROVE  LET c == minted[shown[q]]
               IN  /\ moment < c.exp /\ moment - c.iat <= MaxTokenAge
                   /\ c.exp - c.iat <= MaxTokenAge
                   /\ c.access /\ \A tl \in visible'[q] :
                      [document |-> {"read"}][tl] \subseteq c.scopes
    <3>1. q = r /\ may /\ visible'[r] = {tool}
      BY <1>2, <2>1
    <3> QED
      BY <1>6, <2>1, <3>1
  <2> QED
    BY <2>1 DEF Access!RunsOnlyWhileGood, Access!Moves
<1>8. Access!OnlyUnderItsKeys /\ Access!NewKeysAreFound
  BY <1>2 DEF Access!OnlyUnderItsKeys, Access!NewKeysAreFound, Access!Moves
<1> QED
  BY <1>3, <1>4, <1>5, <1>7, <1>8 DEF AccessInv, Honoured

\* A step of the requests that leaves the verifier and every identity alone, and judges
\* none.
LEMMA NotJudged ==
  ASSUME AccessInv,
         UNCHANGED <<moment, published, retired, signing, minted, keySet, shown>>,
         fetch' = fetch \/ fetch' = None,
         stage' \in [Requests -> {"idle", "waiting", "admitted", "unknown", "invalid",
                                  "unverified", "served", "ran", "denied"}],
         DOMAIN principal' = Requests, DOMAIN visible' = Requests,
         \A r \in Requests :
           \/ stage'[r] = stage[r] /\ principal'[r] = principal[r]
           \/ stage[r] = "waiting" /\ stage'[r] = "unverified"
           \/ stage[r] = "idle" /\ stage'[r] = "admitted"
           \/ stage[r] = "admitted" /\ stage'[r] = "served" /\ principal'[r] = principal[r]
  PROVE  AccessInv' /\ Honoured
<1>1. AccessTypeOK'
  BY DEF AccessInv, AccessTypeOK
<1>2. VerifierInv'
  BY DEF AccessInv, VerifierInv, KeysSince
<1>3. ASSUME NEW r \in Requests PROVE RequestIsJudged(r)'
  <2>1. RequestIsJudged(r)
    BY DEF AccessInv
  <2> QED
    BY <2>1 DEF RequestIsJudged, Access!Held, Access!Identity
<1>4. Honoured
  <2>1. \A r \in Requests : stage[r] = "idle" => shown[r] = None
    BY DEF AccessInv, RequestIsJudged
  <2> QED
    BY <2>1 DEF Honoured, Access!OnlyUnderItsKeys, Access!NewKeysAreFound,
                Access!RunsOnlyWhileGood, Access!Moves
<1> QED
  BY <1>1, <1>2, <1>3, <1>4 DEF AccessInv

LEMMA AccessNext ==
  ASSUME AccessInv, [Access!Next]_accessVars
  PROVE  AccessInv' /\ Honoured
<1>t. /\ moment \in Nat /\ signing \in Keys /\ published[signing] # None
      /\ DOMAIN minted = Tokens
      /\ published \in [Keys -> {None} \cup Nat] /\ retired \in [Keys -> {None} \cup Nat]
      /\ stage \in [Requests -> {"idle", "waiting", "admitted", "unknown", "invalid",
                                 "unverified", "served", "ran", "denied"}]
      /\ DOMAIN shown = Requests /\ DOMAIN principal = Requests /\ DOMAIN visible = Requests
      /\ None \notin Nat
  BY NamesAssumption DEF AccessInv, AccessTypeOK
<1>1. ASSUME NEW k \in Keys, Access!Publish(k) PROVE AccessInv' /\ Honoured
  BY <1>1, <1>t, IssuerMoves DEF Access!Publish, Access!verifierVars, Access!requestVars
<1>2. ASSUME NEW k \in Keys, Access!SignWith(k) PROVE AccessInv' /\ Honoured
  BY <1>2, <1>t, IssuerMoves DEF Access!SignWith, Access!KeySet, Access!verifierVars,
                                 Access!requestVars
<1>3. ASSUME NEW k \in Keys, Access!Retire(k) PROVE AccessInv' /\ Honoured
  BY <1>3, <1>t, IssuerMoves DEF Access!Retire, Access!verifierVars, Access!requestVars
<1>4. ASSUME NEW t \in Tokens, NEW g \in Given, Access!Mint(t, g)
      PROVE  AccessInv' /\ Honoured
  <2>1. MaxTokenAge \in Nat
    BY OutsideAssumption
  <2>2. g.ahead \in Nat /\ g.lifetime \in Nat
    BY <2>1 DEF Given, Grant
  <2>3. moment + g.ahead \in Nat /\ moment + g.ahead + g.lifetime \in Nat
    BY <1>t, <2>2
  <2>4. minted[t] = None /\ minted' = [minted EXCEPT ![t] =
             [key |-> signing, access |-> g.access, scopes |-> g.scopes,
              iat |-> moment + g.ahead, exp |-> moment + g.ahead + g.lifetime]]
        /\ UNCHANGED <<moment, published, retired, signing, keySet, fetch, stage, shown,
                       principal, visible>>
    BY <1>4 DEF Access!Mint, Access!verifierVars, Access!requestVars
  <2>5. \A u \in Tokens :
          IF u = t
          THEN minted'[u].key = signing /\ minted'[u].iat \in Nat /\ minted'[u].exp \in Nat
          ELSE minted'[u] = minted[u]
    BY <1>t, <2>3, <2>4
  <2> QED
    BY <1>t, <2>4, <2>5, IssuerMoves
<1>5. ASSUME Access!Answer PROVE AccessInv' /\ Honoured
  <2>1. /\ fetch # None /\ fetch' = [fetch EXCEPT !.answer = Access!KeySet]
        /\ UNCHANGED <<moment, published, retired, signing, minted, keySet, stage, shown,
                       principal, visible>>
    BY <1>5 DEF Access!Answer, Access!issuerVars, Access!requestVars
  <2>2. KeysSince(Access!KeySet, fetch.asked)
    BY DEF KeysSince, Access!KeySet
  <2>3. VerifierInv'
    BY <2>1, <2>2 DEF AccessInv, VerifierInv, KeysSince
  <2>4. AccessTypeOK'
    BY <2>1 DEF AccessInv, AccessTypeOK
  <2>5. \A r \in Requests : RequestIsJudged(r)'
    BY <2>1, RequestKept DEF AccessInv
  <2> QED
    BY <2>1, <2>3, <2>4, <2>5, NothingMoves DEF AccessInv
<1>6. ASSUME Access!FetchFails PROVE AccessInv' /\ Honoured
  BY <1>6, <1>t, NotJudged DEF Access!FetchFails, Access!Waiting, Access!issuerVars
<1>7. ASSUME Access!Tick PROVE AccessInv' /\ Honoured
  <2>1. /\ moment' = moment + 1 /\ (fetch # None => moment < fetch.asked + 1)
        /\ UNCHANGED <<published, retired, signing, minted, keySet, fetch, stage, shown,
                       principal, visible>>
    BY <1>7 DEF Access!Tick, Access!issuerVars, Access!verifierVars, Access!requestVars
  <2>2. AccessTypeOK'
    BY <2>1 DEF AccessInv, AccessTypeOK
  <2>3. VerifierInv'
    BY <1>t, <2>1 DEF AccessInv, VerifierInv, KeysSince
  <2>4. \A r \in Requests : RequestIsJudged(r)'
    BY <2>1, RequestKept DEF AccessInv
  <2> QED
    BY <2>1, <2>2, <2>3, <2>4, NothingMoves DEF AccessInv
<1>8. ASSUME NEW r \in Requests, Access!ServeLocal(r) PROVE AccessInv' /\ Honoured
  <2>1. /\ stage[r] = "idle" /\ stage' = [stage EXCEPT ![r] = "admitted"]
        /\ principal' = [principal EXCEPT ![r] = [scopes |-> {"read"}, expiresAt |-> None]]
        /\ UNCHANGED <<moment, published, retired, signing, minted, keySet, fetch, shown,
                       visible>>
    BY <1>8 DEF Access!ServeLocal, Access!issuerVars, Access!verifierVars
  <2> QED
    BY <1>t, <2>1, NotJudged
<1>9. ASSUME NEW r \in Requests, Access!CreateServer(r) PROVE AccessInv' /\ Honoured
  <2>1. /\ stage[r] = "admitted" /\ stage' = [stage EXCEPT ![r] = "served"]
        /\ DOMAIN visible' = Requests
        /\ UNCHANGED <<moment, published, retired, signing, minted, keySet, fetch, shown,
                       principal>>
    BY <1>9, <1>t DEF Access!CreateServer, Access!issuerVars, Access!verifierVars
  <2> QED
    BY <1>t, <2>1, NotJudged
<1>10. ASSUME UNCHANGED accessVars PROVE AccessInv' /\ Honoured
  BY <1>10, <1>t, NotJudged DEF accessVars
<1> QED
  BY <1>1, <1>2, <1>3, <1>4, <1>5, <1>6, <1>7, <1>8, <1>9, <1>10, DeliverSteps,
     VerifySteps, InvokeSteps
     DEF Access!Next

\* At every moment and in every order of the issuer's, the verifier's and the requests'
\* steps: a token is admitted only under a key that the issuer has or had until lately,
\* a token of a key the issuer has is turned away as unknown only just after the key
\* came, and a tool runs only for a token that is alive and has the tool's scopes
\* (identity.ts:8-37, policy.ts:16-24).
THEOREM TokensHonoured == Spec => TokensAreHonoured
<1>1. Init => AccessInv
  BY AccessInit DEF Init
<1>2. AccessInv /\ [Next]_all => AccessInv'
  BY OutsideSteps, AccessNext
<1>3. AccessInv /\ [Next]_all =>
        [Access!OnlyUnderItsKeys /\ Access!NewKeysAreFound /\ Access!RunsOnlyWhileGood]_(
          Access!accessVars)
  BY OutsideSteps, AccessNext DEF Honoured
<1> QED
  BY <1>1, <1>2, <1>3, PTL DEF Spec, TokensAreHonoured, Access!TokensAreHonoured
-----------------------------------------------------------------------------
(***************************************************************************)
(* The release                                                             *)
(***************************************************************************)
ApprovedByAnother(r) == \E p \in reviews[r] \cap Reviewers : p # actor[r]

RunInv(r) ==
  /\ job[r] # "idle" => attempt[r] # 0
  /\ job[r] = "command" => ApprovedByAnother(r)
  /\ job[r] \in {"smoke", "verified"} => registry = <<r, receipt[r]>>
  /\ receipt[r] # 0 => registry = <<r, receipt[r]>>
  /\ \A n \in 1..MaxAttempts : registry = <<r, n>> => attempt[r] # 0 /\ ApprovedByAnother(r)

ReleaseInv ==
  /\ Release!TypeOK
  /\ job \in [Requests -> {"idle", "preflight", "approval", "publish", "command", "verify",
                           "smoke", "failed", "verified"}]
  /\ actor \in [Requests -> People \cup {None}]
  /\ failed \in [Requests -> {"preflight", "approval", "verify"}]
  /\ receipt \in [Requests -> 0..MaxAttempts]
  /\ \A r \in Requests : RunInv(r)

LEMMA ReleaseInit ==
  ASSUME Release!Init
  PROVE  ReleaseInv
<1>1. MaxAttempts \in Nat /\ \A r \in Requests, n \in 1..MaxAttempts : None # <<r, n>>
  BY OutsideAssumption, NamesAssumption
<1> QED
  BY <1>1 DEF Release!Init, ReleaseInv, Release!TypeOK, RunInv

\* A job that ends as it may keeps what is known of the runs.
LEMMA GotoTyped ==
  ASSUME ReleaseInv, NEW r \in Requests, NEW there, Release!Goto(r, there),
         there \in {"approval", "publish", "command", "verify", "smoke", "failed",
                    "verified"},
         job[r] \in {"preflight", "approval", "publish", "command", "verify", "smoke"}
  PROVE  /\ job' = [job EXCEPT ![r] = there]
         /\ job' \in [Requests -> {"idle", "preflight", "approval", "publish", "command",
                                   "verify", "smoke", "failed", "verified"}]
         /\ failed' \in [Requests -> {"preflight", "approval", "verify"}]
         /\ attempt' = attempt
<1>1. Release!JobOf(job[r]) \in {"preflight", "approval", "verify"}
  BY DEF Release!JobOf
<1> QED
  BY <1>1 DEF ReleaseInv, Release!Goto

\* A step of one run that changes only its job.
LEMMA OnlyTheJob ==
  ASSUME ReleaseInv, NEW r \in Requests, NEW there, Release!Goto(r, there),
         there \in {"approval", "publish", "command", "verify", "smoke", "failed",
                    "verified"},
         job[r] \in {"preflight", "approval", "publish", "command", "verify", "smoke"},
         UNCHANGED <<registry, actor, receipt>>,
         reviews' \in [Requests -> SUBSET (People \cup {"rejected"})],
         \A s \in Requests : reviews[s] \subseteq reviews'[s],
         there = "command" => ApprovedByAnother(r),
         there \in {"smoke", "verified"} => registry = <<r, receipt[r]>>
  PROVE  ReleaseInv'
<1>1. ASSUME NEW s \in Requests, ApprovedByAnother(s) PROVE ApprovedByAnother(s)'
  BY <1>1 DEF ApprovedByAnother
<1>2. ASSUME NEW s \in Requests PROVE RunInv(s)'
  <2>1. RunInv(s) /\ (s # r => job'[s] = job[s]) /\ job'[r] = there /\ attempt' = attempt
    BY GotoTyped DEF ReleaseInv
  <2> QED
    BY <1>1, <2>1, GotoTyped DEF RunInv, ReleaseInv
<1>3. Release!TypeOK'
  BY GotoTyped DEF ReleaseInv, Release!TypeOK
<1> QED
  BY <1>2, <1>3, GotoTyped DEF ReleaseInv

LEMMA ReleaseNext ==
  ASSUME ReleaseInv, [Release!Next]_releaseVars
  PROVE  ReleaseInv'
<1>0. MaxAttempts \in Nat /\ \A r \in Requests, n \in 1..MaxAttempts : None # <<r, n>>
        /\ Other # <<r, n>>
  BY OutsideAssumption, NamesAssumption
<1>t. /\ reviews \in [Requests -> SUBSET (People \cup {"rejected"})]
      /\ attempt \in [Requests -> 0..MaxAttempts]
      /\ receipt \in [Requests -> 0..MaxAttempts]
      /\ actor \in [Requests -> People \cup {None}]
      /\ registry \in {None, Other} \cup (Requests \X (1..MaxAttempts))
  BY DEF ReleaseInv, Release!TypeOK
<1>1. ASSUME NEW r \in Requests, Release!Begin(r) PROVE ReleaseInv'
  <2>1. PICK first \in {"preflight", failed[r]} : job' = [job EXCEPT ![r] = first]
    BY <1>1 DEF Release!Begin
  <2>2. PICK p \in People :
          actor' = IF attempt[r] = 0 THEN [actor EXCEPT ![r] = p] ELSE actor
    BY <1>1 DEF Release!Begin
  <2>3. /\ attempt' = [attempt EXCEPT ![r] = @ + 1] /\ attempt[r] < MaxAttempts
        /\ UNCHANGED <<registry, failed, reviews, receipt>>
    BY <1>1 DEF Release!Begin, Release!registryVars
  <2>4. first \in {"preflight", "approval", "verify"}
    BY DEF ReleaseInv
  <2>5. ASSUME NEW s \in Requests PROVE RunInv(s)'
    <3>1. RunInv(s)
      BY DEF ReleaseInv
    <3>2. CASE s # r
      <4>1. job'[s] = job[s] /\ attempt'[s] = attempt[s] /\ actor'[s] = actor[s]
        BY <2>1, <2>2, <2>3, <3>2, <1>t DEF ReleaseInv
      <4> QED
        BY <3>1, <4>1, <2>3 DEF RunInv, ApprovedByAnother
    <3>3. CASE s = r
      <4>1. job'[r] = first /\ attempt'[r] # 0 /\ (attempt[r] # 0 => actor' = actor)
        BY <2>1, <2>2, <2>3, <1>t DEF ReleaseInv
      <4> QED
        BY <3>1, <3>3, <4>1, <2>3, <2>4 DEF RunInv, ApprovedByAnother
    <3> QED
      BY <3>2, <3>3
  <2>6. attempt' \in [Requests -> 0..MaxAttempts]
    BY <2>3, <1>t, <1>0
  <2>7. actor' \in [Requests -> People \cup {None}]
    BY <2>2, <1>t
  <2> QED
    BY <2>1, <2>3, <2>4, <2>5, <2>6, <2>7, <1>t DEF ReleaseInv, Release!TypeOK
<1>2. ASSUME NEW r \in Requests, Release!Preflight(r) PROVE ReleaseInv'
  BY <1>2, <1>t, OnlyTheJob DEF Release!Preflight, Release!registryVars
<1>3. ASSUME NEW r \in Requests, Release!Review(r) PROVE ReleaseInv'
  <2>1. PICK there \in {"publish", "failed"} : Release!Goto(r, there)
    BY <1>3 DEF Release!Review
  <2>2. UNCHANGED <<registry, actor, receipt>> /\ job[r] = "approval"
    BY <1>3 DEF Release!Review, Release!registryVars
  <2>3. \/ \E p \in People \cup {"rejected"} : reviews' = [reviews EXCEPT ![r] = @ \cup {p}]
        \/ reviews' = reviews
    BY <1>3 DEF Release!Review
  <2>4. /\ reviews' \in [Requests -> SUBSET (People \cup {"rejected"})]
        /\ \A s \in Requests : reviews[s] \subseteq reviews'[s]
    BY <2>3, <1>t
  <2> QED
    BY <2>1, <2>2, <2>4, OnlyTheJob
<1>4. ASSUME NEW r \in Requests, Release!Check(r) PROVE ReleaseInv'
  <2>1. ApprovedByAnother(r)
    BY <1>4 DEF Release!Check, Release!Approved, ApprovedByAnother
  <2> QED
    BY <1>4, <2>1, <1>t, OnlyTheJob DEF Release!Check, Release!registryVars
<1>5. ASSUME NEW r \in Requests, Release!Publish(r) PROVE ReleaseInv'
  <2>1. job[r] = "command" /\ UNCHANGED <<actor, reviews>>
    BY <1>5 DEF Release!Publish
  <2>2. CASE registry = None
    <3>1. PICK there \in {"verify", "failed"} :
            /\ Release!Goto(r, there) /\ registry' = <<r, attempt[r]>>
            /\ receipt' = [receipt EXCEPT ![r] = attempt[r]] \/ receipt' = receipt
      BY <1>5, <2>2 DEF Release!Publish, Release!Absent
    <3>2. attempt[r] \in 1..MaxAttempts /\ ApprovedByAnother(r)
      BY <2>1, <1>t, <1>0 DEF ReleaseInv, RunInv
    <3>3. ASSUME NEW s \in Requests
          PROVE  receipt[s] = 0 /\ job[s] \notin {"smoke", "verified"}
      <4>1. RunInv(s) /\ receipt[s] \in 0..MaxAttempts
        BY <1>t DEF ReleaseInv
      <4>2. receipt[s] = 0
        BY <4>1, <1>0, <2>2 DEF RunInv
      <4>3. None # <<s, 0>>
        BY NamesAssumption
      <4> QED
        BY <4>1, <4>2, <4>3, <2>2 DEF RunInv
    <3>4. ASSUME NEW s \in Requests PROVE RunInv(s)'
      <4>1. attempt' = attempt /\ (s # r => job'[s] = job[s]) /\ job'[r] = there
        BY <3>1, <2>1, GotoTyped DEF ReleaseInv
      <4>2. receipt'[s] # 0 => s = r /\ receipt'[s] = attempt[r]
        BY <3>1, <3>3, <1>t
      <4>3. RunInv(s)
        BY DEF ReleaseInv
      <4>4. ApprovedByAnother(s)' <=> ApprovedByAnother(s)
        BY <2>1 DEF ApprovedByAnother
      <4>5. \A n : registry' = <<s, n>> => s = r
        BY <3>1
      <4> QED
        BY <3>1, <3>2, <3>3, <4>1, <4>2, <4>3, <4>4, <4>5 DEF RunInv
    <3>5. receipt' \in [Requests -> 0..MaxAttempts]
      BY <3>1, <3>2, <1>t
    <3>6. Release!TypeOK'
      BY <3>1, <3>2, <2>1, <1>t, GotoTyped DEF Release!TypeOK
    <3> QED
      BY <3>1, <3>4, <3>5, <3>6, <2>1, <1>t, GotoTyped DEF ReleaseInv
  <2>3. CASE registry # None
    BY <1>5, <2>1, <2>3, <1>t, OnlyTheJob DEF Release!Publish, Release!Absent,
                                              Release!registryVars
  <2> QED
    BY <2>2, <2>3
<1>6. ASSUME NEW r \in Requests, Release!Verify(r) PROVE ReleaseInv'
  BY <1>6, <1>t, OnlyTheJob DEF Release!Verify, Release!registryVars
<1>7. ASSUME NEW r \in Requests, Release!Finish(r) PROVE ReleaseInv'
  <2>1. registry = <<r, receipt[r]>>
    BY <1>7 DEF Release!Finish, ReleaseInv, RunInv
  <2> QED
    BY <1>7, <2>1, <1>t, OnlyTheJob DEF Release!Finish, Release!registryVars
<1>8. ASSUME NEW r \in Requests, Release!Stop(r) PROVE ReleaseInv'
  BY <1>8, <1>t, OnlyTheJob DEF Release!Stop, Release!registryVars
<1>9. ASSUME Release!Foreign PROVE ReleaseInv'
  <2>1. UNCHANGED <<actor, job, failed, attempt, reviews, receipt>>
    BY <1>9 DEF Release!Foreign, Release!jobVars
  <2>2. registry' = registry \/ (registry = None /\ registry' = Other)
    BY <1>9 DEF Release!Foreign, Release!registryVars
  <2>3. ASSUME NEW s \in Requests PROVE RunInv(s)'
    <3>1. RunInv(s) /\ receipt[s] \in 0..MaxAttempts
      BY <1>t DEF ReleaseInv
    <3>2. None # <<s, receipt[s]>>
      BY <3>1, NamesAssumption
    <3> QED
      BY <3>1, <3>2, <2>1, <2>2, <1>0 DEF RunInv, ApprovedByAnother
  <2> QED
    BY <2>1, <2>2, <2>3 DEF ReleaseInv, Release!TypeOK
<1>10. ASSUME UNCHANGED releaseVars PROVE ReleaseInv'
  BY <1>10 DEF ReleaseInv, RunInv, ApprovedByAnother, Release!TypeOK, releaseVars
<1> QED
  BY <1>1, <1>2, <1>3, <1>4, <1>5, <1>6, <1>7, <1>8, <1>9, <1>10 DEF Release!Next

\* For any number of runs, attempts and people: what the workflow published was approved
\* in its run by a reviewer who did not start it, and a run that has verified its
\* package or has a receipt for it published that package (publish-npm.mjs:26-62).
THEOREM PublishedOnceApproved == Spec => []PublishedAsApproved
<1>1. Init => ReleaseInv
  BY ReleaseInit DEF Init
<1>2. ReleaseInv /\ [Next]_all => ReleaseInv'
  BY OutsideSteps, ReleaseNext
<1>3. ReleaseInv => PublishedAsApproved
  <2>1. ASSUME ReleaseInv, NEW r \in Requests, NEW n \in 1..MaxAttempts, registry = <<r, n>>
        PROVE  \E p \in reviews[r] \cap Reviewers : p # actor[r]
    BY <2>1 DEF ReleaseInv, RunInv, ApprovedByAnother
  <2>2. ASSUME ReleaseInv, NEW r \in Requests
        PROVE  /\ job[r] = "verified" => registry = <<r, receipt[r]>>
               /\ receipt[r] # 0 => registry = <<r, receipt[r]>>
    BY <2>2 DEF ReleaseInv, RunInv
  <2> QED
    BY <2>1, <2>2 DEF PublishedAsApproved, Release!PublishedAsApproved, ReleaseInv
<1> QED
  BY <1>1, <1>2, <1>3, PTL DEF Spec
-----------------------------------------------------------------------------
(***************************************************************************)
(* The containers                                                          *)
(***************************************************************************)
KindSet == {"seccomp", "userns", "mac", "group", "network", "capabilities"}
OwnNames == {"userns", "group", "network"}
Screening == {"config", "screen", "image", "command", "environment", "security"}
Hardening == {"harden", "nonroot"}
Prepared == {"record", "select", "build", "spawn"}
Started == {"running", "ran", "scanning", "scanned", "counted", "measured", "end"}

ContainerInv ==
  /\ next \in 0..6 /\ context \subseteq KindSet /\ present \subseteq KindSet
  /\ listed \in BOOLEAN /\ entry \in BOOLEAN /\ timer \in BOOLEAN /\ stuck \in BOOLEAN
  /\ critical \in BOOLEAN /\ network \in BOOLEAN
  /\ pc \in Screening \cup Hardening \cup Prepared \cup Started \cup {"failed", "settled"}
  /\ pc \in Screening => context = {} /\ ~listed /\ next = 0
  /\ pc \in Hardening => \A i \in 1..next : Executor!Kinds[i] \in enabled =>
       Executor!Kinds[i] \in context
  /\ pc = "nonroot" =>
       next < 6 /\ Executor!Kinds[next + 1] = "userns" /\ "userns" \in present
  /\ pc \in Prepared \cup Started => KindSet \cap enabled \subseteq context
  /\ pc \in Hardening \cup Prepared \cup Started /\ critical =>
       Executor!Required \subseteq enabled
  /\ pc \in Screening \cup Hardening \cup Prepared => process = "none"
  /\ pc = "build" => runtime \in {"docker", "gvisor", "kata"}
  /\ process # "none" \/ pc = "spawn" =>
       (critical => Executor!Required \subseteq context /\ (network => runtime = "kata"))
  /\ process = "gone" => ~entry /\ ~timer
  /\ OwnNames \cap context \subseteq present
  /\ pc \in {"end", "settled"} /\ ~stuck =>
       ~listed /\ ("seccomp" \in context => "seccomp" \notin present)

LEMMA KindFacts ==
  /\ Len(Executor!Kinds) = 6 /\ Executor!ToSet(Executor!Kinds) = KindSet
  /\ \A k \in KindSet : \E i \in 1..6 : Executor!Kinds[i] = k
  /\ \A i \in 1..6 : Executor!Kinds[i] \in KindSet
  /\ Len(Executor!Order) = 4
  /\ Executor!ToSet(SubSeq(Executor!Order, 1, 4)) =
       {"userns", "network", "group", "seccomp"}
  /\ Executor!Order[4] = "seccomp"
  /\ Executor!Required \subseteq KindSet
<1>1. Len(Executor!Kinds) = 6 /\ DOMAIN Executor!Kinds = 1..6
  BY DEF Executor!Kinds
<1>2. /\ Executor!Kinds[1] = "seccomp" /\ Executor!Kinds[2] = "userns"
      /\ Executor!Kinds[3] = "mac"
      /\ Executor!Kinds[4] = "group" /\ Executor!Kinds[5] = "network"
      /\ Executor!Kinds[6] = "capabilities"
  BY DEF Executor!Kinds
<1>3. 1..6 = {1, 2, 3, 4, 5, 6}
  OBVIOUS
<1>4. Executor!ToSet(Executor!Kinds) = KindSet
  BY <1>1, <1>2, <1>3 DEF Executor!ToSet, KindSet
<1>5. Len(Executor!Order) = 4 /\ Executor!Order[4] = "seccomp"
  BY DEF Executor!Order
<1>6. SubSeq(Executor!Order, 1, 4) = Executor!Order
  <2>1. Executor!Order \in Seq({"userns", "network", "group", "seccomp"})
    BY DEF Executor!Order
  <2> QED
    BY <1>5, <2>1, SubSeqFull
<1>7. Executor!ToSet(Executor!Order) = {"userns", "network", "group", "seccomp"}
  <2>1. /\ DOMAIN Executor!Order = 1..4 /\ Executor!Order[1] = "userns"
        /\ Executor!Order[2] = "network" /\ Executor!Order[3] = "group"
        /\ Executor!Order[4] = "seccomp"
    BY DEF Executor!Order
  <2>2. 1..4 = {1, 2, 3, 4}
    OBVIOUS
  <2> QED
    BY <2>1, <2>2 DEF Executor!ToSet
<1> QED
  BY <1>1, <1>2, <1>3, <1>4, <1>5, <1>6, <1>7 DEF KindSet, Executor!Required

LEMMA ContainerInit ==
  ASSUME Executor!Init
  PROVE  ContainerInv
<1>1. /\ pc = "config" /\ next = 0 /\ context = {} /\ present = {} /\ process = "none"
      /\ critical \in BOOLEAN
  BY DEF Executor!Init
<1>2. ~listed /\ ~stuck /\ ~entry /\ ~timer /\ ~network
  BY DEF Executor!Init
<1>3. /\ listed \in BOOLEAN /\ stuck \in BOOLEAN /\ entry \in BOOLEAN /\ timer \in BOOLEAN
      /\ network \in BOOLEAN
  BY DEF Executor!Init
<1> QED
  BY <1>1, <1>2, <1>3 DEF ContainerInv, Screening, Hardening, Prepared, Started, OwnNames

\* A clean-up removes nothing but the profile, and the profile unless it is stuck.
LEMMA Cleaned ==
  ASSUME ContainerInv, NEW there, NEW how, Executor!CleanContext(there, how)
  PROVE  /\ pc' = there
         /\ UNCHANGED <<context, enabled, critical, next, entry, process, timer, runtime,
                        network>>
         /\ listed' \in BOOLEAN /\ stuck' \in BOOLEAN /\ present' \subseteq KindSet
         /\ OwnNames \cap context' \subseteq present'
         /\ ~stuck' => ~listed' /\ ("seccomp" \in context' => "seccomp" \notin present')
<1>a. PICK n \in 0..Len(Executor!Order) :
        /\ present' = present \ Executor!Found(Executor!ToSet(SubSeq(Executor!Order, 1, n)))
        /\ stuck' = IF n < Len(Executor!Order) THEN TRUE ELSE stuck
        /\ listed' = IF n < Len(Executor!Order) - 1 THEN listed ELSE FALSE
        /\ pc' = there
        /\ UNCHANGED <<context, enabled, critical, next, entry, process, timer, runtime,
                       network>>
  BY DEF Executor!CleanContext, Executor!processVars
<1>b. Len(Executor!Order) = 4
  BY DEF Executor!Order
<1>1. /\ n \in 0..4
      /\ present' = present \ Executor!Found(Executor!ToSet(SubSeq(Executor!Order, 1, n)))
      /\ stuck' = IF n < 4 THEN TRUE ELSE stuck
      /\ listed' = IF n < 3 THEN listed ELSE FALSE
      /\ pc' = there
      /\ UNCHANGED <<context, enabled, critical, next, entry, process, timer, runtime,
                     network>>
  BY <1>a, <1>b
<1>2. \A S : Executor!Found(S) \subseteq {"seccomp"}
  BY DEF Executor!Found, Executor!NameOf
<1>3. present' \subseteq KindSet /\ OwnNames \cap context' \subseteq present'
  BY <1>1, <1>2 DEF ContainerInv, OwnNames
<1>4. ~stuck' => n = 4
  BY <1>1
<1>5. n = 4 => ~listed' /\ ("seccomp" \in context' => "seccomp" \notin present')
  BY <1>1, KindFacts DEF Executor!Found, Executor!NameOf
<1>6. listed' \in BOOLEAN /\ stuck' \in BOOLEAN
  BY <1>1 DEF ContainerInv
<1> QED
  BY <1>1, <1>3, <1>4, <1>5, <1>6

LEMMA ContainerNext ==
  ASSUME ContainerInv, [Executor!Next]_runVars
  PROVE  ContainerInv'
<1> USE DEF Screening, Hardening, Prepared, Started, Executor!resourceVars, Executor!processVars,
            Executor!Goto, Executor!Settle, Executor!Unchanged, Executor!Screened
<1>1. CASE Executor!ReadAllowedImages
  BY <1>1 DEF ContainerInv, Executor!ReadAllowedImages
<1>2. CASE Executor!ValidateConfig
  BY <1>2 DEF ContainerInv, Executor!ValidateConfig
<1>3. CASE Executor!ValidateImage
  BY <1>3 DEF ContainerInv, Executor!ValidateImage
<1>4. CASE Executor!ValidateCommand
  BY <1>4 DEF ContainerInv, Executor!ValidateCommand
<1>5. CASE Executor!ValidateEnvironment
  BY <1>5 DEF ContainerInv, Executor!ValidateEnvironment
<1>6. CASE Executor!ValidateSecurity
  <2>1. pc = "security" /\ Executor!Unchanged
    BY <1>6 DEF Executor!ValidateSecurity
  <2>2. \/ (critical => Executor!Required \subseteq enabled) /\ pc' = "harden"
        \/ pc' = "settled"
    BY <1>6 DEF Executor!ValidateSecurity
  <2>3. /\ next' = next
        /\ (pc' = "harden" => \A i \in 1..next : Executor!Kinds[i] \in enabled =>
            Executor!Kinds[i] \in context)
    BY <1>6 DEF Executor!ValidateSecurity, ContainerInv
  <2> QED
    BY <2>1, <2>2, <2>3 DEF ContainerInv
<1>h. ASSUME next \in 0..5, present' \subseteq KindSet, present \subseteq present',
             pc \in Hardening,
             UNCHANGED <<enabled, critical, listed, stuck, entry, process, timer, runtime,
                         network>>,
             \/ /\ next' = next + 1 /\ pc' = "harden" /\ context \subseteq context'
                /\ context' \subseteq context \cup {Executor!Kinds[next + 1]}
                /\ Executor!Kinds[next + 1] \in enabled => Executor!Kinds[next + 1] \in context'
             \/ /\ next' = next /\ context' = context /\ pc' = "nonroot"
                /\ Executor!Kinds[next + 1] = "userns" /\ "userns" \in present'
             \/ next' = next /\ context' = context /\ pc' = "failed",
             OwnNames \cap context' \subseteq present'
      PROVE  ContainerInv'
  <2>1. Executor!Kinds[next + 1] \in KindSet
    BY <1>h, KindFacts
  <2>2. context' \subseteq KindSet /\ next' \in 0..6 /\ context \subseteq context'
    BY <1>h, <2>1 DEF ContainerInv
  <2>3. \A i \in 1..next : Executor!Kinds[i] \in enabled => Executor!Kinds[i] \in context'
    BY <1>h, <2>2 DEF ContainerInv
  <2>4. pc' \in Hardening => \A i \in 1..next' : Executor!Kinds[i] \in enabled =>
          Executor!Kinds[i] \in context'
    BY <1>h, <2>3
  <2>5. pc' = "nonroot" =>
          next' < 6 /\ Executor!Kinds[next' + 1] = "userns" /\ "userns" \in present'
    BY <1>h
  <2> QED
    BY <1>h, <2>2, <2>4, <2>5 DEF ContainerInv
<1>7. CASE Executor!Harden
  <2> DEFINE resource == Executor!Kinds[next + 1]
  <2>1. /\ pc = "harden" /\ next \in 0..5
        /\ UNCHANGED <<enabled, critical, listed, stuck, entry, process, timer, runtime,
                       network>>
    BY <1>7, KindFacts DEF Executor!Harden, ContainerInv
  <2>2. resource \in KindSet
    BY <2>1, KindFacts
  <2>3. present \subseteq KindSet /\ OwnNames \cap context \subseteq present
    BY DEF ContainerInv
  <2>4. \/ /\ resource \notin enabled /\ next' = next + 1
           /\ UNCHANGED <<pc, present, context>>
        \/ /\ resource \in enabled \ {"userns"} /\ next' = next + 1
           /\ IF resource \in Executor!PassedOver THEN Executor!MayMake(resource)
              ELSE present' = present \cup ({resource} \ {"capabilities"})
           /\ context' = context \cup {resource} /\ UNCHANGED pc
        \/ /\ resource = "userns" /\ resource \in enabled /\ present' = present \cup {resource}
           /\ pc' = "nonroot" /\ UNCHANGED <<next, context>>
        \/ /\ resource \in enabled \ Executor!PassedOver /\ Executor!MayMake(resource)
           /\ pc' = "failed" /\ UNCHANGED <<next, context>>
    BY <1>7 DEF Executor!Harden
  <2> HIDE DEF resource
  <2>5. present' \subseteq KindSet /\ present \subseteq present'
        /\ OwnNames \cap context' \subseteq present'
    BY <2>2, <2>3, <2>4 DEF Executor!MayMake, Executor!PassedOver, OwnNames
  <2>6. \/ /\ next' = next + 1 /\ pc' = "harden" /\ context \subseteq context'
           /\ context' \subseteq context \cup {resource}
           /\ resource \in enabled => resource \in context'
        \/ /\ next' = next /\ context' = context /\ pc' = "nonroot"
           /\ resource = "userns" /\ "userns" \in present'
        \/ next' = next /\ context' = context /\ pc' = "failed"
    BY <2>1, <2>4
  <2> QED
    BY <1>h, <2>1, <2>5, <2>6 DEF resource
<1>n. CASE Executor!EnforceNonRoot
  <2>1. /\ pc = "nonroot"
        /\ UNCHANGED <<enabled, critical, listed, stuck, entry, process, timer, runtime,
                       network, present>>
        /\ \/ pc' = "harden" /\ next' = next + 1 /\ context' = context \cup {"userns"}
           \/ pc' = "failed" /\ UNCHANGED <<next, context>>
    BY <1>n DEF Executor!EnforceNonRoot
  <2>2. next \in 0..5 /\ Executor!Kinds[next + 1] = "userns" /\ "userns" \in present
        /\ present \subseteq KindSet /\ OwnNames \cap context \subseteq present
    BY <2>1 DEF ContainerInv
  <2> QED
    BY <1>h, <2>1, <2>2
<1>8. CASE Executor!Activate
  <2>1. KindSet \cap enabled \subseteq context /\ pc = "harden"
    BY <1>8, KindFacts DEF Executor!Activate, ContainerInv
  <2>2. /\ pc' = "record" /\ listed' = TRUE
        /\ UNCHANGED <<enabled, critical, next, present, context, stuck, entry, process,
                       timer, runtime, network>>
    BY <1>8 DEF Executor!Activate
  <2> QED
    BY <2>1, <2>2 DEF ContainerInv
<1>9. CASE Executor!Record
  BY <1>9 DEF ContainerInv, Executor!Record
<1>10. CASE Executor!SelectRuntime
  BY <1>10 DEF ContainerInv, Executor!SelectRuntime
<1>11. CASE Executor!BuildCommand
  <2>1. critical => Executor!Required \subseteq context
    BY <1>11, KindFacts DEF Executor!BuildCommand, ContainerInv
  <2>2. PICK configured \in BOOLEAN : network' = Executor!HasNetwork(configured)
    BY <1>11 DEF Executor!BuildCommand
  <2>3. runtime \in {"docker", "gvisor", "kata"}
    BY <1>11 DEF Executor!BuildCommand, ContainerInv
  <2>4. network' \in BOOLEAN /\ (critical => (network' => runtime = "kata"))
    <3>1. CASE runtime = "docker"
      <4>1. network' = ("network" \notin context /\ configured)
        BY <2>2, <3>1, Zenon DEF Executor!HasNetwork
      <4> QED
        BY <2>1, <4>1 DEF Executor!Required
    <3>2. CASE runtime = "gvisor"
      BY <2>2, <3>2 DEF Executor!HasNetwork
    <3>3. CASE runtime = "kata"
      BY <2>2, <3>3 DEF Executor!HasNetwork
    <3> QED
      BY <2>3, <3>1, <3>2, <3>3
  <2>5. /\ pc' = "spawn" /\ pc = "build"
        /\ UNCHANGED <<enabled, critical, next, present, context, listed, stuck, entry,
                       process, timer, runtime>>
    BY <1>11 DEF Executor!BuildCommand
  <2> QED
    BY <2>1, <2>4, <2>5 DEF ContainerInv
<1>12. CASE Executor!Spawn
  BY <1>12 DEF ContainerInv, Executor!Spawn
<1>13. CASE Executor!ProcessEnds
  BY <1>13 DEF ContainerInv, Executor!ProcessEnds
<1>14. CASE Executor!Abort
  BY <1>14 DEF ContainerInv, Executor!Abort
<1>15. CASE Executor!Terminate \/ Executor!TimerFires
  <2>1. /\ entry' \in BOOLEAN /\ timer' \in BOOLEAN /\ (~entry => ~entry')
        /\ (~timer => ~timer')
        /\ UNCHANGED <<pc, enabled, critical, next, present, context, listed, stuck, process,
                       runtime, network>>
    <3>1. CASE Executor!Terminate
      <4>1. entry' = FALSE /\ timer' = timer
            /\ UNCHANGED <<pc, enabled, critical, next, present, context, listed, stuck,
                           process, runtime, network>>
        BY <3>1 DEF Executor!Terminate
      <4> QED
        BY <4>1 DEF ContainerInv
    <3>2. CASE Executor!TimerFires
      <4>1. timer' = FALSE /\ entry' = entry
            /\ UNCHANGED <<pc, enabled, critical, next, present, context, listed, stuck,
                           process, runtime, network>>
        BY <3>2 DEF Executor!TimerFires
      <4> QED
        BY <4>1 DEF ContainerInv
    <3> QED
      BY <1>15, <3>1, <3>2
  <2> QED
    BY <2>1 DEF ContainerInv
<1>16. CASE Executor!Scan \/ Executor!ScanImage \/ Executor!Measure
            \/ Executor!MeasureSecurity
  BY <1>16 DEF ContainerInv, Executor!Scan, Executor!ScanImage, Executor!Measure,
               Executor!MeasureSecurity
<1>17. CASE Executor!CleanUpFailure
  <2>1. pc = "failed" /\ Executor!CleanContext("settled", "error")
    BY <1>17 DEF Executor!CleanUpFailure
  <2> QED
    BY <2>1, Cleaned DEF ContainerInv
<1>18. CASE Executor!CleanUpSuccess
  <2>1. CASE Executor!CleanContext("end", outcome)
    BY <1>18, <2>1, Cleaned DEF ContainerInv, Executor!CleanUpSuccess
  <2>2. CASE ~Executor!CleanContext("end", outcome)
    <3>1. /\ pc' = "end" /\ pc = "measured" /\ stuck' /\ stuck' \in BOOLEAN
          /\ UNCHANGED <<enabled, critical, next, present, context, listed, entry, process,
                         timer, runtime, network>>
      BY <1>18, <2>2 DEF Executor!CleanUpSuccess
    <3> QED
      BY <3>1 DEF ContainerInv
  <2> QED
    BY <2>1, <2>2
<1>19. CASE Executor!RecordEnd
  BY <1>19 DEF ContainerInv, Executor!RecordEnd
<1>20. CASE UNCHANGED runVars
  BY <1>20 DEF ContainerInv, runVars
<1> QED
  BY <1>1, <1>2, <1>3, <1>4, <1>5, <1>6, <1>7, <1>8, <1>9, <1>10, <1>11, <1>12, <1>13,
     <1>14, <1>15, <1>16, <1>17, <1>18, <1>19, <1>20, <1>n DEF Executor!Next

LEMMA ContainerDone == ContainerInv => Executor!SettledIsCleanedUp
  BY KindFacts DEF ContainerInv, KindSet, OwnNames, Executor!NameOf,
                   Executor!SettledIsCleanedUp, Executor!TypeOK
-----------------------------------------------------------------------------
(***************************************************************************)
(* The labs                                                                *)
(***************************************************************************)
Things == {"directory", "network", "db", "idp", "chromium", "nginx", "issuer",
           "runtime process", "container", "runtime", "client", "collector", "blocker"}
StepsIn(s) == {s[i] : i \in DOMAIN s}
Removing == {"release", "stop", "remove"}
AnyStep == [do : {"make"} \cup Removing, of : Things,
            fails : {"ends", "later", "unnoticed", "never"}]

\* What the steps of a block make, and what they remove.
MadeBy(s) == {st.of : st \in {x \in StepsIn(s) : x.do = "make"}}
RemovedBy(s) == {st.of : st \in {x \in StepsIn(s) : x.do \in Removing}}

\* Whatever a lab makes that lasts has a step that removes it in the last block, which
\* makes nothing.
Tidy(l) ==
  /\ l.setup \in Seq(AnyStep) /\ l.body \in Seq(AnyStep) /\ l.clean \in Seq(AnyStep)
  /\ MadeBy(l.clean) = {}
  /\ (MadeBy(l.setup) \cup MadeBy(l.body)) \cap Labs!Lasting \subseteq RemovedBy(l.clean)

LEMMA BlocksJoined ==
  ASSUME NEW s \in Seq(AnyStep), NEW t \in Seq(AnyStep)
  PROVE  /\ s \o t \in Seq(AnyStep)
         /\ MadeBy(s \o t) = MadeBy(s) \cup MadeBy(t)
         /\ RemovedBy(s \o t) = RemovedBy(s) \cup RemovedBy(t)
<1>1. /\ s \o t \in Seq(AnyStep) /\ Len(s \o t) = Len(s) + Len(t) /\ Len(s) \in Nat
      /\ Len(t) \in Nat
  OBVIOUS
<1>2. \A i \in 1..Len(s) : (s \o t)[i] = s[i]
  OBVIOUS
<1>3. \A i \in 1..Len(t) : (s \o t)[i + Len(s)] = t[i] /\ i + Len(s) \in 1..Len(s \o t)
  OBVIOUS
<1>4. \A i \in 1..Len(s \o t) : i \in 1..Len(s) \/ i - Len(s) \in 1..Len(t)
  BY <1>1
<1>5. ASSUME NEW i \in 1..Len(s \o t) PROVE (s \o t)[i] \in StepsIn(s) \cup StepsIn(t)
  <2>1. CASE i \in 1..Len(s)
    BY <1>2, <2>1 DEF StepsIn
  <2>2. CASE i - Len(s) \in 1..Len(t)
    <3>1. (s \o t)[i] = t[i - Len(s)]
      <4>1. (i - Len(s)) + Len(s) = i
        BY <1>1
      <4> QED
        BY <1>3, <2>2, <4>1
    <3> QED
      BY <2>2, <3>1 DEF StepsIn
  <2> QED
    BY <1>4, <2>1, <2>2
<1>0. /\ DOMAIN (s \o t) = 1..Len(s \o t) /\ DOMAIN s = 1..Len(s) /\ DOMAIN t = 1..Len(t)
  OBVIOUS
<1>6. \A i \in 1..Len(s) : s[i] \in StepsIn(s \o t)
  <2> TAKE i \in 1..Len(s)
  <2>1. i \in DOMAIN (s \o t) /\ (s \o t)[i] = s[i]
    BY <1>0, <1>1, <1>2
  <2> QED
    BY <2>1, Zenon DEF StepsIn
<1>7. \A i \in 1..Len(t) : t[i] \in StepsIn(s \o t)
  <2> TAKE i \in 1..Len(t)
  <2>1. i + Len(s) \in DOMAIN (s \o t) /\ (s \o t)[i + Len(s)] = t[i]
    BY <1>0, <1>1, <1>3
  <2> QED
    BY <2>1, Zenon DEF StepsIn
<1>8. StepsIn(s \o t) \subseteq StepsIn(s) \cup StepsIn(t)
  BY <1>1, <1>5 DEF StepsIn
<1>9. StepsIn(s) \subseteq StepsIn(s \o t) /\ StepsIn(t) \subseteq StepsIn(s \o t)
  BY <1>0, <1>6, <1>7 DEF StepsIn
<1> QED
  BY <1>1, <1>8, <1>9 DEF MadeBy, RemovedBy

LEMMA ByWhichStep ==
  ASSUME NEW s, NEW y
  PROVE  /\ y \in MadeBy(s) <=> \E st \in StepsIn(s) : st.do = "make" /\ st.of = y
         /\ y \in RemovedBy(s) <=> \E st \in StepsIn(s) : st.do \in Removing /\ st.of = y
  BY DEF MadeBy, RemovedBy

LEMMA MakesAll ==
  ASSUME NEW things \in Seq(Things)
  PROVE  /\ Labs!MakeAll(things) \in Seq(AnyStep)
         /\ MadeBy(Labs!MakeAll(things)) = StepsIn(things)
         /\ RemovedBy(Labs!MakeAll(things)) = {}
<1>1. \A i \in DOMAIN things : Labs!Make(things[i]) \in AnyStep
  BY DEF Labs!Make, AnyStep
<1>2. Labs!MakeAll(things) = [i \in 1..Len(things) |-> Labs!Make(things[i])]
  BY DEF Labs!MakeAll
<1>3. StepsIn(Labs!MakeAll(things)) = {Labs!Make(things[i]) : i \in DOMAIN things}
  BY <1>2 DEF StepsIn
<1>4. \A x : Labs!Make(x).do = "make" /\ Labs!Make(x).of = x
  BY DEF Labs!Make
<1>5. MadeBy(Labs!MakeAll(things)) = StepsIn(things)
  <2>1. ASSUME NEW y
        PROVE  y \in MadeBy(Labs!MakeAll(things)) <=> \E i \in DOMAIN things : things[i] = y
    BY <1>3, <1>4, ByWhichStep
  <2> QED
    BY <2>1 DEF StepsIn
<1>6. RemovedBy(Labs!MakeAll(things)) = {}
  BY <1>3, <1>4 DEF RemovedBy, Removing
<1> QED
  BY <1>1, <1>2, <1>5, <1>6

LEMMA ReleasesAll ==
  ASSUME NEW things \in Seq(Things), NEW fails \in {"ends", "later", "unnoticed"}
  PROVE  /\ Labs!ReleaseAll(things, fails) \in Seq(AnyStep)
         /\ MadeBy(Labs!ReleaseAll(things, fails)) = {}
         /\ RemovedBy(Labs!ReleaseAll(things, fails)) = StepsIn(things)
<1>1. \A i \in DOMAIN things : Labs!Step("release", things[i], fails) \in AnyStep
  BY DEF Labs!Step, AnyStep, Removing
<1>2. Labs!ReleaseAll(things, fails) =
        [i \in 1..Len(things) |-> Labs!Step("release", things[i], fails)]
  BY DEF Labs!ReleaseAll
<1>3. StepsIn(Labs!ReleaseAll(things, fails)) =
        {Labs!Step("release", things[i], fails) : i \in DOMAIN things}
  BY <1>2 DEF StepsIn
<1>4. \A x : Labs!Step("release", x, fails).do = "release"
        /\ Labs!Step("release", x, fails).of = x
  BY DEF Labs!Step
<1>5. MadeBy(Labs!ReleaseAll(things, fails)) = {}
  BY <1>3, <1>4 DEF MadeBy
<1>6. RemovedBy(Labs!ReleaseAll(things, fails)) = StepsIn(things)
  <2>1. ASSUME NEW y
        PROVE  y \in RemovedBy(Labs!ReleaseAll(things, fails)) <=>
                 \E i \in DOMAIN things : things[i] = y
    BY <1>3, <1>4, ByWhichStep DEF Removing
  <2> QED
    BY <2>1 DEF StepsIn
<1> QED
  BY <1>1, <1>2, <1>5, <1>6

LEMMA EmptyBlock ==
  <<>> \in Seq(AnyStep) /\ MadeBy(<<>>) = {} /\ RemovedBy(<<>>) = {}
<1>1. StepsIn(<<>>) = {}
  BY DEF StepsIn
<1> QED
  BY <1>1 DEF MadeBy, RemovedBy

\* A lab whose directory goes last is tidy when what it makes besides is removed.
LEMMA InDirectoryTidy ==
  ASSUME NEW body \in Seq(AnyStep), NEW clean \in Seq(AnyStep),
         MadeBy(clean) = {}, MadeBy(body) \cap Labs!Lasting \subseteq RemovedBy(clean)
  PROVE  Tidy(Labs!InDirectory(body, clean))
<1> DEFINE here == Labs!InDirectory(body, clean)
           end == Labs!ReleaseAll(<<"directory">>, "ends")
           begin == Labs!MakeAll(<<"directory">>)
<1>1. /\ here.setup = <<Labs!Make("directory")>> /\ here.body = body
      /\ here.clean = clean \o end
  BY DEF Labs!InDirectory, Labs!Lab
<1>2. <<"directory">> \in Seq(Things) /\ StepsIn(<<"directory">>) = {"directory"}
  BY DEF Things, StepsIn
<1>3. <<Labs!Make("directory")>> = begin
  BY DEF Labs!MakeAll
<1>4. begin \in Seq(AnyStep) /\ MadeBy(begin) = {"directory"}
  BY <1>2, MakesAll
<1>5. end \in Seq(AnyStep) /\ MadeBy(end) = {} /\ RemovedBy(end) = {"directory"}
  BY <1>2, ReleasesAll
<1>6. clean \o end \in Seq(AnyStep) /\ MadeBy(clean \o end) = {}
      /\ RemovedBy(clean \o end) = RemovedBy(clean) \cup {"directory"}
  BY <1>5, BlocksJoined
<1> HIDE DEF here, end, begin
<1> QED
  BY <1>1, <1>3, <1>4, <1>6 DEF Tidy, here

LEMMA OneStep ==
  ASSUME NEW st \in AnyStep
  PROVE  /\ <<st>> \in Seq(AnyStep)
         /\ MadeBy(<<st>>) = IF st.do = "make" THEN {st.of} ELSE {}
         /\ RemovedBy(<<st>>) = IF st.do \in Removing THEN {st.of} ELSE {}
<1>1. StepsIn(<<st>>) = {st}
  BY DEF StepsIn
<1>2. \A y : (y \in MadeBy(<<st>>) <=> st.do = "make" /\ st.of = y)
             /\ (y \in RemovedBy(<<st>>) <=> st.do \in Removing /\ st.of = y)
  BY <1>1, ByWhichStep
<1> QED
  BY <1>2

LEMMA TwoSteps ==
  ASSUME NEW first \in AnyStep, NEW second \in AnyStep
  PROVE  /\ <<first, second>> \in Seq(AnyStep)
         /\ first.do # "make" /\ second.do # "make" =>
              /\ MadeBy(<<first, second>>) = {}
              /\ RemovedBy(<<first, second>>) = {first.of, second.of}
<1>1. StepsIn(<<first, second>>) = {first, second}
  BY DEF StepsIn
<1>2. first.do # "make" => first.do \in Removing
  BY DEF AnyStep
<1>3. second.do # "make" => second.do \in Removing
  BY DEF AnyStep
<1>4. ASSUME first.do # "make", second.do # "make", NEW y
      PROVE  y \notin MadeBy(<<first, second>>)
             /\ (y \in RemovedBy(<<first, second>>) <=> y \in {first.of, second.of})
  BY <1>1, <1>2, <1>3, <1>4, ByWhichStep
<1> QED
  BY <1>4

LEMMA StepKinds ==
  ASSUME NEW x \in Things, NEW fails \in {"ends", "later", "unnoticed", "never"}, NEW do \in Removing
  PROVE  /\ Labs!Step(do, x, fails) \in AnyStep
         /\ Labs!Step(do, x, fails).do = do /\ Labs!Step(do, x, fails).of = x
         /\ do # "make"
  BY DEF Labs!Step, AnyStep, Removing

\* A lab that releases what it made.
LEMMA MadeThenReleased ==
  ASSUME NEW things \in Seq(Things), NEW back \in Seq(Things),
         StepsIn(things) \subseteq StepsIn(back),
         NEW fails \in {"ends", "later", "unnoticed"}
  PROVE  Tidy(Labs!InDirectory(Labs!MakeAll(things), Labs!ReleaseAll(back, fails)))
  BY MakesAll, ReleasesAll, InDirectoryTidy

LEMMA Lasts ==
  Labs!Lasting = {"db", "idp", "chromium", "nginx", "container", "runtime process",
                  "collector", "network", "directory"}
  BY DEF Labs!Lasting, Labs!Containers, Labs!Processes

LEMMA KeycloakTidy == Tidy(Labs!Keycloak)
<1> DEFINE on == <<"network", "db", "idp", "chromium", "nginx">>
           off == <<"nginx", "chromium", "idp", "db", "network">>
<1>1. on \in Seq(Things) /\ off \in Seq(Things)
  BY DEF Things
<1>2. StepsIn(on) \subseteq StepsIn(off)
  <2>1. DOMAIN on = {1, 2, 3, 4, 5} /\ DOMAIN off = {1, 2, 3, 4, 5}
    OBVIOUS
  <2>2. /\ on[1] = off[5] /\ on[2] = off[4] /\ on[3] = off[3] /\ on[4] = off[2]
        /\ on[5] = off[1]
    OBVIOUS
  <2> HIDE DEF on, off
  <2> QED
    BY <2>1, <2>2 DEF StepsIn
<1> QED
  BY <1>1, <1>2, MadeThenReleased DEF Labs!Keycloak

LEMMA ThreeTidy ==
  ASSUME NEW x \in Things, NEW y \in Things, NEW z \in Things
  PROVE  Tidy(Labs!InDirectory(Labs!MakeAll(<<x, y, z>>),
                               Labs!ReleaseAll(<<z, y, x>>, "ends")))
<1> DEFINE on == <<x, y, z>>
           off == <<z, y, x>>
<1>1. on \in Seq(Things) /\ off \in Seq(Things)
  OBVIOUS
<1>2. StepsIn(on) \subseteq StepsIn(off)
  <2>1. DOMAIN on = {1, 2, 3} /\ DOMAIN off = {1, 2, 3}
    OBVIOUS
  <2>2. on[1] = off[3] /\ on[2] = off[2] /\ on[3] = off[1]
    OBVIOUS
  <2> HIDE DEF on, off
  <2> QED
    BY <2>1, <2>2 DEF StepsIn
<1> QED
  BY <1>1, <1>2, MadeThenReleased

LEMMA OAuthTidy == Tidy(Labs!OAuth) /\ Tidy(Labs!OAuthCode) /\ Tidy(Labs!HttpBenchmark)
<1>1. {"issuer", "runtime", "client", "runtime process"} \subseteq Things
  BY DEF Things
<1> QED
  BY <1>1, ThreeTidy DEF Labs!OAuth, Labs!OAuthCode, Labs!HttpBenchmark

LEMMA EmptyTidy == Tidy(Labs!Hosts) /\ Tidy(Labs!MutationCheck)
  BY EmptyBlock, InDirectoryTidy DEF Labs!Hosts, Labs!MutationCheck

LEMMA PairOf ==
  ASSUME NEW x \in Things, NEW y \in Things
  PROVE  <<x, y>> \in Seq(Things) /\ StepsIn(<<x, y>>) = {x, y}
         /\ <<x>> \in Seq(Things) /\ StepsIn(<<x>>) = {x}
  BY DEF StepsIn

LEMMA TripleOf ==
  ASSUME NEW x \in Things, NEW y \in Things, NEW z \in Things
  PROVE  <<x, y, z>> \in Seq(Things) /\ StepsIn(<<x, y, z>>) = {x, y, z}
<1> DEFINE s == <<x, y, z>>
<1>1. s \in Seq(Things) /\ DOMAIN s = {1, 2, 3} /\ s[1] = x /\ s[2] = y /\ s[3] = z
  OBVIOUS
<1> HIDE DEF s
<1> QED
  BY <1>1 DEF StepsIn

LEMMA StorageTidy == Tidy(Labs!StorageFailure)
<1>1. {"container", "runtime"} \subseteq Things
  BY DEF Things
<1>2. <<"container", "runtime">> \in Seq(Things)
        /\ <<"runtime", "container">> \in Seq(Things)
      /\ StepsIn(<<"container", "runtime">>) \subseteq StepsIn(<<"runtime", "container">>)
  <2>1. StepsIn(<<"container", "runtime">>) = {"container", "runtime"}
    BY <1>1, PairOf
  <2>2. StepsIn(<<"runtime", "container">>) = {"runtime", "container"}
    BY <1>1, PairOf
  <2> QED
    BY <1>1, <2>1, <2>2, PairOf
<1> QED
  BY <1>2, MadeThenReleased DEF Labs!StorageFailure

LEMMA ProxyTidy == Tidy(Labs!Proxy)
<1> DEFINE body == Labs!MakeAll(<<"issuer", "runtime process", "container">>)
           first == Labs!ReleaseAll(<<"container", "runtime process">>, "later")
           second == Labs!ReleaseAll(<<"issuer">>, "ends")
<1>1. {"issuer", "runtime process", "container"} \subseteq Things
  BY DEF Things
<1>2. <<"issuer", "runtime process", "container">> \in Seq(Things)
      /\ StepsIn(<<"issuer", "runtime process", "container">>) =
         {"issuer", "runtime process", "container"}
  BY <1>1, TripleOf
<1>3. body \in Seq(AnyStep) /\ MadeBy(body) = {"issuer", "runtime process", "container"}
  BY <1>2, MakesAll
<1>4. /\ first \in Seq(AnyStep) /\ MadeBy(first) = {}
      /\ RemovedBy(first) = {"container", "runtime process"}
  BY <1>1, PairOf, ReleasesAll
<1>5. second \in Seq(AnyStep) /\ MadeBy(second) = {} /\ RemovedBy(second) = {"issuer"}
  BY <1>1, PairOf, ReleasesAll
<1>6. Labs!Proxy = Labs!InDirectory(body, first \o second)
  BY DEF Labs!Proxy
<1> HIDE DEF body, first, second
<1>7. first \o second \in Seq(AnyStep) /\ MadeBy(first \o second) = {}
      /\ RemovedBy(first \o second) = {"container", "runtime process", "issuer"}
  <2>1. first \o second \in Seq(AnyStep)
          /\ MadeBy(first \o second) = MadeBy(first) \cup MadeBy(second)
        /\ RemovedBy(first \o second) = RemovedBy(first) \cup RemovedBy(second)
    BY <1>4, <1>5, BlocksJoined
  <2>2. MadeBy(first) \cup MadeBy(second) = {}
    BY <1>4, <1>5
  <2>3. RemovedBy(first) \cup RemovedBy(second) = {"container", "runtime process", "issuer"}
    BY <1>4, <1>5
  <2> QED
    BY <2>1, <2>2, <2>3
<1> QED
  BY <1>3, <1>6, <1>7, InDirectoryTidy

LEMMA PackageTidy == Tidy(Labs!PackageSmoke)
<1> DEFINE on == Labs!MakeAll(<<"client">>)
           off == Labs!ReleaseAll(<<"client">>, "ends")
<1>1. "client" \in Things /\ "client" \notin Labs!Lasting
  BY Lasts DEF Things
<1>2. /\ on \in Seq(AnyStep) /\ MadeBy(on) = {"client"} /\ off \in Seq(AnyStep)
      /\ MadeBy(off) = {}
  BY <1>1, PairOf, MakesAll, ReleasesAll
<1>3. Labs!PackageSmoke = Labs!InDirectory(on \o off, <<>>)
  BY DEF Labs!PackageSmoke
<1> HIDE DEF on, off
<1>4. on \o off \in Seq(AnyStep) /\ MadeBy(on \o off) = {"client"}
  BY <1>2, BlocksJoined
<1> QED
  BY <1>1, <1>3, <1>4, EmptyBlock, InDirectoryTidy

LEMMA ContainerTidy == Tidy(Labs!ContainerSmoke)
<1> DEFINE on == Labs!MakeAll(<<"container">>)
           off == Labs!ReleaseAll(<<"container">>, "ends")
           end == Labs!Step("remove", "container", "unnoticed")
<1>1. "container" \in Things /\ "remove" \in Removing
  BY DEF Things, Removing
<1>2. /\ on \in Seq(AnyStep) /\ MadeBy(on) = {"container"} /\ off \in Seq(AnyStep)
      /\ MadeBy(off) = {}
  BY <1>1, PairOf, MakesAll, ReleasesAll
<1>3. Labs!ContainerSmoke = Labs!InDirectory(on \o off, <<end>>)
  BY DEF Labs!ContainerSmoke
<1>4. end \in AnyStep /\ end.do = "remove" /\ end.of = "container"
  BY <1>1, StepKinds
<1> HIDE DEF on, off, end
<1>5. on \o off \in Seq(AnyStep) /\ MadeBy(on \o off) = {"container"}
  BY <1>2, BlocksJoined
<1>6. <<end>> \in Seq(AnyStep) /\ MadeBy(<<end>>) = {} /\ RemovedBy(<<end>>) = {"container"}
  BY <1>1, <1>4, OneStep
<1> QED
  BY <1>3, <1>5, <1>6, InDirectoryTidy

LEMMA CollectorSteps ==
  /\ Labs!Collector \in Seq(AnyStep)
  /\ MadeBy(Labs!Collector) = {"collector", "runtime"}
<1> DEFINE on == <<Labs!Make("collector"), Labs!Make("runtime")>>
           off == <<Labs!Step("release", "runtime", "ends"),
                    Labs!Step("stop", "collector", "ends")>>
<1>1. {"collector", "runtime"} \subseteq Things /\ {"release", "stop"} \subseteq Removing
  BY DEF Things, Removing
<1>2. on = Labs!MakeAll(<<"collector", "runtime">>)
  BY DEF Labs!MakeAll
<1>3. on \in Seq(AnyStep) /\ MadeBy(on) = {"collector", "runtime"}
  BY <1>1, <1>2, PairOf, MakesAll
<1>4. off \in Seq(AnyStep) /\ MadeBy(off) = {}
  BY <1>1, StepKinds, TwoSteps
<1>5. Labs!Collector = on \o off
  BY DEF Labs!Collector
<1> HIDE DEF on, off
<1> QED
  BY <1>3, <1>4, <1>5, BlocksJoined

LEMMA StopsCollector ==
  ASSUME NEW fails \in {"ends", "never"}
  PROVE
  LET end == <<Labs!Step("release", "runtime", "ends"),
               Labs!Step("stop", "collector", fails)>>
  IN  end \in Seq(AnyStep) /\ MadeBy(end) = {} /\ RemovedBy(end) = {"runtime", "collector"}
<1>1. {"collector", "runtime"} \subseteq Things /\ {"release", "stop"} \subseteq Removing
  BY DEF Things, Removing
<1> QED
  BY <1>1, StepKinds, TwoSteps

LEMMA BurstsTidy == Tidy(Labs!AuditBursts)
  BY CollectorSteps, StopsCollector, InDirectoryTidy DEF Labs!AuditBursts

LEMMA VerifyTidy == Tidy(Labs!AuditVerify)
<1> DEFINE cycles == Labs!Collector \o Labs!Collector \o Labs!Collector
           on == Labs!MakeAll(<<"blocker", "runtime">>)
           end == <<Labs!Step("release", "runtime", "ends"),
                    Labs!Step("stop", "collector", "ends")>>
           last == Labs!Step("release", "blocker", "ends")
           clean == <<Labs!Step("release", "runtime", "ends"),
                      Labs!Step("stop", "collector", "ends"), last>>
<1>1. {"blocker", "runtime"} \subseteq Things /\ "release" \in Removing
  BY DEF Things, Removing
<1>2. on \in Seq(AnyStep) /\ MadeBy(on) = {"blocker", "runtime"}
  BY <1>1, PairOf, MakesAll
<1>3. last \in AnyStep /\ last.do = "release" /\ last.of = "blocker"
  BY <1>1, StepKinds
<1>4. /\ <<last>> \in Seq(AnyStep) /\ MadeBy(<<last>>) = {}
      /\ RemovedBy(<<last>>) = {"blocker"}
  BY <1>1, <1>3, OneStep
<1>5. clean = end \o <<last>>
  OBVIOUS
<1>6. end \in Seq(AnyStep) /\ MadeBy(end) = {} /\ RemovedBy(end) = {"runtime", "collector"}
  BY StopsCollector
<1>7. Labs!AuditVerify = Labs!InDirectory(cycles \o on, clean)
  BY DEF Labs!AuditVerify
<1> HIDE DEF on, end, last, clean
<1>8. /\ clean \in Seq(AnyStep) /\ MadeBy(clean) = {}
      /\ RemovedBy(clean) = {"runtime", "collector", "blocker"}
  <2>1. clean \in Seq(AnyStep) /\ MadeBy(clean) = {} \cup {}
        /\ RemovedBy(clean) = {"runtime", "collector"} \cup {"blocker"}
    BY <1>4, <1>5, <1>6, BlocksJoined
  <2> QED
    BY <2>1
<1>9. cycles \in Seq(AnyStep) /\ MadeBy(cycles) = {"collector", "runtime"}
  <2> DEFINE two == Labs!Collector \o Labs!Collector
  <2>1. two \in Seq(AnyStep) /\ MadeBy(two) = {"collector", "runtime"}
    BY CollectorSteps, BlocksJoined
  <2> HIDE DEF two
  <2>2. two \o Labs!Collector \in Seq(AnyStep)
        /\ MadeBy(two \o Labs!Collector) = {"collector", "runtime"}
    BY CollectorSteps, <2>1, BlocksJoined
  <2> QED
    BY <2>2 DEF two
<1> HIDE DEF cycles
<1>10. cycles \o on \in Seq(AnyStep)
       /\ MadeBy(cycles \o on) = {"collector", "runtime", "blocker"}
  <2>1. MadeBy(cycles \o on) = {"collector", "runtime"} \cup {"blocker", "runtime"}
        /\ cycles \o on \in Seq(AnyStep)
    BY <1>2, <1>9, BlocksJoined
  <2> QED
    BY <2>1
<1> QED
  BY <1>7, <1>8, <1>10, InDirectoryTidy

LEMMA OverheadTidy == Tidy(Labs!AuditOverhead)
<1> DEFINE on == Labs!MakeAll(<<"runtime">>)
           off == Labs!ReleaseAll(<<"runtime">>, "ends")
           begin == Labs!MakeAll(<<"directory", "collector">>)
           end == <<Labs!Step("stop", "collector", "never"),
                    Labs!Step("release", "directory", "ends")>>
<1>1. /\ {"runtime", "directory", "collector"} \subseteq Things
      /\ {"release", "stop"} \subseteq Removing
  BY DEF Things, Removing
<1>2. begin \in Seq(AnyStep) /\ MadeBy(begin) = {"directory", "collector"}
  BY <1>1, PairOf, MakesAll
<1>3. /\ on \in Seq(AnyStep) /\ MadeBy(on) = {"runtime"} /\ off \in Seq(AnyStep)
      /\ MadeBy(off) = {}
  BY <1>1, PairOf, MakesAll, ReleasesAll
<1>4. /\ end \in Seq(AnyStep) /\ MadeBy(end) = {}
      /\ RemovedBy(end) = {"collector", "directory"}
  BY <1>1, StepKinds, TwoSteps
<1>5. /\ Labs!AuditOverhead.setup = begin /\ Labs!AuditOverhead.body = Labs!Measured \o Labs!Measured
      /\ Labs!AuditOverhead.clean = end
  BY DEF Labs!AuditOverhead, Labs!Lab
<1>m. Labs!Measured = on \o off
  BY DEF Labs!Measured
<1> HIDE DEF on, off, begin, end
<1>6. /\ Labs!Measured \o Labs!Measured \in Seq(AnyStep)
      /\ MadeBy(Labs!Measured \o Labs!Measured) = {"runtime"}
  <2>1. Labs!Measured \in Seq(AnyStep) /\ MadeBy(Labs!Measured) = {"runtime"}
    BY <1>3, <1>m, BlocksJoined
  <2> QED
    BY <2>1, BlocksJoined
<1>7. "runtime" \notin Labs!Lasting
  BY Lasts
<1> QED
  BY <1>2, <1>4, <1>5, <1>6, <1>7 DEF Tidy

\* Every lab is tidy.
LEMMA LabsAreTidy ==
  ASSUME NEW l \in DOMAIN Labs!Labs
  PROVE  Tidy(Labs!Labs[l])
<1>1. DOMAIN Labs!Labs =
        {"keycloak", "proxy", "oauth", "oauthCode", "hosts", "mutations", "package",
         "benchmark", "smoke", "storage", "audit", "bursts", "overhead"}
  BY DEF Labs!Labs
<1>2. /\ Labs!Labs["keycloak"] = Labs!Keycloak /\ Labs!Labs["proxy"] = Labs!Proxy
      /\ Labs!Labs["oauth"] = Labs!OAuth /\ Labs!Labs["oauthCode"] = Labs!OAuthCode
      /\ Labs!Labs["hosts"] = Labs!Hosts /\ Labs!Labs["mutations"] = Labs!MutationCheck
      /\ Labs!Labs["package"] = Labs!PackageSmoke
      /\ Labs!Labs["benchmark"] = Labs!HttpBenchmark
      /\ Labs!Labs["smoke"] = Labs!ContainerSmoke
      /\ Labs!Labs["storage"] = Labs!StorageFailure
      /\ Labs!Labs["audit"] = Labs!AuditVerify /\ Labs!Labs["bursts"] = Labs!AuditBursts
      /\ Labs!Labs["overhead"] = Labs!AuditOverhead
  BY DEF Labs!Labs
<1> QED
  BY <1>1, <1>2, KeycloakTidy, ProxyTidy, OAuthTidy, EmptyTidy, PackageTidy, ContainerTidy,
     StorageTidy, VerifyTidy, BurstsTidy, OverheadTidy

-----------------------------------------------------------------------------
LabClean == Labs!Labs[lab].clean
\* A step of the last block, from here on, that removes the thing.
Ahead(t) ==
  \E j \in DOMAIN LabClean : j >= at /\ LabClean[j].of = t /\ LabClean[j].do \in Removing

LabInv ==
  /\ lab \in DOMAIN Labs!Labs /\ section \in {"setup", "body", "clean", "over"}
  /\ at \in Nat \ {0}
  /\ section \in {"setup", "body"} =>
       made \cap Labs!Lasting \subseteq (recorded \cup half) \cap RemovedBy(LabClean)
  /\ section = "clean" =>
       \A t \in made \cap Labs!Lasting :
         t \in unreleased \cup half \/ (t \in recorded /\ Ahead(t))
  /\ section = "over" /\ ~skipped => made \cap Labs!Lasting \subseteq unreleased \cup half
  /\ code = 0 => half = {} /\ ~skipped

LEMMA LabInit ==
  ASSUME Labs!Init
  PROVE  LabInv
  BY DEF Labs!Init, LabInv

\* Where a step of the lab stands.
LEMMA StepTyped ==
  ASSUME LabInv, Labs!Running, at \in DOMAIN Labs!Steps
  PROVE  /\ Labs!Steps[at] \in AnyStep
         /\ section \in {"setup", "body"} =>
              (Labs!Steps[at].do = "make" /\ Labs!Thing \in Labs!Lasting =>
                 Labs!Thing \in RemovedBy(LabClean))
         /\ section = "clean" => Labs!Steps = LabClean /\ Labs!Steps[at].do \in Removing
<1>1. Tidy(Labs!Labs[lab]) /\ section \in {"setup", "body", "clean"}
  BY LabsAreTidy DEF LabInv, Labs!Running
<1>2. Labs!Steps = CASE section = "setup" -> Labs!Labs[lab].setup
                    [] section = "body" -> Labs!Labs[lab].body
                    [] section = "clean" -> Labs!Labs[lab].clean
  BY <1>1 DEF Labs!Steps
<1>3. Labs!Steps \in Seq(AnyStep)
  BY <1>1, <1>2 DEF Tidy
<1>4. Labs!Steps[at] \in AnyStep
  BY <1>3
<1>5. Labs!Steps[at] \in StepsIn(Labs!Steps)
  BY DEF StepsIn
<1>6. ASSUME section \in {"setup", "body"}, Labs!Steps[at].do = "make",
             Labs!Thing \in Labs!Lasting
      PROVE  Labs!Thing \in RemovedBy(LabClean)
  <2>1. Labs!Thing \in MadeBy(Labs!Steps)
    BY <1>5, <1>6, ByWhichStep DEF Labs!Thing
  <2>2. Labs!Steps = Labs!Labs[lab].setup \/ Labs!Steps = Labs!Labs[lab].body
    BY <1>2, <1>6
  <2> QED
    BY <1>1, <1>6, <2>1, <2>2 DEF Tidy, LabClean
<1>7. ASSUME section = "clean" PROVE Labs!Steps = LabClean /\ Labs!Steps[at].do \in Removing
  <2>1. Labs!Steps = LabClean
    BY <1>2, <1>7 DEF LabClean
  <2>2. Labs!Steps[at].do # "make"
    BY <1>1, <1>5, <2>1, ByWhichStep DEF Tidy, LabClean
  <2> QED
    BY <1>4, <2>1, <2>2 DEF AnyStep
<1> QED
  BY <1>4, <1>6, <1>7

\* Where the last block begins, the steps that remove things are all ahead.
LEMMA AllAhead ==
  ASSUME LabInv, section' = "clean", at' = 1, lab' = lab, NEW t \in RemovedBy(LabClean)
  PROVE  Ahead(t)'
<1>1. LabClean' = LabClean /\ LabClean \in Seq(AnyStep)
  BY LabsAreTidy DEF LabClean, LabInv, Tidy
<1>2. PICK st \in StepsIn(LabClean) : st.do \in Removing /\ st.of = t
  BY ByWhichStep
<1>3. PICK j \in DOMAIN LabClean : LabClean[j] = st
  BY DEF StepsIn
<1>4. j >= 1
  BY <1>1
<1> QED
  BY <1>1, <1>2, <1>3, <1>4 DEF Ahead

\* One step further, what another step removes is still ahead.
LEMMA StillAhead ==
  ASSUME LabInv, at' = at + 1, lab' = lab, NEW t, Ahead(t),
         ~(at \in DOMAIN LabClean /\ LabClean[at].of = t)
  PROVE  Ahead(t)'
<1>1. LabClean' = LabClean /\ DOMAIN LabClean \subseteq Nat
  BY LabsAreTidy DEF LabClean, LabInv, Tidy
<1>2. PICK j \in DOMAIN LabClean : j >= at /\ LabClean[j].of = t
        /\ LabClean[j].do \in Removing
  BY DEF Ahead
<1>3. j >= at + 1
  BY <1>1, <1>2 DEF LabInv
<1> QED
  BY <1>1, <1>2, <1>3 DEF Ahead

\* An exception ends the block: what there is to remove is still ahead, or the lab is over.
LEMMA ThrowKeeps ==
  ASSUME LabInv, Labs!Running, Labs!Throw, lab' = lab, recorded \subseteq recorded',
         made' \cap Labs!Lasting \subseteq (made \cap Labs!Lasting) \cup half',
           half \subseteq half'
  PROVE  LabInv'
<1>1. code' = 1 /\ at' = 1 /\ section' \in {"clean", "over"}
        /\ (section' = "clean" => section = "body")
      /\ (section' = "over" => skipped')
  BY DEF Labs!Throw, Labs!Goto
<1>2. ASSUME section' = "clean", NEW t \in made' \cap Labs!Lasting
      PROVE  t \in half' \/ (t \in recorded' /\ Ahead(t)')
  <2>1. CASE t \in half'
    BY <2>1
  <2>2. CASE t \notin half'
    <3>1. t \in recorded /\ t \in RemovedBy(LabClean)
      BY <1>1, <1>2, <2>2 DEF LabInv
    <3> QED
      BY <1>1, <1>2, <3>1, AllAhead
  <2> QED
    BY <2>1, <2>2
<1> QED
  BY <1>1, <1>2 DEF LabInv

LEMMA LabNext ==
  ASSUME LabInv, [Labs!Next]_labVars
  PROVE  LabInv'
<1>a. Labs!Running => section \in {"setup", "body", "clean"}
  BY DEF LabInv, Labs!Running
<1>b. lab' = lab => LabClean' = LabClean
  BY DEF LabClean
<1>1. CASE Labs!Makes
  <2>1. /\ Labs!Running /\ at \in DOMAIN Labs!Steps /\ Labs!Steps[at].do = "make"
        /\ made' = made \cup {Labs!Thing} /\ recorded' = recorded \cup {Labs!Thing}
        /\ section' = section /\ at' = at + 1
        /\ UNCHANGED <<lab, half, unreleased, dead, skipped, code, mishaps>>
    BY <1>1 DEF Labs!Makes, Labs!Current, Labs!Goto
  <2>2. section \in {"setup", "body"}
    BY <1>a, <2>1, StepTyped DEF Removing
  <2>3. Labs!Thing \in Labs!Lasting => Labs!Thing \in RemovedBy(LabClean)
    BY <2>1, <2>2, StepTyped
  <2> QED
    BY <1>b, <2>1, <2>2, <2>3 DEF LabInv
<1>2. CASE Labs!MakeFails
  <2>1. /\ Labs!Running /\ Labs!Throw /\ UNCHANGED <<lab, recorded, unreleased, dead>>
        /\ made' \subseteq made \cup half' /\ half \subseteq half'
    BY <1>2 DEF Labs!MakeFails, Labs!Current
  <2> QED
    BY <2>1, ThrowKeeps
<1>3. CASE Labs!WorkFails
  <2>1. /\ Labs!Running /\ Labs!Throw
        /\ UNCHANGED <<lab, made, recorded, half, unreleased, dead>>
    BY <1>3 DEF Labs!WorkFails, Labs!Running
  <2> QED
    BY <2>1, ThrowKeeps
<1>4. CASE Labs!PassOver
  <2>1. /\ Labs!Running /\ at \in DOMAIN Labs!Steps /\ Labs!Thing \notin recorded
        /\ section' = section /\ at' = at + 1
        /\ UNCHANGED <<lab, made, recorded, half, unreleased, dead, skipped, code, mishaps>>
    BY <1>4 DEF Labs!PassOver, Labs!Current, Labs!Goto
  <2>2. ASSUME section = "clean", NEW t \in made \cap Labs!Lasting
        PROVE  t \in unreleased \cup half \/ (t \in recorded /\ Ahead(t)')
    BY <2>1, <2>2, StepTyped, StillAhead DEF LabInv, Labs!Thing
  <2> QED
    BY <1>a, <1>b, <2>1, <2>2 DEF LabInv
<1>5. CASE Labs!Release
  <2>1. /\ Labs!Running /\ at \in DOMAIN Labs!Steps
        /\ made' = made \ {Labs!Thing} /\ recorded' = recorded \ {Labs!Thing}
        /\ half' = half \ {Labs!Thing}
        /\ section' = section /\ at' = at + 1
        /\ UNCHANGED <<lab, unreleased, skipped, code, mishaps>>
    BY <1>5 DEF Labs!Release, Labs!Wanted, Labs!Current, Labs!Goto
  <2>2. ASSUME section = "clean", NEW t \in made' \cap Labs!Lasting
        PROVE  t \in unreleased' \cup half' \/ (t \in recorded' /\ Ahead(t)')
    BY <2>1, <2>2, StepTyped, StillAhead DEF LabInv, Labs!Thing
  <2> QED
    BY <1>a, <1>b, <2>1, <2>2 DEF LabInv
<1>6. CASE Labs!ReleaseFails
  <2>1. /\ Labs!Running /\ at \in DOMAIN Labs!Steps
        /\ unreleased' = unreleased \cup {Labs!Thing}
        /\ UNCHANGED <<lab, made, recorded, half, dead>>
    BY <1>6 DEF Labs!ReleaseFails, Labs!Wanted, Labs!Current
  <2>3. CASE Labs!Throw
    BY <2>1, <2>3, ThrowKeeps
  <2>4. CASE section' = section /\ at' = at + 1 /\ skipped' = skipped
             /\ (code' = code \/ code' = 1)
    <3>1. ASSUME section = "clean", NEW t \in made' \cap Labs!Lasting
          PROVE  t \in unreleased' \cup half' \/ (t \in recorded' /\ Ahead(t)')
      BY <2>1, <2>4, <3>1, StepTyped, StillAhead DEF LabInv, Labs!Thing
    <3> QED
      BY <1>a, <1>b, <2>1, <2>4, <3>1 DEF LabInv
  <2> QED
    BY <1>6, <2>3, <2>4 DEF Labs!ReleaseFails, Labs!Goto
<1>s. CASE Labs!StopsBadly
  <2>1. /\ Labs!Running /\ Labs!Throw /\ made' \subseteq made
        /\ UNCHANGED <<lab, recorded, half, unreleased>>
    BY <1>s DEF Labs!StopsBadly, Labs!Current
  <2> QED
    BY <2>1, ThrowKeeps
<1>7. CASE Labs!Hang
  BY <1>7 DEF Labs!Hang, Labs!Goto, LabInv
<1>8. CASE Labs!EndOfBlock
  <2>1. /\ Labs!Running /\ at > Len(Labs!Steps) /\ at' = 1
        /\ UNCHANGED <<lab, made, recorded, half, unreleased, dead, skipped, code, mishaps>>
    BY <1>8 DEF Labs!EndOfBlock, Labs!Goto
  <2>2. CASE section = "setup"
    <3>1. section' = "body"
      BY <1>8, <2>2 DEF Labs!EndOfBlock, Labs!Goto
    <3> QED
      BY <1>b, <2>1, <2>2, <3>1 DEF LabInv
  <2>3. CASE section = "body"
    <3>1. section' = "clean"
      BY <1>8, <2>3 DEF Labs!EndOfBlock, Labs!Goto
    <3>2. ASSUME NEW t \in made \cap Labs!Lasting
          PROVE  t \in half \/ (t \in recorded /\ Ahead(t)')
      BY <2>1, <2>3, <3>1, AllAhead DEF LabInv
    <3> QED
      BY <1>b, <2>1, <2>3, <3>1, <3>2 DEF LabInv
  <2>4. CASE section = "clean"
    <3>1. section' = "over"
      BY <1>8, <2>4 DEF Labs!EndOfBlock, Labs!Goto
    <3>2. Labs!Steps = LabClean /\ LabClean \in Seq(AnyStep)
      BY <2>4, LabsAreTidy DEF LabInv, Tidy, LabClean, Labs!Steps
    <3>3. \A t : ~Ahead(t)
      BY <2>1, <3>2 DEF Ahead, LabInv
    <3> QED
      BY <1>b, <2>1, <2>4, <3>1, <3>3 DEF LabInv
  <2> QED
    BY <1>a, <2>1, <2>2, <2>3, <2>4
<1>9. ASSUME NEW p \in Labs!Processes, Labs!ProcessEnds(p) PROVE LabInv'
  <2>1. /\ made' = made \ {p} /\ Labs!Running
        /\ UNCHANGED <<lab, section, at, recorded, half, unreleased, skipped, code>>
    BY <1>9 DEF Labs!ProcessEnds
  <2>2. \A t : Ahead(t) => Ahead(t)'
    BY <1>b, <2>1 DEF Ahead
  <2> QED
    BY <1>b, <2>1, <2>2 DEF LabInv
<1>10. CASE UNCHANGED labVars
  <2>1. \A t : Ahead(t) => Ahead(t)'
    BY <1>b, <1>10 DEF Ahead, labVars
  <2> QED
    BY <1>b, <1>10, <2>1 DEF LabInv, labVars
<1> QED
  BY <1>1, <1>2, <1>3, <1>4, <1>5, <1>6, <1>7, <1>8, <1>9, <1>10, <1>s DEF Labs!Next

LEMMA LabDone == LabInv => Labs!LabsCleanUp
  BY DEF LabInv, Labs!LabsCleanUp

\* Whichever protections are asked for and whatever fails: an execution that settled is
\* no longer active, its profile's file is gone unless a call of the clean-up failed or
\* the context never got its id, and what the context holds under other names is all
\* still there; nothing lists or times a process that has ended, and one at the critical
\* level got what that level requires.  And each of the labs leaves nothing lasting
\* behind but what could not be removed (container-executor.ts:368-379, 758-807,
\* 911-976, labs/keycloak/verify.mjs:740-752).
THEOREM NothingElseStays == Spec => []OnlyTheseStay
<1>1. Init => ContainerInv /\ LabInv
  BY ContainerInit, LabInit DEF Init
<1>2. ContainerInv /\ LabInv /\ [Next]_all => (ContainerInv /\ LabInv)'
  BY OutsideSteps, ContainerNext, LabNext
<1>3. ContainerInv /\ LabInv => OnlyTheseStay
  BY ContainerDone, LabDone DEF OnlyTheseStay
<1> QED
  BY <1>1, <1>2, <1>3, PTL DEF Spec
-----------------------------------------------------------------------------
(***************************************************************************)
(* The security gate                                                       *)
(***************************************************************************)
Failures == [critical : Nat, high : Nat, medium : Nat]
Loaded == [failures : Failures, ran : BOOLEAN, score : Nat]

\* What was loaded, and what the exit code was judged by: a run that failed is among
\* the results, which stay as they are once the gate is judged.
GateInv ==
  /\ shared \in Reported \cup {None}
  /\ results \in Seq(Loaded \cup {None})
  /\ broken => \E i \in Gate!LoadedSuites : ~results[i].ran
  /\ exit = 0 => Len(results) = 4 /\ Gate!AllPassed

LEMMA GateInit ==
  ASSUME Gate!Init
  PROVE  GateInv
<1>1. None # 0
  BY NamesAssumption
<1> QED
  BY <1>1 DEF Gate!Init, GateInv

LEMMA ScoreIsNat ==
  ASSUME NEW d \in Nat
  PROVE  Gate!Score(d) \in Nat /\ (Gate!Score(d) >= 80 => d <= 20)
  BY DEF Gate!Score

LEMMA ReportsParse ==
  ASSUME NEW f \in Failures
  PROVE  Gate!Parsed(f) \in Loaded
<1>1. f.critical \in Nat /\ f.high \in Nat /\ f.medium \in Nat
  BY DEF Failures
<1>2. Gate!Deductions(f) \in Nat
  BY <1>1 DEF Gate!Deductions
<1> QED
  BY <1>2, ScoreIsNat DEF Gate!Parsed, Loaded

LEMMA GateLoads ==
  ASSUME GateInv, NEW r \in Loaded \cup {None}, Gate!Load(r),
         broken' = broken \/ (r = Gate!FailedRun /\ broken')
  PROVE  GateInv'
<1>1. /\ results' \in Seq(Loaded \cup {None}) /\ Len(results') = Len(results) + 1
      /\ Len(results) \in Nat /\ \A i \in 1..Len(results) : results'[i] = results[i]
      /\ results'[Len(results) + 1] = r
  BY DEF GateInv, Gate!Load
<1>2. shared' = shared /\ exit' = exit /\ Len(results) < 4
  BY DEF Gate!Load, Gate!Suites
<1>3. exit # 0
  BY <1>1, <1>2 DEF GateInv
<1>4. ASSUME broken' PROVE \E i \in Gate!LoadedSuites' : ~results'[i].ran
  <2>1. CASE broken
    <3>1. PICK i \in Gate!LoadedSuites : ~results[i].ran
      BY <2>1 DEF GateInv
    <3>2. i \in 1..Len(results) /\ results[i] # None
      BY <3>1 DEF Gate!LoadedSuites, GateInv
    <3>3. i \in DOMAIN results' /\ results'[i] = results[i]
      BY <1>1, <3>2
    <3> QED
      BY <3>1, <3>2, <3>3 DEF Gate!LoadedSuites
  <2>2. CASE r = Gate!FailedRun
    <3>1. r # None /\ r.ran = FALSE
      BY <2>2, NamesAssumption DEF Gate!FailedRun
    <3>2. Len(results) + 1 \in DOMAIN results'
      BY <1>1
    <3> QED
      BY <1>1, <3>1, <3>2 DEF Gate!LoadedSuites
  <2> QED
    BY <1>4, <2>1, <2>2
<1> QED
  BY <1>1, <1>2, <1>3, <1>4 DEF GateInv

LEMMA GateNext ==
  ASSUME GateInv, [Gate!Next]_gateVars
  PROVE  GateInv'
<1>0. Reported \subseteq Failures
  BY DEF Reported, Report, Failures
<1>1. ASSUME NEW report \in Reported, Gate!Load(Gate!Parsed(report)), broken' = broken
      PROVE  GateInv'
  BY <1>0, <1>1, ReportsParse, GateLoads
<1>2. CASE Gate!ReadShared
  BY <1>1, <1>2 DEF Gate!ReadShared, GateInv
<1>3. CASE Gate!Unreadable
  BY <1>3, GateLoads DEF Gate!Unreadable
<1>4. CASE Gate!RunPasses
  <2>1. Gate!Parsed(Gate!Clean) \in Loaded
    BY ReportsParse DEF Gate!Clean, Failures
  <2> QED
    BY <1>4, <2>1, GateLoads DEF Gate!RunPasses
<1>5. CASE Gate!RunFails
  <2>1. Gate!FailedRun \in Loaded
    BY DEF Gate!FailedRun, Gate!Clean, Loaded, Failures
  <2> QED
    BY <1>5, <2>1, GateLoads DEF Gate!RunFails
<1>6. CASE Gate!Decide
  <2>1. /\ Len(results) = 4 /\ UNCHANGED <<shared, results, broken>>
        /\ exit' = 0 => Gate!AllPassed
    BY <1>6 DEF Gate!Decide, Gate!Suites
  <2>2. Gate!AllPassed' <=> Gate!AllPassed
    BY <2>1 DEF Gate!AllPassed, Gate!Total, Gate!FailuresOf, Gate!LoadedSuites, Gate!ScoreOf,
                Gate!OverallPasses
  <2> QED
    BY <2>1, <2>2 DEF GateInv, Gate!LoadedSuites
<1>7. ASSUME NEW report \in Reported, Gate!ReadOwn(report) PROVE GateInv'
  BY <1>1, <1>7 DEF Gate!ReadOwn
<1>8. CASE UNCHANGED gateVars
  BY <1>8 DEF gateVars, GateInv, Gate!LoadedSuites, Gate!AllPassed, Gate!Total,
              Gate!FailuresOf, Gate!ScoreOf, Gate!OverallPasses
<1> QED
  BY <1>2, <1>3, <1>4, <1>5, <1>6, <1>7, <1>8 DEF Gate!Next

\* Every sum over the suites is one of numbers, none of which it falls short of.
LEMMA SuitesAreSummed ==
  ASSUME GateInv, NEW s \in {"critical", "high", "medium"}
  PROVE  /\ Gate!Total(s) \in Nat
         /\ Len(results) = 4 =>
              \A i \in Gate!LoadedSuites : results[i].failures[s] \in 0..Gate!Total(s)
<1>1. \A i : Gate!FailuresOf(i, s) \in Nat
  <2>1. \A i \in Gate!LoadedSuites : results[i] \in Loaded
    BY DEF GateInv, Gate!LoadedSuites
  <2>2. \A i \in Gate!LoadedSuites : results[i].failures[s] \in Nat
    BY <2>1 DEF Loaded, Failures
  <2> QED
    BY <2>2 DEF Gate!FailuresOf
<1> DEFINE f(i) == Gate!FailuresOf(i, s)
<1>2. Gate!Total(s) = f(1) + f(2) + f(3) + f(4)
  BY DEF Gate!Total
<1>3. f(1) \in Nat /\ f(2) \in Nat /\ f(3) \in Nat /\ f(4) \in Nat
  BY <1>1
<1>4. \A i \in Gate!LoadedSuites : results[i].failures[s] = f(i)
  BY DEF Gate!FailuresOf
<1>5. Len(results) = 4 => \A i \in Gate!LoadedSuites : i = 1 \/ i = 2 \/ i = 3 \/ i = 4
  <2>1. Len(results) = 4 => \A i \in Gate!LoadedSuites : i \in 1..4
    BY DEF GateInv, Gate!LoadedSuites
  <2> QED
    BY <2>1
<1> HIDE DEF f
<1> QED
  BY <1>2, <1>3, <1>4, <1>5

LEMMA GateDone == GateInv => Gate!GateMeansClean
<1> SUFFICES ASSUME GateInv, exit = 0
             PROVE  /\ ~broken
                    /\ {3, 4} \subseteq Gate!LoadedSuites
                    /\ \A i \in Gate!LoadedSuites : results[i].failures.critical = 0
                    /\ Gate!Total("high") <= 1
                    /\ Gate!Total("high") + Gate!Total("medium") <= 2
                    /\ Gate!Total("high") = 1 => Gate!Total("medium") = 0
  BY DEF Gate!GateMeansClean
<1>1. Len(results) = 4 /\ Gate!AllPassed
  BY DEF GateInv
<1> DEFINE c == Gate!Total("critical") h == Gate!Total("high") m == Gate!Total("medium")
<1>2. c \in Nat /\ h \in Nat /\ m \in Nat
  BY SuitesAreSummed
<1>3. c <= 0
  BY <1>1 DEF Gate!AllPassed, Gate!Threshold, Defaults
<1>4. ~broken
  BY <1>1 DEF GateInv, Gate!AllPassed, Gate!OverallPasses
<1>5. {3, 4} \subseteq Gate!LoadedSuites
  BY <1>1 DEF Gate!AllPassed, Gate!ScoreOf, Gate!Threshold, Defaults
<1>6. 25 * c + 15 * h + 8 * m <= 20
  <2>1. Gate!Score(Gate!Deductions([s \in DOMAIN Gate!Clean |-> Gate!Total(s)])) >= 80
    BY <1>1 DEF Gate!AllPassed, Gate!OverallPasses, Gate!Threshold, Defaults
  <2>2. Gate!Deductions([s \in DOMAIN Gate!Clean |-> Gate!Total(s)]) = 25 * c + 15 * h + 8 * m
    BY DEF Gate!Deductions, Gate!Clean
  <2>3. 25 * c + 15 * h + 8 * m \in Nat
    BY <1>2
  <2> QED
    BY <2>1, <2>2, <2>3, ScoreIsNat
<1>7. \A i \in Gate!LoadedSuites : results[i].failures["critical"] \in 0..c
  BY <1>1, SuitesAreSummed
<1> HIDE DEF c, h, m
<1>8. c = 0 /\ h <= 1 /\ h + m <= 2 /\ (h = 1 => m = 0)
  BY <1>2, <1>3, <1>6
<1>9. \A i \in Gate!LoadedSuites : results[i].failures.critical = 0
  BY <1>7, <1>8
<1> QED
  BY <1>4, <1>5, <1>8, <1>9 DEF h, m
-----------------------------------------------------------------------------
(***************************************************************************)
(* The candidate's journal                                                 *)
(***************************************************************************)
JournalKeys ==
  {"received", "response", "completed", "allowed", "success", "denied", "invalid_params"}

\* The assessment's state is that of the records it admitted, each once and of one actor,
\* and a completion was held against those before it.
Followed(r) ==
  /\ IsFiniteSet(outcomes[r]) /\ outcomes[r] \subseteq Journal!Expected(r)
  /\ Len(journal[r]) = Cardinality(outcomes[r])
  /\ outcomes[r] = {journal[r][i][1] : i \in 1..Len(journal[r])}
  /\ \A i \in 1..Len(journal[r]) : journal[r][i][2] \in {None, pseudonym[r]}
  /\ r \in assessed <=> "completed" \in outcomes[r]
  /\ r \in unfinished <=> outcomes[r] # {} /\ "completed" \notin outcomes[r]
  /\ "completed" \in outcomes[r] =>
       Journal!Whole(outcomes[r]) /\ journal[r][Len(journal[r])][1] = "completed"

\* Without a fault it has read what was written, and a completion is the last of it.
Faultless(r) ==
  /\ outcomes[r] = Journal!Expected(r) \ toWrite[r]
  /\ "completed" \notin toWrite[r] => toWrite[r] = {}

JournalInv ==
  /\ kind \in [Requests -> {"call", "denial", "invalid", "other"}]
  /\ toWrite \in [Requests -> SUBSET JournalKeys]
  /\ \A r \in Requests : toWrite[r] \subseteq Journal!Expected(r)
  /\ journal \in [Requests -> Seq(JournalKeys \X (Clients \cup {None}))]
  /\ faults \in Nat
  /\ outcomes \in [Requests -> SUBSET JournalKeys]
  /\ pseudonym \in [Requests -> Clients \cup {None}]
  /\ unfinished \subseteq Requests /\ assessed \subseteq Requests
  /\ verdict \in {"none", "accepted", "refused"}
  /\ verdict = "none" =>
       \A r \in Requests : Followed(r) /\ (faults = 0 => Faultless(r))
  /\ Journal!AssessmentIsExact

LEMMA JournalCounts == \A S : Journal!Cardinality(S) = Cardinality(S)
  BY DEF Journal!Cardinality, Cardinality

LEMMA ExpectedOfKinds ==
  ASSUME NEW r \in Requests
  PROVE  /\ kind[r] = "call" =>
              Journal!Expected(r) = {"received", "response", "completed", "allowed", "success"}
         /\ kind[r] = "denial" =>
              Journal!Expected(r) = {"received", "response", "completed", "allowed", "denied"}
         /\ kind[r] = "invalid" =>
              Journal!Expected(r) = {"received", "response", "completed", "invalid_params"}
         /\ kind[r] = "other" =>
              Journal!Expected(r) = {"received", "response", "completed"}
  BY DEF Journal!Expected, Journal!Always, Journal!Plan

LEMMA JournalInit ==
  ASSUME Journal!Init
  PROVE  JournalInv
<1>1. /\ kind \in [Requests -> DOMAIN Journal!Plan]
      /\ toWrite = [r \in Requests |-> Journal!Expected(r)]
      /\ journal = [r \in Requests |-> <<>>] /\ faults = 0
      /\ outcomes = [r \in Requests |-> {}] /\ pseudonym = [r \in Requests |-> None]
      /\ unfinished = {} /\ assessed = {} /\ verdict = "none"
  BY DEF Journal!Init
<1>2. DOMAIN Journal!Plan = {"call", "denial", "invalid", "other"}
  BY DEF Journal!Plan
<1>3. \A r \in Requests : Journal!Expected(r) \subseteq JournalKeys
  BY <1>1, <1>2, ExpectedOfKinds DEF JournalKeys
<1>4. IsFiniteSet({}) /\ Cardinality({}) = 0
  BY FS_EmptySet
<1>5. ASSUME NEW r \in Requests PROVE Followed(r) /\ Faultless(r)
  <2>1. journal[r] = <<>> /\ outcomes[r] = {} /\ toWrite[r] = Journal!Expected(r)
    BY <1>1
  <2>2. Len(journal[r]) = 0 /\ 1..Len(journal[r]) = {}
    BY <2>1
  <2>3. "completed" \in Journal!Expected(r)
    BY DEF Journal!Expected, Journal!Always
  <2> QED
    BY <1>1, <1>4, <2>1, <2>2, <2>3 DEF Followed, Faultless
<1>6. Journal!AssessmentIsExact
  BY <1>1 DEF Journal!AssessmentIsExact
<1>7. journal \in [Requests -> Seq(JournalKeys \X (Clients \cup {None}))]
  BY <1>1
<1> QED
  BY <1>1, <1>2, <1>3, <1>5, <1>6, <1>7 DEF JournalInv

\* A record that is admitted is followed.
LEMMA RecordIsFollowed ==
  ASSUME JournalInv, NEW r \in Requests, Followed(r), NEW record \in Journal!Expected(r),
         NEW who \in Clients \cup {None},
         Journal!Admits(r, record, who), kind' = kind,
         outcomes'[r] = outcomes[r] \cup {record},
         pseudonym'[r] = (IF who = None THEN pseudonym[r] ELSE who),
         r \in assessed' <=> record = "completed" \/ r \in assessed,
         r \in unfinished' <=> record # "completed",
         journal'[r] = Append(journal[r], <<record, who>>)
  PROVE  Followed(r)'
<1> DEFINE n == Len(journal[r])
<1>1. /\ journal[r] \in Seq(JournalKeys \X (Clients \cup {None})) /\ n \in Nat
      /\ DOMAIN journal[r] = 1..n
  BY LenProperties DEF JournalInv
<1>2. kind[r] \in {"call", "denial", "invalid", "other"}
  BY DEF JournalInv
<1>3. Journal!Expected(r) \subseteq JournalKeys
  BY <1>2, ExpectedOfKinds DEF JournalKeys
<1>4. <<record, who>> \in JournalKeys \X (Clients \cup {None})
  BY <1>3
<1>5. /\ Len(journal'[r]) = n + 1
      /\ \A i \in 1..n : journal'[r][i] = journal[r][i]
      /\ journal'[r][n + 1] = <<record, who>>
  BY <1>1, <1>4, AppendProperties
<1>6. /\ r \notin assessed /\ record \notin outcomes[r]
      /\ who = None \/ pseudonym[r] \in {None, who}
      /\ record = "completed" => Journal!Whole(outcomes[r])
  BY DEF Journal!Admits
<1>7. IsFiniteSet(outcomes'[r]) /\ Cardinality(outcomes'[r]) = n + 1
  <2>1. IsFiniteSet(outcomes[r]) /\ Cardinality(outcomes[r]) = n
    BY DEF Followed
  <2>2. Cardinality(outcomes[r] \cup {record}) = Cardinality(outcomes[r]) + 1
    BY <1>6, <2>1, FS_AddElement
  <2>3. IsFiniteSet(outcomes[r] \cup {record})
    BY <2>1, FS_AddElement
  <2> QED
    BY <2>1, <2>2, <2>3
<1>8. outcomes'[r] \subseteq Journal!Expected(r)'
  BY DEF Followed, Journal!Expected
<1>9. 1..(n + 1) = 1..n \cup {n + 1}
  BY <1>1
<1>10. outcomes'[r] = {journal'[r][i][1] : i \in 1..(n + 1)}
  <2>1. outcomes[r] = {journal[r][i][1] : i \in 1..n}
    BY DEF Followed
  <2>2. outcomes[r] = {journal'[r][i][1] : i \in 1..n}
    BY <1>5, <2>1
  <2>3. journal'[r][n + 1][1] = record
    BY <1>5
  <2> QED
    BY <1>9, <2>2, <2>3
<1>11. \A i \in 1..(n + 1) : journal'[r][i][2] \in {None, pseudonym'[r]}
  <2>1. ASSUME NEW i \in 1..n PROVE journal'[r][i][2] \in {None, pseudonym'[r]}
    <3>1. journal'[r][i] = journal[r][i] /\ journal[r][i][2] \in {None, pseudonym[r]}
      BY <1>5 DEF Followed
    <3> QED
      BY <1>6, <3>1
  <2>2. journal'[r][n + 1][2] \in {None, pseudonym'[r]}
    BY <1>5
  <2> QED
    BY <1>9, <2>1, <2>2
<1>12. r \in assessed' <=> "completed" \in outcomes'[r]
  BY DEF Followed
<1>13. r \in unfinished' <=> outcomes'[r] # {} /\ "completed" \notin outcomes'[r]
  BY <1>6 DEF Followed
<1>14. ASSUME "completed" \in outcomes'[r]
       PROVE  Journal!Whole(outcomes'[r]) /\ journal'[r][n + 1][1] = "completed"
  <2>1. record = "completed"
    BY <1>6, <1>14 DEF Followed
  <2>2. Journal!Whole(outcomes[r])
    BY <1>6, <2>1
  <2>3. outcomes'[r] \cap {"success", "denied"} = outcomes[r] \cap {"success", "denied"}
    BY <2>1
  <2>4. Journal!Whole(outcomes'[r])
    BY <2>1, <2>2, <2>3 DEF Journal!Whole
  <2> QED
    BY <1>5, <2>1, <2>4
<1> QED
  BY <1>5, <1>7, <1>8, <1>10, <1>11, <1>12, <1>13, <1>14 DEF Followed, Journal!Whole, Journal!Expected

\* Without a fault, a record of a request that is no denial is admitted.
LEMMA FaultlessIsAdmitted ==
  ASSUME JournalInv, NEW r \in Requests, NEW record \in toWrite[r], NEW who,
         Followed(r), Faultless(r), kind[r] # "denial",
         Journal!InTurn(r, record), who = None \/ pseudonym[r] \in {None, who},
         ~(Cardinality(Requests) > MaxOpen)
  PROVE  Journal!Admits(r, record, who)
<1>1. /\ kind[r] \in {"call", "invalid", "other"}
      /\ record \in Journal!Expected(r)
  BY DEF JournalInv
<1>2. r \notin assessed /\ record \notin outcomes[r]
  BY DEF Followed, Faultless
<1>3. Cardinality(unfinished \cup {r}) <= MaxOpen
  <2>1. unfinished \cup {r} \in SUBSET Requests /\ IsFiniteSet(Requests) /\ MaxOpen \in Nat
    BY RequestsAssumption DEF JournalInv
  <2>2. /\ IsFiniteSet(unfinished \cup {r})
        /\ Cardinality(unfinished \cup {r}) <= Cardinality(Requests)
    BY <2>1, FS_Subset
  <2>3. Cardinality(unfinished \cup {r}) \in Nat /\ Cardinality(Requests) \in Nat
    BY <2>1, <2>2, FS_CardinalityType
  <2> QED
    BY <2>1, <2>2, <2>3
<1>4. ASSUME record = "completed" PROVE Journal!Whole(outcomes[r])
  <2>1. outcomes[r] = Journal!Expected(r) \ {"completed"}
    BY <1>4 DEF Journal!InTurn, Faultless
  <2>2. Cardinality({}) = 0 /\ Cardinality({"success"}) = 1
    BY FS_EmptySet, FS_Singleton
  <2>3. CASE kind[r] = "call"
    <3>1. outcomes[r] = {"received", "response", "allowed", "success"}
      BY <2>1, <2>3, ExpectedOfKinds
    <3>2. outcomes[r] \cap {"success", "denied"} = {"success"}
      BY <3>1
    <3>3. Cardinality(outcomes[r] \cap {"success", "denied"}) = 1
      BY <2>2, <3>2
    <3> QED
      BY <3>1, <3>3, JournalCounts DEF Journal!Whole
  <2>4. CASE kind[r] # "call"
    <3>1. /\ {"received", "response"} \subseteq outcomes[r]
          /\ outcomes[r] \subseteq {"received", "response", "invalid_params"}
      BY <1>1, <2>1, <2>4, ExpectedOfKinds
    <3>2. outcomes[r] \cap {"success", "denied"} = {} /\ "allowed" \notin outcomes[r]
      BY <3>1
    <3>3. Cardinality(outcomes[r] \cap {"success", "denied"}) = 0
      BY <2>2, <3>2
    <3> QED
      BY <3>1, <3>2, <3>3, JournalCounts DEF Journal!Whole
  <2> QED
    BY <2>3, <2>4
<1> QED
  BY <1>2, <1>3, <1>4, JournalCounts DEF Journal!Admits

\* Some request asked for one of the kinds that are counted.
LEMMA AskedCounts ==
  ASSUME NEW kinds
  PROVE  /\ IsFiniteSet({r \in Requests : kind[r] \in kinds})
         /\ Journal!Asked(kinds) = Cardinality({r \in Requests : kind[r] \in kinds})
         /\ Journal!Asked(kinds) \in Nat
         /\ Journal!Asked(kinds) = 0 <=> \A r \in Requests : kind[r] \notin kinds
<1> DEFINE S == {r \in Requests : kind[r] \in kinds}
<1>1. S \in SUBSET Requests /\ IsFiniteSet(Requests)
  BY RequestsAssumption
<1>2. IsFiniteSet(S)
  BY <1>1, FS_Subset
<1>3. Journal!Asked(kinds) = Cardinality(S)
  BY JournalCounts DEF Journal!Asked
<1>4. Cardinality(S) \in Nat /\ (Cardinality(S) = 0 <=> S = {})
  BY <1>2, FS_CardinalityType, FS_EmptySet
<1> QED
  BY <1>2, <1>3, <1>4

LEMMA CountCounts ==
  ASSUME NEW k
  PROVE  /\ IsFiniteSet({r \in Requests : k \in outcomes[r]})
         /\ Journal!Count(k) = Cardinality({r \in Requests : k \in outcomes[r]})
         /\ Journal!Count(k) \in Nat
<1> DEFINE S == {r \in Requests : k \in outcomes[r]}
<1>1. S \in SUBSET Requests /\ IsFiniteSet(Requests)
  BY RequestsAssumption
<1>2. IsFiniteSet(S)
  BY <1>1, FS_Subset
<1>3. Journal!Count(k) = Cardinality(S)
  BY JournalCounts DEF Journal!Count
<1> QED
  BY <1>2, <1>3, FS_CardinalityType

LEMMA NoDenialCompletes ==
  ASSUME JournalInv, NEW r \in Requests, Followed(r), "completed" \in outcomes[r]
  PROVE  "denied" \notin outcomes[r]
<1>1. Journal!Whole(outcomes[r]) /\ IsFiniteSet(outcomes[r])
  BY DEF Followed
<1>2. "tool_rejected" \notin outcomes[r]
  BY DEF JournalInv, JournalKeys
<1>3. ASSUME "denied" \in outcomes[r] PROVE "allowed" \in outcomes[r]
  <2> DEFINE S == outcomes[r] \cap {"success", "denied"}
  <2>1. IsFiniteSet(S)
    BY <1>1, FS_Subset
  <2>2. S # {}
    BY <1>3
  <2>3. Cardinality(S) # 0
    BY <2>1, <2>2, FS_EmptySet
  <2> QED
    BY <1>1, <2>3, JournalCounts DEF Journal!Whole
<1> QED
  BY <1>1, <1>2, <1>3 DEF Journal!Whole

\* What the assessment followed to the end, and holds every record, is complete.
LEMMA FollowedIsComplete ==
  ASSUME JournalInv, NEW r \in Requests, Followed(r), outcomes[r] = Journal!Expected(r)
  PROVE  Journal!Complete(r)
<1> DEFINE n == Len(journal[r])
           keys == {e[1] : e \in Journal!ToSet(journal[r])}
           names == {e[2] : e \in Journal!ToSet(journal[r])} \ {None}
<1>1. journal[r] \in Seq(JournalKeys \X (Clients \cup {None})) /\ DOMAIN journal[r] = 1..n
  BY LenProperties DEF JournalInv
<1>2. keys = outcomes[r]
  BY <1>1 DEF Followed, Journal!ToSet
<1>3. Len(journal[r]) = Journal!Cardinality(keys)
  BY <1>2, JournalCounts DEF Followed
<1>4. Journal!Last(journal[r])[1] = "completed"
  <2>1. "completed" \in outcomes[r]
    BY DEF Journal!Expected, Journal!Always
  <2> QED
    BY <2>1 DEF Followed, Journal!Last
<1>5. Journal!Cardinality(names) <= 1
  <2>1. names \in SUBSET {pseudonym[r]}
    BY <1>1 DEF Followed, Journal!ToSet
  <2>2. IsFiniteSet({pseudonym[r]}) /\ Cardinality({pseudonym[r]}) = 1
    BY FS_Singleton
  <2> HIDE DEF names
  <2>3. Cardinality(names) <= 1
    BY <2>1, <2>2, FS_Subset
  <2> QED
    BY <2>3, JournalCounts
<1> QED
  BY <1>2, <1>3, <1>4, <1>5 DEF Journal!Complete

\* At the end of a journal that is accepted, the counts leave no request out that asked
\* for a tool.
LEMMA AcceptedIsComplete ==
  ASSUME JournalInv, \A r \in Requests : Followed(r), unfinished = {},
         Journal!Count("allowed") + Journal!Count("invalid_params")
           = Journal!Asked({"call", "denial", "invalid"}),
         Journal!Count("denied") + Journal!Count("invalid_params")
           = Journal!Asked({"denial", "invalid"}),
         NEW r \in Requests
  PROVE  Journal!Complete(r) \/ (kind[r] = "other" /\ journal[r] = <<>>)
<1> DEFINE K(kinds) == {q \in Requests : kind[q] \in kinds}
           O(k) == {q \in Requests : k \in outcomes[q]}
<1>0. \A q \in Requests : kind[q] \in {"call", "denial", "invalid", "other"}
  BY DEF JournalInv
<1>1. /\ \A kinds : IsFiniteSet(K(kinds)) /\ Journal!Asked(kinds) = Cardinality(K(kinds))
      /\ \A k : /\ IsFiniteSet(O(k)) /\ Journal!Count(k) = Cardinality(O(k))
                /\ Cardinality(O(k)) \in Nat
  <2>1. ASSUME NEW kinds
        PROVE  IsFiniteSet(K(kinds)) /\ Journal!Asked(kinds) = Cardinality(K(kinds))
    BY AskedCounts
  <2>2. ASSUME NEW k
        PROVE  /\ IsFiniteSet(O(k)) /\ Journal!Count(k) = Cardinality(O(k))
               /\ Cardinality(O(k)) \in Nat
    BY CountCounts
  <2> HIDE DEF K, O
  <2> QED
    BY <2>1, <2>2
<1>2. \A q \in Requests : /\ outcomes[q] \subseteq Journal!Expected(q)
                          /\ outcomes[q] = {} \/ "completed" \in outcomes[q]
  BY DEF Followed
<1>3. \A q \in Requests : /\ "allowed" \in outcomes[q] => kind[q] \in {"call", "denial"}
                          /\ "invalid_params" \in outcomes[q] => kind[q] = "invalid"
  BY <1>0, <1>2, ExpectedOfKinds
<1>4. O("denied") = {}
  BY <1>2, NoDenialCompletes
<1>5. Journal!Count("denied") = 0
  BY <1>1, <1>4, FS_EmptySet
<1>6. O("invalid_params") = K({"denial", "invalid"})
  <2>1. O("invalid_params") \in SUBSET K({"denial", "invalid"})
    BY <1>3
  <2>2. Cardinality(O("invalid_params")) = Cardinality(K({"denial", "invalid"}))
    <3>1. /\ Journal!Count("invalid_params") = Cardinality(O("invalid_params"))
          /\ Journal!Asked({"denial", "invalid"}) = Cardinality(K({"denial", "invalid"}))
          /\ Cardinality(O("invalid_params")) \in Nat
      BY <1>1
    <3> HIDE DEF O, K
    <3> QED
      BY <1>5, <3>1
  <2>3. IsFiniteSet(K({"denial", "invalid"}))
    BY <1>1
  <2> HIDE DEF O, K
  <2> QED
    BY <2>1, <2>2, <2>3, FS_Subset
<1>7. O("allowed") \cup O("invalid_params") = K({"call", "denial", "invalid"})
  <2> DEFINE U == O("allowed") \cup O("invalid_params")
             T == K({"call", "denial", "invalid"})
  <2>1. U \in SUBSET T
    BY <1>3
  <2>2. O("allowed") \cap O("invalid_params") = {}
    BY <1>3
  <2>3. IsFiniteSet(T) /\ IsFiniteSet(O("allowed")) /\ IsFiniteSet(O("invalid_params"))
    BY <1>1
  <2>4. Cardinality(U) = Cardinality(O("allowed")) + Cardinality(O("invalid_params"))
                           - Cardinality({})
    <3> HIDE DEF O
    <3>1. Cardinality(U) = Cardinality(O("allowed")) + Cardinality(O("invalid_params"))
                             - Cardinality(O("allowed") \cap O("invalid_params"))
      BY <2>3, FS_Union
    <3> QED
      BY <2>2, <3>1
  <2>5. Cardinality(U) = Cardinality(T)
    <3>1. /\ Journal!Count("allowed") = Cardinality(O("allowed"))
          /\ Journal!Count("invalid_params") = Cardinality(O("invalid_params"))
          /\ Cardinality(O("allowed")) \in Nat /\ Cardinality(O("invalid_params")) \in Nat
          /\ Journal!Asked({"call", "denial", "invalid"}) = Cardinality(T)
      BY <1>1
    <3> HIDE DEF O, T, U
    <3> QED
      BY <2>4, <3>1, FS_EmptySet
  <2> HIDE DEF U, T
  <2>6. U = T
    BY <2>1, <2>3, <2>5, FS_Subset
  <2> QED
    BY <2>6 DEF U, T
<1>8. CASE kind[r] = "denial"
  BY <1>3, <1>6, <1>8
<1>9. CASE kind[r] = "invalid"
  <2>1. "invalid_params" \in outcomes[r]
    BY <1>6, <1>9
  <2>2. {"received", "response", "completed", "invalid_params"} \subseteq outcomes[r]
    BY <1>2, <2>1 DEF Followed, Journal!Whole
  <2>3. outcomes[r] = Journal!Expected(r)
    BY <1>2, <1>9, <2>2, ExpectedOfKinds
  <2> QED
    BY <2>3, FollowedIsComplete
<1>10. CASE kind[r] = "call"
  <2>1. "allowed" \in outcomes[r]
    BY <1>3, <1>7, <1>10
  <2>2. "completed" \in outcomes[r] /\ Journal!Whole(outcomes[r])
    BY <1>2, <2>1 DEF Followed
  <2>3. Cardinality(outcomes[r] \cap {"success", "denied"}) = 1
    BY <2>1, <2>2, JournalCounts DEF Journal!Whole
  <2>4. outcomes[r] \cap {"success", "denied"} # {}
    BY <2>3, FS_EmptySet
  <2>5. "success" \in outcomes[r]
    BY <1>2, <1>10, <2>4, ExpectedOfKinds
  <2>6. outcomes[r] = Journal!Expected(r)
    BY <1>2, <1>10, <2>1, <2>2, <2>5, ExpectedOfKinds DEF Journal!Whole
  <2> QED
    BY <2>6, FollowedIsComplete
<1>11. CASE kind[r] = "other"
  <2>1. CASE outcomes[r] = {}
    <3>1. Len(journal[r]) = 0
      BY <2>1, FS_EmptySet DEF Followed
    <3>2. journal[r] = <<>>
      BY <3>1, EmptySeq DEF JournalInv
    <3> QED
      BY <1>11, <3>2
  <2>2. CASE outcomes[r] # {}
    <3>1. {"received", "response", "completed"} \subseteq outcomes[r]
      BY <1>2, <2>2 DEF Followed, Journal!Whole
    <3>2. outcomes[r] = Journal!Expected(r)
      BY <1>2, <1>11, <3>1, ExpectedOfKinds
    <3> QED
      BY <3>2, FollowedIsComplete
  <2> QED
    BY <2>1, <2>2
<1> QED
  BY <1>0, <1>8, <1>9, <1>10, <1>11

\* At the end of a journal of a run with calls, without denials and without a fault, the
\* counts are those of the benchmark.
LEMMA FaultlessCounts ==
  ASSUME JournalInv, \A r \in Requests : Followed(r) /\ Faultless(r),
         \A r \in Requests : toWrite[r] = {},
         Journal!Asked({"denial"}) = 0
  PROVE  /\ unfinished = {}
         /\ Journal!Asked({"call", "denial", "invalid"}) =
              Journal!Count("allowed") + Journal!Count("invalid_params")
         /\ Journal!Asked({"denial", "invalid"}) =
              Journal!Count("denied") + Journal!Count("invalid_params")
         /\ Journal!Asked({"call", "invalid"}) = Journal!Asked({"call", "denial", "invalid"})
<1> DEFINE K(kinds) == {q \in Requests : kind[q] \in kinds}
           O(k) == {q \in Requests : k \in outcomes[q]}
<1>0. \A q \in Requests : kind[q] \in {"call", "invalid", "other"}
  BY AskedCounts DEF JournalInv
<1>1. /\ \A kinds : IsFiniteSet(K(kinds)) /\ Journal!Asked(kinds) = Cardinality(K(kinds))
      /\ \A k : /\ IsFiniteSet(O(k)) /\ Journal!Count(k) = Cardinality(O(k))
                /\ Cardinality(O(k)) \in Nat
  <2>1. ASSUME NEW kinds
        PROVE  IsFiniteSet(K(kinds)) /\ Journal!Asked(kinds) = Cardinality(K(kinds))
    BY AskedCounts
  <2>2. ASSUME NEW k
        PROVE  /\ IsFiniteSet(O(k)) /\ Journal!Count(k) = Cardinality(O(k))
               /\ Cardinality(O(k)) \in Nat
    BY CountCounts
  <2> HIDE DEF K, O
  <2> QED
    BY <2>1, <2>2
<1>2. \A q \in Requests : outcomes[q] = Journal!Expected(q)
  BY DEF Faultless
<1>3. unfinished = {}
  <2>1. \A q \in Requests : "completed" \in outcomes[q]
    BY <1>2 DEF Journal!Expected, Journal!Always
  <2> QED
    BY <2>1 DEF JournalInv, Followed
<1>4. /\ O("allowed") = K({"call"}) /\ O("invalid_params") = K({"invalid"})
      /\ O("denied") = {}
  BY <1>0, <1>2, ExpectedOfKinds
<1>5. /\ K({"call", "denial", "invalid"}) = O("allowed") \cup O("invalid_params")
      /\ K({"call", "invalid"}) = K({"call", "denial", "invalid"})
      /\ K({"denial", "invalid"}) = O("invalid_params")
      /\ O("allowed") \cap O("invalid_params") = {}
  BY <1>0, <1>4
<1>6. Cardinality(K({"call", "denial", "invalid"})) =
        Cardinality(O("allowed")) + Cardinality(O("invalid_params"))
  <2>1. IsFiniteSet(O("allowed")) /\ IsFiniteSet(O("invalid_params"))
    BY <1>1
  <2> HIDE DEF O, K
  <2>2. Cardinality(O("allowed") \cup O("invalid_params")) =
          Cardinality(O("allowed")) + Cardinality(O("invalid_params"))
            - Cardinality(O("allowed") \cap O("invalid_params"))
    BY <2>1, FS_Union
  <2>3. Cardinality(O("allowed") \cap O("invalid_params")) = 0
    BY <1>5, FS_EmptySet
  <2>4. Cardinality(O("allowed")) \in Nat /\ Cardinality(O("invalid_params")) \in Nat
    BY <2>1, FS_CardinalityType
  <2>5. Cardinality(K({"call", "denial", "invalid"})) =
          Cardinality(O("allowed") \cup O("invalid_params"))
    BY <1>5, Zenon
  <2> QED
    BY <2>2, <2>3, <2>4, <2>5
<1>7. Cardinality(O("denied")) = 0
  BY <1>4, FS_EmptySet
<1>8. /\ Journal!Asked({"call", "denial", "invalid"}) = Cardinality(K({"call", "denial", "invalid"}))
      /\ Journal!Asked({"call", "invalid"}) = Cardinality(K({"call", "invalid"}))
      /\ Journal!Asked({"denial", "invalid"}) = Cardinality(K({"denial", "invalid"}))
      /\ Journal!Count("allowed") = Cardinality(O("allowed"))
      /\ Journal!Count("invalid_params") = Cardinality(O("invalid_params"))
      /\ Journal!Count("denied") = Cardinality(O("denied"))
      /\ Cardinality(O("invalid_params")) \in Nat
  BY <1>1
<1> HIDE DEF O, K
<1> QED
  BY <1>3, <1>5, <1>6, <1>7, <1>8

LEMMA FollowedStays ==
  ASSUME NEW q \in Requests, Followed(q), kind' = kind, outcomes'[q] = outcomes[q],
         pseudonym'[q] = pseudonym[q], journal'[q] = journal[q],
         q \in assessed' <=> q \in assessed, q \in unfinished' <=> q \in unfinished
  PROVE  Followed(q)'
<1>1. Journal!Expected(q)' = Journal!Expected(q)
  BY DEF Journal!Expected
<1>2. Journal!Whole(outcomes[q])' <=> Journal!Whole(outcomes[q])
  BY DEF Journal!Whole
<1>3. /\ IsFiniteSet(outcomes'[q]) /\ outcomes'[q] \subseteq Journal!Expected(q)'
      /\ Len(journal'[q]) = Cardinality(outcomes'[q])
  BY <1>1 DEF Followed
<1>4. /\ outcomes'[q] = {journal'[q][i][1] : i \in 1..Len(journal'[q])}
      /\ \A i \in 1..Len(journal'[q]) : journal'[q][i][2] \in {None, pseudonym'[q]}
  BY DEF Followed
<1>5. /\ q \in assessed' <=> "completed" \in outcomes'[q]
      /\ q \in unfinished' <=> outcomes'[q] # {} /\ "completed" \notin outcomes'[q]
      /\ "completed" \in outcomes'[q] =>
           Journal!Whole(outcomes[q])' /\ journal'[q][Len(journal'[q])][1] = "completed"
  BY <1>2 DEF Followed
<1> QED
  BY <1>3, <1>4, <1>5 DEF Followed

LEMMA JournalWrites ==
  ASSUME JournalInv, NEW r \in Requests, NEW record, NEW who \in Clients \cup {None},
         NEW again \in BOOLEAN, Journal!Write(r, record, who, again)
  PROVE  JournalInv'
<1> DEFINE fault == again \/ ~Journal!InTurn(r, record)
                      \/ (who # None /\ pseudonym[r] \notin {None, who})
<1>1. /\ verdict = "none" /\ record \in toWrite[r] /\ kind' = kind
      /\ toWrite' = [toWrite EXCEPT ![r] = IF again THEN @ ELSE @ \ {record}]
      /\ journal' = [journal EXCEPT ![r] = Append(@, <<record, who>>)]
      /\ faults' = faults + (IF fault THEN 1 ELSE 0)
      /\ Journal!Record(r, record, who)
  BY DEF Journal!Write, Journal!Faulty
<1>2. /\ \A q \in Requests : Followed(q) /\ (faults = 0 => Faultless(q))
      /\ record \in Journal!Expected(r) /\ record \in JournalKeys /\ faults \in Nat
  BY <1>1 DEF JournalInv
<1>3. /\ kind' \in [Requests -> {"call", "denial", "invalid", "other"}]
      /\ toWrite' \in [Requests -> SUBSET JournalKeys]
      /\ \A q \in Requests : toWrite'[q] \subseteq Journal!Expected(q)'
      /\ faults' \in Nat
  <2>1. \A q \in Requests : toWrite'[q] \subseteq toWrite[q]
    BY <1>1 DEF JournalInv
  <2>2. \A q \in Requests : Journal!Expected(q)' = Journal!Expected(q)
    BY <1>1 DEF Journal!Expected
  <2>3. \A q \in Requests : toWrite[q] \subseteq Journal!Expected(q)
    BY DEF JournalInv
  <2>4. toWrite' \in [Requests -> SUBSET JournalKeys]
    BY <1>1 DEF JournalInv
  <2>5. faults' \in Nat
    BY <1>1, <1>2
  <2> QED
    BY <1>1, <2>1, <2>2, <2>3, <2>4, <2>5 DEF JournalInv
<1>4. journal' \in [Requests -> Seq(JournalKeys \X (Clients \cup {None}))]
  <2>1. Append(journal[r], <<record, who>>) \in Seq(JournalKeys \X (Clients \cup {None}))
    BY <1>2, AppendProperties DEF JournalInv
  <2> QED
    BY <1>1, <2>1 DEF JournalInv
<1> HIDE DEF fault
<1>5. CASE Journal!Admits(r, record, who)
  <2>1. /\ outcomes' = [outcomes EXCEPT ![r] = @ \cup {record}]
        /\ pseudonym' = [pseudonym EXCEPT ![r] = IF who = None THEN @ ELSE who]
        /\ unfinished' = IF record = "completed" THEN unfinished \ {r} ELSE unfinished \cup {r}
        /\ assessed' = IF record = "completed" THEN assessed \cup {r} ELSE assessed
        /\ verdict' = verdict
    BY <1>1, <1>5 DEF Journal!Record
  <2>2. /\ outcomes' \in [Requests -> SUBSET JournalKeys]
        /\ pseudonym' \in [Requests -> Clients \cup {None}]
        /\ unfinished' \subseteq Requests /\ assessed' \subseteq Requests
    BY <1>2, <2>1 DEF JournalInv
  <2>3. /\ outcomes'[r] = outcomes[r] \cup {record}
        /\ pseudonym'[r] = (IF who = None THEN pseudonym[r] ELSE who)
        /\ r \in assessed' <=> record = "completed" \/ r \in assessed
        /\ r \in unfinished' <=> record # "completed"
        /\ journal'[r] = Append(journal[r], <<record, who>>)
    BY <1>1, <2>1 DEF JournalInv
  <2>4. Followed(r)'
    BY <1>1, <1>2, <1>5, <2>3, RecordIsFollowed
  <2>5. ASSUME NEW q \in Requests, q # r PROVE Followed(q)'
    <3>1. /\ outcomes'[q] = outcomes[q] /\ pseudonym'[q] = pseudonym[q]
          /\ journal'[q] = journal[q]
          /\ q \in assessed' <=> q \in assessed
          /\ q \in unfinished' <=> q \in unfinished
      BY <1>1, <2>1, <2>5 DEF JournalInv
    <3>2. Followed(q)
      BY <1>2
    <3> QED
      BY <1>1, <3>1, <3>2, FollowedStays
  <2>6. ASSUME faults' = 0, NEW q \in Requests PROVE Faultless(q)'
    <3>1. faults = 0 /\ ~fault
      BY <1>1, <1>2, <2>6
    <3>2. Faultless(q) /\ Journal!Expected(q)' = Journal!Expected(q)
      BY <1>1, <1>2, <3>1 DEF Journal!Expected
    <3>3. CASE q = r
      <4>1. ~again /\ Journal!InTurn(r, record)
        BY <3>1 DEF fault
      <4>2. toWrite'[r] = toWrite[r] \ {record}
        BY <1>1, <4>1 DEF JournalInv
      <4>3. Journal!Expected(r) \ (toWrite[r] \ {record}) =
              (Journal!Expected(r) \ toWrite[r]) \cup {record}
        BY <1>2
      <4>4. "completed" \notin toWrite'[r] => toWrite'[r] = {}
        BY <1>1, <3>2, <3>3, <4>1, <4>2 DEF Faultless, Journal!InTurn
      <4> QED
        BY <2>3, <3>2, <3>3, <4>2, <4>3, <4>4 DEF Faultless
    <3>4. CASE q # r
      <4>1. outcomes'[q] = outcomes[q] /\ toWrite'[q] = toWrite[q]
        BY <1>1, <2>1, <3>4 DEF JournalInv
      <4> QED
        BY <3>2, <4>1 DEF Faultless
    <3> QED
      BY <3>3, <3>4
  <2>7. \A q \in Requests : Followed(q)' /\ (faults' = 0 => Faultless(q)')
    BY <2>4, <2>5, <2>6
  <2>8. Journal!AssessmentIsExact'
    BY <1>1, <2>1 DEF Journal!AssessmentIsExact
  <2> QED
    BY <1>1, <1>3, <1>4, <2>1, <2>2, <2>7, <2>8 DEF JournalInv
<1>6. CASE ~Journal!Admits(r, record, who)
  <2>1. verdict' = "refused" /\ UNCHANGED <<outcomes, pseudonym, unfinished, assessed>>
    BY <1>1, <1>6 DEF Journal!Record
  <2>2. \/ faults' > 0 \/ kind[r] = "denial" \/ Cardinality(Requests) > MaxOpen
    <3>1. SUFFICES ASSUME ~(faults' > 0), kind[r] # "denial",
                          ~(Cardinality(Requests) > MaxOpen)
                   PROVE  FALSE
      OBVIOUS
    <3>2. faults = 0 /\ ~fault
      BY <1>1, <1>2, <3>1
    <3>3. Followed(r) /\ Faultless(r)
      BY <1>2, <3>2
    <3>4. Journal!InTurn(r, record) /\ (who = None \/ pseudonym[r] \in {None, who})
      BY <3>2 DEF fault
    <3> QED
      BY <1>1, <1>6, <3>1, <3>3, <3>4, FaultlessIsAdmitted
  <2>3. ASSUME kind[r] = "denial" PROVE Journal!Asked({"denial"}) > 0
    <3>1. kind[r] \in {"denial"}
      BY <2>3
    <3>2. Journal!Asked({"denial"}) # 0 /\ Journal!Asked({"denial"}) \in Nat
      BY <3>1, AskedCounts
    <3> QED
      BY <3>2
  <2>4. Journal!Asked({"denial"})' = Journal!Asked({"denial"})
    BY <1>1 DEF Journal!Asked
  <2>5. Journal!AssessmentIsExact'
    BY <2>1, <2>2, <2>3, <2>4, JournalCounts DEF Journal!AssessmentIsExact
  <2> QED
    BY <1>3, <1>4, <2>1, <2>5 DEF JournalInv
<1> QED
  BY <1>5, <1>6

LEMMA JournalLoses ==
  ASSUME JournalInv, NEW r \in Requests, NEW record, Journal!Lose(r, record)
  PROVE  JournalInv'
<1>1. /\ verdict = "none" /\ faults' = faults + 1
      /\ toWrite' = [toWrite EXCEPT ![r] = @ \ {record}]
      /\ UNCHANGED <<kind, journal, outcomes, pseudonym, unfinished, assessed, verdict>>
  BY DEF Journal!Lose, Journal!Faulty, Journal!assessVars
<1>2. faults' \in Nat /\ faults' # 0
  BY <1>1 DEF JournalInv
<1>3. \A q \in Requests : /\ Journal!Expected(q)' = Journal!Expected(q)
                          /\ toWrite'[q] \subseteq toWrite[q]
  BY <1>1 DEF JournalInv, Journal!Expected
<1>4. /\ toWrite' \in [Requests -> SUBSET JournalKeys]
      /\ \A q \in Requests : toWrite'[q] \subseteq Journal!Expected(q)'
  BY <1>1, <1>3 DEF JournalInv
<1>5. \A q \in Requests : Followed(q)'
  <2>1. ASSUME NEW q \in Requests PROVE Followed(q)'
    <3>1. Followed(q)
      BY <1>1 DEF JournalInv
    <3> QED
      BY <1>1, <3>1, FollowedStays
  <2> QED
    BY <2>1
<1>6. Journal!AssessmentIsExact'
  BY <1>1 DEF Journal!AssessmentIsExact
<1> QED
  BY <1>1, <1>2, <1>4, <1>5, <1>6 DEF JournalInv

LEMMA JournalEnds ==
  ASSUME JournalInv, Journal!End
  PROVE  JournalInv'
<1> DEFINE passes ==
      /\ unfinished = {}
      /\ Journal!Asked({"call", "denial", "invalid"}) > 0
      /\ Journal!Count("allowed") + Journal!Count("invalid_params")
           = Journal!Asked({"call", "denial", "invalid"})
      /\ Journal!Count("denied") + Journal!Count("invalid_params")
           = Journal!Asked({"denial", "invalid"})
<1>1. /\ verdict = "none" /\ \A r \in Requests : toWrite[r] = {}
      /\ verdict' = IF passes THEN "accepted" ELSE "refused"
      /\ UNCHANGED <<kind, toWrite, journal, faults, outcomes, pseudonym, unfinished, assessed>>
  BY DEF Journal!End, Journal!journalVars
<1>2. \A r \in Requests : Followed(r) /\ (faults = 0 => Faultless(r))
  BY <1>1 DEF JournalInv
<1>3. /\ \A r \in Requests : Journal!Complete(r)' <=> Journal!Complete(r)
      /\ \A kinds : Journal!Asked(kinds)' = Journal!Asked(kinds)
      /\ \A r \in Requests : Journal!Expected(r)' = Journal!Expected(r)
  BY <1>1 DEF Journal!Complete, Journal!Expected, Journal!Asked
<1>4. CASE passes
  <2>1. \A r \in Requests : Journal!Complete(r) \/ (kind[r] = "other" /\ journal[r] = <<>>)
    BY <1>2, <1>4, AcceptedIsComplete
  <2>2. Journal!AssessmentIsExact'
    BY <1>1, <1>3, <1>4, <2>1 DEF Journal!AssessmentIsExact
  <2> HIDE DEF passes
  <2> QED
    BY <1>1, <1>3, <1>4, <2>2 DEF JournalInv
<1>5. CASE ~passes
  <2>1. \/ faults > 0 \/ Journal!Asked({"denial"}) > 0 \/ Journal!Asked({"call", "invalid"}) = 0
    <3>1. SUFFICES ASSUME ~(faults > 0), ~(Journal!Asked({"denial"}) > 0),
                          Journal!Asked({"call", "invalid"}) # 0
                   PROVE  FALSE
      OBVIOUS
    <3>2. /\ Journal!Asked({"denial"}) = 0 /\ Journal!Asked({"call", "invalid"}) > 0
          /\ faults = 0
      <4>1. Journal!Asked({"denial"}) \in Nat /\ Journal!Asked({"call", "invalid"}) \in Nat
        BY AskedCounts
      <4>2. faults \in Nat
        BY DEF JournalInv
      <4> QED
        BY <3>1, <4>1, <4>2
    <3>3. /\ unfinished = {}
          /\ Journal!Asked({"call", "denial", "invalid"}) =
               Journal!Count("allowed") + Journal!Count("invalid_params")
          /\ Journal!Asked({"denial", "invalid"}) =
               Journal!Count("denied") + Journal!Count("invalid_params")
          /\ Journal!Asked({"call", "invalid"}) =
               Journal!Asked({"call", "denial", "invalid"})
      BY <1>1, <1>2, <3>2, FaultlessCounts
    <3> QED
      BY <1>5, <3>2, <3>3
  <2>2. Journal!AssessmentIsExact'
    BY <1>1, <1>3, <1>5, <2>1 DEF Journal!AssessmentIsExact
  <2> HIDE DEF passes
  <2> QED
    BY <1>1, <1>3, <1>5, <2>2 DEF JournalInv
<1> QED
  BY <1>4, <1>5

LEMMA JournalNext ==
  ASSUME JournalInv, [Journal!Next]_journalVars
  PROVE  JournalInv'
<1>1. CASE UNCHANGED journalVars
  <2>1. UNCHANGED <<kind, toWrite, journal, faults, outcomes, pseudonym, unfinished, assessed,
                    verdict>>
    BY <1>1 DEF journalVars
  <2>2. /\ \A r \in Requests : Followed(r) => Followed(r)'
        /\ \A r \in Requests : Faultless(r) => Faultless(r)'
    <3>1. ASSUME NEW r \in Requests, Followed(r) PROVE Followed(r)'
      BY <2>1, <3>1, FollowedStays
    <3>2. ASSUME NEW r \in Requests, Faultless(r) PROVE Faultless(r)'
      BY <2>1, <3>2 DEF Faultless, Journal!Expected
    <3> QED
      BY <3>1, <3>2
  <2>3. Journal!AssessmentIsExact'
    BY <2>1 DEF JournalInv, Journal!AssessmentIsExact, Journal!Complete, Journal!Expected,
                Journal!Asked
  <2>4. \A r \in Requests : toWrite'[r] \subseteq Journal!Expected(r)'
    BY <2>1 DEF JournalInv, Journal!Expected
  <2> QED
    BY <2>1, <2>2, <2>3, <2>4 DEF JournalInv
<1>2. CASE Journal!Next
  BY <1>2, JournalWrites, JournalLoses, JournalEnds DEF Journal!Next
<1> QED
  BY <1>1, <1>2

\* For any number of requests, actors and faults: a journal is accepted only when each
\* request left every one of its records once, its completion last and all under one name,
\* but for requests that are no calls and left nothing at all; and it is refused without a
\* fault only when a tool denied a call, when none was made, or when there are more requests
\* than the assessment follows.  The gate opens only when no suite failed to run, the AI and
\* the performance suite are among the loaded ones, and these report nothing critical and
\* at most one high failure or two medium ones (assess-candidate.mjs:87-144, 209-212,
\* security-gate-validation.js:113-152, 277-381).
THEOREM EvidenceIsJudged == Spec => []EvidenceIsExact
<1>1. Init => JournalInv /\ GateInv
  BY JournalInit, GateInit DEF Init
<1>2. JournalInv /\ GateInv /\ [Next]_all => (JournalInv /\ GateInv)'
  BY OutsideSteps, JournalNext, GateNext
<1>3. JournalInv /\ GateInv => EvidenceIsExact
  BY GateDone DEF JournalInv, EvidenceIsExact
<1> QED
  BY <1>1, <1>2, <1>3, PTL DEF Spec
=============================================================================
