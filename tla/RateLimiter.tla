----------------------------- MODULE RateLimiter -----------------------------
(***************************************************************************)
(* TokenRateLimiter of the historical v1 server: a sliding window over one *)
(* user's operations, kept in a Redis sorted set by scripts.  A request's  *)
(* time is read where it is made, so scripts reach Redis late and in       *)
(* another order than their times; a command that fails lets the request   *)
(* through.  A member is the time and math.random(), which Redis may seed  *)
(* anew for each script: members of one time may be one member.            *)
(***************************************************************************)
EXTENDS FiniteSets, Integers

CONSTANTS
  Requests,    \* calls that may be on their way to Redis at once
  Window,      \* windowSizeMs, in ticks
  MaxRequests, \* maxRequests
  Delay,       \* how many ticks a command is on its way at most
  MaxTime,     \* bound: ticks modelled
  Salts,       \* bound: values of math.random()
  None         \* not on its way

VARIABLES
  now,         \* the time
  sent,        \* the time each request on its way was made at, or None
  purpose,     \* which operation it is: check, increment or status
  scores,      \* Redis: the sorted set, pairs of a score and a random part
  expiry,      \* Redis: when the set's key expires
  admitted     \* the times whose requests the script let through

limitVars == <<now, sent, purpose, scores, expiry, admitted>>

Times == 0..MaxTime

Init ==
  /\ now = 0 /\ sent = [r \in Requests |-> None] /\ purpose = [r \in Requests |-> "check"]
  /\ scores = {} /\ expiry = 0 /\ admitted = {}
-----------------------------------------------------------------------------
\* checkRateLimit(), incrementCounter() or getRateLimitStatus() reads the time.
Call(r) ==
  /\ sent[r] = None /\ sent' = [sent EXCEPT ![r] = now]
  /\ \E what \in {"check", "increment", "status"} : purpose' = [purpose EXCEPT ![r] = what]
  /\ UNCHANGED <<now, scores, expiry, admitted>>

\* Nothing of a call is left when its command was answered.
Arrived(r) ==
  sent' = [sent EXCEPT ![r] = None] /\ purpose' = [purpose EXCEPT ![r] = "check"]

\* ZREMRANGEBYSCORE up to the start of the window that ends at a time.
Kept(time) == {e \in scores : e[1] > time - Window}

\* ZCARD after that, which is what getRateLimitStatus() reports.
Counted(time) == Cardinality(Kept(time))

\* Mutant: one request more than the limit.
AllowsOfAtMost(count) == count <= MaxRequests

Allows(count) == count < MaxRequests

\* The script runs, all of it or not at all.
Execute(r) ==
  /\ sent[r] # None
  /\ LET kept  == Kept(sent[r])
         allow == purpose[r] = "check" /\ Allows(Counted(sent[r]))
     IN  IF allow \/ purpose[r] = "increment"
         THEN /\ \E salt \in Salts : scores' = kept \cup {<<sent[r], salt>>}
              /\ expiry' = now + Window
              /\ admitted' = IF allow THEN admitted \cup {sent[r]} ELSE admitted
         ELSE scores' = kept /\ UNCHANGED <<expiry, admitted>>
  /\ Arrived(r) /\ UNCHANGED now

\* The command fails: the request is let through without being counted.
Fail(r) ==
  /\ sent[r] # None /\ Arrived(r)
  /\ UNCHANGED <<now, scores, expiry, admitted>>

\* resetRateLimit(): counting starts again.
Reset ==
  /\ scores # {}
  /\ scores' = {} /\ admitted' = {}
  /\ UNCHANGED <<now, sent, purpose, expiry>>

\* Time passes; commands arrive within Delay, and the set expires with its key.
Tick ==
  /\ now < MaxTime /\ \A r \in Requests : sent[r] # None => now < sent[r] + Delay
  /\ now' = now + 1 /\ scores' = IF now + 1 >= expiry THEN {} ELSE scores
  /\ UNCHANGED <<sent, purpose, expiry, admitted>>

Next == \/ \E r \in Requests : Call(r) \/ Execute(r) \/ Fail(r)
        \/ Reset \/ Tick

Spec == Init /\ [][Next]_limitVars
-----------------------------------------------------------------------------
TypeOK ==
  /\ now \in Times /\ expiry \in 0..(MaxTime + Window)
  /\ scores \subseteq Times \X Salts /\ admitted \subseteq Times

\* Whatever the order in which requests' times reach Redis, no window as long as
\* Window less the delay has more than MaxRequests times whose requests were let
\* through by the script, and neither the key's expiry nor others' clean-up of the set
\* forgets one too early (token-rate-limiter.ts:93-125, 217).
WindowIsBounded ==
  /\ TypeOK
  /\ \A t \in Times : Cardinality(admitted \cap t..(t + Window - Delay - 1)) <= MaxRequests
=============================================================================
