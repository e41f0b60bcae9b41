---------------------------- MODULE ReplayGuard ----------------------------
(***************************************************************************)
(* MCPSecurityValidator of the historical v1 server: a message is accepted *)
(* when it is well formed and was not accepted within CACHE_TTL, which the *)
(* validator knows from a cache that is cut by half when it is full of     *)
(* entries that have not expired.  A message is its hash, and an entry the *)
(* number of the acceptance that made it, which tells its hash and time,   *)
(* and its place in the order of insertion.                                *)
(***************************************************************************)
EXTENDS FiniteSets, Integers, Sequences

CONSTANTS
  Messages,      \* hashes of messages
  Malformed,     \* those that are no JSON-RPC request of an allowed method
  CacheTtl,      \* CACHE_TTL
  MaxCacheSize,  \* MAX_CACHE_SIZE
  MaxAccepted,   \* bound: accepted messages
  MaxTime        \* bound of the clock

VARIABLES
  clock,         \* Date.now()
  requestCache,  \* the accepted messages that have an entry, by their number
  accepted       \* history: the accepted messages and their times

guardVars == <<clock, requestCache, accepted>>

Init == clock = 0 /\ requestCache = {} /\ accepted = <<>>

Age(i) == clock - accepted[i][2]

\* isDuplicateRequest(), which also drops an entry that has expired.
IsDuplicate(m) ==
  \E i \in requestCache : accepted[i][1] = m /\ Age(i) < CacheTtl
Looked(m) == {i \in requestCache : accepted[i][1] = m => Age(i) < CacheTtl}

\* Mutant: the newest half is dropped.
HalvedOfNewest(cache) ==
  {i \in cache : Cardinality({j \in cache : j <= i}) <= Cardinality(cache) \div 2}

\* The oldest half is dropped; a sort by time keeps the order of insertion.
Halved(cache) ==
  {i \in cache : Cardinality({j \in cache : j >= i}) <= Cardinality(cache) \div 2}

\* storeRequestHash(): a full cache loses its expired entries, then its oldest ones.
Room(cache) ==
  LET fresh == {i \in cache : Age(i) <= CacheTtl}
  IN  IF Cardinality(cache) < MaxCacheSize THEN cache
      ELSE IF Cardinality(fresh) < MaxCacheSize THEN fresh
      ELSE Halved(fresh)

\* validateMessage(): duplicates first, then its form; only a valid one is stored.
ValidateMessage(m) ==
  /\ Len(accepted) < MaxAccepted
  /\ IF IsDuplicate(m) \/ m \in Malformed
     THEN requestCache' = Looked(m) /\ UNCHANGED accepted
     ELSE /\ requestCache' = Room(Looked(m)) \cup {Len(accepted) + 1}
          /\ accepted' = Append(accepted, <<m, clock>>)
  /\ UNCHANGED clock

Tick == clock < MaxTime /\ clock' = clock + 1 /\ UNCHANGED <<requestCache, accepted>>

Next == Tick \/ \E m \in Messages : ValidateMessage(m)

Spec == Init /\ [][Next]_guardVars
-----------------------------------------------------------------------------
\* Whatever is sent and whenever: the cache keeps to its size, and a message is
\* accepted again within CACHE_TTL only after more than half a cache of others was
\* accepted in between (mcp-security.ts:384-425).
ReplayNeedsPressure ==
  /\ Cardinality(requestCache) <= MaxCacheSize
  /\ \A i, j \in DOMAIN accepted :
       i < j /\ accepted[i][1] = accepted[j][1] /\ accepted[j][2] - accepted[i][2] < CacheTtl
         => j - i - 1 > MaxCacheSize \div 2
=============================================================================
