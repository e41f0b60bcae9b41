--------------------------- MODULE ServerProcess ---------------------------
(***************************************************************************)
(* One worker process of the historical v1 server, from its start to its   *)
(* exit: the steps of startServer(), the handlers that modules install for *)
(* SIGTERM and SIGINT as soon as they are imported, and gracefulShutdown(),*)
(* which the last step installs beside them.  A signal has handlers from   *)
(* the first moment on, so none ends the process by itself.                *)
(***************************************************************************)
EXTENDS Naturals

CONSTANTS
  Signals,         \* deliveries of SIGTERM or SIGINT
  MaxConnections,  \* bound: open connections
  None             \* still running

VARIABLES
  begun,        \* steps of startServer() that succeeded, up to Serving
  stores,       \* the database and the cache: "none", "open" or "closed"
  http,         \* server: "off", "open", "closing" or "closed"
  connections,  \* connections the HTTP server waits for
  leaving,      \* the disconnections begun by import-time handlers
  stop,         \* gracefulShutdown() of a signal: "no", "waiting", "database", "cache"
  late,         \* the signals whose close() finds the server closing already
  status,       \* the exit status, or None
  unclosed      \* stores that were told to close and are open: it failed, or was undone

processVars == <<begun, stores, http, connections, leaving, stop, late, status, unclosed>>

Stores == {"database", "cache"}
Serving == 5

Init ==
  /\ begun = 0 /\ stores = [s \in Stores |-> "none"] /\ http = "off" /\ connections = 0
  /\ leaving = {} /\ stop = [n \in Signals |-> "no"] /\ late = {} /\ status = None
  /\ unclosed = {}

Running == status = None
Exit(code) ==
  status' = code /\ UNCHANGED <<begun, stores, http, connections, leaving, stop, late, unclosed>>
Keep == UNCHANGED <<http, connections, leaving, stop, late, status, unclosed>>
-----------------------------------------------------------------------------
\* Each step of startServer() succeeds, or the process exits.
Step(i) == Running /\ begun = i /\ begun' = i + 1

SetupTracing == Step(0) /\ UNCHANGED stores /\ Keep

InitializeDatabase == Step(1) /\ stores' = [stores EXCEPT !["database"] = "open"] /\ Keep

InitializeRedis == Step(2) /\ stores' = [stores EXCEPT !["cache"] = "open"] /\ Keep

InitializeVault == Step(3) /\ UNCHANGED stores /\ Keep

\* The application, its sockets and listen(); gracefulShutdown() is installed.
Serve ==
  /\ Step(4) /\ http' = "open"
  /\ UNCHANGED <<stores, connections, leaving, stop, late, status, unclosed>>

StartFails == Running /\ begun < Serving /\ Exit(1)

\* An exception nobody catches, in production a rejection too.
Uncaught == Running /\ Exit(1)
-----------------------------------------------------------------------------
Accept ==
  /\ Running /\ http = "open" /\ connections < MaxConnections
  /\ connections' = connections + 1
  /\ UNCHANGED <<begun, stores, http, leaving, stop, late, status, unclosed>>

ConnectionEnds ==
  /\ Running /\ connections > 0 /\ connections' = connections - 1
  /\ UNCHANGED <<begun, stores, http, leaving, stop, late, status, unclosed>>

\* A signal: the import-time handlers begin to disconnect what exists, and, once it
\* serves, the server stops accepting.
Signal(n) ==
  /\ Running /\ stop[n] = "no"
  /\ leaving' = leaving \cup {s \in Stores : stores[s] # "none"}
  /\ IF begun = Serving
     THEN /\ stop' = [stop EXCEPT ![n] = "waiting"]
          /\ late' = IF http = "open" THEN late ELSE late \cup {n}
          /\ http' = IF http = "open" THEN "closing" ELSE http
     ELSE UNCHANGED <<stop, late, http>>
  /\ UNCHANGED <<begun, stores, connections, status, unclosed>>

\* disconnectDatabase() or disconnectRedis(): a failure is logged and swallowed, and
\* leaves the store as it is.
Disconnect(s) ==
  \/ stores' = [stores EXCEPT ![s] = "closed"] /\ unclosed' = unclosed \ {s}
  \/ /\ unclosed' = IF stores[s] = "open" THEN unclosed \cup {s} ELSE unclosed
     /\ UNCHANGED stores

\* That of an import-time handler ends.
Leave(s) ==
  /\ Running /\ s \in leaving /\ leaving' = leaving \ {s} /\ Disconnect(s)
  /\ UNCHANGED <<begun, http, connections, stop, late, status>>

\* A Prisma client that was disconnected connects again for the next query.
Query ==
  /\ Running /\ stores["database"] = "closed"
  /\ stores' = [stores EXCEPT !["database"] = "open"]
  /\ unclosed' = unclosed \cup {"database"}
  /\ UNCHANGED <<begun, http, connections, leaving, stop, late, status>>

\* The server has no connection left: every pending close() is called back, and
\* their timers are cleared.
Closed ==
  /\ Running /\ http \in {"closing", "closed"} /\ connections = 0
  /\ \E n \in Signals : stop[n] = "waiting"
  /\ http' = "closed"
  /\ stop' = [n \in Signals |-> IF stop[n] = "waiting" THEN "database" ELSE stop[n]]
  /\ UNCHANGED <<begun, stores, connections, leaving, late, status, unclosed>>

\* The timer of 30 seconds that a signal started.
ForcedExit(n) == Running /\ stop[n] = "waiting" /\ http = "closing" /\ Exit(1)

DisconnectDatabase(n) ==
  /\ Running /\ stop[n] = "database" /\ stop' = [stop EXCEPT ![n] = "cache"]
  /\ Disconnect("database")
  /\ UNCHANGED <<begun, http, connections, leaving, late, status>>

\* disconnectRedis() and the exit; a close() that came too late had an error, a store
\* that did not close has none.
Finish(n) ==
  /\ Running /\ stop[n] = "cache" /\ Disconnect("cache")
  /\ status' = IF n \in late THEN 1 ELSE 0
  /\ UNCHANGED <<begun, http, connections, leaving, stop, late>>

\* The primary forks another worker for every one that exits.
Fork ==
  /\ status # None
  /\ begun' = 0 /\ stores' = [s \in Stores |-> "none"] /\ http' = "off" /\ connections' = 0
  /\ leaving' = {} /\ stop' = [n \in Signals |-> "no"] /\ late' = {} /\ status' = None
  /\ unclosed' = {}

Next ==
  \/ SetupTracing \/ InitializeDatabase \/ InitializeRedis \/ InitializeVault \/ Serve
  \/ StartFails \/ Uncaught \/ Accept \/ ConnectionEnds \/ Query \/ Closed
  \/ Fork
  \/ \E n \in Signals : Signal(n) \/ ForcedExit(n) \/ DisconnectDatabase(n) \/ Finish(n)
  \/ \E s \in Stores : Leave(s)

Spec == Init /\ [][Next]_processVars
-----------------------------------------------------------------------------
\* Whatever signals arrive and whenever, status 0 is given only by a worker that began to
\* serve, has no connection left of those it accepted, and told both stores to close; a
\* store is open then only if a disconnection failed, which nobody is told, or a query
\* connected it again.  A worker that was told to stop while it served has, until it
\* exits, a shutdown that still waits for connections, with its timer, or disconnects
\* (utils/shutdown.ts:9-43, connection.ts:138-147, redis.ts:109-121).
ZeroMeansDrained ==
  /\ status = 0 =>
       begun = Serving /\ http = "closed" /\ connections = 0
         /\ \A s \in Stores : stores[s] = "closed" \/ s \in unclosed
  /\ Running /\ http \in {"closing", "closed"} => \E n \in Signals : stop[n] # "no"
=============================================================================
