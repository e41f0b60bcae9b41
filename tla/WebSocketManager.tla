-------------------------- MODULE WebSocketManager --------------------------
(***************************************************************************)
(* WebSocketManager of the historical v1 server: sockets admitted by the   *)
(* middleware, their connections and the count that limits them, requests  *)
(* that await between their checks, and the four ways a connection ends.   *)
(* Socket.IO's disconnect(true) emits "disconnect" before it returns.      *)
(***************************************************************************)
EXTENDS FiniteSets, Integers

CONSTANTS
  Sockets,         \* sockets that try to connect
  UserOf,          \* the user each is authenticated as
  MaxConnections   \* config.websocket.maxConnections

VARIABLES
  socket,          \* of each socket: "new", "admitted", "open" or "closed"
  connections,     \* the connections map, by socket
  connectionCount, \* what the limit is compared with
  initialized,     \* connections that handled an initialize request
  inactive,        \* connections without a message for five minutes
  request,         \* where a connection's request is: "none", "validating",
                   \* "permission" or "running"
  twice,           \* history: how many places were counted out a second time
  crowded          \* history: sockets let in while another that was let in was
                   \* not counted yet

socketVars == <<socket, connections, connectionCount, twice, crowded>>
requestVars == <<initialized, inactive, request>>
managerVars == <<socketVars, requestVars>>

Init ==
  /\ socket = [s \in Sockets |-> "new"] /\ connections = {} /\ connectionCount = 0
  /\ initialized = {} /\ inactive = {}
  /\ request = [s \in Sockets |-> "none"]
  /\ twice = 0 /\ crowded = {}

Admitted == {s \in Sockets : socket[s] = "admitted"}

Become(s, what) == socket' = [socket EXCEPT ![s] = what]
Goto(s, next) == request' = [request EXCEPT ![s] = next]
-----------------------------------------------------------------------------
\* The middleware: authentication and the address' rate limit await Redis; the
\* limit on connections is compared last.
Admit(s) ==
  /\ socket[s] = "new"
  /\ IF connectionCount < MaxConnections
     THEN /\ Become(s, "admitted")
          /\ crowded' = crowded \cup {t \in {s} : Admitted # {}}
     ELSE Become(s, "closed") /\ UNCHANGED crowded
  /\ UNCHANGED <<connections, connectionCount, twice, requestVars>>

RefuseSocket(s) ==
  /\ socket[s] = "new" /\ Become(s, "closed")
  /\ UNCHANGED <<connections, connectionCount, twice, crowded, requestVars>>

\* handleConnection(), in a later turn than the comparison.
HandleConnection(s) ==
  /\ socket[s] = "admitted" /\ Become(s, "open")
  /\ connections' = connections \cup {s} /\ connectionCount' = connectionCount + 1
  /\ UNCHANGED <<twice, crowded, requestVars>>

\* handleMessage(): any message is activity.  One over the rate limit or the size
\* is answered at once; the others are validated, which awaits.
HandleMessage(s) ==
  /\ s \in connections /\ request[s] = "none"
  /\ inactive' = inactive \ {s}
  /\ \E next \in {"none", "validating"} : Goto(s, next)
  /\ UNCHANGED <<socketVars, initialized>>

\* handleRequest(), with the connection it found before: it is answered or fails,
\* initialises the connection, or asks for the user's permissions.
HandleRequest(s) ==
  /\ request[s] = "validating"
  /\ \/ Goto(s, "none") /\ initialized' \in {initialized, initialized \cup {s}}
     \/ s \in initialized /\ Goto(s, "permission") /\ UNCHANGED initialized
  /\ UNCHANGED <<socketVars, inactive>>

\* The permissions are there: the tool or the resource's loader runs, or not.
CheckPermission(s) ==
  /\ request[s] = "permission"
  /\ \E next \in {"none", "running"} : Goto(s, next)
  /\ UNCHANGED <<socketVars, initialized, inactive>>

\* The tool settles: its result, or an error, is sent.
FinishRequest(s) ==
  /\ request[s] = "running" /\ Goto(s, "none")
  /\ UNCHANGED <<socketVars, initialized, inactive>>

GoInactive(s) ==
  /\ s \in connections \ inactive /\ request[s] # "validating"
  /\ inactive' = inactive \cup {s}
  /\ UNCHANGED <<socketVars, initialized, request>>
-----------------------------------------------------------------------------
\* Mutant: handleDisconnection() leaves the count as it is.
FreedByOfNone(gone) == 0

\* What disconnect(true) takes from the count, through handleDisconnection().
FreedBy(gone) == Cardinality(gone)

\* handleDisconnection(): the socket was closed by the client or the network.
HandleDisconnection(s) ==
  /\ s \in connections /\ Become(s, "closed")
  /\ connections' = connections \ {s} /\ connectionCount' = connectionCount - FreedBy({s})
  /\ UNCHANGED <<twice, crowded, requestVars>>

\* The clean-up interval and disconnectUser(): each connection's socket is
\* disconnected, which runs handleDisconnection(); then it is deleted from the
\* map, and taken from the count once more.
Disconnect(gone) ==
  /\ gone # {}
  /\ socket' = [s \in Sockets |-> IF s \in gone THEN "closed" ELSE socket[s]]
  /\ connections' = connections \ gone
  /\ connectionCount' = connectionCount - FreedBy(gone) - Cardinality(gone)
  /\ twice' = twice + Cardinality(gone)
  /\ UNCHANGED <<crowded, requestVars>>

CleanUp == Disconnect(inactive \cap connections)
DisconnectUser(u) == Disconnect({s \in connections : UserOf[s] = u})

Next ==
  \/ \E s \in Sockets :
       \/ Admit(s) \/ RefuseSocket(s) \/ HandleConnection(s) \/ HandleDisconnection(s)
       \/ HandleMessage(s) \/ HandleRequest(s) \/ CheckPermission(s) \/ FinishRequest(s)
       \/ GoInactive(s)
  \/ CleanUp
  \/ \E u \in {UserOf[s] : s \in Sockets} : DisconnectUser(u)

Spec == Init /\ [][Next]_managerVars
-----------------------------------------------------------------------------
TypeOK ==
  /\ socket \in [Sockets -> {"new", "admitted", "open", "closed"}]
  /\ connectionCount \in Int /\ twice \in Nat /\ crowded \subseteq Sockets

\* A connection is in the map exactly while its socket is open.  The count is that of
\* the connections, less one for each that the server itself disconnected, which was
\* counted out twice: it falls below zero, and never recovers.  So the limit is passed
\* by as many connections, by those let in before another was counted, and by no
\* more; and no place is kept by a connection that ended, which would refuse later
\* sockets for ever (websocket-manager.ts:133, 153, 575-590, 763-773, 812-819).
PlacesAreCounted ==
  /\ TypeOK
  /\ connections = {s \in Sockets : socket[s] = "open"}
  /\ connectionCount = Cardinality(connections) - twice
  /\ Cardinality((connections \cup Admitted) \ crowded) <= MaxConnections + twice
=============================================================================
