----------------------------- MODULE ClientSdk -----------------------------
(***************************************************************************)
(* SecureMCPClient, the SDK of the historical v1 server: connections that  *)
(* come, go and come back by themselves, and requests that go over the     *)
(* socket when the client believes it is connected and by HTTP when not.   *)
(* The server is any server: it may answer late, twice or never.           *)
(***************************************************************************)
EXTENDS FiniteSets

CONSTANTS
  Sockets,   \* sockets, one per call of connect()
  Requests,  \* identifiers of requests
  None

VARIABLES
  link,          \* each socket: "none", "connecting", "connected", "lost" or "closed"
  promise,       \* connect() of each socket: "none", "pending", "resolved", "rejected"
  socket,        \* this.socket
  connected,     \* this.connected
  call,          \* each request: "new", "socket", "http", "resolved" or "rejected"
  timers,        \* the requests with a timeout
  messageQueue,  \* the requests with a handler
  server         \* the requests the server received over a socket

clientVars == <<link, promise, socket, connected, call, timers, messageQueue, server>>

Init ==
  /\ link = [s \in Sockets |-> "none"] /\ promise = [s \in Sockets |-> "none"]
  /\ socket = None /\ connected = FALSE /\ call = [r \in Requests |-> "new"]
  /\ timers = {} /\ messageQueue = {} /\ server = {}

callVars == <<call, timers, messageQueue, server>>
-----------------------------------------------------------------------------
\* connect(): another socket, whatever the one before does.
Connect(s) ==
  /\ link[s] = "none" /\ link' = [link EXCEPT ![s] = "connecting"]
  /\ promise' = [promise EXCEPT ![s] = "pending"] /\ socket' = s
  /\ UNCHANGED <<connected, callVars>>

Settle(s, how) == promise' = [promise EXCEPT ![s] = IF @ = "pending" THEN how ELSE @]

\* The socket connects, or connects again.
OnConnect(s) ==
  /\ link[s] \in {"connecting", "lost"} /\ link' = [link EXCEPT ![s] = "connected"]
  /\ connected' = TRUE /\ Settle(s, "resolved")
  /\ UNCHANGED <<socket, callVars>>

OnDisconnect(s) ==
  /\ link[s] = "connected" /\ link' = [link EXCEPT ![s] = "lost"]
  /\ connected' = FALSE /\ UNCHANGED <<promise, socket, callVars>>

\* An error of the socket, or its timer while the client is not connected.
ConnectFails(s) ==
  /\ promise[s] = "pending" /\ Settle(s, "rejected")
  /\ UNCHANGED <<link, socket, connected, callVars>>

\* disconnect(): requests under way are left to their timers.
Disconnect ==
  /\ socket # None /\ link' = [link EXCEPT ![socket] = "closed"]
  /\ socket' = None /\ connected' = FALSE /\ UNCHANGED <<promise, callVars>>
-----------------------------------------------------------------------------
SendViaWebSocket(r) ==
  /\ call' = [call EXCEPT ![r] = "socket"]
  /\ timers' = timers \cup {r} /\ messageQueue' = messageQueue \cup {r}
  /\ server' = server \cup {r}

SendViaHTTP(r) ==
  call' = [call EXCEPT ![r] = "http"] /\ UNCHANGED <<timers, messageQueue, server>>

\* request(): over the socket only when both fields say so.
Request(r) ==
  /\ call[r] = "new"
  /\ IF socket # None /\ connected THEN SendViaWebSocket(r) ELSE SendViaHTTP(r)
  /\ UNCHANGED <<link, promise, socket, connected>>

\* The HTTP request ends, by its own timeout at the latest.
HttpEnds(r) ==
  /\ call[r] = "http"
  /\ \E how \in {"resolved", "rejected"} : call' = [call EXCEPT ![r] = how]
  /\ UNCHANGED <<link, promise, socket, connected, timers, messageQueue, server>>

Timeout(r) ==
  /\ r \in timers /\ timers' = timers \ {r}
  /\ messageQueue' = messageQueue \ {r} /\ call' = [call EXCEPT ![r] = "rejected"]
  /\ UNCHANGED <<link, promise, socket, connected, server>>

\* An answer on any socket, once more perhaps: only one with a handler counts, its
\* handler clears the timer and is removed.
HandleMessage(r) ==
  /\ r \in server /\ \E s \in Sockets : link[s] = "connected"
  /\ r \in messageQueue
  /\ timers' = timers \ {r} /\ messageQueue' = messageQueue \ {r}
  /\ \E how \in {"resolved", "rejected"} : call' = [call EXCEPT ![r] = how]
  /\ UNCHANGED <<link, promise, socket, connected, server>>

Next ==
  \/ \E s \in Sockets : Connect(s) \/ OnConnect(s) \/ OnDisconnect(s) \/ ConnectFails(s)
  \/ Disconnect
  \/ \E r \in Requests : Request(r) \/ HttpEnds(r) \/ Timeout(r) \/ HandleMessage(r)

Spec == Init /\ [][Next]_clientVars
-----------------------------------------------------------------------------
\* Whatever sockets connect, fail and are replaced, and whenever an answer races its
\* timer: a request over the socket has a handler exactly while it is undecided and
\* its timer runs, so each ends, once, and leaves nothing behind; and a client that
\* believes to be connected has a socket that is (client-sdk/src/index.ts:174-209).
PendingIsTimed ==
  /\ timers = {r \in Requests : call[r] = "socket"} /\ messageQueue = timers
  /\ connected => \E s \in Sockets : link[s] = "connected"
=============================================================================
