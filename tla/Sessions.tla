------------------------------ MODULE Sessions ------------------------------
(***************************************************************************)
(* The sessions of one user of the historical v1 server (AuthMiddleware,   *)
(* its routes): a key of its own for each session and a set of their       *)
(* identifiers, kept in step by single Redis commands.  Requests           *)
(* authenticate, sign out, sign out everywhere and list at the same time,  *)
(* and a command that fails is logged and ends its operation quietly.      *)
(***************************************************************************)
EXTENDS FiniteSets

CONSTANTS
  Ids,         \* identifiers of sessions
  Requests,    \* authenticated requests
  Operations,  \* deletions and listings
  None

VARIABLES
  login,      \* each session: "new", "stored", "listed", then "issued" or "failed"
  live,       \* the sessions with a key session:<id>
  members,    \* user_sessions:<user>
  auth,       \* each request: how far authenticate() is, and for which session
  operation,  \* each operation: its next command, the sessions it has left, the orphan it found
  deleted,    \* history: sessions whose key was deleted or has expired
  stale,      \* history: requests about to write a session whose key went since they read it
  revived,    \* history: sessions such a write brought back, since their key last went
  lost        \* history: those that left the set, or never reached it, while live

storeVars == <<live, members, deleted, stale, revived, lost>>
sessionVars == <<login, auth, operation, storeVars>>

Init ==
  /\ login = [s \in Ids |-> "new"] /\ live = {} /\ members = {}
  /\ auth = [r \in Requests |-> [at |-> "idle", of |-> None]]
  /\ operation = [o \in Operations |-> [at |-> "idle", left |-> {}, orphan |-> {}]]
  /\ deleted = {} /\ stale = {} /\ revived = {} /\ lost = {}
-----------------------------------------------------------------------------
\* createSession(): the key first ...
Create(s) ==
  /\ login[s] = "new" /\ login' = [login EXCEPT ![s] = "stored"]
  /\ live' = live \cup {s}
  /\ UNCHANGED <<auth, operation, members, deleted, stale, revived, lost>>

\* ... and then the set; a failure leaves the key, and the login gives no token.
Enlist(s) ==
  /\ login[s] = "stored"
  /\ \/ /\ login' = [login EXCEPT ![s] = "listed"]
        /\ members' = members \cup {s} /\ UNCHANGED lost
     \/ /\ login' = [login EXCEPT ![s] = "failed"]
        /\ lost' = lost \cup {s} /\ UNCHANGED members
  /\ UNCHANGED <<auth, operation, live, deleted, stale, revived>>

\* The login's tokens name the session, unless the service fails; the session stays.
Issue(s) ==
  /\ login[s] = "listed"
  /\ \E how \in {"issued", "failed"} : login' = [login EXCEPT ![s] = how]
  /\ UNCHANGED <<auth, operation, storeVars>>

To(r, at) ==
  auth' = [auth EXCEPT ![r] = [at |-> at, of |-> IF at = "idle" THEN None ELSE @.of]]

\* authenticate(): the token names the session, which must be there ...
Authenticate(r, s) ==
  /\ auth[r].at = "idle" /\ login[s] = "issued" /\ s \in live
  /\ auth' = [auth EXCEPT ![r] = [at |-> "read", of |-> s]]
  /\ UNCHANGED <<login, operation, storeVars>>

\* Mutant: the session is written back as it was first read.
ReadAgainOfOnce(r) ==
  /\ auth[r].at = "read" /\ To(r, "write") /\ UNCHANGED <<login, operation, storeVars>>

\* ... updateSessionActivity() reads it again ...
ReadAgain(r) ==
  /\ auth[r].at = "read" /\ To(r, IF auth[r].of \in live THEN "write" ELSE "idle")
  /\ UNCHANGED <<login, operation, storeVars>>

\* ... and writes it back, unless that command fails.
Update(r) ==
  /\ auth[r].at = "write" /\ To(r, "idle")
  /\ \/ /\ live' = live \cup {auth[r].of}
        /\ revived' = IF r \in stale THEN revived \cup {auth[r].of} ELSE revived
     \/ UNCHANGED <<live, revived>>
  /\ stale' = stale \ {r}
  /\ UNCHANGED <<login, operation, members, deleted, lost>>
-----------------------------------------------------------------------------
\* The key of s goes, by a command or by its time.
Remove(s) ==
  /\ live' = live \ {s} /\ deleted' = deleted \cup {s} /\ revived' = revived \ {s}
  /\ stale' = stale \cup {r \in Requests : auth[r] = [at |-> "write", of |-> s]}

Goes(o, at, left) == operation' = [operation EXCEPT ![o].at = at, ![o].left = left]

\* Every route that ends or lists sessions authenticates first.
SignedIn == \E s \in Ids : login[s] = "issued"

\* deleteSession(), of a route or of checkSessionTimeout(): the session must be there.
StartDelete(o, s) ==
  /\ SignedIn /\ operation[o].at = "idle" /\ s \in live /\ Goes(o, "delete", {s})
  /\ UNCHANGED <<login, auth, storeVars>>

DeleteKey(o) ==
  /\ operation[o].at = "delete"
  /\ \E s \in operation[o].left : Remove(s)
  /\ Goes(o, "unlist", operation[o].left) /\ UNCHANGED <<login, auth, members, lost>>

Unlist(o) ==
  /\ operation[o].at = "unlist" /\ Goes(o, "idle", {})
  /\ members' = members \ operation[o].left /\ lost' = lost \cup (operation[o].left \cap live)
  /\ UNCHANGED <<login, auth, live, deleted, stale, revived>>

\* deleteAllUserSessions() and getUserSessions() read the set.
ReadMembers(o) ==
  /\ SignedIn /\ operation[o].at = "idle"
  /\ \E at \in {"deleteAll", "list"} :
       operation' = [operation EXCEPT ![o] = [at |-> at, left |-> members, orphan |-> {}]]
  /\ UNCHANGED <<login, auth, storeVars>>

DeleteNext(o) ==
  /\ operation[o].at = "deleteAll" /\ operation[o].left # {}
  /\ \E s \in operation[o].left : Remove(s) /\ Goes(o, "deleteAll", operation[o].left \ {s})
  /\ UNCHANGED <<login, auth, members, lost>>

\* The whole set goes, with whatever was added since it was read.
DeleteMembers(o) ==
  /\ operation[o].at = "deleteAll" /\ operation[o].left = {} /\ Goes(o, "idle", {})
  /\ members' = {} /\ lost' = lost \cup (members \cap live)
  /\ UNCHANGED <<login, auth, live, deleted, stale, revived>>

\* getUserSessions(): a member whose key is gone, or cannot be read, is taken out of
\* the set.
Inspect(o) ==
  /\ operation[o].at = "list"
  /\ \/ operation[o].left = {} /\ Goes(o, "idle", {})
     \/ \E s \in operation[o].left :
          \/ s \in live /\ Goes(o, "list", operation[o].left \ {s})
          \/ operation' = [operation EXCEPT ![o] =
               [at |-> "orphan", left |-> @.left \ {s}, orphan |-> {s}]]
  /\ UNCHANGED <<login, auth, storeVars>>

TakeOut(o) ==
  /\ operation[o].at = "orphan"
  /\ operation' = [operation EXCEPT ![o].at = "list", ![o].orphan = {}]
  /\ members' = members \ operation[o].orphan /\ lost' = lost \cup (operation[o].orphan \cap live)
  /\ UNCHANGED <<login, auth, live, deleted, stale, revived>>

\* A command fails: the operation is over, and its caller is told of success.
Swallow(o) ==
  /\ operation[o].at # "idle"
  /\ operation' = [operation EXCEPT ![o] = [at |-> "idle", left |-> {}, orphan |-> {}]]
  /\ UNCHANGED <<login, auth, storeVars>>

Expire(s) ==
  s \in live /\ Remove(s) /\ UNCHANGED <<login, auth, operation, members, lost>>

Next ==
  \/ \E s \in Ids : Create(s) \/ Enlist(s) \/ Issue(s) \/ Expire(s)
  \/ \E r \in Requests : (\E s \in Ids : Authenticate(r, s)) \/ ReadAgain(r) \/ Update(r)
  \/ \E o \in Operations :
       \/ \E s \in Ids : StartDelete(o, s)
       \/ DeleteKey(o) \/ Unlist(o) \/ ReadMembers(o) \/ DeleteNext(o) \/ DeleteMembers(o)
       \/ Inspect(o) \/ TakeOut(o) \/ Swallow(o)

Spec == Init /\ [][Next]_sessionVars
-----------------------------------------------------------------------------
\* However requests, deletions and listings overlap and whatever fails: a session whose
\* key went is there again only by the write of a request that had looked at it for the
\* second time before it last went (that write does bring it back); and a live session is in
\* the set, where signing out everywhere finds it, but for one that is being created, one
\* brought back, and those that a failure or a deletion of the whole set left out
\* (auth/middleware.ts:387-460).
DeletedReturnsByOldWrite ==
  /\ live \cap deleted \subseteq revived
  /\ live \subseteq members \cup {s \in Ids : login[s] = "stored"} \cup revived \cup lost
=============================================================================
