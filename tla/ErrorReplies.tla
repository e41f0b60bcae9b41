---------------------------- MODULE ErrorReplies ----------------------------
(***************************************************************************)
(* What a client of the historical server is told when its request fails:  *)
(* an error reaches errorHandler() before or after the request's own       *)
(* reply, is classified by what its text mentions, and the class decides   *)
(* the status and whether the text leaves the server.                      *)
(***************************************************************************)
EXTENDS Integers

CONSTANTS Environments, None

VARIABLES
  env,      \* config.env
  error,    \* the error on its way to the handler, or None
  reply,    \* what the client got, or None
  replies,  \* history: how many replies were sent,
  cut,      \* and whether Express broke the connection after one
  violation \* SecurityLogger.logViolation() was called

errorVars == <<env, error, reply, replies, cut, violation>>

\* The classes of AppError, by status and code.
AppErrors == [Validation |-> 400, Authentication |-> 401, Authorization |-> 403,
              NotFound |-> 404, Conflict |-> 409, TooManyRequests |-> 429, Internal |-> 500,
              BadGateway |-> 502, ServiceUnavailable |-> 503, GatewayTimeout |-> 504]

\* An error is one of these or a plain one; what counts of a plain one is which groups
\* of patterns its text or name matches.  "transient" are the database patterns that
\* make it retryable, when the text and not only the name has them.
Patterns == {"database", "transient", "network", "security", "validation"}
Errors ==
  [app : DOMAIN AppErrors, operational : BOOLEAN, matches : {{}}]
    \cup [app : {None}, operational : {FALSE},
          matches : {m \in SUBSET Patterns : "transient" \in m => "database" \in m}]

Init ==
  /\ env \in Environments
  /\ error = None /\ reply = None /\ replies = 0 /\ cut = FALSE /\ violation = FALSE
-----------------------------------------------------------------------------
Class(category, severity, retryable, security) ==
  [category |-> category, severity |-> severity, retryable |-> retryable,
   security |-> security]

\* The constructor of AppError gives every instance the prototype of AppError, and so
\* its constructor: none of the cases of the switch is met but the default.
ClassifyAppError(e) ==
  LET own == AppErrors[e.app] >= 500
  IN  Class("business_logic", IF own THEN "high" ELSE "medium", own, FALSE)

\* Mutant: what looks like a rejected input is one, whatever else it mentions.
ClassifyPlainOfEager(e) ==
  IF "validation" \in e.matches THEN Class("validation", "low", FALSE, FALSE)
  ELSE Class("unknown", "medium", FALSE, FALSE)

\* The first group that matches decides.
ClassifyPlain(e) ==
  CASE "database" \in e.matches ->
         Class("database", "high", "transient" \in e.matches, FALSE)
    [] "database" \notin e.matches /\ "network" \in e.matches ->
         Class("network", "medium", TRUE, FALSE)
    [] {"database", "network"} \cap e.matches = {} /\ "security" \in e.matches ->
         Class("security", "critical", FALSE, TRUE)
    [] e.matches = {"validation"} -> Class("validation", "low", FALSE, FALSE)
    [] e.matches = {} -> Class("unknown", "medium", FALSE, FALSE)

ClassifyError(e) == IF e.app # None THEN ClassifyAppError(e) ELSE ClassifyPlain(e)

StatusOf(e) ==
  IF e.app # None THEN AppErrors[e.app]
  ELSE IF ClassifyError(e).category = "validation" THEN 400 ELSE 500

\* getErrorMessage(): the error's own text, or "Internal server error".
TextOf(e, status) ==
  IF env = "production" /\ status >= 500 /\ ~(e.app # None /\ e.operational)
  THEN "generic" ELSE "own"

\* A request is answered, fails, or is answered and fails after that.
Respond ==
  /\ reply = None /\ error = None
  /\ reply' = [status |-> 200, text |-> "none", retryable |-> FALSE, stack |-> FALSE,
               of |-> None]
  /\ replies' = replies + 1
  /\ UNCHANGED <<env, error, cut, violation>>

Fail(e) ==
  /\ error = None /\ ~cut /\ (reply # None => reply.of = None)
  /\ error' = e
  /\ UNCHANGED <<env, reply, replies, cut, violation>>

\* errorHandler(): once the head of a reply is out, Express breaks the connection.
ErrorHandler ==
  /\ error # None
  /\ error' = None
  /\ IF reply # None
     THEN cut' = TRUE /\ UNCHANGED <<reply, replies, violation>>
     ELSE LET status == StatusOf(error)
              class == ClassifyError(error)
          IN  /\ reply' = [status |-> status, text |-> TextOf(error, status),
                           retryable |-> class.retryable, stack |-> env = "development",
                           of |-> error]
              /\ violation' = class.security
              /\ replies' = replies + 1
              /\ UNCHANGED cut
  /\ UNCHANGED env

Next == Respond \/ ErrorHandler \/ \E e \in Errors : Fail(e)

Spec == Init /\ [][Next]_errorVars
-----------------------------------------------------------------------------
\* A request is answered at most once.  In production no reply carries a stack, and the
\* text of an error nobody wrote for clients leaves only when it speaks of an input and
\* of nothing inside the server; and a client is told to try again only after a fault of
\* the server (error-handler.ts:125-240, 336-431, 521-531).
RepliesHideInternals ==
  /\ replies <= 1 /\ (cut => replies = 1)
  /\ reply # None /\ reply.of # None =>
       /\ reply.stack => env = "development"
       /\ env = "production" /\ reply.of.app = None /\ reply.text = "own" =>
            reply.status = 400 /\ reply.of.matches = {"validation"}
       /\ env = "production" /\ reply.status >= 500 /\ reply.text = "own" =>
            reply.of.operational
       /\ reply.retryable => reply.status >= 500
=============================================================================
